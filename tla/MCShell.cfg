SPECIFICATION Spec
CONSTANTS
    NPROC = 4
    NPIPE = 1
    PIPESIZE = 2
    WRAP = 4
    Data <- Own
    MaxFile = 2
    MaxCount = 2
    MAXARGS = 3
    Opens <- ReadWrite
    Setups <- Machines
CHECK_DEADLOCK FALSE
INVARIANTS RefsExact SharedOffset NoMissedWakeup
PROPERTIES ImplementsByteStream PipelineEnds
