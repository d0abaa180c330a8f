SPECIFICATION Spec
CONSTANTS
    NPROC = 3
    NCPU = 2
INVARIANTS StackExclusive RunningOnCPU FreedOffCPU SchedNoPanic NoLostWakeup ParentAlive NoSpinCycle LockDiscipline
