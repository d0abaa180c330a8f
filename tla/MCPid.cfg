SPECIFICATION MCSpec
CONSTANTS
    NPROC = 3
    NCPU = 2
    MaxPid = 7
    KillArgs = {1, 2, 4, 6}
    ClockProcs = 2
    WRAP = 16
    MaxTicks = 3
    SleepArgs <- Args
CHECK_DEADLOCK FALSE
INVARIANTS KilledWasNamed NoOversleep WaitTimeBound
