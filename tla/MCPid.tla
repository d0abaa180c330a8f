------------------------------- MODULE MCPid -------------------------------
(* Small instances for TLC: process ids and kill() on the one hand, the      *)
(* clock and the times of a process on the other.  The two are separate      *)
(* programs here, and a behaviour is one of either.                          *)
EXTENDS Pid

CONSTANTS ClockProcs, WRAP, MaxTicks, SleepArgs

VARIABLES ticks, tickslock, clock, proc, part

\* one of them negative, a large number as an unsigned
Args == {-1, 0, 2}

Clk == INSTANCE Clock WITH NPROC <- ClockProcs

MCInit == Init /\ Clk!Init /\ part \in {"pid", "clock"}

MCNext ==
    \/ part = "pid" /\ Next /\ UNCHANGED <<ticks, tickslock, clock, proc, part>>
    \/ part = "clock" /\ Clk!Next /\ UNCHANGED <<vars, part>>

MCSpec == MCInit /\ [][MCNext]_<<vars, ticks, tickslock, clock, proc, part>>

\* Nobody oversleeps in sys_sleep() (Clock).
NoOversleep == Clk!NoOversleep

\* What waitx() returns as waiting time (Clock).
WaitTimeBound == Clk!WaitTimeBound
=============================================================================
