------------------------------- MODULE Shell -------------------------------
(***************************************************************************)
(* Processes over the files and pipes of module File: either any program,  *)
(* or the shell (user/sh.c) that parses a line with module ShParse and     *)
(* runs it, with cat (user/cat.c) and a writer as the programs.  What a    *)
(* process of the shell still has to do is the sequence of calls prog[p].  *)
(* Every path of runcmd() ends in exit().                                  *)
(***************************************************************************)
EXTENDS File, ShParse

CONSTANTS
    Setups      \* machines: what runs, the descriptors of process 1, and the sizes

VARIABLES
    prog,       \* the calls each process still has to make
    parent      \* p->parent; 0 is init, which waits for ever

vars == <<fvars, prog, parent>>

Op(o) == [op |-> o]
close(d) == [op |-> "close", fd |-> d]
dup(d) == [op |-> "dup", fd |-> d]
fork1(c) == [op |-> "fork1", child |-> c]

\* what exec() of a program comes to: cat, a program that writes three bytes,
\* one that exits; exec() of anything else fails and runcmd() exits
Program(name) ==
    CASE name = <<"c">> -> <<Op("cat"), Op("exit")>>
      [] name = <<"w">> -> <<[op |-> "write", n |-> 3], Op("exit")>>
      [] OTHER -> <<Op("exit")>>

\* slip: the parent keeps the write end open while it waits
RECURSIVE runcmd_KeepsEnd(_)
runcmd_KeepsEnd(cmd) ==
    CASE cmd.type = "PIPE" -> <<Op("pipe"),
                                fork1(<<close(1), dup(4), close(3), close(4)>> \o runcmd_KeepsEnd(cmd.left)),
                                fork1(<<close(0), dup(3), close(3), close(4)>> \o runcmd_KeepsEnd(cmd.right)),
                                close(3), Op("wait"), Op("wait"), Op("exit")>>
      [] cmd.type = "EXEC" /\ cmd.argv # <<>> -> Program(cmd.argv[1])
      [] OTHER -> <<Op("exit")>>

\* runcmd(): descriptors 0 to 2 are open, so pipe() returns 3 and 4
RECURSIVE runcmd(_)
runcmd(cmd) ==
    CASE cmd.type = "EXEC" -> IF cmd.argv = <<>> THEN <<Op("exit")>> ELSE Program(cmd.argv[1])
      [] cmd.type = "REDIR" -> <<close(cmd.fd), [op |-> "open", mode |-> cmd.mode]>> \o runcmd(cmd.cmd)
      [] cmd.type = "LIST" -> <<fork1(runcmd(cmd.left)), Op("wait")>> \o runcmd(cmd.right)
      [] cmd.type = "PIPE" -> <<Op("pipe"),
                                fork1(<<close(1), dup(4), close(3), close(4)>> \o runcmd(cmd.left)),
                                fork1(<<close(0), dup(3), close(3), close(4)>> \o runcmd(cmd.right)),
                                close(3), close(4), Op("wait"), Op("wait"), Op("exit")>>
      [] cmd.type = "BACK" -> <<fork1(runcmd(cmd.cmd)), Op("exit")>>
      [] OTHER -> <<Op("exit")>>                \* parsecmd() has panicked

\* sh: a line, in a child, and wait(0)
main(line) == <<fork1(runcmd(parsecmd(line))), Op("wait")>>

Anything(C) == [op |-> "anything", calls |-> C]
Arbitrary(p) == prog[p] # <<>> /\ Head(prog[p]).op = "anything"

Console == [NoFile EXCEPT !.ref = 3, !.type = "DEVICE", !.readable = TRUE, !.writable = TRUE]
Inode == [NoFile EXCEPT !.ref = 1, !.type = "INODE", !.readable = TRUE, !.writable = TRUE]

\* process 1 is a shell with the console on descriptors 0 to 2, or runs any
\* program with nothing open or a file open
Init ==
    \E s \in Setups :
        LET first == CASE s.open = "console" -> Console [] s.open = "inode" -> Inode [] s.open = "nothing" -> NoFile
        IN
        /\ pipe = [x \in Pipes |-> NoPipe]
        /\ pages = 1..s.pages
        /\ killed = {}
        /\ ftable = [f \in 1..s.nfile |-> IF f = 1 THEN first ELSE NoFile]
        /\ ofile = [p \in Procs |-> [d \in 0..(s.nofile - 1) |-> IF p = 1 /\ d < first.ref THEN 1 ELSE 0]]
        /\ content = IF s.open = "inode" THEN <<[f \in 1..s.nfile |-> 0]>> ELSE <<>>
        /\ th = [p \in Procs |-> CASE p = 1 -> User [] p \in 2..s.slots -> Unused
                                   [] p > s.slots -> [User EXCEPT !.pc = "absent"]]
        /\ prog = [p \in Procs |-> IF s.calls # {} THEN <<Anything(s.calls)>> ELSE IF p = 1 THEN main(s.line) ELSE <<>>]
        /\ parent = [p \in Procs |-> 0]

\* the children of a process that exits go to init
Reparent(p) == [q \in Procs |-> IF parent[q] = p THEN 0 ELSE parent[q]]

Then(p, c) == prog' = [prog EXCEPT ![p] = c]
Rest(p) == Tail(prog[p])

\* a program that makes any sequence of some calls
AnyCall(p) == Arbitrary(p) /\ UserCall(p, Head(prog[p]).calls) /\ UNCHANGED <<prog, parent>>

\* a turn of cat()'s loop: read from descriptor 0, and write what was read, or end
cat(p) ==
    LET in == ftable[ofile[p][0]] IN
    \/ /\ sys_read(p, 0, 2)
       /\ IF in.type = "PIPE" THEN UNCHANGED prog
          ELSE Then(p, <<[op |-> "write", n |-> ftable'[ofile[p][0]].off - in.off]>> \o prog[p])
    \/ in.type # "PIPE" /\ in.off = Len(content) /\ Then(p, Rest(p)) /\ UNCHANGED fvars

\* the next call of a process of the shell.  panic() and failing calls lead to exit().
Call(p) ==
    /\ ~Arbitrary(p) /\ prog[p] # <<>> /\ th[p].pc = "user"
    /\ LET c == Head(prog[p]) IN
       \/ c.op = "close" /\ sys_close(p, c.fd) /\ Then(p, Rest(p)) /\ UNCHANGED parent
       \/ c.op = "dup" /\ sys_dup(p, c.fd) /\ Then(p, Rest(p)) /\ UNCHANGED parent
       \/ c.op = "pipe" /\ sys_pipe(p) /\ Then(p, <<Op("piped")>> \o Rest(p)) /\ UNCHANGED parent
       \/ /\ c.op = "open"
          /\ sys_open(p, [type |-> "INODE", readable |-> c.mode = "RDONLY", writable |-> c.mode # "RDONLY",
                          trunc |-> c.mode = "TRUNC"])
          /\ Then(p, Rest(p)) /\ UNCHANGED parent
       \/ c.op \in {"pipe", "open"} /\ FreeFiles = {} /\ Then(p, <<Op("exit")>>) /\ UNCHANGED <<fvars, parent>>
       \/ c.op = "cat" /\ cat(p) /\ UNCHANGED parent
       \/ c.op = "write" /\ sys_write(p, 1, c.n) /\ Then(p, Rest(p)) /\ UNCHANGED parent
       \/ /\ c.op = "write" /\ ftable[ofile[p][1]].type = "DEVICE"
          /\ Then(p, Rest(p)) /\ UNCHANGED <<fvars, parent>>
       \/ c.op = "exit" /\ sys_exit(p) /\ Then(p, <<>>) /\ UNCHANGED parent
       \/ /\ c.op = "fork1"
          /\ IF FreeSlots = {} THEN Then(p, <<Op("exit")>>) /\ UNCHANGED <<fvars, parent>>
             ELSE /\ fork(p)
                  /\ prog' = [prog EXCEPT ![p] = Rest(p), ![allocproc] = c.child]
                  /\ parent' = [parent EXCEPT ![allocproc] = p]
       \/ /\ c.op = "wait"
          /\ IF \E q \in Procs : parent[q] = p
             THEN \E q \in Procs : parent[q] = p /\ reap(q) /\ parent' = [parent EXCEPT ![q] = 0]
             ELSE UNCHANGED <<fvars, parent>>
          /\ Then(p, Rest(p))

\* a step of the kernel; what a call returns decides how the program goes on
Step(p) ==
    /\ Kernel(p)
    /\ prog' = [prog EXCEPT ![p] =
                 CASE Arbitrary(p) \/ @ = <<>> \/ th'[p].pc # "user" -> @
                   [] th[p].pc = "piperead_copy" /\ th[p].buf # <<>> -> <<[op |-> "write", n |-> Len(th[p].buf)]>> \o @
                   [] th[p].pc = "piperead_copy" /\ th[p].buf = <<>> -> Tail(@)
                   [] th[p].pc = "writei" \/ (th[p].pc = "filewrite_off" /\ th[p].n > 1) -> <<Op("exit")>>
                   [] th[p].pc = "pipewrite" /\ Len(th[p].buf) < th[p].n -> <<Op("exit")>>
                   [] th[p].pc = "pipealloc" -> Tail(@)
                   [] th[p].pc \in {"fileclose", "fileclose_end"} /\ Head(@).op = "piped" -> <<Op("exit")>>
                   [] OTHER -> @]
    /\ parent' = IF th'[p].pc = "zombie" THEN Reparent(p) ELSE parent

\* init, or the parent in any program, waits for q
Reaped(q) == (Arbitrary(q) \/ parent[q] = 0) /\ reap(q) /\ UNCHANGED <<prog, parent>>

\* the shell waits for the next line, and nothing of the last one is left
Done == prog[1] = <<>> /\ \A q \in Procs \ {1} : th[q].pc \in {"unused", "absent"}

Kill(q) == Arbitrary(q) /\ "kill" \in Head(prog[q]).calls /\ kill(q) /\ UNCHANGED <<prog, parent>>

Next == \E p \in Procs : AnyCall(p) \/ Call(p) \/ Step(p) \/ Reaped(p) \/ Kill(p)

\* the kernel serves every process, the shell's programs make their calls, and
\* init waits; of the three only one is enabled at a time
Fairness == \A p \in Procs : WF_vars(Step(p) \/ Call(p) \/ Reaped(p))

Spec == Init /\ [][Next]_vars /\ Fairness

-----------------------------------------------------------------------------
(* Properties.                                                              *)

\* Every command of the shell comes to its end and all its processes are reaped:
\* each holder of a pipe's write end closes it, so that cat sees the end of file.
PipelineEnds == ~Arbitrary(1) ~> Done
=============================================================================
