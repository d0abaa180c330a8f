--------------------------------- MODULE Fs ---------------------------------
(***************************************************************************)
(* The file-system calls of kernel/sysfile.c over the inode table of       *)
(* kernel/fs.c, run by several processes and interrupted by a crash.       *)
(*                                                                         *)
(* A process executes a call as a sequence of steps: acquiring an inode's  *)
(* lock, what it does while it holds it, and the two halves of iput().     *)
(* The log is used as its own module shows it to be: what the calls write  *)
(* becomes durable at once when the last call in progress ends.            *)
(***************************************************************************)
EXTENDS Inode, TLC

CONSTANTS
    Setups,         \* [disk, calls]: a disk image, and the calls of each process
    WriteMax,       \* max in filewrite(): the units of one transaction
    MaxCrash        \* how often the machine crashes

ASSUME WriteMaxAssumption == WriteMax \in Nat \ {0}

VARIABLES
    disk,           \* the disk as the cache and the log present it
    durable,        \* what a crash leaves
    itable,         \* ref, valid, lock and the copy of each inode
    outstanding,    \* log.outstanding
    th,             \* the processes
    lost,           \* history: "entry" an entry was written to a directory without links,
                    \* "inode" iput() gave up an inode that had been reused and unlinked
    crashes

vars == <<disk, durable, itable, outstanding, th, lost, crashes>>

Procs == DOMAIN th

\* a process between calls; ip, dp, old, put, cwd and open each hold a reference
\* or 0 (put: the inode iput() is at work on, and the step that follows)
Idle(calls, cwd, open) ==
    [pc |-> "idle", locked |-> FALSE, path |-> <<>>, parent |-> FALSE, then |-> "", fail |-> "",
     name |-> "", ip |-> 0, dp |-> 0, old |-> 0, put |-> 0, back |-> "",
     cwd |-> cwd, open |-> open, off |-> 0, writable |-> FALSE, calls |-> calls]

Fresh(d) == [i \in DOMAIN d.inode |->
                [ref |-> 0, valid |-> FALSE, lock |-> 0, ip |-> NewInode(T_NONE)]]

\* every process starts in the root directory (userinit(), fork())
Boot(d, calls) ==
    /\ disk' = d /\ durable' = d
    /\ itable' = [Fresh(d) EXCEPT ![ROOTINO].ref = Len(calls)]
    /\ outstanding' = 0
    /\ th' = [p \in DOMAIN calls |-> Idle(calls[p], ROOTINO, 0)]

Init ==
    /\ \E s \in Setups : /\ disk = s.disk /\ durable = s.disk
                         /\ itable = [Fresh(s.disk) EXCEPT ![ROOTINO].ref = Len(s.calls)]
                         /\ th = [p \in DOMAIN s.calls |-> Idle(s.calls[p], ROOTINO, 0)]
    /\ outstanding = 0 /\ lost = {} /\ crashes = 0

-----------------------------------------------------------------------------
(* The inode table                                                          *)

\* iget() and idup()
iget(t, i) == [t EXCEPT ![i].ref = @ + 1, ![i].valid = @ /\ t[i].ref > 0]
iunlock(t, i) == [t EXCEPT ![i].lock = 0]

\* the inode the process locks next, by the place it is at
Wants == [namex |-> "ip", link_inc |-> "ip", link_dir |-> "dp", link_bad |-> "old",
          unlink_dp |-> "dp", unlink_ip |-> "ip", create_dp |-> "dp", create_old |-> "ip",
          create_ip |-> "ip", open_ip |-> "ip", chdir_ip |-> "ip", filewrite |-> "open"]

At(p, pc) == th[p].pc = pc /\ ~disk.panic
In(p, pc) == At(p, pc) /\ th[p].locked
Copy(p, reg) == itable[th[p][reg]].ip
Move(p, r) == th' = [th EXCEPT ![p] = r @@ [@ EXCEPT !.locked = FALSE]]
Panic == disk' = [disk EXCEPT !.panic = TRUE] /\ UNCHANGED <<itable, th>>

\* the moves that leave for iput() of a register and then for another step
Put(p, reg, back) == (reg :> 0) @@ [pc |-> "iput", put |-> th[p][reg], back |-> back]

\* namex(): from the root or the current directory, on to then or to fail
From(p, path) == IF path[1] = "/" THEN ROOTINO ELSE th[p].cwd
Walk(p, path, parent, then, fail) ==
    LET from == From(p, path)
        names == SelectSeq(path, LAMBDA n : n # "/") IN
    [ path |-> names, parent |-> parent, then |-> then, fail |-> fail ] @@
    IF names # <<>> THEN [pc |-> "namex", ip |-> from]
    ELSE IF parent THEN [pc |-> "iput", put |-> from, back |-> fail]
    ELSE [pc |-> then, ip |-> from]

\* ilock()
ilock(p) ==
    LET i == th[p][Wants[th[p].pc]]
        ip == IF itable[i].valid THEN itable[i].ip ELSE disk.inode[i] IN
    /\ th[p].pc \in DOMAIN Wants /\ ~th[p].locked /\ ~disk.panic
    /\ itable[i].lock = 0
    /\ IF itable[i].ref < 1 \/ ip.type = T_NONE THEN Panic
       ELSE /\ itable' = [itable EXCEPT ![i].lock = p, ![i].valid = TRUE, ![i].ip = ip]
            /\ th' = [th EXCEPT ![p].locked = TRUE]
            /\ UNCHANGED disk
    /\ UNCHANGED <<durable, outstanding, lost, crashes>>

\* allocated on the disk, with no link
Unused(i) == disk.inode[i].type # T_NONE /\ disk.inode[i].nlink = 0

\* slip: iput() looks at the links and not at the other references
iput_IgnoresRef(p) ==
    LET i == th[p].put IN
    /\ At(p, "iput")
    /\ IF itable[i].valid /\ itable[i].ip.nlink = 0
       THEN IF itable[i].lock # 0 THEN Panic
            ELSE /\ itable' = [itable EXCEPT ![i].lock = p]
                 /\ Move(p, [pc |-> "iput_free"])
                 /\ UNCHANGED disk
       ELSE /\ itable' = [itable EXCEPT ![i].ref = @ - 1]
            /\ Move(p, [pc |-> th[p].back, put |-> 0])
            /\ UNCHANGED disk
    /\ UNCHANGED <<durable, outstanding, lost, crashes>>

\* iput() under itable.lock: the inode is given up, or must be freed first
\* (acquiresleep() may not sleep there: that would panic in sched())
iput(p) ==
    LET i == th[p].put IN
    /\ At(p, "iput")
    /\ IF itable[i].ref = 1 /\ itable[i].valid /\ itable[i].ip.nlink = 0
       THEN IF itable[i].lock # 0 THEN Panic
            ELSE /\ itable' = [itable EXCEPT ![i].lock = p]
                 /\ Move(p, [pc |-> "iput_free"])
                 /\ UNCHANGED disk
       ELSE /\ itable' = [itable EXCEPT ![i].ref = @ - 1]
            /\ Move(p, [pc |-> th[p].back, put |-> 0])
            /\ UNCHANGED disk
    /\ UNCHANGED <<durable, outstanding, lost, crashes>>

\* iput(), the inode's content and the inode are freed
iput_free(p) ==
    LET i == th[p].put
        t == itrunc(disk, i, itable[i].ip)
        ip == [t.ip EXCEPT !.type = T_NONE] IN
    /\ At(p, "iput_free")
    /\ disk' = iupdate(t.d, i, ip)
    /\ itable' = [itable EXCEPT ![i].ip = ip, ![i].valid = FALSE, ![i].lock = 0]
    /\ Move(p, [pc |-> "iput_drop"])
    /\ UNCHANGED <<durable, outstanding, lost, crashes>>

\* iput(), back under itable.lock: the reference goes, whatever happened meanwhile
iput_drop(p) ==
    LET i == th[p].put IN
    /\ At(p, "iput_drop")
    /\ itable' = [itable EXCEPT ![i].ref = @ - 1]
    /\ lost' = IF itable[i].ref = 1 /\ Unused(i) THEN lost \cup {"inode"} ELSE lost
    /\ Move(p, [pc |-> th[p].back, put |-> 0])
    /\ UNCHANGED <<disk, durable, outstanding, crashes>>

\* one turn of namex()'s loop, with the inode locked
namex(p) ==
    LET i == th[p].ip
        off == dirlookup(disk, Copy(p, "ip"), Head(th[p].path))
        next == UnitAt(disk, Copy(p, "ip"), off)[2]
        rest == Tail(th[p].path) IN
    /\ In(p, "namex")
    /\ \/ /\ Copy(p, "ip").type = T_DIR /\ th[p].parent /\ rest = <<>>
          /\ itable' = iunlock(itable, i)
          /\ Move(p, [dp |-> i, ip |-> 0, name |-> Head(th[p].path), pc |-> th[p].then])
       \/ /\ Copy(p, "ip").type = T_DIR /\ ~(th[p].parent /\ rest = <<>>) /\ off # -1
          /\ itable' = iget(iunlock(itable, i), next)
          /\ Move(p, [path |-> rest, ip |-> next] @@
                     Put(p, "ip", IF rest = <<>> THEN th[p].then ELSE "namex"))
       \/ /\ Copy(p, "ip").type # T_DIR \/ (~(th[p].parent /\ rest = <<>>) /\ off = -1)
          /\ itable' = iunlock(itable, i)
          /\ Move(p, Put(p, "ip", th[p].fail))
    /\ UNCHANGED <<disk, durable, outstanding, lost, crashes>>

-----------------------------------------------------------------------------
(* begin_op() and the first steps of a call; end_op()                       *)

\* for the calls that resolve a path: does nameiparent() do it, and what follows
Resolves == [link |-> [parent |-> FALSE, then |-> "link_inc"],
             unlink |-> [parent |-> TRUE, then |-> "unlink_dp"],
             open |-> [parent |-> FALSE, then |-> "open_ip"],
             create |-> [parent |-> TRUE, then |-> "create_dp"],
             chdir |-> [parent |-> FALSE, then |-> "chdir_ip"]]

Call(p) == Head(th[p].calls)

\* a file is open; for filewrite(), one that is writable, not a device, and there
\* is something to write
CanClose(p) == th[p].open # 0
CanWrite(p) == /\ th[p].open # 0 /\ th[p].writable /\ Call(p).units # <<>>
               /\ disk.inode[th[p].open].type # T_DEVICE

\* write() and close() that return without a transaction
return(p) ==
    /\ At(p, "idle") /\ th[p].calls # <<>>
    /\ \/ Call(p).op = "write" /\ ~CanWrite(p)
       \/ Call(p).op = "close" /\ ~CanClose(p)
    /\ th' = [th EXCEPT ![p].calls = Tail(@)]
    /\ UNCHANGED <<disk, durable, itable, outstanding, lost, crashes>>

\* begin_op() and the step after it.  (It may have to wait for the log, which is
\* the subject of Log: a call that waits there holds no lock and has done nothing,
\* so this machine only allows more calls side by side than the log admits.)
begin_op(p) ==
    LET c == Call(p) IN
    /\ At(p, "idle") /\ th[p].calls # <<>>
    /\ outstanding' = outstanding + 1
    /\ \/ /\ c.op \in DOMAIN Resolves
          /\ itable' = iget(itable, From(p, c.path))
          /\ Move(p, Walk(p, c.path, Resolves[c.op].parent, Resolves[c.op].then, "end"))
       \/ /\ c.op = "write" /\ CanWrite(p)   \* filewrite()
          /\ Move(p, [pc |-> "filewrite"])
          /\ UNCHANGED itable
       \/ /\ c.op \in {"close", "exit"} /\ CanClose(p)   \* fileclose(), also in exit()
          /\ Move(p, Put(p, "open", "end"))
          /\ UNCHANGED itable
       \/ /\ c.op = "exit" /\ ~CanClose(p)   \* exit(), after its files
          /\ Move(p, Put(p, "cwd", "end"))
          /\ UNCHANGED itable
    /\ UNCHANGED <<disk, durable, lost, crashes>>

\* the calls left when a transaction ends: filewrite() and exit() may need more
Left(p) ==
    IF \/ Call(p).op = "write" /\ Call(p).units # <<>>
       \/ Call(p).op = "exit" /\ th[p].cwd # 0
    THEN th[p].calls ELSE Tail(th[p].calls)

Between(p) == [off |-> th[p].off, writable |-> th[p].writable] @@ Idle(Left(p), th[p].cwd, th[p].open)

\* slip: the last end_op() of a group is taken for every end_op()
end_op_Early(p) ==
    /\ At(p, "end")
    /\ outstanding' = outstanding - 1
    /\ durable' = disk
    /\ Move(p, Between(p))
    /\ UNCHANGED <<disk, itable, lost, crashes>>

\* end_op(): the last call in progress commits
end_op(p) ==
    /\ At(p, "end")
    /\ outstanding' = outstanding - 1
    /\ durable' = IF outstanding = 1 THEN disk ELSE durable
    /\ Move(p, Between(p))
    /\ UNCHANGED <<disk, itable, lost, crashes>>

-----------------------------------------------------------------------------
(* sys_link()                                                               *)

link_inc(p) ==
    LET i == th[p].ip
        ip == [Copy(p, "ip") EXCEPT !.nlink = @ + 1]
        t == iunlock(itable, i) IN
    /\ In(p, "link_inc")
    /\ IF Copy(p, "ip").type = T_DIR
       THEN itable' = t /\ Move(p, Put(p, "ip", "end")) /\ UNCHANGED disk
       ELSE /\ disk' = iupdate(disk, i, ip)
            /\ itable' = iget([t EXCEPT ![i].ip = ip], From(p, Call(p).new))
            /\ Move(p, Walk(p, Call(p).new, TRUE, "link_dir", "link_bad") @@ [ip |-> 0, old |-> i])
    /\ UNCHANGED <<durable, outstanding, lost, crashes>>

\* dirlink(); when the name exists, the inode it names is taken and given up
link_dir(p) ==
    LET off == dirlookup(disk, Copy(p, "dp"), th[p].name)
        i == UnitAt(disk, Copy(p, "dp"), off)[2] IN
    /\ In(p, "link_dir")
    /\ \/ /\ off # -1
          /\ itable' = iget(itable, i)
          /\ Move(p, [pc |-> "iput", put |-> i, back |-> "link_exists"])
          /\ UNCHANGED <<disk, lost>>
       \/ /\ off = -1
          /\ \E w \in {dirlink(disk, th[p].dp, Copy(p, "dp"), th[p].name, th[p].old)} :
                /\ disk' = w.d
                /\ itable' = iunlock([itable EXCEPT ![th[p].dp].ip = w.ip], th[p].dp)
                /\ lost' = IF w.tot = 1 /\ w.ip.nlink = 0 THEN lost \cup {"entry"} ELSE lost
                /\ Move(p, Put(p, "dp", IF w.tot = 1 THEN "link_put" ELSE "link_bad"))
    /\ UNCHANGED <<durable, outstanding, crashes>>

link_exists(p) ==
    /\ At(p, "link_exists")
    /\ itable' = iunlock(itable, th[p].dp)
    /\ Move(p, Put(p, "dp", "link_bad"))
    /\ UNCHANGED <<disk, durable, outstanding, lost, crashes>>

link_put(p) ==
    /\ At(p, "link_put")
    /\ Move(p, Put(p, "old", "end"))
    /\ UNCHANGED <<disk, durable, itable, outstanding, lost, crashes>>

\* the link that was counted in advance is taken back
link_bad(p) ==
    LET i == th[p].old
        ip == [Copy(p, "old") EXCEPT !.nlink = @ - 1] IN
    /\ In(p, "link_bad")
    /\ disk' = iupdate(disk, i, ip)
    /\ itable' = iunlock([itable EXCEPT ![i].ip = ip], i)
    /\ Move(p, Put(p, "old", "end"))
    /\ UNCHANGED <<durable, outstanding, lost, crashes>>

-----------------------------------------------------------------------------
(* sys_unlink(): the directory stays locked while the inode is locked       *)

\* slip: "bad:" gives the directory up without unlocking it
unlink_dp_KeepsLock(p) ==
    LET off == dirlookup(disk, Copy(p, "dp"), th[p].name)
        i == UnitAt(disk, Copy(p, "dp"), off)[2] IN
    /\ In(p, "unlink_dp")
    /\ IF th[p].name \in {".", ".."} \/ off = -1
       THEN Move(p, Put(p, "dp", "end")) /\ UNCHANGED itable
       ELSE /\ itable' = iget(itable, i)
            /\ Move(p, [pc |-> "unlink_ip", ip |-> i])
    /\ UNCHANGED <<disk, durable, outstanding, lost, crashes>>

unlink_dp(p) ==
    LET off == dirlookup(disk, Copy(p, "dp"), th[p].name)
        i == UnitAt(disk, Copy(p, "dp"), off)[2] IN
    /\ In(p, "unlink_dp")
    /\ IF th[p].name \in {".", ".."} \/ off = -1
       THEN /\ itable' = iunlock(itable, th[p].dp)
            /\ Move(p, Put(p, "dp", "end"))
       ELSE /\ itable' = iget(itable, i)
            /\ Move(p, [pc |-> "unlink_ip", ip |-> i])
    /\ UNCHANGED <<disk, durable, outstanding, lost, crashes>>

unlink_ip(p) ==
    LET isdir == Copy(p, "ip").type = T_DIR
        off == dirlookup(disk, Copy(p, "dp"), th[p].name) IN
    /\ In(p, "unlink_ip")
    /\ IF Copy(p, "ip").nlink < 1 THEN Panic
       ELSE IF isdir /\ ~isdirempty(disk, Copy(p, "ip"))
       THEN /\ itable' = iunlock(itable, th[p].ip)
            /\ Move(p, Put(p, "ip", "unlink_bad"))
            /\ UNCHANGED disk
       ELSE \E w \in {writei(disk, th[p].dp, Copy(p, "dp"), off, <<Zero>>)} :
            LET dp == IF isdir THEN [w.ip EXCEPT !.nlink = @ - 1] ELSE w.ip IN
            IF w.tot # 1 THEN Panic
            ELSE /\ disk' = iupdate(w.d, th[p].dp, dp)
                 /\ itable' = iunlock([itable EXCEPT ![th[p].dp].ip = dp], th[p].dp)
                 /\ Move(p, Put(p, "dp", "unlink_dec"))
    /\ UNCHANGED <<durable, outstanding, lost, crashes>>

unlink_bad(p) ==
    /\ At(p, "unlink_bad")
    /\ itable' = iunlock(itable, th[p].dp)
    /\ Move(p, Put(p, "dp", "end"))
    /\ UNCHANGED <<disk, durable, outstanding, lost, crashes>>

unlink_dec(p) ==
    LET i == th[p].ip
        ip == [Copy(p, "ip") EXCEPT !.nlink = @ - 1] IN
    /\ At(p, "unlink_dec")
    /\ disk' = iupdate(disk, i, ip)
    /\ itable' = iunlock([itable EXCEPT ![i].ip = ip], i)
    /\ Move(p, Put(p, "ip", "end"))
    /\ UNCHANGED <<durable, outstanding, lost, crashes>>

-----------------------------------------------------------------------------
(* create(), with sys_open(), sys_mkdir() and sys_mknod()                    *)

create_dp(p) ==
    LET off == dirlookup(disk, Copy(p, "dp"), th[p].name)
        old == UnitAt(disk, Copy(p, "dp"), off)[2]
        a == ialloc(disk, Call(p).type)
        t == iunlock(itable, th[p].dp) IN
    /\ In(p, "create_dp")
    /\ \/ /\ off # -1
          /\ itable' = iget(t, old)
          /\ Move(p, [ip |-> old] @@ Put(p, "dp", "create_old"))
          /\ UNCHANGED disk
       \/ /\ off = -1 /\ a.inum = 0
          /\ itable' = t
          /\ Move(p, Put(p, "dp", "end"))
          /\ UNCHANGED disk
       \/ /\ off = -1 /\ a.inum # 0
          /\ disk' = a.d
          /\ itable' = iget(itable, a.inum)
          /\ Move(p, [pc |-> "create_ip", ip |-> a.inum])
    /\ UNCHANGED <<durable, outstanding, lost, crashes>>

create_old(p) ==
    /\ In(p, "create_old")
    /\ IF Call(p).type = T_FILE /\ Copy(p, "ip").type \in {T_FILE, T_DEVICE}
       THEN Move(p, [pc |-> "opened"]) /\ UNCHANGED itable
       ELSE itable' = iunlock(itable, th[p].ip) /\ Move(p, Put(p, "ip", "end"))
    /\ UNCHANGED <<disk, durable, outstanding, lost, crashes>>

\* dirlink() of one more entry, if the one before succeeded
AndLink(w, i, name, inum) == IF w.tot = 1 THEN dirlink(w.d, i, w.ip, name, inum) ELSE w

\* the new inode gets its link, a directory "." and "..", the parent the name
create_ip(p) ==
    LET i == th[p].ip
        d == th[p].dp
        isdir == Call(p).type = T_DIR
        new == [Copy(p, "ip") EXCEPT !.nlink = 1]
        start == [d |-> iupdate(disk, i, new), ip |-> new, tot |-> 1] IN
    /\ In(p, "create_ip")
    /\ \E dots \in {IF isdir THEN AndLink(AndLink(start, i, ".", i), i, "..", d) ELSE start} :
       \E name \in {AndLink([dots EXCEPT !.ip = Copy(p, "dp")], d, th[p].name, i)} :
          LET parent == IF isdir THEN [name.ip EXCEPT !.nlink = @ + 1] ELSE name.ip
              failed == [dots.ip EXCEPT !.nlink = 0] IN
          IF name.tot = 1
          THEN /\ disk' = iupdate(name.d, d, parent)
               /\ itable' = iunlock([itable EXCEPT ![i].ip = dots.ip, ![d].ip = parent], d)
               /\ Move(p, Put(p, "dp", IF Call(p).type = T_FILE THEN "opened" ELSE "made"))
               /\ lost' = IF name.ip.nlink = 0 THEN lost \cup {"entry"} ELSE lost
          ELSE /\ disk' = iupdate(name.d, i, failed)
               /\ itable' = iunlock([itable EXCEPT ![i].ip = failed, ![d].ip = name.ip], i)
               /\ Move(p, Put(p, "ip", "create_fail"))
               /\ UNCHANGED lost
    /\ UNCHANGED <<durable, outstanding, crashes>>

create_fail(p) ==
    /\ At(p, "create_fail")
    /\ itable' = iunlock(itable, th[p].dp)
    /\ Move(p, Put(p, "dp", "end"))
    /\ UNCHANGED <<disk, durable, outstanding, lost, crashes>>

\* sys_mkdir() and sys_mknod(): iunlockput()
made(p) ==
    /\ At(p, "made")
    /\ itable' = iunlock(itable, th[p].ip)
    /\ Move(p, Put(p, "ip", "end"))
    /\ UNCHANGED <<disk, durable, outstanding, lost, crashes>>

\* sys_open() without O_CREATE; a directory opens for reading only
open_ip(p) ==
    /\ In(p, "open_ip")
    /\ IF Copy(p, "ip").type = T_DIR /\ Call(p).write
       THEN itable' = iunlock(itable, th[p].ip) /\ Move(p, Put(p, "ip", "end"))
       ELSE Move(p, [pc |-> "opened"]) /\ UNCHANGED itable
    /\ UNCHANGED <<disk, durable, outstanding, lost, crashes>>

\* sys_open() with the inode locked: a file and a descriptor, or neither.
\* (The major number of a device is left out: any may be out of range.)
opened(p) ==
    LET i == th[p].ip
        t == IF Call(p).trunc /\ Copy(p, "ip").type = T_FILE THEN itrunc(disk, i, Copy(p, "ip"))
             ELSE [d |-> disk, ip |-> Copy(p, "ip")] IN
    /\ At(p, "opened")
    /\ \/ /\ th[p].open = 0
          /\ disk' = t.d
          /\ itable' = iunlock([itable EXCEPT ![i].ip = t.ip], i)
          /\ Move(p, [pc |-> "end", ip |-> 0, open |-> i, off |-> 0, writable |-> Call(p).write])
       \/ /\ \/ th[p].open # 0                              \* filealloc() or fdalloc() fails
             \/ Copy(p, "ip").type = T_DEVICE               \* ip->major is out of range
          /\ itable' = iunlock(itable, i)
          /\ Move(p, Put(p, "ip", "end"))
          /\ UNCHANGED disk
    /\ UNCHANGED <<durable, outstanding, lost, crashes>>

-----------------------------------------------------------------------------
(* sys_chdir() and filewrite() of an inode                                   *)

chdir_ip(p) ==
    LET i == th[p].ip
        isdir == Copy(p, "ip").type = T_DIR IN
    /\ In(p, "chdir_ip")
    /\ itable' = iunlock(itable, i)
    /\ Move(p, IF isdir THEN [cwd |-> i, ip |-> 0] @@ Put(p, "cwd", "end") ELSE Put(p, "ip", "end"))
    /\ UNCHANGED <<disk, durable, outstanding, lost, crashes>>

\* one turn of filewrite()'s loop; an incomplete writei() ends it
filewrite(p) ==
    LET i == th[p].open
        units == Call(p).units
        n1 == Min({WriteMax, Len(units)}) IN
    /\ In(p, "filewrite")
    /\ \E w \in {writei(disk, i, Copy(p, "open"), th[p].off, SubSeq(units, 1, n1))} :
          /\ disk' = w.d
          /\ itable' = iunlock([itable EXCEPT ![i].ip = w.ip], i)
          /\ Move(p, [pc |-> "end", off |-> th[p].off + Max({0, w.tot}),
                      calls |-> [th[p].calls EXCEPT
                          ![1].units = IF w.tot = n1 THEN SubSeq(@, n1 + 1, Len(@)) ELSE <<>>]])
    /\ UNCHANGED <<durable, outstanding, lost, crashes>>

\* the machine goes down, recovery restores what was committed, and the
\* processes that still had calls to make start again
Crash ==
    /\ crashes < MaxCrash /\ ~disk.panic
    /\ \E p \in Procs : th[p].pc # "idle"
    /\ crashes' = crashes + 1
    /\ Boot(durable, [p \in Procs |-> IF th[p].pc = "idle" THEN th[p].calls ELSE Tail(th[p].calls)])
    /\ UNCHANGED lost

Step(p) ==
    \/ return(p) \/ begin_op(p) \/ end_op(p) \/ ilock(p) \/ iput(p) \/ iput_free(p) \/ iput_drop(p) \/ namex(p)
    \/ link_inc(p) \/ link_dir(p) \/ link_exists(p) \/ link_put(p) \/ link_bad(p)
    \/ unlink_dp(p) \/ unlink_ip(p) \/ unlink_bad(p) \/ unlink_dec(p)
    \/ create_dp(p) \/ create_old(p) \/ create_ip(p) \/ create_fail(p) \/ made(p)
    \/ open_ip(p) \/ opened(p) \/ chdir_ip(p) \/ filewrite(p)

Next == (\E p \in Procs : Step(p)) \/ Crash

Spec == Init /\ [][Next]_vars

-----------------------------------------------------------------------------

Allocated(d) == {i \in DOMAIN d.inode : d.inode[i].type # T_NONE}
\* the directories that a path leads to
Dirs(d) ==
    LET Names(s) == {i \in Allocated(d) : /\ d.inode[i].type = T_DIR
                                          /\ \E j \in s : \E off \in 0..(d.inode[j].size - 1) :
                                                LET u == UnitAt(d, d.inode[j], off) IN
                                                u # Zero /\ u[2] = i} IN
    FoldLeft(LAMBDA s, n : s \cup Names(s), {ROOTINO}, [n \in 1..Cardinality(DOMAIN d.inode) |-> n])

\* the places where such a directory has an entry, and the ones that count as links
Entries(d) == {<<i, off>> \in Dirs(d) \X (0..(MAXFILE * BSIZE - 1)) :
                   off < d.inode[i].size /\ UnitAt(d, d.inode[i], off) # Zero}
At2(d, e) == UnitAt(d, d.inode[e[1]], e[2])
LinksTo(d, i) == {e \in Entries(d) : At2(d, e)[2] = i /\ At2(d, e)[1] # "."}

Mapped(d, ip, bn) ==
    IF bn < NDIRECT THEN ip.addrs[bn] # 0
    ELSE ip.addrs[NDIRECT] # 0 /\ d.data[ip.addrs[NDIRECT]][bn - NDIRECT] # Zero

\* The blocks marked in the bitmap are exactly those of the files, each of one
\* file, and no file has a hole below its size, so readi() never allocates.
BlocksExact(d) ==
    LET all == FoldLeft(LAMBDA s, i : s \o BlocksOf(d, d.inode[i]), <<>>,
                        [i \in 1..Cardinality(DOMAIN d.inode) |-> i]) IN
    /\ ToSet(all) = d.used
    /\ Len(all) = Cardinality(d.used)
    /\ \A i \in Allocated(d) : \A off \in 0..(d.inode[i].size - 1) :
          Mapped(d, d.inode[i], off \div BSIZE)

\* Names are unique in a directory and name allocated inodes; "." is the
\* directory itself, ".." the one that names it (the root names itself).  An
\* inode's nlink is the number of links to it: never fewer, and more only after
\* something was created in a directory that had just been removed.
TreeExact(d) ==
    /\ \A e \in Entries(d) : /\ At2(d, e)[2] \in Allocated(d)
                             /\ Offsets(d, d.inode[e[1]], At2(d, e)[1]) = {e[2]}
    /\ \A i \in Dirs(d) : UnitAt(d, d.inode[i], 0) = <<".", i>>
    /\ \A i \in Allocated(d) : d.inode[i].nlink >= Cardinality(LinksTo(d, i))
    /\ \A i \in Dirs(d) : \E e \in LinksTo(d, i) :
          UnitAt(d, d.inode[i], 1) = <<"..", e[1]>> /\ (e[2] = 1 => i = ROOTINO)
    /\ "entry" \notin lost => \A i \in Allocated(d) : d.inode[i].nlink = Cardinality(LinksTo(d, i))

\* Whatever calls ran side by side, and wherever the crash came, the disk that
\* recovery presents needs no repair: end_op() commits a group of calls only as
\* a whole, and each call leaves bitmap, inodes and directories in agreement.
FsckClean == BlocksExact(durable) /\ TreeExact(durable)

References(i) ==
    FoldFunction(+, 0, [p \in Procs |->
        Cardinality({reg \in {"ip", "dp", "old", "put", "cwd", "open"} : th[p][reg] = i})])

\* ip->ref counts the pointers to the inode; the copy in the table is the dinode
\* on the disk; an inode without links is kept only while someone refers to it
\* (or a crash came first, or the race of iput_drop); and none of the panics of
\* fs.c and sys_unlink() is reached: "ilock: no type", "freeing free block",
\* "unlink: nlink < 1", a sleep inside iput()'s spin lock.  (One legal sequence does
\* reach "ilock: no type", and the instances leave it out: ".." of a current
\* directory that was removed, and then its parent.)
InodesExact ==
    /\ ~disk.panic
    /\ \A i \in DOMAIN itable :
          /\ itable[i].ref = References(i)
          /\ itable[i].ref > 0 /\ itable[i].valid => itable[i].ip = disk.inode[i]
          /\ crashes = 0 /\ "inode" \notin lost /\ Unused(i) => itable[i].ref > 0

Waiting(p) == /\ th[p].pc \in DOMAIN Wants /\ ~th[p].locked
              /\ itable[th[p][Wants[th[p].pc]]].lock # 0

\* Nobody is left waiting for an inode's lock: while calls are in progress some
\* process can go on, because every path out of a call unlocks what it locked
\* and locks are taken a directory before what it names.
NoDeadlock == (\A p \in Procs : Waiting(p) \/ th[p].calls = <<>>)
                  => \A p \in Procs : th[p].calls = <<>>

\* Not true of the code, because create() and link() do not look at dp->nlink:
\* nlink is the "Number of links to inode in file system" (fs.h), without the
\* exception of TreeExact().
LinksCounted == \A i \in Allocated(durable) :
                    durable.inode[i].nlink = Cardinality(LinksTo(durable, i))

\* Not true of the code, because of iput_drop: "iput() frees if the reference and
\* link counts have fallen to zero" (fs.c).
FreedWhenUnused == crashes = 0 => \A i \in DOMAIN itable : Unused(i) => itable[i].ref > 0
=============================================================================
