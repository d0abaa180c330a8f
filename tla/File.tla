-------------------------------- MODULE File --------------------------------
(***************************************************************************)
(* Open files (kernel/file.c) and the system calls on descriptors          *)
(* (kernel/sysfile.c), with fork() and exit() as far as they copy and      *)
(* close descriptors (kernel/proc.c).  Pipes are those of module Pipe; the *)
(* one inode is its contents; a device has no state here.  A section under *)
(* ftable.lock is one step; filewrite() is cut at ilock(), writei() and    *)
(* the update of f->off.  A call that fails at once changes nothing and is *)
(* left out.                                                               *)
(***************************************************************************)
EXTENDS Pipe, FiniteSets, FiniteSetsExt, SequencesExt

CONSTANTS
    MaxFile,    \* the size of the largest file, in chunks of filewrite()
    MaxCount,   \* the largest n passed to read() and write()
    Opens       \* the ways in which open() is called

ASSUME FileAssumption == {MaxFile, MaxCount} \subseteq Nat

VARIABLES
    ftable,     \* the file structures
    ofile,      \* p->ofile: a file or 0
    pages,      \* the pages kalloc() has left
    content     \* the inode's data: for each chunk how often each open file wrote it

fvars == <<pipe, th, killed, ftable, ofile, pages, content>>

\* the file table and p->ofile are as large as Init makes them
Files == DOMAIN ftable
Fds == DOMAIN ofile[1]

NoFile == [ref |-> 0, type |-> "NONE", pi |-> 0, readable |-> FALSE, writable |-> FALSE, off |-> 0]
Unused == [User EXCEPT !.pc = "unused"]

\* the first free slot of the file table, the first free descriptor
FreeFiles == {f \in Files : ftable[f].ref = 0}
filealloc == Min(FreeFiles)
FreeFds(p) == {d \in Fds : ofile[p][d] = 0}
fdalloc(p) == Min(FreeFds(p))

\* a chunk that no open file wrote
Unwritten == [f \in Files |-> 0]

\* some thread is between ilock() and iunlock() in filewrite()
InodeLocked == \E q \in Procs : th[q].pc \in {"writei", "filewrite_off"}

SetFd(p, d, f) == ofile' = [ofile EXCEPT ![p][d] = f]
Closing(p, fs) == Go(p, [pc |-> "fileclose", todo |-> fs])

\* slip: the reference is not counted
sys_dup_NoRef(p, d) ==
    /\ th[p].pc = "user" /\ p \notin killed
    /\ ofile[p][d] # 0 /\ FreeFds(p) # {}
    /\ SetFd(p, fdalloc(p), ofile[p][d])
    /\ UNCHANGED <<pipe, th, killed, ftable, pages, content>>

\* sys_dup(): the descriptor first, then filedup()
sys_dup(p, d) ==
    /\ th[p].pc = "user" /\ p \notin killed
    /\ ofile[p][d] # 0 /\ FreeFds(p) # {}
    /\ SetFd(p, fdalloc(p), ofile[p][d])
    /\ Go(p, [pc |-> "filedup", todo |-> <<ofile[p][d]>>])
    /\ UNCHANGED <<pipe, killed, ftable, pages, content>>

\* filedup(), called by sys_dup()
filedup(p) ==
    /\ th[p].pc = "filedup"
    /\ ftable' = [ftable EXCEPT ![th[p].todo[1]].ref = @ + 1]
    /\ Return(p)
    /\ UNCHANGED <<pipe, killed, ofile, pages, content>>

sys_close(p, d) ==
    /\ th[p].pc = "user" /\ p \notin killed /\ ofile[p][d] # 0
    /\ SetFd(p, d, 0)
    /\ Closing(p, <<ofile[p][d]>>)
    /\ UNCHANGED <<pipe, killed, ftable, pages, content>>

\* exit() of any process but init; a killed process does nothing else
sys_exit(p) ==
    /\ th[p].pc = "user" /\ p # 1
    /\ Go(p, [pc |-> "exit"])
    /\ UNCHANGED <<pipe, killed, ftable, ofile, pages, content>>

\* exit()'s loop: the next descriptor to close, or a zombie
exit_loop(p) ==
    /\ th[p].pc = "exit"
    /\ LET open == Fds \ FreeFds(p)
       IN IF open = {} THEN Go(p, [pc |-> "zombie"])
          ELSE Go(p, [pc |-> "fileclose", fd |-> Min(open), todo |-> <<ofile[p][Min(open)]>>])
    /\ UNCHANGED <<pipe, killed, ftable, ofile, pages, content>>

\* fileclose() is over: exit() clears its descriptor and looks for the next one,
\* an undo goes on with its second file, close() returns
AfterClose(p) ==
    IF th[p].fd >= 0 THEN [User EXCEPT !.pc = "exit"]
    ELSE IF Len(th[p].todo) > 1 THEN [User EXCEPT !.pc = "fileclose", !.todo = Tail(th[p].todo)]
    ELSE User
ClearFd(p) == ofile' = IF th[p].fd >= 0 THEN [ofile EXCEPT ![p][th[p].fd] = 0] ELSE ofile

\* fileclose(), the part under ftable.lock; the rest works on a copy of *f
fileclose(p) ==
    LET f == Head(th[p].todo)
        last == ftable[f].ref = 1
    IN
    /\ th[p].pc = "fileclose"
    /\ ftable' = [ftable EXCEPT ![f] = IF last THEN NoFile ELSE [@ EXCEPT !.ref = @ - 1]]
    /\ content' = IF last THEN [j \in DOMAIN content |-> [content[j] EXCEPT ![f] = 0]] ELSE content
    /\ IF last /\ ftable[f].type # "NONE"
       THEN Go(p, [pc |-> "fileclose_end", ff |-> ftable[f]]) /\ UNCHANGED ofile
       ELSE th' = [th EXCEPT ![p] = AfterClose(p)] /\ ClearFd(p)
    /\ UNCHANGED <<pipe, killed, pages>>

\* pipeclose() (the last end also frees the page), or iput()
fileclose_end(p) ==
    LET ff == th[p].ff IN
    /\ th[p].pc = "fileclose_end"
    /\ IF ff.type = "PIPE"
       THEN /\ pipeclose(p, ff.pi, ff.writable, AfterClose(p))
            /\ pages' = IF pipe'[ff.pi] = NoPipe THEN pages \cup {ff.pi} ELSE pages
       ELSE th' = [th EXCEPT ![p] = AfterClose(p)] /\ UNCHANGED <<pipe, pages>>
    /\ ClearFd(p)
    /\ UNCHANGED <<killed, ftable, content>>

\* sys_open() from ilock() on: filealloc(), fdalloc(), the fields, O_TRUNC
sys_open(p, o) ==
    LET f == filealloc IN
    /\ th[p].pc = "user" /\ p \notin killed /\ FreeFiles # {} /\ ~InodeLocked
    /\ IF FreeFds(p) = {}
       THEN /\ ftable' = [ftable EXCEPT ![f].ref = 1]
            /\ Closing(p, <<f>>)
            /\ UNCHANGED <<ofile, content>>
       ELSE /\ ftable' = [ftable EXCEPT ![f] = [NoFile EXCEPT !.ref = 1, !.type = o.type,
                                                !.readable = o.readable, !.writable = o.writable]]
            /\ SetFd(p, fdalloc(p), f)
            /\ content' = IF o.trunc THEN <<>> ELSE content
            /\ UNCHANGED th
    /\ UNCHANGED <<pipe, killed, pages>>

\* sys_pipe(), pipealloc(): the file for the read end
sys_pipe(p) ==
    /\ th[p].pc = "user" /\ p \notin killed /\ FreeFiles # {}
    /\ ftable' = [ftable EXCEPT ![filealloc].ref = 1]
    /\ Go(p, [pc |-> "pipealloc", todo |-> <<filealloc>>])
    /\ UNCHANGED <<pipe, killed, ofile, pages, content>>

\* the file for the write end, the page and the descriptors, or the undo
pipealloc(p) ==
    LET rf == th[p].todo[1]
        wf == filealloc
        x == Min(pages)
        End(r) == [NoFile EXCEPT !.ref = 1, !.type = "PIPE", !.pi = x, !.readable = r, !.writable = ~r]
        fd0 == fdalloc(p)
        fd1 == Min(FreeFds(p) \ {fd0})
    IN
    /\ th[p].pc = "pipealloc"
    /\ IF FreeFiles = {}
       THEN Closing(p, <<rf>>) /\ UNCHANGED <<ftable, ofile, pipe, pages>>
       ELSE IF pages = {}
       THEN /\ ftable' = [ftable EXCEPT ![wf].ref = 1]
            /\ Closing(p, <<rf, wf>>)
            /\ UNCHANGED <<ofile, pipe, pages>>
       ELSE /\ pipe' = [pipe EXCEPT ![x] = NewPipe]
            /\ pages' = pages \ {x}
            /\ ftable' = [ftable EXCEPT ![rf] = End(TRUE), ![wf] = End(FALSE)]
            /\ \/ /\ Cardinality(FreeFds(p)) >= 2
                  /\ ofile' = [ofile EXCEPT ![p][fd0] = rf, ![p][fd1] = wf]
                  /\ Return(p)
               \/ Closing(p, <<rf, wf>>) /\ UNCHANGED ofile     \* no descriptor, or copyout() fails
    /\ UNCHANGED <<killed, content>>

\* fileread(): readi() under ilock(), or piperead()
sys_read(p, d, n) ==
    LET f == ofile[p][d] IN
    /\ th[p].pc = "user" /\ p \notin killed
    /\ f # 0 /\ ftable[f].readable
    /\ \/ /\ ftable[f].type = "PIPE"
          /\ Go(p, [pc |-> "piperead", pi |-> ftable[f].pi, n |-> n])
          /\ UNCHANGED ftable
       \/ /\ ftable[f].type = "INODE" /\ ~InodeLocked /\ ftable[f].off < Len(content)
          /\ ftable' = [ftable EXCEPT ![f].off = Min({@ + n, Len(content)})]
          /\ UNCHANGED th
    /\ UNCHANGED <<pipe, killed, ofile, pages, content>>

sys_write(p, d, n) ==
    LET f == ofile[p][d] IN
    /\ th[p].pc = "user" /\ p \notin killed
    /\ f # 0 /\ ftable[f].writable
    /\ \/ ftable[f].type = "PIPE" /\ Go(p, [pc |-> "pipewrite", pi |-> ftable[f].pi, n |-> n])
       \/ ftable[f].type = "INODE" /\ n > 0 /\ Go(p, [pc |-> "filewrite", n |-> n, todo |-> <<f>>])
    /\ UNCHANGED <<pipe, killed, ftable, ofile, pages, content>>

\* slip: ilock() is forgotten
filewrite_NoLock(p) ==
    /\ th[p].pc = "filewrite"
    /\ Go(p, [pc |-> "writei"])
    /\ UNCHANGED <<pipe, killed, ftable, ofile, pages, content>>

\* filewrite(): a turn of its loop begins with ilock(), after begin_op()
filewrite(p) ==
    /\ th[p].pc = "filewrite" /\ ~InodeLocked
    /\ Go(p, [pc |-> "writei"])
    /\ UNCHANGED <<pipe, killed, ftable, ofile, pages, content>>

\* writei() at f->off; when it fails the call ends
writei(p) ==
    LET f == th[p].todo[1]
        off == ftable[f].off
        old == IF off < Len(content) THEN content[off + 1] ELSE Unwritten
    IN
    /\ th[p].pc = "writei"
    /\ \/ /\ off <= Len(content) /\ off < MaxFile
          /\ content' = ReplaceAt(IF off < Len(content) THEN content ELSE Append(content, Unwritten),
                                  off + 1, [old EXCEPT ![f] = @ + 1])
          /\ Go(p, [pc |-> "filewrite_off"])
       \/ Return(p) /\ UNCHANGED content
    /\ UNCHANGED <<pipe, killed, ftable, ofile, pages>>

\* f->off += r, iunlock(), end_op(); the loop goes on unless all is written or
\* writei() wrote less than it was given
filewrite_off(p) ==
    /\ th[p].pc = "filewrite_off"
    /\ ftable' = [ftable EXCEPT ![th[p].todo[1]].off = @ + 1]
    /\ \/ th[p].n > 1 /\ Go(p, [pc |-> "filewrite", n |-> th[p].n - 1])
       \/ Return(p)
    /\ UNCHANGED <<pipe, killed, ofile, pages, content>>

FreeSlots == {q \in Procs : th[q].pc = "unused"}
allocproc == Min(FreeSlots)

\* fork(): a slot for the child
fork(p) ==
    /\ th[p].pc = "user" /\ p \notin killed /\ FreeSlots # {}
    /\ th' = [th EXCEPT ![p].pc = "fork", ![p].np = allocproc, ![p].fd = 0, ![allocproc].pc = "embryo"]
    /\ UNCHANGED <<pipe, killed, ftable, ofile, pages, content>>

\* the turns of its loop over the descriptors, up to the next open one; then the
\* child can run
fork_loop(p) ==
    LET q == th[p].np
        open == {d \in Fds : d >= th[p].fd /\ ofile[p][d] # 0}
        d == Min(open)
    IN
    /\ th[p].pc = "fork"
    /\ IF open # {}
       THEN /\ ftable' = [ftable EXCEPT ![ofile[p][d]].ref = @ + 1]
            /\ SetFd(q, d, ofile[p][d])
            /\ Go(p, [fd |-> d + 1])
       ELSE th' = [th EXCEPT ![p] = User, ![q] = User] /\ UNCHANGED <<ftable, ofile>>
    /\ UNCHANGED <<pipe, killed, pages, content>>

\* wait() of the parent frees the slot
reap(q) ==
    /\ th[q].pc = "zombie"
    /\ th' = [th EXCEPT ![q] = Unused]
    /\ killed' = killed \ {q}
    /\ UNCHANGED <<pipe, ftable, ofile, pages, content>>

\* kill() of any process but init also ends its sleep()
kill(q) ==
    /\ q # 1 /\ th[q].pc \notin {"unused", "absent", "zombie"} /\ q \notin killed
    /\ killed' = killed \cup {q}
    /\ th' = [th EXCEPT ![q].pc = CASE @ = "piperead_sleep" -> "piperead"
                                    [] @ = "pipewrite_sleep" -> "pipewrite"
                                    [] OTHER -> @]
    /\ UNCHANGED <<pipe, ftable, ofile, pages, content>>

\* a call of a user program that makes the calls C
UserCall(p, C) ==
    \/ \E d \in Fds : \/ "dup" \in C /\ sys_dup(p, d)
                      \/ "close" \in C /\ sys_close(p, d)
                      \/ \E n \in 1..MaxCount : \/ "read" \in C /\ sys_read(p, d, n)
                                                \/ "write" \in C /\ sys_write(p, d, n)
    \/ "open" \in C /\ \E o \in Opens : sys_open(p, o)
    \/ "pipe" \in C /\ sys_pipe(p)
    \/ fork(p) \/ sys_exit(p)

\* a step of the kernel for p
Kernel(p) ==
    \/ PipeNext(p) /\ UNCHANGED <<ftable, ofile, pages, content>>
    \/ filedup(p) \/ exit_loop(p) \/ fileclose(p) \/ fileclose_end(p)
    \/ pipealloc(p) \/ filewrite(p) \/ writei(p) \/ filewrite_off(p) \/ fork_loop(p)

-----------------------------------------------------------------------------
(* Properties.                                                              *)

\* the references to f: descriptors, and locals of fileclose() and sys_pipe().
\* exit() clears a descriptor after fileclose(), sys_dup() fills it before filedup().
Refs(f) ==
    LET held(p, d) == ofile[p][d] = f /\ ~(th[p].pc = "fileclose_end" /\ th[p].fd = d)
        local(p) == CASE th[p].pc = "pipealloc" -> th[p].todo
                      [] th[p].pc = "fileclose" /\ th[p].fd < 0 -> th[p].todo
                      [] th[p].pc = "fileclose_end" /\ th[p].fd < 0 -> Tail(th[p].todo)
                      [] OTHER -> <<>>
    IN Cardinality({x \in Procs \X Fds : held(x[1], x[2])})
       + Cardinality({p \in Procs : \E j \in DOMAIN local(p) : local(p)[j] = f})
       - Cardinality({p \in Procs : th[p].pc = "filedup" /\ th[p].todo[1] = f})

\* f->ref counts the descriptors and locals that point to f, a pipe's end is open
\* exactly while a file for it is open or being closed, and its page is allocated
\* exactly while an end is: no file is closed under a process that uses it, no
\* pipe outlives or loses its files, filedup() and fileclose() never panic.
RefsExact ==
    /\ \A f \in Files : ftable[f].ref = Refs(f) /\ (ftable[f].ref = 0 => ftable[f].type = "NONE")
    /\ \A x \in Pipes :
        LET ends == {ftable[f] : f \in Files} \cup {th[p].ff : p \in {q \in Procs : th[q].pc = "fileclose_end"}}
            open(w) == \E e \in ends : e.type = "PIPE" /\ e.pi = x /\ e.writable = w
        IN /\ (pipe[x].readopen = 1) <=> open(FALSE)
           /\ (pipe[x].writeopen = 1) <=> open(TRUE)
           /\ x \in pages => OpenEnds(x) = {}

\* No chunk of the inode is written twice through one open file: processes that
\* share it after fork() or dup() never overwrite each other, however their
\* writes interleave, because filewrite() and fileread() use and move f->off
\* under the inode's lock.  (Other open files of the inode may overwrite it.)
SharedOffset == \A j \in DOMAIN content, f \in Files : content[j][f] <= 1
=============================================================================
