------------------------------- MODULE Inode -------------------------------
(***************************************************************************)
(* The layers of kernel/fs.c below the system calls, as operators on the   *)
(* contents of the disk: blocks, inodes, inode contents and directories.   *)
(*                                                                         *)
(* A disk is a record: inode[i] the dinodes, used the blocks whose bit is  *)
(* set in the bitmap, data[b] the contents of the data blocks, and panic.  *)
(* The unit of length is a directory entry: a block holds BSIZE units, and *)
(* a unit is Zero, an entry <<name, inum>>, an address <<"@", block>> of an *)
(* indirect block, or a piece of a file's data <<"#", value>>.             *)
(***************************************************************************)
EXTENDS Integers, Sequences, FiniteSets, FiniteSetsExt, SequencesExt

CONSTANTS BSIZE, NDIRECT, NINDIRECT

ASSUME LayoutAssumption == BSIZE \in Nat \ {0} /\ NINDIRECT \in 1..BSIZE /\ NDIRECT \in Nat

MAXFILE == NDIRECT + NINDIRECT
ROOTINO == 1
Zero == <<>>
Fault == <<"!">>            \* a unit that either_copyin() cannot fetch from the user
T_NONE == "none"            \* type 0, a free inode
T_DIR == "dir"
T_FILE == "file"
T_DEVICE == "device"

ZeroBlock == [o \in 0..(BSIZE - 1) |-> Zero]
NewInode(type) == [type |-> type, nlink |-> 0, size |-> 0, addrs |-> [n \in 0..NDIRECT |-> 0]]

\* balloc(), with bzero()
balloc(d) ==
    LET free == DOMAIN d.data \ d.used IN
    IF free = {} THEN [d |-> d, addr |-> 0]
    ELSE [d |-> [d EXCEPT !.used = @ \cup {Min(free)}, !.data[Min(free)] = ZeroBlock],
          addr |-> Min(free)]

bfree(d, b) == [d EXCEPT !.panic = @ \/ b \notin d.used, !.used = @ \ {b}]

\* ialloc() without its iget(): the inode, 0 when there is none
ialloc(d, type) ==
    LET free == {i \in DOMAIN d.inode : d.inode[i].type = T_NONE} IN
    IF free = {} THEN [d |-> d, inum |-> 0]
    ELSE [d |-> [d EXCEPT !.inode[Min(free)] = NewInode(type)], inum |-> Min(free)]

iupdate(d, i, ip) == [d EXCEPT !.inode[i] = ip]

\* bmap()'s use of ip->addrs[n], which balloc() fills when it is 0
Slot(d, ip, n) ==
    LET Fill(a) == [d |-> a.d, ip |-> [ip EXCEPT !.addrs[n] = a.addr], addr |-> a.addr] IN
    IF ip.addrs[n] # 0 THEN [d |-> d, ip |-> ip, addr |-> ip.addrs[n]] ELSE Fill(balloc(d))

\* bmap()'s use of entry n of the indirect block m.addr, in the same way
Indirect(m, n) ==
    LET u == m.d.data[m.addr][n]
        Fill(a) == IF a.addr = 0 THEN [m EXCEPT !.addr = 0]
                   ELSE [m EXCEPT !.d = [a.d EXCEPT !.data[m.addr][n] = <<"@", a.addr>>],
                                  !.addr = a.addr] IN
    IF m.addr = 0 THEN m ELSE IF u # Zero THEN [m EXCEPT !.addr = u[2]] ELSE Fill(balloc(m.d))

\* bmap(): the address of block bn of the file, 0 when the disk is full
bmap(d, ip, bn) ==
    IF bn < NDIRECT THEN Slot(d, ip, bn) ELSE Indirect(Slot(d, ip, NDIRECT), bn - NDIRECT)

\* the blocks of a file in the order itrunc() frees them
BlocksOf(d, ip) ==
    LET direct == [n \in 1..NDIRECT |-> ip.addrs[n - 1]]
        indirect == ip.addrs[NDIRECT]
        pointed == IF indirect = 0 THEN <<>>
                   ELSE [n \in 1..NINDIRECT |-> LET u == d.data[indirect][n - 1] IN
                                                IF u = Zero THEN 0 ELSE u[2]] IN
    SelectSeq(direct \o pointed \o <<indirect>>, LAMBDA b : b # 0)

itrunc(d, i, ip) ==
    LET new == [ip EXCEPT !.size = 0, !.addrs = [n \in 0..NDIRECT |-> 0]] IN
    [d |-> iupdate(FoldLeft(bfree, d, BlocksOf(d, ip)), i, new), ip |-> new]

\* what readi() sees at an offset below the size
UnitAt(d, ip, off) ==
    LET bn == off \div BSIZE
        addr == IF bn < NDIRECT THEN ip.addrs[bn] ELSE d.data[ip.addrs[NDIRECT]][bn - NDIRECT][2] IN
    d.data[addr][off % BSIZE]

\* writei(): tot is -1, or the number of units written
writei(d, i, ip, off, units) ==
    LET PutAt(s, u, m) ==
            IF m.addr = 0 \/ u = Fault THEN [s EXCEPT !.d = m.d, !.ip = m.ip, !.stop = TRUE]
            ELSE [s EXCEPT !.d = [m.d EXCEPT !.data[m.addr][s.off % BSIZE] = u],
                           !.ip = m.ip, !.off = @ + 1]
        Put(s, u) == IF s.stop THEN s ELSE PutAt(s, u, bmap(s.d, s.ip, s.off \div BSIZE))
        Update(w, new) == [d |-> iupdate(w.d, i, new), ip |-> new, tot |-> w.off - off]
        Written(w) == Update(w, [w.ip EXCEPT !.size = Max({@, w.off})]) IN
    IF off > ip.size \/ off + Len(units) > MAXFILE * BSIZE THEN [d |-> d, ip |-> ip, tot |-> -1]
    ELSE Written(FoldLeft(Put, [d |-> d, ip |-> ip, off |-> off, stop |-> FALSE], units))

-----------------------------------------------------------------------------
(* Directories                                                              *)

Offsets(d, dp, name) ==
    {off \in 0..(dp.size - 1) : LET u == UnitAt(d, dp, off) IN u # Zero /\ u[1] = name}

\* dirlookup(): the entry's offset, -1 when there is none
dirlookup(d, dp, name) ==
    LET hits == Offsets(d, dp, name) IN IF hits = {} THEN -1 ELSE Min(hits)

\* dirlink() of (name, inum) in directory i; it has succeeded when tot is 1
dirlink(d, i, dp, name, inum) ==
    LET off == Min({o \in 0..dp.size : o < dp.size => UnitAt(d, dp, o) = Zero}) IN
    IF dirlookup(d, dp, name) # -1 THEN [d |-> d, ip |-> dp, tot |-> -1]
    ELSE writei(d, i, dp, off, <<<<name, inum>>>>)

\* isdirempty(): nothing after "." and ".."
isdirempty(d, dp) == \A off \in 2..(dp.size - 1) : UnitAt(d, dp, off) = Zero

\* mkfs: a root directory, padded to whole blocks, on a disk of n data blocks and
\* m inodes
mkfs(n, m) ==
    LET d == [inode |-> [i \in 1..m |-> IF i = ROOTINO THEN [NewInode(T_DIR) EXCEPT !.nlink = 1]
                                                       ELSE NewInode(T_NONE)],
              used |-> {}, data |-> [b \in 1..n |-> ZeroBlock], panic |-> FALSE]
        e == writei(d, ROOTINO, d.inode[ROOTINO], 0, << <<".", ROOTINO>>, <<"..", ROOTINO>> >>).d IN
    [e EXCEPT !.inode[ROOTINO].size = (@ \div BSIZE + 1) * BSIZE]
=============================================================================
