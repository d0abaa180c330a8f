-------------------------------- MODULE MCFs --------------------------------
(***************************************************************************)
(* Pairs of processes on a disk with a directory /a, a file /f and few or  *)
(* no free blocks and inodes.                                              *)
(***************************************************************************)
EXTENDS Fs

\* the image after mkdir /a and the creation of a file /f of one unit
Image(blocks, inodes) ==
    LET Fill(d, i, units) == writei(d, i, [d.inode[i] EXCEPT !.nlink = 1], 0, units).d
        Name(d, i, name, links) ==
            dirlink(d, ROOTINO, [d.inode[ROOTINO] EXCEPT !.nlink = links], name, i).d
        New(d, type, i, units, name, links) == Name(Fill(ialloc(d, type).d, i, units), i, name, links) IN
    New(New(mkfs(blocks, inodes), T_DIR, 2, << <<".", 2>>, <<"..", ROOTINO>> >>, "a", 2),
        T_FILE, 3, << <<"#", 0>> >>, "f", 2)

Unlink(path) == [op |-> "unlink", path |-> path]
Link(old, new) == [op |-> "link", path |-> old, new |-> new]
Create(path, type) == [op |-> "create", path |-> path, type |-> type, write |-> TRUE, trunc |-> FALSE]
Open(path, write, trunc) == [op |-> "open", path |-> path, write |-> write, trunc |-> trunc]
Chdir(path) == [op |-> "chdir", path |-> path]
Write(n) == [op |-> "write", units |-> [i \in 1..n |-> <<"#", i>>]]
Close == [op |-> "close"]
Exit == [op |-> "exit"]

Singles == << Unlink(<<"/", "a">>), Unlink(<<"/", "f">>), Unlink(<<"/", "a", "..">>),
             Link(<<"/", "f">>, <<"/", "a", "g">>), Link(<<"/", "f">>, <<"/", "g">>),
             Link(<<"/", "a">>, <<"/", "g">>), Link(<<"/", "f">>, <<"/", "f", "g">>),
             Create(<<"/", "a", "g">>, T_FILE), Create(<<"/", "g">>, T_FILE),
             Create(<<"/", "a", "d">>, T_DIR), Create(<<"/", "g">>, T_DIR),
             Create(<<"/", "g">>, T_DEVICE) >>

Scripts == { << Open(<<"/", "f">>, TRUE, FALSE), Write(4), Close >>,
             << Open(<<"/", "f">>, FALSE, FALSE), Write(1), Exit >>,
             << Open(<<"/", "f">>, TRUE, TRUE), [op |-> "write", units |-> << <<"#", 1>>, Fault >>], Exit >>,
             << Open(<<"/", "a">>, TRUE, FALSE) >>,
             << Chdir(<<"/", "a">>), Exit >>,
             << Create(<<"/", "f">>, T_FILE), Write(2), Create(<<"/", "g">>, T_FILE) >> }

Others == { << Unlink(<<"/", "a">>) >>, << Unlink(<<"/", "f">>) >>,
            << Create(<<"/", "g">>, T_FILE) >>, << Link(<<"/", "f">>, <<"/", "g">>) >> }

Pairs == UNION { { <<<<Singles[i]>>, <<Singles[j]>>>> : j \in i..Len(Singles) } : i \in DOMAIN Singles }
             \cup { <<s, o>> : s \in Scripts, o \in Others }

Machines == { [disk |-> Image(size[1], size[2]), calls |-> c] :
                  size \in {<<5, 4>>, <<6, 4>>, <<8, 5>>}, c \in Pairs }
=============================================================================
