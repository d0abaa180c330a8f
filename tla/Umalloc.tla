------------------------------ MODULE Umalloc ------------------------------
(***************************************************************************)
(* malloc() and free() of the user library (user/umalloc.c).  Memory is    *)
(* counted in units of sizeof(Header); the address of a block is that of   *)
(* its header.  base, in the data segment, lies below the heap.            *)
(***************************************************************************)
EXTENDS Integers, FiniteSets

CONSTANTS
    MinUnits,       \* 4096, the least morecore() asks for
    MaxUnits,       \* units sbrk() can give in all
    Requests        \* values of nunits

VARIABLES
    ptr, size,      \* the fields of the headers
    freep,          \* -1 before the first malloc()
    brk,            \* end of the heap
    inuse,          \* blocks the program has
    own             \* units the program took with sbrk() itself

heap == <<ptr, size, freep, brk, inuse, own>>

base == 0
Null == -1
List == [ptr |-> ptr, size |-> size, freep |-> freep]

HeapInit ==
    /\ ptr = [x \in 0..MaxUnits |-> base]
    /\ size = [x \in 0..MaxUnits |-> 0]
    /\ freep = Null
    /\ brk = 1
    /\ inuse = {}
    /\ own = {}

\* free()'s search: the free block after which bp belongs
RECURSIVE Place(_, _, _)
Place(h, bp, p) ==
    LET next == h.ptr[p] IN
    IF (bp > p /\ bp < next) \/ (p >= next /\ (bp > p \/ bp < next)) THEN p
    ELSE Place(h, bp, next)

\* free(): joined with the block above, then with the block below
Freed(h, bp) ==
    LET p == Place(h, bp, h.freep)
        next == h.ptr[p]
        up == bp + h.size[bp] = next
        h1 == [h EXCEPT !.size[bp] = IF up THEN @ + h.size[next] ELSE @,
                        !.ptr[bp] = IF up THEN h.ptr[next] ELSE next]
        down == p + h.size[p] = bp
    IN [h1 EXCEPT !.size[p] = IF down THEN @ + h1.size[bp] ELSE @,
                  !.ptr[p] = IF down THEN h1.ptr[bp] ELSE bp,
                  !.freep = p]

\* malloc()'s search from prevp on: the first block large enough and the one before
\* it, or none when the search is back at freep
RECURSIVE Fit(_, _, _)
Fit(h, nunits, prevp) ==
    LET p == h.ptr[prevp] IN
    IF h.size[p] >= nunits THEN [found |-> TRUE, p |-> p, prevp |-> prevp]
    ELSE IF p = h.freep THEN [found |-> FALSE, p |-> p, prevp |-> prevp]
    ELSE Fit(h, nunits, p)

\* slip: what is left of the block keeps its old size
Carve_KeepsSize(h, f, nunits) ==
    LET at == f.p + h.size[f.p] - nunits IN
    [h EXCEPT !.ptr[f.prevp] = IF h.size[f.p] = nunits THEN h.ptr[f.p] ELSE @,
              !.size[at] = nunits, !.freep = f.prevp]

\* the block is taken, or its upper end cut off
Carve(h, f, nunits) ==
    LET at == f.p + h.size[f.p] - nunits IN
    [h EXCEPT !.ptr[f.prevp] = IF h.size[f.p] = nunits THEN h.ptr[f.p] ELSE @,
              !.size[f.p] = @ - nunits, !.size[at] = nunits, !.freep = f.prevp]

Assign(h) == ptr' = h.ptr /\ size' = h.size /\ freep' = h.freep

\* malloc(): the search is repeated from freep after morecore()
malloc(nunits) ==
    LET h0 == IF freep = Null THEN [ptr |-> [ptr EXCEPT ![base] = base], size |-> [size EXCEPT ![base] = 0],
                                    freep |-> base] ELSE List
        f0 == Fit(h0, nunits, h0.freep)
        nu == IF nunits < MinUnits THEN MinUnits ELSE nunits
        room == brk + nu <= MaxUnits + 1
        h == IF f0.found \/ ~room THEN h0 ELSE Freed([h0 EXCEPT !.size[brk] = nu], brk)
        f == IF f0.found THEN f0 ELSE Fit(h, nunits, h.freep)
    IN /\ UNCHANGED own
       /\ IF f0.found \/ room
          THEN /\ Assign(Carve(h, f, nunits))
               /\ inuse' = inuse \cup {f.p + h.size[f.p] - nunits}
               /\ brk' = IF f0.found THEN brk ELSE brk + nu
          ELSE Assign(h) /\ UNCHANGED <<brk, inuse>>           \* malloc() returns 0

free(bp) ==
    /\ bp \in inuse
    /\ Assign(Freed(List, bp))
    /\ inuse' = inuse \ {bp}
    /\ UNCHANGED <<brk, own>>

\* the program calls sbrk() itself
sbrk(n) ==
    /\ brk + n <= MaxUnits + 1
    /\ brk' = brk + n
    /\ own' = own \cup brk..(brk + n - 1)
    /\ UNCHANGED <<ptr, size, freep, inuse>>

HeapNext == (\E n \in Requests : malloc(n) \/ sbrk(n)) \/ \E bp \in inuse : free(bp)

-----------------------------------------------------------------------------

\* the free blocks reached from base
RECURSIVE Chain(_, _)
Chain(p, n) == IF p = base \/ n = 0 THEN {} ELSE {p} \cup Chain(ptr[p], n - 1)
FreeBlocks == IF freep = Null THEN {} ELSE Chain(ptr[base], MaxUnits + 1)
Units(b) == b..(b + size[b] - 1)

\* The free list is one cycle through base in address order, its blocks and the
\* blocks in use do not overlap, two free blocks never touch (free() has joined
\* them), and every unit of the heap is free, in use or the program's own: malloc()
\* and free() lose nothing of what sbrk() gave them.
HeapSound ==
    /\ freep \in FreeBlocks \cup {base, Null}
    /\ \A b \in FreeBlocks :
        /\ ptr[b] > b \/ ptr[b] = base
        /\ \A c \in FreeBlocks : b + size[b] # c
    /\ \A b \in FreeBlocks \cup inuse :
        /\ size[b] > 0
        /\ \A c \in FreeBlocks \cup inuse : b # c => Units(b) \cap Units(c) = {}
    /\ FreeBlocks \cap inuse = {}
    /\ own \cup UNION {Units(b) : b \in FreeBlocks \cup inuse} = 1..(brk - 1)
=============================================================================
