-------------------------------- MODULE Cow --------------------------------
(***************************************************************************)
(* Physical pages and copy-on-write address spaces: the page allocator     *)
(* with its reference counts (kernel/kalloc.c), user page tables           *)
(* (kernel/vm.c), cowfault() and its callers (kernel/trap.c, copyout()),   *)
(* the memory side of fork(), exit(), wait() and sbrk() (kernel/proc.c),   *)
(* and exec()'s replacement of an address space (kernel/exec.c).           *)
(*                                                                         *)
(* A "slot" is a place where the kernel keeps a pointer to a physical page *)
(* it will kfree(): p->trapframe, a page-table page, a user PTE, or a local*)
(* variable of the kernel thread.  A section under kmem.lock is one step;  *)
(* so kfree() is two, with the page in nobody's hands in between.          *)
(* Processes run in the kernel at the same time, on different CPUs.        *)
(***************************************************************************)
EXTENDS Integers, Sequences, FiniteSets

CONSTANTS
    NPROC,          \* most processes of a machine
    MAXVA,          \* most virtual pages of a process
    Word,           \* values a program stores
    Machines,       \* [pages, procs, image, size, ptes, calls, execs]: physical pages,
                    \* processes, permissions of the program's pages, most pages of a
                    \* process, user pages under one leaf page-table page, and (bounds)
                    \* the calls and stores programs make and who calls exec()
    MaxLeak         \* bound: no fork() once a page has leaked so often

Perms == {"R", "W", "X", "U"}

ASSUME SizeAssumption ==
    \A m \in Machines :
        /\ m.procs \in 1..NPROC /\ m.size \in 1..MAXVA /\ m.ptes \in 1..MAXVA
        /\ m.image \in Seq(SUBSET Perms) /\ Len(m.image) <= m.size

\* contents of a page: what a program stored, memset(0), memset(junk), or what
\* loadseg() read from the program's file
Zero == "zero"
Junk == "junk"
Loaded == "loaded"

VARIABLES
    machine,    \* the instance
    refcnt,     \* refcnt[]
    freelist,   \* the pages on kmem.freelist
    data,       \* contents of the physical pages
    ref,        \* the page each slot points to
    perm,       \* flags of the user PTEs
    sz,         \* p->sz, in pages
    state,      \* of the process
    parent,
    pc,         \* where the kernel thread of a process is
    a,          \* its loop variable, in virtual pages
    np,         \* the other process of fork() and wait()
    want,       \* the size sbrk() asks for
    word,       \* what copyout() writes
    work,       \* the slots it still has to kfree()
    zeroed,     \* kfree() dropped the count of the first of them to 0
    leaked,     \* history: increments that uvmcopy() left behind when it failed
    panic       \* the message of panic(), "" before

\* physical pages are numbered from 1
Pages == 1..machine.pages
NoPage == 0
Procs == 1..machine.procs
init == 1
VA == 1..machine.size

\* address spaces: those of the processes, and the ones exec() builds for them
Spaces == 1..(2 * machine.procs)
New(p) == p + machine.procs

\* the page-table pages of a process: the root, the ones for the trampoline and
\* the trapframe at the top of the address space, and the leaves below
Root == 0
High == 1
Leaf(v) == 2 + (v - 1) \div machine.ptes

Trapframe(p) == <<p, "trapframe", 0>>
Local(p) == <<p, "local", 0>>
Table(q, t) == <<q, "table", t>>
Pte(q, v) == <<q, "pte", v>>

Slots == {Trapframe(p) : p \in Procs} \cup {Local(p) : p \in Procs}
         \cup {Table(q, t) : q \in Spaces, t \in {Root, High} \cup {Leaf(v) : v \in VA}}
         \cup {Pte(q, v) : q \in Spaces, v \in VA}

alloc == <<refcnt, freelist>>
locals == <<a, np, want, word>>
vars == <<machine, alloc, data, ref, perm, sz, state, parent, pc, locals, work, zeroed, leaked, panic>>

\* the slots of the first process, in the order it got its pages
FirstSlots(m) ==
    <<Trapframe(init), Table(init, Root), Table(init, High)>>
    \o [n \in 1..(1 + (Len(m.image) - 1) \div m.ptes) |-> Table(init, n + 1)]
    \o [v \in 1..Len(m.image) |-> Pte(init, v)]

\* init runs its program image; all other pages of the machine are free
Init ==
    \E m \in Machines :
    LET first == FirstSlots(m) IN
    /\ machine = m
    /\ ref = [s \in Slots |->
                IF \E n \in DOMAIN first : first[n] = s
                THEN CHOOSE n \in DOMAIN first : first[n] = s ELSE NoPage]
    /\ refcnt = [g \in Pages |-> IF g <= Len(first) THEN 1 ELSE 0]
    /\ freelist = (Len(first) + 1)..m.pages
    /\ data = [g \in Pages |-> IF g <= Len(first) THEN Zero ELSE Junk]
    /\ perm = [q \in Spaces |-> [v \in VA |-> IF q = init /\ v <= Len(m.image) THEN m.image[v] ELSE {}]]
    /\ sz = [q \in Spaces |-> IF q = init THEN Len(m.image) ELSE 0]
    /\ state = [p \in Procs |-> IF p = init THEN "live" ELSE "UNUSED"]
    /\ parent = [p \in Procs |-> 0]
    /\ pc = [p \in Procs |-> IF p = init THEN "user" ELSE "dead"]
    /\ a = [p \in Procs |-> 1]
    /\ np = [p \in Procs |-> init]
    /\ want = [p \in Procs |-> 0]
    /\ word = [p \in Procs |-> Junk]
    /\ work = [p \in Procs |-> <<>>]
    /\ zeroed = [p \in Procs |-> FALSE]
    /\ leaked = [g \in Pages |-> 0]
    /\ panic = ""

-----------------------------------------------------------------------------
(* kalloc() and kfree()                                                     *)

Goto(p, l) == pc' = [pc EXCEPT ![p] = l]

\* the thread of p is at l, with no kfree() in progress
At(p, l) == pc[p] = l /\ work[p] = <<>>

\* The order of kmem.freelist is left out: no page is different from another.
kalloc_page == CHOOSE g \in freelist : TRUE

\* kalloc() succeeds and its result goes into slot s
kalloc(s) ==
    /\ freelist # {}
    /\ refcnt' = [refcnt EXCEPT ![kalloc_page] = 1]
    /\ freelist' = freelist \ {kalloc_page}
    /\ ref' = [ref EXCEPT ![s] = kalloc_page]
    /\ panic' = IF refcnt[kalloc_page] # 0 THEN "kalloc" ELSE ""

\* kfree() of slot s is over: the pointer (or PTE) is cleared
Forget(p, s) ==
    /\ ref' = [ref EXCEPT ![s] = NoPage]
    /\ perm' = IF s[2] = "pte" THEN [perm EXCEPT ![s[1]][s[3]] = {}] ELSE perm
    /\ work' = [work EXCEPT ![p] = Tail(@)]

\* the panics of kfree() and its callers: the page is not referenced, a PTE is
\* not mapped, a page-table page still has leaves
kfree_panic(s) ==
    IF ref[s] = NoPage \/ refcnt[ref[s]] < 1 THEN "kfree"
    ELSE IF s[2] = "table" /\ \E v \in VA : Leaf(v) = s[3] /\ ref[Pte(s[1], v)] # NoPage
    THEN "freewalk" ELSE ""

\* the part of kfree() under the first kmem.lock
kfree_drop(p) ==
    LET s == Head(work[p])
        g == ref[s] IN
    /\ work[p] # <<>> /\ ~zeroed[p]
    /\ panic' = kfree_panic(s)
    /\ IF panic' # ""
       THEN UNCHANGED <<refcnt, ref, perm, work, zeroed>>
       ELSE /\ refcnt' = [refcnt EXCEPT ![g] = @ - 1]
            /\ IF refcnt[g] = 1
               THEN zeroed' = [zeroed EXCEPT ![p] = TRUE] /\ UNCHANGED <<ref, perm, work>>
               ELSE Forget(p, s) /\ UNCHANGED zeroed
    /\ UNCHANGED <<freelist, data, sz, state, parent, pc, locals, leaked>>

\* memset(), then the part under the second kmem.lock
kfree_push(p) ==
    LET s == Head(work[p]) IN
    /\ zeroed[p]
    /\ freelist' = freelist \cup {ref[s]}
    /\ data' = [data EXCEPT ![ref[s]] = Junk]
    /\ Forget(p, s)
    /\ zeroed' = [zeroed EXCEPT ![p] = FALSE]
    /\ UNCHANGED <<refcnt, sz, state, parent, pc, locals, leaked, panic>>

\* uvmunmap(pagetable of q, from, to - from pages, 1): what it frees
uvmunmap(q, from, to) == [n \in 1..(to - from) |-> Pte(q, from + n - 1)]

\* freewalk(): the page-table pages q has, the root last
freewalk(q, rf) ==
    LET has(t) == rf[Table(q, t)] # NoPage
    IN SelectSeq([n \in 1..(Leaf(machine.size) - 1) |-> Table(q, n + 1)], LAMBDA s : rf[s] # NoPage)
       \o (IF has(High) THEN <<Table(q, High)>> ELSE <<>>)
       \o (IF has(Root) THEN <<Table(q, Root)>> ELSE <<>>)

-----------------------------------------------------------------------------
(* Stores and copyout(): cowfault()                                         *)

mapped(p, v) == v \in VA /\ ref[Pte(p, v)] # NoPage

\* the thread is in exec(), and the address space its page-table calls work on
InExec(p) == np[p] = New(p)
Space(p) == IF InExec(p) THEN New(p) ELSE p

\* the MMU lets a store through
store(p, v, x) ==
    /\ At(p, "user") /\ mapped(p, v) /\ {"U", "W"} \subseteq perm[p][v]
    /\ data' = [data EXCEPT ![ref[Pte(p, v)]] = x]
    /\ UNCHANGED <<alloc, ref, perm, sz, state, parent, pc, locals, work, zeroed, leaked, panic>>

\* store page fault (scause 15): usertrap() calls cowfault(); or copyout(), which
\* calls it for every page it writes and then stores x itself
EnterCow(p, v, x) ==
    /\ a' = [a EXCEPT ![p] = v]
    /\ word' = [word EXCEPT ![p] = x]
    /\ Goto(p, "cow")
    /\ UNCHANGED <<alloc, data, ref, perm, sz, state, parent, want, work, zeroed, leaked, panic>>

store_fault(p, v) ==
    /\ At(p, "user") /\ ~(mapped(p, v) /\ {"U", "W"} \subseteq perm[p][v])
    /\ EnterCow(p, v, Junk)
    /\ UNCHANGED np

copyout(p, v, x) ==
    /\ At(p, "user") /\ x # Junk
    /\ EnterCow(p, v, x)
    /\ UNCHANGED np

\* exit(): the children go to init, the memory stays until wait()
exit(p) ==
    /\ state' = [state EXCEPT ![p] = "ZOMBIE"]
    /\ parent' = [q \in Procs |-> IF parent[q] = p THEN init ELSE parent[q]]
    /\ panic' = IF p = init THEN "init exiting" ELSE ""
    /\ Goto(p, "dead")

\* the tests of cowfault() that make it return -1
cow_refuses(p) ==
    ~mapped(Space(p), a[p]) \/ "U" \notin perm[Space(p)][a[p]] \/ freelist = {}

\* a fault kills the process; copyout() fails
cow_fail(p) ==
    /\ At(p, "cow") /\ cow_refuses(p) /\ ~InExec(p)
    /\ IF word[p] = Junk THEN exit(p)
                         ELSE Goto(p, "user") /\ UNCHANGED <<state, parent, panic>>
    /\ word' = [word EXCEPT ![p] = Junk]
    /\ a' = [a EXCEPT ![p] = 1]
    /\ np' = [np EXCEPT ![p] = init]
    /\ UNCHANGED <<alloc, data, ref, perm, sz, want, work, zeroed, leaked>>

cow_alloc(p) ==
    /\ At(p, "cow") /\ ~cow_refuses(p)
    /\ kalloc(Local(p))
    /\ data' = [data EXCEPT ![kalloc_page] = Junk]
    /\ Goto(p, "cow_copy")
    /\ UNCHANGED <<perm, sz, state, parent, locals, work, zeroed, leaked>>

\* slip: the old page is not copied
cow_copy_NoCopy(p) ==
    LET s == Pte(Space(p), a[p]) IN
    /\ At(p, "cow_copy")
    /\ ref' = [ref EXCEPT ![s] = ref[Local(p)], ![Local(p)] = ref[s]]
    /\ perm' = [perm EXCEPT ![Space(p)][a[p]] = Perms]
    /\ work' = [work EXCEPT ![p] = <<Local(p)>>]
    /\ Goto(p, "cow_done")
    /\ UNCHANGED <<alloc, data, sz, state, parent, locals, zeroed, leaked, panic>>

\* memmove(pa2, pa1); the new PTE; then kfree(pa1) through the local variable
cow_copy(p) ==
    LET s == Pte(Space(p), a[p]) IN
    /\ At(p, "cow_copy")
    /\ data' = [data EXCEPT ![ref[Local(p)]] = data[ref[s]]]
    /\ ref' = [ref EXCEPT ![s] = ref[Local(p)], ![Local(p)] = ref[s]]
    /\ perm' = [perm EXCEPT ![Space(p)][a[p]] = Perms]
    /\ work' = [work EXCEPT ![p] = <<Local(p)>>]
    /\ Goto(p, "cow_done")
    /\ UNCHANGED <<alloc, sz, state, parent, locals, zeroed, leaked, panic>>

\* cowfault() returns 0: the store is tried again, or copyout() writes.  wait()
\* goes on to free the child whose status it copied out, exec() with the next
\* argument.
cow_done(p) ==
    /\ At(p, "cow_done")
    /\ data' = IF word[p] = Junk THEN data ELSE [data EXCEPT ![ref[Pte(Space(p), a[p])]] = word[p]]
    /\ word' = [word EXCEPT ![p] = Junk]
    /\ a' = [a EXCEPT ![p] = 1]
    /\ Goto(p, IF InExec(p) THEN "exec_push" ELSE IF np[p] # init THEN "reap" ELSE "user")
    /\ UNCHANGED <<alloc, ref, perm, sz, state, parent, np, want, work, zeroed, leaked, panic>>

-----------------------------------------------------------------------------
(* fork(): allocproc(), proc_pagetable() and uvmcopy()                      *)

fork(p, q) ==
    /\ At(p, "user") /\ state[q] = "UNUSED"
    /\ \A g \in Pages : leaked[g] < MaxLeak
    /\ state' = [state EXCEPT ![q] = "USED"]
    /\ np' = [np EXCEPT ![p] = q]
    /\ Goto(p, "trapframe")
    /\ UNCHANGED <<alloc, data, ref, perm, sz, parent, a, want, word, work, zeroed, leaked, panic>>

\* an allocation of the three fixed pages of a process (the two of an address
\* space for exec()); on failure the pages in undo are freed, and a new process's
\* trapframe
AllocFixed(p, s, next, undo) ==
    /\ IF freelist # {}
       THEN /\ kalloc(s)
            /\ data' = [data EXCEPT ![kalloc_page] = Zero]
            /\ Goto(p, next)
            /\ UNCHANGED work
       ELSE /\ work' = [work EXCEPT ![p] = SelectSeq(undo, LAMBDA u : u \in DOMAIN ref)]
            /\ Goto(p, IF InExec(p) THEN "exec_done" ELSE "fork_fail")
            /\ UNCHANGED <<alloc, data, ref, panic>>
    /\ UNCHANGED <<perm, sz, state, parent, locals, zeroed, leaked>>

alloc_trapframe(p) ==
    /\ At(p, "trapframe")
    /\ AllocFixed(p, Trapframe(np[p]), "root", <<>>)

uvmcreate(p) ==
    /\ At(p, "root")
    /\ AllocFixed(p, Table(np[p], Root), "high", <<Trapframe(np[p])>>)

map_trampoline(p) ==
    /\ At(p, "high")
    /\ AllocFixed(p, Table(np[p], High), IF InExec(p) THEN "exec" ELSE "copy",
                  <<Table(np[p], Root), Trapframe(np[p])>>)

\* slip: no increse()
uvmcopy_page_NoCount(p) ==
    /\ At(p, "copy") /\ a[p] <= sz[p]
    /\ perm' = [perm EXCEPT ![p][a[p]] = @ \ {"W"}]
    /\ ref' = [ref EXCEPT ![Local(p)] = ref[Pte(p, a[p])]]
    /\ Goto(p, "copy_map")
    /\ UNCHANGED <<alloc, data, sz, state, parent, locals, work, zeroed, leaked, panic>>

\* slip: the parent keeps PTE_W (and the child gets it)
uvmcopy_page_KeepsW(p) ==
    LET g == ref[Pte(p, a[p])] IN
    /\ At(p, "copy") /\ a[p] <= sz[p]
    /\ refcnt' = [refcnt EXCEPT ![g] = @ + 1]
    /\ panic' = IF refcnt[g] < 1 THEN "increse" ELSE ""
    /\ ref' = [ref EXCEPT ![Local(p)] = g]
    /\ Goto(p, "copy_map")
    /\ UNCHANGED <<freelist, data, perm, sz, state, parent, locals, work, zeroed, leaked>>

\* one page of uvmcopy(): the parent's PTE loses PTE_W, the page gains a reference
uvmcopy_page(p) ==
    LET g == ref[Pte(p, a[p])] IN
    /\ At(p, "copy") /\ a[p] <= sz[p]
    /\ perm' = [perm EXCEPT ![p][a[p]] = @ \ {"W"}]
    /\ refcnt' = [refcnt EXCEPT ![g] = @ + 1]
    /\ panic' = IF refcnt[g] < 1 THEN "increse" ELSE ""
    /\ ref' = [ref EXCEPT ![Local(p)] = g]
    /\ Goto(p, "copy_map")
    /\ UNCHANGED <<freelist, data, sz, state, parent, locals, work, zeroed, leaked>>

\* walk() of mappages(): a page-table page is missing and there is memory for it
WalkAlloc(p, q) ==
    /\ ref[Table(q, Leaf(a[p]))] = NoPage
    /\ kalloc(Table(q, Leaf(a[p])))
    /\ data' = [data EXCEPT ![kalloc_page] = Zero]
    /\ UNCHANGED <<perm, sz, state, parent, pc, locals, work, zeroed, leaked>>

\* mappages() succeeds: the PTE takes over the page in the local variable
MapLocal(p, q, flags) ==
    /\ ref[Table(q, Leaf(a[p]))] # NoPage
    /\ panic' = IF ref[Pte(q, a[p])] # NoPage THEN "remap" ELSE ""
    /\ ref' = [ref EXCEPT ![Pte(q, a[p])] = ref[Local(p)], ![Local(p)] = NoPage]
    /\ perm' = [perm EXCEPT ![q][a[p]] = flags]
    /\ a' = [a EXCEPT ![p] = @ + 1]
    /\ UNCHANGED <<alloc, data, sz, state, parent, np, want, word, work, zeroed, leaked>>

walk_fails(p, q) == ref[Table(q, Leaf(a[p]))] = NoPage /\ freelist = {}

uvmcopy_walk(p) == At(p, "copy_map") /\ WalkAlloc(p, np[p])

uvmcopy_map(p) ==
    /\ At(p, "copy_map") /\ MapLocal(p, np[p], perm[p][a[p]])
    /\ Goto(p, "copy")

\* err: the pages mapped so far are unmapped, the reference just taken is not
\* given back; then freeproc(np)
uvmcopy_err(p) ==
    /\ At(p, "copy_map") /\ walk_fails(p, np[p])
    /\ ref' = [ref EXCEPT ![Local(p)] = NoPage]
    /\ leaked' = [leaked EXCEPT ![ref[Local(p)]] = @ + 1]
    /\ work' = [work EXCEPT ![p] = uvmunmap(np[p], 1, a[p]) \o <<Trapframe(np[p])>>
                                   \o freewalk(np[p], ref)]
    /\ Goto(p, "fork_fail")
    /\ UNCHANGED <<alloc, data, perm, sz, state, parent, locals, zeroed, panic>>

\* back in user mode, the kernel thread's locals are dead
Leave(p) ==
    /\ a' = [a EXCEPT ![p] = 1]
    /\ np' = [np EXCEPT ![p] = init]
    /\ want' = [want EXCEPT ![p] = 0]

fork_fail(p) ==
    /\ At(p, "fork_fail")
    /\ state' = [state EXCEPT ![np[p]] = "UNUSED"]
    /\ Leave(p) /\ Goto(p, "user")
    /\ UNCHANGED <<alloc, data, ref, perm, sz, parent, word, work, zeroed, leaked, panic>>

fork_done(p) ==
    /\ At(p, "copy") /\ a[p] > sz[p]
    /\ sz' = [sz EXCEPT ![np[p]] = sz[p]]
    /\ parent' = [parent EXCEPT ![np[p]] = p]
    /\ state' = [state EXCEPT ![np[p]] = "live"]
    /\ pc' = [pc EXCEPT ![p] = "user", ![np[p]] = "user"]
    /\ Leave(p)
    /\ UNCHANGED <<alloc, data, ref, perm, word, work, zeroed, leaked, panic>>

-----------------------------------------------------------------------------
(* sbrk(): growproc(), uvmalloc() and uvmdealloc()                          *)

growproc(p, n) ==
    /\ At(p, "user") /\ n # sz[p]
    /\ want' = [want EXCEPT ![p] = n]
    /\ IF n > sz[p]
       THEN /\ a' = [a EXCEPT ![p] = sz[p] + 1]
            /\ Goto(p, "grow")
            /\ UNCHANGED work
       ELSE /\ work' = [work EXCEPT ![p] = uvmunmap(p, n + 1, sz[p] + 1)]
            /\ Goto(p, "shrink")
            /\ UNCHANGED a
    /\ UNCHANGED <<alloc, data, ref, perm, sz, state, parent, np, word, zeroed, leaked, panic>>

uvmalloc_page(p) ==
    /\ At(p, "grow") /\ a[p] <= want[p]
    /\ kalloc(Local(p))
    /\ data' = [data EXCEPT ![kalloc_page] = Zero]
    /\ Goto(p, "grow_map")
    /\ UNCHANGED <<perm, sz, state, parent, locals, work, zeroed, leaked>>

uvmalloc_walk(p) == At(p, "grow_map") /\ WalkAlloc(p, Space(p))

\* PTE_R | PTE_U | xperm: exec() passes flags2perm(), then PTE_W for the stack
uvmalloc_map(p) ==
    /\ At(p, "grow_map")
    /\ MapLocal(p, Space(p), IF InExec(p) /\ a[p] <= Len(machine.image) THEN machine.image[a[p]]
                             ELSE {"R", "U", "W"})
    /\ Goto(p, "grow")

\* no page, or no page-table page: kfree(mem), uvmdealloc(pagetable, a, oldsz)
uvmalloc_fail(p) ==
    LET q == Space(p) IN
    /\ \/ At(p, "grow") /\ a[p] <= want[p] /\ freelist = {}
       \/ At(p, "grow_map") /\ walk_fails(p, q)
    /\ work' = [work EXCEPT ![p] = (IF pc[p] = "grow_map" THEN <<Local(p)>> ELSE <<>>)
                                   \o uvmunmap(q, sz[q] + 1, a[p])]
    /\ Goto(p, IF InExec(p) THEN "exec_free" ELSE "grow_fail")
    /\ UNCHANGED <<alloc, data, ref, perm, sz, state, parent, locals, zeroed, leaked, panic>>

\* growproc() returns; p->sz changes only now
growproc_done(p) ==
    /\ \/ At(p, "grow") /\ a[p] > want[p] /\ ~InExec(p)
       \/ At(p, "shrink")
       \/ At(p, "grow_fail")
    /\ sz' = IF pc[p] = "grow_fail" THEN sz ELSE [sz EXCEPT ![p] = want[p]]
    /\ Leave(p) /\ Goto(p, "user")
    /\ UNCHANGED <<alloc, data, ref, perm, state, parent, word, work, zeroed, leaked, panic>>

-----------------------------------------------------------------------------
(* exec()                                                                   *)

MaxArgs == 1        \* bound: argument strings

\* proc_pagetable() comes first; its calls are those of fork()
exec(p) ==
    /\ At(p, "user") /\ p \in machine.execs /\ machine.size >= Len(machine.image) + 2
    /\ np' = [np EXCEPT ![p] = New(p)]
    /\ Goto(p, "root")
    /\ UNCHANGED <<alloc, data, ref, perm, sz, state, parent, a, want, word, work, zeroed, leaked, panic>>

\* uvmalloc() for the next segment (of one page), or for the guard and the stack
exec_segment(p) ==
    LET q == New(p) IN
    /\ At(p, "exec") /\ sz[q] <= Len(machine.image)
    /\ a' = [a EXCEPT ![p] = sz[q] + 1]
    /\ want' = [want EXCEPT ![p] = IF sz[q] < Len(machine.image) THEN sz[q] + 1 ELSE sz[q] + 2]
    /\ Goto(p, "grow")
    /\ UNCHANGED <<alloc, data, ref, perm, sz, state, parent, np, word, work, zeroed, leaked, panic>>

\* uvmalloc() returns: loadseg() of the segment; or uvmclear() of the guard, and
\* the arguments come next
exec_grown(p) ==
    LET q == New(p) IN
    /\ At(p, "grow") /\ a[p] > want[p] /\ InExec(p)
    /\ sz' = [sz EXCEPT ![q] = want[p]]
    /\ IF want[p] <= Len(machine.image)
       THEN /\ data' = [data EXCEPT ![ref[Pte(q, want[p])]] = Loaded]
            /\ Goto(p, "exec")
            /\ want' = [want EXCEPT ![p] = 0]
            /\ UNCHANGED perm
       ELSE /\ perm' = [perm EXCEPT ![q][want[p] - 1] = @ \ {"U"}]
            /\ Goto(p, "exec_push")
            /\ \E argc \in 0..MaxArgs : want' = [want EXCEPT ![p] = argc + 1]
            /\ UNCHANGED data
    /\ a' = [a EXCEPT ![p] = 1]
    /\ UNCHANGED <<alloc, ref, state, parent, np, word, work, zeroed, leaked, panic>>

\* copyout() of an argument string, then of the array, to the stack page
exec_push(p, x) ==
    /\ At(p, "exec_push") /\ want[p] > 0
    /\ a' = [a EXCEPT ![p] = sz[New(p)]]
    /\ word' = [word EXCEPT ![p] = x]
    /\ want' = [want EXCEPT ![p] = @ - 1]
    /\ Goto(p, "cow")
    /\ UNCHANGED <<alloc, data, ref, perm, sz, state, parent, np, work, zeroed, leaked, panic>>

\* bad: a header or a segment cannot be read, the arguments do not fit, or
\* copyout() finds no memory
exec_bad(p) ==
    /\ InExec(p)
    /\ At(p, "exec") \/ (At(p, "exec_push") /\ want[p] > 0) \/ (At(p, "cow") /\ cow_refuses(p))
    /\ word' = [word EXCEPT ![p] = Junk]
    /\ Goto(p, "exec_free")
    /\ UNCHANGED <<alloc, data, ref, perm, sz, state, parent, a, np, want, work, zeroed, leaked, panic>>

\* slip: p->sz is not yet the new size when the old page table is freed
exec_commit_OldSize(p) ==
    LET q == New(p)
        other == [b \in {p, q} |-> IF b = p THEN q ELSE p] IN
    /\ At(p, "exec_push") /\ want[p] = 0
    /\ ref' = [s \in DOMAIN ref |-> IF s[1] \in {p, q} /\ s[2] \in {"table", "pte"}
                              THEN ref[<<other[s[1]], s[2], s[3]>>] ELSE ref[s]]
    /\ perm' = [perm EXCEPT ![p] = perm[q], ![q] = perm[p]]
    /\ sz' = [sz EXCEPT ![p] = sz[q]]
    /\ Goto(p, "exec_free")
    /\ UNCHANGED <<alloc, data, state, parent, locals, work, zeroed, leaked, panic>>

\* the process gets the new address space; the old one is freed
exec_commit(p) ==
    LET q == New(p)
        other == [b \in {p, q} |-> IF b = p THEN q ELSE p] IN
    /\ At(p, "exec_push") /\ want[p] = 0
    /\ ref' = [s \in DOMAIN ref |-> IF s[1] \in {p, q} /\ s[2] \in {"table", "pte"}
                              THEN ref[<<other[s[1]], s[2], s[3]>>] ELSE ref[s]]
    /\ perm' = [perm EXCEPT ![p] = perm[q], ![q] = perm[p]]
    /\ sz' = [sz EXCEPT ![p] = sz[q], ![q] = sz[p]]
    /\ Goto(p, "exec_free")
    /\ UNCHANGED <<alloc, data, state, parent, locals, work, zeroed, leaked, panic>>

\* proc_freepagetable() of the address space that is given up
exec_free(p) ==
    LET q == New(p) IN
    /\ At(p, "exec_free")
    /\ work' = [work EXCEPT ![p] = uvmunmap(q, 1, sz[q] + 1) \o freewalk(q, ref)]
    /\ sz' = [sz EXCEPT ![q] = 0]
    /\ Goto(p, "exec_done")
    /\ UNCHANGED <<alloc, data, ref, perm, state, parent, locals, zeroed, leaked, panic>>

exec_done(p) ==
    /\ At(p, "exec_done")
    /\ Leave(p) /\ Goto(p, "user")
    /\ UNCHANGED <<alloc, data, ref, perm, sz, state, parent, word, work, zeroed, leaked, panic>>

-----------------------------------------------------------------------------
(* exit() and wait()                                                        *)

sys_exit(p) ==
    /\ At(p, "user") /\ p # init
    /\ exit(p)
    /\ UNCHANGED <<alloc, data, ref, perm, sz, locals, work, zeroed, leaked>>

zombie_child(p, q) == At(p, "user") /\ parent[q] = p /\ state[q] = "ZOMBIE"

\* wait(0) finds a zombie
wait(p, q) ==
    /\ zombie_child(p, q)
    /\ np' = [np EXCEPT ![p] = q]
    /\ Goto(p, "reap")
    /\ UNCHANGED <<alloc, data, ref, perm, sz, state, parent, a, want, word, work, zeroed, leaked, panic>>

\* wait(addr) finds a zombie: copyout() of the exit status comes first
wait_status(p, q, v, x) ==
    /\ zombie_child(p, q) /\ x # Junk
    /\ np' = [np EXCEPT ![p] = q]
    /\ EnterCow(p, v, x)

\* freeproc(): trapframe, user pages, page-table pages
freeproc(p) ==
    LET q == np[p] IN
    /\ At(p, "reap")
    /\ work' = [work EXCEPT ![p] = <<Trapframe(q)>> \o uvmunmap(q, 1, sz[q] + 1)
                                   \o freewalk(q, ref)]
    /\ Goto(p, "wait_free")
    /\ UNCHANGED <<alloc, data, ref, perm, sz, state, parent, locals, zeroed, leaked, panic>>

wait_done(p) ==
    LET q == np[p] IN
    /\ At(p, "wait_free")
    /\ sz' = [sz EXCEPT ![q] = 0]
    /\ parent' = [parent EXCEPT ![q] = 0]
    /\ state' = [state EXCEPT ![q] = "UNUSED"]
    /\ Leave(p) /\ Goto(p, "user")
    /\ UNCHANGED <<alloc, data, ref, perm, word, work, zeroed, leaked, panic>>

-----------------------------------------------------------------------------
Stores == Word \cup {Zero}

Step(p) ==
    \/ kfree_drop(p) \/ kfree_push(p)
    \/ cow_fail(p) \/ cow_alloc(p) \/ cow_copy(p) \/ cow_done(p)
    \/ alloc_trapframe(p) \/ uvmcreate(p) \/ map_trampoline(p)
    \/ uvmcopy_page(p) \/ uvmcopy_walk(p) \/ uvmcopy_map(p) \/ uvmcopy_err(p)
    \/ fork_fail(p) \/ fork_done(p)
    \/ uvmalloc_page(p) \/ uvmalloc_walk(p) \/ uvmalloc_map(p) \/ uvmalloc_fail(p)
    \/ growproc_done(p)
    \/ exec_segment(p) \/ exec_grown(p) \/ (\E x \in Word : exec_push(p, x)) \/ exec_bad(p)
    \/ exec_commit(p) \/ exec_free(p) \/ exec_done(p)
    \/ freeproc(p) \/ wait_done(p)

User(p) ==
    \/ \E v \in VA, x \in Stores : "store" \in machine.calls /\ store(p, v, x)
    \/ \E v \in VA : "store" \in machine.calls /\ store_fault(p, v)
    \/ \E v \in VA, x \in Stores : "read" \in machine.calls /\ copyout(p, v, x)
    \/ \E q \in Procs : fork(p, q)
    \/ \E q \in Procs : wait(p, q)
    \/ \E q \in Procs, v \in VA, x \in Stores :
            "wait" \in machine.calls /\ wait_status(p, q, v, x)
    \/ \E n \in 0..machine.size : "sbrk" \in machine.calls /\ growproc(p, n)
    \/ exec(p)
    \/ sys_exit(p)

Next == panic = "" /\ UNCHANGED machine /\ \E p \in Procs : Step(p) \/ User(p)

Spec == Init /\ [][Next]_vars

-----------------------------------------------------------------------------
(* Properties.                                                              *)

\* the slots that count in refcnt[g]: all that point to g, but for the one whose
\* kfree() is between its two sections
Refs(g) == {s \in DOMAIN ref : ref[s] = g /\ ~\E p \in Procs : zeroed[p] /\ Head(work[p]) = s}

\* refcnt[] counts the pointers to a page, plus one for every reference a failing
\* uvmcopy() abandoned, and a page on kmem.freelist has none: a page is never freed
\* early or twice, and leaks only there.
RefcntExact ==
    \A g \in Pages :
        /\ refcnt[g] = Cardinality(Refs(g)) + leaked[g]
        /\ g \in freelist => refcnt[g] = 0

\* A page that two processes share is not writable in either.
SharedReadOnly ==
    \A p, q \in Procs, v, w \in VA :
        <<p, v>> # <<q, w>> /\ mapped(p, v) /\ mapped(q, w)
            /\ ref[Pte(p, v)] = ref[Pte(q, w)]
        => "W" \notin perm[p][v]

\* None of the consistency panics of kalloc(), kfree(), increse(), uvmunmap(),
\* freewalk() and mappages() is reachable.
NoPanic == panic \in {"", "init exiting"}

\* Copy-on-write cannot be observed: every process has a memory of its own.
Live == {p \in Procs : state[p] = "live"}
Size(p) == IF pc[p] = "shrink" THEN want[p] ELSE sz[p]
Memory ==
    [p \in 1..NPROC |-> IF p \in Live THEN [v \in 1..Size(p) |-> data[ref[Pte(p, v)]]] ELSE <<>>]
Abstract == INSTANCE PrivateMemory WITH
    Procs <- 1..NPROC, live <- Live, mem <- Memory, Word <- Stores, MaxPages <- MAXVA,
    Programs <- {[v \in 1..Len(m.image) |-> Loaded] : m \in Machines}
ImplementsPrivateMemory == Abstract!Spec
=============================================================================
