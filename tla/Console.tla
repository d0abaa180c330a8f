------------------------------ MODULE Console ------------------------------
(***************************************************************************)
(* The console (kernel/console.c), its UART (kernel/uart.c), kernel        *)
(* printing (kernel/printf.c), spin locks with their interrupt nesting     *)
(* (kernel/spinlock.c) and the delivery of the UART's interrupt            *)
(* (kernel/trap.c, kernel/plic.c).                                         *)
(*                                                                         *)
(* A CPU executes a list of operations.  An interrupt, taken only while    *)
(* the CPU has interrupts enabled, puts the handler's operations in front. *)
(* A process stays on its CPU; while it sleeps the CPU idles in the        *)
(* scheduler, with interrupts enabled.                                     *)
(***************************************************************************)
EXTENDS Integers, Sequences, FiniteSets, FiniteSetsExt, SequencesExt, TLC

CONSTANTS
    INPUT_BUF_SIZE, UART_TX_BUF_SIZE,
    WRAP,           \* 2^32: cons.r, cons.w and cons.e are uint
    Setups          \* [calls, keys]: the calls of each CPU's process, what is typed

ASSUME ConsoleAssumption ==
    WRAP % INPUT_BUF_SIZE = 0 /\ WRAP > INPUT_BUF_SIZE /\ UART_TX_BUF_SIZE > 0

VARIABLES
    cpu,            \* per CPU: code to execute, intr (SIE), noff, intena
    lock,           \* the CPU that holds each spin lock, 0 for none
    cons,           \* cons.buf, cons.r, cons.w, cons.e
    tx,             \* uart_tx_buf, uart_tx_w, uart_tx_r
    uart,           \* the device: thr being sent, rx waiting, keys still to be typed
    plic,           \* the UART's interrupt: pending, and claimed by a handler
    panic

vars == <<cpu, lock, cons, tx, uart, plic, panic>>

CPUs == DOMAIN cpu

\* the keys: two letters, newline, end of file, kill line, backspace, process list
Key == {"a", "b", "\n", "D", "U", "H", "P"}
Stored == {"a", "b", "\n", "D"}

O(name) == [op |-> name]
acquire(l) == << O("push_off"), [op |-> "acquire", lock |-> l] >>
release(l) == << [op |-> "release", lock |-> l], O("pop_off") >>

\* consputc() and uartputc_sync(): three characters for a backspace
uartputc_sync == << O("push_off"), O("wait"), O("thr"), O("pop_off") >>
consputc(c) == IF c = "H" THEN uartputc_sync \o uartputc_sync \o uartputc_sync ELSE uartputc_sync

\* printf() of one character
printf == acquire("pr") \o uartputc_sync \o release("pr")

consoleread(n) == acquire("cons") \o << [op |-> "read", n |-> n, target |-> n] >> \o release("cons")
uartputc(c) == acquire("tx") \o << [op |-> "put", c |-> c], O("uartstart") >> \o release("tx")
consolewrite(s) == FlattenSeq([i \in DOMAIN s |-> uartputc(s[i])])
consoleintr(c) == acquire("cons") \o << [op |-> "intr", c |-> c] >> \o release("cons")

\* devintr() for the UART: uartintr(), plic_complete(), and kerneltrap()'s return
devintr == << O("getc") >> \o acquire("tx") \o << O("uartstart") >> \o release("tx")
           \o << O("complete"), O("sret") >>

Init ==
    /\ \E s \in Setups :
        /\ cpu = [c \in DOMAIN s.calls |->
                    [code |-> s.calls[c], intr |-> TRUE, noff |-> 0, intena |-> FALSE, killed |-> FALSE]]
        /\ uart = [thr |-> 0, rx |-> <<>>, keys |-> s.keys]
    /\ lock = [l \in {"cons", "tx", "pr"} |-> 0]
    /\ cons = [buf |-> [i \in 0..(INPUT_BUF_SIZE - 1) |-> ""], r |-> 0, w |-> 0, e |-> 0]
    /\ tx = [buf |-> [i \in 0..(UART_TX_BUF_SIZE - 1) |-> ""], r |-> 0, w |-> 0]
    /\ plic = [pending |-> FALSE, claimed |-> FALSE]
    /\ panic = FALSE

-----------------------------------------------------------------------------

Minus(a, b) == (a - b) % WRAP
Plus(a, b) == (a + b) % WRAP

\* the operation a CPU is at, and the moves to the rest of its code
Does(c, op) == cpu[c].code # <<>> /\ Head(cpu[c].code).op = op /\ ~panic
Now(c) == Head(cpu[c].code)
Rest(c) == Tail(cpu[c].code)
Goes(c, code) == cpu' = [cpu EXCEPT ![c].code = code]

\* wakeup(): the processes asleep on the channel can run
wakeup(cpus, chan) ==
    [c \in DOMAIN cpus |-> [cpus[c] EXCEPT !.code =
        SelectSeq(@, LAMBDA o : ~(o.op = "asleep" /\ o.chan = chan))]]

\* sleep() on chan with lock l held, to try the operation again afterwards
\* (sched() panics when another lock is held)
sleep(cpus, c, chan, l) ==
    /\ lock' = [lock EXCEPT ![l] = 0]
    /\ panic' = (cpu[c].noff # 1)
    /\ cpu' = [cpus EXCEPT ![c].code = << [op |-> "asleep", chan |-> chan] >> \o acquire(l) \o @,
                          ![c].intr = TRUE, ![c].noff = 0]

\* slip: interrupts stay enabled
push_off_StaysOn(c) ==
    /\ Does(c, "push_off")
    /\ cpu' = [cpu EXCEPT ![c].code = Rest(c), ![c].noff = @ + 1,
                          ![c].intena = IF cpu[c].noff = 0 THEN cpu[c].intr ELSE @]
    /\ UNCHANGED <<lock, cons, tx, uart, plic, panic>>

push_off(c) ==
    /\ Does(c, "push_off")
    /\ cpu' = [cpu EXCEPT ![c].code = Rest(c), ![c].intr = FALSE, ![c].noff = @ + 1,
                          ![c].intena = IF cpu[c].noff = 0 THEN cpu[c].intr ELSE @]
    /\ UNCHANGED <<lock, cons, tx, uart, plic, panic>>

pop_off(c) ==
    /\ Does(c, "pop_off")
    /\ panic' = (cpu[c].intr \/ cpu[c].noff < 1)
    /\ cpu' = [cpu EXCEPT ![c].code = Rest(c), ![c].noff = @ - 1,
                          ![c].intr = cpu[c].noff = 1 /\ cpu[c].intena]
    /\ UNCHANGED <<lock, cons, tx, uart, plic>>

\* acquire() spins until the lock is free, and panics when this CPU holds it
acquires(c) ==
    /\ Does(c, "acquire") /\ lock[Now(c).lock] \in {0, c}
    /\ panic' = (lock[Now(c).lock] = c)
    /\ lock' = [lock EXCEPT ![Now(c).lock] = c]
    /\ Goes(c, Rest(c))
    /\ UNCHANGED <<cons, tx, uart, plic>>

releases(c) ==
    /\ Does(c, "release")
    /\ panic' = (lock[Now(c).lock] # c)
    /\ lock' = [lock EXCEPT ![Now(c).lock] = 0]
    /\ Goes(c, Rest(c))
    /\ UNCHANGED <<cons, tx, uart, plic>>

-----------------------------------------------------------------------------
(* Output                                                                   *)

\* slip: uartputc_sync() does not look at LSR
sync_wait_Blind(c) ==
    /\ Does(c, "wait")
    /\ Goes(c, Rest(c))
    /\ UNCHANGED <<lock, cons, tx, uart, plic, panic>>

\* uartputc_sync() waits for LSR_TX_IDLE
sync_wait(c) ==
    /\ Does(c, "wait") /\ uart.thr = 0
    /\ Goes(c, Rest(c))
    /\ UNCHANGED <<lock, cons, tx, uart, plic, panic>>

\* WriteReg(THR, c): by now another CPU may have written it too
thr(c) ==
    /\ Does(c, "thr")
    /\ uart' = [uart EXCEPT !.thr = @ + 1]
    /\ Goes(c, Rest(c))
    /\ UNCHANGED <<lock, cons, tx, plic, panic>>

\* uartputc() under uart_tx_lock
put(c) ==
    /\ Does(c, "put")
    /\ \/ /\ tx.w = tx.r + UART_TX_BUF_SIZE
          /\ sleep(cpu, c, "uart_tx_r", "tx")
          /\ UNCHANGED tx
       \/ /\ tx.w # tx.r + UART_TX_BUF_SIZE
          /\ tx' = [tx EXCEPT !.buf[tx.w % UART_TX_BUF_SIZE] = Now(c).c, !.w = @ + 1]
          /\ Goes(c, Rest(c))
          /\ UNCHANGED <<lock, panic>>
    /\ UNCHANGED <<cons, uart, plic>>

\* slip: uartstart() does not wake the writer
uartstart_NoWakeup(c) ==
    /\ Does(c, "uartstart")
    /\ IF tx.w = tx.r \/ uart.thr # 0
       THEN Goes(c, Rest(c)) /\ UNCHANGED tx
       ELSE /\ tx' = [tx EXCEPT !.r = @ + 1]
            /\ Goes(c, << O("thr") >> \o cpu[c].code)
    /\ UNCHANGED <<lock, cons, uart, plic, panic>>

\* one turn of uartstart(): a character goes to THR, or there is nothing to do
uartstart(c) ==
    /\ Does(c, "uartstart")
    /\ IF tx.w = tx.r \/ uart.thr # 0
       THEN Goes(c, Rest(c)) /\ UNCHANGED tx
       ELSE /\ tx' = [tx EXCEPT !.r = @ + 1]
            /\ cpu' = wakeup([cpu EXCEPT ![c].code = << O("thr") >> \o @], "uart_tx_r")
    /\ UNCHANGED <<lock, cons, uart, plic, panic>>

-----------------------------------------------------------------------------
(* Input                                                                    *)

\* one turn of consoleread()'s loops, under cons.lock: killed() is tested, a key
\* goes to the user (or is lost when either_copyout() fails), or the call returns
consoleread_loop(c) ==
    LET n == Now(c).n
        key == cons.buf[cons.r % INPUT_BUF_SIZE]
        next == Plus(cons.r, 1) IN
    /\ Does(c, "read")
    /\ \/ /\ n > 0 /\ cons.r = cons.w /\ ~cpu[c].killed
          /\ Goes(c, <<O("sleep")>> \o cpu[c].code)
          /\ UNCHANGED cons
       \/ /\ n > 0 /\ cons.r # cons.w
          /\ cons' = [cons EXCEPT !.r = IF key = "D" /\ n < Now(c).target THEN @ ELSE next]
          /\ \/ Goes(c, IF key \in {"D", "\n"} THEN Rest(c)
                        ELSE <<[Now(c) EXCEPT !.n = n - 1]>> \o Rest(c))
             \/ key # "D" /\ Goes(c, Rest(c))
       \/ /\ n = 0 \/ (cons.r = cons.w /\ cpu[c].killed)
          /\ Goes(c, Rest(c))
          /\ UNCHANGED cons
    /\ UNCHANGED <<lock, tx, uart, plic, panic>>

\* consoleread()'s sleep(): kill() takes only p->lock, so that it may have come
\* since killed() was tested
consoleread_sleep(c) ==
    /\ Does(c, "sleep")
    /\ sleep([cpu EXCEPT ![c].code = Rest(c)], c, "cons_r", "cons")
    /\ UNCHANGED <<cons, tx, uart, plic>>

\* uartintr(): the next character, or on to the output
getc(c) ==
    /\ Does(c, "getc")
    /\ IF uart.rx = <<>> THEN Goes(c, Rest(c)) /\ UNCHANGED uart
       ELSE /\ uart' = [uart EXCEPT !.rx = Tail(@)]
            /\ Goes(c, consoleintr(Head(uart.rx)) \o cpu[c].code)
    /\ UNCHANGED <<lock, cons, tx, plic, panic>>

\* slip: backspace also erases what was already handed to the readers
consoleintr_key_ErasesLine(c) ==
    LET key == Now(c).c
        room == Minus(cons.e, cons.r) < INPUT_BUF_SIZE IN
    /\ Does(c, "intr")
    /\ IF key = "H" /\ cons.e # cons.r
       THEN cons' = [cons EXCEPT !.e = Minus(@, 1)] /\ Goes(c, consputc("H") \o Rest(c))
       ELSE UNCHANGED cons /\ Goes(c, IF key \in Stored /\ room
                                      THEN consputc(key) \o <<[op |-> "store", c |-> key]>> \o Rest(c)
                                      ELSE Rest(c))
    /\ UNCHANGED <<lock, tx, uart, plic, panic>>

\* consoleintr() under cons.lock: the switch, up to the echo
consoleintr_key(c) ==
    LET key == Now(c).c
        last == cons.buf[Minus(cons.e, 1) % INPUT_BUF_SIZE]
        room == Minus(cons.e, cons.r) < INPUT_BUF_SIZE
        erases == cons.e # cons.w /\ (key = "H" \/ (key = "U" /\ last # "\n")) IN
    /\ Does(c, "intr")
    /\ cons' = IF erases THEN [cons EXCEPT !.e = Minus(@, 1)] ELSE cons
    /\ Goes(c, CASE erases /\ key = "U" -> consputc("H") \o cpu[c].code
                 [] erases /\ key = "H" -> consputc("H") \o Rest(c)
                 [] key = "P" -> printf \o Rest(c)                       \* procdump()
                 [] key \in Stored /\ room -> consputc(key) \o <<[op |-> "store", c |-> key]>> \o Rest(c)
                 [] OTHER -> Rest(c))
    /\ UNCHANGED <<lock, tx, uart, plic, panic>>

\* consoleintr() after the echo: the character is stored, a whole line is handed over
store(c) ==
    LET key == Now(c).c
        e == Plus(cons.e, 1)
        whole == key \in {"\n", "D"} \/ Minus(e, cons.r) = INPUT_BUF_SIZE
        done == [cpu EXCEPT ![c].code = Rest(c)] IN
    /\ Does(c, "store")
    /\ cons' = [cons EXCEPT !.buf[cons.e % INPUT_BUF_SIZE] = key, !.e = e,
                            !.w = IF whole THEN e ELSE @]
    /\ cpu' = IF whole THEN wakeup(done, "cons_r") ELSE done
    /\ UNCHANGED <<lock, tx, uart, plic, panic>>

-----------------------------------------------------------------------------
(* Interrupts and the device                                                *)

\* a CPU takes the UART's interrupt: plic_claim()
interrupt(c) ==
    /\ cpu[c].intr /\ plic.pending /\ ~plic.claimed /\ ~panic
    /\ plic' = [pending |-> FALSE, claimed |-> TRUE]
    /\ cpu' = [cpu EXCEPT ![c].code = devintr \o @, ![c].intr = FALSE]
    /\ UNCHANGED <<lock, cons, tx, uart, panic>>

complete(c) ==
    /\ Does(c, "complete")
    /\ plic' = [plic EXCEPT !.claimed = FALSE]
    /\ Goes(c, Rest(c))
    /\ UNCHANGED <<lock, cons, tx, uart, panic>>

sret(c) ==
    /\ Does(c, "sret")
    /\ cpu' = [cpu EXCEPT ![c].code = Rest(c), ![c].intr = TRUE]
    /\ UNCHANGED <<lock, cons, tx, uart, plic, panic>>

\* kill(): the process is marked, and runs if it was asleep
kill(c) ==
    /\ ~cpu[c].killed /\ cpu[c].code # <<>> /\ ~panic
    /\ cpu' = [cpu EXCEPT ![c].killed = TRUE, ![c].code = SelectSeq(@, LAMBDA o : o.op # "asleep")]
    /\ UNCHANGED <<lock, cons, tx, uart, plic, panic>>

\* keys the receiver can hold (the bound keeps the runs small)
RxFIFO == 2

\* a key is pressed, and the receiver interrupts
Press ==
    /\ uart.keys # <<>> /\ Len(uart.rx) < RxFIFO
    /\ uart' = [uart EXCEPT !.keys = Tail(@), !.rx = Append(@, Head(uart.keys))]
    /\ plic' = [plic EXCEPT !.pending = TRUE]
    /\ UNCHANGED <<cpu, lock, cons, tx, panic>>

\* the transmitter has sent what it was given, and interrupts
Sent ==
    /\ uart.thr > 0
    /\ uart' = [uart EXCEPT !.thr = 0]
    /\ plic' = [plic EXCEPT !.pending = TRUE]
    /\ UNCHANGED <<cpu, lock, cons, tx, panic>>

Step(c) ==
    \/ push_off(c) \/ pop_off(c) \/ acquires(c) \/ releases(c)
    \/ sync_wait(c) \/ thr(c) \/ put(c) \/ uartstart(c)
    \/ consoleread_loop(c) \/ consoleread_sleep(c) \/ getc(c) \/ consoleintr_key(c) \/ store(c)
    \/ interrupt(c) \/ complete(c) \/ sret(c) \/ kill(c)

Next == (\E c \in CPUs : Step(c)) \/ Press \/ Sent

Spec == Init /\ [][Next]_vars

-----------------------------------------------------------------------------
(* Properties                                                               *)

Ops(c) == {cpu[c].code[i].op : i \in DOMAIN cpu[c].code}
Asleep(c, chan) == [op |-> "asleep", chan |-> chan] \in Range(cpu[c].code)
WaitsFor(c) == IF cpu[c].code # <<>> /\ Now(c).op = "acquire" THEN {lock[Now(c).lock]} \ {0} ELSE {}

\* acquire(), release(), pop_off() and sched() never panic: an interrupt never
\* finds its CPU inside a critical section whose lock the handler takes, the
\* nesting count returns to what it was, nobody sleeps with a second lock.  No
\* two CPUs spin for each other's locks (console input takes cons.lock, then
\* pr.lock).
LocksSound ==
    /\ ~panic
    /\ \A l \in DOMAIN lock : lock[l] # 0 => ~cpu[lock[l]].intr /\ cpu[lock[l]].noff > 0
    /\ \A c \in CPUs, d \in CPUs : ~(d \in WaitsFor(c) /\ c \in WaitsFor(d))

\* No character for THR is lost: uartstart() holds uart_tx_lock and
\* uartputc_sync() does not, so both may find THR empty and write it, but each
\* CPU at most once, and the FIFO uartinit() enables is deeper than that.
ThrBound == uart.thr <= Cardinality(CPUs)

\* Nothing waits for an event that already happened: a process sleeps in
\* consoleread() only while there is no whole line (even when kill() came
\* between its killed() and its sleep()), in uartputc() only while the buffer
\* is full; buffered output has the transmitter busy, its interrupt
\* pending or a CPU on its way to uartstart(); a received key has its interrupt
\* pending or a handler that will look again.
NothingStalls ==
    /\ \A c \in CPUs :
        /\ Asleep(c, "cons_r") => cons.r = cons.w
        /\ Asleep(c, "uart_tx_r") => tx.w = tx.r + UART_TX_BUF_SIZE
    /\ tx.w # tx.r => uart.thr > 0 \/ plic.pending \/ \E c \in CPUs : Ops(c) \cap {"uartstart", "thr"} # {}
    /\ uart.rx # <<>> => plic.pending \/ \E c \in CPUs : "getc" \in Ops(c)

\* The rings of console.c and uart.c, with their wrapping indices, implement the
\* terminal: editing never reaches a line already handed over, a full buffer
\* drops keys instead of overwriting, output keeps its order.
InRing(from, to) == [i \in 1..Minus(to, from) |-> cons.buf[Plus(from, i - 1) % INPUT_BUF_SIZE]]
OutRing == [i \in 1..(tx.w - tx.r) |-> tx.buf[(tx.r + i - 1) % UART_TX_BUF_SIZE]]
Term == INSTANCE Terminal WITH Char <- Stored, Ends <- {"\n", "D"},
            InSize <- INPUT_BUF_SIZE, OutSize <- UART_TX_BUF_SIZE,
            edit <- InRing(cons.w, cons.e), line <- InRing(cons.r, cons.w), queue <- OutRing
ImplementsTerminal == Term!Spec
=============================================================================
