------------------------------- MODULE LpassPcm -------------------------------
(***************************************************************************)
(* One PCM interface of sound/soc/qcom/ipq/ipq9574-lpass-pcm.c with the    *)
(* thread of ipq9574-pcm-raw-lb-test.c that reads it.  The hardware fills  *)
(* a ring of equal periods and interrupts at the end of each; the handler  *)
(* publishes the period that has just ended in rx_add and raises           *)
(* data_avail; the thread waits, lowers data_avail, takes rx_add, writes   *)
(* that period of the transmit ring, lowers data_avail again and then,     *)
(* when it tests what it sent, reads the period of the receive ring.  A    *)
(* user starts and stops the test through sysfs.                           *)
(*                                                                         *)
(* Time is assumed in Deadline only: the handler ends within the period it *)
(* announces.  The thread may be late; ended and late count the periods    *)
(* that go by, and MaxLate bounds the count.                               *)
(* Settled is the user's part: a test comes up or ends before the next     *)
(* write, which nothing in the code ensures (see the README).  The samples *)
(* are left out.  The tests that copy RX to TX are taken for those with    *)
(* the same parameters: they are done with the period in Done.             *)
(*                                                                         *)
(* SingleSize, NoGuard and NoEvent are not the code: each is a definition  *)
(* below with one mistake.                                                 *)
(***************************************************************************)
EXTENDS Integers, FiniteSets, FiniteSetsExt

CONSTANTS
  Tasks,    \* the kernel threads a user may have started
  Tried,    \* the tests the user starts
  Interface, \* PRIMARY (0) or SECONDARY (1)
  MaxLate   \* how many periods may end before a thread has done with one

ASSUME UserOK == Tried \subseteq 1 .. 7 /\ Interface \in {0, 1}
ASSUME LateOK == MaxLate \in Nat

VARIABLES
  tree,    \* the device tree: both interfaces or one, the memory of each ring
  start,   \* ctx.start
  running, \* ctx.running
  writer,  \* what the user's write is doing
  at,      \* where each thread is
  held,    \* the period of both rings that each thread works on
  count,   \* no_of_buffers
  size,    \* dma_buffer_size
  on,      \* the DMA channels are enabled
  dma,     \* the period the hardware is filling
  raised,  \* the interrupt status
  irq,     \* where the handler is
  index,   \* the period the handler has computed
  rxAdd,   \* rx_add
  avail,   \* data_avail
  ended,   \* periods that ended since data_avail rose for the pass to come
  late     \* and since it rose for the pass that works on its period
vars == <<tree, start, running, writer, at, held, count, size, on, dma, raised, irq, index,
          rxAdd, avail, ended, late>>

Tests == 1 .. 7
Memory == {"lpm", "ddr"}
Trees == {t \in [dual : BOOLEAN, voice : BOOLEAN, rx : Memory, tx : Memory] :
            t.voice => t.rx = "lpm" /\ t.tx = "lpm"}

---------------------------------------------------------------------------
(* The size of the ring                                                    *)

\* Sampling rate in kHz and active slots of each test; a sample has two bytes for
\* both widths.
Rate(c) == IF c \in {4, 5, 6} THEN 16 ELSE 8
Slots(c) == CASE c \in {2, 5} -> 2 [] c = 7 -> 16 [] OTHER -> 4
SamplesPerInterrupt(c) == Rate(c) * Slots(c) * 2 * 10

\* Sixteen periods, halved until the ring fits and is aligned; 0 when none does.
PrepareDmaBuffer(period, max) ==
  period * Max({k \in {16, 8, 4, 2, 1, 0} : k * period <= max /\ (k * period) % 16 = 0})

LpmSize(t) == IF t.dual THEN 4096 ELSE 8192
DdrSize == 16 * 10 * 4 * 32 * 16
SingleSize(c, t) ==
  PrepareDmaBuffer(SamplesPerInterrupt(c), IF "lpm" \in {t.rx, t.tx} THEN 8192 ELSE DdrSize)
CircularBuffer(c, t) ==
  PrepareDmaBuffer(SamplesPerInterrupt(c),
                   IF "lpm" \in {t.rx, t.tx} THEN LpmSize(t) ELSE DdrSize)

Buffers(c, t) == IF t.voice THEN 2 ELSE CircularBuffer(c, t) \div SamplesPerInterrupt(c)
Bytes(c, t) == IF t.voice THEN 4096 ELSE CircularBuffer(c, t)

\* Where the rings of interface i lie in the LPM: the transmit ring follows the space of
\* the receive ring, except for the voice loopback, which sends what it receives.
LpmBase(i, t) == IF t.dual /\ i = 1 THEN 8192 ELSE 0
RxBase(i, t) == LpmBase(i, t)
TxBase(i, t) == LpmBase(i, t) + (IF t.voice THEN 0 ELSE LpmSize(t))

---------------------------------------------------------------------------
(* The hardware and the interrupt handler                                  *)

Using == {"work", "check"}

\* A pass is due: data_avail is up, or the thread has seen it and takes no period yet.
\* What is raised while it writes its period is lowered with it.
Due == /\ \A t \in Tasks : at[t] # "work"
       /\ avail \/ \E t \in Tasks : at[t] \in {"read", "take"}

\* What keeps the system in time: the handler runs before another period ends.
Deadline == irq = "idle" /\ ~raised

\* Registers of the LPASS interface: a period is full, the next one begins.
PeriodEnds ==
  /\ on /\ Deadline /\ ended < MaxLate /\ late < MaxLate
  /\ dma' = (dma + 1) % count /\ raised' = TRUE
  /\ ended' = IF Due THEN ended + 1 ELSE 0
  /\ late' = IF \E t \in Tasks : at[t] \in Using THEN late + 1 ELSE 0
  /\ UNCHANGED <<tree, start, running, writer, at, held, count, size, on, irq, index, rxAdd, avail>>

GetDataptr(d, n) == (d + (n - 1)) % n

\* The handler reads the status and the address, again after each clear.
IrqStatus ==
  /\ irq = "idle" /\ raised
  /\ index' = GetDataptr(dma, count) /\ irq' = "index"
  /\ UNCHANGED <<tree, start, running, writer, at, held, count, size, on, dma, raised, rxAdd, avail, ended, late>>

IrqIndex ==
  /\ irq = "index" /\ irq' = "avail" /\ rxAdd' = index /\ index' = 0
  /\ UNCHANGED <<tree, start, running, writer, at, held, count, size, on, dma, raised, avail, ended, late>>

RaiseAvail == avail' = TRUE /\ ended' = IF Due THEN ended ELSE 0

IrqAvail ==
  /\ irq = "avail" /\ irq' = "clear" /\ RaiseAvail
  /\ UNCHANGED <<tree, start, running, writer, at, held, count, size, on, dma, raised, index, rxAdd, late>>

IrqClear ==
  /\ irq = "clear" /\ irq' = "idle" /\ raised' = FALSE
  /\ UNCHANGED <<tree, start, running, writer, at, held, count, size, on, dma, index, rxAdd, avail, ended, late>>

---------------------------------------------------------------------------
(* The thread of the test                                                  *)

Goto(t, p) == at' = [at EXCEPT ![t] = p]

\* pcm_init reads the configuration; ipq_pcm_init sizes the ring and starts the DMA.
Setup(t) ==
  /\ at[t] = "created" /\ start \in Tests /\ CircularBuffer(start, tree) > 0
  /\ count' = Buffers(start, tree) /\ size' = Bytes(start, tree)
  /\ avail' = FALSE /\ ended' = 0 /\ late' = 0
  /\ rxAdd' = 0 /\ on' = TRUE /\ dma' = 0 /\ raised' = FALSE
  /\ Goto(t, "ready")
  /\ UNCHANGED <<tree, start, running, writer, held, irq, index>>

\* No such configuration, no room for the ring, or the clock refuses.
SetupFails(t) ==
  /\ at[t] = "created" /\ Goto(t, "none")
  /\ avail' \in IF start \in Tests THEN {FALSE} ELSE {avail}
  /\ UNCHANGED <<tree, start, running, writer, held, count, size, on, dma, raised, irq, index, rxAdd, ended, late>>

Run(t) ==
  /\ at[t] = "ready" /\ running' = TRUE /\ Goto(t, "loop")
  /\ UNCHANGED <<tree, start, writer, held, count, size, on, dma, raised, irq, index, rxAdd, avail, ended, late>>

Loop(t) ==
  /\ at[t] = "loop" /\ Goto(t, IF running THEN "wait" ELSE "forget")
  /\ UNCHANGED <<tree, start, running, writer, held, count, size, on, dma, raised, irq, index, rxAdd, avail, ended, late>>

Wait(t) ==
  /\ at[t] = "wait" /\ avail /\ Goto(t, "read")
  /\ UNCHANGED <<tree, start, running, writer, held, count, size, on, dma, raised, irq, index, rxAdd, avail, ended, late>>

Lower(t) ==
  /\ at[t] = "read" /\ avail' = FALSE /\ Goto(t, "take")
  /\ UNCHANGED <<tree, start, running, writer, held, count, size, on, dma, raised, irq, index, rxAdd, ended, late>>

Take(t) ==
  /\ at[t] = "take" /\ held' = [held EXCEPT ![t] = rxAdd] /\ Goto(t, "work")
  /\ late' = ended /\ ended' = 0
  /\ UNCHANGED <<tree, start, running, writer, count, size, on, dma, raised, irq, index, rxAdd, avail>>

\* The period of the transmit ring has been written.
Done(t) ==
  /\ at[t] = "work" /\ avail' = FALSE /\ Goto(t, "check") /\ ended' = 0
  /\ UNCHANGED <<tree, start, running, writer, held, count, size, on, dma, raised, irq, index, rxAdd, late>>

\* process_read has compared the samples of the period of the receive ring, unless the
\* test was stopped; after too many failures it stops it.  (held, late, ended and index
\* are set to 0 when nothing looks at them any more.)
Check(t) ==
  /\ at[t] = "check" /\ Goto(t, "loop")
  /\ running' \in IF start = 0 THEN {running} ELSE {running, FALSE}
  /\ held' = [held EXCEPT ![t] = 0] /\ late' = 0
  /\ UNCHANGED <<tree, start, writer, count, size, on, dma, raised, irq, index, rxAdd, avail, ended>>

\* pcm_deinit forgets the test, then stops the DMA.
Forget(t) ==
  /\ at[t] = "forget" /\ start' = 0 /\ running' = FALSE /\ Goto(t, "off")
  /\ UNCHANGED <<tree, writer, held, count, size, on, dma, raised, irq, index, rxAdd, avail, ended, late>>

Off(t) ==
  /\ at[t] = "off" /\ on' = FALSE /\ raised' = FALSE /\ dma' = 0 /\ Goto(t, "none")
  /\ UNCHANGED <<tree, start, running, writer, held, count, size, irq, index, rxAdd, avail, ended, late>>

---------------------------------------------------------------------------
(* The user                                                                *)

Live == {t \in Tasks : at[t] # "none"}
Settled ==
  \/ Live = {} /\ irq = "idle"
  \/ running /\ \A t \in Live : at[t] \notin {"created", "ready", "forget", "off"}
MayWrite == writer = "idle" /\ Settled

NoGuard(c) == FALSE
Refused(c) == tree.dual /\ c = 7

\* The value is stored before it is looked at, so a refused one stays.
Store(c) == MayWrite /\ start' = c

StoreRefused ==
  /\ \E c \in Tried : Refused(c) /\ Store(c)
  /\ UNCHANGED <<tree, running, writer, at, held, count, size, on, dma, raised, irq, index, rxAdd, avail, ended, late>>

StoreWhileRunning ==
  /\ running /\ \E c \in Tried : ~Refused(c) /\ Store(c)
  /\ UNCHANGED <<tree, running, writer, at, held, count, size, on, dma, raised, irq, index, rxAdd, avail, ended, late>>

StoreStart ==
  /\ ~running /\ \E c \in Tried : ~Refused(c) /\ Store(c)
  /\ \E t \in Tasks : at[t] = "none" /\ Goto(t, "created")
  /\ UNCHANGED <<tree, running, writer, held, count, size, on, dma, raised, irq, index, rxAdd, avail, ended, late>>

StoreStopped ==
  /\ ~running /\ Store(0)
  /\ UNCHANGED <<tree, running, writer, at, held, count, size, on, dma, raised, irq, index, rxAdd, avail, ended, late>>

StoreStop ==
  /\ running /\ Store(0) /\ running' = FALSE /\ writer' = "event"
  /\ UNCHANGED <<tree, at, held, count, size, on, dma, raised, irq, index, rxAdd, avail, ended, late>>

NoEvent ==
  /\ writer = "event" /\ writer' = "delay"
  /\ UNCHANGED <<tree, start, running, at, held, count, size, on, dma, raised, irq, index, rxAdd, avail, ended, late>>
SendEvent ==
  /\ writer = "event" /\ writer' = "delay" /\ RaiseAvail
  /\ UNCHANGED <<tree, start, running, at, held, count, size, on, dma, raised, irq, index, rxAdd, late>>

\* The writer sleeps two seconds for the thread to end.
Delayed ==
  /\ writer = "delay" /\ Live = {} /\ writer' = "idle"
  /\ UNCHANGED <<tree, start, running, at, held, count, size, on, dma, raised, irq, index, rxAdd, avail, ended, late>>

---------------------------------------------------------------------------
Init ==
  /\ tree \in Trees
  /\ start = 0 /\ running = FALSE /\ writer = "idle"
  /\ at = [t \in Tasks |-> "none"] /\ held = [t \in Tasks |-> 0]
  /\ count = 0 /\ size = 0 /\ on = FALSE /\ dma = 0 /\ raised = FALSE
  /\ irq = "idle" /\ index = 0 /\ rxAdd = 0 /\ avail = FALSE /\ ended = 0 /\ late = 0

Irq == IrqStatus \/ IrqIndex \/ IrqAvail \/ IrqClear
Task(t) ==
  \/ Setup(t) \/ SetupFails(t) \/ Run(t) \/ Loop(t) \/ Wait(t) \/ Lower(t) \/ Take(t)
  \/ Done(t) \/ Check(t) \/ Forget(t) \/ Off(t)
User == StoreRefused \/ StoreWhileRunning \/ StoreStart \/ StoreStopped \/ StoreStop \/ SendEvent \/ Delayed
Next == PeriodEnds \/ Irq \/ (\E t \in Tasks : Task(t)) \/ User

\* The threads and the handler run when they can, and a stop is carried out; nothing
\* makes the hardware end a period or the user write.
Spec ==
  /\ Init /\ [][Next]_vars
  /\ WF_vars(Irq) /\ (\A t \in Tasks : WF_vars(Task(t))) /\ WF_vars(SendEvent)

---------------------------------------------------------------------------
\* Period x is one of the n that ended last, counting back round the ring.
Behind(x, n) == dma - x \in 1 .. n \/ dma - x + count \in 1 .. n

\* From its writing of the transmit ring to its last look at the receive ring, a thread
\* is on the period that ended last when data_avail rose for it, or a later one: only if
\* the ring comes round within its pass can the hardware be there.  So it is however
\* short the ring came out; one of a single period, which the largest test would get
\* with both interfaces on and where the hardware is there from the first, is refused.
NeverTorn ==
  \A t \in Tasks : at[t] \in Using /\ running /\ on =>
    Behind(held[t], late + 1) /\ (late = 0 => held[t] # dma)

\* The rings in the LPM keep apart: receive from transmit, but for the voice loopback, and
\* those of one interface from whatever ring a test gives the other, all within 16 KiB.
Ring(base, bytes) == [first |-> base, last |-> base + bytes - 1]
Disjoint(r, s) == r.last < s.first \/ s.last < r.first
Rings(i, bytes) ==
  (IF tree.rx = "lpm" THEN {Ring(RxBase(i, tree), bytes)} ELSE {})
    \cup (IF tree.tx = "lpm" THEN {Ring(TxBase(i, tree), bytes)} ELSE {})
BuffersApart ==
  on => LET mine == Rings(Interface, size)
            others == IF tree.dual THEN UNION {Rings(1 - Interface, Bytes(c, tree)) : c \in Tests}
                                   ELSE {}
            rx == Ring(RxBase(Interface, tree), size)
            tx == Ring(TxBase(Interface, tree), size)
        IN /\ \A r \in mine : r.last < 16384
           /\ {rx, tx} \subseteq mine /\ ~tree.voice => Disjoint(rx, tx)
           /\ \A r \in mine, s \in others : Disjoint(r, s)

\* A test that was told to stop ends, even if the hardware never ends another period:
\* the event is sent after running was lowered, and a thread that lowers data_avail
\* looks at running again before it waits.
StopHeeded == (writer = "event") ~> (Live = {})
=============================================================================
