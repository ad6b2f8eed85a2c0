---------------------------- MODULE SkbRecycler ----------------------------
(***************************************************************************)
(* The skb recycler, net/core/skbuff_recycle.c, with                       *)
(* CONFIG_SKB_RECYCLER_MULTI_CPU.                                          *)
(*                                                                         *)
(* Each CPU has a hot recycle_list and a recycle_spare_list that only that *)
(* CPU touches, with interrupts off.  A full spare list is published as a  *)
(* whole in a slot of a ring shared by all CPUs, and a CPU whose hot list  *)
(* is empty takes a whole slot from it; the ring is guarded by a spinlock. *)
(* A flush through procfs and the CPU-hotplug callback free the queues.    *)
(*                                                                         *)
(* A sk_buff_head is modelled by the set of its buffers.  A step is what a *)
(* CPU does between two points where another CPU, or an interrupt on the   *)
(* same CPU, can observe or change shared state.                           *)
(***************************************************************************)
EXTENDS Naturals, FiniteSets

CONSTANTS
  Cpus,         \* for_each_possible_cpu
  Skbs,         \* the buffers
  NoSkb, NoCpu, \* values that are no buffer and no CPU
  Pools,        \* SKB_RECYCLE_MAX_SHARED_POOLS
  RecycleMax,   \* SKB_RECYCLE_MAX_SKBS
  SpareMax,     \* SKB_RECYCLE_SPARE_MAX_SKBS
  MaxValues,    \* the values written to the procfs file max_skbs
  SpareValues,  \* the values written to the procfs file max_spare_skbs
  MaxBatch,     \* bound: buffers in one call of skb_recycler_consume_list_fast
  MinOnline,    \* bound: CPUs that stay online
  DebugObjects  \* CONFIG_DEBUG_OBJECTS_SKBUFF

ASSUME CpusAssumption == IsFiniteSet(Cpus) /\ NoCpu \notin Cpus
ASSUME SkbsAssumption == IsFiniteSet(Skbs) /\ NoSkb \notin Skbs
ASSUME PoolsAssumption == Pools \in Nat \ {0}
ASSUME LimitsAssumption ==
  /\ RecycleMax \in MaxValues /\ MaxValues \subseteq Nat
  /\ SpareMax \in SpareValues /\ SpareValues \subseteq Nat
ASSUME BoundsAssumption ==
  /\ MaxBatch \in Nat
  /\ MinOnline \in Nat \ {0}
  /\ DebugObjects \in BOOLEAN

VARIABLES
  queue,     \* the buffers of every sk_buff_head
  inUse,     \* the buffers the network stack holds
  slab,      \* the buffers that are free memory
  head,      \* glob_recycler.head
  tail,      \* glob_recycler.tail
  lock,      \* glob_recycler.lock: the CPU that holds it, or NoCpu
  maxSkbs,   \* skb_recycle_max_skbs
  maxSpare,  \* skb_recycle_spare_max_skbs
  pc,        \* where each CPU is in its interrupts-off section
  arg,       \* the buffer its skb_recycler_consume is called with
  dropped,   \* whether the caller ignores that the call fails
  cur,       \* its copy of head (alloc) or tail (consume)
  online,    \* cpu_online_mask
  flush,     \* the flush work of each CPU
  writer,    \* the process writing the procfs file flush
  hotplug    \* the CPU hotplug thread: its step, the dead CPU, its own CPU

ringVars == <<head, tail, lock>>
limitVars == <<maxSkbs, maxSpare>>
cpuVars == <<pc, arg, dropped, cur>>
adminVars == <<online, flush, writer, hotplug>>
vars == <<queue, inUse, slab, ringVars, limitVars, cpuVars, adminVars>>

Ring == 0 .. Pools - 1

Hot(c) == <<"recycle_list", c>>
Spare(c) == <<"recycle_spare_list", c>>
Tmp(c) == <<"tmp", c>>      \* the local list of skb_recycler_flush_task
Slot(i) == <<"pool", i>>    \* glob_recycler.pool[i]

CpuQueues == {Hot(c) : c \in Cpus} \cup {Spare(c) : c \in Cpus} \cup {Tmp(c) : c \in Cpus}
RingQueues == {Slot(i) : i \in Ring}
Queues == CpuQueues \cup RingQueues

\* (i + 1) & SKB_RECYCLE_MAX_SHARED_POOLS_MASK for a power of two
NextSlot(i) == IF i + 1 = Pools THEN 0 ELSE i + 1

\* The slots from h up to, not including, t.
Window(h, t) ==
  IF h <= t THEN {i \in Ring : h <= i /\ i < t} ELSE {i \in Ring : h <= i \/ i < t}
Published == Window(head, tail)

----------------------------------------------------------------------------
(* The operations of linux/skbuff.h on a sk_buff_head.                      *)

QueueHead(a, s) == queue' = [queue EXCEPT ![a] = @ \cup {s}]
Unlink(a, s) == queue' = [queue EXCEPT ![a] = @ \ {s}]
SpliceInit(a, b) == queue' = [queue EXCEPT ![a] = {}, ![b] = @ \cup queue[a]]
\* skb_recycler_free_skb on every queue of A
FreeQueues(A) ==
  /\ queue' = [a \in Queues |-> IF a \in A THEN {} ELSE queue[a]]
  /\ slab' = slab \cup UNION {queue[a] : a \in A}

----------------------------------------------------------------------------
Init ==
  /\ queue = [a \in Queues |-> {}]
  /\ inUse = {}
  /\ slab = Skbs
  /\ head = 0 /\ tail = 0 /\ lock = NoCpu
  /\ maxSkbs = RecycleMax /\ maxSpare = SpareMax
  /\ pc = [c \in Cpus |-> "idle"]
  /\ arg = [c \in Cpus |-> NoSkb]
  /\ dropped = [c \in Cpus |-> FALSE]
  /\ cur = [c \in Cpus |-> 0]
  /\ online = Cpus
  /\ flush = [c \in Cpus |-> "none"]
  /\ writer = "idle"
  /\ hotplug = [step |-> "none", dead |-> NoCpu, cpu |-> NoCpu]

Goto(c, l) == pc' = [pc EXCEPT ![c] = l]
\* The call returns; its locals are dead (and get their initial value).
Return(c) ==
  /\ Goto(c, "idle")
  /\ arg' = [arg EXCEPT ![c] = NoSkb]
  /\ dropped' = [dropped EXCEPT ![c] = FALSE]
  /\ cur' = [cur EXCEPT ![c] = 0]
\* c is online and outside every interrupts-off section.
Runs(c) == c \in online /\ pc[c] = "idle"
\* The hotplug thread holds the lock on c, preemption off but interrupts on.
HotplugHolds(c) == hotplug.step = "locked" /\ hotplug.cpu = c
\* A task, and not only an interrupt, can run on c.
TaskRuns(c) == Runs(c) /\ ~HotplugHolds(c)
Spinlock(c) == lock = NoCpu /\ lock' = c
Spinunlock == lock' = NoCpu
\* A buffer may be passed to the recycler unless another call has it already.
Consumable(s) == s \in inUse /\ \A c \in Cpus : arg[c] # s

----------------------------------------------------------------------------
(* __netdev_alloc_skb: skb_recycler_alloc, then the slab allocator.         *)

\* Mutant of AllocHot: the first buffer is peeked at and not unlinked.
AllocHotNoUnlink(c) ==
  /\ Runs(c)
  /\ \E s \in queue[Hot(c)] : inUse' = inUse \cup {s}
  /\ UNCHANGED <<queue, slab, ringVars, limitVars, cpuVars, adminVars>>

AllocHot(c) ==
  /\ Runs(c)
  /\ \E s \in queue[Hot(c)] :
       /\ Unlink(Hot(c), s)
       /\ inUse' = inUse \cup {s}
  /\ UNCHANGED <<slab, ringVars, limitVars, cpuVars, adminVars>>

AllocMiss(c) ==
  /\ Runs(c) /\ queue[Hot(c)] = {}
  /\ Goto(c, "alloc")
  /\ UNCHANGED <<queue, inUse, slab, ringVars, limitVars, arg, dropped, cur, adminVars>>

AllocLock(c) ==
  /\ pc[c] = "alloc" /\ Spinlock(c)
  /\ cur' = [cur EXCEPT ![c] = head]
  /\ Goto(c, "alloc_locked")
  /\ UNCHANGED <<queue, inUse, slab, head, tail, limitVars, arg, dropped, adminVars>>

\* Mutant of AllocRingEmpty: the early exit leaves the lock held.
AllocRingEmptyNoUnlock(c) ==
  /\ pc[c] = "alloc_locked" /\ cur[c] = tail
  /\ Return(c)
  /\ UNCHANGED <<queue, inUse, slab, ringVars, limitVars, adminVars>>

AllocRingEmpty(c) ==
  /\ pc[c] = "alloc_locked" /\ cur[c] = tail
  /\ Spinunlock
  /\ Return(c)
  /\ UNCHANGED <<queue, inUse, slab, head, tail, limitVars, adminVars>>

AllocRefill(c) ==
  /\ pc[c] = "alloc_locked" /\ cur[c] # tail
  /\ SpliceInit(Slot(cur[c]), Hot(c))
  /\ head' = NextSlot(cur[c])
  /\ Spinunlock
  /\ Goto(c, "alloc_refilled")
  /\ UNCHANGED <<inUse, slab, tail, limitVars, arg, dropped, cur, adminVars>>

AllocDequeue(c) ==
  /\ pc[c] = "alloc_refilled"
  /\ \/ \E s \in queue[Hot(c)] : Unlink(Hot(c), s) /\ inUse' = inUse \cup {s}
     \/ queue[Hot(c)] = {} /\ UNCHANGED <<queue, inUse>>
  /\ Return(c)
  /\ UNCHANGED <<slab, ringVars, limitVars, adminVars>>

\* __alloc_skb, when the recycler returned NULL or was not asked
AllocSlab(c) ==
  /\ Runs(c)
  /\ \E s \in slab : slab' = slab \ {s} /\ inUse' = inUse \cup {s}
  /\ UNCHANGED <<queue, ringVars, limitVars, cpuVars, adminVars>>

----------------------------------------------------------------------------
(* consume_skb: skb_recycler_consume, then the slab allocator if it says no. *)

HotFull(c) == Cardinality(queue[Hot(c)]) >= maxSkbs
SpareFull(c) == Cardinality(queue[Spare(c)]) >= maxSpare

\* consume_skb_can_recycle is false: cloned, not linear, of another size ...
ConsumeReject(c, s) ==
  /\ Runs(c) /\ Consumable(s)
  /\ inUse' = inUse \ {s}
  /\ slab' = slab \cup {s}
  /\ UNCHANGED <<queue, ringVars, limitVars, cpuVars, adminVars>>

ConsumeHot(c, s) ==
  /\ Runs(c) /\ Consumable(s) /\ ~HotFull(c)
  /\ QueueHead(Hot(c), s)
  /\ inUse' = inUse \ {s}
  /\ UNCHANGED <<slab, ringVars, limitVars, cpuVars, adminVars>>

ConsumeSpare(c, s) ==
  /\ Runs(c) /\ Consumable(s) /\ HotFull(c) /\ ~SpareFull(c)
  /\ QueueHead(Spare(c), s)
  /\ inUse' = inUse \ {s}
  /\ UNCHANGED <<slab, ringVars, limitVars, cpuVars, adminVars>>

\* Both lists are full.  drop: the caller will ignore the result.
ConsumeFull(c, s, drop) ==
  /\ Runs(c) /\ Consumable(s) /\ HotFull(c) /\ SpareFull(c)
  /\ arg' = [arg EXCEPT ![c] = s]
  /\ dropped' = [dropped EXCEPT ![c] = drop]
  /\ Goto(c, "consume")
  /\ UNCHANGED <<queue, inUse, slab, ringVars, limitVars, cur, adminVars>>

ConsumeLock(c) ==
  /\ pc[c] = "consume" /\ Spinlock(c)
  /\ cur' = [cur EXCEPT ![c] = tail]
  /\ Goto(c, "consume_locked")
  /\ UNCHANGED <<queue, inUse, slab, head, tail, limitVars, arg, dropped, adminVars>>

\* The spare list becomes the slot at tail; the buffer starts a new spare list.
ConsumePublish(c) ==
  /\ pc[c] = "consume_locked" /\ NextSlot(cur[c]) # head
  /\ queue' = [queue EXCEPT ![Slot(cur[c])] = @ \cup queue[Spare(c)],
                            ![Spare(c)] = {arg[c]}]
  /\ tail' = NextSlot(cur[c])
  /\ Spinunlock
  /\ Return(c)
  /\ inUse' = inUse \ {arg[c]}
  /\ UNCHANGED <<slab, head, limitVars, adminVars>>

\* Mutant of ConsumeRingFull: reports the buffer consumed though it was not.
ConsumeRingFullTrue(c) ==
  /\ pc[c] = "consume_locked" /\ NextSlot(cur[c]) = head
  /\ Spinunlock
  /\ Return(c)
  /\ inUse' = inUse \ {arg[c]}
  /\ UNCHANGED <<queue, slab, head, tail, limitVars, adminVars>>

ConsumeRingFull(c) ==
  /\ pc[c] = "consume_locked" /\ NextSlot(cur[c]) = head
  /\ Spinunlock
  /\ Return(c)
  /\ inUse' = inUse \ {arg[c]}
  /\ slab' = IF dropped[c] THEN slab ELSE slab \cup {arg[c]}
  /\ UNCHANGED <<queue, head, tail, limitVars, adminVars>>

----------------------------------------------------------------------------
(* consume_skb_list_fast.  The caller vouches for the buffers of the list.  *)

\* Mutant of ConsumeListFast: the limit is not looked at.
ConsumeListNoLimit(c, S) ==
  /\ ~DebugObjects /\ Runs(c)
  /\ S # {} /\ Cardinality(S) <= MaxBatch /\ \A s \in S : Consumable(s)
  /\ inUse' = inUse \ S
  /\ queue' = [queue EXCEPT ![Hot(c)] = @ \cup S]
  /\ UNCHANGED <<slab, ringVars, limitVars, cpuVars, adminVars>>

\* The whole list goes to the hot list if that has room for one, or is freed.
ConsumeListFast(c, S) ==
  /\ ~DebugObjects /\ Runs(c)
  /\ S # {} /\ Cardinality(S) <= MaxBatch /\ \A s \in S : Consumable(s)
  /\ inUse' = inUse \ S
  /\ IF HotFull(c)
       THEN slab' = slab \cup S /\ UNCHANGED queue
       ELSE queue' = [queue EXCEPT ![Hot(c)] = @ \cup S] /\ UNCHANGED slab
  /\ UNCHANGED <<ringVars, limitVars, cpuVars, adminVars>>

\* With CONFIG_DEBUG_OBJECTS_SKBUFF: one buffer after the other goes through
\* skb_recycler_consume (ConsumeHot and ConsumeSpare cover its other cases),
\* and the list is reported consumed whatever that returned.
ConsumeListDebug(c, s) == DebugObjects /\ ConsumeFull(c, s, TRUE)

----------------------------------------------------------------------------
(* The procfs files.                                                        *)

WriteMaxSkbs(c, n) ==
  /\ TaskRuns(c)
  /\ maxSkbs' = n
  /\ UNCHANGED <<queue, inUse, slab, ringVars, maxSpare, cpuVars, adminVars>>

WriteMaxSpare(c, n) ==
  /\ TaskRuns(c)
  /\ maxSpare' = n
  /\ UNCHANGED <<queue, inUse, slab, ringVars, maxSkbs, cpuVars, adminVars>>

\* schedule_on_each_cpu queues the work on every online CPU and keeps CPU
\* hotplug out until it is done; short of memory it queues none.
FlushWrite(c) ==
  /\ TaskRuns(c) /\ writer = "idle" /\ hotplug.step = "none"
  /\ \/ /\ writer' = "works"
        /\ flush' = [d \in Cpus |-> IF d \in online THEN "queued" ELSE "none"]
     \/ writer' = "ring" /\ UNCHANGED flush
  /\ UNCHANGED <<queue, inUse, slab, ringVars, limitVars, cpuVars, online, hotplug>>

\* skb_recycler_flush_task takes each list with interrupts off and frees the
\* buffers with interrupts on again.
FlushTask(c, from, to) ==
  /\ TaskRuns(c) /\ flush[c] = from
  /\ flush' = [flush EXCEPT ![c] = to]
  /\ UNCHANGED <<inUse, ringVars, limitVars, cpuVars, online, writer, hotplug>>

FlushHot(c) ==
  FlushTask(c, "queued", "hot_taken") /\ SpliceInit(Hot(c), Tmp(c)) /\ UNCHANGED slab
FlushFreeHot(c) ==
  FlushTask(c, "hot_taken", "hot_freed") /\ FreeQueues({Tmp(c)})
FlushSpare(c) ==
  FlushTask(c, "hot_freed", "spare_taken") /\ SpliceInit(Spare(c), Tmp(c)) /\ UNCHANGED slab
FlushFreeSpare(c) ==
  FlushTask(c, "spare_taken", "none") /\ FreeQueues({Tmp(c)})

\* The works are done; the writer goes on to the ring, with interrupts off.
FlushWorksDone(c) ==
  /\ TaskRuns(c) /\ \/ writer = "works" /\ \A d \in Cpus : flush[d] = "none"
                    \/ writer = "ring"
  /\ writer' = "locking"
  /\ Goto(c, "flush")
  /\ UNCHANGED <<queue, inUse, slab, ringVars, limitVars, arg, dropped, cur, online, flush, hotplug>>

FlushLock(c) ==
  /\ pc[c] = "flush" /\ Spinlock(c)
  /\ Goto(c, "flush_locked")
  /\ UNCHANGED <<queue, inUse, slab, head, tail, limitVars, arg, dropped, cur, adminVars>>

FlushRing(c) ==
  /\ pc[c] = "flush_locked"
  /\ FreeQueues(RingQueues)
  /\ head' = 0 /\ tail' = 0
  /\ Spinunlock
  /\ Goto(c, "idle")
  /\ writer' = "idle"
  /\ UNCHANGED <<inUse, limitVars, arg, dropped, cur, online, flush, hotplug>>

----------------------------------------------------------------------------
(* CPU hotplug: skb_cpu_callback runs on another CPU for one that has died. *)

CpuDown(d) ==
  /\ TaskRuns(d) /\ hotplug.step = "none" /\ writer # "works"
  /\ Cardinality(online) > MinOnline
  /\ online' = online \ {d}
  /\ hotplug' = [hotplug EXCEPT !.step = "free_hot", !.dead = d]
  /\ UNCHANGED <<queue, inUse, slab, ringVars, limitVars, cpuVars, flush, writer>>

HotplugFreeHot(c) ==
  /\ TaskRuns(c) /\ hotplug.step = "free_hot"
  /\ FreeQueues({Hot(hotplug.dead)})
  /\ hotplug' = [hotplug EXCEPT !.step = "lock"]
  /\ UNCHANGED <<inUse, ringVars, limitVars, cpuVars, online, flush, writer>>

\* spin_lock, not spin_lock_irqsave: interrupts stay on.
HotplugLock(c) ==
  /\ TaskRuns(c) /\ hotplug.step = "lock" /\ Spinlock(c)
  /\ hotplug' = [hotplug EXCEPT !.step = "locked", !.cpu = c]
  /\ UNCHANGED <<queue, inUse, slab, head, tail, limitVars, cpuVars, online, flush, writer>>

\* Mutant of HotplugFreeSpare: only the hot list of the dead CPU is freed.
HotplugFreeNoSpare(c) ==
  /\ Runs(c) /\ HotplugHolds(c)
  /\ Spinunlock
  /\ hotplug' = [step |-> "none", dead |-> NoCpu, cpu |-> NoCpu]
  /\ UNCHANGED <<queue, inUse, slab, head, tail, limitVars, cpuVars, online, flush, writer>>

HotplugFreeSpare(c) ==
  /\ Runs(c) /\ HotplugHolds(c)
  /\ FreeQueues({Spare(hotplug.dead)})
  /\ Spinunlock
  /\ hotplug' = [step |-> "none", dead |-> NoCpu, cpu |-> NoCpu]
  /\ UNCHANGED <<inUse, head, tail, limitVars, cpuVars, online, flush, writer>>

CpuUp(c, d) ==
  /\ TaskRuns(c) /\ hotplug.step = "none" /\ writer # "works"
  /\ d \notin online
  /\ online' = online \cup {d}
  /\ UNCHANGED <<queue, inUse, slab, ringVars, limitVars, cpuVars, flush, writer, hotplug>>

----------------------------------------------------------------------------
Alloc(c) ==
  \/ AllocHot(c) \/ AllocMiss(c) \/ AllocLock(c) \/ AllocRingEmpty(c)
  \/ AllocRefill(c) \/ AllocDequeue(c) \/ AllocSlab(c)

Consume(c) ==
  \/ \E s \in inUse : \/ ConsumeReject(c, s) \/ ConsumeHot(c, s) \/ ConsumeSpare(c, s)
                      \/ ConsumeFull(c, s, FALSE) \/ ConsumeListDebug(c, s)
  \/ ConsumeLock(c) \/ ConsumePublish(c) \/ ConsumeRingFull(c)
  \/ \E S \in SUBSET inUse : ConsumeListFast(c, S)

Procfs(c) ==
  \/ \E n \in MaxValues : WriteMaxSkbs(c, n)
  \/ \E n \in SpareValues : WriteMaxSpare(c, n)
  \/ FlushWrite(c) \/ FlushHot(c) \/ FlushFreeHot(c) \/ FlushSpare(c)
  \/ FlushFreeSpare(c) \/ FlushWorksDone(c) \/ FlushLock(c) \/ FlushRing(c)

Hotplug(c) ==
  \/ CpuDown(c) \/ HotplugFreeHot(c) \/ HotplugLock(c) \/ HotplugFreeSpare(c)
  \/ \E d \in Cpus : CpuUp(c, d)

Next == \E c \in Cpus : Alloc(c) \/ Consume(c) \/ Procfs(c) \/ Hotplug(c)

\* A CPU that is in an interrupts-off section goes on with it, and the queued
\* spinlock serves its waiters in order.
Fairness ==
  \A c \in Cpus :
    /\ WF_vars(AllocRingEmpty(c) \/ AllocRefill(c) \/ AllocDequeue(c))
    /\ WF_vars(ConsumePublish(c) \/ ConsumeRingFull(c))
    /\ WF_vars(FlushRing(c) \/ HotplugFreeSpare(c))
    /\ SF_vars(AllocLock(c)) /\ SF_vars(ConsumeLock(c)) /\ SF_vars(FlushLock(c))

Spec == Init /\ [][Next]_vars
FairSpec == Spec /\ Fairness

----------------------------------------------------------------------------
LockedSteps == {"alloc_locked", "consume_locked", "flush_locked"}
SpinSteps == {"alloc", "consume", "flush"}
Steps == {"idle", "alloc_refilled"} \cup SpinSteps \cup LockedSteps
FlushSteps == {"none", "queued", "hot_taken", "hot_freed", "spare_taken"}

\* The type of every variable.
TypeOK ==
  /\ queue \in [Queues -> SUBSET Skbs]
  /\ inUse \subseteq Skbs
  /\ slab \subseteq Skbs
  /\ head \in Ring /\ tail \in Ring
  /\ lock \in Cpus \cup {NoCpu}
  /\ maxSkbs \in MaxValues /\ maxSpare \in SpareValues
  /\ pc \in [Cpus -> Steps]
  /\ arg \in [Cpus -> Skbs \cup {NoSkb}]
  /\ dropped \in [Cpus -> BOOLEAN]
  /\ cur \in [Cpus -> Ring]
  /\ online \subseteq Cpus
  /\ flush \in [Cpus -> FlushSteps]
  /\ writer \in {"idle", "works", "ring", "locking"}
  /\ hotplug \in [step : {"none", "free_hot", "lock", "locked"},
                  dead : Cpus \cup {NoCpu}, cpu : Cpus \cup {NoCpu}]

\* No buffer has two owners: it is in at most one queue of the recycler, and
\* not in one while the network stack uses it or the slab allocator has it.
\* Were a buffer in two queues, two callers of skb_recycler_alloc would get it.
OneOwner ==
  /\ inUse \cap slab = {}
  /\ \A a \in Queues : queue[a] \cap inUse = {} /\ queue[a] \cap slab = {}
  /\ \A a, b \in Queues : a # b => queue[a] \cap queue[b] = {}

\* No buffer is lost: whatever is queued, spliced, flushed or refused, somebody
\* still owns it.  A caller of skb_recycler_consume_list_fast gave up its list.
NothingLost == inUse \cup slab \cup UNION {queue[a] : a \in Queues} = Skbs

\* Every buffer has exactly one owner at any time.
OwnedOnce == OneOwner /\ NothingLost

\* Every buffer in the shared ring can be reached: a slot that is not between
\* head and tail is empty.  It would otherwise be merged into the next list
\* published there, or stay out of use until the next flush.
RingReachable == \A i \in Ring : i \notin Published => queue[Slot(i)] = {}

\* The ring's lock is held by exactly one section or hotplug thread, the one that
\* took it, and the index read under the lock is still the ring's own.
LockProtects ==
  \A c \in Cpus :
    /\ pc[c] \in LockedSteps \/ HotplugHolds(c) <=> lock = c
    /\ ~(pc[c] \in LockedSteps /\ HotplugHolds(c))
    /\ pc[c] = "alloc_locked" => cur[c] = head
    /\ pc[c] = "consume_locked" => cur[c] = tail

\* A CPU that is offline, and whose skb_cpu_callback has returned, keeps no
\* buffers: nobody would ever allocate from its lists, and no flush visits it.
NoneStranded ==
  \A c \in Cpus \ online :
    hotplug.dead # c => queue[Hot(c)] = {} /\ queue[Spare(c)] = {} /\ queue[Tmp(c)] = {}

Largest(S) == CHOOSE n \in S : \A m \in S : m <= n

\* The recycler hoards no more than its limits allow: a spare list and a slot
\* hold at most the largest max_spare_skbs there was (one buffer if that is 0),
\* and a hot list exceeds max_skbs by at most one list of consume_list_fast.
OccupancyBound ==
  LET spareLimit == Largest(SpareValues \cup {1})
      hotLimit == Largest(MaxValues) + MaxBatch
  IN /\ \A i \in Ring : Cardinality(queue[Slot(i)]) <= spareLimit
     /\ \A c \in Cpus : /\ Cardinality(queue[Spare(c)]) <= spareLimit
                        /\ \/ Cardinality(queue[Hot(c)]) < hotLimit
                           \/ Cardinality(queue[Hot(c)]) <= spareLimit

\* Every call of the recycler returns: no CPU stays in an interrupts-off section.
EveryCallReturns == \A c \in Cpus : pc[c] # "idle" ~> pc[c] = "idle"

\* The recycler implements its promise: allocations get buffers nobody uses.
Pooled == UNION {queue[a] : a \in Queues}
Pool == INSTANCE SkbPool WITH pooled <- Pooled, free <- slab
PoolSpec == Pool!Spec
=============================================================================
