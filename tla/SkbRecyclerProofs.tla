-------------------------- MODULE SkbRecyclerProofs --------------------------
(***************************************************************************)
(* Proofs about SkbRecycler, for any number of CPUs, buffers and ring      *)
(* slots and any limits.                                                   *)
(***************************************************************************)
EXTENDS SkbRecycler, FiniteSetTheorems, WellFoundedInduction, TLAPS

\* A CPU that is inside skb_recycler_consume has a buffer the stack still
\* holds, and no other CPU was given the same one.
ArgOwned ==
  /\ \A c \in Cpus : pc[c] \in {"consume", "consume_locked"} <=> arg[c] # NoSkb
  /\ \A c \in Cpus : arg[c] # NoSkb => arg[c] \in inUse
  /\ \A c, d \in Cpus : c # d /\ arg[c] = arg[d] => arg[c] = NoSkb

\* skb_cpu_callback runs for a CPU that is offline.
HotplugTarget == hotplug.step # "none" => hotplug.dead \in Cpus \ online

\* The four kinds of sk_buff_head are different queues.
LEMMA QueueNames ==
  /\ \A c \in Cpus : Hot(c) \in Queues /\ Spare(c) \in Queues /\ Tmp(c) \in Queues
  /\ \A i \in Ring : Slot(i) \in Queues
  /\ RingQueues \subseteq Queues
  /\ \A c, d : Hot(c) # Spare(d) /\ Hot(c) # Tmp(d) /\ Spare(c) # Tmp(d)
  /\ \A c, i : Hot(c) # Slot(i) /\ Spare(c) # Slot(i) /\ Tmp(c) # Slot(i)
  /\ \A c, d : c # d => Hot(c) # Hot(d) /\ Spare(c) # Spare(d) /\ Tmp(c) # Tmp(d)
  /\ \A i, j : i # j => Slot(i) # Slot(j)
BY DEF Hot, Spare, Tmp, Slot, Queues, CpuQueues, RingQueues

\* Indices stay on the ring.
LEMMA RingFacts == 0 \in Ring /\ \A i \in Ring : NextSlot(i) \in Ring
BY PoolsAssumption DEF Ring, NextSlot

\* Every step keeps every variable in its type.
LEMMA TypeStep == TypeOK /\ ArgOwned /\ HotplugTarget /\ [Next]_vars => TypeOK'
<1> SUFFICES ASSUME TypeOK, ArgOwned, HotplugTarget, [Next]_vars PROVE TypeOK'
  OBVIOUS
<1> USE QueueNames, RingFacts DEF TypeOK, ringVars, limitVars, cpuVars, adminVars, Steps, SpinSteps, LockedSteps, FlushSteps
<1>1. ASSUME NEW c \in Cpus, AllocHot(c) PROVE TypeOK'
  BY <1>1 DEF AllocHot, Unlink
<1>2. ASSUME NEW c \in Cpus, AllocMiss(c) PROVE TypeOK'
  BY <1>2 DEF AllocMiss, Goto
<1>3. ASSUME NEW c \in Cpus, AllocLock(c) PROVE TypeOK'
  BY <1>3 DEF AllocLock, Spinlock, Goto
<1>4. ASSUME NEW c \in Cpus, AllocRingEmpty(c) PROVE TypeOK'
  BY <1>4 DEF AllocRingEmpty, Spinunlock, Return, Goto
<1>5. ASSUME NEW c \in Cpus, AllocRefill(c) PROVE TypeOK'
  BY <1>5 DEF AllocRefill, SpliceInit, Spinunlock, Goto
<1>6. ASSUME NEW c \in Cpus, AllocDequeue(c) PROVE TypeOK'
  BY <1>6 DEF AllocDequeue, Unlink, Return, Goto
<1>7. ASSUME NEW c \in Cpus, AllocSlab(c) PROVE TypeOK'
  BY <1>7 DEF AllocSlab
<1>8. ASSUME NEW c \in Cpus, NEW s \in inUse, ConsumeReject(c, s) PROVE TypeOK'
  BY <1>8 DEF ConsumeReject
<1>9. ASSUME NEW c \in Cpus, NEW s \in inUse, ConsumeHot(c, s) PROVE TypeOK'
  BY <1>9 DEF ConsumeHot, QueueHead
<1>10. ASSUME NEW c \in Cpus, NEW s \in inUse, ConsumeSpare(c, s) PROVE TypeOK'
  BY <1>10 DEF ConsumeSpare, QueueHead
<1>11. ASSUME NEW c \in Cpus, NEW s \in inUse, NEW b \in BOOLEAN, ConsumeFull(c, s, b) PROVE TypeOK'
  BY <1>11 DEF ConsumeFull, Goto
<1>12. ASSUME NEW c \in Cpus, ConsumeLock(c) PROVE TypeOK'
  BY <1>12 DEF ConsumeLock, Spinlock, Goto
<1>13. ASSUME NEW c \in Cpus, ConsumePublish(c) PROVE TypeOK'
  BY <1>13 DEF ConsumePublish, Spinunlock, Return, Goto, ArgOwned
<1>14. ASSUME NEW c \in Cpus, ConsumeRingFull(c) PROVE TypeOK'
  BY <1>14 DEF ConsumeRingFull, Spinunlock, Return, Goto, ArgOwned
<1>15. ASSUME NEW c \in Cpus, NEW S \in SUBSET inUse, ConsumeListFast(c, S) PROVE TypeOK'
  BY <1>15 DEF ConsumeListFast
<1>16. ASSUME NEW c \in Cpus, NEW n \in MaxValues, WriteMaxSkbs(c, n) PROVE TypeOK'
  BY <1>16 DEF WriteMaxSkbs
<1>17. ASSUME NEW c \in Cpus, NEW n \in SpareValues, WriteMaxSpare(c, n) PROVE TypeOK'
  BY <1>17 DEF WriteMaxSpare
<1>18. ASSUME NEW c \in Cpus, FlushWrite(c) PROVE TypeOK'
  BY <1>18 DEF FlushWrite
<1>19. ASSUME NEW c \in Cpus, FlushHot(c) PROVE TypeOK'
  BY <1>19 DEF FlushHot, FlushTask, SpliceInit
<1>20. ASSUME NEW c \in Cpus, FlushFreeHot(c) PROVE TypeOK'
  BY <1>20 DEF FlushFreeHot, FlushTask, FreeQueues
<1>21. ASSUME NEW c \in Cpus, FlushSpare(c) PROVE TypeOK'
  BY <1>21 DEF FlushSpare, FlushTask, SpliceInit
<1>22. ASSUME NEW c \in Cpus, FlushFreeSpare(c) PROVE TypeOK'
  BY <1>22 DEF FlushFreeSpare, FlushTask, FreeQueues
<1>23. ASSUME NEW c \in Cpus, FlushWorksDone(c) PROVE TypeOK'
  BY <1>23 DEF FlushWorksDone, Goto
<1>24. ASSUME NEW c \in Cpus, FlushLock(c) PROVE TypeOK'
  BY <1>24 DEF FlushLock, Spinlock, Goto
<1>25. ASSUME NEW c \in Cpus, FlushRing(c) PROVE TypeOK'
  BY <1>25 DEF FlushRing, FreeQueues, Spinunlock, Goto
<1>26. ASSUME NEW c \in Cpus, CpuDown(c) PROVE TypeOK'
  BY <1>26 DEF CpuDown
<1>27. ASSUME NEW c \in Cpus, HotplugFreeHot(c) PROVE TypeOK'
  BY <1>27 DEF HotplugFreeHot, FreeQueues, HotplugTarget
<1>28. ASSUME NEW c \in Cpus, HotplugLock(c) PROVE TypeOK'
  BY <1>28 DEF HotplugLock, Spinlock
<1>29. ASSUME NEW c \in Cpus, HotplugFreeSpare(c) PROVE TypeOK'
  BY <1>29 DEF HotplugFreeSpare, FreeQueues, Spinunlock, HotplugTarget, HotplugHolds
<1>30. ASSUME NEW c \in Cpus, NEW d \in Cpus, CpuUp(c, d) PROVE TypeOK'
  BY <1>30 DEF CpuUp
<1>31. CASE UNCHANGED vars
  BY <1>31 DEF vars
<1> QED
  BY <1>1, <1>2, <1>3, <1>4, <1>5, <1>6, <1>7, <1>8, <1>9, <1>10, <1>11, <1>12, <1>13, <1>14, <1>15, <1>16, <1>17, <1>18, <1>19, <1>20, <1>21, <1>22, <1>23, <1>24, <1>25, <1>26, <1>27, <1>28, <1>29, <1>30, <1>31 DEF Next, Alloc, Consume, Procfs, Hotplug, ConsumeListDebug

\* Every step keeps the buffer of a running skb_recycler_consume its own.
LEMMA ArgStep == TypeOK /\ ArgOwned /\ [Next]_vars => ArgOwned'
<1> SUFFICES ASSUME TypeOK, ArgOwned, [Next]_vars PROVE ArgOwned'
  OBVIOUS
<1> USE QueueNames, RingFacts DEF TypeOK, ringVars, limitVars, cpuVars, adminVars, Steps, SpinSteps, LockedSteps, FlushSteps, ArgOwned, Consumable, Runs, TaskRuns
<1>1. ASSUME NEW c \in Cpus, AllocHot(c) PROVE ArgOwned'
  BY <1>1 DEF AllocHot, Unlink
<1>2. ASSUME NEW c \in Cpus, AllocMiss(c) PROVE ArgOwned'
  BY <1>2 DEF AllocMiss, Goto
<1>3. ASSUME NEW c \in Cpus, AllocLock(c) PROVE ArgOwned'
  BY <1>3 DEF AllocLock, Spinlock, Goto
<1>4. ASSUME NEW c \in Cpus, AllocRingEmpty(c) PROVE ArgOwned'
  BY <1>4 DEF AllocRingEmpty, Spinunlock, Return, Goto
<1>5. ASSUME NEW c \in Cpus, AllocRefill(c) PROVE ArgOwned'
  BY <1>5 DEF AllocRefill, SpliceInit, Spinunlock, Goto
<1>6. ASSUME NEW c \in Cpus, AllocDequeue(c) PROVE ArgOwned'
  BY <1>6 DEF AllocDequeue, Unlink, Return, Goto
<1>7. ASSUME NEW c \in Cpus, AllocSlab(c) PROVE ArgOwned'
  BY <1>7 DEF AllocSlab
<1>8. ASSUME NEW c \in Cpus, NEW s \in inUse, ConsumeReject(c, s) PROVE ArgOwned'
  BY <1>8 DEF ConsumeReject
<1>9. ASSUME NEW c \in Cpus, NEW s \in inUse, ConsumeHot(c, s) PROVE ArgOwned'
  BY <1>9 DEF ConsumeHot, QueueHead
<1>10. ASSUME NEW c \in Cpus, NEW s \in inUse, ConsumeSpare(c, s) PROVE ArgOwned'
  BY <1>10 DEF ConsumeSpare, QueueHead
<1>11. ASSUME NEW c \in Cpus, NEW s \in inUse, NEW b \in BOOLEAN, ConsumeFull(c, s, b) PROVE ArgOwned'
  BY <1>11 DEF ConsumeFull, Goto
<1>12. ASSUME NEW c \in Cpus, ConsumeLock(c) PROVE ArgOwned'
  BY <1>12 DEF ConsumeLock, Spinlock, Goto
<1>13. ASSUME NEW c \in Cpus, ConsumePublish(c) PROVE ArgOwned'
  BY <1>13 DEF ConsumePublish, Spinunlock, Return, Goto
<1>14. ASSUME NEW c \in Cpus, ConsumeRingFull(c) PROVE ArgOwned'
  BY <1>14 DEF ConsumeRingFull, Spinunlock, Return, Goto
<1>15. ASSUME NEW c \in Cpus, NEW S \in SUBSET inUse, ConsumeListFast(c, S) PROVE ArgOwned'
  BY <1>15 DEF ConsumeListFast
<1>16. ASSUME NEW c \in Cpus, NEW n \in MaxValues, WriteMaxSkbs(c, n) PROVE ArgOwned'
  BY <1>16 DEF WriteMaxSkbs
<1>17. ASSUME NEW c \in Cpus, NEW n \in SpareValues, WriteMaxSpare(c, n) PROVE ArgOwned'
  BY <1>17 DEF WriteMaxSpare
<1>18. ASSUME NEW c \in Cpus, FlushWrite(c) PROVE ArgOwned'
  BY <1>18 DEF FlushWrite
<1>19. ASSUME NEW c \in Cpus, FlushHot(c) PROVE ArgOwned'
  BY <1>19 DEF FlushHot, FlushTask, SpliceInit
<1>20. ASSUME NEW c \in Cpus, FlushFreeHot(c) PROVE ArgOwned'
  BY <1>20 DEF FlushFreeHot, FlushTask, FreeQueues
<1>21. ASSUME NEW c \in Cpus, FlushSpare(c) PROVE ArgOwned'
  BY <1>21 DEF FlushSpare, FlushTask, SpliceInit
<1>22. ASSUME NEW c \in Cpus, FlushFreeSpare(c) PROVE ArgOwned'
  BY <1>22 DEF FlushFreeSpare, FlushTask, FreeQueues
<1>23. ASSUME NEW c \in Cpus, FlushWorksDone(c) PROVE ArgOwned'
  BY <1>23 DEF FlushWorksDone, Goto
<1>24. ASSUME NEW c \in Cpus, FlushLock(c) PROVE ArgOwned'
  BY <1>24 DEF FlushLock, Spinlock, Goto
<1>25. ASSUME NEW c \in Cpus, FlushRing(c) PROVE ArgOwned'
  BY <1>25 DEF FlushRing, FreeQueues, Spinunlock, Goto
<1>26. ASSUME NEW c \in Cpus, CpuDown(c) PROVE ArgOwned'
  BY <1>26 DEF CpuDown
<1>27. ASSUME NEW c \in Cpus, HotplugFreeHot(c) PROVE ArgOwned'
  BY <1>27 DEF HotplugFreeHot, FreeQueues
<1>28. ASSUME NEW c \in Cpus, HotplugLock(c) PROVE ArgOwned'
  BY <1>28 DEF HotplugLock, Spinlock
<1>29. ASSUME NEW c \in Cpus, HotplugFreeSpare(c) PROVE ArgOwned'
  BY <1>29 DEF HotplugFreeSpare, FreeQueues, Spinunlock
<1>30. ASSUME NEW c \in Cpus, NEW d \in Cpus, CpuUp(c, d) PROVE ArgOwned'
  BY <1>30 DEF CpuUp
<1>31. CASE UNCHANGED vars
  BY <1>31 DEF vars
<1> QED
  BY <1>1, <1>2, <1>3, <1>4, <1>5, <1>6, <1>7, <1>8, <1>9, <1>10, <1>11, <1>12, <1>13, <1>14, <1>15, <1>16, <1>17, <1>18, <1>19, <1>20, <1>21, <1>22, <1>23, <1>24, <1>25, <1>26, <1>27, <1>28, <1>29, <1>30, <1>31 DEF Next, Alloc, Consume, Procfs, Hotplug, ConsumeListDebug

\* Every step keeps the CPU the hotplug callback cleans up offline.
LEMMA HotplugStep == TypeOK /\ HotplugTarget /\ [Next]_vars => HotplugTarget'
<1> SUFFICES ASSUME TypeOK, HotplugTarget, [Next]_vars PROVE HotplugTarget'
  OBVIOUS
<1> USE QueueNames, RingFacts DEF TypeOK, ringVars, limitVars, cpuVars, adminVars, Steps, SpinSteps, LockedSteps, FlushSteps, HotplugTarget, TaskRuns, Runs
<1>1. ASSUME NEW c \in Cpus, AllocHot(c) PROVE HotplugTarget'
  BY <1>1 DEF AllocHot, Unlink
<1>2. ASSUME NEW c \in Cpus, AllocMiss(c) PROVE HotplugTarget'
  BY <1>2 DEF AllocMiss, Goto
<1>3. ASSUME NEW c \in Cpus, AllocLock(c) PROVE HotplugTarget'
  BY <1>3 DEF AllocLock, Spinlock, Goto
<1>4. ASSUME NEW c \in Cpus, AllocRingEmpty(c) PROVE HotplugTarget'
  BY <1>4 DEF AllocRingEmpty, Spinunlock, Return, Goto
<1>5. ASSUME NEW c \in Cpus, AllocRefill(c) PROVE HotplugTarget'
  BY <1>5 DEF AllocRefill, SpliceInit, Spinunlock, Goto
<1>6. ASSUME NEW c \in Cpus, AllocDequeue(c) PROVE HotplugTarget'
  BY <1>6 DEF AllocDequeue, Unlink, Return, Goto
<1>7. ASSUME NEW c \in Cpus, AllocSlab(c) PROVE HotplugTarget'
  BY <1>7 DEF AllocSlab
<1>8. ASSUME NEW c \in Cpus, NEW s \in inUse, ConsumeReject(c, s) PROVE HotplugTarget'
  BY <1>8 DEF ConsumeReject
<1>9. ASSUME NEW c \in Cpus, NEW s \in inUse, ConsumeHot(c, s) PROVE HotplugTarget'
  BY <1>9 DEF ConsumeHot, QueueHead
<1>10. ASSUME NEW c \in Cpus, NEW s \in inUse, ConsumeSpare(c, s) PROVE HotplugTarget'
  BY <1>10 DEF ConsumeSpare, QueueHead
<1>11. ASSUME NEW c \in Cpus, NEW s \in inUse, NEW b \in BOOLEAN, ConsumeFull(c, s, b) PROVE HotplugTarget'
  BY <1>11 DEF ConsumeFull, Goto
<1>12. ASSUME NEW c \in Cpus, ConsumeLock(c) PROVE HotplugTarget'
  BY <1>12 DEF ConsumeLock, Spinlock, Goto
<1>13. ASSUME NEW c \in Cpus, ConsumePublish(c) PROVE HotplugTarget'
  BY <1>13 DEF ConsumePublish, Spinunlock, Return, Goto
<1>14. ASSUME NEW c \in Cpus, ConsumeRingFull(c) PROVE HotplugTarget'
  BY <1>14 DEF ConsumeRingFull, Spinunlock, Return, Goto
<1>15. ASSUME NEW c \in Cpus, NEW S \in SUBSET inUse, ConsumeListFast(c, S) PROVE HotplugTarget'
  BY <1>15 DEF ConsumeListFast
<1>16. ASSUME NEW c \in Cpus, NEW n \in MaxValues, WriteMaxSkbs(c, n) PROVE HotplugTarget'
  BY <1>16 DEF WriteMaxSkbs
<1>17. ASSUME NEW c \in Cpus, NEW n \in SpareValues, WriteMaxSpare(c, n) PROVE HotplugTarget'
  BY <1>17 DEF WriteMaxSpare
<1>18. ASSUME NEW c \in Cpus, FlushWrite(c) PROVE HotplugTarget'
  BY <1>18 DEF FlushWrite
<1>19. ASSUME NEW c \in Cpus, FlushHot(c) PROVE HotplugTarget'
  BY <1>19 DEF FlushHot, FlushTask, SpliceInit
<1>20. ASSUME NEW c \in Cpus, FlushFreeHot(c) PROVE HotplugTarget'
  BY <1>20 DEF FlushFreeHot, FlushTask, FreeQueues
<1>21. ASSUME NEW c \in Cpus, FlushSpare(c) PROVE HotplugTarget'
  BY <1>21 DEF FlushSpare, FlushTask, SpliceInit
<1>22. ASSUME NEW c \in Cpus, FlushFreeSpare(c) PROVE HotplugTarget'
  BY <1>22 DEF FlushFreeSpare, FlushTask, FreeQueues
<1>23. ASSUME NEW c \in Cpus, FlushWorksDone(c) PROVE HotplugTarget'
  BY <1>23 DEF FlushWorksDone, Goto
<1>24. ASSUME NEW c \in Cpus, FlushLock(c) PROVE HotplugTarget'
  BY <1>24 DEF FlushLock, Spinlock, Goto
<1>25. ASSUME NEW c \in Cpus, FlushRing(c) PROVE HotplugTarget'
  BY <1>25 DEF FlushRing, FreeQueues, Spinunlock, Goto
<1>26. ASSUME NEW c \in Cpus, CpuDown(c) PROVE HotplugTarget'
  BY <1>26 DEF CpuDown
<1>27. ASSUME NEW c \in Cpus, HotplugFreeHot(c) PROVE HotplugTarget'
  BY <1>27 DEF HotplugFreeHot, FreeQueues
<1>28. ASSUME NEW c \in Cpus, HotplugLock(c) PROVE HotplugTarget'
  BY <1>28 DEF HotplugLock, Spinlock
<1>29. ASSUME NEW c \in Cpus, HotplugFreeSpare(c) PROVE HotplugTarget'
  BY <1>29 DEF HotplugFreeSpare, FreeQueues, Spinunlock
<1>30. ASSUME NEW c \in Cpus, NEW d \in Cpus, CpuUp(c, d) PROVE HotplugTarget'
  BY <1>30 DEF CpuUp
<1>31. CASE UNCHANGED vars
  BY <1>31 DEF vars
<1> QED
  BY <1>1, <1>2, <1>3, <1>4, <1>5, <1>6, <1>7, <1>8, <1>9, <1>10, <1>11, <1>12, <1>13, <1>14, <1>15, <1>16, <1>17, <1>18, <1>19, <1>20, <1>21, <1>22, <1>23, <1>24, <1>25, <1>26, <1>27, <1>28, <1>29, <1>30, <1>31 DEF Next, Alloc, Consume, Procfs, Hotplug, ConsumeListDebug

\* Every step keeps the lock with its holder and the indices it read valid.
LEMMA LockStep == TypeOK /\ LockProtects /\ [Next]_vars => LockProtects'
<1> SUFFICES ASSUME TypeOK, LockProtects, [Next]_vars PROVE LockProtects'
  OBVIOUS
<1> USE QueueNames, RingFacts, CpusAssumption DEF TypeOK, ringVars, limitVars, cpuVars, adminVars, Steps, SpinSteps, LockedSteps, FlushSteps, LockProtects, HotplugHolds, TaskRuns, Runs
<1>1. ASSUME NEW c \in Cpus, AllocHot(c) PROVE LockProtects'
  BY <1>1 DEF AllocHot, Unlink
<1>2. ASSUME NEW c \in Cpus, AllocMiss(c) PROVE LockProtects'
  BY <1>2 DEF AllocMiss, Goto
<1>3. ASSUME NEW c \in Cpus, AllocLock(c) PROVE LockProtects'
  BY <1>3 DEF AllocLock, Spinlock, Goto
<1>4. ASSUME NEW c \in Cpus, AllocRingEmpty(c) PROVE LockProtects'
  BY <1>4 DEF AllocRingEmpty, Spinunlock, Return, Goto
<1>5. ASSUME NEW c \in Cpus, AllocRefill(c) PROVE LockProtects'
  BY <1>5 DEF AllocRefill, SpliceInit, Spinunlock, Goto
<1>6. ASSUME NEW c \in Cpus, AllocDequeue(c) PROVE LockProtects'
  BY <1>6 DEF AllocDequeue, Unlink, Return, Goto
<1>7. ASSUME NEW c \in Cpus, AllocSlab(c) PROVE LockProtects'
  BY <1>7 DEF AllocSlab
<1>8. ASSUME NEW c \in Cpus, NEW s \in inUse, ConsumeReject(c, s) PROVE LockProtects'
  BY <1>8 DEF ConsumeReject
<1>9. ASSUME NEW c \in Cpus, NEW s \in inUse, ConsumeHot(c, s) PROVE LockProtects'
  BY <1>9 DEF ConsumeHot, QueueHead
<1>10. ASSUME NEW c \in Cpus, NEW s \in inUse, ConsumeSpare(c, s) PROVE LockProtects'
  BY <1>10 DEF ConsumeSpare, QueueHead
<1>11. ASSUME NEW c \in Cpus, NEW s \in inUse, NEW b \in BOOLEAN, ConsumeFull(c, s, b) PROVE LockProtects'
  BY <1>11 DEF ConsumeFull, Goto
<1>12. ASSUME NEW c \in Cpus, ConsumeLock(c) PROVE LockProtects'
  BY <1>12 DEF ConsumeLock, Spinlock, Goto
<1>13. ASSUME NEW c \in Cpus, ConsumePublish(c) PROVE LockProtects'
  BY <1>13 DEF ConsumePublish, Spinunlock, Return, Goto
<1>14. ASSUME NEW c \in Cpus, ConsumeRingFull(c) PROVE LockProtects'
  BY <1>14 DEF ConsumeRingFull, Spinunlock, Return, Goto
<1>15. ASSUME NEW c \in Cpus, NEW S \in SUBSET inUse, ConsumeListFast(c, S) PROVE LockProtects'
  BY <1>15 DEF ConsumeListFast
<1>16. ASSUME NEW c \in Cpus, NEW n \in MaxValues, WriteMaxSkbs(c, n) PROVE LockProtects'
  BY <1>16 DEF WriteMaxSkbs
<1>17. ASSUME NEW c \in Cpus, NEW n \in SpareValues, WriteMaxSpare(c, n) PROVE LockProtects'
  BY <1>17 DEF WriteMaxSpare
<1>18. ASSUME NEW c \in Cpus, FlushWrite(c) PROVE LockProtects'
  BY <1>18 DEF FlushWrite
<1>19. ASSUME NEW c \in Cpus, FlushHot(c) PROVE LockProtects'
  BY <1>19 DEF FlushHot, FlushTask, SpliceInit
<1>20. ASSUME NEW c \in Cpus, FlushFreeHot(c) PROVE LockProtects'
  BY <1>20 DEF FlushFreeHot, FlushTask, FreeQueues
<1>21. ASSUME NEW c \in Cpus, FlushSpare(c) PROVE LockProtects'
  BY <1>21 DEF FlushSpare, FlushTask, SpliceInit
<1>22. ASSUME NEW c \in Cpus, FlushFreeSpare(c) PROVE LockProtects'
  BY <1>22 DEF FlushFreeSpare, FlushTask, FreeQueues
<1>23. ASSUME NEW c \in Cpus, FlushWorksDone(c) PROVE LockProtects'
  BY <1>23 DEF FlushWorksDone, Goto
<1>24. ASSUME NEW c \in Cpus, FlushLock(c) PROVE LockProtects'
  BY <1>24 DEF FlushLock, Spinlock, Goto
<1>25. ASSUME NEW c \in Cpus, FlushRing(c) PROVE LockProtects'
  BY <1>25 DEF FlushRing, FreeQueues, Spinunlock, Goto
<1>26. ASSUME NEW c \in Cpus, CpuDown(c) PROVE LockProtects'
  BY <1>26 DEF CpuDown
<1>27. ASSUME NEW c \in Cpus, HotplugFreeHot(c) PROVE LockProtects'
  BY <1>27 DEF HotplugFreeHot, FreeQueues
<1>28. ASSUME NEW c \in Cpus, HotplugLock(c) PROVE LockProtects'
  BY <1>28 DEF HotplugLock, Spinlock
<1>29. ASSUME NEW c \in Cpus, HotplugFreeSpare(c) PROVE LockProtects'
  BY <1>29 DEF HotplugFreeSpare, FreeQueues, Spinunlock
<1>30. ASSUME NEW c \in Cpus, NEW d \in Cpus, CpuUp(c, d) PROVE LockProtects'
  BY <1>30 DEF CpuUp
<1>31. CASE UNCHANGED vars
  BY <1>31 DEF vars
<1> QED
  BY <1>1, <1>2, <1>3, <1>4, <1>5, <1>6, <1>7, <1>8, <1>9, <1>10, <1>11, <1>12, <1>13, <1>14, <1>15, <1>16, <1>17, <1>18, <1>19, <1>20, <1>21, <1>22, <1>23, <1>24, <1>25, <1>26, <1>27, <1>28, <1>29, <1>30, <1>31 DEF Next, Alloc, Consume, Procfs, Hotplug, ConsumeListDebug

\* What moving the indices of the ring does to the slots between them.
LEMMA WindowTake ==
  ASSUME NEW h \in Ring, NEW t \in Ring, h # t
  PROVE  Window(NextSlot(h), t) = Window(h, t) \ {h}
BY PoolsAssumption DEF Ring, NextSlot, Window

LEMMA WindowPublish ==
  ASSUME NEW h \in Ring, NEW t \in Ring, NextSlot(t) # h
  PROVE  Window(h, NextSlot(t)) = Window(h, t) \cup {t}
BY PoolsAssumption DEF Ring, NextSlot, Window

\* Every step moves buffers from one owner to another.
LEMMA OwnerStep == TypeOK /\ ArgOwned /\ HotplugTarget /\ OneOwner /\ [Next]_vars => OneOwner'
<1> SUFFICES ASSUME TypeOK, ArgOwned, HotplugTarget, OneOwner, [Next]_vars PROVE OneOwner'
  OBVIOUS
<1> USE QueueNames, RingFacts DEF TypeOK, ringVars, limitVars, cpuVars, adminVars, OneOwner, Consumable
<1>1. ASSUME NEW c \in Cpus, AllocHot(c) PROVE OneOwner'
  BY <1>1 DEF AllocHot, Unlink
<1>2. ASSUME NEW c \in Cpus, AllocMiss(c) PROVE OneOwner'
  BY <1>2 DEF AllocMiss, Goto
<1>3. ASSUME NEW c \in Cpus, AllocLock(c) PROVE OneOwner'
  BY <1>3 DEF AllocLock, Spinlock, Goto
<1>4. ASSUME NEW c \in Cpus, AllocRingEmpty(c) PROVE OneOwner'
  BY <1>4 DEF AllocRingEmpty, Spinunlock, Return, Goto
<1>5. ASSUME NEW c \in Cpus, AllocRefill(c) PROVE OneOwner'
  <2>1. Slot(cur[c]) # Hot(c)
    OBVIOUS
  <2>2. /\ inUse' = inUse /\ slab' = slab
        /\ queue' \in [Queues -> SUBSET Skbs]
        /\ \A a \in Queues : queue'[a] = IF a = Hot(c) THEN queue[a] \cup queue[Slot(cur[c])]
                                      ELSE IF a = Slot(cur[c]) THEN {} ELSE queue[a]
    BY <1>5, <2>1 DEF AllocRefill, SpliceInit
  <2> QED
    BY <2>1, <2>2
<1>6. ASSUME NEW c \in Cpus, AllocDequeue(c) PROVE OneOwner'
  BY <1>6 DEF AllocDequeue, Unlink, Return, Goto
<1>7. ASSUME NEW c \in Cpus, AllocSlab(c) PROVE OneOwner'
  BY <1>7 DEF AllocSlab
<1>8. ASSUME NEW c \in Cpus, NEW s \in inUse, ConsumeReject(c, s) PROVE OneOwner'
  BY <1>8 DEF ConsumeReject
<1>9. ASSUME NEW c \in Cpus, NEW s \in inUse, ConsumeHot(c, s) PROVE OneOwner'
  BY <1>9 DEF ConsumeHot, QueueHead
<1>10. ASSUME NEW c \in Cpus, NEW s \in inUse, ConsumeSpare(c, s) PROVE OneOwner'
  BY <1>10 DEF ConsumeSpare, QueueHead
<1>11. ASSUME NEW c \in Cpus, NEW s \in inUse, NEW b \in BOOLEAN, ConsumeFull(c, s, b) PROVE OneOwner'
  BY <1>11 DEF ConsumeFull, Goto
<1>12. ASSUME NEW c \in Cpus, ConsumeLock(c) PROVE OneOwner'
  BY <1>12 DEF ConsumeLock, Spinlock, Goto
<1>13. ASSUME NEW c \in Cpus, ConsumePublish(c) PROVE OneOwner'
  <2>1. PICK s \in Skbs : s = arg[c] /\ s \in inUse
    BY <1>13 DEF ConsumePublish, ArgOwned
  <2>2. /\ Slot(cur[c]) \in Queues /\ Spare(c) \in Queues
        /\ Slot(cur[c]) # Spare(c)
    OBVIOUS
  <2>3. /\ inUse' = inUse \ {s} /\ slab' = slab
        /\ queue' \in [Queues -> SUBSET Skbs]
        /\ \A a \in Queues : queue'[a] = IF a = Spare(c) THEN {s}
                                      ELSE IF a = Slot(cur[c]) THEN queue[a] \cup queue[Spare(c)]
                                      ELSE queue[a]
    BY <1>13, <2>1 DEF ConsumePublish
  <2> HIDE DEF Slot, Spare
  <2> QED
    BY <2>1, <2>2, <2>3
<1>14. ASSUME NEW c \in Cpus, ConsumeRingFull(c) PROVE OneOwner'
  <2>1. PICK s \in Skbs : s = arg[c] /\ s \in inUse
    BY <1>14 DEF ConsumeRingFull, ArgOwned
  <2>2. queue' = queue /\ inUse' = inUse \ {s} /\ slab' \in {slab, slab \cup {s}}
    BY <1>14, <2>1 DEF ConsumeRingFull
  <2> QED
    BY <2>1, <2>2
<1>15. ASSUME NEW c \in Cpus, NEW S \in SUBSET inUse, ConsumeListFast(c, S) PROVE OneOwner'
  BY <1>15 DEF ConsumeListFast
<1>16. ASSUME NEW c \in Cpus, NEW n \in MaxValues, WriteMaxSkbs(c, n) PROVE OneOwner'
  BY <1>16 DEF WriteMaxSkbs
<1>17. ASSUME NEW c \in Cpus, NEW n \in SpareValues, WriteMaxSpare(c, n) PROVE OneOwner'
  BY <1>17 DEF WriteMaxSpare
<1>18. ASSUME NEW c \in Cpus, FlushWrite(c) PROVE OneOwner'
  BY <1>18 DEF FlushWrite
<1>19. ASSUME NEW c \in Cpus, FlushHot(c) PROVE OneOwner'
  BY <1>19 DEF FlushHot, FlushTask, SpliceInit
<1>20. ASSUME NEW c \in Cpus, FlushFreeHot(c) PROVE OneOwner'
  BY <1>20 DEF FlushFreeHot, FlushTask, FreeQueues
<1>21. ASSUME NEW c \in Cpus, FlushSpare(c) PROVE OneOwner'
  BY <1>21 DEF FlushSpare, FlushTask, SpliceInit
<1>22. ASSUME NEW c \in Cpus, FlushFreeSpare(c) PROVE OneOwner'
  BY <1>22 DEF FlushFreeSpare, FlushTask, FreeQueues
<1>23. ASSUME NEW c \in Cpus, FlushWorksDone(c) PROVE OneOwner'
  BY <1>23 DEF FlushWorksDone, Goto
<1>24. ASSUME NEW c \in Cpus, FlushLock(c) PROVE OneOwner'
  BY <1>24 DEF FlushLock, Spinlock, Goto
<1>25. ASSUME NEW c \in Cpus, FlushRing(c) PROVE OneOwner'
  BY <1>25 DEF FlushRing, FreeQueues, Spinunlock, Goto
<1>26. ASSUME NEW c \in Cpus, CpuDown(c) PROVE OneOwner'
  BY <1>26 DEF CpuDown
<1>27. ASSUME NEW c \in Cpus, HotplugFreeHot(c) PROVE OneOwner'
  <2>1. Hot(hotplug.dead) \in Queues
    BY <1>27 DEF HotplugFreeHot, HotplugTarget
  <2> QED
    BY <1>27, <2>1 DEF HotplugFreeHot, FreeQueues
<1>28. ASSUME NEW c \in Cpus, HotplugLock(c) PROVE OneOwner'
  BY <1>28 DEF HotplugLock, Spinlock
<1>29. ASSUME NEW c \in Cpus, HotplugFreeSpare(c) PROVE OneOwner'
  <2>1. Spare(hotplug.dead) \in Queues
    BY <1>29 DEF HotplugFreeSpare, HotplugHolds, HotplugTarget
  <2> QED
    BY <1>29, <2>1 DEF HotplugFreeSpare, FreeQueues
<1>30. ASSUME NEW c \in Cpus, NEW d \in Cpus, CpuUp(c, d) PROVE OneOwner'
  BY <1>30 DEF CpuUp
<1>31. CASE UNCHANGED vars
  BY <1>31 DEF vars
<1> QED
  BY <1>1, <1>2, <1>3, <1>4, <1>5, <1>6, <1>7, <1>8, <1>9, <1>10, <1>11, <1>12, <1>13, <1>14, <1>15, <1>16, <1>17, <1>18, <1>19, <1>20, <1>21, <1>22, <1>23, <1>24, <1>25, <1>26, <1>27, <1>28, <1>29, <1>30, <1>31 DEF Next, Alloc, Consume, Procfs, Hotplug, ConsumeListDebug

\* Every step leaves the slots outside the window of the ring empty.
LEMMA RingStep == TypeOK /\ HotplugTarget /\ LockProtects /\ RingReachable /\ [Next]_vars => RingReachable'
<1> SUFFICES ASSUME TypeOK, HotplugTarget, LockProtects, RingReachable, [Next]_vars PROVE RingReachable'
  OBVIOUS
<1> USE QueueNames, RingFacts DEF TypeOK, ringVars, limitVars, cpuVars, adminVars, RingReachable, Published
<1>1. ASSUME NEW c \in Cpus, AllocHot(c) PROVE RingReachable'
  BY <1>1 DEF AllocHot, Unlink
<1>2. ASSUME NEW c \in Cpus, AllocMiss(c) PROVE RingReachable'
  BY <1>2 DEF AllocMiss, Goto
<1>3. ASSUME NEW c \in Cpus, AllocLock(c) PROVE RingReachable'
  BY <1>3 DEF AllocLock, Spinlock, Goto
<1>4. ASSUME NEW c \in Cpus, AllocRingEmpty(c) PROVE RingReachable'
  BY <1>4 DEF AllocRingEmpty, Spinunlock, Return, Goto
<1>5. ASSUME NEW c \in Cpus, AllocRefill(c) PROVE RingReachable'
  <2>1. /\ cur[c] = head /\ head # tail
        /\ head' = NextSlot(head) /\ tail' = tail
        /\ \A i \in Ring : queue'[Slot(i)] = IF i = head THEN {} ELSE queue[Slot(i)]
    BY <1>5 DEF AllocRefill, SpliceInit, LockProtects
  <2>2. Window(head', tail') = Window(head, tail) \ {head}
    BY <2>1, WindowTake
  <2> QED
    BY <2>1, <2>2
<1>6. ASSUME NEW c \in Cpus, AllocDequeue(c) PROVE RingReachable'
  BY <1>6 DEF AllocDequeue, Unlink, Return, Goto
<1>7. ASSUME NEW c \in Cpus, AllocSlab(c) PROVE RingReachable'
  BY <1>7 DEF AllocSlab
<1>8. ASSUME NEW c \in Cpus, NEW s \in inUse, ConsumeReject(c, s) PROVE RingReachable'
  BY <1>8 DEF ConsumeReject
<1>9. ASSUME NEW c \in Cpus, NEW s \in inUse, ConsumeHot(c, s) PROVE RingReachable'
  BY <1>9 DEF ConsumeHot, QueueHead
<1>10. ASSUME NEW c \in Cpus, NEW s \in inUse, ConsumeSpare(c, s) PROVE RingReachable'
  BY <1>10 DEF ConsumeSpare, QueueHead
<1>11. ASSUME NEW c \in Cpus, NEW s \in inUse, NEW b \in BOOLEAN, ConsumeFull(c, s, b) PROVE RingReachable'
  BY <1>11 DEF ConsumeFull, Goto
<1>12. ASSUME NEW c \in Cpus, ConsumeLock(c) PROVE RingReachable'
  BY <1>12 DEF ConsumeLock, Spinlock, Goto
<1>13. ASSUME NEW c \in Cpus, ConsumePublish(c) PROVE RingReachable'
  <2>1. /\ cur[c] = tail /\ NextSlot(tail) # head
        /\ tail' = NextSlot(tail) /\ head' = head
        /\ \A i \in Ring : i # tail => queue'[Slot(i)] = queue[Slot(i)]
    BY <1>13 DEF ConsumePublish, LockProtects
  <2>2. Window(head', tail') = Window(head, tail) \cup {tail}
    BY <2>1, WindowPublish
  <2> QED
    BY <2>1, <2>2
<1>14. ASSUME NEW c \in Cpus, ConsumeRingFull(c) PROVE RingReachable'
  BY <1>14 DEF ConsumeRingFull, Spinunlock, Return, Goto
<1>15. ASSUME NEW c \in Cpus, NEW S \in SUBSET inUse, ConsumeListFast(c, S) PROVE RingReachable'
  BY <1>15 DEF ConsumeListFast
<1>16. ASSUME NEW c \in Cpus, NEW n \in MaxValues, WriteMaxSkbs(c, n) PROVE RingReachable'
  BY <1>16 DEF WriteMaxSkbs
<1>17. ASSUME NEW c \in Cpus, NEW n \in SpareValues, WriteMaxSpare(c, n) PROVE RingReachable'
  BY <1>17 DEF WriteMaxSpare
<1>18. ASSUME NEW c \in Cpus, FlushWrite(c) PROVE RingReachable'
  BY <1>18 DEF FlushWrite
<1>19. ASSUME NEW c \in Cpus, FlushHot(c) PROVE RingReachable'
  BY <1>19 DEF FlushHot, FlushTask, SpliceInit
<1>20. ASSUME NEW c \in Cpus, FlushFreeHot(c) PROVE RingReachable'
  BY <1>20 DEF FlushFreeHot, FlushTask, FreeQueues
<1>21. ASSUME NEW c \in Cpus, FlushSpare(c) PROVE RingReachable'
  BY <1>21 DEF FlushSpare, FlushTask, SpliceInit
<1>22. ASSUME NEW c \in Cpus, FlushFreeSpare(c) PROVE RingReachable'
  BY <1>22 DEF FlushFreeSpare, FlushTask, FreeQueues
<1>23. ASSUME NEW c \in Cpus, FlushWorksDone(c) PROVE RingReachable'
  BY <1>23 DEF FlushWorksDone, Goto
<1>24. ASSUME NEW c \in Cpus, FlushLock(c) PROVE RingReachable'
  BY <1>24 DEF FlushLock, Spinlock, Goto
<1>25. ASSUME NEW c \in Cpus, FlushRing(c) PROVE RingReachable'
  BY <1>25 DEF FlushRing, FreeQueues, Spinunlock, Goto, RingQueues
<1>26. ASSUME NEW c \in Cpus, CpuDown(c) PROVE RingReachable'
  BY <1>26 DEF CpuDown
<1>27. ASSUME NEW c \in Cpus, HotplugFreeHot(c) PROVE RingReachable'
  BY <1>27 DEF HotplugFreeHot, FreeQueues
<1>28. ASSUME NEW c \in Cpus, HotplugLock(c) PROVE RingReachable'
  BY <1>28 DEF HotplugLock, Spinlock
<1>29. ASSUME NEW c \in Cpus, HotplugFreeSpare(c) PROVE RingReachable'
  BY <1>29 DEF HotplugFreeSpare, FreeQueues, Spinunlock
<1>30. ASSUME NEW c \in Cpus, NEW d \in Cpus, CpuUp(c, d) PROVE RingReachable'
  BY <1>30 DEF CpuUp
<1>31. CASE UNCHANGED vars
  BY <1>31 DEF vars
<1> QED
  BY <1>1, <1>2, <1>3, <1>4, <1>5, <1>6, <1>7, <1>8, <1>9, <1>10, <1>11, <1>12, <1>13, <1>14, <1>15, <1>16, <1>17, <1>18, <1>19, <1>20, <1>21, <1>22, <1>23, <1>24, <1>25, <1>26, <1>27, <1>28, <1>29, <1>30, <1>31 DEF Next, Alloc, Consume, Procfs, Hotplug, ConsumeListDebug

\* The inductive invariant: the properties below need each other, and need to
\* know whose buffer a CPU is about to queue and which CPU has died.
IInv ==
  /\ TypeOK /\ ArgOwned /\ HotplugTarget
  /\ LockProtects /\ OneOwner /\ RingReachable

\* The initial state satisfies the invariant.
LEMMA InitIInv == Init => IInv
<1> SUFFICES ASSUME Init PROVE IInv
  OBVIOUS
<1>1. TypeOK
  BY RingFacts, LimitsAssumption DEF Init, TypeOK, Steps, FlushSteps
<1>2. ArgOwned /\ HotplugTarget
  BY DEF Init, ArgOwned, HotplugTarget
<1>3. LockProtects
  BY CpusAssumption DEF Init, LockProtects, LockedSteps, HotplugHolds
<1>4. OneOwner
  BY DEF Init, OneOwner
<1>5. RingReachable
  BY QueueNames DEF Init, RingReachable
<1> QED
  BY <1>1, <1>2, <1>3, <1>4, <1>5 DEF IInv

\* Every step preserves it.
LEMMA NextIInv == IInv /\ [Next]_vars => IInv'
BY TypeStep, ArgStep, HotplugStep, LockStep, OwnerStep, RingStep DEF IInv

\* The inductive invariant holds in every reachable state.
THEOREM Invariance == Spec => []IInv
<1> QED
  BY InitIInv, NextIInv, PTL DEF Spec

\* Every variable has its type in every reachable state.
THEOREM TypeCorrect == Spec => []TypeOK
BY Invariance, PTL DEF IInv

\* skb_recycler_alloc never gives one buffer to two callers: no buffer is in
\* two queues, or in a queue while the stack or the slab allocator has it.
THEOREM OwnerCorrect == Spec => []OneOwner
BY Invariance, PTL DEF IInv

\* The ring's spinlock has one holder, and a section that holds it works with
\* the ring's current indices.
THEOREM LockCorrect == Spec => []LockProtects
BY Invariance, PTL DEF IInv

\* Buffers in the shared ring stay between its head and its tail.
THEOREM RingCorrect == Spec => []RingReachable
BY Invariance, PTL DEF IInv

-----------------------------------------------------------------------------
(* A dead CPU keeps no buffers.                                             *)

\* While works of a flush are queued or run, their writer waits for them and no CPU goes
\* down; then it alone is in the section that frees the ring.  The local list of a work is
\* empty but between taking a list and freeing it.
FlushInv ==
  /\ \A c \in Cpus : pc[c] \in {"flush", "flush_locked"} => writer = "locking"
  /\ \A c, d \in Cpus : pc[c] \in {"flush", "flush_locked"} /\ pc[d] \in {"flush", "flush_locked"} => c = d
  /\ \A c \in Cpus : flush[c] # "none" => writer = "works" /\ c \in online
  /\ writer = "works" => hotplug.step = "none"
  /\ \A c \in Cpus : flush[c] \notin {"hot_taken", "spare_taken"} => queue[Tmp(c)] = {}

\* An offline CPU is in no section, and the callback has freed its hot list before it
\* goes for the lock; between two callbacks no CPU is exempt from NoneStranded.
DeadInv ==
  /\ \A c \in Cpus \ online : pc[c] = "idle"
  /\ hotplug.step = "none" => hotplug.dead = NoCpu
  /\ hotplug.step \in {"lock", "locked"} => queue[Hot(hotplug.dead)] = {}
  /\ NoneStranded

\* Every step keeps the works of a flush and their lists in order.
LEMMA FlushStep == TypeOK /\ HotplugTarget /\ FlushInv /\ [Next]_vars => FlushInv'
<1> SUFFICES ASSUME TypeOK, HotplugTarget, FlushInv, [Next]_vars PROVE FlushInv'
  OBVIOUS
<1> USE QueueNames, RingFacts, CpusAssumption DEF TypeOK, ringVars, limitVars, cpuVars, adminVars, FlushInv, TaskRuns, Runs, HotplugTarget
<1>1. ASSUME NEW c \in Cpus, AllocHot(c) PROVE FlushInv'
  BY <1>1 DEF AllocHot, Unlink
<1>2. ASSUME NEW c \in Cpus, AllocMiss(c) PROVE FlushInv'
  BY <1>2 DEF AllocMiss, Goto
<1>3. ASSUME NEW c \in Cpus, AllocLock(c) PROVE FlushInv'
  BY <1>3 DEF AllocLock, Spinlock, Goto
<1>4. ASSUME NEW c \in Cpus, AllocRingEmpty(c) PROVE FlushInv'
  BY <1>4 DEF AllocRingEmpty, Spinunlock, Return, Goto
<1>5. ASSUME NEW c \in Cpus, AllocRefill(c) PROVE FlushInv'
  BY <1>5 DEF AllocRefill, SpliceInit, Spinunlock, Goto
<1>6. ASSUME NEW c \in Cpus, AllocDequeue(c) PROVE FlushInv'
  BY <1>6 DEF AllocDequeue, Unlink, Return, Goto
<1>7. ASSUME NEW c \in Cpus, AllocSlab(c) PROVE FlushInv'
  BY <1>7 DEF AllocSlab
<1>8. ASSUME NEW c \in Cpus, NEW s \in inUse, ConsumeReject(c, s) PROVE FlushInv'
  BY <1>8 DEF ConsumeReject
<1>9. ASSUME NEW c \in Cpus, NEW s \in inUse, ConsumeHot(c, s) PROVE FlushInv'
  BY <1>9 DEF ConsumeHot, QueueHead
<1>10. ASSUME NEW c \in Cpus, NEW s \in inUse, ConsumeSpare(c, s) PROVE FlushInv'
  BY <1>10 DEF ConsumeSpare, QueueHead
<1>11. ASSUME NEW c \in Cpus, NEW s \in inUse, NEW b \in BOOLEAN, ConsumeFull(c, s, b) PROVE FlushInv'
  BY <1>11 DEF ConsumeFull, Goto
<1>12. ASSUME NEW c \in Cpus, ConsumeLock(c) PROVE FlushInv'
  BY <1>12 DEF ConsumeLock, Spinlock, Goto
<1>13. ASSUME NEW c \in Cpus, ConsumePublish(c) PROVE FlushInv'
  BY <1>13 DEF ConsumePublish, Spinunlock, Return, Goto
<1>14. ASSUME NEW c \in Cpus, ConsumeRingFull(c) PROVE FlushInv'
  BY <1>14 DEF ConsumeRingFull, Spinunlock, Return, Goto
<1>15. ASSUME NEW c \in Cpus, NEW S \in SUBSET inUse, ConsumeListFast(c, S) PROVE FlushInv'
  BY <1>15 DEF ConsumeListFast
<1>16. ASSUME NEW c \in Cpus, NEW n \in MaxValues, WriteMaxSkbs(c, n) PROVE FlushInv'
  BY <1>16 DEF WriteMaxSkbs
<1>17. ASSUME NEW c \in Cpus, NEW n \in SpareValues, WriteMaxSpare(c, n) PROVE FlushInv'
  BY <1>17 DEF WriteMaxSpare
<1>18. ASSUME NEW c \in Cpus, FlushWrite(c) PROVE FlushInv'
  BY <1>18 DEF FlushWrite
<1>19. ASSUME NEW c \in Cpus, FlushHot(c) PROVE FlushInv'
  BY <1>19 DEF FlushHot, FlushTask, SpliceInit
<1>20. ASSUME NEW c \in Cpus, FlushFreeHot(c) PROVE FlushInv'
  BY <1>20 DEF FlushFreeHot, FlushTask, FreeQueues
<1>21. ASSUME NEW c \in Cpus, FlushSpare(c) PROVE FlushInv'
  BY <1>21 DEF FlushSpare, FlushTask, SpliceInit
<1>22. ASSUME NEW c \in Cpus, FlushFreeSpare(c) PROVE FlushInv'
  BY <1>22 DEF FlushFreeSpare, FlushTask, FreeQueues
<1>23. ASSUME NEW c \in Cpus, FlushWorksDone(c) PROVE FlushInv'
  BY <1>23 DEF FlushWorksDone, Goto
<1>24. ASSUME NEW c \in Cpus, FlushLock(c) PROVE FlushInv'
  BY <1>24 DEF FlushLock, Spinlock, Goto
<1>25. ASSUME NEW c \in Cpus, FlushRing(c) PROVE FlushInv'
  BY <1>25 DEF FlushRing, FreeQueues, Spinunlock, Goto, RingQueues
<1>26. ASSUME NEW c \in Cpus, CpuDown(c) PROVE FlushInv'
  BY <1>26 DEF CpuDown
<1>27. ASSUME NEW c \in Cpus, HotplugFreeHot(c) PROVE FlushInv'
  BY <1>27 DEF HotplugFreeHot, FreeQueues
<1>28. ASSUME NEW c \in Cpus, HotplugLock(c) PROVE FlushInv'
  BY <1>28 DEF HotplugLock, Spinlock
<1>29. ASSUME NEW c \in Cpus, HotplugFreeSpare(c) PROVE FlushInv'
  BY <1>29 DEF HotplugFreeSpare, FreeQueues, Spinunlock
<1>30. ASSUME NEW c \in Cpus, NEW d \in Cpus, CpuUp(c, d) PROVE FlushInv'
  BY <1>30 DEF CpuUp
<1>31. CASE UNCHANGED vars
  BY <1>31 DEF vars
<1> QED
  BY <1>1, <1>2, <1>3, <1>4, <1>5, <1>6, <1>7, <1>8, <1>9, <1>10, <1>11, <1>12, <1>13, <1>14, <1>15, <1>16, <1>17, <1>18, <1>19, <1>20, <1>21, <1>22, <1>23, <1>24, <1>25, <1>26, <1>27, <1>28, <1>29, <1>30, <1>31 DEF Next, Alloc, Consume, Procfs, Hotplug, ConsumeListDebug

\* Every step leaves the lists of the dead CPUs empty.
LEMMA DeadStep == TypeOK /\ HotplugTarget /\ FlushInv /\ DeadInv /\ [Next]_vars => DeadInv'
<1> SUFFICES ASSUME TypeOK, HotplugTarget, FlushInv, DeadInv, [Next]_vars PROVE DeadInv'
  OBVIOUS
<1> USE QueueNames, RingFacts, CpusAssumption DEF TypeOK, ringVars, limitVars, cpuVars, adminVars, DeadInv, NoneStranded, TaskRuns, Runs, HotplugTarget
<1>1. ASSUME NEW c \in Cpus, AllocHot(c) PROVE DeadInv'
  BY <1>1 DEF AllocHot, Unlink
<1>2. ASSUME NEW c \in Cpus, AllocMiss(c) PROVE DeadInv'
  BY <1>2 DEF AllocMiss, Goto
<1>3. ASSUME NEW c \in Cpus, AllocLock(c) PROVE DeadInv'
  BY <1>3 DEF AllocLock, Spinlock, Goto
<1>4. ASSUME NEW c \in Cpus, AllocRingEmpty(c) PROVE DeadInv'
  BY <1>4 DEF AllocRingEmpty, Spinunlock, Return, Goto
<1>5. ASSUME NEW c \in Cpus, AllocRefill(c) PROVE DeadInv'
  BY <1>5 DEF AllocRefill, SpliceInit, Spinunlock, Goto
<1>6. ASSUME NEW c \in Cpus, AllocDequeue(c) PROVE DeadInv'
  BY <1>6 DEF AllocDequeue, Unlink, Return, Goto
<1>7. ASSUME NEW c \in Cpus, AllocSlab(c) PROVE DeadInv'
  BY <1>7 DEF AllocSlab
<1>8. ASSUME NEW c \in Cpus, NEW s \in inUse, ConsumeReject(c, s) PROVE DeadInv'
  BY <1>8 DEF ConsumeReject
<1>9. ASSUME NEW c \in Cpus, NEW s \in inUse, ConsumeHot(c, s) PROVE DeadInv'
  BY <1>9 DEF ConsumeHot, QueueHead
<1>10. ASSUME NEW c \in Cpus, NEW s \in inUse, ConsumeSpare(c, s) PROVE DeadInv'
  BY <1>10 DEF ConsumeSpare, QueueHead
<1>11. ASSUME NEW c \in Cpus, NEW s \in inUse, NEW b \in BOOLEAN, ConsumeFull(c, s, b) PROVE DeadInv'
  BY <1>11 DEF ConsumeFull, Goto
<1>12. ASSUME NEW c \in Cpus, ConsumeLock(c) PROVE DeadInv'
  BY <1>12 DEF ConsumeLock, Spinlock, Goto
<1>13. ASSUME NEW c \in Cpus, ConsumePublish(c) PROVE DeadInv'
  BY <1>13 DEF ConsumePublish, Spinunlock, Return, Goto
<1>14. ASSUME NEW c \in Cpus, ConsumeRingFull(c) PROVE DeadInv'
  BY <1>14 DEF ConsumeRingFull, Spinunlock, Return, Goto
<1>15. ASSUME NEW c \in Cpus, NEW S \in SUBSET inUse, ConsumeListFast(c, S) PROVE DeadInv'
  BY <1>15 DEF ConsumeListFast
<1>16. ASSUME NEW c \in Cpus, NEW n \in MaxValues, WriteMaxSkbs(c, n) PROVE DeadInv'
  BY <1>16 DEF WriteMaxSkbs
<1>17. ASSUME NEW c \in Cpus, NEW n \in SpareValues, WriteMaxSpare(c, n) PROVE DeadInv'
  BY <1>17 DEF WriteMaxSpare
<1>18. ASSUME NEW c \in Cpus, FlushWrite(c) PROVE DeadInv'
  BY <1>18 DEF FlushWrite
<1>19. ASSUME NEW c \in Cpus, FlushHot(c) PROVE DeadInv'
  BY <1>19 DEF FlushHot, FlushTask, SpliceInit
<1>20. ASSUME NEW c \in Cpus, FlushFreeHot(c) PROVE DeadInv'
  BY <1>20 DEF FlushFreeHot, FlushTask, FreeQueues
<1>21. ASSUME NEW c \in Cpus, FlushSpare(c) PROVE DeadInv'
  BY <1>21 DEF FlushSpare, FlushTask, SpliceInit
<1>22. ASSUME NEW c \in Cpus, FlushFreeSpare(c) PROVE DeadInv'
  BY <1>22 DEF FlushFreeSpare, FlushTask, FreeQueues
<1>23. ASSUME NEW c \in Cpus, FlushWorksDone(c) PROVE DeadInv'
  BY <1>23 DEF FlushWorksDone, Goto
<1>24. ASSUME NEW c \in Cpus, FlushLock(c) PROVE DeadInv'
  BY <1>24 DEF FlushLock, Spinlock, Goto
<1>25. ASSUME NEW c \in Cpus, FlushRing(c) PROVE DeadInv'
  BY <1>25 DEF FlushRing, FreeQueues, Spinunlock, Goto
<1>26. ASSUME NEW c \in Cpus, CpuDown(c) PROVE DeadInv'
  BY <1>26 DEF CpuDown
<1>27. ASSUME NEW c \in Cpus, HotplugFreeHot(c) PROVE DeadInv'
  BY <1>27 DEF HotplugFreeHot, FreeQueues
<1>28. ASSUME NEW c \in Cpus, HotplugLock(c) PROVE DeadInv'
  BY <1>28 DEF HotplugLock, Spinlock
<1>29. ASSUME NEW c \in Cpus, HotplugFreeSpare(c) PROVE DeadInv'
  BY <1>29 DEF HotplugFreeSpare, FreeQueues, Spinunlock, HotplugHolds, FlushInv
<1>30. ASSUME NEW c \in Cpus, NEW d \in Cpus, CpuUp(c, d) PROVE DeadInv'
  BY <1>30 DEF CpuUp
<1>31. CASE UNCHANGED vars
  BY <1>31 DEF vars
<1> QED
  BY <1>1, <1>2, <1>3, <1>4, <1>5, <1>6, <1>7, <1>8, <1>9, <1>10, <1>11, <1>12, <1>13, <1>14, <1>15, <1>16, <1>17, <1>18, <1>19, <1>20, <1>21, <1>22, <1>23, <1>24, <1>25, <1>26, <1>27, <1>28, <1>29, <1>30, <1>31 DEF Next, Alloc, Consume, Procfs, Hotplug, ConsumeListDebug

\* A CPU that has died keeps no buffers once skb_cpu_callback has returned: its lists and
\* the local list of its flush work are empty until it comes back.
THEOREM StrandedCorrect == Spec => []NoneStranded
<1>1. Init => FlushInv /\ DeadInv
  BY QueueNames DEF Init, FlushInv, DeadInv, NoneStranded
<1>2. IInv /\ FlushInv /\ DeadInv /\ [Next]_vars => FlushInv' /\ DeadInv'
  BY FlushStep, DeadStep DEF IInv
<1>3. DeadInv => NoneStranded
  BY DEF DeadInv
<1> QED
  BY <1>1, <1>2, <1>3, Invariance, PTL DEF Spec

-----------------------------------------------------------------------------
(* How much is hoarded.                                                     *)

\* The largest of a set of bounded numbers.
LEMMA LargestExists ==
  ASSUME NEW S \in SUBSET Nat, S # {}, NEW b \in Nat, \A x \in S : x <= b
  PROVE  Largest(S) \in S /\ \A x \in S : x <= Largest(S)
<1> DEFINE T == {b - x : x \in S}
           Less == OpToRel(<, Nat)
<1>1. T \subseteq Nat /\ T # {}
  OBVIOUS
<1>2. IsWellFoundedOn(Less, Nat) /\ \A x, y \in Nat : y < x => <<y, x>> \in Less
  BY NatLessThanWellFounded DEF OpToRel
<1> HIDE DEF Less
<1>3. PICK m \in T : \A y \in T : ~(<<y, m>> \in Less)
  BY <1>1, <1>2, WFMin
<1>4. \A y \in T : ~(y < m)
  BY <1>1, <1>2, <1>3
<1>5. PICK x \in S : m = b - x
  BY <1>3
<1>6. ASSUME NEW y \in S PROVE y <= x
  <2>1. ~(b - y < b - x) /\ x \in Nat /\ y \in Nat
    BY <1>4, <1>5
  <2> QED
    BY <2>1
<1>7. \E z \in S : \A y \in S : y <= z
  BY <1>6
<1> QED
  BY <1>7 DEF Largest

\* Writers of the procfs files stay below some bound, and a list has a buffer.
Limited == MaxBatch # 0 /\ \E b \in Nat : MaxValues \cup SpareValues \subseteq 0 .. b

SpareLimit == Largest(SpareValues \cup {1})
MaxLimit == Largest(MaxValues)

LEMMA LimitFacts ==
  ASSUME Limited
  PROVE  /\ SpareLimit \in Nat /\ 1 <= SpareLimit /\ \A n \in SpareValues : n \in Nat /\ n <= SpareLimit
         /\ MaxLimit \in Nat /\ \A n \in MaxValues : n \in Nat /\ n <= MaxLimit
         /\ MaxBatch \in Nat /\ 1 <= MaxBatch
<1>1. PICK b \in Nat : MaxValues \cup SpareValues \subseteq 0 .. b
  BY DEF Limited
<1>2. SpareValues \cup {1} \in SUBSET Nat /\ MaxValues \in SUBSET Nat /\ MaxValues # {}
  BY LimitsAssumption
<1>3. /\ b + 1 \in Nat /\ \A x \in SpareValues \cup {1} : x <= b + 1
      /\ \A x \in MaxValues : x <= b
  BY <1>1
<1>4. SpareLimit \in SpareValues \cup {1} /\ \A x \in SpareValues \cup {1} : x <= SpareLimit
  BY <1>2, <1>3, LargestExists DEF SpareLimit
<1>5. MaxLimit \in MaxValues /\ \A x \in MaxValues : x <= MaxLimit
  BY <1>1, <1>2, <1>3, LargestExists DEF MaxLimit
<1> QED
  BY <1>2, <1>4, <1>5, BoundsAssumption DEF Limited

\* The bound, queue by queue.
HotFits(n) == n < MaxLimit + MaxBatch \/ n <= SpareLimit
Fits ==
  /\ \A i \in Ring : Cardinality(queue[Slot(i)]) <= SpareLimit
  /\ \A c \in Cpus : /\ Cardinality(queue[Spare(c)]) <= SpareLimit
                     /\ HotFits(Cardinality(queue[Hot(c)]))

\* A CPU goes to the ring with an empty hot list, and nobody fills that meanwhile.
EmptyHot == \A c \in Cpus : pc[c] \in {"alloc", "alloc_locked"} => queue[Hot(c)] = {}

LEMMA QueueFinite ==
  ASSUME TypeOK, NEW a \in Queues
  PROVE  IsFiniteSet(queue[a]) /\ Cardinality(queue[a]) \in Nat
<1>1. queue[a] \subseteq Skbs
  BY DEF TypeOK
<1> QED
  BY <1>1, SkbsAssumption, FS_Subset, FS_CardinalityType

\* One buffer more on a queue raises its length by at most one.
LEMMA AddOne ==
  ASSUME NEW A, NEW s, IsFiniteSet(A), Cardinality(A) \in Nat
  PROVE  Cardinality(A \cup {s}) \in Nat /\ Cardinality(A \cup {s}) <= Cardinality(A) + 1
<1>1. Cardinality(A \cup {s}) = IF s \in A THEN Cardinality(A) ELSE Cardinality(A) + 1
  BY FS_AddElement
<1> QED
  BY <1>1

\* A step that only takes buffers out of these queues keeps the bound.
Shrinks == \A a \in Queues \ {Tmp(c) : c \in Cpus} : queue'[a] \subseteq queue[a]

LEMMA ShrinkFits == ASSUME TypeOK, Limited, Fits, Shrinks PROVE Fits'
<1>1. ASSUME NEW a \in Queues, queue'[a] \subseteq queue[a]
      PROVE  /\ Cardinality(queue[a]) \in Nat /\ Cardinality(queue'[a]) \in Nat
             /\ Cardinality(queue'[a]) <= Cardinality(queue[a])
  BY <1>1, QueueFinite, FS_Subset, FS_CardinalityType
<1>2. \A i \in Ring : queue'[Slot(i)] \subseteq queue[Slot(i)] /\ Slot(i) \in Queues
  BY QueueNames DEF Shrinks
<1>3. \A c \in Cpus : /\ queue'[Spare(c)] \subseteq queue[Spare(c)] /\ Spare(c) \in Queues
                      /\ queue'[Hot(c)] \subseteq queue[Hot(c)] /\ Hot(c) \in Queues
  BY QueueNames DEF Shrinks
<1>4. \A i \in Ring : Cardinality(queue'[Slot(i)]) <= SpareLimit
  BY <1>1, <1>2, LimitFacts DEF Fits
<1>5. \A c \in Cpus : Cardinality(queue'[Spare(c)]) <= SpareLimit
  BY <1>1, <1>3, LimitFacts DEF Fits
<1>6. \A c \in Cpus : HotFits(Cardinality(queue'[Hot(c)]))
  BY <1>1, <1>3, LimitFacts DEF Fits, HotFits
<1> QED
  BY <1>4, <1>5, <1>6 DEF Fits

\* So does one that changes one queue, by as much as that may hold.
LEMMA GrowFits ==
  ASSUME TypeOK, Fits, NEW a \in Queues, \A q \in Queues : q # a => queue'[q] = queue[q],
         \A i \in Ring : a = Slot(i) => Cardinality(queue'[a]) <= SpareLimit,
         \A c \in Cpus : a = Spare(c) => Cardinality(queue'[a]) <= SpareLimit,
         \A c \in Cpus : a = Hot(c) => HotFits(Cardinality(queue'[a]))
  PROVE  Fits'
BY QueueNames DEF Fits

\* Every step keeps the hot lists of CPUs at the ring empty.
LEMMA EmptyStep == TypeOK /\ EmptyHot /\ [Next]_vars => EmptyHot'
<1> SUFFICES ASSUME TypeOK, EmptyHot, [Next]_vars PROVE EmptyHot'
  OBVIOUS
<1> USE QueueNames, RingFacts DEF TypeOK, ringVars, limitVars, cpuVars, adminVars, EmptyHot, TaskRuns, Runs
<1>1. ASSUME NEW c \in Cpus, AllocHot(c) PROVE EmptyHot'
  BY <1>1 DEF AllocHot, Unlink
<1>2. ASSUME NEW c \in Cpus, AllocMiss(c) PROVE EmptyHot'
  BY <1>2 DEF AllocMiss, Goto
<1>3. ASSUME NEW c \in Cpus, AllocLock(c) PROVE EmptyHot'
  BY <1>3 DEF AllocLock, Spinlock, Goto
<1>4. ASSUME NEW c \in Cpus, AllocRingEmpty(c) PROVE EmptyHot'
  BY <1>4 DEF AllocRingEmpty, Spinunlock, Return, Goto
<1>5. ASSUME NEW c \in Cpus, AllocRefill(c) PROVE EmptyHot'
  BY <1>5 DEF AllocRefill, SpliceInit, Spinunlock, Goto
<1>6. ASSUME NEW c \in Cpus, AllocDequeue(c) PROVE EmptyHot'
  BY <1>6 DEF AllocDequeue, Unlink, Return, Goto
<1>7. ASSUME NEW c \in Cpus, AllocSlab(c) PROVE EmptyHot'
  BY <1>7 DEF AllocSlab
<1>8. ASSUME NEW c \in Cpus, NEW s \in inUse, ConsumeReject(c, s) PROVE EmptyHot'
  BY <1>8 DEF ConsumeReject
<1>9. ASSUME NEW c \in Cpus, NEW s \in inUse, ConsumeHot(c, s) PROVE EmptyHot'
  BY <1>9 DEF ConsumeHot, QueueHead
<1>10. ASSUME NEW c \in Cpus, NEW s \in inUse, ConsumeSpare(c, s) PROVE EmptyHot'
  BY <1>10 DEF ConsumeSpare, QueueHead
<1>11. ASSUME NEW c \in Cpus, NEW s \in inUse, NEW b \in BOOLEAN, ConsumeFull(c, s, b) PROVE EmptyHot'
  BY <1>11 DEF ConsumeFull, Goto
<1>12. ASSUME NEW c \in Cpus, ConsumeLock(c) PROVE EmptyHot'
  BY <1>12 DEF ConsumeLock, Spinlock, Goto
<1>13. ASSUME NEW c \in Cpus, ConsumePublish(c) PROVE EmptyHot'
  BY <1>13 DEF ConsumePublish, Spinunlock, Return, Goto
<1>14. ASSUME NEW c \in Cpus, ConsumeRingFull(c) PROVE EmptyHot'
  BY <1>14 DEF ConsumeRingFull, Spinunlock, Return, Goto
<1>15. ASSUME NEW c \in Cpus, NEW S \in SUBSET inUse, ConsumeListFast(c, S) PROVE EmptyHot'
  BY <1>15 DEF ConsumeListFast
<1>16. ASSUME NEW c \in Cpus, NEW n \in MaxValues, WriteMaxSkbs(c, n) PROVE EmptyHot'
  BY <1>16 DEF WriteMaxSkbs
<1>17. ASSUME NEW c \in Cpus, NEW n \in SpareValues, WriteMaxSpare(c, n) PROVE EmptyHot'
  BY <1>17 DEF WriteMaxSpare
<1>18. ASSUME NEW c \in Cpus, FlushWrite(c) PROVE EmptyHot'
  BY <1>18 DEF FlushWrite
<1>19. ASSUME NEW c \in Cpus, FlushHot(c) PROVE EmptyHot'
  BY <1>19 DEF FlushHot, FlushTask, SpliceInit
<1>20. ASSUME NEW c \in Cpus, FlushFreeHot(c) PROVE EmptyHot'
  BY <1>20 DEF FlushFreeHot, FlushTask, FreeQueues
<1>21. ASSUME NEW c \in Cpus, FlushSpare(c) PROVE EmptyHot'
  BY <1>21 DEF FlushSpare, FlushTask, SpliceInit
<1>22. ASSUME NEW c \in Cpus, FlushFreeSpare(c) PROVE EmptyHot'
  BY <1>22 DEF FlushFreeSpare, FlushTask, FreeQueues
<1>23. ASSUME NEW c \in Cpus, FlushWorksDone(c) PROVE EmptyHot'
  BY <1>23 DEF FlushWorksDone, Goto
<1>24. ASSUME NEW c \in Cpus, FlushLock(c) PROVE EmptyHot'
  BY <1>24 DEF FlushLock, Spinlock, Goto
<1>25. ASSUME NEW c \in Cpus, FlushRing(c) PROVE EmptyHot'
  BY <1>25 DEF FlushRing, FreeQueues, Spinunlock, Goto
<1>26. ASSUME NEW c \in Cpus, CpuDown(c) PROVE EmptyHot'
  BY <1>26 DEF CpuDown
<1>27. ASSUME NEW c \in Cpus, HotplugFreeHot(c) PROVE EmptyHot'
  BY <1>27 DEF HotplugFreeHot, FreeQueues
<1>28. ASSUME NEW c \in Cpus, HotplugLock(c) PROVE EmptyHot'
  BY <1>28 DEF HotplugLock, Spinlock
<1>29. ASSUME NEW c \in Cpus, HotplugFreeSpare(c) PROVE EmptyHot'
  BY <1>29 DEF HotplugFreeSpare, FreeQueues, Spinunlock
<1>30. ASSUME NEW c \in Cpus, NEW d \in Cpus, CpuUp(c, d) PROVE EmptyHot'
  BY <1>30 DEF CpuUp
<1>31. CASE UNCHANGED vars
  BY <1>31 DEF vars
<1> QED
  BY <1>1, <1>2, <1>3, <1>4, <1>5, <1>6, <1>7, <1>8, <1>9, <1>10, <1>11, <1>12, <1>13, <1>14, <1>15, <1>16, <1>17, <1>18, <1>19, <1>20, <1>21, <1>22, <1>23, <1>24, <1>25, <1>26, <1>27, <1>28, <1>29, <1>30, <1>31 DEF Next, Alloc, Consume, Procfs, Hotplug, ConsumeListDebug

\* Every step keeps every queue within its bound.
LEMMA FitsStep == TypeOK /\ LockProtects /\ RingReachable /\ EmptyHot /\ Limited /\ Fits /\ [Next]_vars => Fits'
<1> SUFFICES ASSUME TypeOK, LockProtects, RingReachable, EmptyHot, Limited, Fits, [Next]_vars PROVE Fits'
  OBVIOUS
<1> USE QueueNames, RingFacts DEF TypeOK, ringVars, limitVars, cpuVars, adminVars
<1>1. ASSUME NEW c \in Cpus, AllocHot(c) PROVE Fits'
  <2>1. Shrinks
    BY <1>1 DEF AllocHot, Unlink, Shrinks
  <2> QED
    BY <2>1, ShrinkFits
<1>2. ASSUME NEW c \in Cpus, AllocMiss(c) PROVE Fits'
  <2>1. Shrinks
    BY <1>2 DEF AllocMiss, Goto, Shrinks
  <2> QED
    BY <2>1, ShrinkFits
<1>3. ASSUME NEW c \in Cpus, AllocLock(c) PROVE Fits'
  <2>1. Shrinks
    BY <1>3 DEF AllocLock, Spinlock, Goto, Shrinks
  <2> QED
    BY <2>1, ShrinkFits
<1>4. ASSUME NEW c \in Cpus, AllocRingEmpty(c) PROVE Fits'
  <2>1. Shrinks
    BY <1>4 DEF AllocRingEmpty, Spinunlock, Return, Goto, Shrinks
  <2> QED
    BY <2>1, ShrinkFits
<1>5. ASSUME NEW c \in Cpus, AllocRefill(c) PROVE Fits'
  <2>1. /\ queue[Hot(c)] = {} /\ cur[c] \in Ring
        /\ \A q \in Queues : queue'[q] = IF q = Slot(cur[c]) THEN {}
                                         ELSE IF q = Hot(c) THEN queue[Slot(cur[c])] ELSE queue[q]
    BY <1>5 DEF AllocRefill, SpliceInit, EmptyHot
  <2>2. Cardinality(queue'[Hot(c)]) <= SpareLimit
    BY <2>1 DEF Fits
  <2>3. Cardinality({}) = 0 /\ 0 <= SpareLimit
    BY FS_EmptySet, LimitFacts
  <2> QED
    BY <2>1, <2>2, <2>3 DEF Fits, HotFits
<1>6. ASSUME NEW c \in Cpus, AllocDequeue(c) PROVE Fits'
  <2>1. Shrinks
    BY <1>6 DEF AllocDequeue, Unlink, Return, Goto, Shrinks
  <2> QED
    BY <2>1, ShrinkFits
<1>7. ASSUME NEW c \in Cpus, AllocSlab(c) PROVE Fits'
  <2>1. Shrinks
    BY <1>7 DEF AllocSlab, Shrinks
  <2> QED
    BY <2>1, ShrinkFits
<1>8. ASSUME NEW c \in Cpus, NEW s \in inUse, ConsumeReject(c, s) PROVE Fits'
  <2>1. Shrinks
    BY <1>8 DEF ConsumeReject, Shrinks
  <2> QED
    BY <2>1, ShrinkFits
<1>9. ASSUME NEW c \in Cpus, NEW s \in inUse, ConsumeHot(c, s) PROVE Fits'
  <2>1. queue'[Hot(c)] = queue[Hot(c)] \cup {s}
    BY <1>9, QueueNames DEF ConsumeHot, QueueHead, TypeOK
  <2>2. /\ Cardinality(queue'[Hot(c)]) \in Nat
        /\ Cardinality(queue'[Hot(c)]) <= Cardinality(queue[Hot(c)]) + 1
    BY <2>1, QueueFinite, QueueNames, AddOne
  <2>3. Cardinality(queue[Hot(c)]) < maxSkbs
    BY <1>9, QueueFinite, LimitFacts DEF ConsumeHot, HotFull
  <2>4. HotFits(Cardinality(queue'[Hot(c)]))
    BY <2>2, <2>3, QueueFinite, QueueNames, LimitFacts DEF HotFits
  <2> QED
    BY <1>9, <2>4, GrowFits DEF ConsumeHot, QueueHead
<1>10. ASSUME NEW c \in Cpus, NEW s \in inUse, ConsumeSpare(c, s) PROVE Fits'
  <2>1. queue'[Spare(c)] = queue[Spare(c)] \cup {s}
    BY <1>10, QueueNames DEF ConsumeSpare, QueueHead, TypeOK
  <2>2. /\ Cardinality(queue'[Spare(c)]) \in Nat
        /\ Cardinality(queue'[Spare(c)]) <= Cardinality(queue[Spare(c)]) + 1
    BY <2>1, QueueFinite, QueueNames, AddOne
  <2>3. Cardinality(queue[Spare(c)]) < maxSpare
    BY <1>10, QueueFinite, LimitFacts DEF ConsumeSpare, SpareFull
  <2>4. Cardinality(queue'[Spare(c)]) <= SpareLimit
    BY <2>2, <2>3, QueueFinite, QueueNames, LimitFacts
  <2> QED
    BY <1>10, <2>4, GrowFits DEF ConsumeSpare, QueueHead
<1>11. ASSUME NEW c \in Cpus, NEW s \in inUse, NEW b \in BOOLEAN, ConsumeFull(c, s, b) PROVE Fits'
  <2>1. Shrinks
    BY <1>11 DEF ConsumeFull, Goto, Shrinks
  <2> QED
    BY <2>1, ShrinkFits
<1>12. ASSUME NEW c \in Cpus, ConsumeLock(c) PROVE Fits'
  <2>1. Shrinks
    BY <1>12 DEF ConsumeLock, Spinlock, Goto, Shrinks
  <2> QED
    BY <2>1, ShrinkFits
<1>13. ASSUME NEW c \in Cpus, ConsumePublish(c) PROVE Fits'
  <2>1. cur[c] = tail /\ tail \in Ring /\ NextSlot(tail) # head
    BY <1>13 DEF ConsumePublish, LockProtects
  <2>2. tail \notin Published
    BY <2>1, PoolsAssumption DEF Published, Window, Ring, NextSlot
  <2>3. queue[Slot(tail)] = {}
    BY <2>1, <2>2 DEF RingReachable
  <2>4. \A q \in Queues : queue'[q] = IF q = Spare(c) THEN {arg[c]}
                                      ELSE IF q = Slot(tail) THEN queue[Spare(c)] ELSE queue[q]
    BY <1>13, <2>1, <2>3 DEF ConsumePublish
  <2>5. Cardinality({arg[c]}) <= SpareLimit
    BY FS_Singleton, LimitFacts
  <2> QED
    BY <2>1, <2>4, <2>5 DEF Fits
<1>14. ASSUME NEW c \in Cpus, ConsumeRingFull(c) PROVE Fits'
  <2>1. Shrinks
    BY <1>14 DEF ConsumeRingFull, Spinunlock, Return, Goto, Shrinks
  <2> QED
    BY <2>1, ShrinkFits
<1>15. ASSUME NEW c \in Cpus, NEW S \in SUBSET inUse, ConsumeListFast(c, S) PROVE Fits'
  <2>1. CASE HotFull(c)
    <3>1. Shrinks
      BY <1>15, <2>1 DEF ConsumeListFast, Shrinks
    <3> QED
      BY <3>1, ShrinkFits
  <2>2. CASE ~HotFull(c)
    <3>1. queue' = [queue EXCEPT ![Hot(c)] = @ \cup S] /\ Cardinality(S) <= MaxBatch
      BY <1>15, <2>2 DEF ConsumeListFast
    <3>2. IsFiniteSet(S) /\ Cardinality(S) \in Nat
      BY SkbsAssumption, FS_Subset, FS_CardinalityType
    <3>3. /\ Cardinality(queue[Hot(c)] \cup S) \in Nat
          /\ Cardinality(queue[Hot(c)] \cup S) <= Cardinality(queue[Hot(c)]) + Cardinality(S)
      <4>1. /\ IsFiniteSet(queue[Hot(c)]) /\ Cardinality(queue[Hot(c)]) \in Nat
            /\ IsFiniteSet(queue[Hot(c)] \cap S)
        BY <3>2, QueueFinite, FS_Subset
      <4>2. IsFiniteSet(queue[Hot(c)] \cup S) /\ Cardinality(queue[Hot(c)] \cap S) \in Nat
        BY <3>2, <4>1, FS_Union, FS_CardinalityType
      <4> QED
        BY <3>2, <4>1, <4>2, FS_Union, FS_CardinalityType
    <3>4. Cardinality(queue[Hot(c)]) \in Nat /\ Cardinality(queue[Hot(c)]) < maxSkbs
      BY <2>2, QueueFinite, LimitFacts DEF HotFull
    <3>5. HotFits(Cardinality(queue[Hot(c)] \cup S))
      BY <3>1, <3>2, <3>3, <3>4, LimitFacts DEF HotFits
    <3> QED
      BY <3>1, <3>5, GrowFits
  <2> QED
    BY <2>1, <2>2
<1>16. ASSUME NEW c \in Cpus, NEW n \in MaxValues, WriteMaxSkbs(c, n) PROVE Fits'
  <2>1. Shrinks
    BY <1>16 DEF WriteMaxSkbs, Shrinks
  <2> QED
    BY <2>1, ShrinkFits
<1>17. ASSUME NEW c \in Cpus, NEW n \in SpareValues, WriteMaxSpare(c, n) PROVE Fits'
  <2>1. Shrinks
    BY <1>17 DEF WriteMaxSpare, Shrinks
  <2> QED
    BY <2>1, ShrinkFits
<1>18. ASSUME NEW c \in Cpus, FlushWrite(c) PROVE Fits'
  <2>1. Shrinks
    BY <1>18 DEF FlushWrite, Shrinks
  <2> QED
    BY <2>1, ShrinkFits
<1>19. ASSUME NEW c \in Cpus, FlushHot(c) PROVE Fits'
  <2>1. Shrinks
    BY <1>19 DEF FlushHot, FlushTask, SpliceInit, Shrinks
  <2> QED
    BY <2>1, ShrinkFits
<1>20. ASSUME NEW c \in Cpus, FlushFreeHot(c) PROVE Fits'
  <2>1. Shrinks
    BY <1>20 DEF FlushFreeHot, FlushTask, FreeQueues, Shrinks
  <2> QED
    BY <2>1, ShrinkFits
<1>21. ASSUME NEW c \in Cpus, FlushSpare(c) PROVE Fits'
  <2>1. Shrinks
    BY <1>21 DEF FlushSpare, FlushTask, SpliceInit, Shrinks
  <2> QED
    BY <2>1, ShrinkFits
<1>22. ASSUME NEW c \in Cpus, FlushFreeSpare(c) PROVE Fits'
  <2>1. Shrinks
    BY <1>22 DEF FlushFreeSpare, FlushTask, FreeQueues, Shrinks
  <2> QED
    BY <2>1, ShrinkFits
<1>23. ASSUME NEW c \in Cpus, FlushWorksDone(c) PROVE Fits'
  <2>1. Shrinks
    BY <1>23 DEF FlushWorksDone, Goto, Shrinks
  <2> QED
    BY <2>1, ShrinkFits
<1>24. ASSUME NEW c \in Cpus, FlushLock(c) PROVE Fits'
  <2>1. Shrinks
    BY <1>24 DEF FlushLock, Spinlock, Goto, Shrinks
  <2> QED
    BY <2>1, ShrinkFits
<1>25. ASSUME NEW c \in Cpus, FlushRing(c) PROVE Fits'
  <2>1. Shrinks
    BY <1>25 DEF FlushRing, FreeQueues, Spinunlock, Goto, Shrinks
  <2> QED
    BY <2>1, ShrinkFits
<1>26. ASSUME NEW c \in Cpus, CpuDown(c) PROVE Fits'
  <2>1. Shrinks
    BY <1>26 DEF CpuDown, Shrinks
  <2> QED
    BY <2>1, ShrinkFits
<1>27. ASSUME NEW c \in Cpus, HotplugFreeHot(c) PROVE Fits'
  <2>1. Shrinks
    BY <1>27 DEF HotplugFreeHot, FreeQueues, Shrinks
  <2> QED
    BY <2>1, ShrinkFits
<1>28. ASSUME NEW c \in Cpus, HotplugLock(c) PROVE Fits'
  <2>1. Shrinks
    BY <1>28 DEF HotplugLock, Spinlock, Shrinks
  <2> QED
    BY <2>1, ShrinkFits
<1>29. ASSUME NEW c \in Cpus, HotplugFreeSpare(c) PROVE Fits'
  <2>1. Shrinks
    BY <1>29 DEF HotplugFreeSpare, FreeQueues, Spinunlock, Shrinks
  <2> QED
    BY <2>1, ShrinkFits
<1>30. ASSUME NEW c \in Cpus, NEW d \in Cpus, CpuUp(c, d) PROVE Fits'
  <2>1. Shrinks
    BY <1>30 DEF CpuUp, Shrinks
  <2> QED
    BY <2>1, ShrinkFits
<1>31. CASE UNCHANGED vars
  <2>1. Shrinks
    BY <1>31 DEF vars, Shrinks
  <2> QED
    BY <2>1, ShrinkFits
<1> QED
  BY <1>1, <1>2, <1>3, <1>4, <1>5, <1>6, <1>7, <1>8, <1>9, <1>10, <1>11, <1>12, <1>13, <1>14, <1>15, <1>16, <1>17, <1>18, <1>19, <1>20, <1>21, <1>22, <1>23, <1>24, <1>25, <1>26, <1>27, <1>28, <1>29, <1>30, <1>31 DEF Next, Alloc, Consume, Procfs, Hotplug, ConsumeListDebug

\* The recycler hoards no more than the largest limits ever written allow: lists of
\* consume_skb_list_fast, publishing and refilling lists as a whole included.
THEOREM OccupancyCorrect == Limited => (Spec => []OccupancyBound)
<1> SUFFICES ASSUME Limited PROVE Spec => []OccupancyBound
  OBVIOUS
<1>1. Init => EmptyHot /\ Fits
  <2>1. Cardinality({}) = 0
    BY FS_EmptySet
  <2> QED
    BY <2>1, QueueNames, LimitFacts DEF Init, EmptyHot, Fits, HotFits
<1>2. IInv /\ EmptyHot /\ Fits /\ [Next]_vars => EmptyHot' /\ Fits'
  BY EmptyStep, FitsStep DEF IInv
<1>3. Fits => OccupancyBound
  BY DEF Fits, HotFits, OccupancyBound, SpareLimit, MaxLimit
<1> QED
  BY <1>1, <1>2, <1>3, Invariance, PTL DEF Spec

----------------------------------------------------------------------------
(* The recycler implements SkbPool.  With CONFIG_DEBUG_OBJECTS_SKBUFF it    *)
(* does not: see NothingLost in MCSkbRecyclerDebug.cfg.                     *)

\* Only the debug build has a caller that ignores a refusal.
DropDebug == \A c \in Cpus : dropped[c] => DebugObjects

\* Every step keeps that so.
LEMMA DropStep == TypeOK /\ DropDebug /\ [Next]_vars => DropDebug'
<1> SUFFICES ASSUME TypeOK, DropDebug, [Next]_vars PROVE DropDebug'
  OBVIOUS
<1> USE DEF TypeOK, DropDebug, cpuVars
<1>1. ASSUME NEW c \in Cpus, Alloc(c) PROVE DropDebug'
  BY <1>1 DEF Alloc, AllocHot, AllocMiss, AllocLock, AllocRingEmpty, AllocRefill,
       AllocDequeue, AllocSlab, Return
<1>2. ASSUME NEW c \in Cpus, Consume(c) PROVE DropDebug'
  BY <1>2 DEF Consume, ConsumeReject, ConsumeHot, ConsumeSpare, ConsumeFull, ConsumeLock,
       ConsumePublish, ConsumeRingFull, ConsumeListFast, ConsumeListDebug, Return
<1>3. ASSUME NEW c \in Cpus, Procfs(c) PROVE DropDebug'
  BY <1>3 DEF Procfs, WriteMaxSkbs, WriteMaxSpare, FlushWrite, FlushHot, FlushFreeHot,
       FlushSpare, FlushFreeSpare, FlushTask, FlushWorksDone, FlushLock, FlushRing
<1>4. ASSUME NEW c \in Cpus, Hotplug(c) PROVE DropDebug'
  BY <1>4 DEF Hotplug, CpuDown, HotplugFreeHot, HotplugLock, HotplugFreeSpare, CpuUp
<1>5. CASE UNCHANGED vars
  BY <1>5 DEF vars
<1> QED
  BY <1>1, <1>2, <1>3, <1>4, <1>5 DEF Next

\* Taking a buffer out of one queue takes it out of the pool.
LEMMA PooledUnlink ==
  ASSUME TypeOK, OneOwner, NEW a \in Queues, NEW s \in queue[a], Unlink(a, s)
  PROVE  s \in Pooled /\ Pooled' = Pooled \ {s}
BY DEF TypeOK, OneOwner, Unlink, Pooled

\* Adding buffers to one queue adds them to the pool.
LEMMA PooledAdd ==
  ASSUME TypeOK, NEW a \in Queues, NEW S, queue' = [queue EXCEPT ![a] = @ \cup S]
  PROVE  Pooled' = Pooled \cup S
BY DEF TypeOK, Pooled

\* Splicing one queue to another leaves the pool as it is.
LEMMA PooledSplice ==
  ASSUME TypeOK, NEW a \in Queues, NEW b \in Queues, a # b, SpliceInit(a, b)
  PROVE  Pooled' = Pooled
<1>1. \A q \in Queues : queue'[q] = IF q = a THEN {} ELSE IF q = b THEN queue[b] \cup queue[a] ELSE queue[q]
  BY DEF TypeOK, SpliceInit
<1> QED
  BY <1>1 DEF Pooled

\* Freeing queues drains the pool into the slab allocator.
LEMMA PooledFree ==
  ASSUME TypeOK, OneOwner, NEW A \in SUBSET Queues, FreeQueues(A), UNCHANGED inUse
  PROVE  \E S \in SUBSET Skbs : Pool!Drain(S)
<1> DEFINE S == UNION {queue[a] : a \in A}
<1>1. S \in SUBSET Skbs /\ S \subseteq Pooled
  BY DEF TypeOK, Pooled
<1>2. \A q \in Queues : queue'[q] = IF q \in A THEN {} ELSE queue[q]
  BY DEF FreeQueues
<1>3. \A q \in Queues : q \notin A => queue[q] \cap S = {}
  BY DEF OneOwner
<1>4. Pooled' = Pooled \ S
  BY <1>2, <1>3 DEF Pooled
<1>5. slab' = slab \cup S
  BY DEF FreeQueues
<1>6. Pool!Drain(S)
  BY <1>1, <1>4, <1>5 DEF Pool!Drain
<1> QED
  BY <1>1, <1>6

\* What a step of the recycler is for its users.
PoolStep == Pool!Next \/ (inUse' = inUse /\ Pooled' = Pooled /\ slab' = slab)

\* Allocating is reusing a pooled buffer, or creating one, or no change.
LEMMA AllocImplements ==
  ASSUME TypeOK, OneOwner, NEW c \in Cpus, Alloc(c)
  PROVE  PoolStep
<1> USE QueueNames, RingFacts
<1>1. CASE AllocHot(c)
  <2>1. PICK s \in queue[Hot(c)] : Unlink(Hot(c), s) /\ inUse' = inUse \cup {s}
    BY <1>1 DEF AllocHot
  <2>2. s \in Skbs /\ Pool!Reuse(s)
    BY <1>1, <2>1, PooledUnlink DEF AllocHot, Pool!Reuse, TypeOK
  <2> QED
    BY <2>2 DEF PoolStep, Pool!Next
<1>2. CASE AllocMiss(c) \/ AllocLock(c) \/ AllocRingEmpty(c)
  BY <1>2 DEF AllocMiss, AllocLock, AllocRingEmpty, PoolStep, Pooled
<1>3. CASE AllocRefill(c)
  <2>1. Slot(cur[c]) \in Queues /\ Hot(c) \in Queues /\ Slot(cur[c]) # Hot(c)
    BY DEF TypeOK
  <2> QED
    BY <1>3, <2>1, PooledSplice DEF AllocRefill, PoolStep
<1>4. CASE AllocDequeue(c)
  <2>1. CASE \E s \in queue[Hot(c)] : Unlink(Hot(c), s) /\ inUse' = inUse \cup {s}
    <3>1. PICK s \in queue[Hot(c)] : Unlink(Hot(c), s) /\ inUse' = inUse \cup {s}
      BY <2>1
    <3>2. s \in Skbs /\ Pool!Reuse(s)
      BY <1>4, <3>1, PooledUnlink DEF AllocDequeue, Pool!Reuse, TypeOK
    <3> QED
      BY <3>2 DEF PoolStep, Pool!Next
  <2>2. CASE UNCHANGED <<queue, inUse>>
    BY <1>4, <2>2 DEF AllocDequeue, PoolStep, Pooled
  <2> QED
    BY <1>4, <2>1, <2>2 DEF AllocDequeue
<1>5. CASE AllocSlab(c)
  <2>1. PICK s \in slab : slab' = slab \ {s} /\ inUse' = inUse \cup {s}
    BY <1>5 DEF AllocSlab
  <2>2. s \in Skbs /\ Pool!Create(s)
    BY <1>5, <2>1 DEF AllocSlab, Pool!Create, TypeOK, Pooled
  <2> QED
    BY <2>2 DEF PoolStep, Pool!Next
<1> QED
  BY <1>1, <1>2, <1>3, <1>4, <1>5 DEF Alloc

\* Consuming is recycling or releasing buffers, or no change.
LEMMA ConsumeImplements ==
  ASSUME TypeOK, ArgOwned, OneOwner, DropDebug, ~DebugObjects,
         NEW c \in Cpus, Consume(c)
  PROVE  PoolStep
<1> USE QueueNames, RingFacts
<1>1. ASSUME NEW s \in inUse, ConsumeReject(c, s) PROVE PoolStep
  <2>1. {s} \in SUBSET Skbs /\ Pool!Release({s})
    BY <1>1 DEF ConsumeReject, Pool!Release, TypeOK, Pooled
  <2> QED
    BY <2>1 DEF PoolStep, Pool!Next
<1>2. ASSUME NEW s \in inUse, ConsumeHot(c, s) \/ ConsumeSpare(c, s) PROVE PoolStep
  <2>1. Pooled' = Pooled \cup {s}
    BY <1>2, PooledAdd DEF ConsumeHot, ConsumeSpare, QueueHead
  <2>2. {s} \in SUBSET Skbs /\ Pool!Recycle({s})
    BY <1>2, <2>1 DEF ConsumeHot, ConsumeSpare, Pool!Recycle, TypeOK
  <2> QED
    BY <2>2 DEF PoolStep, Pool!Next
<1>3. ASSUME NEW s \in inUse, NEW b \in BOOLEAN, ConsumeFull(c, s, b) PROVE PoolStep
  BY <1>3 DEF ConsumeFull, PoolStep, Pooled
<1>4. CASE ConsumeLock(c)
  BY <1>4 DEF ConsumeLock, PoolStep, Pooled
<1>5. CASE ConsumePublish(c)
  <2>1. PICK s \in Skbs : s = arg[c] /\ s \in inUse
    BY <1>5 DEF ConsumePublish, ArgOwned, TypeOK
  <2>2. /\ Slot(cur[c]) \in Queues /\ Spare(c) \in Queues
        /\ Slot(cur[c]) # Spare(c)
    BY DEF TypeOK
  <2>3. \A a \in Queues : queue'[a] = IF a = Spare(c) THEN {s}
                             ELSE IF a = Slot(cur[c]) THEN queue[a] \cup queue[Spare(c)]
                             ELSE queue[a]
    BY <1>5, <2>1, <2>2 DEF ConsumePublish, TypeOK
  <2>4. Pooled' = Pooled \cup {s}
    BY <2>2, <2>3 DEF Pooled
  <2>5. Pool!Recycle({s})
    BY <1>5, <2>1, <2>4 DEF ConsumePublish, Pool!Recycle
  <2> QED
    BY <2>5 DEF PoolStep, Pool!Next
<1>6. CASE ConsumeRingFull(c)
  <2>1. PICK s \in Skbs : s = arg[c] /\ s \in inUse
    BY <1>6 DEF ConsumeRingFull, ArgOwned, TypeOK
  <2>2. slab' = slab \cup {s}
    BY <1>6, <2>1 DEF ConsumeRingFull, DropDebug
  <2>3. Pool!Release({s})
    BY <1>6, <2>1, <2>2 DEF ConsumeRingFull, Pool!Release, Pooled
  <2> QED
    BY <2>3 DEF PoolStep, Pool!Next
<1>7. ASSUME NEW S \in SUBSET inUse, ConsumeListFast(c, S) PROVE PoolStep
  <2>1. S \in SUBSET Skbs
    BY DEF TypeOK
  <2>2. CASE HotFull(c)
    BY <1>7, <2>1, <2>2 DEF ConsumeListFast, Pool!Release, Pooled, PoolStep, Pool!Next
  <2>3. CASE ~HotFull(c)
    <3>1. Pooled' = Pooled \cup S
      BY <1>7, <2>3, PooledAdd DEF ConsumeListFast
    <3>2. Pool!Recycle(S)
      BY <1>7, <2>3, <3>1 DEF ConsumeListFast, Pool!Recycle
    <3> QED
      BY <2>1, <3>2 DEF PoolStep, Pool!Next
  <2> QED
    BY <2>2, <2>3
<1> QED
  BY <1>1, <1>2, <1>3, <1>4, <1>5, <1>6, <1>7 DEF Consume, ConsumeListDebug

\* A flush drains the pool; the other procfs writes change nothing.
LEMMA ProcfsImplements ==
  ASSUME TypeOK, OneOwner, NEW c \in Cpus, Procfs(c)
  PROVE  PoolStep
<1> USE QueueNames
<1>1. CASE FlushHot(c) \/ FlushSpare(c)
  BY <1>1, PooledSplice DEF FlushHot, FlushSpare, FlushTask, PoolStep
<1>2. CASE FlushFreeHot(c) \/ FlushFreeSpare(c)
  <2>1. FreeQueues({Tmp(c)}) /\ UNCHANGED inUse /\ {Tmp(c)} \in SUBSET Queues
    BY <1>2 DEF FlushFreeHot, FlushFreeSpare, FlushTask
  <2> QED
    BY <2>1, PooledFree DEF PoolStep, Pool!Next
<1>3. CASE FlushRing(c)
  <2>1. FreeQueues(RingQueues) /\ UNCHANGED inUse
    BY <1>3 DEF FlushRing
  <2> QED
    BY <2>1, PooledFree DEF PoolStep, Pool!Next
<1>4. CASE \/ \E n \in MaxValues : WriteMaxSkbs(c, n)
           \/ \E n \in SpareValues : WriteMaxSpare(c, n)
           \/ FlushWrite(c) \/ FlushWorksDone(c) \/ FlushLock(c)
  BY <1>4 DEF WriteMaxSkbs, WriteMaxSpare, FlushWrite, FlushWorksDone, FlushLock, PoolStep, Pooled
<1> QED
  BY <1>1, <1>2, <1>3, <1>4 DEF Procfs

\* The hotplug callback drains the pool.
LEMMA HotplugImplements ==
  ASSUME TypeOK, OneOwner, HotplugTarget, NEW c \in Cpus, Hotplug(c)
  PROVE  PoolStep
<1> USE QueueNames
<1>1. CASE HotplugFreeHot(c)
  <2>1. FreeQueues({Hot(hotplug.dead)}) /\ UNCHANGED inUse /\ {Hot(hotplug.dead)} \in SUBSET Queues
    BY <1>1 DEF HotplugFreeHot, HotplugTarget
  <2> QED
    BY <2>1, PooledFree DEF PoolStep, Pool!Next
<1>2. CASE HotplugFreeSpare(c)
  <2>1. FreeQueues({Spare(hotplug.dead)}) /\ UNCHANGED inUse /\ {Spare(hotplug.dead)} \in SUBSET Queues
    BY <1>2 DEF HotplugFreeSpare, HotplugHolds, HotplugTarget
  <2> QED
    BY <2>1, PooledFree DEF PoolStep, Pool!Next
<1>3. CASE CpuDown(c) \/ HotplugLock(c) \/ \E d \in Cpus : CpuUp(c, d)
  BY <1>3 DEF CpuDown, HotplugLock, CpuUp, PoolStep, Pooled
<1> QED
  BY <1>1, <1>2, <1>3 DEF Hotplug

\* Every step of the recycler is a step of SkbPool or leaves it unchanged.
LEMMA StepImplements ==
  ~DebugObjects /\ IInv /\ DropDebug /\ [Next]_vars => [Pool!Next]_<<inUse, Pooled, slab>>
<1> SUFFICES ASSUME ~DebugObjects, IInv, DropDebug, [Next]_vars PROVE PoolStep
  BY DEF PoolStep
<1>1. CASE UNCHANGED vars
  BY <1>1 DEF vars, PoolStep, Pooled
<1>2. CASE Next
  BY <1>2, AllocImplements, ConsumeImplements, ProcfsImplements, HotplugImplements DEF Next, IInv
<1> QED
  BY <1>1, <1>2

\* Seen by its users, the recycler is a pool of buffers: it hands out a buffer
\* nobody uses, and keeps or frees a buffer given back, whatever the CPUs, the
\* flush and the hotplug callback are doing.
THEOREM Implements == ~DebugObjects => (Spec => PoolSpec)
<1> SUFFICES ASSUME ~DebugObjects PROVE Spec => PoolSpec
  OBVIOUS
<1>1. Init => Pool!Init /\ DropDebug
  BY DEF Init, DropDebug, Pool!Init, Pooled
<1>2. IInv /\ DropDebug /\ [Next]_vars => DropDebug'
  BY DropStep DEF IInv
<1>3. IInv /\ DropDebug /\ [Next]_vars => [Pool!Next]_(Pool!poolVars)
  BY StepImplements DEF Pool!poolVars
<1> QED
  BY Invariance, <1>1, <1>2, <1>3, PTL DEF Spec, PoolSpec, Pool!Spec

\* No buffer is ever lost, except to a caller that ignores a refusal.
THEOREM NothingLostCorrect == ~DebugObjects => (Spec => []NothingLost)
<1> SUFFICES ASSUME ~DebugObjects PROVE Spec => []NothingLost
  OBVIOUS
<1>1. Init => NothingLost /\ DropDebug
  BY DEF Init, NothingLost, DropDebug
<1>2. IInv /\ DropDebug /\ NothingLost /\ [Next]_vars => NothingLost' /\ DropDebug'
  <2> SUFFICES ASSUME IInv, DropDebug, NothingLost, [Next]_vars PROVE NothingLost' /\ DropDebug'
    OBVIOUS
  <2>1. [Pool!Next]_<<inUse, Pooled, slab>>
    BY StepImplements
  <2>2. NothingLost <=> inUse \cup slab \cup Pooled = Skbs
    BY DEF NothingLost, Pooled
  <2>3. NothingLost' <=> inUse' \cup slab' \cup Pooled' = Skbs
    BY DEF NothingLost, Pooled
  <2>4. NothingLost'
    BY <2>1, <2>2, <2>3 DEF Pool!Next, Pool!Reuse, Pool!Create, Pool!Recycle, Pool!Release, Pool!Drain
  <2> QED
    BY <2>4, DropStep DEF IInv
<1> QED
  BY Invariance, <1>1, <1>2, PTL DEF Spec

\* Outside the debug build every buffer has exactly one owner, however CPUs, flushes and
\* hotplug interleave in skb_recycler_alloc, skb_recycler_consume and their callers.
THEOREM OwnedOnceCorrect == ~DebugObjects => (Spec => []OwnedOnce)
<1>1. OneOwner /\ NothingLost => OwnedOnce BY DEF OwnedOnce
<1> QED BY <1>1, OwnerCorrect, NothingLostCorrect, PTL
=============================================================================
