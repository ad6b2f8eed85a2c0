---------------------------- MODULE LpassPcmProofs ----------------------------
(***************************************************************************)
(* Proofs about LpassPcm, for any threads, any tests the user tries and    *)
(* every device tree: a thread works on a period that lies behind the      *)
(* hardware by no more than the periods that ended in its pass, and no two *)
(* rings in the LPM overlap.                                               *)
(***************************************************************************)
EXTENDS LpassPcm, TLAPS

-----------------------------------------------------------------------------
(* The invariant.                                                          *)

Working == {"loop", "wait", "read", "take", "work", "check"}
Counts  == {2, 4, 8, 16}
Labels  == {"none", "created", "ready", "forget", "off"} \cup Working

TypeInv ==
  /\ tree \in Trees /\ start \in 0 .. 7 /\ running \in BOOLEAN
  /\ writer \in {"idle", "event", "delay"}
  /\ at \in [Tasks -> Labels] /\ held \in [Tasks -> Nat]
  /\ on \in BOOLEAN /\ raised \in BOOLEAN /\ avail \in BOOLEAN
  /\ irq \in {"idle", "index", "avail", "clear"}
  /\ count \in Nat /\ dma \in Nat /\ index \in Nat /\ rxAdd \in Nat
  /\ ended \in Nat /\ late \in Nat

\* There is one thread at most; it alone says whether the DMA is on and the test may run,
\* and until it has set the ring up nobody writes and no handler is left from before.
ThreadInv ==
  /\ \A t, r \in Tasks : at[t] # "none" /\ at[r] # "none" => t = r
  /\ running => \E t \in Tasks : at[t] \in Working
  /\ on <=> \E t \in Tasks : at[t] \notin {"none", "created"}
  /\ raised => on
  /\ \A t \in Tasks : at[t] = "created" => irq = "idle" /\ ~Refused(start)
  /\ \A t \in Tasks : at[t] \in {"created", "ready"} => writer = "idle"
  /\ writer # "idle" => ~running

\* The ring of a started test has two periods at least, and the size of some test's.
RingInv ==
  on => /\ count \in Counts /\ (\E c \in Tests : size = Bytes(c, tree))
        /\ dma \in 0 .. count - 1 /\ rxAdd \in 0 .. count - 1

\* No stop has been asked for.
Fresh == running \/ \E t \in Tasks : at[t] = "ready"

\* What the handler publishes is one behind, and what a pass will take and has taken
\* falls behind with each period that ends after data_avail rose for it.
LagInv ==
  /\ on /\ irq = "index" => index \in 0 .. count - 1 /\ Behind(index, 1)
  /\ on /\ irq \in {"avail", "clear"} => Behind(rxAdd, 1)
  /\ Fresh /\ Due => Behind(rxAdd, ended + 1)
  /\ Fresh => \A t \in Tasks :
       at[t] \in Using => held[t] \in 0 .. count - 1 /\ Behind(held[t], late + 1)

PcmInv == TypeInv /\ ThreadInv /\ RingInv /\ LagInv

-----------------------------------------------------------------------------
(* The size of a ring.                                                     *)

Periods == {320, 640, 1280, 2560}
Spaces  == {4096, 8192, 327680}

\* The number of periods tried is a maximum of those that fit.
LEMMA Largest ==
  ASSUME NEW S \in SUBSET {16, 8, 4, 2, 1, 0}, 0 \in S
  PROVE Max(S) \in S /\ \A y \in S : Max(S) >= y
<1>1. \E x \in S : \A y \in S : x >= y
  <2>1. CASE 16 \in S BY <2>1
  <2>2. CASE 16 \notin S /\ 8 \in S BY <2>2
  <2>3. CASE 16 \notin S /\ 8 \notin S /\ 4 \in S BY <2>3
  <2>4. CASE 16 \notin S /\ 8 \notin S /\ 4 \notin S /\ 2 \in S BY <2>4
  <2>5. CASE S \subseteq {1, 0} BY <2>5
  <2>6. QED BY <2>1, <2>2, <2>3, <2>4, <2>5
<1>2. QED BY <1>1 DEF Max

\* A ring fits, and has two periods at least if two of them fit.
LEMMA Prepared ==
  ASSUME NEW p \in Periods, NEW max \in Spaces
  PROVE /\ PrepareDmaBuffer(p, max) \in 0 .. max
        /\ 2 * p <= max => PrepareDmaBuffer(p, max) \div p \in {2, 4, 8, 16}
<1> USE DEF Periods, Spaces
<1> DEFINE S == {k \in {16, 8, 4, 2, 1, 0} : k * p <= max /\ (k * p) % 16 = 0}
<1>1. PrepareDmaBuffer(p, max) = p * Max(S) BY DEF PrepareDmaBuffer
<1>2. 0 * p = 0 /\ 0 % 16 = 0 /\ 0 <= max OBVIOUS
<1>3. 0 \in S BY <1>2
<1>4. (2 * p) % 16 = 0
  <2>1. CASE p = 320 BY <2>1
  <2>2. CASE p = 640 BY <2>2
  <2>3. CASE p = 1280 BY <2>3
  <2>4. CASE p = 2560 BY <2>4
  <2>5. QED BY <2>1, <2>2, <2>3, <2>4
<1>5. 2 * p <= max => 2 \in S BY <1>4
<1>6. S \in SUBSET {16, 8, 4, 2, 1, 0} /\ \A y \in S : y * p <= max OBVIOUS
<1> HIDE DEF S
<1>7. PICK k \in S : k = Max(S) /\ \A y \in S : k >= y
  <2>1. Max(S) \in S /\ \A y \in S : Max(S) >= y BY <1>3, <1>6, Largest
  <2>2. QED BY <2>1
<1>8. k \in {16, 8, 4, 2, 1, 0} BY <1>6
<1>9. k * p <= max BY <1>6
<1>10. 2 * p <= max => k >= 2 BY <1>5, <1>7
<1>11. PrepareDmaBuffer(p, max) = p * k BY <1>1, <1>7
<1>12. p * k \in Nat /\ p * k <= max /\ (k # 0 => (p * k) \div p = k)
  <2>1. CASE p = 320 BY <1>8, <1>9, <2>1
  <2>2. CASE p = 640 BY <1>8, <1>9, <2>2
  <2>3. CASE p = 1280 BY <1>8, <1>9, <2>3
  <2>4. CASE p = 2560 BY <1>8, <1>9, <2>4
  <2>5. QED BY <2>1, <2>2, <2>3, <2>4
<1>13. p * k \in 0 .. max BY <1>12
<1>14. 2 * p <= max => k \in {2, 4, 8, 16} BY <1>8, <1>10
<1>15. 2 * p <= max => (p * k) \div p \in {2, 4, 8, 16} BY <1>12, <1>14
<1>16. QED BY <1>11, <1>13, <1>15

\* The bytes between two interrupts.
LEMMA Period ==
  ASSUME NEW c \in Tests
  PROVE /\ SamplesPerInterrupt(c) \in Periods
        /\ c # 7 => SamplesPerInterrupt(c) <= 1280
<1>1. c \in {2, 5} => Slots(c) = 2
  <2> SUFFICES ASSUME c \in {2, 5} PROVE Slots(c) = 2 OBVIOUS
  <2>1. c # 7 OBVIOUS
  <2>2. Slots(c) = CASE c \in {2, 5} -> 2 [] c = 7 -> 16 [] OTHER -> 4 BY Zenon DEF Slots
  <2>3. QED BY <2>1, <2>2, Zenon
<1>2. c \notin {2, 5} /\ c = 7 => Slots(c) = 16 BY Zenon DEF Slots
<1>3. c \notin {2, 5} /\ c # 7 => Slots(c) = 4
  <2> SUFFICES ASSUME c \notin {2, 5}, c # 7 PROVE Slots(c) = 4 OBVIOUS
  <2>1. Slots(c) = CASE c \in {2, 5} -> 2 [] c = 7 -> 16 [] OTHER -> 4 BY Zenon DEF Slots
  <2>2. QED BY <2>1, Zenon
<1>4. Rate(c) = IF c \in {4, 5, 6} THEN 16 ELSE 8 BY DEF Rate
<1>5. SamplesPerInterrupt(c) = Rate(c) * Slots(c) * 2 * 10 BY DEF SamplesPerInterrupt
<1>6. CASE c \in {2, 5}
  <2>1. Rate(c) \in {8, 16} /\ Slots(c) = 2 BY <1>1, <1>4, <1>6
  <2>2. QED BY <1>5, <1>6, <2>1 DEF Periods
<1>7. CASE c = 7
  <2>1. Rate(c) = 8 /\ Slots(c) = 16 BY <1>2, <1>4, <1>7
  <2>2. QED BY <1>5, <1>7, <2>1 DEF Periods
<1>8. CASE c \in {1, 3, 4, 6}
  <2>1. Rate(c) \in {8, 16} /\ Slots(c) = 4 BY <1>3, <1>4, <1>8
  <2>2. QED BY <1>5, <1>8, <2>1 DEF Periods
<1>9. QED BY <1>6, <1>7, <1>8 DEF Tests

\* A ring in the LPM fits its half of the interface's space, and one that is not refused
\* has two periods at least.
LEMMA RingFacts ==
  ASSUME NEW c \in Tests, NEW t \in Trees
  PROVE /\ Bytes(c, t) \in Nat
        /\ "lpm" \in {t.rx, t.tx} => Bytes(c, t) \in 0 .. LpmSize(t)
        /\ ~(t.dual /\ c = 7) => Buffers(c, t) \in Counts
<1> DEFINE p == SamplesPerInterrupt(c)
           max == IF "lpm" \in {t.rx, t.tx} THEN LpmSize(t) ELSE DdrSize
           ring == CircularBuffer(c, t)
<1>1. p \in Periods /\ (c # 7 => p <= 1280) BY Period
<1>2. t.dual \in BOOLEAN /\ t.voice \in BOOLEAN /\ (t.voice => t.rx = "lpm" /\ t.tx = "lpm")
  BY DEF Trees
<1>3. DdrSize = 327680 /\ LpmSize(t) = IF t.dual THEN 4096 ELSE 8192 BY DEF DdrSize, LpmSize
<1>4. max \in Spaces /\ ("lpm" \in {t.rx, t.tx} => max = LpmSize(t))
      /\ (~t.dual => max >= 8192)
  BY <1>3 DEF Spaces
<1>5. ring = PrepareDmaBuffer(p, max) BY Zenon DEF CircularBuffer
<1>6. Bytes(c, t) = IF t.voice THEN 4096 ELSE ring BY Zenon DEF Bytes
<1>7. Buffers(c, t) = IF t.voice THEN 2 ELSE ring \div p BY Zenon DEF Buffers
<1> HIDE DEF p, max, ring
<1>8. PrepareDmaBuffer(p, max) \in 0 .. max
      /\ (2 * p <= max => PrepareDmaBuffer(p, max) \div p \in {2, 4, 8, 16})
  BY <1>1, <1>4, Prepared
<1>9. ring \in 0 .. max /\ (2 * p <= max => ring \div p \in {2, 4, 8, 16})
  BY <1>5, <1>8, Zenon
<1>10. ~(t.dual /\ c = 7) => 2 * p <= max BY <1>1, <1>4 DEF Periods, Spaces
<1>11. ~(t.dual /\ c = 7) => Buffers(c, t) \in Counts BY <1>7, <1>9, <1>10 DEF Counts
<1>12. Bytes(c, t) \in Nat BY <1>4, <1>6, <1>9 DEF Spaces
<1>13. "lpm" \in {t.rx, t.tx} => Bytes(c, t) \in 0 .. LpmSize(t) BY <1>2, <1>3, <1>4, <1>6, <1>9
<1>14. QED BY <1>11, <1>12, <1>13, Zenon


-----------------------------------------------------------------------------
(* Going round the ring, and the one thread there is.                      *)

\* The period after d, and the one before it.
LEMMA Round ==
  ASSUME NEW n \in Counts, NEW d \in 0 .. n - 1
  PROVE /\ (d + 1) % n = IF d + 1 = n THEN 0 ELSE d + 1
        /\ GetDataptr(d, n) = IF d = 0 THEN n - 1 ELSE d - 1
<1>1. CASE n = 2 BY <1>1 DEF GetDataptr
<1>2. CASE n = 4 BY <1>2 DEF GetDataptr
<1>3. CASE n = 8 BY <1>3 DEF GetDataptr
<1>4. CASE n = 16 BY <1>4 DEF GetDataptr
<1>5. QED BY <1>1, <1>2, <1>3, <1>4 DEF Counts

\* A thread that does something is the only one: where it goes says what is true then.
LEMMA Moves ==
  ASSUME TypeInv, ThreadInv, NEW t \in Tasks, at[t] # "none", NEW p \in Labels, Goto(t, p)
  PROVE /\ at' \in [Tasks -> Labels] /\ at'[t] = p /\ at[t] \in Labels
        /\ \A r \in Tasks : r # t => at[r] = "none" /\ at'[r] = "none"
        /\ on <=> at[t] # "created"
        /\ running => at[t] \in Working
        /\ Due <=> at[t] # "work" /\ (avail \/ at[t] \in {"read", "take"})
        /\ Due' <=> p # "work" /\ (avail' \/ p \in {"read", "take"})
        /\ Fresh <=> running \/ at[t] = "ready"
        /\ Fresh' <=> running' \/ p = "ready"
<1>1. at \in [Tasks -> Labels] /\ at' = [at EXCEPT ![t] = p] BY DEF TypeInv, Goto
<1>2. at' \in [Tasks -> Labels] /\ at'[t] = p /\ at[t] \in Labels BY <1>1
<1>3. \A r \in Tasks : r # t => at[r] = "none" BY DEF ThreadInv
<1>4. \A r \in Tasks : r # t => at'[r] = "none" BY <1>1, <1>3
<1>5. on <=> at[t] # "created"
  <2>1. on <=> \E r \in Tasks : at[r] \notin {"none", "created"} BY DEF ThreadInv
  <2>2. QED BY <2>1, <1>3
<1>6. running => at[t] \in Working
  <2>1. running => \E r \in Tasks : at[r] \in Working BY DEF ThreadInv
  <2>2. QED BY <2>1, <1>3 DEF Working
<1>7. Due <=> at[t] # "work" /\ (avail \/ at[t] \in {"read", "take"}) BY <1>3 DEF Due
<1>8. Due' <=> p # "work" /\ (avail' \/ p \in {"read", "take"}) BY <1>2, <1>4 DEF Due
<1>9. Fresh <=> running \/ at[t] = "ready" BY <1>3 DEF Fresh
<1>10. Fresh' <=> running' \/ p = "ready" BY <1>2, <1>4 DEF Fresh
<1>11. QED BY <1>2, <1>3, <1>4, <1>5, <1>6, <1>7, <1>8, <1>9, <1>10

\* What is needed of a place for the one thread to be there.
LEMMA Stands ==
  ASSUME NEW t \in Tasks, NEW p \in Labels, at'[t] = p, at' \in [Tasks -> Labels],
         \A r \in Tasks : r # t => at'[r] = "none",
         running' => p \in Working,
         on' <=> p \notin {"none", "created"},
         raised' => on',
         p = "created" => irq' = "idle" /\ ~Refused(start)',
         p \in {"created", "ready"} => writer' = "idle",
         writer' # "idle" => ~running'
  PROVE ThreadInv'
<1>1. \A s, r \in Tasks : at'[s] # "none" /\ at'[r] # "none" => s = r OBVIOUS
<1>2. running' => \E r \in Tasks : at'[r] \in Working OBVIOUS
<1>3. on' <=> \E r \in Tasks : at'[r] \notin {"none", "created"} OBVIOUS
<1>4. \A r \in Tasks : at'[r] = "created" => irq' = "idle" /\ ~Refused(start)' OBVIOUS
<1>5. \A r \in Tasks : at'[r] \in {"created", "ready"} => writer' = "idle" OBVIOUS
<1>6. QED BY <1>1, <1>2, <1>3, <1>4, <1>5 DEF ThreadInv

\* The invariant of the lag, for the one thread.
LEMMA Lags ==
  ASSUME NEW t \in Tasks, NEW p \in Labels, at'[t] = p,
         \A r \in Tasks : r # t => at'[r] = "none",
         on' /\ irq' = "index" => index' \in 0 .. count' - 1 /\ Behind(index, 1)',
         on' /\ irq' \in {"avail", "clear"} => Behind(rxAdd, 1)',
         Fresh' /\ Due' => Behind(rxAdd, ended + 1)',
         Fresh' /\ p \in Using => held'[t] \in 0 .. count' - 1
           /\ (dma' - held'[t] \in 1 .. late' + 1 \/ dma' - held'[t] + count' \in 1 .. late' + 1)
  PROVE LagInv'
<1>1. ASSUME Fresh', NEW r \in Tasks, at'[r] \in Using
      PROVE held'[r] \in 0 .. count' - 1 /\ Behind(held[r], late + 1)'
  <2>1. r = t BY <1>1 DEF Using
  <2>2. p \in Using BY <1>1, <2>1
  <2>3. QED BY <1>1, <2>1, <2>2 DEF Behind
<1>2. QED BY <1>1 DEF LagInv

-----------------------------------------------------------------------------
(* Each action keeps the invariant.                                        *)

LEMMA InitPcm == Init => PcmInv
<1> SUFFICES ASSUME Init PROVE PcmInv OBVIOUS
<1>1. TypeInv
  <2>1. at \in [Tasks -> Labels] BY DEF Init, Labels
  <2>2. held \in [Tasks -> Nat] BY DEF Init
  <2>3. tree \in Trees /\ start \in 0 .. 7 /\ writer \in {"idle", "event", "delay"} BY DEF Init
  <2>4. running \in BOOLEAN /\ on \in BOOLEAN /\ raised \in BOOLEAN /\ avail \in BOOLEAN
    BY DEF Init
  <2>5. irq \in {"idle", "index", "avail", "clear"} BY DEF Init
  <2>6. count \in Nat /\ dma \in Nat /\ index \in Nat /\ rxAdd \in Nat /\ ended \in Nat
        /\ late \in Nat
    BY DEF Init
  <2>7. QED BY <2>1, <2>2, <2>3, <2>4, <2>5, <2>6, Zenon DEF TypeInv
<1>2. \A t \in Tasks : at[t] = "none" BY DEF Init
<1>3. ThreadInv BY <1>2 DEF Init, ThreadInv, Working
<1>4. ~on BY DEF Init
<1>5. ~Fresh BY <1>2 DEF Init, Fresh
<1>6. QED BY <1>1, <1>3, <1>4, <1>5 DEF PcmInv, RingInv, LagInv

\* Whether a pass is due, and whether a stop was asked for, when no thread moves.
LEMMA Still ==
  ASSUME at' = at
  PROVE /\ (Due' <=> (\A t \in Tasks : at[t] # "work")
                      /\ (avail' \/ \E t \in Tasks : at[t] \in {"read", "take"}))
        /\ (Fresh' <=> running' \/ \E t \in Tasks : at[t] = "ready")
BY DEF Due, Fresh

\* A test that was not told to stop has the DMA on.
LEMMA FreshOn == ThreadInv => (Fresh => on)
BY DEF ThreadInv, Fresh, Working

\* The hardware goes on: what was one of the last m is one of the last m + 1.
LEMMA Later ==
  ASSUME NEW n \in Counts, NEW d \in 0 .. n - 1, NEW e \in Nat, NEW x \in 0 .. n - 1,
         NEW m \in Nat, d - x \in 1 .. m \/ d - x + n \in 1 .. m,
         e = IF d + 1 = n THEN 0 ELSE d + 1
  PROVE e - x \in 1 .. m + 1 \/ e - x + n \in 1 .. m + 1
<1>1. n \in Nat BY DEF Counts
<1>2. CASE d + 1 = n BY <1>1, <1>2
<1>3. CASE d + 1 # n BY <1>1, <1>3
<1>4. QED BY <1>2, <1>3

LEMMA EndsStep == ASSUME PcmInv, PeriodEnds PROVE PcmInv'
<1> USE DEF PcmInv
<1>1. on /\ irq = "idle" /\ ~raised BY DEF PeriodEnds, Deadline
<1>2. count \in Counts /\ dma \in 0 .. count - 1 /\ rxAdd \in 0 .. count - 1 BY <1>1 DEF RingInv
<1>3. dma' = IF dma + 1 = count THEN 0 ELSE dma + 1 BY <1>2, Round DEF PeriodEnds
<1>4. count \in Nat /\ count >= 2 BY <1>2 DEF Counts
<1>5. dma' \in 0 .. count - 1 BY <1>2, <1>3, <1>4
<1>6. ended \in Nat /\ ended' \in Nat /\ late \in Nat /\ late' \in Nat BY DEF TypeInv, PeriodEnds
<1>7. TypeInv' BY <1>5, <1>6 DEF TypeInv, PeriodEnds
<1>8. ThreadInv' BY <1>1 DEF ThreadInv, PeriodEnds, Refused
<1>9. RingInv' BY <1>5 DEF RingInv, PeriodEnds
<1>10. (Due' <=> Due) /\ (Fresh' <=> Fresh) BY DEF PeriodEnds, Due, Fresh
<1>11. ASSUME Fresh, Due PROVE Behind(rxAdd, ended + 1)'
  <2>1. dma - rxAdd \in 1 .. ended + 1 \/ dma - rxAdd + count \in 1 .. ended + 1
    BY <1>11 DEF LagInv, Behind
  <2>2. ended + 1 \in Nat /\ ended' = ended + 1 BY <1>6, <1>11 DEF PeriodEnds
  <2>3. dma' - rxAdd \in 1 .. ended + 1 + 1 \/ dma' - rxAdd + count \in 1 .. ended + 1 + 1
    BY <1>2, <1>3, <1>5, <2>1, <2>2, Later
  <2>4. QED BY <2>2, <2>3 DEF Behind, PeriodEnds
<1>12. ASSUME Fresh, NEW t \in Tasks, at[t] \in Using
       PROVE held[t] \in 0 .. count - 1 /\ Behind(held[t], late + 1)'
  <2>1. held[t] \in 0 .. count - 1
        /\ (dma - held[t] \in 1 .. late + 1 \/ dma - held[t] + count \in 1 .. late + 1)
    BY <1>12 DEF LagInv, Behind
  <2>2. late + 1 \in Nat /\ late' = late + 1 BY <1>6, <1>12 DEF PeriodEnds
  <2>3. dma' - held[t] \in 1 .. late + 1 + 1 \/ dma' - held[t] + count \in 1 .. late + 1 + 1
    BY <1>2, <1>3, <1>5, <2>1, <2>2, Later
  <2>4. QED BY <2>1, <2>2, <2>3 DEF Behind, PeriodEnds
<1>13. irq' = "idle" /\ at' = at /\ held' = held /\ count' = count BY <1>1 DEF PeriodEnds
<1>14. LagInv' BY <1>10, <1>11, <1>12, <1>13 DEF LagInv
<1>15. QED BY <1>7, <1>8, <1>9, <1>14

LEMMA StatusStep == ASSUME PcmInv, IrqStatus PROVE PcmInv'
<1> USE DEF PcmInv
<1>1. raised /\ on BY DEF IrqStatus, ThreadInv
<1>2. \A t \in Tasks : at[t] # "created"
  <2>1. PICK r \in Tasks : at[r] \notin {"none", "created"} BY <1>1 DEF ThreadInv
  <2>2. QED BY <2>1 DEF ThreadInv
<1>3. count \in Counts /\ dma \in 0 .. count - 1 BY <1>1 DEF RingInv
<1>4. index' = IF dma = 0 THEN count - 1 ELSE dma - 1 BY <1>3, Round DEF IrqStatus
<1>5. count \in Nat /\ count >= 2 BY <1>3 DEF Counts
<1>6. index' \in 0 .. count - 1 /\ (dma - index' \in 1 .. 1 \/ dma - index' + count \in 1 .. 1)
  BY <1>3, <1>4, <1>5
<1>7. TypeInv' BY <1>6 DEF TypeInv, IrqStatus
<1>8. ThreadInv' BY <1>2 DEF ThreadInv, IrqStatus, Refused
<1>9. RingInv' BY DEF RingInv, IrqStatus
<1>10. (Due' <=> Due) /\ (Fresh' <=> Fresh) BY Still DEF IrqStatus, Due, Fresh
<1>11. LagInv' BY <1>6, <1>10 DEF LagInv, IrqStatus, Behind
<1>12. QED BY <1>7, <1>8, <1>9, <1>11

LEMMA IndexStep == ASSUME PcmInv, IrqIndex PROVE PcmInv'
<1> USE DEF PcmInv
<1>1. TypeInv' BY DEF TypeInv, IrqIndex
<1>2. ThreadInv' BY DEF ThreadInv, IrqIndex, Refused
<1>3. on => index \in 0 .. count - 1 /\ Behind(index, 1) BY DEF LagInv, IrqIndex
<1>4. RingInv' BY <1>3 DEF RingInv, IrqIndex
<1>5. (Due' <=> Due) /\ (Fresh' <=> Fresh) BY Still DEF IrqIndex, Due, Fresh
<1>6. ASSUME Fresh, Due PROVE Behind(rxAdd, ended + 1)'
  <2>1. on BY <1>6, FreshOn
  <2>2. ended \in Nat /\ dma \in Nat /\ count \in Nat /\ index \in Nat BY DEF TypeInv
  <2>3. dma - index \in 1 .. ended + 1 \/ dma - index + count \in 1 .. ended + 1
    BY <1>3, <2>1, <2>2 DEF Behind
  <2>4. QED BY <1>6, <2>3 DEF Behind, IrqIndex, LagInv
<1>7. LagInv' BY <1>3, <1>5, <1>6 DEF LagInv, IrqIndex, Behind
<1>8. QED BY <1>1, <1>2, <1>4, <1>7

LEMMA AvailStep == ASSUME PcmInv, IrqAvail PROVE PcmInv'
<1> USE DEF PcmInv
<1>1. TypeInv' BY DEF TypeInv, IrqAvail, RaiseAvail
<1>2. ThreadInv' BY DEF ThreadInv, IrqAvail, Refused
<1>3. RingInv' BY DEF RingInv, IrqAvail
<1>4. avail' /\ ended' = (IF Due THEN ended ELSE 0) BY DEF IrqAvail, RaiseAvail
<1>5. Fresh' <=> Fresh BY DEF IrqAvail, Fresh
<1>6. ASSUME Fresh PROVE Behind(rxAdd, ended + 1)'
  <2>1. on BY <1>6, FreshOn
  <2>2. CASE Due BY <1>4, <1>6, <2>2 DEF Behind, IrqAvail, LagInv
  <2>3. CASE ~Due BY <1>4, <2>1, <2>3 DEF Behind, IrqAvail, LagInv
  <2>4. QED BY <2>2, <2>3
<1>7. LagInv' BY <1>5, <1>6 DEF LagInv, IrqAvail, Behind
<1>8. QED BY <1>1, <1>2, <1>3, <1>7

LEMMA ClearStep == ASSUME PcmInv, IrqClear PROVE PcmInv'
<1> USE DEF PcmInv
<1>1. TypeInv' BY DEF TypeInv, IrqClear
<1>2. ThreadInv' BY DEF ThreadInv, IrqClear, Refused
<1>3. RingInv' BY DEF RingInv, IrqClear
<1>4. (Due' <=> Due) /\ (Fresh' <=> Fresh) BY Still DEF IrqClear, Due, Fresh
<1>5. LagInv' BY <1>4 DEF LagInv, IrqClear, Behind
<1>6. QED BY <1>1, <1>2, <1>3, <1>5

LEMMA SetupStep == ASSUME PcmInv, NEW t \in Tasks, Setup(t) PROVE PcmInv'
<1> USE DEF PcmInv
<1>1. at[t] = "created" /\ Goto(t, "ready") /\ start \in Tests BY DEF Setup
<1>2. irq = "idle" /\ ~Refused(start) /\ writer = "idle" BY <1>1 DEF ThreadInv
<1>3. /\ at' \in [Tasks -> Labels] /\ at'[t] = "ready"
      /\ \A r \in Tasks : r # t => at'[r] = "none"
      /\ ~running /\ (Due' <=> avail')
  BY <1>1, Moves DEF Labels, Working
<1>4. count' \in Counts /\ size' = Bytes(start, tree)
  BY <1>1, <1>2, RingFacts DEF Setup, Refused, TypeInv
<1>5. count' \in Nat /\ count' >= 2 BY <1>4 DEF Counts
<1>6. TypeInv' BY <1>3, <1>5 DEF TypeInv, Setup
<1>7. ThreadInv' BY <1>2, <1>3, Stands DEF Setup, Labels
<1>8. RingInv' BY <1>1, <1>4, <1>5 DEF RingInv, Setup
<1>9. LagInv' BY <1>2, <1>3, Lags DEF Setup, Labels, Using
<1>10. QED BY <1>6, <1>7, <1>8, <1>9

LEMMA SetupFailsStep == ASSUME PcmInv, NEW t \in Tasks, SetupFails(t) PROVE PcmInv'
<1> USE DEF PcmInv
<1>1. at[t] = "created" /\ Goto(t, "none") BY DEF SetupFails
<1>2. writer \in {"idle", "event", "delay"} /\ irq = "idle" BY <1>1 DEF TypeInv, ThreadInv
<1>3. /\ at' \in [Tasks -> Labels] /\ at'[t] = "none"
      /\ \A r \in Tasks : r # t => at'[r] = "none"
      /\ ~running /\ ~on /\ (Fresh' <=> running')
  BY <1>1, Moves DEF Labels, Working
<1>4. avail' \in BOOLEAN BY DEF TypeInv, SetupFails
<1>5. TypeInv' BY <1>3, <1>4 DEF TypeInv, SetupFails
<1>6. ThreadInv' BY <1>3, Stands DEF SetupFails, Labels, ThreadInv
<1>7. RingInv' BY <1>3 DEF RingInv, SetupFails
<1>8. LagInv' BY <1>2, <1>3, Lags DEF SetupFails, Labels, Using
<1>9. QED BY <1>5, <1>6, <1>7, <1>8

\* A step of a started thread that leaves the ring alone.
LEMMA Quiet ==
  ASSUME PcmInv, NEW t \in Tasks, NEW p \in Labels \ {"none", "created"}, Goto(t, p),
         at[t] \notin {"none", "created"},
         running' => p \in Working, running' \in BOOLEAN,
         p = "ready" => writer = "idle", writer # "idle" => ~running',
         Fresh' => Fresh, avail' \in BOOLEAN,
         Fresh' /\ Due' => Due /\ ended' = ended,
         ended' \in Nat, late' \in Nat, start' \in 0 .. 7, held' \in [Tasks -> Nat],
         Fresh' /\ p \in Using =>
           \/ Due /\ held'[t] = rxAdd /\ late' = ended
           \/ at[t] \in Using /\ held'[t] = held[t] /\ late' = late,
         UNCHANGED <<tree, writer, count, size, on, dma, raised, irq, index, rxAdd>>
  PROVE PcmInv'
<1> USE DEF PcmInv
<1>1. /\ at' \in [Tasks -> Labels] /\ at'[t] = p
      /\ \A r \in Tasks : r # t => at'[r] = "none"
      /\ on
      /\ Fresh' <=> running' \/ p = "ready"
  BY Moves
<1>2. TypeInv' BY <1>1 DEF TypeInv
<1>3. ThreadInv' BY <1>1, Stands DEF ThreadInv
<1>4. RingInv' BY DEF RingInv
<1>5. on /\ irq = "index" => index \in 0 .. count - 1 /\ Behind(index, 1) BY DEF LagInv
<1>6. on /\ irq \in {"avail", "clear"} => Behind(rxAdd, 1) BY DEF LagInv
<1>7. ASSUME Fresh', Due' PROVE Behind(rxAdd, ended + 1)'
  BY <1>7 DEF LagInv, Behind
<1>8. ASSUME Fresh', p \in Using
      PROVE held'[t] \in 0 .. count' - 1
            /\ (dma' - held'[t] \in 1 .. late' + 1 \/ dma' - held'[t] + count' \in 1 .. late' + 1)
  <2>1. CASE Due /\ held'[t] = rxAdd /\ late' = ended
    <3>1. rxAdd \in 0 .. count - 1 BY <1>1 DEF RingInv
    <3>2. Behind(rxAdd, ended + 1) BY <1>8, <2>1 DEF LagInv
    <3>3. QED BY <2>1, <3>1, <3>2 DEF Behind
  <2>2. CASE at[t] \in Using /\ held'[t] = held[t] /\ late' = late
    <3>1. held[t] \in 0 .. count - 1 /\ Behind(held[t], late + 1) BY <1>8, <2>2 DEF LagInv
    <3>2. QED BY <2>2, <3>1 DEF Behind
  <2>3. QED BY <1>8, <2>1, <2>2
<1>9. LagInv' BY <1>1, <1>5, <1>6, <1>7, <1>8, Lags DEF Behind
<1>10. QED BY <1>2, <1>3, <1>4, <1>9

LEMMA RunStep == ASSUME PcmInv, NEW t \in Tasks, Run(t) PROVE PcmInv'
<1>1. at[t] = "ready" /\ Goto(t, "loop") /\ writer = "idle" BY DEF Run, PcmInv, ThreadInv
<1>2. Fresh /\ (Due' <=> Due)
  BY <1>1, Moves DEF Run, PcmInv, Labels, Working
<1>3. QED BY <1>1, <1>2, Quiet DEF Run, PcmInv, TypeInv, Labels, Working, Using

LEMMA LoopStep == ASSUME PcmInv, NEW t \in Tasks, Loop(t) PROVE PcmInv'
<1> DEFINE p == IF running THEN "wait" ELSE "forget"
<1>1. at[t] = "loop" /\ Goto(t, p) /\ p \in Labels BY DEF Loop, Labels, Working
<1>2. (Fresh' => Fresh) /\ (Due' <=> Due)
  BY <1>1, Moves DEF Loop, PcmInv
<1>3. writer # "idle" => ~running BY DEF PcmInv, ThreadInv
<1>4. QED BY <1>1, <1>2, <1>3, Quiet DEF Loop, PcmInv, TypeInv, Working, Using

LEMMA WaitStep == ASSUME PcmInv, NEW t \in Tasks, Wait(t) PROVE PcmInv'
<1>1. at[t] = "wait" /\ avail /\ Goto(t, "read") BY DEF Wait
<1>2. (Fresh' => Fresh) /\ Due BY <1>1, Moves DEF Wait, PcmInv, Labels, Working
<1>3. writer # "idle" => ~running BY DEF PcmInv, ThreadInv
<1>4. QED BY <1>1, <1>2, <1>3, Quiet DEF Wait, PcmInv, TypeInv, Labels, Working, Using

LEMMA LowerStep == ASSUME PcmInv, NEW t \in Tasks, Lower(t) PROVE PcmInv'
<1>1. at[t] = "read" /\ Goto(t, "take") BY DEF Lower
<1>2. (Fresh' => Fresh) /\ Due
  BY <1>1, Moves DEF Lower, PcmInv, Labels, Working
<1>3. writer # "idle" => ~running BY DEF PcmInv, ThreadInv
<1>4. QED BY <1>1, <1>2, <1>3, Quiet DEF Lower, PcmInv, TypeInv, Labels, Working, Using

LEMMA TakeStep == ASSUME PcmInv, NEW t \in Tasks, Take(t) PROVE PcmInv'
<1>1. at[t] = "take" /\ Goto(t, "work") BY DEF Take
<1>2. (Fresh' => Fresh) /\ Due
  BY <1>1, Moves DEF Take, PcmInv, Labels, Working
<1>3. writer # "idle" => ~running BY DEF PcmInv, ThreadInv
<1>4. held' \in [Tasks -> Nat] /\ held'[t] = rxAdd BY DEF Take, PcmInv, TypeInv
<1>5. late' = ended /\ late' \in Nat /\ ended' \in Nat BY DEF Take, PcmInv, TypeInv
<1>6. running' = running /\ running' \in BOOLEAN /\ avail' \in BOOLEAN /\ start' \in 0 .. 7
  BY DEF Take, PcmInv, TypeInv
<1>7. UNCHANGED <<tree, writer, count, size, on, dma, raised, irq, index, rxAdd>> BY DEF Take
<1>8. "work" \in Labels \ {"none", "created"} /\ "work" \in Working /\ "work" # "ready"
  BY DEF Labels, Working
<1>9. at[t] \notin {"none", "created"} BY <1>1
<1>10. at'[t] = "work" BY <1>1 DEF Goto, PcmInv, TypeInv
<1>11. ~Due' BY <1>10 DEF Due
<1>12. QED BY <1>1, <1>2, <1>3, <1>4, <1>5, <1>6, <1>7, <1>8, <1>9, <1>11, Quiet

LEMMA DoneStep == ASSUME PcmInv, NEW t \in Tasks, Done(t) PROVE PcmInv'
<1>1. at[t] = "work" /\ Goto(t, "check") BY DEF Done
<1>2. (Fresh' => Fresh) /\ ~Due'
  BY <1>1, Moves DEF Done, PcmInv, Labels, Working
<1>3. writer # "idle" => ~running BY DEF PcmInv, ThreadInv
<1>4. held' \in [Tasks -> Nat] BY DEF Done, PcmInv, TypeInv
<1>5. QED BY <1>1, <1>2, <1>3, <1>4, Quiet DEF Done, PcmInv, TypeInv, Labels, Working, Using

LEMMA CheckStep == ASSUME PcmInv, NEW t \in Tasks, Check(t) PROVE PcmInv'
<1>1. at[t] = "check" /\ Goto(t, "loop") BY DEF Check
<1>2. running' \in BOOLEAN /\ (running' => running) BY DEF Check, PcmInv, TypeInv
<1>3. (Fresh' => Fresh) /\ (Due' <=> Due)
  BY <1>1, <1>2, Moves DEF Check, PcmInv, Labels, Working
<1>4. writer # "idle" => ~running BY DEF PcmInv, ThreadInv
<1>5. QED BY <1>1, <1>2, <1>3, <1>4, Quiet DEF Check, PcmInv, TypeInv, Labels, Working, Using

LEMMA ForgetStep == ASSUME PcmInv, NEW t \in Tasks, Forget(t) PROVE PcmInv'
<1>1. at[t] = "forget" /\ Goto(t, "off") BY DEF Forget
<1>2. ~Fresh' BY <1>1, Moves DEF Forget, PcmInv, Labels
<1>3. start' \in 0 .. 7 /\ ~running' /\ running' \in BOOLEAN
  <2>1. start' \in 0 .. 7 BY DEF Forget
  <2>2. running' = FALSE BY DEF Forget
  <2>3. QED BY <2>1, <2>2
<1>4. held' \in [Tasks -> Nat] /\ avail' \in BOOLEAN /\ ended' \in Nat /\ late' \in Nat
  BY DEF Forget, PcmInv, TypeInv
<1>5. UNCHANGED <<tree, writer, count, size, on, dma, raised, irq, index, rxAdd>> BY DEF Forget
<1>6. "off" \in Labels \ {"none", "created"} BY DEF Labels
<1>7. at[t] \notin {"none", "created"} BY <1>1
<1>8. QED BY <1>1, <1>2, <1>3, <1>4, <1>5, <1>6, <1>7, Quiet

LEMMA OffStep == ASSUME PcmInv, NEW t \in Tasks, Off(t) PROVE PcmInv'
<1> USE DEF PcmInv
<1>1. at[t] = "off" /\ Goto(t, "none") BY DEF Off
<1>2. /\ at' \in [Tasks -> Labels] /\ at'[t] = "none"
      /\ \A r \in Tasks : r # t => at'[r] = "none"
      /\ ~running /\ (Fresh' <=> running')
  BY <1>1, Moves DEF Labels, Working
<1>3. TypeInv' BY <1>2 DEF TypeInv, Off
<1>4. ThreadInv' BY <1>2, Stands DEF Off, Labels
<1>5. RingInv' BY DEF RingInv, Off
<1>6. LagInv' BY <1>2, Lags DEF Off, Labels, Using
<1>7. QED BY <1>3, <1>4, <1>5, <1>6

\* A write that starts no thread and does not ask for a stop changes start alone.
LEMMA Stored ==
  ASSUME PcmInv, NEW c \in 0 .. 7, Store(c),
         UNCHANGED <<tree, running, writer, at, held, count, size, on, dma, raised, irq, index,
                     rxAdd, avail, ended, late>>
  PROVE PcmInv'
<1> USE DEF PcmInv
<1>1. \A t \in Tasks : at[t] # "created"
  BY DEF Store, MayWrite, Settled, Live
<1>2. TypeInv' BY DEF TypeInv, Store
<1>3. ThreadInv' BY <1>1 DEF ThreadInv
<1>4. RingInv' BY DEF RingInv
<1>5. (Due' <=> Due) /\ (Fresh' <=> Fresh) BY DEF Due, Fresh
<1>6. LagInv' BY <1>5 DEF LagInv, Behind
<1>7. QED BY <1>2, <1>3, <1>4, <1>6

LEMMA StartStep == ASSUME PcmInv, StoreStart PROVE PcmInv'
<1> USE DEF PcmInv
<1>1. PICK c \in Tried : ~Refused(c) /\ Store(c) BY DEF StoreStart
<1>2. PICK t \in Tasks : at[t] = "none" /\ Goto(t, "created") BY DEF StoreStart
<1>3. writer = "idle" /\ irq = "idle" /\ ~running /\ \A r \in Tasks : at[r] = "none"
  BY <1>1 DEF Store, MayWrite, Settled, Live, StoreStart
<1>4. ~on /\ ~raised BY <1>3 DEF ThreadInv
<1>5. at \in [Tasks -> Labels] /\ at' = [at EXCEPT ![t] = "created"] BY <1>2 DEF TypeInv, Goto
<1>6. /\ at' \in [Tasks -> Labels] /\ at'[t] = "created"
      /\ \A r \in Tasks : r # t => at'[r] = "none"
  BY <1>3, <1>5 DEF Labels
<1>7. start' = c /\ c \in 0 .. 7 /\ ~Refused(start)'
  <2>1. start' = c /\ tree' = tree BY <1>1 DEF Store, StoreStart
  <2>2. c \in 0 .. 7 BY UserOK
  <2>3. QED BY <1>1, <2>1, <2>2 DEF Refused
<1>8. TypeInv' BY <1>6, <1>7 DEF TypeInv, StoreStart
<1>9. ThreadInv' BY <1>3, <1>4, <1>6, <1>7, Stands DEF StoreStart, Labels
<1>10. RingInv' BY <1>4 DEF RingInv, StoreStart
<1>11. ~Fresh' BY <1>3, <1>6 DEF Fresh, StoreStart
<1>12. LagInv' BY <1>4, <1>11 DEF LagInv, StoreStart
<1>13. QED BY <1>8, <1>9, <1>10, <1>12

LEMMA StopStep == ASSUME PcmInv, StoreStop PROVE PcmInv'
<1> USE DEF PcmInv
<1>1. running BY DEF StoreStop
<1>2. \A t \in Tasks : at[t] \notin {"created", "ready"}
  BY <1>1 DEF StoreStop, Store, MayWrite, Settled, Live, ThreadInv, Working
<1>3. TypeInv'
  <2>1. start' \in 0 .. 7 /\ writer' \in {"idle", "event", "delay"} BY DEF StoreStop, Store
  <2>2. running' \in BOOLEAN BY DEF StoreStop
  <2>3. UNCHANGED <<tree, at, held, count, size, on, dma, raised, irq, index, rxAdd, avail, ended,
                 late>>
    BY DEF StoreStop
  <2>4. QED BY <2>1, <2>2, <2>3 DEF TypeInv
<1>4. ThreadInv' BY <1>2 DEF ThreadInv, StoreStop
<1>5. RingInv' BY DEF RingInv, StoreStop
<1>6. ~Fresh' BY <1>2 DEF Fresh, StoreStop
<1>7. LagInv' BY <1>6 DEF LagInv, StoreStop, Behind
<1>8. QED BY <1>3, <1>4, <1>5, <1>7

LEMMA EventStep == ASSUME PcmInv, SendEvent PROVE PcmInv'
<1> USE DEF PcmInv
<1>1. ~running /\ \A t \in Tasks : at[t] # "ready" BY DEF SendEvent, ThreadInv
<1>2. TypeInv' BY DEF TypeInv, SendEvent, RaiseAvail
<1>3. ThreadInv' BY <1>1 DEF ThreadInv, SendEvent, Refused
<1>4. RingInv' BY DEF RingInv, SendEvent
<1>5. ~Fresh' BY <1>1 DEF Fresh, SendEvent
<1>6. LagInv' BY <1>5 DEF LagInv, SendEvent, Behind
<1>7. QED BY <1>2, <1>3, <1>4, <1>6

LEMMA DelayedStep == ASSUME PcmInv, Delayed PROVE PcmInv'
<1> USE DEF PcmInv
<1>1. TypeInv' BY DEF TypeInv, Delayed
<1>2. ThreadInv' BY DEF ThreadInv, Delayed, Refused
<1>3. RingInv' BY DEF RingInv, Delayed
<1>4. (Due' <=> Due) /\ (Fresh' <=> Fresh) BY DEF Due, Fresh, Delayed
<1>5. LagInv' BY <1>4 DEF LagInv, Delayed, Behind
<1>6. QED BY <1>1, <1>2, <1>3, <1>5

LEMMA StutterStep == ASSUME PcmInv, UNCHANGED vars PROVE PcmInv'
<1> USE DEF PcmInv, vars
<1>1. TypeInv' BY DEF TypeInv
<1>2. ThreadInv' BY DEF ThreadInv, Refused
<1>3. RingInv' BY DEF RingInv
<1>4. (Due' <=> Due) /\ (Fresh' <=> Fresh) BY DEF Due, Fresh
<1>5. LagInv' BY <1>4 DEF LagInv, Behind
<1>6. QED BY <1>1, <1>2, <1>3, <1>5

LEMMA NextPcm == ASSUME PcmInv, [Next]_vars PROVE PcmInv'
<1>1. CASE PeriodEnds BY <1>1, EndsStep
<1>2. CASE Irq BY <1>2, StatusStep, IndexStep, AvailStep, ClearStep DEF Irq
<1>3. CASE \E t \in Tasks : Task(t)
  BY <1>3, SetupStep, SetupFailsStep, RunStep, LoopStep, WaitStep, LowerStep, TakeStep, DoneStep,
     CheckStep, ForgetStep, OffStep DEF Task
<1>4. CASE User
  <2>1. Tried \subseteq 0 .. 7 BY UserOK
  <2>2. CASE StoreRefused BY <2>1, <2>2, Stored DEF StoreRefused
  <2>3. CASE StoreWhileRunning BY <2>1, <2>3, Stored DEF StoreWhileRunning
  <2>4. CASE StoreStopped BY <2>4, Stored DEF StoreStopped
  <2>5. QED BY <1>4, <2>2, <2>3, <2>4, StartStep, StopStep, EventStep, DelayedStep DEF User
<1>5. CASE UNCHANGED vars BY <1>5, StutterStep
<1>6. QED BY <1>1, <1>2, <1>3, <1>4, <1>5 DEF Next

\* What is published, seen and worked on lies behind the hardware by what the counts
\* say: in every reachable state.
THEOREM PcmCorrect == Spec => []PcmInv
<1>1. Init => PcmInv BY InitPcm
<1>2. PcmInv /\ [Next]_vars => PcmInv' BY NextPcm
<1>3. QED BY <1>1, <1>2, PTL DEF Spec

\* NeverTorn, for any threads and tests and however late a thread is: until a ring less
\* one of periods has ended in its pass, the thread neither writes nor reads the period
\* that the hardware is in.  The handler's index, the order in which it publishes and
\* raises, that in which the thread lowers and takes, and the refusal of the large test
\* see to it together.
THEOREM TornCorrect == Spec => []NeverTorn
<1>1. PcmInv => NeverTorn
  <2> SUFFICES ASSUME PcmInv, NEW t \in Tasks, at[t] \in Using, running, on
               PROVE Behind(held[t], late + 1) /\ (late = 0 => held[t] # dma)
    BY DEF NeverTorn
  <2>1. held[t] \in 0 .. count - 1 /\ Behind(held[t], late + 1)
    BY DEF PcmInv, LagInv, Fresh
  <2>2. late \in Nat /\ dma \in Nat BY DEF PcmInv, TypeInv
  <2>3. count \in Nat /\ count >= 2 BY DEF PcmInv, RingInv, Counts
  <2>4. QED BY <2>1, <2>2, <2>3 DEF Behind
<1>2. QED BY <1>1, PcmCorrect, PTL

-----------------------------------------------------------------------------
(* The rings in the LPM.                                                   *)

\* Where a ring in the LPM begins, and that it fits there.
LEMMA RingAt ==
  ASSUME tree \in Trees, NEW i \in {0, 1}, NEW c \in Tests, NEW r \in Rings(i, Bytes(c, tree))
  PROVE /\ r.first \in {LpmBase(i, tree), LpmBase(i, tree) + LpmSize(tree)}
        /\ r = [first |-> r.first, last |-> r.first + Bytes(c, tree) - 1]
        /\ r.last = r.first + Bytes(c, tree) - 1
        /\ Bytes(c, tree) \in 0 .. LpmSize(tree)
<1> DEFINE b == Bytes(c, tree)
           base == LpmBase(i, tree)
           top == LpmSize(tree)
<1>1. r \in Rings(i, b) OBVIOUS
<1>2. b \in Nat /\ ("lpm" \in {tree.rx, tree.tx} => b \in 0 .. top) BY RingFacts
<1>3. base \in Nat /\ top \in Nat BY DEF LpmBase, LpmSize
<1> HIDE DEF b, base, top
<1>4. (tree.rx = "lpm" /\ r = Ring(RxBase(i, tree), b)) \/ (tree.tx = "lpm" /\ r = Ring(TxBase(i, tree), b))
  BY <1>1 DEF Rings
<1>5. RxBase(i, tree) = base /\ TxBase(i, tree) \in {base, base + top}
  BY <1>3 DEF RxBase, TxBase, base, top
<1>6. \E f \in {base, base + top} : r = [first |-> f, last |-> f + b - 1] BY <1>4, <1>5 DEF Ring
<1>7. PICK f \in {base, base + top} : r = [first |-> f, last |-> f + b - 1] BY <1>6
<1>8. r.first = f /\ r.last = f + b - 1 BY <1>7
<1>9. b \in 0 .. top BY <1>2, <1>4
<1>10. QED BY <1>7, <1>8, <1>9 DEF b, base, top

\* BuffersApart, for either interface and every device tree: the size of a ring is what
\* the space of its half allows, which no two rings share.
THEOREM ApartCorrect == Spec => []BuffersApart
<1>1. PcmInv => BuffersApart
  <2> SUFFICES ASSUME PcmInv, on PROVE BuffersApart BY DEF BuffersApart
  <2>1. PICK c \in Tests : size = Bytes(c, tree) BY DEF PcmInv, RingInv
  <2>2. tree \in Trees BY DEF PcmInv, TypeInv
  <2>3. tree.dual \in BOOLEAN BY <2>2 DEF Trees
  <2>4. Interface \in {0, 1} /\ 1 - Interface \in {0, 1} /\ Interface # 1 - Interface BY UserOK
  <2> DEFINE base(i) == LpmBase(i, tree)
             top == LpmSize(tree)
  <2>5. \A i \in {0, 1} : base(i) \in Nat /\ base(i) + 2 * top <= 16384
    BY <2>3 DEF LpmBase, LpmSize
  <2>6. tree.dual => \A i \in {0, 1} : base(i) + 2 * top <= base(1 - i) \/ base(1 - i) + 2 * top <= base(i)
    BY <2>3 DEF LpmBase, LpmSize
  <2>7. top \in Nat BY DEF LpmSize
  <2> DEFINE mine == Rings(Interface, size)
             other == UNION {Rings(1 - Interface, Bytes(d, tree)) : d \in Tests}
             rx == Ring(RxBase(Interface, tree), size)
             tx == Ring(TxBase(Interface, tree), size)
  <2>8. \A r \in mine :
          /\ r.first \in {base(Interface), base(Interface) + top}
          /\ r = [first |-> r.first, last |-> r.first + size - 1]
          /\ r.last = r.first + size - 1 /\ size \in 0 .. top
    BY <2>1, <2>2, <2>4, RingAt
  <2>9. \A s \in other :
          /\ s.first \in {base(1 - Interface), base(1 - Interface) + top}
          /\ \E b \in 0 .. top : s.last = s.first + b - 1
    <3> SUFFICES ASSUME NEW d \in Tests, NEW s \in Rings(1 - Interface, Bytes(d, tree))
                 PROVE /\ s.first \in {base(1 - Interface), base(1 - Interface) + top}
                       /\ \E b \in 0 .. top : s.last = s.first + b - 1
      OBVIOUS
    <3>1. QED BY <2>2, <2>4, RingAt
  <2> HIDE DEF base, top, mine, other, rx, tx
  <2>10. \A r \in mine : r.last < 16384 BY <2>4, <2>5, <2>7, <2>8
  <2>11. {rx, tx} \subseteq mine /\ ~tree.voice => Disjoint(rx, tx)
    <3> SUFFICES ASSUME rx \in mine, ~tree.voice PROVE Disjoint(rx, tx) OBVIOUS
    <3>1. size \in 0 .. top BY <2>8
    <3>2. rx.last = base(Interface) + size - 1 /\ tx.first = base(Interface) + top
      BY DEF rx, tx, Ring, RxBase, TxBase, base, top
    <3>3. QED BY <2>4, <2>5, <2>7, <3>1, <3>2 DEF Disjoint
  <2>12. tree.dual => \A r \in mine, s \in other : Disjoint(r, s)
    <3> SUFFICES ASSUME tree.dual, NEW r \in mine, NEW s \in other
                 PROVE Disjoint(r, s)
      OBVIOUS
    <3>1. PICK b \in 0 .. top : s.last = s.first + b - 1 BY <2>9
    <3> DEFINE x == base(Interface)
               y == base(1 - Interface)
    <3>2. x \in Nat /\ y \in Nat /\ (x + 2 * top <= y \/ y + 2 * top <= x) BY <2>4, <2>5, <2>6
    <3>3. r.first \in {x, x + top} /\ r.last = r.first + size - 1 /\ size \in 0 .. top BY <2>8
    <3>4. s.first \in {y, y + top} BY <2>9
    <3> HIDE DEF x, y
    <3>5. QED BY <2>7, <3>1, <3>2, <3>3, <3>4 DEF Disjoint
  <2>13. QED BY <2>10, <2>11, <2>12 DEF BuffersApart, mine, other, rx, tx
<1>2. QED BY <1>1, PcmCorrect, PTL
=============================================================================
