------------------------------- MODULE CprTables -------------------------------
(***************************************************************************)
(* The corner tables of a CPR regulator, built once at probe from the      *)
(* device tree and the fuses of the chip: drivers/regulator/cpr3-util.c    *)
(* called by cpr4-apss-regulator.c or by cpr3-npu-regulator.c, one action  *)
(* per pass over the corners.  CprController runs on what they leave.      *)
(*                                                                         *)
(* Voltages are in uV and frequencies in MHz.  A device-tree property that *)
(* may be absent is the empty sequence when it is; one that has a row per  *)
(* fuse combination is that row.  The speed-bin and combination bookkeeping*)
(* that selects the row, the sdelta tables, the part tables of a second    *)
(* SoC version and aging (no board has it) are left out.  An allocation    *)
(* that fails ends the probe like the checks modelled here.                *)
(*                                                                         *)
(* RoundDown and KeepOrder are not the code: each is a definition below    *)
(* with one mistake.                                                       *)
(***************************************************************************)
EXTENDS Integers, Sequences

CONSTANTS
  Boards, \* device trees: a record each, described below
  Fuses,  \* what the chips of those boards were fused with
  Word,   \* how many values a u32 has, which holds the quotient of a corner
  Long    \* how many a u64 has, which holds those of a fuse corner
ASSUME WidthsOK == Word \in Nat \ {0} /\ Long \in Nat /\ Word <= Long

(* A board: npu tells the two drivers apart.  ref: fuse_ref_volt, unit:    *)
(* fuse_step_volt, step: qcom,voltage-step.  ceiling, floor, freq: one     *)
(* entry per corner; fmax: qcom,cpr-corner-fmax-map.  parts:               *)
(* qcom,cpr-parts-voltage; fuseAdj, cold, clFuse: adjustments per part     *)
(* type and fuse corner; adj, diff, misc, cl, range: per corner; scale: of *)
(* each fuse corner and ring oscillator.  flags: the boolean properties.   *)
(* A chip: init, quot, ro and offset of each fuse corner; off: the TCSR    *)
(* disables CPR; boost: the fuse that allows it.                           *)
Fits(b, f) == Len(b.ref) = Len(f.init)

(* The parsing takes only arrays of the size it asks for, and a positive   *)
(* voltage step.                                                           *)
Sized(s, n) == s \in Seq(Int) /\ Len(s) = n
Optional(s, n) == s = <<>> \/ Sized(s, n)
PerPart(s, b) ==
  \/ s = <<>>
  \/ s \in Seq(Seq(Int)) /\ Len(s) = Len(b.parts) + 1
     /\ \A i \in 1 .. Len(s) : Len(s[i]) = Len(b.ref)
WellFormed ==
  \A b \in Boards :
    /\ b.npu \in BOOLEAN /\ b.step \in Nat \ {0} /\ {b.unit, b.boostCeiling} \subseteq Int
    /\ b.floor \in Seq(Int) /\ b.ref \in Seq(Int) /\ b.parts \in Seq(Int)
    /\ Len(b.floor) > 0 /\ Sized(b.ceiling, Len(b.floor)) /\ Sized(b.freq, Len(b.floor))
    /\ Len(b.ref) > 0 /\ Sized(b.fmax, Len(b.ref))
    /\ \A s \in {b.adj, b.diff, b.misc, b.cl, b.range} : Optional(s, Len(b.floor))
    /\ \A s \in {b.fuseAdj, b.cold, b.clFuse} : PerPart(s, b)
    /\ \A f \in Fuses :
         Fits(b, f) =>
           /\ f.init \in Seq(Nat)
           /\ ~b.npu => \A j \in 1 .. Len(b.ref) :
                          /\ f.quot[j] \in 0 .. Word - 1 /\ f.offset[j] \in Nat
                          /\ b.scale[j][f.ro[j]] \in Int
ASSUME BoardsOK == WellFormed

(* What it does not check and every board has: ceilings that do not fall   *)
(* from a corner to the next, least differences that are not negative, a   *)
(* boost ceiling that no rounded ceiling passes, and adjustments for the   *)
(* cold that lower nothing.                                                *)
InOrder ==
  \A b \in Boards :
    /\ \A c \in 1 .. Len(b.floor) :
         /\ \A d \in 1 .. c : b.ceiling[d] <= b.ceiling[c]
         /\ b.diff # <<>> => b.diff[c] >= 0
         /\ ((b.ceiling[c] + b.step - 1) \div b.step) * b.step <= b.boostCeiling
    /\ \A p \in 1 .. Len(b.cold) : \A j \in 1 .. Len(b.ref) : b.cold[p][j] >= 0
ASSUME BoardsInOrder == InOrder

VARIABLES
  board,   \* the device tree
  fused,   \* the fuses
  stage,   \* the next pass
  isCold,  \* the NPU's cold-temperature round is on
  part,    \* part_type
  fuseVolt, \* the voltage of each fuse corner
  floor, ceiling, ol, \* floor_volt, ceiling_volt and open_loop_volt of each corner
  coldOl,  \* cold_temp_open_loop_volt of each corner
  quot     \* target_quot of each corner, for the oscillator of its fuse corner
tableVars == <<board, fused, stage, isCold, part, fuseVolt, floor, ceiling, ol, coldOl, quot>>

MaxI(x, y) == IF x >= y THEN x ELSE y
MinI(x, y) == IF x <= y THEN x ELSE y
CornerSet == 1 .. Len(board.floor)
FuseCorners == 1 .. Len(board.ref)
Has(flag) == flag \in board.flags
Zero == [c \in CornerSet |-> 0]
AdjAt(adj, i) == IF adj = <<>> THEN 0 ELSE adj[i]

(* CPR3_ROUND *)
RoundDown(v) == (v \div board.step) * board.step
Round(v) == ((v + board.step - 1) \div board.step) * board.step

(* The loops that raise each entry to the one before it. *)
RunningMax(s, S) == [i \in S |-> LET upTo == {s[k] : k \in {j \in S : j <= i}}
                                 IN CHOOSE x \in upTo : \A y \in upTo : y <= x]

(* cpr_fuse_corner: corners above the map belong to the last fuse corner. *)
FuseOf(c) ==
  LET above == {j \in FuseCorners : c <= board.fmax[j]}
  IN IF above = {} THEN Len(board.ref) ELSE CHOOSE j \in above : \A k \in above : j <= k
CornersOf(j) == {c \in CornerSet : FuseOf(c) = j}
Fmax(j) == CHOOSE c \in CornersOf(j) : \A d \in CornersOf(j) : d <= c

(* The line through two points, rounded up; the higher value off the line. *)
(* The product is exact: it leaves a u64 only where a quotient wrapped.    *)
Interpolate(x1, y1, x2, y2, x) ==
  IF x1 >= x2 \/ y1 > y2 \/ x1 > x \/ x > x2 THEN y2
  ELSE y2 - ((x2 - x) * (y2 - y1)) \div (x2 - x1)

(* Fuse corner 1 for the corners up to its Fmax, then a line to each next. *)
Spread(low, high) ==
  [c \in CornerSet |->
     LET j == FuseOf(c)
     IN IF j = 1 THEN high[1]
        ELSE Interpolate(board.freq[Fmax(j - 1)], low[j], board.freq[Fmax(j)], high[j],
                         board.freq[c])]

Sign(x) == IF x < 0 THEN -1 ELSE 1
Abs(x) == Sign(x) * x
(* cpr3_quot_adjustment: quotient per volt times uV, towards zero. *)
QuotAdj(scale, volt) == Sign(scale) * Sign(volt) * ((Abs(scale) * Abs(volt)) \div 1000000)

-----------------------------------------------------------------------------
TableInit ==
  /\ board \in Boards
  /\ fused \in {f \in Fuses : Fits(board, f)}
  /\ stage = "parse" /\ isCold = FALSE /\ part = 0
  /\ fuseVolt = <<>> /\ floor = <<>> /\ ceiling = <<>>
  /\ ol = <<>> /\ coldOl = <<>> /\ quot = <<>>

(* cpr3_parse_common_corner_data; the bound on the map is one too high. *)
CornersValid ==
  /\ \A c \in CornerSet : Round(board.floor[c]) <= Round(board.ceiling[c])
  /\ \A c \in CornerSet \ {1} : board.freq[c - 1] <= board.freq[c]
  /\ \A j \in FuseCorners : board.fmax[j] \in 1 .. Len(board.floor) + 1
  /\ \A j \in FuseCorners \ {1} : board.fmax[j - 1] < board.fmax[j]

Parse ==
  /\ stage = "parse"
  /\ floor' = [c \in CornerSet |-> Round(board.floor[c])]
  /\ ceiling' = [c \in CornerSet |-> Round(board.ceiling[c])]
  /\ ol' = Zero /\ coldOl' = Zero /\ quot' = Zero
  /\ stage' = IF CornersValid THEN "fuse" ELSE "failed"
  /\ isCold' = (board.npu /\ Has("cold-threshold"))
  /\ UNCHANGED <<board, fused, part, fuseVolt>>

(* cpr3_convert_open_loop_voltage_fuse: six bits, sign and magnitude. *)
Converted(ref, bits) == ref + (IF bits >= 32 THEN -1 ELSE 1) * (bits % 32) * board.unit

(* cpr3_determine_part_type: the first threshold the highest fuse is below *)
PartType(top) ==
  CHOOSE i \in 0 .. Len(board.parts) :
    /\ i = Len(board.parts) \/ top < board.parts[i + 1]
    /\ \A k \in 1 .. i : top >= board.parts[k]

OfPart(adj, p) == IF adj = <<>> THEN <<>> ELSE adj[p + 1]

(* The voltage of the fuse corners, adjusted for the part and made to rise *)
KeepOrder(s, S) == s
Ordered(s, S) == RunningMax(s, S)
FuseVoltages ==
  /\ stage = "fuse"
  /\ LET raw == [j \in FuseCorners |-> IF fused.off THEN board.ref[j]
                                       ELSE Converted(board.ref[j], fused.init[j])]
         p == PartType(raw[Len(board.ref)])
         adjusted == [j \in FuseCorners |->
                        raw[j] + AdjAt(OfPart(board.fuseAdj, p), j)
                          + (IF isCold THEN AdjAt(OfPart(board.cold, p), j) ELSE 0)]
     IN part' = p /\ fuseVolt' = Ordered(adjusted, FuseCorners)
  /\ stage' = "open"
  /\ UNCHANGED <<board, fused, isCold, floor, ceiling, ol, coldOl, quot>>

(* A fuse corner without corners of its own fails the probe, but the APSS  *)
(* driver looks only when it is to interpolate.                            *)
Unmapped == (board.npu \/ Has("volt-interp")) /\ \E j \in FuseCorners : CornersOf(j) = {}

(* cpr3_adjust_open_loop_voltages: at least diff apart, and so in order,   *)
(* but only where the adjustment is given; misc comes on top of it.        *)
Adjusted(s) ==
  IF board.adj = <<>> THEN s
  ELSE LET r[c \in CornerSet] ==
             IF c = 1 THEN s[1] + board.adj[1]
             ELSE MaxI(s[c] + board.adj[c], r[c - 1] + AdjAt(board.diff, c))
       IN r

OpenLoop ==
  /\ stage = "open"
  /\ IF Unmapped
     THEN stage' = "failed" /\ UNCHANGED ol
     ELSE /\ LET lows == [j \in FuseCorners |-> IF j = 1 THEN fuseVolt[1] ELSE fuseVolt[j - 1]]
                 volts == IF board.npu \/ Has("volt-interp") THEN Spread(lows, fuseVolt)
                          ELSE [c \in CornerSet |-> fuseVolt[FuseOf(c)]]
             IN ol' = [c \in CornerSet |-> Adjusted(volts)[c] + AdjAt(board.misc, c)]
          /\ stage' = "limit"
  /\ UNCHANGED <<board, fused, isCold, part, fuseVolt, floor, ceiling, coldOl, quot>>

(* cpr3_limit_open_loop_voltages, cpr3_open_loop_voltage_as_ceiling *)
Limit ==
  /\ stage = "limit"
  /\ ol' = [c \in CornerSet |-> MinI(MaxI(Round(ol[c]), floor[c]), ceiling[c])]
  /\ ceiling' = IF Has("ol-as-ceiling") THEN ol' ELSE ceiling
  /\ stage' = "floor"
  /\ UNCHANGED <<board, fused, isCold, part, fuseVolt, floor, coldOl, quot>>

(* cpr3_limit_floor_voltages: the floor within range of the ceiling, then  *)
(* floors in order, with the other two raised to them.  Of the NPU, the    *)
(* cold round ends here and the normal one starts over on its floors and   *)
(* ceilings.                                                               *)
LimitFloor ==
  /\ stage = "floor"
  /\ LET inRange == [c \in CornerSet |->
                       IF AdjAt(board.range, c) < 0 \/ board.range = <<>> THEN floor[c]
                       ELSE MaxI(Round(ceiling[c] - board.range[c]), floor[c])]
     IN /\ floor' = RunningMax(inRange, CornerSet)
        /\ ol' = [c \in CornerSet |->
                    IF floor'[c] # floor[c] THEN MaxI(ol[c], floor'[c]) ELSE ol[c]]
        /\ ceiling' = [c \in CornerSet |->
                         IF floor'[c] # inRange[c] THEN MaxI(ceiling[c], floor'[c])
                         ELSE ceiling[c]]
  /\ coldOl' = IF isCold THEN ol' ELSE coldOl
  /\ isCold' = FALSE
  /\ stage' = IF isCold THEN "fuse" ELSE IF board.npu THEN "done" ELSE "quot"
  /\ UNCHANGED <<board, fused, part, fuseVolt, quot>>

-----------------------------------------------------------------------------
(* The target quotients and boost, which only the APSS driver has. *)

SameRo(i, j) == fused.ro[i] = fused.ro[j]

(* cpr3_parse_closed_loop_voltage_adjustments: scale and fuse adjustment   *)
(* count only if the part has one of the two.                              *)
ClosedAdj == board.cl # <<>> \/ OfPart(board.clFuse, part) # <<>>
RoScale(j) == IF ClosedAdj THEN board.scale[j][fused.ro[j]] ELSE 0
FuseAdjQuot(j, of) == QuotAdj(RoScale(j), AdjAt(OfPart(board.clFuse, part), of))

(* The quotient at the bottom of each fuse corner's line and at its Fmax,  *)
(* before and after the adjustments; the bottom goes on from the corner    *)
(* below when they share an oscillator, else it lies an offset lower.  All *)
(* of it unsigned: what falls below zero is taken for the higher one.      *)
OffsetLow(j, adj) == (fused.quot[j] - fused.offset[j] * 5 + adj) % Long
Fused ==
  LET h[j \in FuseCorners] ==
        IF j = 1 THEN (fused.quot[1] + FuseAdjQuot(1, 1)) % Word
        ELSE MaxI(fused.quot[j], IF SameRo(j, j - 1) THEN h[j - 1] ELSE OffsetLow(j, 0))
  IN h
AdjustedLow(j) == OffsetLow(j, FuseAdjQuot(j, j - 1))
High ==
  LET h[j \in FuseCorners] ==
        IF j = 1 THEN Fused[1]
        ELSE MaxI((Fused[j] + FuseAdjQuot(j, j)) % Long,
                  IF SameRo(j, j - 1) THEN h[j - 1] ELSE AdjustedLow(j))
  IN h
Low == [j \in FuseCorners |->
          IF j = 1 THEN High[1] ELSE IF SameRo(j, j - 1) THEN High[j - 1] ELSE AdjustedLow(j)]

(* Corners in order within a run of one oscillator. *)
InRuns(s) ==
  LET r[c \in CornerSet] ==
        IF c = 1 \/ ~SameRo(FuseOf(c), FuseOf(MaxI(c - 1, 1))) THEN s[c] ELSE MaxI(s[c], r[c - 1])
  IN r

CornerAdj(c) == AdjAt(board.cl, c) + AdjAt(board.misc, c)

(* cpr4_ipq807x_apss_calculate_target_quotients *)
Quotients ==
  /\ stage = "quot"
  /\ IF ~Has("quot-interp")
     THEN /\ quot' = [c \in CornerSet |->
                        LET j == FuseOf(c)
                        IN (fused.quot[j]
                              + QuotAdj(RoScale(j), AdjAt(OfPart(board.clFuse, part), j)
                                                      + CornerAdj(c))) % Word]
          /\ stage' = "boost"
     ELSE IF \E j \in FuseCorners : CornersOf(j) = {}
     THEN stage' = "failed" /\ UNCHANGED quot
     ELSE /\ LET line == Spread(Low, High)
             IN quot' = InRuns([c \in CornerSet |->
                                  (line[c] + QuotAdj(RoScale(FuseOf(c)), CornerAdj(c))) % Word])
          /\ stage' = "boost"
  /\ UNCHANGED <<board, fused, isCold, part, fuseVolt, floor, ceiling, ol, coldOl>>

(* cpr4_apss_parse_boost_properties: the top corner may go up to the boost *)
(* ceiling, which is not rounded.                                          *)
Boost ==
  /\ stage = "boost"
  /\ ceiling' = IF Has("boost") /\ fused.boost
                THEN [ceiling EXCEPT ![Len(board.floor)] = board.boostCeiling] ELSE ceiling
  /\ stage' = "done"
  /\ UNCHANGED <<board, fused, isCold, part, fuseVolt, floor, ol, coldOl, quot>>

TableNext == Parse \/ FuseVoltages \/ OpenLoop \/ Limit \/ LimitFloor \/ Quotients \/ Boost
TableSpec == TableInit /\ [][TableNext]_tableVars

-----------------------------------------------------------------------------
(* What CprController relies on, whatever the fuses: no open-loop voltage  *)
(* lies outside its corner's floor and ceiling, both it and the floor are  *)
(* what the supply can be set to, no ceiling passes the device tree's (or  *)
(* the boost ceiling), and a higher corner never has a lower floor, nor,   *)
(* without the misc adjustment, a lower open-loop voltage.                 *)
TablesServe ==
  stage = "done" =>
    \A c \in CornerSet :
      /\ floor[c] <= ol[c] /\ ol[c] <= ceiling[c]
      /\ floor[c] % board.step = 0 /\ ol[c] % board.step = 0
      /\ \/ \E d \in 1 .. c : ceiling[c] <= Round(board.ceiling[d])
         \/ Has("boost") /\ c = Len(board.floor) /\ ceiling[c] = board.boostCeiling
      /\ \A d \in 1 .. c : floor[d] <= floor[c] /\ (board.misc = <<>> => ol[d] <= ol[c])

(* The voltage of a corner is at least what the fuses ask for: on or above *)
(* the line between the adjusted voltages of the fuse corners around it,   *)
(* or at the ceiling of the device tree.                                   *)
Needs(c, volt) ==
  LET j == FuseOf(c)
      x1 == board.freq[Fmax(j - 1)]
      x2 == board.freq[Fmax(j)]
  IN IF j = 1 \/ ~(board.npu \/ Has("volt-interp")) THEN volt >= fuseVolt[j]
     ELSE (x2 - x1) * (volt - fuseVolt[j - 1])
            >= (board.freq[c] - x1) * (fuseVolt[j] - fuseVolt[j - 1])
VoltHonoured ==
  stage = "done" /\ board.adj = <<>> /\ board.misc = <<>> =>
    \A c \in CornerSet : Needs(c, ol[c]) \/ ol[c] >= Round(board.ceiling[c])

(* No quotient of a fuse corner leaves its word: none falls below zero,    *)
(* neither adjusted nor less its offset, and none outgrows the word.       *)
Unwrapped ==
  \A j \in FuseCorners :
    /\ fused.quot[j] + FuseAdjQuot(j, j) \in 0 .. Word - 1
    /\ j # 1 => Fused[j] + FuseAdjQuot(j, j) < Word
    /\ j # 1 /\ ~SameRo(j, j - 1) =>
         \A adj \in {0, FuseAdjQuot(j, j - 1)} :
           fused.quot[j] - fused.offset[j] * 5 + adj \in 0 .. Word - 1

(* The quotients do not fall from a corner to the next of the same         *)
(* oscillator, and without adjustments per corner the top corner of each   *)
(* fuse corner gets at least the fused quotient and its adjustment, unless *)
(* a quotient wrapped: then a low one may replace it.                      *)
QuotHonoured ==
  stage = "done" /\ ~board.npu /\ Has("quot-interp") =>
    /\ \A c \in CornerSet \ {1} : SameRo(FuseOf(c - 1), FuseOf(c)) => quot[c - 1] <= quot[c]
    /\ board.cl = <<>> /\ board.misc = <<>> /\ Unwrapped =>
         \A j \in FuseCorners : quot[Fmax(j)] >= fused.quot[j] + FuseAdjQuot(j, j)

(* Every corner gets the voltage and the quotients that the fuses ask for. *)
FuseHonoured == VoltHonoured /\ QuotHonoured
=============================================================================
