-------------------------- MODULE CprControllerProofs --------------------------
(***************************************************************************)
(* Proofs about CprController, for any boards, regulators and tables: no   *)
(* voltage outside the tables is asked for, the memory arrays are fed by   *)
(* the right rail, VDD suits every regulator once an update has succeeded, *)
(* what the loop learned stays in its corner's range, the loop runs on     *)
(* current targets, who is on holds a reference on its supplies, and the   *)
(* rails move in the order the direction asks for.  And about CprTables,   *)
(* for any fitting device trees and any fuses: the tables are in order,    *)
(* and no corner is below what the fuses and the margins ask for.          *)
(***************************************************************************)
EXTENDS CprController, CprTables, FiniteSetTheorems, SequenceTheorems, WellFoundedInduction, TLAPS

-----------------------------------------------------------------------------
(* Lemmas about the operators.                                             *)

\* A non-empty set of voltages has a highest one.
LEMMA HasMax ==
  ASSUME NEW S \in SUBSET Volts, S # {} PROVE \E x \in S : \A y \in S : y <= x
<1> DEFINE T == {MaxVolt - x : x \in S}
           Less == OpToRel(<, Nat)
<1>1. MaxVolt \in Nat BY TableOK
<1>2. T \subseteq Nat /\ T # {}
  <2>1. \A x \in S : x \in Int /\ x <= MaxVolt BY <1>1 DEF Volts
  <2>2. T \subseteq Nat BY <1>1, <2>1
  <2>3. QED BY <2>2
<1>3. IsWellFoundedOn(Less, Nat) BY NatLessThanWellFounded
<1>4. \A x, y \in Nat : y < x => <<y, x>> \in Less BY DEF OpToRel
<1> HIDE DEF Less
<1>5. PICK m \in T : \A y \in T : ~(<<y, m>> \in Less) BY <1>2, <1>3, WFMin
<1>6. ASSUME NEW y \in T PROVE m <= y
  <2>1. y \in Nat /\ m \in Nat BY <1>2
  <2>2. ~(y < m) BY <1>4, <1>5, <2>1
  <2>3. QED BY <2>1, <2>2
<1>7. PICK x \in S : m = MaxVolt - x BY <1>5
<1>8. ASSUME NEW y \in S PROVE y <= x
  <2>1. m <= MaxVolt - y BY <1>6
  <2>2. x \in Int /\ y \in Int BY <1>1 DEF Volts
  <2>3. QED BY <1>1, <1>7, <2>1, <2>2
<1>9. QED BY <1>8

\* MaxOf is a voltage; of a non-empty set it is the highest.
LEMMA MaxType ==
  ASSUME NEW S \in SUBSET Volts
  PROVE /\ MaxOf(S) \in Volts
        /\ S # {} => MaxOf(S) \in S /\ \A y \in S : y <= MaxOf(S)
<1>1. CASE S = {} BY <1>1, TableOK DEF MaxOf, Volts
<1>2. CASE S # {}
  <2>1. \E x \in S : \A y \in S : y <= x BY <1>2, HasMax
  <2>2. MaxOf(S) = CHOOSE x \in S : \A y \in S : y <= x BY <1>2 DEF MaxOf
  <2>3. MaxOf(S) \in S /\ \A y \in S : y <= MaxOf(S) BY <2>1, <2>2
  <2>4. QED BY <2>3
<1>3. QED BY <1>1, <1>2

\* A regulator at a corner: what its table and the loop say of it.
LEMMA AtCorner ==
  ASSUME TypeOK, NEW v \in Valid
  PROVE /\ v \in Vregs /\ v \in on /\ corner[v] \in Corners(v)
        /\ At(v) \in Corner
        /\ At(v).floor <= At(v).ol /\ At(v).ol <= At(v).ceil
        /\ last[v][corner[v]] \in Volts
<1>1. v \in Vregs /\ v \in on /\ corner[v] # 0 BY DEF Valid, TypeOK
<1>2. corner[v] \in Corners(v) BY <1>1 DEF TypeOK
<1>3. Table[v] \in Seq(Corner) BY <1>1, TableOK
<1>4. At(v) \in Corner BY <1>2, <1>3 DEF At, Corners
<1>5. At(v).floor <= At(v).ol /\ At(v).ol <= At(v).ceil
  BY <1>1, <1>2, TableOK DEF At, Corners
<1>6. last[v][corner[v]] \in Volts BY <1>1, <1>2 DEF TypeOK
<1>7. QED BY <1>1, <1>2, <1>4, <1>5, <1>6

\* An aggregate is made of voltages.
LEMMA AggrType ==
  ASSUME TypeOK, NEW S \in SUBSET Valid PROVE AggrOf(S) \in Aggr
<1>1. ASSUME NEW v \in S
      PROVE /\ At(v).floor \in Volts /\ At(v).ceil \in Volts /\ At(v).ol \in Volts
            /\ At(v).acc \in Volts /\ At(v).sys \in Volts /\ At(v).quot \in Volts
            /\ last[v][corner[v]] \in Volts
  BY AtCorner DEF Corner
<1>2. /\ {At(v).floor : v \in S} \in SUBSET Volts
      /\ {At(v).ceil : v \in S} \in SUBSET Volts
      /\ {last[v][corner[v]] : v \in S} \in SUBSET Volts
      /\ {At(v).ol : v \in S} \in SUBSET Volts
      /\ {At(v).acc : v \in S} \in SUBSET Volts
      /\ {At(v).sys : v \in S} \in SUBSET Volts
      /\ {At(v).quot : v \in S} \in SUBSET Volts
  BY <1>1
<1>3. /\ MaxOf({At(v).floor : v \in S}) \in Volts
      /\ MaxOf({At(v).ceil : v \in S}) \in Volts
      /\ MaxOf({last[v][corner[v]] : v \in S}) \in Volts
      /\ MaxOf({At(v).ol : v \in S}) \in Volts
      /\ MaxOf({At(v).acc : v \in S}) \in Volts
      /\ MaxOf({At(v).sys : v \in S}) \in Volts
      /\ MaxOf({At(v).quot : v \in S}) \in Volts
  BY <1>2, MaxType
<1>4. (\E v \in S : Boosting(v)) \in BOOLEAN OBVIOUS
<1>5. QED BY <1>3, <1>4 DEF AggrOf, Aggr

\* VDD at x suits every regulator that is on: what Enough asks for.
Suits(x) == (\A v \in Valid : At(v).floor <= x) /\ \E v \in Valid : x <= At(v).ceil

\* The range of an aggregate suits them, and its voltage is within.
FitsIn(a) ==
  /\ \A v \in Valid : At(v).floor <= a.floor
  /\ \E v \in Valid : a.ceil <= At(v).ceil
  /\ a.floor <= a.last /\ a.last <= a.ceil

\* The aggregate of the regulators that are on, at any voltage chosen for it, fits.
LEMMA AggrFits ==
  ASSUME TypeOK, LastInRange, Valid # {}, NEW new \in NewVolts(Aggregate)
  PROVE /\ new \in Volts /\ FitsIn([Aggregate EXCEPT !.last = new])
        /\ [Aggregate EXCEPT !.last = new] \in Aggr
<1> DEFINE a == Aggregate
           Floors == {At(v).floor : v \in Valid}
           Ceils == {At(v).ceil : v \in Valid}
           Lasts == {last[v][corner[v]] : v \in Valid}
           Ols == {At(v).ol : v \in Valid}
<1>1. a \in Aggr BY AggrType DEF Aggregate
<1>2. ASSUME NEW v \in Valid
      PROVE /\ {At(v).floor, At(v).ceil, At(v).ol, last[v][corner[v]]} \subseteq Volts
            /\ At(v).floor <= At(v).ol /\ At(v).ol <= At(v).ceil
            /\ At(v).floor <= last[v][corner[v]] /\ last[v][corner[v]] <= At(v).ceil
  <2>1. /\ v \in Vregs /\ corner[v] \in Corners(v) /\ At(v) \in Corner
        /\ At(v).floor <= At(v).ol /\ At(v).ol <= At(v).ceil /\ last[v][corner[v]] \in Volts
    BY AtCorner
  <2>2. last[v][corner[v]] \in At(v).floor .. At(v).ceil BY <2>1 DEF LastInRange, At
  <2>3. QED BY <2>1, <2>2, TableOK DEF Corner, Volts
<1>3. Floors \in SUBSET Volts /\ Ceils \in SUBSET Volts /\ Lasts \in SUBSET Volts /\ Ols \in SUBSET Volts
  BY <1>2
<1>4. Floors # {} /\ Ceils # {} /\ Lasts # {} /\ Ols # {} OBVIOUS
<1>5. a.floor = MaxOf(Floors) /\ a.ceil = MaxOf(Ceils) /\ a.last = MaxOf(Lasts) /\ a.ol = MaxOf(Ols)
  BY DEF Aggregate, AggrOf
<1>6. a.floor \in Floors /\ \A v \in Valid : At(v).floor <= a.floor BY <1>3, <1>4, <1>5, MaxType
<1>7. a.ceil \in Ceils /\ \A v \in Valid : At(v).ceil <= a.ceil BY <1>3, <1>4, <1>5, MaxType
<1>8. a.last \in Lasts /\ \A v \in Valid : last[v][corner[v]] <= a.last BY <1>3, <1>4, <1>5, MaxType
<1>9. a.ol \in Ols /\ \A v \in Valid : At(v).ol <= a.ol BY <1>3, <1>4, <1>5, MaxType
<1> HIDE DEF a, Floors, Ceils, Lasts, Ols
<1>10. a.floor \in Int /\ a.ceil \in Int /\ a.last \in Int /\ a.ol \in Int
  BY <1>1, TableOK DEF Aggr, Volts
<1>11. PICK f \in Valid : a.floor = At(f).floor BY <1>6 DEF Floors
<1>12. a.floor <= a.ol /\ a.floor <= a.last
  BY <1>2, <1>8, <1>9, <1>10, <1>11, TableOK DEF Volts
<1>13. PICK o \in Valid : a.ol = At(o).ol BY <1>9 DEF Ols
<1>14. a.ol <= a.ceil BY <1>2, <1>7, <1>10, <1>13, TableOK DEF Volts
<1>15. PICK l \in Valid : a.last = last[l][corner[l]] BY <1>8 DEF Lasts
<1>16. a.last <= a.ceil BY <1>2, <1>7, <1>10, <1>15, TableOK DEF Volts
<1>17. conf.spread \in Nat BY TableOK DEF TypeOK, Config, Volts
<1>18. new = a.ol \/ new = a.last \/ \E d \in Nat : new = MinOf(a.last + d, a.ceil)
  BY <1>17 DEF NewVolts, a
<1>19. new \in Int /\ a.floor <= new /\ new <= a.ceil
  BY <1>10, <1>12, <1>14, <1>16, <1>18 DEF MinOf
<1>20. a.floor \in Volts /\ a.ceil \in Volts BY <1>1 DEF Aggr
<1>21. new \in Volts BY <1>19, <1>20, TableOK DEF Volts
<1>22. [a EXCEPT !.last = new] \in Aggr BY <1>1, <1>21 DEF Aggr
<1>23. \E v \in Valid : a.ceil <= At(v).ceil
  <2>1. PICK c \in Valid : a.ceil = At(c).ceil BY <1>7 DEF Ceils
  <2>2. QED BY <1>10, <2>1
<1>24. LET b == [a EXCEPT !.last = new] IN b.floor = a.floor /\ b.ceil = a.ceil /\ b.last = new
  BY <1>1 DEF Aggr
<1>25. FitsIn([a EXCEPT !.last = new]) BY <1>6, <1>19, <1>23, <1>24 DEF FitsIn
<1>26. QED BY <1>21, <1>22, <1>25 DEF a

-----------------------------------------------------------------------------
(* What is left of a walk.                                                 *)

Quiet(w) == w.what \notin {"vdd", "apm"}
IsVdd(p, k, x) == k \in 1 .. Len(p) /\ p[k].what = "vdd" /\ p[k].val = x
IsApm(p, k, x) == k \in 1 .. Len(p) /\ p[k].what = "apm" /\ p[k].val = x
\* Outside the n writes from the first on, no write is to VDD or the mux.
Only(p, first, n) == \A k \in 1 .. Len(p) : k < first \/ k >= first + n => Quiet(p[k])

\* Only the last write of VDD, with the switch of the mux before it, or with the stop
\* at the threshold before that.
One(p, i, to) == IsVdd(p, i, to) /\ Only(p, i, 1)
Two(p, i, to) == IsApm(p, i, to) /\ IsVdd(p, i + 1, to) /\ Only(p, i, 2)
Three(p, i, to) ==
  IsVdd(p, i, conf.thr) /\ IsApm(p, i + 1, to) /\ IsVdd(p, i + 2, to) /\ Only(p, i, 3)

Quiets == {w \in Writes : Quiet(w)}

LEMMA OneShape ==
  ASSUME NEW X \in Seq(Quiets), NEW Z \in Seq(Quiets), NEW w \in Writes, w.what = "vdd"
  PROVE LET p == (X \o <<w>>) \o Z
        IN p \in Seq(Writes) /\ \E i \in 1 .. Len(p) : One(p, i, w.val)
<1> DEFINE p == (X \o <<w>>) \o Z
           i == Len(X) + 1
<1>1. X \in Seq(Writes) /\ Z \in Seq(Writes) BY DEF Quiets
<1>2. p \in Seq(Writes) BY <1>1
<1>3. Len(p) = Len(X) + 1 + Len(Z) /\ i \in 1 .. Len(p) BY <1>1
<1>4. \A k \in 1 .. Len(X) : p[k] = X[k] BY <1>1
<1>5. p[i] = w BY <1>1
<1>6. \A k \in i + 1 .. Len(p) : p[k] = Z[k - i] BY <1>1, <1>3
<1>7. \A k \in 1 .. Len(X) : Quiet(X[k]) BY DEF Quiets
<1>8. \A k \in 1 .. Len(Z) : Quiet(Z[k]) BY DEF Quiets
<1>9. Only(p, i, 1)
  <2>1. ASSUME NEW k \in 1 .. Len(p), k < i \/ k >= i + 1 PROVE Quiet(p[k])
    <3>1. CASE k < i BY <1>1, <1>4, <1>7, <3>1
    <3>2. CASE k >= i + 1
      <4>1. k - i \in 1 .. Len(Z) BY <1>1, <1>3, <3>2
      <4>2. p[k] = Z[k - i] BY <1>1, <1>3, <1>6, <3>2
      <4>3. QED BY <1>8, <4>1, <4>2
    <3>3. QED BY <2>1, <3>1, <3>2
  <2>2. QED BY <2>1 DEF Only
<1>10. QED BY <1>2, <1>3, <1>5, <1>9 DEF One, IsVdd

LEMMA ThreeShape ==
  ASSUME NEW X \in Seq(Quiets), NEW Z \in Seq(Quiets),
         NEW u \in Writes, u.what = "vdd", u.val = conf.thr,
         NEW m \in Writes, m.what = "apm",
         NEW w \in Writes, w.what = "vdd", w.val = m.val
  PROVE LET p == ((X \o <<u, m>>) \o <<w>>) \o Z
        IN p \in Seq(Writes) /\ \E i \in 1 .. Len(p) : Three(p, i, w.val)
<1> DEFINE p == ((X \o <<u, m>>) \o <<w>>) \o Z
           i == Len(X) + 1
<1>1. X \in Seq(Writes) /\ Z \in Seq(Writes) BY DEF Quiets
<1>2. p \in Seq(Writes) BY <1>1
<1>3. Len(p) = Len(X) + 3 + Len(Z) /\ i \in 1 .. Len(p) BY <1>1
<1>4. \A k \in 1 .. Len(X) : p[k] = X[k] BY <1>1
<1>5. p[i] = u /\ p[i + 1] = m /\ p[i + 2] = w BY <1>1
<1>6. \A k \in i + 3 .. Len(p) : p[k] = Z[k - (i + 2)] BY <1>1, <1>3
<1>7. \A k \in 1 .. Len(X) : Quiet(X[k]) BY DEF Quiets
<1>8. \A k \in 1 .. Len(Z) : Quiet(Z[k]) BY DEF Quiets
<1>9. Only(p, i, 3)
  <2>1. ASSUME NEW k \in 1 .. Len(p), k < i \/ k >= i + 3 PROVE Quiet(p[k])
    <3>1. CASE k < i BY <1>1, <1>4, <1>7, <3>1
    <3>2. CASE k >= i + 3
      <4>1. k - (i + 2) \in 1 .. Len(Z) BY <1>1, <1>3, <3>2
      <4>2. p[k] = Z[k - (i + 2)] BY <1>1, <1>3, <1>6, <3>2
      <4>3. QED BY <1>8, <4>1, <4>2
    <3>3. QED BY <2>1, <3>1, <3>2
  <2>2. QED BY <2>1 DEF Only
<1>10. i + 1 \in 1 .. Len(p) /\ i + 2 \in 1 .. Len(p) BY <1>1, <1>3
<1>11. QED BY <1>2, <1>3, <1>5, <1>9, <1>10 DEF Three, IsVdd, IsApm

\* The walk laid out by Scale: across the threshold it stops there and switches the mux.
LEMMA ScaleShape ==
  ASSUME conf \in Config, NEW from \in Volts, NEW to \in Volts, NEW a \in Aggr
  PROVE LET p == Scale(from, to, a)
        IN /\ p \in Seq(Writes)
           /\ \E i \in 1 .. Len(p) : IF Crosses(from, to) THEN Three(p, i, to) ELSE One(p, i, to)
<1> DEFINE Acc == AccWrites(a)
           Sys == SystemWrites(a)
           X == IF to < from THEN Acc ELSE Sys
           at == IF Crosses(from, to) THEN conf.thr ELSE from
           Z == IF to >= at THEN Acc ELSE Sys
           u == Write("vdd", conf.thr, 0)
           m == Write("apm", to, from)
           w == Write("vdd", to, 0)
           p == Scale(from, to, a)
<1>1. 0 \in Volts /\ conf.thr \in Volts /\ a.acc \in Volts /\ a.sys \in Volts
  BY TableOK DEF Volts, Config, Aggr
<1>2. Acc \in Seq(Quiets)
  <2>1. Write("acc", a.acc, 0) \in Quiets BY <1>1 DEF Write, Writes, Quiets, Quiet
  <2>2. QED BY <2>1 DEF AccWrites
<1>3. Sys \in Seq(Quiets)
  <2>1. Write("sys", a.sys, 0) \in Quiets BY <1>1 DEF Write, Writes, Quiets, Quiet
  <2>2. QED BY <2>1 DEF SystemWrites
<1>4. X \in Seq(Quiets) /\ Z \in Seq(Quiets) BY <1>2, <1>3
<1>5. u \in Writes /\ m \in Writes /\ w \in Writes BY <1>1 DEF Write, Writes
<1>6. /\ u.what = "vdd" /\ u.val = conf.thr /\ m.what = "apm" /\ m.val = to
      /\ w.what = "vdd" /\ w.val = to
  BY DEF Write
<1>7. CASE Crosses(from, to)
  <2>1. p = ((X \o <<u, m>>) \o <<w>>) \o Z BY <1>7 DEF Scale, SwitchApm
  <2> HIDE DEF X, Z, u, m, w, p
  <2>2. QED BY <1>4, <1>5, <1>6, <1>7, <2>1, ThreeShape DEF p
<1>8. CASE ~Crosses(from, to)
  <2>1. p = ((X \o <<>>) \o <<w>>) \o Z BY <1>8 DEF Scale
  <2>2. X \o <<>> = X BY <1>4
  <2>3. p = (X \o <<w>>) \o Z BY <2>1, <2>2
  <2> HIDE DEF X, Z, u, m, w, p
  <2>4. QED BY <1>4, <1>5, <1>6, <1>8, <2>3, OneShape DEF p
<1>9. QED BY <1>7, <1>8

-----------------------------------------------------------------------------
(* Every variable keeps its type.                                          *)

LEMMA ConfType == ASSUME TypeOK PROVE conf \in Config
BY TableOK DEF TypeOK

LEMMA InitType == Init => TypeOK
<1> SUFFICES ASSUME Init PROVE TypeOK OBVIOUS
<1>1. conf \in Config BY TableOK DEF Init
<1>2. 0 \in Volts /\ 0 \in 0 .. MaxModes /\ 0 \in 0 .. MaxFaults BY TableOK DEF Volts
<1>3. ASSUME NEW v \in Vregs
      PROVE last[v] = [c \in Corners(v) |-> Table[v][c].ol] /\ last[v] \in [Corners(v) -> Volts]
  <2>1. Table[v] \in Seq(Corner) BY TableOK
  <2>2. \A c \in Corners(v) : Table[v][c] \in Corner BY <2>1 DEF Corners
  <2>3. \A c \in Corners(v) : Table[v][c].ol \in Volts BY <2>2 DEF Corner
  <2>4. QED BY <2>3 DEF Init
<1>4. NoAggr \in Aggr BY <1>2 DEF NoAggr, Aggr
<1>5. (CHOOSE v \in Vregs : TRUE) \in Vregs BY TableOK
<1>6. job \in [kind : Kinds, v : Vregs, old : Nat, stage : {"update", "scale", "ok", "failed"}]
      /\ job.old = 0
  BY <1>5 DEF Init, Idle, Kinds
<1>7. plan \in Seq(Writes) BY DEF Init
<1>8. supply \in [vdd : Volts, high : BOOLEAN, acc : Volts, sys : Volts]
  BY <1>2, TableOK DEF Init
<1>9. cpr \in [enabled : BOOLEAN, was : BOOLEAN, allowed : BOOLEAN, suspended : BOOLEAN,
               modes : 0 .. MaxModes]
  BY <1>1, <1>2 DEF Init, Config
<1>10. /\ refs \in [vdd : Int, sys : Int]
       /\ chip \in [loop : BOOLEAN, irqEn : SUBSET Dirs, pending : Dirs \cup {"none"}, quot : Volts]
  BY <1>2 DEF Init
<1>11. corner \in [Vregs -> Nat] /\ lastCl \in [Vregs -> Nat]
       /\ \A v \in Vregs : {corner[v], lastCl[v]} \subseteq {0} \cup Corners(v)
  BY DEF Init
<1>12. DOMAIN last = Vregs BY DEF Init
<1>13. QED BY <1>2, <1>3, <1>4, <1>6, <1>7, <1>8, <1>9, <1>10, <1>11, <1>12 DEF Init, TypeOK

\* What the loop learned is kept where it is within the corner's range.
LEMMA LastStep == TypeOK /\ LastInRange /\ [Next]_vars => LastInRange'
<1> SUFFICES ASSUME TypeOK, LastInRange, [Next]_vars PROVE LastInRange' OBVIOUS
<1>1. CASE UNCHANGED last BY <1>1 DEF LastInRange
<1>2. CASE IrqDone /\ last' = [v \in Vregs |-> Settled(v, next.last)]
  <2>1. ASSUME NEW v \in Vregs, NEW c \in Corners(v)
        PROVE last'[v][c] \in Table[v][c].floor .. Table[v][c].ceil
    <3>1. last[v] \in [Corners(v) -> Volts] BY DEF TypeOK
    <3>2. last[v][c] \in Table[v][c].floor .. Table[v][c].ceil BY DEF LastInRange
    <3>3. last'[v] = Settled(v, next.last) BY <1>2
    <3>4. QED BY <3>1, <3>2, <3>3 DEF Settled
  <2>2. QED BY <2>1 DEF LastInRange
<1>3. last' = last \/ (IrqDone /\ last' = [v \in Vregs |-> Settled(v, next.last)])
  BY DEF Next, Locked, Update, UpdateFails, ClocksFail, MakeWrite, WriteFails, Commit, Return,
         IrqDone, SetVoltage, EnableVreg, DisableVreg, Suspend, Resume, ToggleClosedLoop,
         HwRaise, IrqSpurious, Irq, vars
<1>4. QED BY <1>1, <1>2, <1>3

\* One step of the loop stays a voltage, and in the range of the aggregate if it has one.
LEMMA TowardType ==
  ASSUME aggr \in Aggr, NEW up \in BOOLEAN
  PROVE /\ Toward(aggr.last, up) \in Volts
        /\ aggr.floor <= aggr.ceil =>
             aggr.floor <= Toward(aggr.last, up) /\ Toward(aggr.last, up) <= aggr.ceil
<1> DEFINE x == IF up THEN aggr.last + 1 ELSE aggr.last - 1
           S == {aggr.floor, x}
           y == MaxOf(S)
<1>1. aggr.floor \in 0 .. MaxVolt /\ aggr.ceil \in 0 .. MaxVolt /\ aggr.last \in Int
  BY TableOK DEF Aggr, Volts
<1>2. x \in Int BY <1>1
<1>3. y \in S /\ \A z \in S : z <= y
  <2>1. \E z \in S : \A s \in S : s <= z
    <3>1. CASE x <= aggr.floor BY <1>1, <3>1
    <3>2. CASE x > aggr.floor BY <1>1, <1>2, <3>2
    <3>3. QED BY <1>1, <1>2, <3>1, <3>2
  <2>2. y = CHOOSE z \in S : \A s \in S : s <= z BY DEF MaxOf
  <2>3. QED BY <2>1, <2>2
<1>4. y \in Int /\ aggr.floor <= y BY <1>1, <1>2, <1>3
<1>5. Toward(aggr.last, up) = MinOf(y, aggr.ceil) BY DEF Toward
<1> HIDE DEF y
<1>6. MaxVolt \in Nat BY TableOK
<1>7. MinOf(y, aggr.ceil) \in {y, aggr.ceil} /\ MinOf(y, aggr.ceil) <= aggr.ceil
  BY <1>1, <1>4 DEF MinOf
<1>8. aggr.floor <= aggr.ceil => aggr.floor <= MinOf(y, aggr.ceil) BY <1>1, <1>4, <1>7
<1>9. MinOf(y, aggr.ceil) \in 0 .. MaxVolt BY <1>1, <1>4, <1>6, <1>7
<1>10. QED BY <1>5, <1>7, <1>8, <1>9 DEF Volts

\* What the handlers set keeps its type, action by action.
LEMMA TypeStep == TypeOK /\ LastInRange /\ [Next]_vars => TypeOK'
<1> SUFFICES ASSUME TypeOK, LastInRange, [Next]_vars PROVE TypeOK' OBVIOUS
<1> DEFINE JobT == [kind : Kinds, v : Vregs, old : Nat, stage : {"update", "scale", "ok", "failed"}]
           ChipT == [loop : BOOLEAN, irqEn : SUBSET Dirs, pending : Dirs \cup {"none"}, quot : Volts]
<1>0. conf \in Config BY ConfType
<1>a. Idle \in JobT /\ Idle.old = 0 /\ NoAggr \in Aggr
  <2>1. (CHOOSE v \in Vregs : TRUE) \in Vregs BY TableOK
  <2>2. 0 \in Volts BY TableOK DEF Volts
  <2>3. QED BY <2>1, <2>2 DEF Idle, Kinds, NoAggr, Aggr
<1>b. /\ job \in JobT /\ job.old \in {0} \cup Corners(job.v) /\ chip \in ChipT
      /\ Stopped \in ChipT /\ Answered \in ChipT
  BY DEF TypeOK, Stopped, Answered
<1>c. ASSUME NEW kind \in Kinds, NEW v \in Vregs, NEW old \in {0} \cup Corners(v), Take(kind, v, old)
      PROVE job' \in JobT /\ job'.old \in {0} \cup Corners(job'.v)
  BY <1>c DEF Take, Corners
<1>d. Release => job' \in JobT /\ job'.old = 0 /\ next' \in Aggr /\ plan' = plan
  BY <1>a DEF Release
<1>e. ASSUME faults' = faults \/ (faults < MaxFaults /\ faults' = faults + 1)
      PROVE faults' \in 0 .. MaxFaults
  BY <1>e, TableOK DEF TypeOK
<1>f. ASSUME NEW modes \in 0 .. MaxModes, NEW e \in BOOLEAN, NEW a \in BOOLEAN, NEW s \in BOOLEAN,
             cpr' = [cpr EXCEPT !.enabled = e, !.allowed = a, !.suspended = s, !.modes = modes]
      PROVE cpr' \in [enabled : BOOLEAN, was : BOOLEAN, allowed : BOOLEAN, suspended : BOOLEAN,
                      modes : 0 .. MaxModes]
  BY <1>f DEF TypeOK
<1>g. /\ {cpr.enabled, cpr.allowed, cpr.suspended} \subseteq BOOLEAN
      /\ cpr.modes \in 0 .. MaxModes /\ (cpr.modes < MaxModes => cpr.modes + 1 \in 0 .. MaxModes)
  BY TableOK DEF TypeOK
<1>1. CASE Update
  <2>1. UNCHANGED <<conf, corner, on, lastCl, last, aggr, supply, refs, due, faults, clean>>
    BY <1>1 DEF Update
  <2>2. counted' \subseteq Vregs BY <1>1 DEF Update, Valid, TypeOK
  <2>3. cpr' \in [enabled : BOOLEAN, was : BOOLEAN, allowed : BOOLEAN, suspended : BOOLEAN,
                  modes : 0 .. MaxModes]
    BY <1>1 DEF Update, TypeOK, Enabled
  <2>4. chip' \in ChipT BY <1>1, <1>b DEF Update
  <2>5. job' \in JobT /\ job'.old = job.old /\ job'.v = job.v BY <1>1, <1>b DEF Update
  <2>6. next' \in Aggr /\ plan' \in Seq(Writes)
    <3>1. CASE Valid = {} BY <1>1, <3>1 DEF Update, TypeOK
    <3>2. CASE Valid # {}
      <4>1. PICK new \in NewVolts(Aggregate) : /\ next' = [Aggregate EXCEPT !.last = new]
                                               /\ plan' = Scale(supply.vdd, new, Aggregate)
        BY <1>1, <3>2 DEF Update
      <4>2. new \in Volts /\ next' \in Aggr BY <3>2, <4>1, AggrFits
      <4>3. Aggregate \in Aggr /\ supply.vdd \in Volts BY AggrType DEF Aggregate, TypeOK
      <4>4. plan' \in Seq(Writes) BY <1>0, <4>1, <4>2, <4>3, ScaleShape
      <4>5. QED BY <4>2, <4>4
    <3>3. QED BY <3>1, <3>2
  <2>7. QED BY <1>b, <2>1, <2>2, <2>3, <2>4, <2>5, <2>6 DEF TypeOK, Corners
<1>2. CASE UpdateFails
  <2>1. chip' \in ChipT BY <1>2, <1>b DEF UpdateFails
  <2>2. job' \in JobT /\ job'.old = job.old /\ job'.v = job.v BY <1>2, <1>b DEF UpdateFails
  <2>3. faults' \in 0 .. MaxFaults BY <1>2, TableOK DEF UpdateFails, TypeOK
  <2>4. QED BY <1>2, <1>b, <2>1, <2>2, <2>3 DEF UpdateFails, TypeOK, Corners
<1>3. CASE ClocksFail
  <2>1. counted' \subseteq Vregs BY <1>3 DEF ClocksFail, Valid, TypeOK
  <2>2. job' \in JobT /\ job'.old = job.old /\ job'.v = job.v BY <1>3, <1>b DEF ClocksFail
  <2>3. faults' \in 0 .. MaxFaults BY <1>3, TableOK DEF ClocksFail, TypeOK
  <2>4. QED BY <1>3, <1>b, <2>1, <2>2, <2>3 DEF ClocksFail, TypeOK, Corners
<1>4. CASE MakeWrite
  <2>1. plan \in Seq(Writes) /\ plan # <<>> BY <1>4 DEF MakeWrite, TypeOK
  <2>2. Head(plan) \in Writes /\ Tail(plan) \in Seq(Writes) BY <2>1
  <2>3. supply' \in [vdd : Volts, high : BOOLEAN, acc : Volts, sys : Volts]
    <3> DEFINE w == Head(plan)
    <3>1. w.val \in Volts /\ w.what \in {"vdd", "apm", "acc", "sys"} BY <2>2 DEF Writes
    <3>2. supply' = Applied(w) BY <1>4 DEF MakeWrite
    <3>3. supply \in [vdd : Volts, high : BOOLEAN, acc : Volts, sys : Volts] BY DEF TypeOK
    <3>4. (w.val >= conf.thr) \in BOOLEAN OBVIOUS
    <3> HIDE DEF w
    <3>5. CASE w.what = "vdd" BY <3>1, <3>2, <3>3, <3>5 DEF Applied
    <3>6. CASE w.what = "apm" BY <3>1, <3>2, <3>3, <3>4, <3>6 DEF Applied
    <3>7. CASE w.what = "acc" BY <3>1, <3>2, <3>3, <3>7 DEF Applied
    <3>8. CASE w.what = "sys" BY <3>1, <3>2, <3>3, <3>8 DEF Applied
    <3>9. QED BY <3>1, <3>5, <3>6, <3>7, <3>8
  <2>4. QED BY <1>4, <2>2, <2>3 DEF MakeWrite, TypeOK, Corners
<1>5. CASE WriteFails
  <2>1. Head(plan) \in Writes BY <1>5 DEF WriteFails, TypeOK
  <2>2. supply' \in [vdd : Volts, high : BOOLEAN, acc : Volts, sys : Volts]
    <3> DEFINE w == Head(plan)
    <3>1. w.back \in Volts BY <2>1 DEF Writes
    <3>2. supply \in [vdd : Volts, high : BOOLEAN, acc : Volts, sys : Volts] BY DEF TypeOK
    <3>3. CASE w.what # "apm" BY <1>5, <3>2, <3>3 DEF WriteFails
    <3>4. CASE w.what = "apm"
      <4>1. PICK high \in {supply.high, w.val >= conf.thr}, vdd \in {supply.vdd, w.back} :
              supply' = [supply EXCEPT !.high = high, !.vdd = vdd]
        BY <1>5, <3>4 DEF WriteFails
      <4>2. supply.high \in BOOLEAN /\ (w.val >= conf.thr) \in BOOLEAN BY <3>2
      <4>3. high \in BOOLEAN BY <4>2, Zenon
      <4>4. vdd \in Volts BY <3>1, <3>2
      <4>5. QED BY <3>2, <4>1, <4>3, <4>4
    <3>5. QED BY <3>3, <3>4
  <2>3. job' \in JobT /\ job'.old = job.old /\ job'.v = job.v BY <1>5, <1>b DEF WriteFails
  <2>4. faults' \in 0 .. MaxFaults
    <3>1. faults \in Nat /\ MaxFaults \in Nat /\ faults < MaxFaults /\ faults' = faults + 1
      BY <1>5, TableOK DEF WriteFails, TypeOK
    <3>2. QED BY <3>1
  <2>5. plan' \in Seq(Writes) BY <1>5 DEF WriteFails
  <2>6. QED BY <1>5, <1>b, <2>2, <2>3, <2>4, <2>5 DEF WriteFails, TypeOK, Corners
<1>6. CASE Commit
  <2> DEFINE set == IF cpr.enabled THEN Programmed(next) ELSE chip
  <2>1. UNCHANGED <<conf, corner, on, counted, last, supply, refs, due, next, plan>>
    BY <1>6 DEF Commit
  <2>2. next \in Aggr BY DEF TypeOK
  <2>3. set \in ChipT /\ set.irqEn \in SUBSET Dirs BY <1>b, <2>2 DEF Programmed, Aggr
  <2>4. lastCl' \in [Vregs -> Nat] /\ \A v \in Vregs : lastCl'[v] \in {lastCl[v], corner[v]}
    BY <1>6 DEF Commit, TypeOK
  <2>5. aggr' \in Aggr BY <1>6, <2>2, <2>3 DEF Commit, Aggr
  <2>6. chip' = set \/ \E x \in BOOLEAN : chip' = [set EXCEPT !.loop = x]
    BY <1>6, <2>3 DEF Commit, TypeOK
  <2>7. chip' \in ChipT BY <2>3, <2>6
  <2>8. cpr' = cpr \/ cpr' = [cpr EXCEPT !.was = cpr.enabled] BY <1>6 DEF Commit
  <2>9. cpr' \in [enabled : BOOLEAN, was : BOOLEAN, allowed : BOOLEAN, suspended : BOOLEAN,
                  modes : 0 .. MaxModes]
    BY <2>8 DEF TypeOK
  <2>10. job' \in JobT /\ job'.old = job.old /\ job'.v = job.v BY <1>6, <1>b DEF Commit
  <2>11. faults' \in 0 .. MaxFaults /\ clean' \in BOOLEAN BY <1>6, <1>e DEF Commit
  <2>12. \A v \in Vregs : {corner'[v], lastCl'[v]} \subseteq {0} \cup Corners(v)
    <3>1. \A v \in Vregs : {corner[v], lastCl[v]} \subseteq {0} \cup Corners(v) BY DEF TypeOK
    <3>2. QED BY <2>1, <2>4, <3>1
  <2> HIDE DEF set
  <2>13. QED BY <1>b, <2>1, <2>4, <2>5, <2>7, <2>9, <2>10, <2>11, <2>12 DEF TypeOK, Corners
<1>7. CASE Return
  <2>1. job' \in JobT /\ job'.old = 0 /\ next' \in Aggr /\ plan' = plan BY <1>7, <1>d DEF Return
  <2>2. corner' \in [Vregs -> Nat] /\ \A v \in Vregs : corner'[v] \in {0} \cup Corners(v)
    <3>1. job.v \in Vregs /\ job.old \in Nat /\ job.old \in {0} \cup Corners(job.v) BY <1>b
    <3>2. corner' = corner \/ corner' = [corner EXCEPT ![job.v] = job.old] BY <1>7 DEF Return
    <3>3. QED BY <3>1, <3>2 DEF TypeOK
  <2>3. on' \subseteq Vregs BY <1>7, <1>b DEF Return, TypeOK
  <2>4. refs' \in [vdd : Int, sys : Int] /\ faults' \in 0 .. MaxFaults
    <3>1. GiveBack \in [vdd : Int, sys : Int] BY DEF GiveBack, SysRef, TypeOK
    <3>2. refs \in [vdd : Int, sys : Int] BY DEF TypeOK
    <3>3. refs' \in {refs, GiveBack} BY <1>7 DEF Return
    <3>4. faults' \in 0 .. MaxFaults BY <1>7, <1>e DEF Return
    <3>5. QED BY <3>1, <3>2, <3>3, <3>4
  <2>5. QED BY <1>7, <2>1, <2>2, <2>3, <2>4 DEF Return, TypeOK, Corners
<1>8. CASE SetVoltage
  <2>1. PICK v \in conf.vregs : \E c \in Corners(v) :
          /\ corner' = [corner EXCEPT ![v] = c]
          /\ IF v \in on THEN Take("set", v, corner[v]) ELSE UNCHANGED job
    BY <1>8 DEF SetVoltage
  <2>2. v \in Vregs BY <1>0 DEF Config
  <2>3. corner' \in [Vregs -> Nat] /\ \A x \in Vregs : corner'[x] \in {0} \cup Corners(x)
    BY <2>1, <2>2 DEF TypeOK, Corners
  <2>4. corner[v] \in {0} \cup Corners(v) BY <2>2 DEF TypeOK
  <2>5. job' \in JobT /\ job'.old \in {0} \cup Corners(job'.v)
    BY <1>b, <1>c, <2>1, <2>2, <2>4 DEF Kinds
  <2>6. QED BY <1>8, <2>3, <2>5 DEF SetVoltage, TypeOK, Corners
<1>9. CASE EnableVreg
  <2>1. PICK v \in conf.vregs \ on :
          \/ on' = on \cup {v} /\ Take("enable", v, corner[v]) /\ faults' = faults
          \/ on' = on /\ job' = job /\ faults < MaxFaults /\ faults' = faults + 1
    BY <1>9 DEF EnableVreg
  <2>2. v \in Vregs BY <1>0 DEF Config
  <2>3. corner[v] \in {0} \cup Corners(v) BY <2>2 DEF TypeOK
  <2>4. job' \in JobT /\ job'.old \in {0} \cup Corners(job'.v)
    BY <1>b, <1>c, <2>1, <2>2, <2>3 DEF Kinds
  <2>5. on' \subseteq Vregs /\ faults' \in 0 .. MaxFaults BY <1>e, <2>1, <2>2 DEF TypeOK
  <2>6. SysRef \in Int BY DEF SysRef
  <2>7. refs' \in [vdd : Int, sys : Int]
    <3>1. refs \in [vdd : Int, sys : Int] BY DEF TypeOK
    <3>2. refs' = [vdd |-> refs.vdd + 1, sys |-> refs.sys + SysRef]
          \/ \E got \in {0, SysRef} : refs' = [refs EXCEPT !.sys = refs.sys + got]
      BY <1>9 DEF EnableVreg
    <3>3. QED BY <2>6, <3>1, <3>2
  <2>8. QED BY <1>9, <2>4, <2>5, <2>7 DEF EnableVreg, TypeOK, Corners
<1>10. CASE DisableVreg
  <2>1. PICK v \in on :
          \/ /\ on' = on \ {v} /\ Take("disable", v, corner[v]) /\ faults' = faults
             /\ refs' = [refs EXCEPT !.vdd = refs.vdd - 1]
          \/ refs' = refs /\ on' = on /\ job' = job /\ faults < MaxFaults /\ faults' = faults + 1
    BY <1>10 DEF DisableVreg
  <2>2. v \in Vregs BY DEF TypeOK
  <2>3. corner[v] \in {0} \cup Corners(v) BY <2>2 DEF TypeOK
  <2>4. job' \in JobT /\ job'.old \in {0} \cup Corners(job'.v)
    BY <1>b, <1>c, <2>1, <2>2, <2>3 DEF Kinds
  <2>5. on' \subseteq Vregs /\ faults' \in 0 .. MaxFaults BY <1>e, <2>1 DEF TypeOK
  <2>7. refs' \in [vdd : Int, sys : Int]
    <3>1. refs \in [vdd : Int, sys : Int] BY DEF TypeOK
    <3>2. QED BY <2>1, <3>1
  <2>8. QED BY <1>10, <2>4, <2>5, <2>7 DEF DisableVreg, TypeOK, Corners
<1>11. CASE Suspend
  <2>1. chip' \in ChipT BY <1>11, <1>b DEF Suspend
  <2>2. cpr' = cpr \/ (/\ cpr.modes < MaxModes
                       /\ cpr' = [cpr EXCEPT !.enabled = FALSE, !.suspended = TRUE,
                                             !.modes = cpr.modes + 1])
    BY <1>11 DEF Suspend
  <2>3. cpr' \in [enabled : BOOLEAN, was : BOOLEAN, allowed : BOOLEAN, suspended : BOOLEAN,
                  modes : 0 .. MaxModes]
    <3>1. CASE cpr' = cpr BY <3>1 DEF TypeOK
    <3>2. CASE cpr' # cpr
      <4>1. cpr' = [cpr EXCEPT !.enabled = FALSE, !.allowed = cpr.allowed, !.suspended = TRUE,
                               !.modes = cpr.modes + 1]
        BY <2>2, <3>2 DEF TypeOK
      <4>2. cpr.modes + 1 \in 0 .. MaxModes BY <1>g, <2>2, <3>2
      <4>3. QED BY <1>f, <1>g, <4>1, <4>2
    <3>3. QED BY <3>1, <3>2
  <2>4. faults' \in 0 .. MaxFaults BY <1>11, <1>e DEF Suspend
  <2>5. QED BY <1>11, <2>1, <2>3, <2>4 DEF Suspend, TypeOK, Corners
<1>12. CASE Resume
  <2>1. job' \in JobT /\ job'.old \in {0} \cup Corners(job'.v)
    BY <1>12, <1>b, <1>c DEF Resume, Kinds
  <2>2. cpr' \in [enabled : BOOLEAN, was : BOOLEAN, allowed : BOOLEAN, suspended : BOOLEAN,
                  modes : 0 .. MaxModes]
    BY <1>12 DEF Resume, TypeOK
  <2>3. QED BY <1>12, <2>1, <2>2 DEF Resume, TypeOK, Corners
<1>13. CASE ToggleClosedLoop
  <2>1. job' \in JobT /\ job'.old \in {0} \cup Corners(job'.v)
    BY <1>13, <1>b, <1>c DEF ToggleClosedLoop, Kinds
  <2>2. cpr' \in [enabled : BOOLEAN, was : BOOLEAN, allowed : BOOLEAN, suspended : BOOLEAN,
                  modes : 0 .. MaxModes]
    <3>1. cpr' = [cpr EXCEPT !.allowed = ~cpr.allowed, !.modes = cpr.modes + 1]
          /\ cpr.modes < MaxModes
      BY <1>13 DEF ToggleClosedLoop
    <3>2. cpr' = [cpr EXCEPT !.enabled = cpr.enabled, !.allowed = ~cpr.allowed,
                             !.suspended = cpr.suspended, !.modes = cpr.modes + 1]
      BY <3>1 DEF TypeOK
    <3>3. QED BY <1>f, <1>g, <3>1, <3>2
  <2>3. QED BY <1>13, <2>1, <2>2 DEF ToggleClosedLoop, TypeOK, Corners
<1>14. CASE HwRaise
  <2>1. chip' \in ChipT BY <1>14, <1>b DEF HwRaise, Dirs
  <2>2. QED BY <1>14, <2>1 DEF HwRaise, TypeOK, Corners
<1>15. CASE IrqSpurious
  <2>1. aggr.boost \in BOOLEAN BY DEF TypeOK, Aggr
  <2>2. chip' \in ChipT BY <1>15, <1>b, <2>1 DEF IrqSpurious
  <2>3. QED BY <1>15, <2>2 DEF IrqSpurious, TypeOK, Corners
<1>16. CASE Irq
  <2> DEFINE up == chip.pending = "up"
             new == Toward(aggr.last, up)
  <2>1. aggr \in Aggr BY DEF TypeOK
  <2>2. new \in Volts BY <2>1, TowardType
  <2>3. \E en \in SUBSET Dirs : next' = [aggr EXCEPT !.last = new, !.irq = en]
    <3>1. aggr.irq \subseteq Dirs BY <2>1 DEF Aggr
    <3>2. QED BY <1>16, <3>1 DEF Irq, Dirs
  <2>4. next' \in Aggr BY <2>1, <2>2, <2>3 DEF Aggr
  <2>5. plan' = <<>> \/ plan' = Scale(aggr.last, new, aggr) BY <1>16 DEF Irq
  <2>6. aggr.last \in Volts BY <2>1 DEF Aggr
  <2>7. plan' \in Seq(Writes)
    <3>1. Scale(aggr.last, new, aggr) \in Seq(Writes) BY <1>0, <2>1, <2>2, <2>6, ScaleShape
    <3>2. <<>> \in Seq(Writes) OBVIOUS
    <3> HIDE DEF new
    <3>3. QED BY <2>5, <3>1, <3>2
  <2>8. job' \in JobT /\ job'.old = 0 BY <1>16, <1>a DEF Irq, Kinds
  <2>9. QED BY <1>16, <2>4, <2>7, <2>8 DEF Irq, TypeOK, Corners
<1>17. CASE IrqDone
  <2>1. job' \in JobT /\ job'.old = 0 /\ next' \in Aggr /\ plan' = plan BY <1>17, <1>d DEF IrqDone
  <2>2. next \in Aggr /\ aggr' \in {aggr, next} BY <1>17 DEF IrqDone, TypeOK
  <2>3. chip' \in ChipT BY <1>17, <1>b, <2>2 DEF IrqDone, Aggr
  <2>4. DOMAIN last' = Vregs /\ \A v \in Vregs : last'[v] \in [Corners(v) -> Volts]
    <3>1. CASE last' = last BY <3>1 DEF TypeOK, Corners
    <3>2. CASE last' = [v \in Vregs |-> Settled(v, next.last)]
      <4>1. next.last \in Volts BY <2>2 DEF Aggr
      <4>2. ASSUME NEW v \in Vregs PROVE Settled(v, next.last) \in [Corners(v) -> Volts]
        <5>1. last[v] \in [Corners(v) -> Volts] BY DEF TypeOK
        <5>2. QED BY <4>1, <5>1 DEF Settled
      <4>3. QED BY <3>2, <4>2
    <3>3. QED BY <1>17, <3>1, <3>2 DEF IrqDone
  <2>5. QED BY <1>17, <2>1, <2>2, <2>3, <2>4 DEF IrqDone, TypeOK, Corners
<1>18. CASE UNCHANGED vars BY <1>18 DEF vars, TypeOK, Corners
<1>19. QED
  BY <1>1, <1>2, <1>3, <1>4, <1>5, <1>6, <1>7, <1>8, <1>9, <1>10, <1>11, <1>12, <1>13, <1>14,
     <1>15, <1>16, <1>17, <1>18 DEF Next, Locked

-----------------------------------------------------------------------------
(* The inductive invariant.                                                *)

\* The mux is where a voltage wants it; it has to be while there is one and nothing failed.
MuxSuits(x) == supply.high <=> x >= conf.thr
Watch == faults = 0 /\ conf.thr > 0

JobInv == job.kind = "none" => job.stage = "ok"
CleanInv == (job.stage = "failed" => ~clean) /\ (faults = 0 => clean)

\* Between walks, if nothing has failed, VDD suits, and with CPR enabled it is the
\* voltage of an aggregate that fits.
RestInv ==
  job.stage \in {"ok", "failed"} /\ clean =>
    /\ Valid # {} => Suits(supply.vdd)
    /\ cpr.enabled => Valid # {} /\ FitsIn(aggr) /\ supply.vdd = aggr.last

\* What is left of a walk leads to the voltage of an aggregate that fits, and the mux is
\* where that part of the walk takes it from.
Left ==
  LET to == next.last
  IN \/ Only(plan, 1, 0) /\ supply.vdd = to /\ (Watch => MuxSuits(to))
     \/ \E i \in 1 .. Len(plan) :
          \/ One(plan, i, to) /\ (Watch => MuxSuits(to))
          \/ Two(plan, i, to) /\ (Watch => supply.vdd = conf.thr)
          \/ Three(plan, i, to) /\ (Watch => (supply.high <=> to < conf.thr))
WalkInv ==
  job.stage = "scale" /\ (job.kind = "irq" => clean) => Valid # {} /\ FitsIn(next) /\ Left

\* The mux is safe always, and where VDD wants it between walks.
MuxInv ==
  Watch => /\ IF supply.high THEN supply.vdd >= conf.thr ELSE supply.vdd <= conf.thr
           /\ job.stage # "scale" => MuxSuits(supply.vdd)

Inv == TypeOK /\ LastInRange /\ JobInv /\ CleanInv /\ RestInv /\ WalkInv /\ MuxInv

\* One write less: what was to come first has been made, or a write of another supply.
LEMMA TailShape ==
  ASSUME NEW p \in Seq(Writes), p # <<>>, NEW to, NEW i \in 1 .. Len(p)
  PROVE LET h == Head(p)
            q == Tail(p)
        IN /\ Only(p, 1, 0) => Quiet(h) /\ Only(q, 1, 0)
           /\ One(p, i, to) => \/ i = 1 /\ h.what = "vdd" /\ h.val = to /\ Only(q, 1, 0)
                               \/ i > 1 /\ Quiet(h) /\ i - 1 \in 1 .. Len(q) /\ One(q, i - 1, to)
           /\ Two(p, i, to) => \/ i = 1 /\ h.what = "apm" /\ h.val = to
                                  /\ 1 \in 1 .. Len(q) /\ One(q, 1, to)
                               \/ i > 1 /\ Quiet(h) /\ i - 1 \in 1 .. Len(q) /\ Two(q, i - 1, to)
           /\ Three(p, i, to) => \/ i = 1 /\ h.what = "vdd" /\ h.val = conf.thr
                                    /\ 1 \in 1 .. Len(q) /\ Two(q, 1, to)
                                 \/ i > 1 /\ Quiet(h) /\ i - 1 \in 1 .. Len(q) /\ Three(q, i - 1, to)
<1> DEFINE h == Head(p)
           q == Tail(p)
<1>1. Len(q) = Len(p) - 1 /\ Len(p) \in Nat /\ Len(p) >= 1 /\ h = p[1] OBVIOUS
<1>2. \A k \in 1 .. Len(q) : k + 1 \in 1 .. Len(p) /\ q[k] = p[k + 1] BY <1>1
<1> HIDE DEF h, q
<1>3. ASSUME NEW f \in Nat, NEW n \in Nat, Only(p, f, n)
      PROVE /\ f > 1 => Quiet(h) /\ Only(q, f - 1, n)
            /\ f = 1 /\ n = 0 => Quiet(h) /\ Only(q, 1, 0)
            /\ f = 1 /\ n > 0 => Only(q, 1, n - 1)
  <2>1. f > 1 \/ (f = 1 /\ n = 0) => Quiet(h) BY <1>1, <1>3 DEF Only
  <2>2. ASSUME NEW k \in 1 .. Len(q), k + 1 < f \/ k + 1 >= f + n PROVE Quiet(q[k])
    BY <1>2, <1>3, <2>2 DEF Only
  <2>3. f > 1 => Only(q, f - 1, n)
    <3>1. ASSUME f > 1, NEW k \in 1 .. Len(q), k < f - 1 \/ k >= f - 1 + n PROVE Quiet(q[k])
      <4>1. k + 1 < f \/ k + 1 >= f + n BY <3>1
      <4>2. QED BY <2>2, <4>1
    <3>2. QED BY <3>1 DEF Only
  <2>4. f = 1 /\ n = 0 => Only(q, 1, 0) BY <2>2 DEF Only
  <2>5. f = 1 /\ n > 0 => Only(q, 1, n - 1)
    <3>1. ASSUME f = 1, n > 0, NEW k \in 1 .. Len(q), k < 1 \/ k >= 1 + (n - 1) PROVE Quiet(q[k])
      <4>1. k + 1 >= f + n BY <3>1
      <4>2. QED BY <2>2, <4>1
    <3>2. QED BY <3>1 DEF Only
  <2>6. QED BY <2>1, <2>3, <2>4, <2>5
<1>4. ASSUME NEW k \in Nat, NEW x
      PROVE /\ IsVdd(p, k, x) /\ k > 1 => IsVdd(q, k - 1, x) /\ k - 1 \in 1 .. Len(q)
            /\ IsApm(p, k, x) /\ k > 1 => IsApm(q, k - 1, x) /\ k - 1 \in 1 .. Len(q)
            /\ IsVdd(p, 1, x) => h.what = "vdd" /\ h.val = x
            /\ IsApm(p, 1, x) => h.what = "apm" /\ h.val = x
  <2>1. k \in 1 .. Len(p) /\ k > 1 => k - 1 \in 1 .. Len(q) /\ q[k - 1] = p[k]
    <3>1. k \in 1 .. Len(p) /\ k > 1 => k - 1 \in 1 .. Len(q) BY <1>1
    <3>2. k - 1 \in 1 .. Len(q) => q[k - 1] = p[(k - 1) + 1] BY <1>2
    <3>3. (k - 1) + 1 = k OBVIOUS
    <3>4. QED BY <3>1, <3>2, <3>3
  <2>2. QED BY <1>1, <2>1 DEF IsVdd, IsApm
<1>5. Only(p, 1, 0) => Quiet(h) /\ Only(q, 1, 0) BY <1>3
<1>6. ASSUME One(p, i, to)
      PROVE \/ i = 1 /\ h.what = "vdd" /\ h.val = to /\ Only(q, 1, 0)
            \/ i > 1 /\ Quiet(h) /\ i - 1 \in 1 .. Len(q) /\ One(q, i - 1, to)
  <2>1. IsVdd(p, i, to) /\ Only(p, i, 1) BY <1>6 DEF One
  <2>2. CASE i = 1 BY <1>3, <1>4, <2>1, <2>2
  <2>3. CASE i > 1
    <3>1. Quiet(h) /\ Only(q, i - 1, 1) BY <1>3, <2>1, <2>3
    <3>2. IsVdd(q, i - 1, to) /\ i - 1 \in 1 .. Len(q) BY <1>4, <2>1, <2>3
    <3>3. QED BY <2>3, <3>1, <3>2 DEF One
  <2>4. QED BY <2>2, <2>3
<1>7. ASSUME Two(p, i, to)
      PROVE \/ i = 1 /\ h.what = "apm" /\ h.val = to /\ 1 \in 1 .. Len(q) /\ One(q, 1, to)
            \/ i > 1 /\ Quiet(h) /\ i - 1 \in 1 .. Len(q) /\ Two(q, i - 1, to)
  <2>1. IsApm(p, i, to) /\ IsVdd(p, i + 1, to) /\ Only(p, i, 2) BY <1>7 DEF Two
  <2>2. IsVdd(q, i, to) /\ i \in 1 .. Len(q)
    <3>1. i + 1 \in Nat /\ i + 1 > 1 /\ (i + 1) - 1 = i OBVIOUS
    <3>2. IsVdd(q, (i + 1) - 1, to) /\ (i + 1) - 1 \in 1 .. Len(q) BY <1>4, <2>1, <3>1
    <3>3. QED BY <3>1, <3>2
  <2>3. CASE i = 1
    <3>1. Only(q, 1, 1)
      <4>1. Only(p, 1, 2) BY <2>1, <2>3
      <4>2. Only(q, 1, 2 - 1) BY <1>3, <4>1
      <4>3. QED BY <4>2
    <3>2. h.what = "apm" /\ h.val = to BY <1>4, <2>1, <2>3
    <3>3. QED BY <2>2, <2>3, <3>1, <3>2 DEF One
  <2>4. CASE i > 1
    <3>1. Quiet(h) /\ Only(q, i - 1, 2) BY <1>3, <2>1, <2>4
    <3>2. IsApm(q, i - 1, to) /\ i - 1 \in 1 .. Len(q) BY <1>4, <2>1, <2>4
    <3>3. IsVdd(q, (i - 1) + 1, to) BY <2>2
    <3>4. QED BY <2>4, <3>1, <3>2, <3>3 DEF Two
  <2>5. QED BY <2>3, <2>4
<1>8. ASSUME Three(p, i, to)
      PROVE \/ i = 1 /\ h.what = "vdd" /\ h.val = conf.thr /\ 1 \in 1 .. Len(q) /\ Two(q, 1, to)
            \/ i > 1 /\ Quiet(h) /\ i - 1 \in 1 .. Len(q) /\ Three(q, i - 1, to)
  <2>1. IsVdd(p, i, conf.thr) /\ IsApm(p, i + 1, to) /\ IsVdd(p, i + 2, to) /\ Only(p, i, 3)
    BY <1>8 DEF Three
  <2>2. IsApm(q, i, to) /\ i \in 1 .. Len(q)
    <3>1. i + 1 \in Nat /\ i + 1 > 1 /\ (i + 1) - 1 = i OBVIOUS
    <3>2. IsApm(q, (i + 1) - 1, to) /\ (i + 1) - 1 \in 1 .. Len(q) BY <1>4, <2>1, <3>1
    <3>3. QED BY <3>1, <3>2
  <2>3. IsVdd(q, i + 1, to)
    <3>1. i + 2 \in Nat /\ i + 2 > 1 /\ (i + 2) - 1 = i + 1 OBVIOUS
    <3>2. IsVdd(q, (i + 2) - 1, to) BY <1>4, <2>1, <3>1
    <3>3. QED BY <3>1, <3>2
  <2>4. CASE i = 1
    <3>1. Only(q, 1, 2)
      <4>1. Only(p, 1, 3) BY <2>1, <2>4
      <4>2. Only(q, 1, 3 - 1) BY <1>3, <4>1
      <4>3. QED BY <4>2
    <3>2. h.what = "vdd" /\ h.val = conf.thr BY <1>4, <2>1, <2>4
    <3>3. QED BY <2>2, <2>3, <2>4, <3>1, <3>2 DEF Two
  <2>5. CASE i > 1
    <3>1. Quiet(h) /\ Only(q, i - 1, 3) BY <1>3, <2>1, <2>5
    <3>2. IsVdd(q, i - 1, conf.thr) /\ i - 1 \in 1 .. Len(q) BY <1>4, <2>1, <2>5
    <3>3. (i - 1) + 1 = i /\ (i - 1) + 2 = i + 1 OBVIOUS
    <3>4. IsApm(q, (i - 1) + 1, to) /\ IsVdd(q, (i - 1) + 2, to) BY <2>2, <2>3, <3>3
    <3>5. QED BY <2>5, <3>1, <3>2, <3>4 DEF Three
  <2>6. QED BY <2>4, <2>5
<1>9. QED BY <1>5, <1>6, <1>7, <1>8 DEF h, q

\* A new walk starts where the mux is as the voltage it starts from wants it.
LEMMA NewWalk ==
  ASSUME TypeOK, NEW from \in Volts, NEW to \in Volts, NEW a \in Aggr,
         UNCHANGED <<conf, supply, faults>>, plan' = Scale(from, to, a), next'.last = to,
         Watch => MuxSuits(from)
  PROVE Left'
<1>1. conf \in Config /\ conf.thr \in Int /\ from \in Int /\ to \in Int
  BY ConfType, TableOK DEF Config, Volts
<1>2. PICK i \in 1 .. Len(plan') : IF Crosses(from, to) THEN Three(plan', i, to) ELSE One(plan', i, to)
  BY <1>1, ScaleShape
<1>3. supply.high \in BOOLEAN BY DEF TypeOK
<1>4. CASE Crosses(from, to)
  <2>1. Watch => (supply.high <=> to < conf.thr) BY <1>1, <1>4 DEF Crosses, MuxSuits
  <2>2. Three(plan, i, next.last)' BY <1>2, <1>4 DEF Three, IsVdd, IsApm, Only
  <2>3. (Watch => (supply.high <=> next.last < conf.thr))' BY <2>1 DEF Watch
  <2>4. QED BY <2>2, <2>3 DEF Left
<1>5. CASE ~Crosses(from, to)
  <2>1. Watch => MuxSuits(to) BY <1>1, <1>5 DEF Crosses, MuxSuits, Watch
  <2>2. One(plan, i, next.last)' BY <1>2, <1>5 DEF One, IsVdd, Only
  <2>3. (Watch => MuxSuits(next.last))' BY <2>1 DEF Watch, MuxSuits
  <2>4. QED BY <2>2, <2>3 DEF Left
<1>6. QED BY <1>4, <1>5

\* A write of the walk leaves the rest of it.
LEMMA WriteStep ==
  ASSUME TypeOK, Left, MakeWrite, MuxInv
  PROVE Left' /\ (Watch => IF supply'.high THEN supply'.vdd >= conf.thr ELSE supply'.vdd <= conf.thr)
<1> DEFINE h == Head(plan)
           q == Tail(plan)
           to == next.last
<1>1. plan \in Seq(Writes) /\ plan # <<>> /\ plan' = q /\ supply' = Applied(h)
      /\ UNCHANGED <<conf, next, faults>>
  BY DEF MakeWrite, TypeOK
<1>2. supply \in [vdd : Volts, high : BOOLEAN, acc : Volts, sys : Volts] BY DEF TypeOK
<1>3. h \in Writes BY <1>1
<1>4. conf.thr \in Int /\ to \in Int /\ supply.vdd \in Int /\ h.val \in Int
  <2>1. Volts \subseteq Int BY TableOK DEF Volts
  <2>2. conf.thr \in Volts BY ConfType DEF Config
  <2>3. to \in Volts BY DEF TypeOK, Aggr
  <2>4. h.val \in Volts BY <1>3 DEF Writes
  <2>5. supply.vdd \in Volts BY <1>2
  <2> HIDE DEF h, to
  <2>6. QED BY <2>1, <2>2, <2>3, <2>4, <2>5
<1>5. Quiet(h) => supply'.vdd = supply.vdd /\ supply'.high = supply.high
  BY <1>1, <1>2, <1>3 DEF Applied, Quiet, Writes
<1>6. h.what = "vdd" => supply'.vdd = h.val /\ supply'.high = supply.high
  BY <1>1, <1>2 DEF Applied
<1>7. h.what = "apm" => supply'.vdd = supply.vdd /\ (supply'.high <=> h.val >= conf.thr)
  <2>1. (h.val >= conf.thr) \in BOOLEAN OBVIOUS
  <2>2. h.what = "apm" => supply' = [supply EXCEPT !.high = h.val >= conf.thr]
    BY <1>1 DEF Applied
  <2>3. QED BY <1>2, <2>1, <2>2
<1>8. Watch => IF supply.high THEN supply.vdd >= conf.thr ELSE supply.vdd <= conf.thr
  BY DEF MuxInv
<1>9. (Watch' <=> Watch) /\ q = plan' /\ to = next'.last BY <1>1 DEF Watch
<1> DEFINE Safe == Watch => IF supply'.high THEN supply'.vdd >= conf.thr ELSE supply'.vdd <= conf.thr
           LeftA == Only(q, 1, 0) /\ supply'.vdd = to /\ (Watch => (supply'.high <=> to >= conf.thr))
           Left1(k) == One(q, k, to) /\ (Watch => (supply'.high <=> to >= conf.thr))
           Left2(k) == Two(q, k, to) /\ (Watch => supply'.vdd = conf.thr)
           Left3(k) == Three(q, k, to) /\ (Watch => (supply'.high <=> to < conf.thr))
<1>10. LeftA \/ (\E k \in 1 .. Len(q) : Left1(k) \/ Left2(k) \/ Left3(k)) => Left'
  BY <1>1, <1>9 DEF Left, MuxSuits, One, Two, Three, IsVdd, IsApm, Only
<1> HIDE DEF h, q
<1>11. CASE Only(plan, 1, 0) /\ supply.vdd = to /\ (Watch => MuxSuits(to))
  <2>1. Quiet(h) /\ Only(q, 1, 0) BY <1>1, <1>11, TailShape DEF h, q
  <2>2. Safe BY <1>5, <1>8, <2>1
  <2>3. LeftA BY <1>5, <1>11, <2>1 DEF MuxSuits
  <2>4. QED BY <1>10, <2>2, <2>3
<1>12. ASSUME NEW i \in 1 .. Len(plan), One(plan, i, to), Watch => MuxSuits(to) PROVE Left' /\ Safe
  <2>1. \/ i = 1 /\ h.what = "vdd" /\ h.val = to /\ Only(q, 1, 0)
        \/ i > 1 /\ Quiet(h) /\ i - 1 \in 1 .. Len(q) /\ One(q, i - 1, to)
    BY <1>1, <1>12, TailShape DEF h, q
  <2>2. CASE i = 1
    <3>1. h.what = "vdd" /\ h.val = to /\ Only(q, 1, 0) BY <2>1, <2>2
    <3>2. LeftA BY <1>6, <1>12, <3>1 DEF MuxSuits
    <3>3. Safe BY <1>4, <1>6, <1>12, <3>1 DEF MuxSuits
    <3>4. QED BY <1>10, <3>2, <3>3
  <2>3. CASE i > 1
    <3>1. Quiet(h) /\ i - 1 \in 1 .. Len(q) /\ One(q, i - 1, to) BY <2>1, <2>3
    <3>2. Left1(i - 1) BY <1>5, <1>12, <3>1 DEF MuxSuits
    <3>3. Safe BY <1>5, <1>8, <3>1
    <3>4. QED BY <1>10, <3>1, <3>2, <3>3
  <2>4. QED BY <2>2, <2>3
<1>13. ASSUME NEW i \in 1 .. Len(plan), Two(plan, i, to), Watch => supply.vdd = conf.thr
       PROVE Left' /\ Safe
  <2>1. \/ i = 1 /\ h.what = "apm" /\ h.val = to /\ 1 \in 1 .. Len(q) /\ One(q, 1, to)
        \/ i > 1 /\ Quiet(h) /\ i - 1 \in 1 .. Len(q) /\ Two(q, i - 1, to)
    BY <1>1, <1>13, TailShape DEF h, q
  <2>2. CASE i = 1
    <3>1. h.what = "apm" /\ h.val = to /\ 1 \in 1 .. Len(q) /\ One(q, 1, to) BY <2>1, <2>2
    <3>2. Left1(1) BY <1>7, <3>1
    <3>3. Safe BY <1>4, <1>7, <1>13, <3>1
    <3>4. QED BY <1>10, <3>1, <3>2, <3>3
  <2>3. CASE i > 1
    <3>1. Quiet(h) /\ i - 1 \in 1 .. Len(q) /\ Two(q, i - 1, to) BY <2>1, <2>3
    <3>2. Left2(i - 1) BY <1>5, <1>13, <3>1
    <3>3. Safe BY <1>5, <1>8, <3>1
    <3>4. QED BY <1>10, <3>1, <3>2, <3>3
  <2>4. QED BY <2>2, <2>3
<1>14. ASSUME NEW i \in 1 .. Len(plan), Three(plan, i, to), Watch => (supply.high <=> to < conf.thr)
       PROVE Left' /\ Safe
  <2>1. \/ i = 1 /\ h.what = "vdd" /\ h.val = conf.thr /\ 1 \in 1 .. Len(q) /\ Two(q, 1, to)
        \/ i > 1 /\ Quiet(h) /\ i - 1 \in 1 .. Len(q) /\ Three(q, i - 1, to)
    BY <1>1, <1>14, TailShape DEF h, q
  <2>2. CASE i = 1
    <3>1. h.what = "vdd" /\ h.val = conf.thr /\ 1 \in 1 .. Len(q) /\ Two(q, 1, to) BY <2>1, <2>2
    <3>2. Left2(1) BY <1>6, <3>1
    <3>3. Safe BY <1>4, <1>6, <3>1
    <3>4. QED BY <1>10, <3>1, <3>2, <3>3
  <2>3. CASE i > 1
    <3>1. Quiet(h) /\ i - 1 \in 1 .. Len(q) /\ Three(q, i - 1, to) BY <2>1, <2>3
    <3>2. Left3(i - 1) BY <1>5, <1>14, <3>1
    <3>3. Safe BY <1>5, <1>8, <3>1
    <3>4. QED BY <1>10, <3>1, <3>2, <3>3
  <2>4. QED BY <2>2, <2>3
<1>15. QED BY <1>11, <1>12, <1>13, <1>14 DEF Left

\* When the walk is over VDD has arrived, and the mux is where it wants it.
LEMMA WalkOver ==
  ASSUME Left, plan = <<>> PROVE supply.vdd = next.last /\ (Watch => MuxSuits(next.last))
<1>1. 1 .. Len(plan) = {} OBVIOUS
<1>2. QED BY <1>1 DEF Left

\* A voltage in the range of an aggregate that fits suits.
LEMMA FitSuits ==
  ASSUME TypeOK, NEW a \in Aggr, FitsIn(a) PROVE Suits(a.last)
<1>1. \A v \in Valid : At(v).floor \in Int /\ At(v).ceil \in Int
  BY AtCorner, TableOK DEF Corner, Volts
<1>2. a.floor \in Int /\ a.last \in Int /\ a.ceil \in Int BY TableOK DEF Aggr, Volts
<1>3. QED BY <1>1, <1>2 DEF FitsIn, Suits

-----------------------------------------------------------------------------
(* The invariant is inductive.                                             *)

\* Where nothing it speaks of changes, what is said between walks stays true.
LEMMA RestSame ==
  ASSUME RestInv, UNCHANGED <<on, corner, supply, cpr, aggr>>,
         clean' => clean, job'.stage \in {"ok", "failed"} => job.stage \in {"ok", "failed"}
  PROVE RestInv'
<1>1. Valid' = Valid BY DEF Valid
<1>2. QED BY <1>1 DEF RestInv, Suits, FitsIn, At

LEMMA MuxSame ==
  ASSUME MuxInv, UNCHANGED <<conf, supply>>, faults' = 0 => faults = 0,
         job'.stage # "scale" => job.stage # "scale"
  PROVE MuxInv'
BY DEF MuxInv, Watch, MuxSuits

\* An update that starts from VDD and aggregates those that are on.
LEMMA UpdateStep == Inv /\ Update => JobInv' /\ CleanInv' /\ RestInv' /\ WalkInv' /\ MuxInv'
<1> SUFFICES ASSUME Inv, Update PROVE JobInv' /\ CleanInv' /\ RestInv' /\ WalkInv' /\ MuxInv'
  OBVIOUS
<1>1. TypeOK /\ LastInRange /\ JobInv /\ CleanInv /\ RestInv /\ WalkInv /\ MuxInv BY DEF Inv
<1>2. /\ UNCHANGED <<conf, corner, on, last, aggr, supply, faults, clean>>
      /\ job.stage = "update" /\ job'.kind = job.kind
      /\ job'.stage = IF Valid = {} THEN "ok" ELSE "scale"
  BY <1>1 DEF Update, TypeOK
<1>3. Valid' = Valid BY <1>2 DEF Valid
<1>4. JobInv' /\ CleanInv' BY <1>1, <1>2 DEF JobInv, CleanInv
<1>5. MuxInv' BY <1>1, <1>2, MuxSame
<1>6. CASE Valid = {}
  <2>1. ~cpr'.enabled BY <1>1, <1>6 DEF Update, Enabled, TypeOK
  <2>2. RestInv' /\ WalkInv' BY <1>2, <1>3, <1>6, <2>1 DEF RestInv, WalkInv
  <2>3. QED BY <1>4, <1>5, <2>2
<1>7. CASE Valid # {}
  <2>1. RestInv' BY <1>2, <1>7 DEF RestInv
  <2>2. PICK new \in NewVolts(Aggregate) : /\ next' = [Aggregate EXCEPT !.last = new]
                                           /\ plan' = Scale(supply.vdd, new, Aggregate)
    BY <1>7 DEF Update
  <2>3. new \in Volts /\ FitsIn([Aggregate EXCEPT !.last = new]) BY <1>1, <1>7, AggrFits
  <2>4. Aggregate \in Aggr /\ supply.vdd \in Volts BY <1>1, AggrType DEF Aggregate, TypeOK
  <2>5. next'.last = new BY <2>2, <2>4 DEF Aggr
  <2>6. Watch => MuxSuits(supply.vdd) BY <1>1, <1>2 DEF MuxInv
  <2>7. Left' BY <1>1, <1>2, <2>2, <2>3, <2>4, <2>5, <2>6, NewWalk
  <2>8. FitsIn(next)' BY <1>2, <1>3, <2>2, <2>3 DEF FitsIn, At
  <2>9. WalkInv' BY <1>3, <1>7, <2>7, <2>8 DEF WalkInv
  <2>10. QED BY <1>4, <1>5, <2>1, <2>9
<1>8. QED BY <1>6, <1>7

\* A walk of the loop starts from its last voltage, which is VDD.
LEMMA IrqStep == Inv /\ Irq => JobInv' /\ CleanInv' /\ RestInv' /\ WalkInv' /\ MuxInv'
<1> SUFFICES ASSUME Inv, Irq PROVE JobInv' /\ CleanInv' /\ RestInv' /\ WalkInv' /\ MuxInv'
  OBVIOUS
<1> DEFINE new == Toward(aggr.last, chip.pending = "up")
<1>1. TypeOK /\ LastInRange /\ JobInv /\ CleanInv /\ RestInv /\ WalkInv /\ MuxInv BY DEF Inv
<1>2. /\ UNCHANGED <<conf, corner, on, aggr, supply, cpr, faults, clean>>
      /\ job.kind = "none" /\ job'.kind = "irq" /\ job'.stage = "scale" /\ cpr.enabled
  BY DEF Irq, Idle
<1>3. job.stage = "ok" BY <1>1, <1>2 DEF JobInv
<1>4. Valid' = Valid BY <1>2 DEF Valid
<1>5. JobInv' /\ CleanInv' /\ RestInv' BY <1>1, <1>2 DEF JobInv, CleanInv, RestInv
<1>6. MuxInv' BY <1>1, <1>2, <1>3 DEF MuxInv, Watch, MuxSuits
<1>7. ASSUME clean PROVE Valid # {} /\ FitsIn(next)' /\ Left'
  <2>1. Valid # {} /\ FitsIn(aggr) /\ supply.vdd = aggr.last BY <1>1, <1>2, <1>3, <1>7 DEF RestInv
  <2>2. aggr \in Aggr /\ aggr.last \in Volts BY <1>1 DEF TypeOK, Aggr
  <2>3. /\ next'.last = new /\ next'.floor = aggr.floor /\ next'.ceil = aggr.ceil
        /\ plan' = IF new = aggr.last THEN <<>> ELSE Scale(aggr.last, new, aggr)
    BY <2>2 DEF Irq, Aggr
  <2>4. aggr.floor <= aggr.ceil
    <3>1. aggr.floor \in Int /\ aggr.ceil \in Int /\ aggr.last \in Int
      BY <2>2, TableOK DEF Aggr, Volts
    <3>2. QED BY <2>1, <3>1 DEF FitsIn
  <2>5. new \in Volts /\ aggr.floor <= new /\ new <= aggr.ceil BY <2>2, <2>4, TowardType
  <2> HIDE DEF new
  <2>6. FitsIn(next)' BY <1>2, <1>4, <2>1, <2>3, <2>5 DEF FitsIn, At
  <2>7. Watch => MuxSuits(aggr.last) BY <1>1, <1>3, <2>1 DEF MuxInv
  <2>8. CASE new = aggr.last
    <3>1. plan' = <<>> /\ supply'.vdd = next'.last BY <1>2, <2>1, <2>3, <2>8
    <3>2. (Only(plan, 1, 0))' BY <3>1 DEF Only
    <3>3. (Watch => MuxSuits(next.last))' BY <1>2, <2>3, <2>7, <2>8 DEF Watch, MuxSuits
    <3>4. Left' BY <3>1, <3>2, <3>3 DEF Left
    <3>5. QED BY <2>1, <2>6, <3>4
  <2>9. CASE new # aggr.last
    <3>1. plan' = Scale(aggr.last, new, aggr) BY <2>3, <2>9
    <3>2. Left' BY <1>1, <1>2, <2>2, <2>3, <2>5, <2>7, <3>1, NewWalk
    <3>3. QED BY <2>1, <2>6, <3>2
  <2>10. QED BY <2>8, <2>9
<1>8. WalkInv' BY <1>2, <1>4, <1>7 DEF WalkInv
<1>9. QED BY <1>5, <1>6, <1>8

\* A walk that is over has arrived at a voltage that suits.
LEMMA CommitStep == Inv /\ Commit => JobInv' /\ CleanInv' /\ RestInv' /\ WalkInv' /\ MuxInv'
<1> SUFFICES ASSUME Inv, Commit PROVE JobInv' /\ CleanInv' /\ RestInv' /\ WalkInv' /\ MuxInv'
  OBVIOUS
<1>1. TypeOK /\ LastInRange /\ JobInv /\ CleanInv /\ RestInv /\ WalkInv /\ MuxInv BY DEF Inv
<1>2. /\ UNCHANGED <<conf, corner, on, supply, next, plan>>
      /\ job.stage = "scale" /\ plan = <<>> /\ job.kind # "irq" /\ job'.kind = job.kind
      /\ \/ job'.stage = "ok" /\ clean' /\ faults' = faults
         \/ job'.stage = "failed" /\ ~clean' /\ faults' = faults + 1
      /\ cpr'.enabled = cpr.enabled
  BY <1>1 DEF Commit, TypeOK
<1>3. Valid # {} /\ FitsIn(next) /\ Left BY <1>1, <1>2 DEF WalkInv
<1>4. supply.vdd = next.last /\ (Watch => MuxSuits(next.last)) BY <1>2, <1>3, WalkOver
<1>5. next \in Aggr /\ faults \in Nat BY <1>1 DEF TypeOK
<1>6. aggr'.floor = next.floor /\ aggr'.ceil = next.ceil /\ aggr'.last = next.last
  BY <1>5 DEF Commit, Aggr
<1>7. Valid' = Valid BY <1>2 DEF Valid
<1>8. JobInv' /\ CleanInv' /\ WalkInv' BY <1>1, <1>2, <1>5 DEF JobInv, CleanInv, WalkInv
<1>9. RestInv'
  <2>1. Suits(next.last) BY <1>1, <1>3, <1>5, FitSuits
  <2>2. Suits(supply.vdd)' BY <1>2, <1>4, <1>7, <2>1 DEF Suits, At
  <2>3. FitsIn(aggr)' BY <1>2, <1>3, <1>6, <1>7 DEF FitsIn, At
  <2>4. QED BY <1>2, <1>3, <1>4, <1>6, <1>7, <2>2, <2>3 DEF RestInv
<1>10. MuxInv' BY <1>1, <1>2, <1>4, <1>5 DEF MuxInv, Watch, MuxSuits
<1>11. QED BY <1>8, <1>9, <1>10

\* So has the walk of the loop, unless something had failed before.
LEMMA IrqDoneStep == Inv /\ IrqDone => JobInv' /\ CleanInv' /\ RestInv' /\ WalkInv' /\ MuxInv'
<1> SUFFICES ASSUME Inv, IrqDone PROVE JobInv' /\ CleanInv' /\ RestInv' /\ WalkInv' /\ MuxInv'
  OBVIOUS
<1>1. TypeOK /\ LastInRange /\ JobInv /\ CleanInv /\ RestInv /\ WalkInv /\ MuxInv BY DEF Inv
<1>2. /\ UNCHANGED <<conf, corner, on, supply, cpr, faults, clean>>
      /\ job.kind = "irq" /\ job'.kind = "none" /\ job'.stage = "ok"
      /\ \/ job.stage = "scale" /\ plan = <<>> /\ aggr' = next
         \/ job.stage = "failed" /\ aggr' = aggr
  BY DEF IrqDone, Release, Idle
<1>3. Valid' = Valid BY <1>2 DEF Valid
<1>4. JobInv' /\ CleanInv' /\ WalkInv' BY <1>1, <1>2 DEF JobInv, CleanInv, WalkInv
<1>5. CASE job.stage = "failed"
  <2>1. RestInv' BY <1>1, <1>2, <1>5 DEF CleanInv, RestInv
  <2>2. MuxInv' BY <1>1, <1>2, <1>5, MuxSame
  <2>3. QED BY <1>4, <2>1, <2>2
<1>6. CASE job.stage = "scale"
  <2>1. ASSUME clean
        PROVE /\ Valid # {} /\ FitsIn(next) /\ supply.vdd = next.last
              /\ Watch => MuxSuits(next.last)
    BY <1>1, <1>2, <1>6, <2>1, WalkOver DEF WalkInv
  <2>2. RestInv'
    <3>1. ASSUME clean PROVE Suits(supply.vdd)' /\ FitsIn(aggr)'
      <4>1. next \in Aggr BY <1>1 DEF TypeOK
      <4>2. Suits(next.last) BY <1>1, <2>1, <3>1, <4>1, FitSuits
      <4>3. aggr' = next BY <1>2, <1>6
      <4>4. QED BY <1>2, <1>3, <2>1, <3>1, <4>2, <4>3 DEF Suits, FitsIn, At
    <3>2. QED BY <1>2, <1>3, <1>6, <2>1, <3>1 DEF RestInv
  <2>3. MuxInv' BY <1>1, <1>2, <2>1 DEF CleanInv, MuxInv, Watch, MuxSuits
  <2>4. QED BY <1>4, <2>2, <2>3
<1>7. QED BY <1>2, <1>5, <1>6

\* What fails before a walk is over leaves nothing to claim but that it failed.
LEMMA FailStep ==
  ASSUME Inv, UNCHANGED conf, job'.stage = "failed", job'.kind = job.kind,
         job.stage \in {"update", "scale"}, ~clean', faults' = faults + 1
  PROVE JobInv' /\ CleanInv' /\ RestInv' /\ WalkInv' /\ MuxInv'
<1>1. faults \in Nat /\ JobInv BY DEF Inv, TypeOK
<1>2. faults' # 0 BY <1>1
<1>3. QED BY <1>1, <1>2 DEF JobInv, CleanInv, RestInv, WalkInv, MuxInv, Watch

\* A handler that takes the lock has an update to do first.
LEMMA TakeStep ==
  ASSUME Inv, UNCHANGED <<conf, supply, faults, clean>>, job.kind = "none",
         job'.stage = "update", job'.kind # "none"
  PROVE JobInv' /\ CleanInv' /\ RestInv' /\ WalkInv' /\ MuxInv'
<1>1. JobInv /\ CleanInv /\ MuxInv BY DEF Inv
<1>2. job.stage = "ok" BY <1>1 DEF JobInv
<1>3. QED BY <1>1, <1>2 DEF JobInv, CleanInv, RestInv, WalkInv, MuxInv, Watch, MuxSuits

\* Nothing changes that the invariant speaks of, except that a call may have failed.
LEMMA CalmStep ==
  ASSUME Inv, UNCHANGED <<conf, supply, clean, job, on, corner, next, plan, aggr>>,
         job.kind = "none", cpr'.enabled => cpr.enabled,
         faults' = faults \/ faults' = faults + 1
  PROVE JobInv' /\ CleanInv' /\ RestInv' /\ WalkInv' /\ MuxInv'
<1>1. JobInv /\ CleanInv /\ RestInv /\ MuxInv /\ faults \in Nat BY DEF Inv, TypeOK
<1>2. job.stage = "ok" /\ (faults' = 0 => faults = 0) BY <1>1 DEF JobInv
<1>3. Valid' = Valid BY DEF Valid
<1>4. JobInv' /\ CleanInv' BY <1>1, <1>2 DEF JobInv, CleanInv
<1>5. RestInv' BY <1>1, <1>2, <1>3 DEF RestInv, Suits, FitsIn, At
<1>6. WalkInv' BY <1>2 DEF WalkInv
<1>7. MuxInv' BY <1>1, <1>2, MuxSame
<1>8. QED BY <1>4, <1>5, <1>6, <1>7

LEMMA InvStep == Inv /\ [Next]_vars => Inv'
<1> SUFFICES ASSUME Inv, [Next]_vars PROVE Inv' OBVIOUS
<1>1. TypeOK /\ LastInRange /\ JobInv /\ CleanInv /\ RestInv /\ WalkInv /\ MuxInv BY DEF Inv
<1>2. TypeOK' /\ LastInRange' BY <1>1, TypeStep, LastStep
<1> SUFFICES JobInv' /\ CleanInv' /\ RestInv' /\ WalkInv' /\ MuxInv' BY <1>2 DEF Inv
<1>3. CASE Update BY <1>3, UpdateStep
<1>4. CASE UpdateFails \/ ClocksFail \/ WriteFails
  <2>1. /\ UNCHANGED conf /\ job'.stage = "failed" /\ job'.kind = job.kind
        /\ job.stage \in {"update", "scale"} /\ ~clean' /\ faults' = faults + 1
    BY <1>1, <1>4 DEF UpdateFails, ClocksFail, WriteFails, TypeOK
  <2>2. QED BY <2>1, FailStep
<1>5. CASE MakeWrite
  <2>1. UNCHANGED <<conf, on, corner, job, cpr, aggr, next, faults, clean>> /\ job.stage = "scale"
    BY <1>5 DEF MakeWrite
  <2>2. Valid' = Valid BY <2>1 DEF Valid
  <2>3. JobInv' /\ CleanInv' /\ RestInv' BY <1>1, <2>1 DEF JobInv, CleanInv, RestInv
  <2>4. FitsIn(next)' <=> FitsIn(next) BY <2>1, <2>2 DEF FitsIn, At
  <2>5. WalkInv' BY <1>1, <1>5, <2>1, <2>2, <2>4, WriteStep DEF WalkInv
  <2>6. MuxInv'
    <3>1. CASE Watch
      <4>1. clean BY <1>1, <3>1 DEF CleanInv, Watch
      <4>2. Left BY <1>1, <2>1, <4>1 DEF WalkInv
      <4>3. IF supply'.high THEN supply'.vdd >= conf.thr ELSE supply'.vdd <= conf.thr
        BY <1>1, <1>5, <3>1, <4>2, WriteStep
      <4>4. QED BY <2>1, <4>3 DEF MuxInv
    <3>2. CASE ~Watch BY <2>1, <3>2 DEF MuxInv, Watch
    <3>3. QED BY <3>1, <3>2
  <2>7. QED BY <2>3, <2>5, <2>6
<1>6. CASE Commit BY <1>6, CommitStep
<1>7. CASE Return
  <2>1. /\ UNCHANGED <<conf, supply, cpr, aggr, clean, lastCl, last>>
        /\ job.stage \in {"ok", "failed"} /\ job'.kind = "none" /\ job'.stage = "ok"
        /\ faults' = faults \/ faults' = faults + 1
        /\ job.stage = "ok" => corner' = corner /\ on' = on
    BY <1>7 DEF Return, Release, Idle
  <2>2. faults' = 0 => faults = 0 BY <1>1, <2>1 DEF TypeOK
  <2>3. JobInv' /\ CleanInv' /\ WalkInv' BY <1>1, <2>1, <2>2 DEF JobInv, CleanInv, WalkInv
  <2>4. RestInv'
    <3>1. CASE job.stage = "failed" BY <1>1, <2>1, <3>1 DEF CleanInv, RestInv
    <3>2. CASE job.stage = "ok"
      <4>1. Valid' = Valid BY <2>1, <3>2 DEF Valid
      <4>2. QED BY <1>1, <2>1, <3>2, <4>1 DEF RestInv, Suits, FitsIn, At
    <3>3. QED BY <2>1, <3>1, <3>2
  <2>5. MuxInv' BY <1>1, <2>1, <2>2, MuxSame
  <2>6. QED BY <2>3, <2>4, <2>5
<1>8. CASE SetVoltage
  <2>1. PICK v \in conf.vregs : \E c \in Corners(v) :
          /\ corner' = [corner EXCEPT ![v] = c]
          /\ IF v \in on THEN Take("set", v, corner[v]) ELSE UNCHANGED job
    BY <1>8 DEF SetVoltage
  <2>2. UNCHANGED <<conf, on, cpr, aggr, supply, next, plan, faults, clean>> /\ job.kind = "none"
    BY <1>8 DEF SetVoltage
  <2>3. CASE v \in on BY <2>1, <2>2, <2>3, TakeStep DEF Take
  <2>4. CASE v \notin on
    <3>1. \A x \in on : corner'[x] = corner[x] BY <1>1, <2>1, <2>4 DEF TypeOK
    <3>2. Valid' = Valid /\ \A x \in Valid : Table[x][corner'[x]] = Table[x][corner[x]]
      BY <2>2, <3>1 DEF Valid
    <3>3. job' = job BY <2>1, <2>4
    <3>4. job.stage = "ok" BY <1>1, <2>2 DEF JobInv
    <3>5. JobInv' /\ CleanInv' /\ WalkInv' BY <1>1, <2>2, <3>3, <3>4 DEF JobInv, CleanInv, WalkInv
    <3>6. RestInv' BY <1>1, <2>2, <3>2, <3>3 DEF RestInv, Suits, FitsIn, At
    <3>7. MuxInv' BY <1>1, <2>2, <3>3, MuxSame
    <3>8. QED BY <3>5, <3>6, <3>7
  <2>5. QED BY <2>3, <2>4
<1>9. CASE EnableVreg \/ DisableVreg
  <2>1. /\ UNCHANGED <<conf, corner, cpr, aggr, supply, next, plan, clean>> /\ job.kind = "none"
        /\ \/ UNCHANGED <<on, job>> /\ faults' = faults + 1
           \/ \E v, old : (Take("enable", v, old) \/ Take("disable", v, old)) /\ faults' = faults
    BY <1>9 DEF EnableVreg, DisableVreg
  <2>2. CASE UNCHANGED <<on, job>> /\ faults' = faults + 1 BY <2>1, <2>2, CalmStep
  <2>3. CASE \E v, old : (Take("enable", v, old) \/ Take("disable", v, old)) /\ faults' = faults
    BY <2>1, <2>3, TakeStep DEF Take
  <2>4. QED BY <2>1, <2>2, <2>3
<1>10. CASE Suspend \/ HwRaise \/ IrqSpurious
  <2>1. CASE job.kind = "none"
    <3>1. UNCHANGED <<conf, supply, clean, job, on, corner, next, plan, aggr>>
      BY <1>10 DEF Suspend, HwRaise, IrqSpurious
    <3>2. cpr'.enabled => cpr.enabled BY <1>1, <1>10 DEF Suspend, HwRaise, IrqSpurious, TypeOK
    <3>3. faults' = faults \/ faults' = faults + 1 BY <1>10 DEF Suspend, HwRaise, IrqSpurious
    <3>4. QED BY <2>1, <3>1, <3>2, <3>3, CalmStep
  <2>2. CASE HwRaise
    <3>1. UNCHANGED <<conf, on, corner, cpr, aggr, supply, job, next, plan, faults, clean>>
      BY <2>2 DEF HwRaise
    <3>2. Valid' = Valid BY <3>1 DEF Valid
    <3>3. JobInv' /\ CleanInv' BY <1>1, <3>1 DEF JobInv, CleanInv
    <3>4. RestInv' BY <1>1, <3>1, RestSame
    <3>5. MuxInv' BY <1>1, <3>1, MuxSame
    <3>6. Left' <=> Left
      BY <3>1 DEF Left, Watch, MuxSuits, One, Two, Three, IsVdd, IsApm, Only
    <3>7. FitsIn(next)' <=> FitsIn(next) BY <3>1, <3>2 DEF FitsIn, At
    <3>8. WalkInv' BY <1>1, <3>1, <3>2, <3>6, <3>7 DEF WalkInv
    <3>9. QED BY <3>3, <3>4, <3>5, <3>8
  <2>3. QED BY <1>10, <2>1, <2>2 DEF Suspend, IrqSpurious
<1>11. CASE Resume \/ ToggleClosedLoop
  BY <1>11, TakeStep DEF Resume, ToggleClosedLoop, Take
<1>12. CASE Irq BY <1>12, IrqStep
<1>13. CASE IrqDone BY <1>13, IrqDoneStep
<1>14. CASE UNCHANGED vars
  <2>1. UNCHANGED <<conf, on, corner, cpr, aggr, supply, job, next, plan, faults, clean>>
    BY <1>14 DEF vars
  <2>2. Valid' = Valid BY <2>1 DEF Valid
  <2>3. JobInv' /\ CleanInv' BY <1>1, <2>1 DEF JobInv, CleanInv
  <2>4. RestInv' BY <1>1, <2>1, RestSame
  <2>5. MuxInv' BY <1>1, <2>1, MuxSame
  <2>6. Left' <=> Left BY <2>1 DEF Left, Watch, MuxSuits, One, Two, Three, IsVdd, IsApm, Only
  <2>7. FitsIn(next)' <=> FitsIn(next) BY <2>1, <2>2 DEF FitsIn, At
  <2>8. WalkInv' BY <1>1, <2>1, <2>2, <2>6, <2>7 DEF WalkInv
  <2>9. QED BY <2>3, <2>4, <2>5, <2>8
<1>15. QED
  BY <1>3, <1>4, <1>5, <1>6, <1>7, <1>8, <1>9, <1>10, <1>11, <1>12, <1>13, <1>14
  DEF Next, Locked

LEMMA InitInv == Init => Inv
<1> SUFFICES ASSUME Init PROVE Inv OBVIOUS
<1>1. TypeOK BY InitType
<1>2. LastInRange
  <2>1. ASSUME NEW v \in Vregs, NEW c \in Corners(v)
        PROVE last[v][c] \in Table[v][c].floor .. Table[v][c].ceil
    <3>1. last[v][c] = Table[v][c].ol BY DEF Init
    <3>2. Table[v] \in Seq(Corner) BY TableOK
    <3>3. Table[v][c] \in Corner BY <3>2 DEF Corners
    <3>4. Table[v][c].floor \in Int /\ Table[v][c].ceil \in Int /\ Table[v][c].ol \in Int
      <4>1. Volts \subseteq Int BY TableOK DEF Volts
      <4>2. QED BY <3>3, <4>1 DEF Corner
    <3>5. Table[v][c].floor <= Table[v][c].ol /\ Table[v][c].ol <= Table[v][c].ceil
      BY TableOK DEF Corners
    <3>6. QED BY <3>1, <3>4, <3>5
  <2>2. QED BY <2>1 DEF LastInRange
<1>3. JobInv /\ CleanInv /\ WalkInv BY DEF Init, Idle, JobInv, CleanInv, WalkInv
<1>4. RestInv BY DEF Init, RestInv, Valid
<1>5. MuxInv
  <2>1. PICK vdd \in Boot : supply = [vdd |-> vdd, high |-> vdd >= conf.thr, acc |-> 0, sys |-> 0]
    BY DEF Init
  <2>2. vdd \in Int /\ conf.thr \in Int
    BY <1>1, ConfType, TableOK DEF Config, Volts
  <2>3. supply.vdd = vdd /\ (supply.high <=> vdd >= conf.thr) BY <2>1
  <2>4. QED BY <2>2, <2>3 DEF MuxInv, MuxSuits
<1>6. QED BY <1>1, <1>2, <1>3, <1>4, <1>5 DEF Inv

-----------------------------------------------------------------------------
(* What the loop runs on.                                                  *)

\* A target quotient serves every regulator that is on.
Serves(q) == \A v \in Valid : At(v).quot <= q

\* The loop runs only with CPR enabled, and that never while suspended.  With CPR enabled
\* the block has a quotient that serves, outside of updates and once one has succeeded;
\* the aggregate to be installed has one.
LoopInv ==
  /\ chip.loop => cpr.enabled
  /\ cpr.enabled => ~cpr.suspended
  /\ job.stage = "update" => job.kind # "irq"
  /\ cpr.enabled /\ clean /\ (job.kind \in {"none", "irq"} \/ job.stage = "ok") => Serves(chip.quot)
  /\ job.stage = "scale" /\ job.kind # "irq" => Serves(next.quot)

\* The aggregate has the highest quotient of those that are on.
LEMMA AggrServes == TypeOK => Serves(Aggregate.quot)
<1> SUFFICES ASSUME TypeOK PROVE Serves(Aggregate.quot) OBVIOUS
<1> DEFINE Quots == {At(v).quot : v \in Valid}
<1>1. Quots \in SUBSET Volts BY AtCorner DEF Corner
<1>2. \A q \in Quots : q <= MaxOf(Quots) BY <1>1, MaxType
<1>3. Aggregate.quot = MaxOf(Quots) BY DEF Aggregate, AggrOf
<1>4. QED BY <1>2, <1>3 DEF Serves

\* As long as corners and regulators stay, so does what serves them.
LEMMA ServesSame ==
  ASSUME UNCHANGED <<on, corner>>, NEW q PROVE Serves(q)' <=> \A v \in Valid : At(v).quot <= q'
<1>1. Valid' = Valid BY DEF Valid
<1>2. QED BY <1>1 DEF Serves, At

LEMMA LoopStep == Inv /\ LoopInv /\ [Next]_vars => LoopInv'
<1> SUFFICES ASSUME Inv, LoopInv, [Next]_vars PROVE LoopInv' OBVIOUS
<1>1. TypeOK /\ JobInv /\ CleanInv BY DEF Inv
<1>2. /\ chip \in [loop : BOOLEAN, irqEn : SUBSET Dirs, pending : Dirs \cup {"none"}, quot : Volts]
      /\ cpr \in [enabled : BOOLEAN, was : BOOLEAN, allowed : BOOLEAN, suspended : BOOLEAN,
                  modes : 0 .. MaxModes]
  BY <1>1 DEF TypeOK
<1>3. CASE Update
  <2>1. /\ UNCHANGED <<on, corner, clean>> /\ job.stage = "update" /\ job'.kind = job.kind
        /\ chip' = Stopped /\ cpr' = [cpr EXCEPT !.enabled = Enabled]
    BY <1>1, <1>3 DEF Update, TypeOK
  <2>2. ~chip'.loop BY <1>2, <2>1 DEF LoopInv, Stopped
  <2>3. cpr'.enabled = Enabled /\ cpr'.suspended = cpr.suspended BY <1>2, <2>1
  <2>4. cpr'.enabled => ~cpr'.suspended BY <2>3 DEF LoopInv, Enabled
  <2>5. job.kind \notin {"none", "irq"} BY <1>1, <2>1 DEF LoopInv, JobInv
  <2>6. CASE Valid = {}
    <3>1. ~cpr'.enabled /\ job'.stage = "ok" BY <1>1, <1>3, <2>3, <2>6 DEF Update, Enabled, TypeOK
    <3>2. QED BY <2>2, <3>1 DEF LoopInv
  <2>7. CASE Valid # {}
    <3>1. PICK new \in NewVolts(Aggregate) : next' = [Aggregate EXCEPT !.last = new]
      BY <1>3, <2>7 DEF Update
    <3>2. next'.quot = Aggregate.quot BY <3>1 DEF Aggregate, AggrOf
    <3>3. Serves(next.quot)' BY <1>1, <2>1, <3>2, AggrServes, ServesSame DEF Serves
    <3>4. job'.stage = "scale" BY <1>1, <1>3, <2>7 DEF Update, TypeOK
    <3>5. QED BY <2>1, <2>2, <2>4, <2>5, <3>3, <3>4 DEF LoopInv
  <2>8. QED BY <2>6, <2>7
<1>4. CASE UpdateFails \/ ClocksFail \/ WriteFails
  <2>1. /\ ~clean' /\ cpr' = cpr /\ job'.stage = "failed" /\ job'.kind = job.kind
        /\ chip' = chip \/ chip' = Stopped
    BY <1>1, <1>4 DEF UpdateFails, ClocksFail, WriteFails, TypeOK
  <2>2. chip'.loop => chip.loop BY <1>2, <2>1 DEF Stopped
  <2>3. QED BY <2>1, <2>2 DEF LoopInv
<1>5. CASE MakeWrite \/ HwRaise
  <2>1. UNCHANGED <<on, corner, cpr, job, next, clean>> BY <1>5 DEF MakeWrite, HwRaise
  <2>2. chip'.loop = chip.loop /\ chip'.quot = chip.quot BY <1>2, <1>5 DEF MakeWrite, HwRaise
  <2>3. QED BY <2>1, <2>2, ServesSame DEF LoopInv, Serves
<1>6. CASE Commit
  <2>1. /\ UNCHANGED <<on, corner, next>> /\ job.stage = "scale" /\ job.kind # "irq"
        /\ job'.kind = job.kind /\ job'.stage \in {"ok", "failed"}
        /\ cpr'.enabled = cpr.enabled /\ cpr'.suspended = cpr.suspended
    BY <1>1, <1>2, <1>6 DEF Commit, TypeOK
  <2>2. chip'.loop => cpr.enabled
    BY <1>2, <1>6 DEF Commit, Programmed, LoopInv
  <2>3. cpr.enabled => chip'.quot = next.quot BY <1>2, <1>6 DEF Commit, Programmed
  <2>4. QED BY <2>1, <2>2, <2>3, ServesSame DEF LoopInv, Serves
<1>7. CASE Return
  <2>1. /\ UNCHANGED <<cpr, chip, clean>> /\ job.stage \in {"ok", "failed"} /\ job'.stage = "ok"
        /\ job.stage = "ok" => UNCHANGED <<on, corner>>
    BY <1>7 DEF Return, Release, Idle
  <2>2. QED BY <1>1, <2>1, ServesSame DEF LoopInv, Serves, CleanInv
<1>8. CASE SetVoltage
  <2>1. PICK v \in conf.vregs : \E c \in Corners(v) :
          /\ corner' = [corner EXCEPT ![v] = c]
          /\ IF v \in on THEN Take("set", v, corner[v]) ELSE UNCHANGED job
    BY <1>8 DEF SetVoltage
  <2>2. UNCHANGED <<on, cpr, chip, next, clean>> /\ job.kind = "none" BY <1>8 DEF SetVoltage
  <2>3. CASE v \in on BY <2>1, <2>2, <2>3 DEF LoopInv, Take
  <2>4. CASE v \notin on
    <3>1. \A x \in on : corner'[x] = corner[x] BY <1>1, <2>1, <2>4 DEF TypeOK
    <3>2. Valid' = Valid /\ \A x \in Valid : Table[x][corner'[x]] = Table[x][corner[x]]
      BY <2>2, <3>1 DEF Valid
    <3>3. QED BY <1>1, <2>1, <2>2, <2>4, <3>2 DEF LoopInv, Serves, At, JobInv
  <2>5. QED BY <2>3, <2>4
<1>9. CASE EnableVreg \/ DisableVreg
  <2>1. /\ UNCHANGED <<corner, cpr, chip, next, clean>>
        /\ UNCHANGED <<on, job>> \/ \E v, old : Take("enable", v, old) \/ Take("disable", v, old)
    BY <1>9 DEF EnableVreg, DisableVreg
  <2>2. CASE UNCHANGED <<on, job>> BY <2>1, <2>2, ServesSame DEF LoopInv, Serves
  <2>3. CASE \E v, old : Take("enable", v, old) \/ Take("disable", v, old)
    <3>1. job'.stage = "update" /\ job'.kind \in {"enable", "disable"} BY <2>3 DEF Take
    <3>2. QED BY <2>1, <3>1 DEF LoopInv
  <2>4. QED BY <2>1, <2>2, <2>3
<1>10. CASE Suspend
  <2>1. UNCHANGED <<on, corner, job, next, clean>> BY <1>10 DEF Suspend
  <2>2. \/ UNCHANGED <<chip, cpr>>
        \/ chip' = Stopped /\ ~cpr'.enabled
    BY <1>2, <1>10 DEF Suspend
  <2>3. CASE UNCHANGED <<chip, cpr>> BY <2>1, <2>3, ServesSame DEF LoopInv, Serves
  <2>4. CASE chip' = Stopped /\ ~cpr'.enabled
    <3>1. ~chip'.loop BY <1>2, <2>4 DEF LoopInv, Stopped
    <3>2. QED BY <2>1, <2>4, <3>1, ServesSame DEF LoopInv, Serves
  <2>5. QED BY <2>2, <2>3, <2>4
<1>11. CASE Resume \/ ToggleClosedLoop
  <2>1. chip' = chip /\ cpr'.enabled = cpr.enabled /\ (cpr'.suspended => cpr.suspended)
    BY <1>2, <1>11 DEF Resume, ToggleClosedLoop
  <2>2. job'.stage = "update" /\ job'.kind \in {"resume", "toggle"}
    BY <1>11 DEF Resume, ToggleClosedLoop, Take
  <2>3. QED BY <2>1, <2>2 DEF LoopInv
<1>12. CASE IrqSpurious
  <2>1. UNCHANGED <<on, corner, cpr, job, next, clean>> BY <1>12 DEF IrqSpurious
  <2>2. chip'.quot = chip.quot /\ (chip'.loop => cpr.enabled)
    BY <1>2, <1>12 DEF IrqSpurious, Answered, LoopInv
  <2>3. QED BY <2>1, <2>2, ServesSame DEF LoopInv, Serves
<1>13. CASE Irq
  <2>1. UNCHANGED <<on, corner, cpr, chip, clean>> /\ job.kind = "none" BY <1>13 DEF Irq
  <2>2. job'.kind = "irq" /\ job'.stage = "scale" BY <1>13 DEF Irq, Idle
  <2>3. QED BY <2>1, <2>2, ServesSame DEF LoopInv, Serves
<1>14. CASE IrqDone
  <2>1. UNCHANGED <<on, corner, cpr, clean>> /\ job.kind = "irq" /\ job'.stage = "ok"
    BY <1>14 DEF IrqDone, Release, Idle
  <2>2. chip'.loop = chip.loop /\ chip'.quot = chip.quot BY <1>2, <1>14 DEF IrqDone, Answered
  <2>3. QED BY <2>1, <2>2, ServesSame DEF LoopInv, Serves
<1>15. CASE UNCHANGED vars
  <2>1. UNCHANGED <<on, corner, cpr, chip, job, next, clean>> BY <1>15 DEF vars
  <2>2. QED BY <2>1, ServesSame DEF LoopInv, Serves
<1>16. QED
  BY <1>3, <1>4, <1>5, <1>6, <1>7, <1>8, <1>9, <1>10, <1>11, <1>12, <1>13, <1>14, <1>15
  DEF Next, Locked

-----------------------------------------------------------------------------
(* References on the supplies.                                             *)

\* The references cover the regulators that are on, and the one that a handler is about
\* to drop; of VDD until undoing fails too, which takes a second failing call.
RefInv ==
  /\ job.kind = "enable" => job.v \in on
  /\ job.kind = "disable" => job.v \notin on
  /\ job.stage = "failed" => faults > 0
  /\ conf.sys => refs.sys >= Cardinality(on)
  /\ conf.sys /\ job.kind = "disable" => refs.sys >= Cardinality(on) + 1
  /\ faults <= 1 => refs.vdd >= Cardinality(on)

\* A regulator more or less.
LEMMA OnStep ==
  ASSUME TypeOK, NEW v \in Vregs
  PROVE /\ Cardinality(on) \in Nat
        /\ v \notin on => Cardinality(on \cup {v}) = Cardinality(on) + 1
        /\ v \in on => Cardinality(on \ {v}) = Cardinality(on) - 1
<1>1. IsFiniteSet(on) BY VregsFinite, FS_Subset DEF TypeOK
<1>2. QED BY <1>1, FS_CardinalityType, FS_AddElement, FS_RemoveElement

\* No reference, regulator or corner is touched, and what failed is counted.
LEMMA RefSame ==
  ASSUME TypeOK, RefInv, UNCHANGED <<conf, on, refs>>, faults' \in Nat, faults' >= faults,
         job'.stage = "failed" => faults' > 0,
         \/ job'.kind = job.kind /\ job'.v = job.v
         \/ job'.kind \notin {"enable", "disable"}
  PROVE RefInv'
<1>1. Cardinality(on) \in Nat BY OnStep DEF TypeOK
<1>2. refs.sys \in Int /\ refs.vdd \in Int /\ faults \in Int BY DEF TypeOK
<1>3. QED BY <1>1, <1>2 DEF RefInv

LEMMA RefStep == Inv /\ RefInv /\ [Next]_vars => RefInv'
<1> SUFFICES ASSUME Inv, RefInv, [Next]_vars PROVE RefInv' OBVIOUS
<1>1. TypeOK /\ JobInv /\ TypeOK' BY InvStep DEF Inv
<1>2. /\ refs \in [vdd : Int, sys : Int] /\ refs.vdd \in Int /\ refs.sys \in Int
      /\ job.v \in Vregs /\ on \subseteq Vregs
  BY <1>1 DEF TypeOK
<1>3. faults \in Nat /\ faults' \in Nat /\ Cardinality(on) \in Nat
  <2>1. faults \in Nat /\ faults' \in Nat BY <1>1 DEF TypeOK
  <2>2. Cardinality(on) \in Nat BY <1>1, <1>2, OnStep
  <2>3. QED BY <2>1, <2>2
<1>4. conf.sys => SysRef = 1 BY DEF SysRef
<1>5. SysRef \in {0, 1} BY DEF SysRef
<1>6. \A v \in Vregs : /\ Cardinality(on) \in Nat
                       /\ v \notin on => Cardinality(on \cup {v}) = Cardinality(on) + 1
                       /\ v \in on => Cardinality(on \ {v}) = Cardinality(on) - 1
  BY <1>1, OnStep
<1>7. CASE Update \/ UpdateFails \/ ClocksFail \/ WriteFails \/ Commit \/ MakeWrite
  <2>1. UNCHANGED <<conf, on, refs>> /\ job'.kind = job.kind /\ job'.v = job.v
    BY <1>1, <1>7 DEF Update, UpdateFails, ClocksFail, WriteFails, Commit, MakeWrite, TypeOK
  <2>2. /\ faults' = faults \/ faults' = faults + 1
        /\ job'.stage = "failed" => faults' = faults + 1 \/ job.stage = "failed"
    BY <1>1, <1>7 DEF Update, UpdateFails, ClocksFail, WriteFails, Commit, MakeWrite, TypeOK
  <2>3. faults' >= faults /\ (job'.stage = "failed" => faults' > 0) BY <1>3, <2>2 DEF RefInv
  <2>4. QED BY <1>1, <1>3, <2>1, <2>3, RefSame
<1>8. CASE Suspend \/ HwRaise \/ IrqSpurious \/ Irq \/ IrqDone \/ Resume \/ ToggleClosedLoop \/ SetVoltage
           \/ UNCHANGED vars
  <2>1. UNCHANGED <<conf, on, refs>> /\ (faults' = faults \/ faults' = faults + 1)
    BY <1>8 DEF Suspend, HwRaise, IrqSpurious, Irq, IrqDone, Resume, ToggleClosedLoop, SetVoltage, vars
  <2>2. \/ job' = job
        \/ job'.stage # "failed" /\ job'.kind \notin {"enable", "disable"}
    <3>1. CASE Suspend \/ HwRaise \/ IrqSpurious \/ UNCHANGED vars
      BY <3>1 DEF Suspend, HwRaise, IrqSpurious, vars
    <3>2. CASE Irq
      <4>1. job'.kind = "irq" /\ job'.stage = "scale" BY <3>2 DEF Irq, Idle
      <4>2. QED BY <4>1
    <3>3. CASE Resume \/ ToggleClosedLoop BY <3>3 DEF Resume, ToggleClosedLoop, Take
    <3>4. CASE SetVoltage BY <3>4 DEF SetVoltage, Take
    <3>5. CASE IrqDone
      <4>1. job'.kind = "none" /\ job'.stage = "ok" BY <3>5 DEF IrqDone, Release, Idle
      <4>2. QED BY <4>1
    <3>6. QED BY <1>8, <3>1, <3>2, <3>3, <3>4, <3>5
  <2>3. faults' >= faults /\ (job'.stage = "failed" => faults' > 0) BY <1>3, <2>1, <2>2 DEF RefInv
  <2>4. QED BY <1>1, <1>3, <2>1, <2>2, <2>3, RefSame
<1>9. CASE EnableVreg
  <2>1. PICK v \in conf.vregs \ on :
          \/ /\ refs' = [vdd |-> refs.vdd + 1, sys |-> refs.sys + SysRef]
             /\ on' = on \cup {v} /\ Take("enable", v, corner[v]) /\ faults' = faults
          \/ /\ \E got \in {0, SysRef} : refs' = [refs EXCEPT !.sys = refs.sys + got]
             /\ faults' = faults + 1 /\ UNCHANGED <<on, job>>
    BY <1>9 DEF EnableVreg
  <2>2. conf' = conf /\ job.kind = "none" BY <1>9 DEF EnableVreg
  <2>3. v \in Vregs /\ v \notin on BY <1>1, ConfType DEF Config
  <2>4. CASE /\ refs' = [vdd |-> refs.vdd + 1, sys |-> refs.sys + SysRef]
             /\ on' = on \cup {v} /\ Take("enable", v, corner[v]) /\ faults' = faults
    <3>1. Cardinality(on') = Cardinality(on) + 1 BY <1>6, <2>3, <2>4
    <3>2. job'.kind = "enable" /\ job'.v = v /\ job'.stage = "update" BY <2>4 DEF Take
    <3>3. refs'.vdd = refs.vdd + 1 /\ (conf.sys => refs'.sys = refs.sys + 1) BY <1>4, <2>4
    <3>4. QED BY <1>2, <1>3, <1>6, <2>2, <2>3, <2>4, <3>1, <3>2, <3>3 DEF RefInv
  <2>5. CASE /\ \E got \in {0, SysRef} : refs' = [refs EXCEPT !.sys = refs.sys + got]
             /\ faults' = faults + 1 /\ UNCHANGED <<on, job>>
    <3>1. refs'.vdd = refs.vdd /\ refs'.sys \in Int /\ refs'.sys >= refs.sys BY <1>2, <1>5, <2>5
    <3>2. QED BY <1>2, <1>3, <1>6, <2>2, <2>3, <2>5, <3>1 DEF RefInv
  <2>6. QED BY <2>1, <2>4, <2>5
<1>10. CASE DisableVreg
  <2>1. PICK v \in on :
          \/ /\ refs' = [refs EXCEPT !.vdd = refs.vdd - 1]
             /\ on' = on \ {v} /\ Take("disable", v, corner[v]) /\ faults' = faults
          \/ faults' = faults + 1 /\ UNCHANGED <<refs, on, job>>
    BY <1>10 DEF DisableVreg
  <2>2. conf' = conf /\ job.kind = "none" BY <1>10 DEF DisableVreg
  <2>3. CASE /\ refs' = [refs EXCEPT !.vdd = refs.vdd - 1]
             /\ on' = on \ {v} /\ Take("disable", v, corner[v]) /\ faults' = faults
    <3>1. Cardinality(on') = Cardinality(on) - 1 BY <1>2, <1>6, <2>3
    <3>2. job'.kind = "disable" /\ job'.v = v /\ job'.stage = "update" BY <2>3 DEF Take
    <3>3. refs'.vdd = refs.vdd - 1 /\ refs'.sys = refs.sys BY <1>2, <2>3
    <3>4. QED BY <1>2, <1>3, <1>6, <2>2, <2>3, <3>1, <3>2, <3>3 DEF RefInv
  <2>4. CASE faults' = faults + 1 /\ UNCHANGED <<refs, on, job>>
    BY <1>1, <1>3, <2>2, <2>4, RefSame DEF RefInv
  <2>5. QED BY <2>1, <2>3, <2>4
<1>11. CASE Return
  <2>1. /\ conf' = conf /\ job.stage \in {"ok", "failed"}
        /\ job'.kind = "none" /\ job'.stage = "ok"
        /\ \/ refs' = GiveBack /\ faults' = faults
           \/ refs' = refs /\ faults' = faults + 1
    BY <1>11 DEF Return, Release, Idle
  <2>2. CASE job.kind = "enable" /\ job.stage = "failed"
    <3>1. on' = on \ {job.v} BY <1>11, <2>2 DEF Return
    <3>2. Cardinality(on') = Cardinality(on) - 1 BY <1>2, <1>6, <2>2, <3>1 DEF RefInv
    <3>3. refs' = GiveBack => refs'.vdd = refs.vdd - 1 /\ refs'.sys = refs.sys
      BY <1>2, <2>2 DEF GiveBack
    <3>4. QED BY <1>2, <1>3, <1>6, <2>1, <2>2, <3>2, <3>3 DEF RefInv
  <2>3. CASE job.kind = "disable" /\ job.stage = "failed"
    <3>1. on' = on \cup {job.v} BY <1>11, <2>3 DEF Return
    <3>2. Cardinality(on') = Cardinality(on) + 1 BY <1>2, <1>6, <2>3, <3>1 DEF RefInv
    <3>3. refs' = GiveBack => refs'.vdd = refs.vdd + 1 /\ refs'.sys = refs.sys
      BY <1>2, <2>3 DEF GiveBack
    <3>4. faults > 0 BY <2>3 DEF RefInv
    <3>5. QED BY <1>2, <1>3, <1>6, <2>1, <2>3, <3>2, <3>3, <3>4 DEF RefInv
  <2>4. CASE job.kind = "disable" /\ job.stage = "ok"
    <3>1. on' = on BY <1>11, <2>4 DEF Return
    <3>2. refs' = GiveBack => refs'.vdd = refs.vdd /\ (conf.sys => refs'.sys = refs.sys - 1)
      BY <1>2, <1>4, <2>4 DEF GiveBack
    <3>3. QED BY <1>2, <1>3, <1>6, <2>1, <2>4, <3>1, <3>2 DEF RefInv
  <2>5. CASE job.kind # "disable" /\ (job.kind # "enable" \/ job.stage # "failed")
    <3>1. on' = on BY <1>11, <2>5 DEF Return
    <3>2. refs' = refs BY <2>1, <2>5 DEF GiveBack
    <3>3. QED BY <1>2, <1>3, <1>6, <2>1, <2>5, <3>1, <3>2 DEF RefInv
  <2>6. QED BY <2>1, <2>2, <2>3, <2>4, <2>5
<1>12. QED BY <1>7, <1>8, <1>9, <1>10, <1>11 DEF Next, Locked

-----------------------------------------------------------------------------
(* The rails move in order.                                                *)

To(what, val) == {w \in Writes : w.what = what /\ w.val = val}
Before(p, i, W) == \E j \in 1 .. i - 1 : p[j] \in W

\* What is left to write of the other two supplies is what the aggregate a asks for.
Targets(p, a) ==
  \A i \in 1 .. Len(p) : /\ p[i].what = "sys" => p[i].val = a.sys
                         /\ p[i].what = "acc" => p[i].val = a.acc

\* A walk down from the rails s: VDD only falls, once the accelerator is there; the
\* system supply comes after it.
Falls(p, s, a) ==
  /\ s.vdd >= a.last
  /\ \A i \in 1 .. Len(p) :
       /\ p[i].what = "vdd" =>
            /\ a.last <= p[i].val /\ p[i].val <= s.vdd
            /\ \A j \in i + 1 .. Len(p) : p[j].what = "vdd" => p[j].val <= p[i].val
            /\ conf.acc /\ a.acc # 0 => s.acc <= a.acc \/ Before(p, i, To("acc", a.acc))
       /\ p[i].what = "sys" => s.vdd = a.last \/ Before(p, i, To("vdd", a.last))

\* A walk up: VDD only rises, once the system supply is there; the accelerator comes
\* after it.
Rises(p, s, a) ==
  /\ s.vdd <= a.last
  /\ \A i \in 1 .. Len(p) :
       /\ p[i].what = "vdd" =>
            /\ s.vdd <= p[i].val /\ p[i].val <= a.last
            /\ \A j \in i + 1 .. Len(p) : p[j].what = "vdd" => p[i].val <= p[j].val
            /\ conf.sys => s.sys >= a.sys \/ Before(p, i, To("sys", a.sys))
       /\ p[i].what = "acc" => s.vdd = a.last \/ Before(p, i, To("vdd", a.last))

\* While nothing has failed, a walk goes down or up.
RailInv ==
  job.stage = "scale" /\ clean =>
    Targets(plan, next) /\ (Falls(plan, supply, next) \/ Rises(plan, supply, next))

Rails == [vdd : Volts, high : BOOLEAN, acc : Volts, sys : Volts]

\* What came before a write has been made, or still comes before it.
LEMMA BeforeTail ==
  ASSUME NEW p \in Seq(Writes), p # <<>>, NEW W, NEW i \in 1 .. Len(Tail(p)), Before(p, i + 1, W)
  PROVE Head(p) \in W \/ Before(Tail(p), i, W)
<1> DEFINE q == Tail(p)
<1>1. Len(q) = Len(p) - 1 /\ Len(p) \in Nat /\ Head(p) = p[1] OBVIOUS
<1>2. \A k \in 1 .. Len(q) : q[k] = p[k + 1] BY <1>1
<1> HIDE DEF q
<1>3. i \in 1 .. Len(q) BY DEF q
<1>4. PICK j \in 1 .. (i + 1) - 1 : p[j] \in W BY DEF Before
<1>5. CASE j = 1 BY <1>1, <1>4, <1>5
<1>6. CASE j > 1
  <2>1. j - 1 \in 1 .. i - 1 /\ j - 1 \in 1 .. Len(q) /\ (j - 1) + 1 = j BY <1>1, <1>3, <1>6
  <2>2. q[j - 1] = p[(j - 1) + 1] BY <1>2, <2>1
  <2>3. q[j - 1] \in W BY <1>4, <2>1, <2>2
  <2>4. Before(q, i, W) BY <2>1, <2>3 DEF Before
  <2>5. QED BY <2>4 DEF q
<1>7. QED BY <1>4, <1>5, <1>6

\* A write that is made leaves a walk down, or up, to go on.
LEMMA RailTail ==
  ASSUME NEW p \in Seq(Writes), p # <<>>, NEW s \in Rails, NEW r \in Rails, NEW a \in Aggr,
         Targets(p, a), supply = s, r = Applied(Head(p))
  PROVE /\ Targets(Tail(p), a)
        /\ Falls(p, s, a) => Falls(Tail(p), r, a)
        /\ Rises(p, s, a) => Rises(Tail(p), r, a)
<1> DEFINE h == Head(p)
           q == Tail(p)
<1>1. Len(q) = Len(p) - 1 /\ Len(p) \in Nat /\ Len(p) >= 1 /\ h = p[1] /\ h \in Writes OBVIOUS
<1>2. \A k \in 1 .. Len(q) : k + 1 \in 1 .. Len(p) /\ q[k] = p[k + 1] BY <1>1
<1>3. \A k \in 1 .. Len(q) : q[k] \in Writes BY <1>1
<1>4. \A k \in 1 .. Len(q) : \A W : Before(p, k + 1, W) => h \in W \/ Before(q, k, W)
  BY BeforeTail
<1>5. Volts \subseteq Int BY TableOK DEF Volts
<1>6. /\ r.vdd = IF h.what = "vdd" THEN h.val ELSE s.vdd
      /\ r.acc = IF h.what = "acc" THEN h.val ELSE s.acc
      /\ r.sys = IF h.what = "sys" THEN h.val ELSE s.sys
  BY <1>1 DEF Applied, Writes, Rails
<1>7. /\ s.vdd \in Int /\ s.acc \in Int /\ s.sys \in Int /\ r.vdd \in Int /\ r.acc \in Int
      /\ r.sys \in Int /\ a.last \in Int /\ a.acc \in Int /\ a.sys \in Int /\ h.val \in Int
      /\ \A k \in 1 .. Len(q) : q[k].val \in Int
  <2>1. s.vdd \in Int /\ s.acc \in Int /\ s.sys \in Int /\ r.vdd \in Int /\ r.acc \in Int /\ r.sys \in Int
    BY <1>5 DEF Rails
  <2>2. a.last \in Int /\ a.acc \in Int /\ a.sys \in Int BY <1>5 DEF Aggr
  <2>3. h.val \in Int BY <1>1, <1>5 DEF Writes
  <2>4. \A k \in 1 .. Len(q) : q[k].val \in Int BY <1>3, <1>5 DEF Writes
  <2>5. QED BY <2>1, <2>2, <2>3, <2>4
<1>8. /\ h.what = "sys" => h.val = a.sys
      /\ h.what = "acc" => h.val = a.acc
  BY <1>1 DEF Targets
<1>9. Targets(q, a) BY <1>2 DEF Targets
<1> HIDE DEF h, q
<1>10. ASSUME Falls(p, s, a) PROVE Falls(q, r, a)
  <2>1. a.last <= r.vdd /\ r.vdd <= s.vdd BY <1>1, <1>6, <1>7, <1>10 DEF Falls
  <2>2. ASSUME NEW i \in 1 .. Len(q), q[i].what = "vdd"
        PROVE /\ a.last <= q[i].val /\ q[i].val <= r.vdd
              /\ \A j \in i + 1 .. Len(q) : q[j].what = "vdd" => q[j].val <= q[i].val
              /\ conf.acc /\ a.acc # 0 => r.acc <= a.acc \/ Before(q, i, To("acc", a.acc))
    <3>1. i + 1 \in 1 .. Len(p) /\ q[i] = p[i + 1] BY <1>2
    <3>2. a.last <= q[i].val /\ q[i].val <= s.vdd BY <1>10, <2>2, <3>1 DEF Falls
    <3>3. h.what = "vdd" => q[i].val <= h.val
      <4>1. i + 1 \in 1 + 1 .. Len(p) /\ 1 \in 1 .. Len(p) BY <1>1, <3>1
      <4>2. QED BY <1>1, <1>10, <2>2, <3>1, <4>1 DEF Falls
    <3>4. q[i].val <= r.vdd BY <1>6, <3>2, <3>3
    <3>5. ASSUME NEW j \in i + 1 .. Len(q), q[j].what = "vdd" PROVE q[j].val <= q[i].val
      <4>1. j \in 1 .. Len(q) /\ j + 1 \in (i + 1) + 1 .. Len(p) BY <1>1, <3>5
      <4>2. q[j] = p[j + 1] BY <1>2, <4>1
      <4>3. QED BY <1>10, <2>2, <3>1, <3>5, <4>1, <4>2 DEF Falls
    <3>6. ASSUME conf.acc, a.acc # 0 PROVE r.acc <= a.acc \/ Before(q, i, To("acc", a.acc))
      <4>1. s.acc <= a.acc \/ Before(p, i + 1, To("acc", a.acc))
        BY <1>10, <2>2, <3>1, <3>6 DEF Falls
      <4>2. h \in To("acc", a.acc) => h.what = "acc" BY DEF To
      <4>3. s.acc <= a.acc => r.acc <= a.acc BY <1>6, <1>7, <1>8
      <4>4. h.what = "acc" => r.acc <= a.acc BY <1>6, <1>7, <1>8
      <4>5. QED BY <1>4, <4>1, <4>2, <4>3, <4>4
    <3>7. QED BY <3>2, <3>4, <3>5, <3>6
  <2>3. ASSUME NEW i \in 1 .. Len(q), q[i].what = "sys"
        PROVE r.vdd = a.last \/ Before(q, i, To("vdd", a.last))
    <3>1. i + 1 \in 1 .. Len(p) /\ q[i] = p[i + 1] BY <1>2
    <3>2. s.vdd = a.last \/ Before(p, i + 1, To("vdd", a.last)) BY <1>10, <2>3, <3>1 DEF Falls
    <3>3. h \in To("vdd", a.last) => r.vdd = a.last BY <1>6 DEF To
    <3>4. s.vdd = a.last => r.vdd = a.last BY <1>7, <2>1
    <3>5. QED BY <1>4, <3>2, <3>3, <3>4
  <2>4. QED BY <1>7, <2>1, <2>2, <2>3 DEF Falls
<1>11. ASSUME Rises(p, s, a) PROVE Rises(q, r, a)
  <2>1. s.vdd <= r.vdd /\ r.vdd <= a.last BY <1>1, <1>6, <1>7, <1>11 DEF Rises
  <2>2. ASSUME NEW i \in 1 .. Len(q), q[i].what = "vdd"
        PROVE /\ r.vdd <= q[i].val /\ q[i].val <= a.last
              /\ \A j \in i + 1 .. Len(q) : q[j].what = "vdd" => q[i].val <= q[j].val
              /\ conf.sys => r.sys >= a.sys \/ Before(q, i, To("sys", a.sys))
    <3>1. i + 1 \in 1 .. Len(p) /\ q[i] = p[i + 1] BY <1>2
    <3>2. s.vdd <= q[i].val /\ q[i].val <= a.last BY <1>11, <2>2, <3>1 DEF Rises
    <3>3. h.what = "vdd" => h.val <= q[i].val
      <4>1. i + 1 \in 1 + 1 .. Len(p) /\ 1 \in 1 .. Len(p) BY <1>1, <3>1
      <4>2. QED BY <1>1, <1>11, <2>2, <3>1, <4>1 DEF Rises
    <3>4. r.vdd <= q[i].val BY <1>6, <3>2, <3>3
    <3>5. ASSUME NEW j \in i + 1 .. Len(q), q[j].what = "vdd" PROVE q[i].val <= q[j].val
      <4>1. j \in 1 .. Len(q) /\ j + 1 \in (i + 1) + 1 .. Len(p) BY <1>1, <3>5
      <4>2. q[j] = p[j + 1] BY <1>2, <4>1
      <4>3. QED BY <1>11, <2>2, <3>1, <3>5, <4>1, <4>2 DEF Rises
    <3>6. ASSUME conf.sys PROVE r.sys >= a.sys \/ Before(q, i, To("sys", a.sys))
      <4>1. s.sys >= a.sys \/ Before(p, i + 1, To("sys", a.sys))
        BY <1>11, <2>2, <3>1, <3>6 DEF Rises
      <4>2. h \in To("sys", a.sys) => h.what = "sys" BY DEF To
      <4>3. s.sys >= a.sys => r.sys >= a.sys BY <1>6, <1>7, <1>8
      <4>4. h.what = "sys" => r.sys >= a.sys BY <1>6, <1>7, <1>8
      <4>5. QED BY <1>4, <4>1, <4>2, <4>3, <4>4
    <3>7. QED BY <3>2, <3>4, <3>5, <3>6
  <2>3. ASSUME NEW i \in 1 .. Len(q), q[i].what = "acc"
        PROVE r.vdd = a.last \/ Before(q, i, To("vdd", a.last))
    <3>1. i + 1 \in 1 .. Len(p) /\ q[i] = p[i + 1] BY <1>2
    <3>2. s.vdd = a.last \/ Before(p, i + 1, To("vdd", a.last)) BY <1>11, <2>3, <3>1 DEF Rises
    <3>3. h \in To("vdd", a.last) => r.vdd = a.last BY <1>6 DEF To
    <3>4. s.vdd = a.last => r.vdd = a.last BY <1>7, <2>1
    <3>5. QED BY <1>4, <3>2, <3>3, <3>4
  <2>4. QED BY <1>7, <2>1, <2>2, <2>3 DEF Rises
<1>12. QED BY <1>9, <1>10, <1>11 DEF q

LEMMA Joined ==
  ASSUME NEW A \in Seq(Writes), NEW B \in Seq(Writes)
  PROVE /\ A \o B \in Seq(Writes) /\ Len(A \o B) = Len(A) + Len(B)
        /\ \A k \in 1 .. Len(A) : (A \o B)[k] = A[k]
        /\ \A k \in 1 .. Len(B) : (A \o B)[Len(A) + k] = B[k]
<1>1. A \o B \in Seq(Writes) /\ Len(A \o B) = Len(A) + Len(B) OBVIOUS
<1>2. \A k \in 1 .. Len(A) : (A \o B)[k] = A[k] OBVIOUS
<1>3. ASSUME NEW k \in 1 .. Len(B) PROVE (A \o B)[Len(A) + k] = B[k]
  <2>1. Len(A) \in Nat /\ Len(B) \in Nat OBVIOUS
  <2>2. Len(A) + k \in 1 .. Len(A) + Len(B) /\ ~(Len(A) + k <= Len(A))
        /\ (Len(A) + k) - Len(A) = k
    BY <2>1
  <2>3. (A \o B)[Len(A) + k] = B[(Len(A) + k) - Len(A)] BY <2>2
  <2>4. QED BY <2>2, <2>3
<1>4. QED BY <1>1, <1>2, <1>3

\* A walk of parts X and Z around a stop M and the last write of VDD.
Walk(X, M, w, Z) == ((X \o M) \o <<w>>) \o Z

\* Where its parts are.
Placed(p, X, M, w, Z) ==
  LET n == Len(X) + Len(M) + 1
  IN /\ p \in Seq(Writes) /\ Len(p) = n + Len(Z) /\ p[n] = w
     /\ \A k \in 1 .. Len(X) : p[k] = X[k]
     /\ \A k \in 1 .. Len(M) : p[Len(X) + k] = M[k]
     /\ \A k \in 1 .. Len(Z) : p[n + k] = Z[k]

LEMMA Parts ==
  ASSUME NEW X \in Seq(Writes), NEW M \in Seq(Writes), NEW w \in Writes, NEW Z \in Seq(Writes)
  PROVE Placed(Walk(X, M, w, Z), X, M, w, Z)
<1> DEFINE A == X \o M
           B == A \o <<w>>
           p == B \o Z
<1>1. A \in Seq(Writes) /\ Len(A) = Len(X) + Len(M)
      /\ (\A k \in 1 .. Len(X) : A[k] = X[k])
      /\ \A k \in 1 .. Len(M) : A[Len(X) + k] = M[k]
  BY Joined
<1> HIDE DEF A
<1>2. B \in Seq(Writes) /\ Len(B) = Len(A) + 1 /\ B[Len(A) + 1] = w
      /\ \A k \in 1 .. Len(A) : B[k] = A[k]
  <2>1. <<w>> \in Seq(Writes) /\ Len(<<w>>) = 1 /\ <<w>>[1] = w OBVIOUS
  <2>2. /\ B \in Seq(Writes) /\ Len(B) = Len(A) + Len(<<w>>)
        /\ \A k \in 1 .. Len(A) : B[k] = A[k]
        /\ \A k \in 1 .. Len(<<w>>) : B[Len(A) + k] = <<w>>[k]
    BY <1>1, <2>1, Joined
  <2>3. 1 \in 1 .. Len(<<w>>) BY <2>1
  <2>4. QED BY <2>1, <2>2, <2>3
<1> HIDE DEF B
<1>3. p \in Seq(Writes) /\ Len(p) = Len(B) + Len(Z)
      /\ (\A k \in 1 .. Len(B) : p[k] = B[k])
      /\ \A k \in 1 .. Len(Z) : p[Len(B) + k] = Z[k]
  BY <1>2, Joined
<1> HIDE DEF p
<1>4. Len(X) \in Nat /\ Len(M) \in Nat /\ Len(Z) \in Nat OBVIOUS
<1>5. \A k \in 1 .. Len(X) : p[k] = X[k]
  <2>1. ASSUME NEW k \in 1 .. Len(X) PROVE p[k] = X[k]
    <3>1. k \in 1 .. Len(A) /\ k \in 1 .. Len(B) BY <1>1, <1>2, <1>4
    <3>2. QED BY <1>1, <1>2, <1>3, <3>1
  <2>2. QED BY <2>1
<1>6. \A k \in 1 .. Len(M) : p[Len(X) + k] = M[k]
  <2>1. ASSUME NEW k \in 1 .. Len(M) PROVE p[Len(X) + k] = M[k]
    <3>1. Len(X) + k \in 1 .. Len(A) /\ Len(X) + k \in 1 .. Len(B) BY <1>1, <1>2, <1>4
    <3>2. QED BY <1>1, <1>2, <1>3, <3>1
  <2>2. QED BY <2>1
<1>7. p[Len(A) + 1] = w
  <2>1. Len(A) + 1 \in 1 .. Len(B) BY <1>1, <1>2, <1>4
  <2>2. QED BY <1>2, <1>3, <2>1
<1>8. QED BY <1>1, <1>2, <1>3, <1>5, <1>6, <1>7 DEF p, B, A, Walk, Placed

\* The stop at the threshold with the switch of the mux, between the voltages lo and hi.
Stop(M, lo, hi) ==
  \A k \in 1 .. Len(M) :
    \/ M[k].what = "apm"
    \/ k = 1 /\ M[k].what = "vdd" /\ lo <= M[k].val /\ M[k].val <= hi

\* What is written where: up to x for the one supply, at n VDD arrives, beyond for the other.
LaidOut(p, x, n, XW, w, lo, hi, ZW) ==
  /\ x \in Nat /\ n \in Nat /\ x < n /\ n <= Len(p) /\ p[n] = w
  /\ \A k \in 1 .. x : p[k] \in XW
  /\ \A k \in 1 .. Len(p) :
       \/ k \in 1 .. x /\ p[k] \in XW
       \/ k \in x + 1 .. n - 1 /\ p[k].what = "apm"
       \/ k = x + 1 /\ k < n /\ p[k].what = "vdd" /\ lo <= p[k].val /\ p[k].val <= hi
       \/ k = n /\ p[k] = w
       \/ k \in n + 1 .. Len(p) /\ p[k] \in ZW

LEMMA Layout ==
  ASSUME NEW XW \in SUBSET Writes, NEW ZW \in SUBSET Writes, NEW lo, NEW hi,
         NEW X \in Seq(XW), NEW Z \in Seq(ZW), NEW M \in Seq(Writes), Stop(M, lo, hi),
         NEW w \in Writes
  PROVE LaidOut(Walk(X, M, w, Z), Len(X), Len(X) + Len(M) + 1, XW, w, lo, hi, ZW)
<1> DEFINE p == Walk(X, M, w, Z)
           x == Len(X)
           n == Len(X) + Len(M) + 1
<1>1. X \in Seq(Writes) /\ Z \in Seq(Writes) OBVIOUS
<1>2. /\ p \in Seq(Writes) /\ Len(p) = n + Len(Z) /\ p[n] = w
      /\ \A k \in 1 .. x : p[k] = X[k]
      /\ \A k \in 1 .. Len(M) : p[x + k] = M[k]
      /\ \A k \in 1 .. Len(Z) : p[n + k] = Z[k]
  <2>1. Placed(p, X, M, w, Z) BY <1>1, Parts
  <2> HIDE DEF p
  <2>2. QED BY <2>1 DEF Placed
<1>3. Len(p) = n + Len(Z) BY <1>2
<1>4. x \in Nat /\ Len(M) \in Nat /\ Len(Z) \in Nat /\ n = x + Len(M) + 1 OBVIOUS
<1>5. \A k \in 1 .. x : X[k] \in XW OBVIOUS
<1>6. \A k \in 1 .. Len(Z) : Z[k] \in ZW OBVIOUS
<1> HIDE DEF p, n, x
<1>7. ASSUME NEW k \in 1 .. Len(p)
      PROVE \/ k \in 1 .. x /\ p[k] \in XW
            \/ k \in x + 1 .. n - 1 /\ p[k].what = "apm"
            \/ k = x + 1 /\ k < n /\ p[k].what = "vdd" /\ lo <= p[k].val /\ p[k].val <= hi
            \/ k = n /\ p[k] = w
            \/ k \in n + 1 .. Len(p) /\ p[k] \in ZW
  <2>1. CASE k \in 1 .. x BY <1>2, <1>5, <2>1
  <2>2. CASE k \in x + 1 .. n - 1
    <3>1. k - x \in 1 .. Len(M) /\ x + (k - x) = k BY <1>4, <2>2
    <3>2. p[k] = M[k - x] BY <1>2, <3>1
    <3>3. \/ M[k - x].what = "apm"
          \/ k - x = 1 /\ M[k - x].what = "vdd" /\ lo <= M[k - x].val /\ M[k - x].val <= hi
      BY <3>1 DEF Stop
    <3>4. k - x = 1 => k = x + 1 /\ k < n BY <1>4, <2>2
    <3>5. QED BY <2>2, <3>2, <3>3, <3>4
  <2>3. CASE k = n BY <1>2, <2>3
  <2>4. CASE k \in n + 1 .. Len(p)
    <3>1. k - n \in 1 .. Len(Z) /\ n + (k - n) = k BY <1>3, <1>4, <2>4
    <3>2. p[k] = Z[k - n] BY <1>2, <3>1
    <3>3. QED BY <1>6, <2>4, <3>1, <3>2
  <2>5. k \in 1 .. x \/ k \in x + 1 .. n - 1 \/ k = n \/ k \in n + 1 .. Len(p) BY <1>3, <1>4
  <2>6. QED BY <2>1, <2>2, <2>3, <2>4, <2>5
<1>8. \A k \in 1 .. x : p[k] \in XW BY <1>2, <1>5
<1>9. x \in Nat /\ n \in Nat /\ x < n /\ n <= Len(p) BY <1>3, <1>4
<1>10. QED BY <1>2, <1>7, <1>8, <1>9 DEF p, n, x, LaidOut

\* Down: the accelerator, the mux, VDD, the system supply.
LEMMA DownRail ==
  ASSUME NEW a \in Aggr, NEW s \in Rails, a.last <= s.vdd,
         NEW X \in Seq(To("acc", a.acc)), conf.acc /\ a.acc # 0 => Len(X) >= 1,
         NEW M \in Seq(Writes), Stop(M, a.last, s.vdd),
         NEW w \in To("vdd", a.last), NEW Z \in Seq(To("sys", a.sys))
  PROVE LET p == Walk(X, M, w, Z) IN Targets(p, a) /\ Falls(p, s, a)
<1> DEFINE p == Walk(X, M, w, Z)
           x == Len(X)
           n == Len(X) + Len(M) + 1
<1>1. /\ To("acc", a.acc) \in SUBSET Writes /\ To("sys", a.sys) \in SUBSET Writes
      /\ w \in Writes /\ w.what = "vdd" /\ w.val = a.last
  BY DEF To
<1>2. LaidOut(p, x, n, To("acc", a.acc), w, a.last, s.vdd, To("sys", a.sys))
  BY <1>1, Layout
<1> DEFINE Part(k) ==
             \/ k \in 1 .. x /\ p[k] \in To("acc", a.acc)
             \/ k \in x + 1 .. n - 1 /\ p[k].what = "apm"
             \/ /\ k = x + 1 /\ k < n /\ p[k].what = "vdd"
                /\ a.last <= p[k].val /\ p[k].val <= s.vdd
             \/ k = n /\ p[k] = w
             \/ k \in n + 1 .. Len(p) /\ p[k] \in To("sys", a.sys)
<1>3. /\ x \in Nat /\ n \in Nat /\ x < n /\ n <= Len(p) /\ p[n] = w
      /\ \A k \in 1 .. x : p[k] \in To("acc", a.acc)
      /\ \A k \in 1 .. Len(p) : Part(k)
  BY <1>2 DEF LaidOut
<1>a. conf.acc /\ a.acc # 0 => x >= 1 OBVIOUS
<1> HIDE DEF p, n, x
<1>4. Targets(p, a) BY <1>1, <1>3 DEF Targets, To
<1>5. a.last \in Int /\ s.vdd \in Int BY TableOK DEF Aggr, Rails, Volts
<1>6. ASSUME NEW i \in 1 .. Len(p), p[i].what = "vdd"
      PROVE /\ a.last <= p[i].val /\ p[i].val <= s.vdd
            /\ \A j \in i + 1 .. Len(p) : p[j].what = "vdd" => p[j].val <= p[i].val
            /\ conf.acc /\ a.acc # 0 => Before(p, i, To("acc", a.acc))
  <2>1. \/ i = x + 1 /\ i < n /\ a.last <= p[i].val /\ p[i].val <= s.vdd
        \/ i = n /\ p[i] = w
    BY <1>3, <1>6 DEF To
  <2>2. a.last <= p[i].val /\ p[i].val <= s.vdd BY <1>1, <1>5, <2>1
  <2>3. ASSUME NEW j \in i + 1 .. Len(p), p[j].what = "vdd" PROVE p[j].val <= p[i].val
    <3>1. j \in 1 .. Len(p) /\ j > i BY <2>3
    <3>2. j = x + 1 \/ (j = n /\ p[j] = w) BY <1>3, <2>3, <3>1 DEF To
    <3>3. i >= x + 1 BY <1>3, <2>1
    <3>4. p[j] = w BY <1>3, <3>1, <3>2, <3>3
    <3>5. QED BY <1>1, <2>2, <3>4
  <2>4. ASSUME conf.acc /\ a.acc # 0 PROVE Before(p, i, To("acc", a.acc))
    <3>1. x >= 1 BY <1>a, <2>4
    <3>2. 1 \in 1 .. i - 1 BY <1>3, <2>1, <3>1
    <3>3. p[1] \in To("acc", a.acc) BY <1>3, <3>1
    <3>4. QED BY <3>2, <3>3 DEF Before
  <2>5. QED BY <2>2, <2>3, <2>4
<1>7. ASSUME NEW i \in 1 .. Len(p), p[i].what = "sys"
      PROVE Before(p, i, To("vdd", a.last))
  <2>1. i \in n + 1 .. Len(p) BY <1>1, <1>3, <1>7 DEF To
  <2>2. n \in 1 .. i - 1 BY <1>3, <2>1
  <2>3. w \in To("vdd", a.last) OBVIOUS
  <2>4. QED BY <1>3, <2>2, <2>3 DEF Before
<1>8. Falls(p, s, a) BY <1>5, <1>6, <1>7 DEF Falls
<1>9. QED BY <1>4, <1>8 DEF p

\* Up: the system supply, the mux, VDD, the accelerator.
LEMMA UpRail ==
  ASSUME NEW a \in Aggr, NEW s \in Rails, s.vdd <= a.last,
         NEW X \in Seq(To("sys", a.sys)), conf.sys => Len(X) >= 1,
         NEW M \in Seq(Writes), Stop(M, s.vdd, a.last),
         NEW w \in To("vdd", a.last), NEW Z \in Seq(To("acc", a.acc))
  PROVE LET p == Walk(X, M, w, Z) IN Targets(p, a) /\ Rises(p, s, a)
<1> DEFINE p == Walk(X, M, w, Z)
           x == Len(X)
           n == Len(X) + Len(M) + 1
<1>1. /\ To("sys", a.sys) \in SUBSET Writes /\ To("acc", a.acc) \in SUBSET Writes
      /\ w \in Writes /\ w.what = "vdd" /\ w.val = a.last
  BY DEF To
<1>2. LaidOut(p, x, n, To("sys", a.sys), w, s.vdd, a.last, To("acc", a.acc))
  BY <1>1, Layout
<1> DEFINE Part(k) ==
             \/ k \in 1 .. x /\ p[k] \in To("sys", a.sys)
             \/ k \in x + 1 .. n - 1 /\ p[k].what = "apm"
             \/ /\ k = x + 1 /\ k < n /\ p[k].what = "vdd"
                /\ s.vdd <= p[k].val /\ p[k].val <= a.last
             \/ k = n /\ p[k] = w
             \/ k \in n + 1 .. Len(p) /\ p[k] \in To("acc", a.acc)
<1>3. /\ x \in Nat /\ n \in Nat /\ x < n /\ n <= Len(p) /\ p[n] = w
      /\ \A k \in 1 .. x : p[k] \in To("sys", a.sys)
      /\ \A k \in 1 .. Len(p) : Part(k)
  BY <1>2 DEF LaidOut
<1>a. conf.sys => x >= 1 OBVIOUS
<1> HIDE DEF p, n, x
<1>4. Targets(p, a) BY <1>1, <1>3 DEF Targets, To
<1>5. a.last \in Int /\ s.vdd \in Int BY TableOK DEF Aggr, Rails, Volts
<1>6. ASSUME NEW i \in 1 .. Len(p), p[i].what = "vdd"
      PROVE /\ s.vdd <= p[i].val /\ p[i].val <= a.last
            /\ \A j \in i + 1 .. Len(p) : p[j].what = "vdd" => p[i].val <= p[j].val
            /\ conf.sys => Before(p, i, To("sys", a.sys))
  <2>1. \/ i = x + 1 /\ i < n /\ s.vdd <= p[i].val /\ p[i].val <= a.last
        \/ i = n /\ p[i] = w
    BY <1>3, <1>6 DEF To
  <2>2. s.vdd <= p[i].val /\ p[i].val <= a.last BY <1>1, <1>5, <2>1
  <2>3. ASSUME NEW j \in i + 1 .. Len(p), p[j].what = "vdd" PROVE p[i].val <= p[j].val
    <3>1. j \in 1 .. Len(p) /\ j > i BY <2>3
    <3>2. j = x + 1 \/ (j = n /\ p[j] = w) BY <1>3, <2>3, <3>1 DEF To
    <3>3. i >= x + 1 BY <1>3, <2>1
    <3>4. p[j] = w BY <1>3, <3>1, <3>2, <3>3
    <3>5. QED BY <1>1, <2>2, <3>4
  <2>4. ASSUME conf.sys PROVE Before(p, i, To("sys", a.sys))
    <3>1. x >= 1 BY <1>a, <2>4
    <3>2. 1 \in 1 .. i - 1 BY <1>3, <2>1, <3>1
    <3>3. p[1] \in To("sys", a.sys) BY <1>3, <3>1
    <3>4. QED BY <3>2, <3>3 DEF Before
  <2>5. QED BY <2>2, <2>3, <2>4
<1>7. ASSUME NEW i \in 1 .. Len(p), p[i].what = "acc"
      PROVE Before(p, i, To("vdd", a.last))
  <2>1. i \in n + 1 .. Len(p) BY <1>1, <1>3, <1>7 DEF To
  <2>2. n \in 1 .. i - 1 BY <1>3, <2>1
  <2>3. w \in To("vdd", a.last) OBVIOUS
  <2>4. QED BY <1>3, <2>2, <2>3 DEF Before
<1>8. Rises(p, s, a) BY <1>5, <1>6, <1>7 DEF Rises
<1>9. QED BY <1>4, <1>8 DEF p

\* The walk laid out by Scale from where VDD is goes down or up.
LEMMA ScaleRail ==
  ASSUME conf \in Config, NEW s \in Rails, NEW a \in Aggr
  PROVE LET p == Scale(s.vdd, a.last, a)
        IN Targets(p, a) /\ (Falls(p, s, a) \/ Rises(p, s, a))
<1> DEFINE from == s.vdd
           to == a.last
           M == IF Crosses(from, to) THEN SwitchApm(from, to) ELSE <<>>
           w == Write("vdd", to, 0)
           at == IF Crosses(from, to) THEN conf.thr ELSE from
           p == Scale(from, to, a)
<1>1. /\ {0, from, to, conf.thr, a.acc, a.sys} \subseteq Volts /\ Volts \subseteq Int
  BY TableOK DEF Volts, Config, Aggr, Rails
<1>0. from \in Int /\ to \in Int /\ conf.thr \in Int
  BY TableOK DEF Volts, Config, Aggr, Rails
<1>2. w \in To("vdd", to) BY <1>1 DEF Write, Writes, To
<1>3. AccWrites(a) \in Seq(To("acc", a.acc)) /\ (conf.acc /\ a.acc # 0 => Len(AccWrites(a)) >= 1)
  <2>1. Write("acc", a.acc, 0) \in To("acc", a.acc) BY <1>1 DEF Write, Writes, To
  <2> DEFINE v == Write("acc", a.acc, 0)
             S == To("acc", a.acc)
  <2>2. AccWrites(a) = IF conf.acc /\ a.acc # 0 THEN <<v>> ELSE <<>> BY DEF AccWrites
  <2>3. v \in S BY <2>1
  <2> HIDE DEF v, S
  <2>4. <<v>> \in Seq(S) /\ <<>> \in Seq(S) /\ Len(<<v>>) = 1 BY <2>3
  <2>5. AccWrites(a) \in Seq(S) /\ (conf.acc /\ a.acc # 0 => Len(AccWrites(a)) >= 1)
    <3>1. CASE conf.acc /\ a.acc # 0 BY <2>2, <2>4, <3>1
    <3>2. CASE ~(conf.acc /\ a.acc # 0) BY <2>2, <2>4, <3>2
    <3>3. QED BY <3>1, <3>2
  <2>6. QED BY <2>5 DEF S
<1>4. SystemWrites(a) \in Seq(To("sys", a.sys)) /\ (conf.sys => Len(SystemWrites(a)) >= 1)
  <2>1. Write("sys", a.sys, 0) \in To("sys", a.sys) BY <1>1 DEF Write, Writes, To
  <2> DEFINE v == Write("sys", a.sys, 0)
             S == To("sys", a.sys)
  <2>2. SystemWrites(a) = IF conf.sys THEN <<v>> ELSE <<>> BY DEF SystemWrites
  <2>3. v \in S BY <2>1
  <2> HIDE DEF v, S
  <2>4. <<v>> \in Seq(S) /\ <<>> \in Seq(S) /\ Len(<<v>>) = 1 BY <2>3
  <2>5. SystemWrites(a) \in Seq(S) /\ (conf.sys => Len(SystemWrites(a)) >= 1)
    <3>1. CASE conf.sys BY <2>2, <2>4, <3>1
    <3>2. CASE ~(conf.sys) BY <2>2, <2>4, <3>2
    <3>3. QED BY <3>1, <3>2
  <2>6. QED BY <2>5 DEF S
<1>5. M \in Seq(Writes) /\ (to < from => Stop(M, to, from)) /\ (from <= to => Stop(M, from, to))
  <2>1. CASE Crosses(from, to)
    <3> DEFINE u == Write("vdd", conf.thr, 0)
               m == Write("apm", to, from)
    <3>1. M = <<u, m>> BY <2>1 DEF SwitchApm
    <3>2. u \in Writes /\ m \in Writes /\ u.what = "vdd" /\ u.val = conf.thr /\ m.what = "apm"
      BY <1>1 DEF Write, Writes
    <3> HIDE DEF u, m, M
    <3>3. /\ M \in Seq(Writes) /\ Len(M) = 2 /\ M[1].what = "vdd" /\ M[1].val = conf.thr
          /\ M[2].what = "apm"
      BY <3>1, <3>2
    <3>4. /\ to < from => to <= conf.thr /\ conf.thr <= from
          /\ from <= to => from <= conf.thr /\ conf.thr <= to
      BY <1>0, <2>1 DEF Crosses
    <3>5. \A k \in 1 .. Len(M) : k = 1 \/ k = 2 BY <3>3
    <3>6. QED BY <3>3, <3>4, <3>5 DEF Stop
  <2>2. CASE ~Crosses(from, to)
    <3>1. M = <<>> BY <2>2
    <3> HIDE DEF M
    <3>2. M \in Seq(Writes) /\ 1 .. Len(M) = {} BY <3>1
    <3>3. QED BY <3>2 DEF Stop
  <2>3. QED BY <2>1, <2>2
<1>6. CASE to < from
  <2>1. ~(to >= at) BY <1>0, <1>6 DEF Crosses
  <2>2. p = Walk(AccWrites(a), M, w, SystemWrites(a)) BY <1>6, <2>1 DEF Scale, Walk
  <2>3. Stop(M, to, from) /\ to <= from BY <1>0, <1>5, <1>6
  <2> HIDE DEF M, w, p
  <2>4. QED BY <1>2, <1>3, <1>4, <1>5, <2>2, <2>3, DownRail DEF p
<1>7. CASE ~(to < from)
  <2>1. to >= at BY <1>0, <1>7 DEF Crosses
  <2>2. p = Walk(SystemWrites(a), M, w, AccWrites(a)) BY <1>7, <2>1 DEF Scale, Walk
  <2>3. Stop(M, from, to) /\ from <= to BY <1>0, <1>5, <1>7
  <2> HIDE DEF M, w, p
  <2>4. QED BY <1>2, <1>3, <1>4, <1>5, <2>2, <2>3, UpRail DEF p
<1>8. QED BY <1>6, <1>7

\* What a handler carries on a walk stays in order.
LEMMA RailStep == Inv /\ RailInv /\ [Next]_vars => RailInv'
<1> SUFFICES ASSUME Inv, RailInv, [Next]_vars PROVE RailInv' OBVIOUS
<1>1. TypeOK /\ LastInRange /\ JobInv /\ RestInv BY DEF Inv
<1>2. conf \in Config /\ supply \in Rails /\ next \in Aggr /\ aggr \in Aggr
  BY <1>1, ConfType DEF TypeOK, Rails
<1>3. CASE UNCHANGED <<conf, supply, next, plan>> /\ (job'.stage = "scale" => job.stage = "scale")
           /\ (clean' => clean)
  BY <1>3 DEF RailInv, Targets, Falls, Rises, Before
<1>4. CASE MakeWrite
  <2>1. /\ UNCHANGED <<conf, next, job, clean>> /\ job.stage = "scale" /\ plan # <<>>
        /\ supply' = Applied(Head(plan)) /\ plan' = Tail(plan) /\ plan \in Seq(Writes)
    BY <1>1, <1>4 DEF MakeWrite, TypeOK
  <2>2. supply' \in Rails
    <3> DEFINE h == Head(plan)
    <3>1. h \in Writes /\ supply' = Applied(h) BY <2>1
    <3> HIDE DEF h
    <3>2. h.val \in Volts /\ h.what \in {"vdd", "apm", "acc", "sys"} BY <3>1 DEF Writes
    <3>3. (h.val >= conf.thr) \in BOOLEAN OBVIOUS
    <3>4. CASE h.what = "apm"
      <4>1. supply' = [supply EXCEPT !.high = h.val >= conf.thr] BY <3>1, <3>4 DEF Applied
      <4>2. QED BY <1>2, <3>3, <4>1 DEF Rails
    <3>5. CASE h.what # "apm" BY <1>2, <3>1, <3>2, <3>5 DEF Applied, Rails
    <3>6. QED BY <3>4, <3>5
  <2>3. ASSUME clean
        PROVE Targets(plan', next) /\ (Falls(plan', supply', next) \/ Rises(plan', supply', next))
    BY <1>2, <2>1, <2>2, <2>3, RailTail DEF RailInv
  <2>4. QED BY <2>1, <2>3 DEF RailInv, Targets, Falls, Rises, Before
<1>5. CASE Update /\ job'.stage = "scale"
  <2>1. Valid # {} BY <1>1, <1>5 DEF Update, TypeOK
  <2>2. PICK new \in NewVolts(Aggregate) : /\ next' = [Aggregate EXCEPT !.last = new]
                                           /\ plan' = Scale(supply.vdd, new, Aggregate)
    BY <1>5, <2>1 DEF Update
  <2>3. next' \in Aggr /\ Aggregate \in Aggr BY <1>1, <2>1, <2>2, AggrFits, AggrType DEF Aggregate
  <2>4. next'.last = new /\ next'.acc = Aggregate.acc /\ next'.sys = Aggregate.sys
    BY <2>2, <2>3 DEF Aggr
  <2>5. plan' = Scale(supply.vdd, next'.last, next')
    BY <2>2, <2>4 DEF Scale, AccWrites, SystemWrites
  <2>6. Targets(plan', next') /\ (Falls(plan', supply, next') \/ Rises(plan', supply, next'))
    BY <1>2, <2>3, <2>5, ScaleRail
  <2>7. UNCHANGED <<conf, supply>> BY <1>5 DEF Update
  <2>8. QED BY <2>6, <2>7 DEF RailInv, Targets, Falls, Rises, Before
<1>6. CASE Irq
  <2>1. job.kind = "none" /\ cpr.enabled /\ UNCHANGED <<conf, supply, clean>> BY <1>6 DEF Irq
  <2>2. job.stage = "ok" BY <1>1, <2>1 DEF JobInv
  <2>3. PICK new, en : /\ next' = [aggr EXCEPT !.last = new, !.irq = en]
                       /\ plan' = IF new = aggr.last THEN <<>> ELSE Scale(aggr.last, new, aggr)
                       /\ new = Toward(aggr.last, chip.pending = "up")
    BY <1>6 DEF Irq
  <2>4. next'.last = new /\ next'.acc = aggr.acc /\ next'.sys = aggr.sys BY <1>2, <2>3 DEF Aggr
  <2>5. next' \in Aggr BY <1>1, InvStep DEF Inv, TypeOK
  <2>6. ASSUME clean
        PROVE Targets(plan', next') /\ (Falls(plan', supply, next') \/ Rises(plan', supply, next'))
    <3>1. supply.vdd = aggr.last BY <1>1, <2>1, <2>2, <2>6 DEF RestInv
    <3>2. CASE new = aggr.last
      <4>1. plan' = <<>> /\ supply.vdd = next'.last BY <2>3, <2>4, <3>1, <3>2
      <4>2. supply.vdd \in Int BY <1>2, TableOK DEF Rails, Volts
      <4>3. 1 .. Len(plan') = {} BY <4>1
      <4>4. QED BY <4>1, <4>2, <4>3 DEF Targets, Rises
    <3>3. CASE new # aggr.last
      <4>1. plan' = Scale(supply.vdd, next'.last, next')
        BY <2>3, <2>4, <3>1, <3>3 DEF Scale, AccWrites, SystemWrites
      <4>2. QED BY <1>2, <2>5, <4>1, ScaleRail
    <3>4. QED BY <3>2, <3>3
  <2>7. QED BY <2>1, <2>6 DEF RailInv, Targets, Falls, Rises, Before
<1>7. CASE ~(job'.stage = "scale" /\ clean') BY <1>7 DEF RailInv
<1>8. \/ UNCHANGED <<conf, supply, next, plan>> /\ (job'.stage = "scale" => job.stage = "scale")
         /\ (clean' => clean)
      \/ MakeWrite \/ (Update /\ job'.stage = "scale") \/ Irq
      \/ ~(job'.stage = "scale" /\ clean')
  <2>1. CASE UNCHANGED vars BY <2>1 DEF vars
  <2>2. CASE UpdateFails BY <2>2 DEF UpdateFails
  <2>3. CASE ClocksFail BY <2>3 DEF ClocksFail
  <2>4. CASE WriteFails BY <2>4 DEF WriteFails
  <2>5. CASE Commit BY <1>1, <2>5 DEF Commit, TypeOK
  <2>6. CASE Return \/ IrqDone BY <2>6 DEF Return, IrqDone, Release, Idle
  <2>7. CASE SetVoltage BY <2>7 DEF SetVoltage, Take
  <2>8. CASE EnableVreg \/ DisableVreg BY <2>8 DEF EnableVreg, DisableVreg, Take
  <2>9. CASE Suspend BY <2>9 DEF Suspend
  <2>10. CASE Resume \/ ToggleClosedLoop BY <2>10 DEF Resume, ToggleClosedLoop, Take
  <2>11. CASE HwRaise \/ IrqSpurious BY <2>11 DEF HwRaise, IrqSpurious
  <2>12. CASE Update /\ job'.stage # "scale" BY <2>12
  <2>13. QED
    BY <2>1, <2>2, <2>3, <2>4, <2>5, <2>6, <2>7, <2>8, <2>9, <2>10, <2>11, <2>12 DEF Next, Locked
<1>9. QED BY <1>3, <1>4, <1>5, <1>6, <1>7, <1>8

\* VDD, the system supply and the accelerator move only in that order.
OrderStep ==
  clean /\ clean' =>
    /\ supply'.vdd > supply.vdd /\ conf.sys => supply.sys >= next.sys
    /\ supply'.vdd < supply.vdd /\ conf.acc /\ next.acc # 0 => supply.acc <= next.acc
    /\ supply'.sys < supply.sys => supply.vdd <= next.last
    /\ supply'.acc > supply.acc => supply.vdd >= next.last

LEMMA OrderKept == Inv /\ RailInv /\ [Next]_vars => OrderStep
<1> SUFFICES ASSUME Inv, RailInv, [Next]_vars, clean, clean' PROVE OrderStep BY DEF OrderStep
<1>1. supply \in Rails /\ next \in Aggr /\ plan \in Seq(Writes) BY DEF Inv, TypeOK, Rails
<1>2. /\ supply.vdd \in Int /\ supply.acc \in Int /\ supply.sys \in Int /\ next.last \in Int
      /\ next.acc \in Int /\ next.sys \in Int
  BY <1>1, TableOK DEF Rails, Aggr, Volts
<1>3. CASE supply' = supply BY <1>2, <1>3 DEF OrderStep
<1>4. CASE MakeWrite
  <2> DEFINE h == Head(plan)
  <2>1. job.stage = "scale" /\ plan # <<>> /\ supply' = Applied(h) BY <1>4 DEF MakeWrite
  <2>2. Len(plan) >= 1 /\ Len(plan) \in Nat /\ 1 \in 1 .. Len(plan) /\ h = plan[1] /\ h \in Writes
    BY <1>1, <2>1
  <2>3. Targets(plan, next) /\ (Falls(plan, supply, next) \/ Rises(plan, supply, next))
    BY <2>1 DEF RailInv
  <2> HIDE DEF h
  <2>4. \A W : ~Before(plan, 1, W) BY DEF Before
  <2>5. /\ supply'.vdd = IF h.what = "vdd" THEN h.val ELSE supply.vdd
        /\ supply'.acc = IF h.what = "acc" THEN h.val ELSE supply.acc
        /\ supply'.sys = IF h.what = "sys" THEN h.val ELSE supply.sys
    BY <1>1, <2>1, <2>2 DEF Applied, Writes, Rails
  <2>6. h.val \in Int BY <2>2, TableOK DEF Writes, Volts
  <2>7. CASE Falls(plan, supply, next)
    BY <1>2, <2>2, <2>4, <2>5, <2>6, <2>7 DEF Falls, OrderStep
  <2>8. CASE Rises(plan, supply, next)
    BY <1>2, <2>2, <2>4, <2>5, <2>6, <2>8 DEF Rises, OrderStep
  <2>9. QED BY <2>3, <2>7, <2>8
<1>5. CASE ~MakeWrite /\ supply' # supply
  BY <1>5 DEF Next, Locked, Update, UpdateFails, ClocksFail, WriteFails, Commit, Return, IrqDone,
              SetVoltage, EnableVreg, DisableVreg, Suspend, Resume, ToggleClosedLoop, HwRaise,
              IrqSpurious, Irq, vars
<1>6. QED BY <1>3, <1>4, <1>5

-----------------------------------------------------------------------------
(* The theorems.                                                           *)

\* The invariant holds in every reachable state.
THEOREM InvHolds == Spec => []Inv
BY InitInv, InvStep, PTL DEF Spec

\* _cpr3_regulator_update_ctrl_state and the interrupt thread ask the supplies only for
\* voltages and levels that are in the tables, and no handler leaves its data.
THEOREM TypeCorrect == Spec => []TypeOK
<1>1. Inv => TypeOK BY DEF Inv
<1>2. QED BY <1>1, InvHolds, PTL

\* Whatever corners the regulators ask for and whichever steps the loop takes, while no
\* call fails cpr3_regulator_scale_vdd_voltage switches the mux with VDD at the threshold.
THEOREM ApmCorrect == Spec => []ApmSafe
<1>1. Inv => ApmSafe BY DEF Inv, MuxInv, Watch, ApmSafe
<1>2. QED BY <1>1, InvHolds, PTL

\* After an update has succeeded VDD is no lower than any regulator that is on needs and
\* no higher than one of them allows, in open and in closed loop, until an update fails.
THEOREM EnoughCorrect == Spec => []Enough
<1>1. Inv => Enough BY DEF Inv, JobInv, RestInv, Suits, Enough
<1>2. QED BY <1>1, InvHolds, PTL

\* cpr3_update_vreg_closed_loop_volt remembers for a corner only what the corner allows.
THEOREM LastCorrect == Spec => []LastInRange
<1>1. Inv => LastInRange BY DEF Inv
<1>2. QED BY <1>1, InvHolds, PTL

\* Whenever no handler runs and the last update has succeeded, a running loop has CPR
\* enabled, no suspend, and a target quotient that serves every regulator that is on, though
\* cpr3_irq_handler may switch it on without programming it.
THEOREM LoopCorrect == Spec => []LoopServes
<1>1. Init => LoopInv BY DEF Init, Idle, LoopInv
<1>2. Inv /\ LoopInv => LoopServes BY DEF LoopInv, LoopServes, Serves
<1>3. QED BY <1>1, <1>2, LoopStep, InvHolds, PTL DEF Spec

\* Through every request, failure and undoing of cpr3_regulator_enable and
\* cpr3_regulator_disable a regulator that is on keeps its references on both supplies,
\* that on VDD unless undoing a failed call fails too.
THEOREM SuppliesCorrect == Spec => []SuppliesHeld
<1>1. Init => RefInv
  <2>1. Cardinality({}) = 0 BY FS_EmptySet
  <2>2. QED BY <2>1 DEF Init, Idle, RefInv
<1>2. Inv /\ RefInv => SuppliesHeld BY DEF RefInv, SuppliesHeld
<1>3. QED BY <1>1, <1>2, RefStep, InvHolds, PTL DEF Spec

\* cpr3_regulator_scale_vdd_voltage moves VDD, the memory accelerator and the system supply
\* in the order the direction asks for, on every board and between any two voltages, whether
\* a request or the interrupt asked.
THEOREM RailCorrect == Spec => RailOrder
<1>1. Init => RailInv BY DEF Init, Idle, RailInv
<1>2. Inv /\ RailInv /\ [Next]_vars => [OrderStep]_vars BY OrderKept
<1>3. QED BY <1>1, <1>2, RailStep, InvHolds, PTL DEF Spec, RailOrder, OrderStep

-----------------------------------------------------------------------------
(* The corner tables: CprTables.                                           *)

OnBoard == board \in Boards

-----------------------------------------------------------------------------
(* Lemmas about the operators.                                             *)

\* A non-empty set of naturals has a least element.
LEMMA Least ==
  ASSUME NEW T \in SUBSET Nat, T # {} PROVE \E m \in T : \A y \in T : m <= y
<1> DEFINE Less == OpToRel(<, Nat)
<1>1. IsWellFoundedOn(Less, Nat) BY NatLessThanWellFounded
<1>2. \A x, y \in Nat : y < x => <<y, x>> \in Less BY DEF OpToRel
<1> HIDE DEF Less
<1>3. PICK m \in T : \A y \in T : ~(<<y, m>> \in Less) BY <1>1, WFMin
<1>4. ASSUME NEW y \in T PROVE m <= y
  <2>1. y \in Nat /\ m \in Nat OBVIOUS
  <2>2. ~(y < m) BY <1>2, <1>3, <2>1
  <2>3. QED BY <2>1, <2>2
<1>5. QED BY <1>4

\* What holds at 1 and passes from each number to the next holds up to n.
LEMMA Upward ==
  ASSUME NEW n \in Nat, NEW G, 1 \in G,
         \A i \in 1 .. n : i - 1 \in G /\ i > 1 => i \in G
  PROVE  1 .. n \subseteq G
<1> SUFFICES ASSUME ~(1 .. n \subseteq G) PROVE FALSE OBVIOUS
<1> DEFINE T == {i \in 1 .. n : i \notin G}
<1>1. T \subseteq Nat /\ T # {} OBVIOUS
<1>2. PICK m \in T : \A y \in T : m <= y
  <2> HIDE DEF T
  <2>1. QED BY <1>1, Least
<1>3. m \in 1 .. n /\ m \notin G /\ m > 1 OBVIOUS
<1>4. m - 1 \in 1 .. n /\ m - 1 \notin T BY <1>2, <1>3
<1>5. m - 1 \in G BY <1>4
<1>6. QED BY <1>3, <1>5

\* A non-empty set of numbers up to n has a greatest element.
LEMMA Greatest ==
  ASSUME NEW n \in Nat, NEW T \in SUBSET (1 .. n), T # {}
  PROVE  \E m \in T : \A y \in T : y <= m
<1> DEFINE U == {n - y : y \in T}
<1>1. U \subseteq Nat /\ U # {}
  <2>1. \A y \in T : n - y \in Nat OBVIOUS
  <2>2. QED BY <2>1
<1>2. PICK u \in U : \A y \in U : u <= y
  <2> HIDE DEF U
  <2>1. QED BY <1>1, Least
<1>3. PICK m \in T : u = n - m BY <1>2
<1>4. ASSUME NEW y \in T PROVE y <= m
  <2>1. u <= n - y BY <1>2
  <2>2. QED BY <1>3, <2>1
<1>5. QED BY <1>4

\* Division by a positive number: the quotient times it is the last multiple up to a.
LEMMA Division ==
  ASSUME NEW a \in Int, NEW s \in Nat \ {0}
  PROVE  /\ a \div s \in Int /\ a % s \in 0 .. s - 1
         /\ (a \div s) * s <= a /\ a < (a \div s) * s + s
         /\ a = (a \div s) * s + (a % s)
<1>1. a \div s \in Int /\ a % s \in 0 .. s - 1 OBVIOUS
<1>2. (a \div s) * s <= a OBVIOUS
<1>3. a < (a \div s) * s + s OBVIOUS
<1>4. a = (a \div s) * s + (a % s) OBVIOUS
<1>5. QED BY <1>1, <1>2, <1>3, <1>4

\* Multiples: a number of which s is a divisor is one, and below a multiple of s there is
\* no multiple closer than s.
LEMMA Multiples ==
  ASSUME NEW s \in Nat \ {0}, NEW p \in Int, NEW q \in Int
  PROVE  /\ p * s \in Int /\ (q * s) % s = 0
         /\ p * s < q * s + s => p * s <= q * s
         /\ p <= q => p * s <= q * s
<1>1. (q * s) % s = 0 /\ p * s \in Int OBVIOUS
<1>2. ASSUME p * s < q * s + s PROVE p * s <= q * s
  <2>1. CASE p <= q BY <2>1
  <2>2. CASE p >= q + 1
    <3>1. p * s >= (q + 1) * s BY <2>2
    <3>2. QED BY <1>2, <3>1
  <2>3. QED BY <2>1, <2>2
<1>3. p <= q => p * s <= q * s OBVIOUS
<1>4. QED BY <1>1, <1>2, <1>3

\* What CPR3_ROUND gives is the least multiple of the step that is not below its argument.
Stepped(v) == v % board.step = 0
LEMMA Rounded ==
  ASSUME board.step \in Nat \ {0}, NEW v \in Int
  PROVE  /\ Round(v) \in Int /\ Stepped(Round(v)) /\ v <= Round(v)
         /\ \A w \in Int : v <= w /\ Stepped(w) => Round(v) <= w
<1> DEFINE s == board.step
           q == (v + s - 1) \div s
<1>1. v + s - 1 \in Int OBVIOUS
<1>2. q \in Int /\ q * s <= v + s - 1 /\ v + s - 1 < q * s + s BY <1>1, Division
<1>3. Round(v) = q * s BY DEF Round
<1> HIDE DEF q
<1>4. q * s \in Int /\ (q * s) % s = 0 BY <1>2, Multiples
<1>5. ASSUME NEW w \in Int, v <= w, Stepped(w) PROVE q * s <= w
  <2> DEFINE p == w \div s
  <2>1. p \in Int /\ w = p * s
    <3>1. p \in Int /\ w = p * s + (w % s) BY <1>5, Division
    <3>2. w % s = 0 BY <1>5 DEF Stepped
    <3>3. p * s \in Int BY <3>1, Multiples
    <3>4. QED BY <3>1, <3>2, <3>3
  <2> HIDE DEF p
  <2>2. q * s < p * s + s
    <3>1. p * s \in Int BY <2>1, Multiples
    <3>2. QED BY <1>2, <1>4, <1>5, <2>1, <3>1
  <2>3. QED BY <1>2, <2>1, <2>2, Multiples
<1>6. QED BY <1>2, <1>3, <1>4, <1>5 DEF Stepped

\* Rounding keeps the order.
LEMMA RoundOrder ==
  ASSUME board.step \in Nat \ {0}, NEW v \in Int, NEW w \in Int, v <= w
  PROVE  Round(v) <= Round(w)
<1>1. Round(w) \in Int /\ Stepped(Round(w)) /\ w <= Round(w) BY Rounded
<1>2. Round(v) \in Int /\ \A x \in Int : v <= x /\ Stepped(x) => Round(v) <= x BY Rounded
<1>3. v <= Round(w) BY <1>1
<1>4. QED BY <1>1, <1>2, <1>3

\* A list in which no entry is below the one before it ascends.
LEMMA Ascending ==
  ASSUME NEW n \in Nat, NEW s, \A i \in 1 .. n : s[i] \in Int,
         \A i \in 2 .. n : s[i - 1] <= s[i]
  PROVE  \A c \in 1 .. n : \A d \in 1 .. c : s[d] <= s[c]
<1> SUFFICES ASSUME NEW d \in 1 .. n PROVE \A c \in d .. n : s[d] <= s[c] OBVIOUS
<1> DEFINE G == {i \in 1 .. n : i >= d => s[d] <= s[i]}
<1>1. 1 \in G OBVIOUS
<1>2. ASSUME NEW i \in 1 .. n, i - 1 \in G, i > 1 PROVE i \in G
  <2>1. s[i - 1] <= s[i] /\ s[i] \in Int /\ s[i - 1] \in Int /\ s[d] \in Int BY <1>2
  <2>2. CASE i > d
    <3>1. s[d] <= s[i - 1] BY <1>2, <2>2
    <3>2. QED BY <2>1, <3>1
  <2>3. CASE i <= d BY <2>1, <2>3
  <2>4. QED BY <2>2, <2>3
<1> HIDE DEF G
<1>3. 1 .. n \subseteq G BY <1>1, <1>2, Upward
<1>4. QED BY <1>3 DEF G

\* RunningMax gives at each place the greatest of the entries up to it.
MaxSoFar(n, s, m) ==
  /\ m \in [1 .. n -> Int]
  /\ \A i \in 1 .. n : (\E k \in 1 .. i : m[i] = s[k]) /\ \A k \in 1 .. i : s[k] <= m[i]
  /\ \A i \in 1 .. n : \A k \in 1 .. i : m[k] <= m[i]
LEMMA RunningMaxIs ==
  ASSUME NEW n \in Nat, NEW s, \A i \in 1 .. n : s[i] \in Int
  PROVE  MaxSoFar(n, s, RunningMax(s, 1 .. n))
<1> DEFINE m == RunningMax(s, 1 .. n)
           G == {i \in 1 .. n : \E k \in 1 .. i : \A j \in 1 .. i : s[j] <= s[k]}
<1>1. CASE n = 0 BY <1>1 DEF RunningMax, MaxSoFar
<1>2. CASE n > 0
  <2>1. 1 \in G
    <3>1. 1 .. 1 = {1} OBVIOUS
    <3>2. QED BY <1>2, <3>1
  <2>2. ASSUME NEW i \in 1 .. n, i - 1 \in G, i > 1 PROVE i \in G
    <3>1. PICK k \in 1 .. i - 1 : \A j \in 1 .. i - 1 : s[j] <= s[k] BY <2>2
    <3>2. s[k] \in Int /\ s[i] \in Int OBVIOUS
    <3>3. CASE s[k] <= s[i]
      <4>1. ASSUME NEW j \in 1 .. i PROVE s[j] <= s[i]
        <5>1. s[j] \in Int OBVIOUS
        <5>2. j = i \/ j \in 1 .. i - 1 OBVIOUS
        <5>3. QED BY <3>1, <3>2, <3>3, <5>1, <5>2
      <4>2. QED BY <4>1
    <3>4. CASE s[i] < s[k]
      <4>1. ASSUME NEW j \in 1 .. i PROVE s[j] <= s[k]
        <5>1. j = i \/ j \in 1 .. i - 1 OBVIOUS
        <5>2. QED BY <3>1, <3>2, <3>4, <5>1
      <4>2. QED BY <4>1
    <3>5. QED BY <3>2, <3>3, <3>4
  <2> HIDE DEF G
  <2>3. 1 .. n \subseteq G BY <2>1, <2>2, Upward
  <2>4. ASSUME NEW i \in 1 .. n
        PROVE  (\E k \in 1 .. i : m[i] = s[k]) /\ \A k \in 1 .. i : s[k] <= m[i]
    <3> DEFINE upTo == {s[k] : k \in {j \in 1 .. n : j <= i}}
    <3>1. PICK k \in 1 .. i : \A j \in 1 .. i : s[j] <= s[k] BY <2>3 DEF G
    <3>2. s[k] \in upTo /\ \A y \in upTo : y <= s[k] BY <3>1
    <3>3. m[i] = CHOOSE x \in upTo : \A y \in upTo : y <= x BY DEF RunningMax
    <3> HIDE DEF upTo
    <3>4. m[i] \in upTo /\ \A y \in upTo : y <= m[i] BY <3>2, <3>3
    <3>5. QED BY <3>4 DEF upTo
  <2>5. \A i \in 1 .. n : m[i] \in Int BY <2>4
  <2>6. m \in [1 .. n -> Int]
    <3>1. m = [i \in 1 .. n |-> m[i]] BY DEF RunningMax
    <3> HIDE DEF m
    <3>2. QED BY <2>5, <3>1
  <2> HIDE DEF m
  <2>7. ASSUME NEW i \in 1 .. n, NEW k \in 1 .. i PROVE m[k] <= m[i]
    <3>1. PICK j \in 1 .. k : m[k] = s[j] BY <2>4
    <3>2. s[j] <= m[i] BY <2>4
    <3>3. QED BY <3>1, <3>2
  <2>8. QED BY <2>4, <2>6, <2>7 DEF m, MaxSoFar
<1>3. QED BY <1>1, <1>2

\* A list made from left to right, each entry the greater of one of its own and one that
\* depends on the entry before it, exists.
Linked(n, L, a, b, m, r) ==
  /\ r[1] = a[1]
  /\ \A c \in 2 .. n : r[c] = MaxI(a[c], IF c \in L THEN r[c - 1] + m[c] ELSE b[c])
LEMMA Chained ==
  ASSUME NEW n \in Nat, n > 0, NEW L, NEW a \in [1 .. n -> Int], NEW b \in [1 .. n -> Int],
         NEW m \in [1 .. n -> Int]
  PROVE  \E r \in [1 .. n -> Int] : Linked(n, L, a, b, m, r)
<1> DEFINE Step(r, c) == MaxI(a[c], IF c \in L THEN r[c - 1] + m[c] ELSE b[c])
           G == {i \in 1 .. n : \E r \in [1 .. n -> Int] :
                                  r[1] = a[1] /\ \A c \in 2 .. i : r[c] = Step(r, c)}
<1>1. 1 \in G
  <2>1. a[1] = a[1] /\ \A c \in 2 .. 1 : a[c] = Step(a, c) OBVIOUS
  <2> HIDE DEF Step
  <2>2. QED BY <2>1
<1>2. ASSUME NEW i \in 1 .. n, i - 1 \in G, i > 1 PROVE i \in G
  <2>1. PICK r \in [1 .. n -> Int] : r[1] = a[1] /\ \A c \in 2 .. i - 1 : r[c] = Step(r, c)
    BY <1>2
  <2> DEFINE q == [r EXCEPT ![i] = Step(r, i)]
  <2>2. Step(r, i) \in Int
    <3>1. a[i] \in Int /\ b[i] \in Int /\ m[i] \in Int /\ r[i - 1] \in Int BY <1>2
    <3>2. QED BY <3>1 DEF MaxI
  <2>3. q \in [1 .. n -> Int] BY <2>2
  <2>4. ASSUME NEW c \in 2 .. i PROVE q[c] = Step(q, c)
    <3>1. q[c - 1] = r[c - 1] BY <1>2, <2>1
    <3>2. Step(q, c) = Step(r, c) BY <3>1
    <3>3. q[c] = Step(r, c)
      <4>1. c = i \/ (c \in 2 .. i - 1 /\ c # i) OBVIOUS
      <4> HIDE DEF Step
      <4>2. QED BY <2>1, <4>1
    <3>4. QED BY <3>2, <3>3
  <2>5. q[1] = a[1] BY <1>2, <2>1
  <2> HIDE DEF q, Step
  <2>6. QED BY <2>3, <2>4, <2>5
<1>3. n \in G
  <2> HIDE DEF G
  <2>1. 1 .. n \subseteq G BY <1>1, <1>2, Upward
  <2>2. QED BY <2>1
<1>4. QED BY <1>3 DEF Linked

-----------------------------------------------------------------------------
(* Lemmas about a board.                                                   *)

\* What a device tree holds at each corner and fuse corner.
LEMMA BoardIs ==
  ASSUME OnBoard
  PROVE  /\ board.npu \in BOOLEAN /\ board.step \in Nat \ {0} /\ board.boostCeiling \in Int
         /\ board.unit \in Int
         /\ Len(board.floor) \in Nat \ {0} /\ Len(board.ref) \in Nat \ {0}
         /\ \A c \in CornerSet : {board.floor[c], board.ceiling[c], board.freq[c]} \subseteq Int
         /\ \A j \in FuseCorners : {board.ref[j], board.fmax[j]} \subseteq Int
         /\ \A c \in CornerSet : {AdjAt(board.adj, c), AdjAt(board.diff, c), AdjAt(board.misc, c),
                                AdjAt(board.cl, c), AdjAt(board.range, c)} \subseteq Int
         /\ board.adj # <<>> => \A c \in CornerSet : board.adj[c] \in Int
<1> DEFINE n == Len(board.floor)
<1>1. /\ board.npu \in BOOLEAN /\ board.step \in Nat \ {0}
      /\ board.boostCeiling \in Int /\ board.unit \in Int
      /\ board.floor \in Seq(Int) /\ board.ref \in Seq(Int) /\ n > 0 /\ Len(board.ref) > 0
      /\ Sized(board.ceiling, n) /\ Sized(board.freq, n) /\ Sized(board.fmax, Len(board.ref))
      /\ \A s \in {board.adj, board.diff, board.misc, board.cl, board.range} : Optional(s, n)
  BY BoardsOK DEF OnBoard, WellFormed
<1>2. \A c \in CornerSet : {board.floor[c], board.ceiling[c], board.freq[c]} \subseteq Int
  <2>1. ASSUME NEW c \in CornerSet
        PROVE  board.floor[c] \in Int /\ board.ceiling[c] \in Int /\ board.freq[c] \in Int
    <3>1. board.floor \in Seq(Int) /\ c \in 1 .. Len(board.floor) BY <1>1 DEF CornerSet
    <3>2. board.ceiling \in Seq(Int) /\ c \in 1 .. Len(board.ceiling)
      BY <1>1 DEF Sized, CornerSet
    <3>3. board.freq \in Seq(Int) /\ c \in 1 .. Len(board.freq) BY <1>1 DEF Sized, CornerSet
    <3>4. QED BY <3>1, <3>2, <3>3, ElementOfSeq
  <2>2. QED BY <2>1
<1>3. \A j \in FuseCorners : {board.ref[j], board.fmax[j]} \subseteq Int
  <2>1. ASSUME NEW j \in FuseCorners PROVE board.ref[j] \in Int /\ board.fmax[j] \in Int
    <3>1. board.ref \in Seq(Int) /\ j \in 1 .. Len(board.ref) BY <1>1 DEF FuseCorners
    <3>2. board.fmax \in Seq(Int) /\ j \in 1 .. Len(board.fmax)
      BY <1>1 DEF Sized, FuseCorners
    <3>3. QED BY <3>1, <3>2, ElementOfSeq
  <2>2. QED BY <2>1
<1>4. ASSUME NEW s, Optional(s, n), NEW c \in CornerSet
      PROVE  AdjAt(s, c) \in Int /\ (s # <<>> => s[c] \in Int)
  BY <1>1, <1>4 DEF Optional, Sized, AdjAt, CornerSet
<1>5. n \in Nat \ {0} /\ Len(board.ref) \in Nat \ {0} BY <1>1
<1>6. ASSUME NEW c \in CornerSet
      PROVE  {AdjAt(board.adj, c), AdjAt(board.diff, c), AdjAt(board.misc, c),
              AdjAt(board.cl, c), AdjAt(board.range, c)} \subseteq Int
             /\ (board.adj # <<>> => board.adj[c] \in Int)
  <2> HIDE DEF n
  <2>1. Optional(board.adj, n) /\ Optional(board.diff, n) /\ Optional(board.misc, n)
        /\ Optional(board.cl, n) /\ Optional(board.range, n)
    BY <1>1
  <2>2. QED BY <1>4, <2>1
<1>7. QED BY <1>1, <1>2, <1>3, <1>5, <1>6

\* Every corner belongs to a fuse corner, a higher one to the same or a higher one.
LEMMA FuseOfIs ==
  ASSUME OnBoard
  PROVE  \A c \in CornerSet : /\ FuseOf(c) \in FuseCorners
                                /\ \A d \in CornerSet : c <= d => FuseOf(c) <= FuseOf(d)
<1> DEFINE above(c) == {j \in FuseCorners : c <= board.fmax[j]}
           top == Len(board.ref)
<1>1. top \in Nat \ {0} /\ (\A j \in FuseCorners : board.fmax[j] \in Int) /\ FuseCorners = 1 .. top
  BY BoardIs DEF FuseCorners
<1>2. ASSUME NEW c \in CornerSet
      PROVE  IF above(c) = {} THEN FuseOf(c) = top
             ELSE FuseOf(c) \in above(c) /\ \A k \in above(c) : FuseOf(c) <= k
  <2>1. above(c) \subseteq Nat BY <1>1
  <2>2. FuseOf(c) = IF above(c) = {} THEN top
                    ELSE CHOOSE j \in above(c) : \A k \in above(c) : j <= k
    BY DEF FuseOf
  <2> HIDE DEF above
  <2>3. above(c) # {} => \E j \in above(c) : \A k \in above(c) : j <= k BY <2>1, Least
  <2>4. QED BY <2>2, <2>3
<1>3. ASSUME NEW c \in CornerSet PROVE FuseOf(c) \in FuseCorners
  BY <1>1, <1>2
<1>4. ASSUME NEW c \in CornerSet, NEW d \in CornerSet, c <= d
      PROVE FuseOf(c) <= FuseOf(d)
  <2>1. above(d) \subseteq above(c) BY <1>1, <1>4 DEF CornerSet
  <2>2. FuseOf(c) \in 1 .. top /\ FuseOf(d) \in 1 .. top BY <1>1, <1>3
  <2>3. CASE above(d) = {} BY <1>1, <1>2, <2>2, <2>3
  <2>4. CASE above(d) # {}
    <3> HIDE DEF above
    <3>1. FuseOf(d) \in above(d) BY <1>2, <2>4
    <3>2. QED BY <1>2, <2>1, <3>1
  <2>5. QED BY <2>3, <2>4
<1>5. QED BY <1>3, <1>4

\* With corners of its own, a fuse corner has a highest one, and a corner of the next fuse
\* corner lies after that one and not after its own highest.
LEMMA FmaxIs ==
  ASSUME OnBoard, \A j \in FuseCorners : CornersOf(j) # {}
  PROVE  /\ \A j \in FuseCorners : Fmax(j) \in CornerSet /\ FuseOf(Fmax(j)) = j
         /\ \A c \in CornerSet : c <= Fmax(FuseOf(c))
         /\ \A c \in CornerSet : FuseOf(c) > 1 =>
              FuseOf(c) - 1 \in FuseCorners /\ Fmax(FuseOf(c) - 1) < c
<1>1. Len(board.floor) \in Nat BY BoardIs
<1>2. ASSUME NEW j \in FuseCorners
      PROVE  Fmax(j) \in CornersOf(j) /\ \A d \in CornersOf(j) : d <= Fmax(j)
  <2>1. CornersOf(j) \in SUBSET (1 .. Len(board.floor)) BY DEF CornersOf, CornerSet
  <2>2. \E c \in CornersOf(j) : \A d \in CornersOf(j) : d <= c BY <1>1, <2>1, Greatest
  <2>3. QED BY <2>2 DEF Fmax
<1>3. \A j \in FuseCorners : Fmax(j) \in CornerSet /\ FuseOf(Fmax(j)) = j
  BY <1>2 DEF CornersOf
<1>4. ASSUME NEW c \in CornerSet PROVE c <= Fmax(FuseOf(c))
  <2>1. FuseOf(c) \in FuseCorners /\ c \in CornersOf(FuseOf(c))
    BY FuseOfIs DEF CornersOf
  <2>2. QED BY <1>2, <2>1
<1>5. ASSUME NEW c \in CornerSet, FuseOf(c) > 1
      PROVE  FuseOf(c) - 1 \in FuseCorners /\ Fmax(FuseOf(c) - 1) < c
  <2> DEFINE j == FuseOf(c) - 1
  <2>1. FuseOf(c) \in FuseCorners BY FuseOfIs
  <2>2. j \in FuseCorners /\ FuseOf(c) = j + 1 BY <1>5, <2>1 DEF FuseCorners
  <2> HIDE DEF j
  <2>3. Fmax(j) \in CornerSet /\ FuseOf(Fmax(j)) = j BY <1>3, <2>2
  <2>4. ASSUME c <= Fmax(j) PROVE FALSE
    <3>1. FuseOf(c) <= FuseOf(Fmax(j)) BY <2>3, <2>4, FuseOfIs
    <3>2. QED BY <2>2, <2>3, <3>1 DEF FuseCorners
  <2>5. Fmax(j) < c BY <2>3, <2>4 DEF CornerSet
  <2>6. QED BY <2>2, <2>5 DEF j
<1>6. QED BY <1>3, <1>4, <1>5

\* Frequencies ascend on a board that the parsing accepted.
LEMMA FreqOrder ==
  ASSUME OnBoard, CornersValid
  PROVE  \A c \in CornerSet : \A d \in 1 .. c : board.freq[d] <= board.freq[c]
<1>1. Len(board.floor) \in Nat /\ \A i \in 1 .. Len(board.floor) : board.freq[i] \in Int
  BY BoardIs DEF CornerSet
<1>2. \A i \in 2 .. Len(board.floor) : board.freq[i - 1] <= board.freq[i]
  BY <1>1 DEF CornersValid, CornerSet
<1>3. QED BY <1>1, <1>2, Ascending DEF CornerSet

\* The quotient by a positive number keeps the order, and no less than a multiple of the
\* number gives less than that multiple's factor.
LEMMA Quotient ==
  ASSUME NEW s \in Nat \ {0}, NEW a \in Int, NEW b \in Int
  PROVE  /\ a <= b => a \div s <= b \div s
         /\ a <= b * s => a \div s <= b
         /\ a >= 0 => a \div s >= 0
<1>1. \A x \in Int : x \div s \in Int /\ (x \div s) * s <= x /\ x < (x \div s) * s + s
  BY Division
<1>2. ASSUME NEW p \in Int, NEW q \in Int, p * s < q * s + s PROVE p <= q
  <2>1. CASE p <= q BY <2>1
  <2>2. CASE p >= q + 1
    <3>1. p * s >= (q + 1) * s BY <2>2
    <3>2. QED BY <1>2, <3>1
  <2>3. QED BY <2>1, <2>2
<1>3. ASSUME a <= b PROVE a \div s <= b \div s
  <2> DEFINE p == a \div s
             q == b \div s
  <2>1. p \in Int /\ q \in Int /\ p * s <= a /\ b < q * s + s BY <1>1
  <2> HIDE DEF p, q
  <2>2. p * s \in Int /\ q * s \in Int BY <2>1
  <2>3. p * s < q * s + s BY <1>3, <2>1, <2>2
  <2>4. QED BY <1>2, <2>1, <2>3 DEF p, q
<1>4. ASSUME a <= b * s PROVE a \div s <= b
  <2> DEFINE p == a \div s
  <2>1. p \in Int /\ p * s <= a BY <1>1
  <2> HIDE DEF p
  <2>2. p * s \in Int /\ b * s \in Int BY <2>1
  <2>3. p * s < b * s + s BY <1>4, <2>1, <2>2
  <2>4. QED BY <1>2, <2>1, <2>3 DEF p
<1>5. ASSUME a >= 0 PROVE a \div s >= 0
  <2> DEFINE q == a \div s
  <2>1. q \in Int /\ a < q * s + s BY <1>1
  <2> HIDE DEF q
  <2>2. q * s \in Int /\ 0 * s = 0 BY <2>1
  <2>3. 0 * s < q * s + s BY <1>5, <2>1, <2>2
  <2>4. QED BY <1>2, <2>1, <2>3 DEF q
<1>6. QED BY <1>3, <1>4, <1>5

\* The products of ordered factors.
LEMMA Product ==
  ASSUME NEW a \in Nat, NEW b \in Int, NEW x \in Int, NEW y \in Int, x <= y
  PROVE  a * x \in Int /\ a * x <= a * y /\ x * a <= y * a
OBVIOUS

\* What lies between two points is between their heights, rises with the place, and is not
\* below the line through them.
OnLine(x1, y1, x2, y2, x) ==
  LET v == Interpolate(x1, y1, x2, y2, x)
  IN  /\ v \in Int /\ y1 <= v /\ v <= y2
      /\ \A z \in Int : x <= z /\ z <= x2 => v <= Interpolate(x1, y1, x2, y2, z)
      /\ (x2 - x1) * (v - y1) >= (x - x1) * (y2 - y1)
      /\ x = x2 => v = y2
LEMMA InterpolateIs ==
  ASSUME NEW x1 \in Int, NEW x2 \in Int, NEW y1 \in Int, NEW y2 \in Int, y1 <= y2,
         NEW x \in Int, x1 <= x, x <= x2
  PROVE  OnLine(x1, y1, x2, y2, x)
<1> DEFINE I(z) == Interpolate(x1, y1, x2, y2, z)
<1>1. CASE x1 >= x2
  <2>1. \A z \in Int : I(z) = y2 BY <1>1 DEF Interpolate
  <2>2. x2 - x1 = 0 /\ x - x1 = 0 BY <1>1
  <2>3. (x2 - x1) * (y2 - y1) >= (x - x1) * (y2 - y1) BY <2>2
  <2>4. QED BY <2>1, <2>3 DEF OnLine
<1>2. CASE x1 < x2
  <2> DEFINE s == x2 - x1
             h == y2 - y1
             q(z) == ((x2 - z) * h) \div s
  <2>1. s \in Nat \ {0} /\ h \in Nat BY <1>2
  <2>2. ASSUME NEW z \in Int, x1 <= z, z <= x2
        PROVE  /\ I(z) = y2 - q(z)
               /\ q(z) \in Int /\ 0 <= q(z) /\ q(z) <= h /\ q(z) * s <= (x2 - z) * h
    <3>1. I(z) = y2 - q(z) BY <1>2, <2>2 DEF Interpolate
    <3>2. (x2 - z) * h \in Int /\ (x2 - z) * h >= 0 /\ (x2 - z) * h <= h * s
      <4>1. x2 - z \in Nat /\ x2 - z <= s BY <2>2
      <4> HIDE DEF s, h
      <4>2. QED BY <2>1, <4>1
    <3> DEFINE a == (x2 - z) * h
    <3>3. q(z) = a \div s OBVIOUS
    <3> HIDE DEF a, q, s, h
    <3>4. a \in Int /\ a >= 0 /\ a <= h * s BY <3>2 DEF a
    <3>5. a \div s \in Int /\ (a \div s) * s <= a BY <2>1, <3>4, Division
    <3>6. a \div s <= h /\ a \div s >= 0 BY <2>1, <3>4, Quotient
    <3>7. QED BY <3>1, <3>3, <3>5, <3>6 DEF a
  <2>3. ASSUME NEW z \in Int, x <= z, z <= x2 PROVE I(x) <= I(z)
    <3>1. (x2 - z) * h <= (x2 - x) * h /\ (x2 - z) * h \in Int /\ (x2 - x) * h \in Int
      <4>1. x2 - z <= x2 - x /\ x2 - z \in Int /\ x2 - x \in Int BY <2>3
      <4> HIDE DEF h
      <4>2. QED BY <2>1, <4>1
    <3>2. q(z) <= q(x)
      <4> HIDE DEF s, h
      <4>1. QED BY <2>1, <3>1, Quotient
    <3>3. I(x) = y2 - q(x) /\ I(z) = y2 - q(z) /\ q(x) \in Int /\ q(z) \in Int BY <2>2, <2>3
    <3> HIDE DEF I, q
    <3>4. QED BY <3>2, <3>3
  <2>4. s * (I(x) - y1) >= (x - x1) * h
    <3>1. I(x) - y1 = h - q(x) /\ q(x) \in Int /\ q(x) * s <= (x2 - x) * h BY <2>2
    <3>2. s * (h - q(x)) = s * h - q(x) * s
      <4>1. q(x) \in Int BY <3>1
      <4> HIDE DEF q, s, h
      <4>2. QED BY <2>1, <4>1
    <3>3. (x - x1) * h = s * h - (x2 - x) * h
      <4>1. x - x1 = s - (x2 - x) OBVIOUS
      <4>2. x2 - x \in Int OBVIOUS
      <4> HIDE DEF s, h
      <4>3. (s - (x2 - x)) * h = s * h - (x2 - x) * h BY <2>1, <4>2
      <4>4. QED BY <4>1, <4>3
    <3>4. q(x) * s \in Int /\ (x2 - x) * h \in Int /\ s * h \in Int
      <4>1. q(x) \in Int BY <3>1
      <4> HIDE DEF q
      <4>2. QED BY <2>1, <4>1
    <3> HIDE DEF I, q, s, h
    <3>5. QED BY <3>1, <3>2, <3>3, <3>4
  <2>5. I(x) \in Int /\ y1 <= I(x) /\ I(x) <= y2
    <3>1. I(x) = y2 - q(x) /\ q(x) \in Int /\ 0 <= q(x) /\ q(x) <= h BY <2>2
    <3> HIDE DEF I, q
    <3>2. QED BY <3>1
  <2>6. ASSUME x = x2 PROVE I(x) = y2
    <3>1. I(x) = y2 - q(x) /\ q(x) \in Int /\ 0 <= q(x) BY <2>2
    <3>2. (x2 - x) * h = 0
      <4>1. x2 - x = 0 BY <2>6
      <4> HIDE DEF h
      <4>2. QED BY <2>1, <4>1
    <3>3. q(x) <= 0
      <4>1. 0 * s = 0 /\ 0 <= 0 * s BY <2>1
      <4>2. 0 \div s <= 0
        <5> HIDE DEF s
        <5>1. QED BY <2>1, <4>1, Quotient
      <4>3. QED BY <3>2, <4>2
    <3> HIDE DEF I, q
    <3>4. QED BY <3>1, <3>3
  <2> HIDE DEF I
  <2>7. QED BY <2>3, <2>4, <2>5, <2>6 DEF I, OnLine
<1>3. QED BY <1>1, <1>2

\* Spread over the corners of a board that the parsing accepted: the first fuse corner's
\* value, then between the low and the high value of the fuse corner, rising with the
\* corner, not below the line, and the high value at the top.
LEMMA SpreadIs ==
  ASSUME OnBoard, CornersValid, \A j \in FuseCorners : CornersOf(j) # {},
         NEW low, NEW high,
         \A j \in FuseCorners : low[j] \in Int /\ high[j] \in Int /\ low[j] <= high[j]
  PROVE  LET s == Spread(low, high)
         IN  /\ s \in [CornerSet -> Int]
             /\ \A c \in CornerSet : FuseOf(c) = 1 => s[c] = high[1]
             /\ \A c \in CornerSet : FuseOf(c) # 1 =>
                  LET j == FuseOf(c)
                      x1 == board.freq[Fmax(j - 1)]
                      x2 == board.freq[Fmax(j)]
                  IN  /\ low[j] <= s[c] /\ s[c] <= high[j]
                      /\ (x2 - x1) * (s[c] - low[j]) >= (board.freq[c] - x1) * (high[j] - low[j])
                      /\ c = Fmax(j) => s[c] = high[j]
                      /\ \A d \in CornerSet : c <= d /\ FuseOf(d) = j => s[c] <= s[d]
<1> DEFINE s == Spread(low, high)
<1>1. ASSUME NEW c \in CornerSet
      PROVE  s[c] = IF FuseOf(c) = 1 THEN high[1]
                    ELSE Interpolate(board.freq[Fmax(FuseOf(c) - 1)], low[FuseOf(c)],
                                     board.freq[Fmax(FuseOf(c))], high[FuseOf(c)], board.freq[c])
  BY DEF Spread
<1>2. FuseCorners = 1 .. Len(board.ref) /\ Len(board.ref) \in Nat \ {0}
      /\ CornerSet = 1 .. Len(board.floor) /\ Len(board.floor) \in Nat
  BY BoardIs DEF FuseCorners, CornerSet
<1>3. \A c \in CornerSet : board.freq[c] \in Int BY BoardIs
<1>4. ASSUME NEW c \in CornerSet, FuseOf(c) # 1
      PROVE  LET j == FuseOf(c)
                 x1 == board.freq[Fmax(j - 1)]
                 x2 == board.freq[Fmax(j)]
             IN  /\ s[c] \in Int /\ low[j] <= s[c] /\ s[c] <= high[j]
                 /\ (x2 - x1) * (s[c] - low[j]) >= (board.freq[c] - x1) * (high[j] - low[j])
                 /\ c = Fmax(j) => s[c] = high[j]
                 /\ \A d \in CornerSet : c <= d /\ FuseOf(d) = j => s[c] <= s[d]
  <2> DEFINE j == FuseOf(c)
             x1 == board.freq[Fmax(j - 1)]
             x2 == board.freq[Fmax(j)]
             f == board.freq[c]
  <2>1. j \in FuseCorners /\ j > 1 BY <1>2, <1>4, FuseOfIs
  <2>2. /\ Fmax(j - 1) \in CornerSet /\ Fmax(j) \in CornerSet /\ FuseOf(Fmax(j)) = j
        /\ Fmax(j - 1) < c /\ c <= Fmax(j)
    BY <2>1, FmaxIs
  <2>3. x1 \in Int /\ x2 \in Int /\ f \in Int BY <1>3, <2>2
  <2>4. x1 <= f /\ f <= x2 BY <1>2, <2>2, FreqOrder
  <2>5. low[j] \in Int /\ high[j] \in Int /\ low[j] <= high[j] BY <2>1
  <2>6. s[c] = Interpolate(x1, low[j], x2, high[j], f) BY <1>1, <1>4
  <2>7. ASSUME NEW d \in CornerSet, c <= d, FuseOf(d) = j
        PROVE  /\ s[d] = Interpolate(x1, low[j], x2, high[j], board.freq[d])
               /\ board.freq[d] \in Int /\ f <= board.freq[d] /\ board.freq[d] <= x2
    <3>1. s[d] = Interpolate(x1, low[j], x2, high[j], board.freq[d])
      <4>1. FuseOf(d) = FuseOf(c) BY <2>7
      <4>2. QED BY <1>1, <1>4, <4>1
    <3>2. d <= Fmax(j) BY <2>7, FmaxIs
    <3>3. QED BY <1>2, <1>3, <2>2, <2>7, <3>1, <3>2, FreqOrder
  <2>8. c = Fmax(j) => f = x2 OBVIOUS
  <2> HIDE DEF s, j, x1, x2, f
  <2>9. /\ s[c] \in Int /\ low[j] <= s[c] /\ s[c] <= high[j]
        /\ (x2 - x1) * (s[c] - low[j]) >= (f - x1) * (high[j] - low[j])
        /\ f = x2 => s[c] = high[j]
        /\ \A z \in Int : f <= z /\ z <= x2 => s[c] <= Interpolate(x1, low[j], x2, high[j], z)
    <3> DEFINE lo == low[j]
               hi == high[j]
    <3>1. lo \in Int /\ hi \in Int /\ lo <= hi BY <2>5
    <3> HIDE DEF lo, hi
    <3>2. OnLine(x1, lo, x2, hi, f) BY ONLY <2>3, <2>4, <3>1, InterpolateIs
    <3>3. s[c] = Interpolate(x1, lo, x2, hi, f) BY <2>6 DEF lo, hi
    <3>4. QED BY <3>2, <3>3, Zenon DEF lo, hi, OnLine
  <2>10. \A d \in CornerSet : c <= d /\ FuseOf(d) = j => s[c] <= s[d] BY <2>7, <2>9
  <2>11. QED BY <2>8, <2>9, <2>10 DEF j, x1, x2, f
<1>5. s \in [CornerSet -> Int]
  <2>1. \A c \in CornerSet : s[c] \in Int
    <3>1. ASSUME NEW c \in CornerSet PROVE s[c] \in Int
      <4>1. CASE FuseOf(c) = 1 BY <1>1, <1>2, <4>1
      <4>2. CASE FuseOf(c) # 1
        <5> HIDE DEF s
        <5>1. QED BY <1>4, <4>2
      <4>3. QED BY <4>1, <4>2
    <3>2. QED BY <3>1
  <2>2. s = [c \in CornerSet |-> s[c]] BY DEF Spread
  <2> HIDE DEF s
  <2>3. QED BY <2>1, <2>2
<1>6. \A c \in CornerSet : FuseOf(c) = 1 => s[c] = high[1] BY <1>1
<1> HIDE DEF s
<1>7. QED BY <1>4, <1>5, <1>6 DEF s

\* When each fuse corner's low value is the high value of the one before it, the spread
\* values ascend.
LEMMA SpreadOrder ==
  ASSUME OnBoard, CornersValid, \A j \in FuseCorners : CornersOf(j) # {},
         NEW low, NEW high,
         \A j \in FuseCorners : low[j] \in Int /\ high[j] \in Int /\ low[j] <= high[j],
         \A j \in FuseCorners \ {1} : low[j] = high[j - 1]
  PROVE  \A c \in CornerSet : \A d \in 1 .. c : Spread(low, high)[d] <= Spread(low, high)[c]
<1> DEFINE s == Spread(low, high)
<1>1. /\ s \in [CornerSet -> Int]
      /\ \A c \in CornerSet : FuseOf(c) = 1 => s[c] = high[1]
      /\ \A c \in CornerSet : FuseOf(c) # 1 =>
           /\ low[FuseOf(c)] <= s[c] /\ s[c] <= high[FuseOf(c)]
           /\ \A d \in CornerSet : c <= d /\ FuseOf(d) = FuseOf(c) => s[c] <= s[d]
  BY SpreadIs
<1>2. FuseCorners = 1 .. Len(board.ref) /\ Len(board.ref) \in Nat \ {0}
      /\ CornerSet = 1 .. Len(board.floor) /\ Len(board.floor) \in Nat
  BY BoardIs DEF FuseCorners, CornerSet
<1> HIDE DEF s
<1>3. \A j \in FuseCorners : \A i \in 1 .. j : high[i] <= high[j]
  <2>1. \A i \in 2 .. Len(board.ref) : high[i - 1] <= high[i] BY <1>2
  <2>2. QED BY <1>2, <2>1, Ascending
<1>4. ASSUME NEW c \in CornerSet, NEW d \in 1 .. c PROVE s[d] <= s[c]
  <2>1. d \in CornerSet BY <1>2
  <2>2. FuseOf(d) \in FuseCorners /\ FuseOf(c) \in FuseCorners /\ FuseOf(d) <= FuseOf(c)
    BY <1>2, <2>1, FuseOfIs
  <2>3. s[d] \in Int /\ s[c] \in Int BY <1>1, <2>1
  <2>4. CASE FuseOf(d) = FuseOf(c)
    <3>1. CASE FuseOf(d) = 1
      <4>1. s[d] = high[1] /\ s[c] = high[1] BY <1>1, <2>1, <2>4, <3>1, Zenon
      <4>2. QED BY <2>3, <4>1
    <3>2. CASE FuseOf(d) # 1 BY <1>1, <2>1, <2>4, <3>2
    <3>3. QED BY <3>1, <3>2
  <2>5. CASE FuseOf(d) # FuseOf(c)
    <3> DEFINE i == FuseOf(d)
               k == FuseOf(c)
    <3>1. i < k /\ k # 1 /\ k - 1 \in FuseCorners /\ i \in 1 .. k - 1 BY <1>2, <2>2, <2>5
    <3>2. s[d] <= high[i]
      <4>1. i = 1 => s[d] = high[1] BY <1>1, <2>1
      <4>2. i # 1 => s[d] <= high[i] BY <1>1, <2>1
      <4>3. QED BY <1>2, <4>1, <4>2
    <3>3. low[k] <= s[c] BY <1>1, <3>1
    <3>4. low[k] = high[k - 1] BY <2>2, <3>1
    <3>5. high[i] <= high[k - 1] BY <1>3, <3>1
    <3>6. high[i] \in Int /\ high[k - 1] \in Int BY <2>2, <3>1
    <3> HIDE DEF i, k
    <3>7. QED BY <2>3, <3>2, <3>3, <3>4, <3>5, <3>6
  <2>6. QED BY <2>4, <2>5
<1>5. QED BY <1>4 DEF s

\* The part type is one of those that the thresholds tell apart.
LEMMA PartTypeIs ==
  ASSUME OnBoard, NEW top \in Int
  PROVE  PartType(top) \in 0 .. Len(board.parts)
<1> DEFINE n == Len(board.parts)
           P(i) == /\ i = n \/ top < board.parts[i + 1]
                   /\ \A k \in 1 .. i : top >= board.parts[k]
           T == {i \in 0 .. n : i = n \/ top < board.parts[i + 1]}
<1>1. n \in Nat /\ \A i \in 1 .. n : board.parts[i] \in Int
  <2>1. board.parts \in Seq(Int) BY BoardsOK DEF OnBoard, WellFormed
  <2>2. QED BY <2>1, ElementOfSeq
<1>2. T \subseteq Nat /\ n \in T BY <1>1
<1>3. PICK m \in T : \A y \in T : m <= y
  <2> HIDE DEF T
  <2>1. QED BY <1>2, Least
<1>4. ASSUME NEW k \in 1 .. m PROVE top >= board.parts[k]
  <2>1. k - 1 \in 0 .. n /\ k - 1 < m /\ k - 1 # n /\ k \in 1 .. n BY <1>1, <1>3
  <2>2. k - 1 \notin T
    <3>1. m \in Nat BY <1>2
    <3> HIDE DEF T
    <3>2. ~(m <= k - 1) BY <2>1, <3>1
    <3>3. QED BY <1>3, <3>2
  <2>3. ~(top < board.parts[k]) BY <2>1, <2>2
  <2>4. QED BY <1>1, <2>1, <2>3
<1>5. m \in 0 .. n /\ P(m) BY <1>3, <1>4
<1>6. PartType(top) = CHOOSE i \in 0 .. n : P(i) BY DEF PartType
<1> HIDE DEF P, n
<1>7. PartType(top) \in 0 .. n BY <1>5, <1>6
<1>8. QED BY <1>7 DEF n

\* An adjustment per part is a number for each fuse corner.
LEMMA OfPartIs ==
  ASSUME OnBoard, NEW p \in 0 .. Len(board.parts), NEW j \in FuseCorners
  PROVE  /\ AdjAt(OfPart(board.fuseAdj, p), j) \in Int
         /\ AdjAt(OfPart(board.cold, p), j) \in Int
         /\ AdjAt(OfPart(board.clFuse, p), j) \in Int
<1>1. board.parts \in Seq(Int) /\ j \in 1 .. Len(board.ref)
      /\ \A s \in {board.fuseAdj, board.cold, board.clFuse} : PerPart(s, board)
  BY BoardsOK DEF OnBoard, WellFormed, FuseCorners
<1>2. p + 1 \in 1 .. Len(board.parts) + 1 BY <1>1
<1>3. ASSUME NEW s, PerPart(s, board) PROVE AdjAt(OfPart(s, p), j) \in Int
  <2>1. CASE s = <<>> BY <2>1 DEF OfPart, AdjAt
  <2>2. CASE s # <<>>
    <3>1. s \in Seq(Seq(Int)) /\ p + 1 \in 1 .. Len(s) /\ Len(s[p + 1]) = Len(board.ref)
      BY <1>2, <1>3, <2>2 DEF PerPart
    <3>2. s[p + 1] \in Seq(Int) BY <3>1, ElementOfSeq
    <3>3. s[p + 1][j] \in Int BY <1>1, <3>1, <3>2, ElementOfSeq
    <3>4. QED BY <2>2, <3>3 DEF OfPart, AdjAt
  <2>3. QED BY <2>1, <2>2
<1>4. QED BY <1>1, <1>3

\* The voltage a fuse stands for.
LEMMA ConvertedIs ==
  ASSUME OnBoard, fused \in Fuses, Fits(board, fused), NEW j \in FuseCorners
  PROVE  Converted(board.ref[j], fused.init[j]) \in Int
<1>1. board.ref[j] \in Int /\ board.unit \in Int BY BoardIs
<1>2. fused.init \in Seq(Nat) /\ j \in 1 .. Len(fused.init)
  BY BoardsOK DEF OnBoard, WellFormed, Fits, FuseCorners
<1>3. fused.init[j] \in Nat BY <1>2, ElementOfSeq
<1>4. fused.init[j] % 32 \in Int BY <1>3
<1>5. \A g \in {-1, 1} : g * (fused.init[j] % 32) * board.unit \in Int
  BY <1>1, <1>4
<1>6. QED BY <1>1, <1>5 DEF Converted

\* What cpr3_adjust_open_loop_voltages makes of rising voltages rises, as the least
\* differences are not negative.
LEMMA AdjustedIs ==
  ASSUME OnBoard, NEW s \in [CornerSet -> Int]
  PROVE  /\ \A c \in CornerSet : Adjusted(s)[c] \in Int
         /\ (\A c \in CornerSet : \A d \in 1 .. c : s[d] <= s[c]) =>
               \A c \in CornerSet : \A d \in 1 .. c : Adjusted(s)[d] <= Adjusted(s)[c]
<1>1. CASE board.adj = <<>> BY <1>1 DEF Adjusted
<1>2. CASE board.adj # <<>>
  <2> DEFINE n == Len(board.floor)
             a == [c \in 1 .. n |-> s[c] + board.adj[c]]
             m == [c \in 1 .. n |-> AdjAt(board.diff, c)]
             Equation(r) == r = [c \in CornerSet |->
                                   IF c = 1 THEN s[1] + board.adj[1]
                                   ELSE MaxI(s[c] + board.adj[c], r[c - 1] + AdjAt(board.diff, c))]
  <2>1. n \in Nat /\ n > 0 /\ CornerSet = 1 .. n /\ \A c \in CornerSet : board.adj[c] \in Int
    BY <1>2, BoardIs DEF CornerSet
  <2>2. \A c \in CornerSet : AdjAt(board.diff, c) \in Nat
    <3>1. ASSUME NEW c \in CornerSet PROVE AdjAt(board.diff, c) >= 0
      <4>1. c \in 1 .. Len(board.floor) BY DEF CornerSet
      <4>2. board.diff # <<>> => board.diff[c] >= 0 BY <4>1, BoardsInOrder DEF OnBoard, InOrder
      <4>3. QED BY <4>2 DEF AdjAt
    <3>2. QED BY <3>1, BoardIs
  <2>3. a \in [1 .. n -> Int] /\ m \in [1 .. n -> Int]
    <3>1. \A c \in 1 .. n : s[c] + board.adj[c] \in Int /\ AdjAt(board.diff, c) \in Int
      <4> HIDE DEF n
      <4>1. QED BY <2>1, <2>2
    <3> HIDE DEF n
    <3>2. QED BY <3>1
  <2>4. PICK r \in [1 .. n -> Int] : Linked(n, 1 .. n, a, a, m, r)
    <3> HIDE DEF n, a, m
    <3>1. QED BY <2>1, <2>3, Chained
  <2>5. \A c \in 2 .. n : r[c] = MaxI(s[c] + board.adj[c], r[c - 1] + AdjAt(board.diff, c))
    <3>1. ASSUME NEW c \in 2 .. n
          PROVE  r[c] = MaxI(s[c] + board.adj[c], r[c - 1] + AdjAt(board.diff, c))
      <4>1. c \in 1 .. n BY <2>1
      <4>2. r[c] = MaxI(a[c], r[c - 1] + m[c]) BY <2>4, <4>1 DEF Linked
      <4>3. QED BY <4>1, <4>2
    <3>2. QED BY <3>1
  <2>6. r[1] = s[1] + board.adj[1] BY <2>1, <2>4 DEF Linked
  <2>7. Equation(r)
    <3>1. ASSUME NEW c \in CornerSet
          PROVE r[c] = IF c = 1 THEN s[1] + board.adj[1]
                       ELSE MaxI(s[c] + board.adj[c], r[c - 1] + AdjAt(board.diff, c))
      <4>1. c = 1 \/ c \in 2 .. n BY <2>1
      <4> HIDE DEF n
      <4>2. QED BY <2>5, <2>6, <4>1
    <3>2. r = [c \in CornerSet |-> r[c]] BY <2>1, <2>4
    <3>3. QED BY <3>1, <3>2
  <2>8. Adjusted(s) = CHOOSE f : Equation(f) BY <1>2 DEF Adjusted
  <2> DEFINE f == Adjusted(s)
  <2>9. Equation(f)
    <3> HIDE DEF Equation
    <3>1. QED BY <2>7, <2>8
  <2> HIDE DEF f
  <2>10. /\ f[1] = s[1] + board.adj[1]
         /\ \A c \in 2 .. n : f[c] = MaxI(s[c] + board.adj[c], f[c - 1] + AdjAt(board.diff, c))
    <3>1. ASSUME NEW c \in 1 .. n
          PROVE f[c] = IF c = 1 THEN s[1] + board.adj[1]
                       ELSE MaxI(s[c] + board.adj[c], f[c - 1] + AdjAt(board.diff, c))
      <4>1. c \in CornerSet BY <2>1
      <4>2. QED BY <2>9, <4>1
    <3>2. 1 \in 1 .. n /\ \A c \in 2 .. n : c \in 1 .. n /\ c # 1 BY <2>1
    <3> HIDE DEF n, Equation
    <3>3. QED BY <3>1, <3>2
  <2>11. \A c \in 1 .. n : f[c] \in Int
    <3> DEFINE G == {c \in 1 .. n : f[c] \in Int}
    <3>1. 1 \in G BY <2>1, <2>10
    <3>2. ASSUME NEW i \in 1 .. n, i - 1 \in G, i > 1 PROVE i \in G
      <4>1. f[i] = MaxI(s[i] + board.adj[i], f[i - 1] + AdjAt(board.diff, i)) BY <2>10, <3>2
      <4>2. f[i - 1] \in Int /\ s[i] \in Int /\ board.adj[i] \in Int /\ AdjAt(board.diff, i) \in Int
        BY <2>1, <2>2, <3>2
      <4>3. QED BY <4>1, <4>2 DEF MaxI
    <3> HIDE DEF G
    <3>3. 1 .. n \subseteq G BY <2>1, <3>1, <3>2, Upward
    <3>4. QED BY <3>3 DEF G
  <2>12. \A c \in 2 .. n : f[c - 1] <= f[c]
    <3>1. ASSUME NEW c \in 2 .. n PROVE f[c - 1] <= f[c]
      <4>1. f[c - 1] \in Int /\ s[c] \in Int /\ board.adj[c] \in Int /\ AdjAt(board.diff, c) \in Nat
        BY <2>1, <2>2, <2>11
      <4>2. f[c] = MaxI(s[c] + board.adj[c], f[c - 1] + AdjAt(board.diff, c)) BY <2>10
      <4>3. QED BY <4>1, <4>2 DEF MaxI
    <3>2. QED BY <3>1
  <2>13. \A c \in 1 .. n : \A d \in 1 .. c : f[d] <= f[c]
    <3> HIDE DEF n
    <3>1. QED BY <2>1, <2>11, <2>12, Ascending
  <2>14. QED BY <2>1, <2>11, <2>13 DEF f
<1>3. QED BY <1>1, <1>2

-----------------------------------------------------------------------------
(* What the fuses ask for.                                                 *)
\* What each fuse corner asks for, without the adjustment for the cold.
Raw(j) == IF fused.off THEN board.ref[j] ELSE Converted(board.ref[j], fused.init[j])
Plain == [j \in FuseCorners |->
            Raw(j) + AdjAt(OfPart(board.fuseAdj, PartType(Raw(Len(board.ref)))), j)]
Asked == RunningMax(Plain, FuseCorners)

\* On or above the line through the voltages F of the fuse corners.
Interpolated == board.npu \/ Has("volt-interp")
Above(c, v, F) ==
  LET j == FuseOf(c)
      x1 == board.freq[Fmax(j - 1)]
      x2 == board.freq[Fmax(j)]
  IN IF j = 1 \/ ~Interpolated THEN v >= F[j]
     ELSE (x2 - x1) * (v - F[j - 1]) >= (board.freq[c] - x1) * (F[j] - F[j - 1])
Suffices(c, v) == Above(c, v, Asked) \/ v >= Round(board.ceiling[c])

\* Below the line of higher ends, the line of lower ends is passed too.
LEMMA Weights ==
  ASSUME NEW s \in Nat, NEW u \in Nat, u <= s, NEW v \in Int, NEW w \in Int, v <= w,
         NEW a \in Int, NEW a2 \in Int, a <= a2, NEW b \in Int, NEW b2 \in Int, b <= b2,
         s * (v - a2) >= u * (b2 - a2)
  PROVE  s * (w - a) >= u * (b - a)
<1> DEFINE t == s - u
<1>1. t \in Nat /\ s = t + u OBVIOUS
<1> HIDE DEF t
<1>2. s * v <= s * w /\ s * v \in Int /\ s * w \in Int BY Product
<1>3. t * a <= t * a2 /\ t * a \in Int /\ t * a2 \in Int BY <1>1, Product
<1>4. u * b <= u * b2 /\ u * b \in Int /\ u * b2 \in Int BY Product
<1>5. \A x, y \in Int : s * (x - y) = s * x - (t * y + u * y) /\ u * (x - y) = u * x - u * y
  BY <1>1
<1>6. u * a \in Int /\ u * a2 \in Int OBVIOUS
<1>7. s * (v - a2) = s * v - (t * a2 + u * a2) /\ u * (b2 - a2) = u * b2 - u * a2
      /\ s * (w - a) = s * w - (t * a + u * a) /\ u * (b - a) = u * b - u * a
  BY <1>5
<1> DEFINE sv == s * v
           sw == s * w
           ta == t * a
           ta2 == t * a2
           ub == u * b
           ub2 == u * b2
           ua == u * a
           ua2 == u * a2
<1>8. /\ sv <= sw /\ ta <= ta2 /\ ub <= ub2
      /\ sv - (ta2 + ua2) >= ub2 - ua2
      /\ {sv, sw, ta, ta2, ub, ub2, ua, ua2} \subseteq Int
  BY <1>2, <1>3, <1>4, <1>6, <1>7
<1>9. s * (w - a) = sw - (ta + ua) /\ u * (b - a) = ub - ua BY <1>7
<1> HIDE DEF sv, sw, ta, ta2, ub, ub2, ua, ua2
<1>10. sw - (ta + ua) >= ub - ua BY ONLY <1>8
<1>11. QED BY <1>9, <1>10

\* The corner lies between the highest of its fuse corner and that of the one before.
LEMMA BetweenFuses ==
  ASSUME OnBoard, CornersValid, Interpolated => ~Unmapped, NEW c \in CornerSet,
         FuseOf(c) # 1, Interpolated
  PROVE  LET j == FuseOf(c)
             x1 == board.freq[Fmax(j - 1)]
             x2 == board.freq[Fmax(j)]
         IN  /\ j \in FuseCorners /\ j - 1 \in FuseCorners
             /\ x1 \in Int /\ x2 \in Int /\ board.freq[c] \in Int
             /\ x1 <= board.freq[c] /\ board.freq[c] <= x2
<1>1. \A j \in FuseCorners : CornersOf(j) # {} BY DEF Interpolated, Unmapped
<1>2. FuseCorners = 1 .. Len(board.ref) /\ CornerSet = 1 .. Len(board.floor)
      /\ Len(board.floor) \in Nat
  BY BoardIs DEF FuseCorners, CornerSet
<1> DEFINE j == FuseOf(c)
<1>3. j \in FuseCorners /\ j > 1 BY <1>2, FuseOfIs
<1>4. j - 1 \in FuseCorners /\ Fmax(j - 1) < c /\ c <= Fmax(j) BY <1>1, <1>3, FmaxIs
<1>5. Fmax(j - 1) \in CornerSet /\ Fmax(j) \in CornerSet BY <1>1, <1>3, <1>4, FmaxIs
<1>6. \A d \in CornerSet : board.freq[d] \in Int BY BoardIs
<1>7. Fmax(j - 1) \in 1 .. c /\ c \in 1 .. Fmax(j) BY <1>2, <1>4, <1>5
<1>8. QED BY <1>3, <1>4, <1>5, <1>6, <1>7, FreqOrder

\* What suffices for a corner still does when it is raised or when the fuses ask for less.
LEMMA AboveGrows ==
  ASSUME OnBoard, CornersValid, Interpolated => ~Unmapped, NEW c \in CornerSet,
         NEW F \in [FuseCorners -> Int], NEW G \in [FuseCorners -> Int],
         \A j \in FuseCorners : F[j] <= G[j],
         NEW v \in Int, NEW w \in Int, v <= w, Above(c, v, G)
  PROVE  Above(c, w, F)
<1> DEFINE j == FuseOf(c)
<1>1. j \in FuseCorners BY FuseOfIs
<1>2. F[j] \in Int /\ G[j] \in Int /\ F[j] <= G[j] BY <1>1
<1>3. CASE j = 1 \/ ~Interpolated
  <2>1. v >= G[j] BY <1>3 DEF Above
  <2> HIDE DEF j
  <2>2. w >= F[j] BY <1>2, <2>1
  <2>3. QED BY <1>3, <2>2 DEF Above, j
<1>4. CASE j # 1 /\ Interpolated
  <2> DEFINE x1 == board.freq[Fmax(j - 1)]
             x2 == board.freq[Fmax(j)]
             x == board.freq[c]
             s == x2 - x1
             u == x - x1
  <2>1. j - 1 \in FuseCorners /\ x1 \in Int /\ x2 \in Int /\ x \in Int /\ x1 <= x /\ x <= x2
    BY <1>4, BetweenFuses
  <2>2. s * (v - G[j - 1]) >= u * (G[j] - G[j - 1]) BY <1>4 DEF Above
  <2>3. F[j - 1] \in Int /\ G[j - 1] \in Int /\ F[j - 1] <= G[j - 1] BY <2>1
  <2>4. s \in Nat /\ u \in Nat /\ u <= s
    <3> HIDE DEF x1, x2, x
    <3>1. QED BY <2>1
  <2>5. s * (w - F[j - 1]) >= u * (F[j] - F[j - 1])
    <3> DEFINE a == F[j - 1]
               a2 == G[j - 1]
               b == F[j]
               b2 == G[j]
    <3>1. a \in Int /\ a2 \in Int /\ a <= a2 /\ b \in Int /\ b2 \in Int /\ b <= b2
          /\ s * (v - a2) >= u * (b2 - a2)
      BY <1>2, <2>2, <2>3
    <3> HIDE DEF a, a2, b, b2, s, u
    <3>2. s * (w - a) >= u * (b - a) BY ONLY <2>4, <3>1, v \in Int, w \in Int, v <= w, Weights
    <3>3. QED BY <3>2 DEF a, b
  <2>6. QED BY <1>4, <2>5 DEF Above
<1>5. QED BY <1>3, <1>4

\* What the fuses ask for rises from a fuse corner to the next.
LEMMA AskedIs ==
  ASSUME OnBoard, fused \in Fuses, Fits(board, fused)
  PROVE  /\ Asked \in [FuseCorners -> Int]
         /\ \A j \in FuseCorners : Raw(j) \in Int /\ Plain[j] \in Int
         /\ PartType(Raw(Len(board.ref))) \in 0 .. Len(board.parts)
<1>1. FuseCorners = 1 .. Len(board.ref) /\ Len(board.ref) \in FuseCorners
      /\ Len(board.ref) \in Nat /\ \A j \in FuseCorners : board.ref[j] \in Int
  BY BoardIs DEF FuseCorners
<1>2. \A j \in FuseCorners : Raw(j) \in Int BY <1>1, ConvertedIs DEF Raw
<1>3. PartType(Raw(Len(board.ref))) \in 0 .. Len(board.parts) BY <1>1, <1>2, PartTypeIs
<1>4. \A j \in FuseCorners : Plain[j] \in Int
  <2>1. ASSUME NEW j \in FuseCorners PROVE Plain[j] \in Int
    <3>1. AdjAt(OfPart(board.fuseAdj, PartType(Raw(Len(board.ref)))), j) \in Int
      BY <1>3, OfPartIs
    <3>2. QED BY <1>2, <3>1 DEF Plain
  <2>2. QED BY <2>1
<1>5. MaxSoFar(Len(board.ref), Plain, Asked) BY <1>1, <1>4, RunningMaxIs DEF Asked
<1>6. QED BY <1>1, <1>2, <1>3, <1>4, <1>5 DEF MaxSoFar

\* MuxSuits entries have a higher maximum so far.
LEMMA MaxGrows ==
  ASSUME NEW n \in Nat, NEW s, NEW t, NEW m, NEW q, MaxSoFar(n, s, m), MaxSoFar(n, t, q),
         \A i \in 1 .. n : s[i] \in Int /\ t[i] \in Int /\ s[i] <= t[i]
  PROVE  \A i \in 1 .. n : m[i] <= q[i]
<1>1. ASSUME NEW i \in 1 .. n PROVE m[i] <= q[i]
  <2>1. PICK k \in 1 .. i : m[i] = s[k] BY DEF MaxSoFar
  <2>2. t[k] <= q[i] /\ q[i] \in Int BY DEF MaxSoFar
  <2>3. k \in 1 .. n OBVIOUS
  <2>4. QED BY <2>1, <2>2, <2>3
<1>2. QED BY <1>1

\* What the cold adds is not negative.
LEMMA ColdIs ==
  ASSUME OnBoard, NEW p \in 0 .. Len(board.parts), NEW j \in FuseCorners
  PROVE  AdjAt(OfPart(board.cold, p), j) >= 0
<1>1. board.parts \in Seq(Int) /\ j \in 1 .. Len(board.ref) /\ PerPart(board.cold, board)
  BY BoardsOK DEF OnBoard, WellFormed, FuseCorners
<1>2. CASE board.cold = <<>> BY <1>2 DEF OfPart, AdjAt
<1>3. CASE board.cold # <<>>
  <2>1. board.cold \in Seq(Seq(Int)) /\ p + 1 \in 1 .. Len(board.cold)
    BY <1>1, <1>3 DEF PerPart
  <2>2. board.cold[p + 1][j] >= 0 BY <1>1, <2>1, BoardsInOrder DEF OnBoard, InOrder
  <2>3. QED BY <1>3, <2>2 DEF OfPart, AdjAt
<1>4. QED BY <1>2, <1>3

\* The open-loop voltages before any adjustment: they rise with the corner and none lies
\* below the line of the fuse corners' voltages.
Lows == [j \in FuseCorners |-> IF j = 1 THEN fuseVolt[1] ELSE fuseVolt[j - 1]]
Open == IF board.npu \/ Has("volt-interp") THEN Spread(Lows, fuseVolt)
         ELSE [c \in CornerSet |-> fuseVolt[FuseOf(c)]]
LEMMA OpenIs ==
  ASSUME OnBoard, CornersValid, ~Unmapped, fuseVolt \in [FuseCorners -> Int],
         \A j \in FuseCorners : \A i \in 1 .. j : fuseVolt[i] <= fuseVolt[j]
  PROVE  /\ Open \in [CornerSet -> Int]
         /\ \A c \in CornerSet : \A d \in 1 .. c : Open[d] <= Open[c]
         /\ \A c \in CornerSet : Above(c, Open[c], fuseVolt)
<1>1. FuseCorners = 1 .. Len(board.ref) /\ Len(board.ref) \in Nat \ {0}
      /\ CornerSet = 1 .. Len(board.floor) /\ Len(board.floor) \in Nat \ {0}
  BY BoardIs DEF FuseCorners, CornerSet
<1>2. \A c \in CornerSet : FuseOf(c) \in FuseCorners BY FuseOfIs
<1>3. CASE Interpolated
  <2>1. \A j \in FuseCorners : CornersOf(j) # {} BY <1>3 DEF Unmapped, Interpolated
  <2>2. ASSUME NEW j \in FuseCorners
        PROVE  /\ Lows[j] \in Int /\ fuseVolt[j] \in Int /\ Lows[j] <= fuseVolt[j]
               /\ j # 1 => Lows[j] = fuseVolt[j - 1]
    <3>1. fuseVolt[j] \in Int /\ fuseVolt[1] \in Int /\ 1 \in 1 .. j BY <1>1
    <3>2. j # 1 => j - 1 \in FuseCorners /\ j - 1 \in 1 .. j BY <1>1
    <3>3. QED BY <3>1, <3>2 DEF Lows
  <2>3. Open = Spread(Lows, fuseVolt) BY <1>3 DEF Open, Interpolated
  <2>4. /\ Open \in [CornerSet -> Int]
        /\ \A c \in CornerSet : FuseOf(c) = 1 => Open[c] = fuseVolt[1]
        /\ \A c \in CornerSet : FuseOf(c) # 1 =>
             LET j == FuseOf(c)
                 x1 == board.freq[Fmax(j - 1)]
                 x2 == board.freq[Fmax(j)]
             IN  (x2 - x1) * (Open[c] - Lows[j]) >= (board.freq[c] - x1) * (fuseVolt[j] - Lows[j])
    BY <2>1, <2>2, <2>3, SpreadIs
  <2>5. \A c \in CornerSet : \A d \in 1 .. c : Open[d] <= Open[c]
    BY <2>1, <2>2, <2>3, SpreadOrder
  <2>6. ASSUME NEW c \in CornerSet PROVE Above(c, Open[c], fuseVolt)
    <3>1. CASE FuseOf(c) = 1
      <4>1. Open[c] = fuseVolt[1] /\ fuseVolt[1] \in Int BY <1>1, <2>4, <3>1
      <4>2. QED BY <3>1, <4>1 DEF Above
    <3>2. CASE FuseOf(c) # 1
      <4> DEFINE j == FuseOf(c)
                 x1 == board.freq[Fmax(j - 1)]
                 x2 == board.freq[Fmax(j)]
      <4>1. Lows[j] = fuseVolt[j - 1] BY <1>2, <2>2, <3>2
      <4>2. (x2 - x1) * (Open[c] - Lows[j]) >= (board.freq[c] - x1) * (fuseVolt[j] - Lows[j])
        BY <2>4, <3>2
      <4>3. (x2 - x1) * (Open[c] - fuseVolt[j - 1])
               >= (board.freq[c] - x1) * (fuseVolt[j] - fuseVolt[j - 1])
        <5> HIDE DEF j, x1, x2
        <5>1. QED BY <4>1, <4>2
      <4>4. QED BY <1>3, <3>2, <4>3, Zenon DEF Above
    <3>3. QED BY <3>1, <3>2
  <2>7. QED BY <2>4, <2>5, <2>6
<1>4. CASE ~Interpolated
  <2>1. Open = [c \in CornerSet |-> fuseVolt[FuseOf(c)]] BY <1>4 DEF Open, Interpolated
  <2>2. ASSUME NEW c \in CornerSet, NEW d \in 1 .. c PROVE Open[d] <= Open[c]
    <3>1. d \in CornerSet /\ d <= c BY <1>1
    <3>2. FuseOf(d) \in 1 .. FuseOf(c) BY <1>1, <1>2, <3>1, FuseOfIs
    <3>3. QED BY <1>2, <2>1, <3>1, <3>2
  <2>3. ASSUME NEW c \in CornerSet PROVE Above(c, Open[c], fuseVolt)
    <3>1. Open[c] = fuseVolt[FuseOf(c)] /\ Open[c] \in Int BY <1>2, <2>1
    <3>2. QED BY <1>4, <3>1 DEF Above
  <2>4. QED BY <1>2, <2>1, <2>2, <2>3
<1>5. QED BY <1>3, <1>4

\* What the device tree gives as ceilings, rounded, rises.
LEMMA CeilingsRise ==
  ASSUME OnBoard
  PROVE  /\ \A c \in CornerSet : Round(board.ceiling[c]) \in Int
         /\ \A c \in CornerSet : \A d \in 1 .. c : Round(board.ceiling[d]) <= Round(board.ceiling[c])
         /\ \A c \in CornerSet : Round(board.ceiling[c]) <= board.boostCeiling
<1>1. board.step \in Nat \ {0} /\ CornerSet = 1 .. Len(board.floor) /\ Len(board.floor) \in Nat
      /\ \A c \in CornerSet : board.ceiling[c] \in Int
  BY BoardIs DEF CornerSet
<1>2. ASSUME NEW c \in CornerSet
      PROVE  /\ Round(board.ceiling[c]) \in Int
             /\ \A d \in 1 .. c : Round(board.ceiling[d]) <= Round(board.ceiling[c])
             /\ Round(board.ceiling[c]) <= board.boostCeiling
  <2>1. \A d \in 1 .. c : d \in CornerSet /\ board.ceiling[d] <= board.ceiling[c]
    BY <1>1, BoardsInOrder DEF OnBoard, InOrder
  <2>2. Round(board.ceiling[c]) <= board.boostCeiling
    BY <1>1, BoardsInOrder DEF OnBoard, InOrder, Round
  <2>3. QED BY <1>1, <2>1, <2>2, Rounded, RoundOrder
<1>3. QED BY <1>2

\* What suffices for a corner still does when raised.
LEMMA SufficesGrows ==
  ASSUME OnBoard, fused \in Fuses, Fits(board, fused), CornersValid, ~Unmapped,
         NEW c \in CornerSet, NEW v \in Int, NEW w \in Int, v <= w, Suffices(c, v)
  PROVE  Suffices(c, w)
<1>1. Round(board.ceiling[c]) \in Int BY CeilingsRise
<1>2. Asked \in [FuseCorners -> Int] BY AskedIs
<1>3. \A j \in FuseCorners : Asked[j] <= Asked[j] BY <1>2
<1>4. CASE Above(c, v, Asked)
  <2>1. Above(c, w, Asked) BY <1>2, <1>3, <1>4, AboveGrows
  <2>2. QED BY <2>1 DEF Suffices
<1>5. CASE v >= Round(board.ceiling[c]) BY <1>1, <1>5 DEF Suffices
<1>6. QED BY <1>4, <1>5 DEF Suffices

-----------------------------------------------------------------------------
(* The invariant.                                                          *)

Typed ==
  /\ OnBoard /\ fused \in Fuses /\ Fits(board, fused) /\ isCold \in BOOLEAN
  /\ part \in 0 .. Len(board.parts)
  /\ stage \in {"parse", "fuse", "open", "limit", "floor", "quot", "boost", "done", "failed"}
  /\ stage \notin {"parse", "failed"} =>
       CornersValid /\ {floor, ceiling, ol} \subseteq [CornerSet -> Int]

\* Every corner has room between a floor and a ceiling the supply can be set to, and the
\* ceiling is not above the device tree's.
Limits ==
  stage \notin {"parse", "failed"} =>
    \A c \in CornerSet :
      /\ floor[c] <= ceiling[c] /\ Stepped(floor[c])
      /\ stage # "done" => Stepped(ceiling[c]) /\ ceiling[c] <= Round(board.ceiling[c])

\* The fuse corners' voltages rise.
FusesRise ==
  stage \notin {"parse", "fuse", "failed"} =>
    /\ fuseVolt \in [FuseCorners -> Int]
    /\ \A j \in FuseCorners : \A i \in 1 .. j : fuseVolt[i] <= fuseVolt[j]

\* Until the open-loop voltages are limited, they and the ceilings rise.
Rising ==
  stage \in {"fuse", "open", "limit"} /\ board.misc = <<>> =>
    \A c \in CornerSet : \A d \in 1 .. c :
      ceiling[d] <= ceiling[c] /\ (stage = "limit" => ol[d] <= ol[c])

\* Once limited they lie between floor and ceiling.  They still rise, but where a floor that
\* is itself out of order has raised one.
Between(c) == floor[c] <= ol[c] /\ ol[c] <= ceiling[c] /\ Stepped(ol[c])
Limited ==
  stage = "floor" =>
    \A c \in CornerSet :
      /\ Between(c)
      /\ board.misc = <<>> =>
           \A d \in 1 .. c :
             ol[d] <= MaxI(ol[c], floor[d]) /\ ceiling[d] <= MaxI(ceiling[c], floor[d])

\* With the floors in order, they rise again.
Final ==
  stage \in {"quot", "boost", "done"} =>
    \A c \in CornerSet :
      /\ Between(c)
      /\ \A d \in 1 .. c : floor[d] <= floor[c] /\ (board.misc = <<>> => ol[d] <= ol[c])
      /\ \/ ceiling[c] <= Round(board.ceiling[c])
         \/ Has("boost") /\ c = Len(board.floor) /\ ceiling[c] = board.boostCeiling

TInv == Typed /\ Limits /\ FusesRise /\ Rising /\ Limited /\ Final

-----------------------------------------------------------------------------
(* Each pass keeps it.                                                     *)

\* The floors and ceilings the parsing accepts.
LEMMA ParseKeeps == ASSUME TInv, Parse PROVE TInv'
<1> USE DEF Parse
<1>1. OnBoard /\ board' = board /\ fused' = fused /\ stage' \in {"fuse", "failed"}
      /\ (stage' = "fuse" => CornersValid)
  BY DEF TInv, Typed
<1>2. board.step \in Nat \ {0} /\ (\A c \in CornerSet : board.floor[c] \in Int /\ board.ceiling[c] \in Int)
  BY <1>1, BoardIs
<1>3. \A c \in CornerSet : /\ Round(board.floor[c]) \in Int /\ Stepped(Round(board.floor[c]))
                             /\ Round(board.ceiling[c]) \in Int /\ Stepped(Round(board.ceiling[c]))
  BY <1>2, Rounded
<1>4. /\ floor' = [c \in CornerSet |-> Round(board.floor[c])]
      /\ ceiling' = [c \in CornerSet |-> Round(board.ceiling[c])]
      /\ ol' = [c \in CornerSet |-> 0]
  BY DEF Zero
<1>5. {floor', ceiling', ol'} \subseteq [CornerSet -> Int] BY <1>3, <1>4
<1>6. Typed'
  <2>1. CornerSet' = CornerSet /\ (CornersValid' <=> CornersValid) /\ (Fits(board, fused))'
        /\ isCold' \in BOOLEAN
    BY <1>1 DEF CornerSet, CornersValid, FuseCorners, Round, Fits, TInv, Typed
  <2>2. QED BY <1>1, <1>5, <2>1 DEF Typed, TInv, OnBoard
<1>7. CornerSet' = CornerSet /\ (\A v : Round(v)' = Round(v) /\ (Stepped(v)' <=> Stepped(v)))
  BY <1>1 DEF CornerSet, Round, Stepped
<1>8. Limits'
  <2>1. ASSUME NEW c \in CornerSet, stage' # "failed"
        PROVE  /\ floor'[c] <= ceiling'[c] /\ Stepped(floor'[c])
               /\ Stepped(ceiling'[c]) /\ ceiling'[c] <= Round(board.ceiling[c])
    <3>1. Round(board.floor[c]) <= Round(board.ceiling[c])
      BY <1>1, <2>1 DEF CornersValid
    <3>2. QED BY <1>3, <1>4, <3>1
  <2>2. ASSUME stage' # "failed", NEW c \in CornerSet'
        PROVE /\ floor'[c] <= ceiling'[c] /\ Stepped(floor[c])'
              /\ Stepped(ceiling[c])' /\ ceiling'[c] <= Round(board.ceiling[c])'
    BY <1>1, <1>7, <2>1, <2>2 DEF Stepped, Round, CornerSet
  <2>3. QED BY <2>2 DEF Limits
<1>9. Rising'
  <2>1. ASSUME NEW c \in CornerSet, NEW d \in 1 .. c PROVE ceiling'[d] <= ceiling'[c]
    <3>1. d \in CornerSet /\ board.ceiling[d] <= board.ceiling[c]
      <4>1. Len(board.floor) \in Nat BY <1>1, BoardIs
      <4>2. c \in 1 .. Len(board.floor) /\ d \in 1 .. Len(board.floor)
        BY <2>1, <4>1 DEF CornerSet
      <4>3. board.ceiling[d] <= board.ceiling[c]
        BY <1>1, <2>1, <4>2, BoardsInOrder DEF OnBoard, InOrder
      <4>4. QED BY <4>2, <4>3 DEF CornerSet
    <3>2. Round(board.ceiling[d]) <= Round(board.ceiling[c]) BY <1>2, <3>1, RoundOrder
    <3>3. QED BY <1>4, <3>1, <3>2
  <2>2. QED BY <1>1, <1>7, <2>1 DEF Rising
<1>10. FusesRise' /\ Limited' /\ Final' BY <1>1 DEF FusesRise, Limited, Final
<1>11. QED BY <1>6, <1>8, <1>9, <1>10 DEF TInv

\* A pass that leaves the floors and ceilings alone keeps what is said of them.
LEMMA LimitsStay ==
  ASSUME TInv, UNCHANGED <<board, floor, ceiling>>, stage \notin {"parse", "failed"},
         stage # "done"
  PROVE  Limits' /\ CornerSet' = CornerSet /\ FuseCorners' = FuseCorners
         /\ (CornersValid' <=> CornersValid)
<1>1. CornerSet' = CornerSet /\ FuseCorners' = FuseCorners
    /\ (CornersValid' <=> CornersValid)
      /\ board' = board /\ floor' = floor /\ ceiling' = ceiling
  BY DEF CornerSet, FuseCorners, CornersValid, Round
<1>2. \A c \in CornerSet :
        /\ floor[c] <= ceiling[c] /\ Stepped(floor[c])
        /\ stage # "done" => Stepped(ceiling[c]) /\ ceiling[c] <= Round(board.ceiling[c])
  BY DEF TInv, Limits
<1>3. QED BY <1>1, <1>2 DEF Limits, Stepped, Round

\* The voltages of the fuse corners.
LEMMA FuseVoltagesKeeps == ASSUME TInv, FuseVoltages PROVE TInv'
<1> USE DEF FuseVoltages
<1> DEFINE raw == [j \in FuseCorners |-> IF fused.off THEN board.ref[j]
                                         ELSE Converted(board.ref[j], fused.init[j])]
           p == PartType(raw[Len(board.ref)])
           adjusted == [j \in FuseCorners |->
                          raw[j] + AdjAt(OfPart(board.fuseAdj, p), j)
                            + (IF isCold THEN AdjAt(OfPart(board.cold, p), j) ELSE 0)]
<1>1. OnBoard /\ fused \in Fuses /\ Fits(board, fused) /\ isCold \in BOOLEAN
      /\ stage = "fuse" /\ stage' = "open"
      /\ board' = board /\ fused' = fused /\ isCold' = isCold
      /\ floor' = floor /\ ceiling' = ceiling /\ ol' = ol
  BY DEF TInv, Typed
<1>2. part' = p /\ fuseVolt' = RunningMax(adjusted, FuseCorners) BY DEF Ordered
<1>3. FuseCorners = 1 .. Len(board.ref) /\ Len(board.ref) \in Nat \ {0}
      /\ \A j \in FuseCorners : board.ref[j] \in Int
  BY <1>1, BoardIs DEF FuseCorners
<1>4. \A j \in FuseCorners : raw[j] \in Int
  <2>1. ASSUME NEW j \in FuseCorners PROVE raw[j] \in Int
    <3>1. Converted(board.ref[j], fused.init[j]) \in Int BY <1>1, ConvertedIs
    <3>2. QED BY <1>3, <3>1
  <2>2. QED BY <2>1
<1>5. p \in 0 .. Len(board.parts)
  <2>1. raw[Len(board.ref)] \in Int
    <3>1. Len(board.ref) \in FuseCorners BY <1>3
    <3> HIDE DEF raw
    <3>2. QED BY <1>4, <3>1
  <2> HIDE DEF raw
  <2>2. QED BY <1>1, <2>1, PartTypeIs
<1>6. \A j \in FuseCorners : adjusted[j] \in Int
  <2>1. ASSUME NEW j \in FuseCorners PROVE adjusted[j] \in Int
    <3> HIDE DEF raw, p
    <3>1. AdjAt(OfPart(board.fuseAdj, p), j) \in Int /\ AdjAt(OfPart(board.cold, p), j) \in Int
      BY <1>1, <1>5, OfPartIs
    <3>2. raw[j] \in Int BY <1>4
    <3>3. QED BY <1>1, <3>1, <3>2
  <2>2. QED BY <2>1
<1>7. /\ fuseVolt' \in [FuseCorners -> Int]
      /\ \A j \in FuseCorners : \A i \in 1 .. j : fuseVolt'[i] <= fuseVolt'[j]
  <2> HIDE DEF adjusted
  <2>1. MaxSoFar(Len(board.ref), adjusted, fuseVolt') BY <1>2, <1>3, <1>6, RunningMaxIs
  <2>2. QED BY <1>3, <2>1 DEF MaxSoFar
<1> HIDE DEF raw, p, adjusted
<1>8. Limits' /\ CornerSet' = CornerSet /\ FuseCorners' = FuseCorners
    /\ (CornersValid' <=> CornersValid)
  BY <1>1, LimitsStay
<1>9. Typed' BY <1>1, <1>2, <1>5, <1>8 DEF TInv, Typed, Fits, OnBoard
<1>10. FusesRise' BY <1>7, <1>8 DEF FusesRise
<1>11. Rising' BY <1>1, <1>8 DEF TInv, Rising
<1>12. Limited' /\ Final' BY <1>1 DEF Limited, Final
<1>13. QED BY <1>8, <1>9, <1>10, <1>11, <1>12 DEF TInv

\* The open-loop voltages of the corners.
LEMMA OpenLoopKeeps == ASSUME TInv, OpenLoop PROVE TInv'
<1>1. OnBoard /\ stage = "open" /\ stage' \in {"failed", "limit"} /\ CornersValid
      /\ {floor, ceiling, ol} \subseteq [CornerSet -> Int] /\ fuseVolt \in [FuseCorners -> Int]
      /\ \A j \in FuseCorners : \A i \in 1 .. j : fuseVolt[i] <= fuseVolt[j]
  BY DEF TInv, Typed, FusesRise, OpenLoop
<1>2. board' = board /\ fused' = fused /\ isCold' = isCold /\ part' = part
      /\ fuseVolt' = fuseVolt /\ floor' = floor /\ ceiling' = ceiling
  BY DEF OpenLoop
<1>3. FuseCorners = 1 .. Len(board.ref) /\ Len(board.ref) \in Nat \ {0}
      /\ CornerSet = 1 .. Len(board.floor) /\ Len(board.floor) \in Nat \ {0}
  BY <1>1, BoardIs DEF FuseCorners, CornerSet
<1>4. Limits' /\ CornerSet' = CornerSet /\ FuseCorners' = FuseCorners
    /\ (CornersValid' <=> CornersValid)
  BY <1>1, <1>2, LimitsStay
<1>5. CASE stage' = "failed"
  <2>1. Typed' BY <1>1, <1>2, <1>4, <1>5 DEF TInv, Typed, Fits, OnBoard
  <2>2. QED BY <1>4, <1>5, <2>1 DEF TInv, FusesRise, Rising, Limited, Final
<1>6. CASE stage' = "limit"
  <2> DEFINE volts == Open
  <2>1. ~Unmapped /\ ol' = [c \in CornerSet |-> Adjusted(volts)[c] + AdjAt(board.misc, c)]
    BY <1>6 DEF OpenLoop, Open, Lows
  <2>2. volts \in [CornerSet -> Int] /\ \A c \in CornerSet : \A d \in 1 .. c : volts[d] <= volts[c]
    BY <1>1, <2>1, OpenIs
  <2> HIDE DEF volts
  <2>3. (\A c \in CornerSet : Adjusted(volts)[c] \in Int)
        /\ \A c \in CornerSet : \A d \in 1 .. c : Adjusted(volts)[d] <= Adjusted(volts)[c]
    BY <1>1, <2>2, AdjustedIs
  <2>4. \A c \in CornerSet : AdjAt(board.misc, c) \in Int BY <1>1, BoardIs
  <2>5. ol' \in [CornerSet -> Int] BY <2>1, <2>3, <2>4
  <2>6. Typed' BY <1>1, <1>2, <1>4, <1>6, <2>5 DEF TInv, Typed, Fits, OnBoard
  <2>7. Rising'
    <3>1. ASSUME board.misc = <<>>, NEW c \in CornerSet, NEW d \in 1 .. c
          PROVE ceiling[d] <= ceiling[c] /\ ol'[d] <= ol'[c]
      <4>1. ceiling[d] <= ceiling[c] BY <1>1, <3>1 DEF TInv, Rising
      <4>2. d \in CornerSet BY <1>3
      <4>3. ol'[c] = Adjusted(volts)[c] /\ ol'[d] = Adjusted(volts)[d]
        BY <2>1, <2>3, <3>1, <4>2 DEF AdjAt
      <4>4. QED BY <2>3, <4>1, <4>3
    <3>2. QED BY <1>2, <1>4, <3>1 DEF Rising
  <2>8. FusesRise' BY <1>1, <1>2, <1>4 DEF FusesRise
  <2>9. Limited' /\ Final' BY <1>6 DEF Limited, Final
  <2>10. QED BY <1>4, <2>6, <2>7, <2>8, <2>9 DEF TInv
<1>7. QED BY <1>1, <1>5, <1>6

\* Two corners' open-loop voltages put between their floors and ceilings: in order, but for
\* the lower one's floor.
LEMMA Clamped ==
  ASSUME NEW r \in Int, NEW f \in Int, NEW t \in Int, f <= t
  PROVE  LET v == MinI(MaxI(r, f), t)
         IN  /\ v \in {r, f, t} /\ f <= v /\ v <= t
             /\ \A r2, f2, t2 \in Int :
                  f2 <= t2 /\ r2 <= r /\ t2 <= t => MinI(MaxI(r2, f2), t2) <= MaxI(v, f2)
BY DEF MinI, MaxI

\* The open-loop voltages put between floors and ceilings.
LEMMA LimitKeeps == ASSUME TInv, Limit PROVE TInv'
<1> USE DEF Limit
<1>1. OnBoard /\ stage = "limit" /\ stage' = "floor" /\ CornersValid
      /\ {floor, ceiling, ol} \subseteq [CornerSet -> Int]
      /\ board' = board /\ fused' = fused /\ isCold' = isCold /\ part' = part
      /\ fuseVolt' = fuseVolt /\ floor' = floor
  BY DEF TInv, Typed
<1>2. /\ ol' = [c \in CornerSet |-> MinI(MaxI(Round(ol[c]), floor[c]), ceiling[c])]
      /\ ceiling' = (IF Has("ol-as-ceiling") THEN ol' ELSE ceiling)
  OBVIOUS
<1>3. \A c \in CornerSet : /\ floor[c] <= ceiling[c] /\ Stepped(floor[c])
                             /\ Stepped(ceiling[c]) /\ ceiling[c] <= Round(board.ceiling[c])
  BY <1>1 DEF TInv, Limits
<1>4. board.step \in Nat \ {0} /\ CornerSet = 1 .. Len(board.floor) /\ Len(board.floor) \in Nat
      /\ \A c \in CornerSet : Round(ol[c]) \in Int /\ Stepped(Round(ol[c])) /\ Round(board.ceiling[c]) \in Int
  <2>1. board.step \in Nat \ {0} /\ Len(board.floor) \in Nat BY <1>1, BoardIs
  <2>2. ASSUME NEW c \in CornerSet
        PROVE Round(ol[c]) \in Int /\ Stepped(Round(ol[c])) /\ Round(board.ceiling[c]) \in Int
    <3>1. ol[c] \in Int BY <1>1
    <3>2. board.ceiling[c] \in Int BY <1>1, BoardIs
    <3>3. QED BY <2>1, <3>1, <3>2, Rounded
  <2>3. QED BY <2>1, <2>2 DEF CornerSet
<1>5. ASSUME NEW c \in CornerSet
      PROVE  /\ ol'[c] \in {Round(ol[c]), floor[c], ceiling[c]}
             /\ floor[c] <= ol'[c] /\ ol'[c] <= ceiling[c]
             /\ board.misc = <<>> =>
                  \A d \in 1 .. c : ol'[d] <= MaxI(ol'[c], floor[d]) /\ ceiling[d] <= ceiling[c]
  <2>1. Round(ol[c]) \in Int /\ floor[c] \in Int /\ ceiling[c] \in Int /\ floor[c] <= ceiling[c]
    BY <1>1, <1>3, <1>4
  <2>2. ol'[c] = MinI(MaxI(Round(ol[c]), floor[c]), ceiling[c]) BY <1>2
  <2>3. ol'[c] \in {Round(ol[c]), floor[c], ceiling[c]} /\ floor[c] <= ol'[c] /\ ol'[c] <= ceiling[c]
    BY <2>1, <2>2, Clamped
  <2>4. ASSUME board.misc = <<>>, NEW d \in 1 .. c
        PROVE  ol'[d] <= MaxI(ol'[c], floor[d]) /\ ceiling[d] <= ceiling[c]
    <3>1. d \in CornerSet /\ ceiling[d] <= ceiling[c] /\ ol[d] <= ol[c]
      BY <1>1, <1>4, <2>4 DEF TInv, Rising
    <3>2. ol[d] \in Int /\ ol[c] \in Int BY <1>1, <3>1
    <3>3. Round(ol[d]) <= Round(ol[c]) BY <1>4, <3>1, <3>2, RoundOrder
    <3>4. Round(ol[d]) \in Int /\ floor[d] \in Int /\ ceiling[d] \in Int /\ floor[d] <= ceiling[d]
      BY <1>1, <1>3, <1>4, <3>1
    <3>5. ol'[d] = MinI(MaxI(Round(ol[d]), floor[d]), ceiling[d]) BY <1>2, <3>1
    <3>6. QED BY <2>1, <2>2, <3>1, <3>3, <3>4, <3>5, Clamped
  <2>5. QED BY <2>3, <2>4
<1>6. CornerSet' = CornerSet /\ FuseCorners' = FuseCorners
    /\ (CornersValid' <=> CornersValid)
      /\ (\A v : Round(v)' = Round(v) /\ (Stepped(v)' <=> Stepped(v)))
  BY <1>1 DEF CornerSet, FuseCorners, CornersValid, Round, Stepped
<1>7. ol' \in [CornerSet -> Int] /\ ceiling' \in [CornerSet -> Int]
  <2>1. \A c \in CornerSet : ol'[c] \in Int BY <1>1, <1>4, <1>5
  <2>2. ol' = [c \in CornerSet |-> ol'[c]] BY <1>2
  <2>3. QED BY <1>1, <1>2, <2>1, <2>2
<1>8. ASSUME NEW c \in CornerSet
      PROVE  /\ Stepped(ol'[c]) /\ Stepped(ceiling'[c])
             /\ floor[c] <= ceiling'[c] /\ ol'[c] <= ceiling'[c]
             /\ ceiling'[c] <= Round(board.ceiling[c])
             /\ board.misc = <<>> => \A d \in 1 .. c : ceiling'[d] <= MaxI(ceiling'[c], floor[d])
  <2>1. ol'[c] \in Int /\ ceiling[c] \in Int /\ Round(board.ceiling[c]) \in Int
    BY <1>1, <1>4, <1>7
  <2>2. Stepped(ol'[c]) BY <1>3, <1>4, <1>5
  <2>3. CASE Has("ol-as-ceiling")
    <3>1. ceiling' = ol' BY <1>2, <2>3
    <3>2. ol'[c] <= Round(board.ceiling[c]) BY <1>3, <1>5, <2>1
    <3>3. ASSUME board.misc = <<>>, NEW d \in 1 .. c
          PROVE  ol'[d] <= MaxI(ol'[c], floor[d])
      BY <1>5, <3>3
    <3>4. floor[c] <= ol'[c] /\ ol'[c] <= ol'[c] BY <1>5, <2>1
    <3>5. QED BY <2>2, <3>1, <3>2, <3>3, <3>4
  <2>4. CASE ~Has("ol-as-ceiling")
    <3>1. ceiling' = ceiling BY <1>2, <2>4
    <3>2. ASSUME board.misc = <<>>, NEW d \in 1 .. c
          PROVE ceiling[d] <= MaxI(ceiling[c], floor[d])
      <4>1. d \in CornerSet BY <1>4
      <4>2. ceiling[d] \in Int /\ floor[d] \in Int /\ ceiling[d] <= ceiling[c]
        BY <1>1, <1>5, <3>2, <4>1
      <4>3. QED BY <2>1, <4>2 DEF MaxI
    <3>3. QED BY <1>3, <1>5, <2>2, <3>1, <3>2
  <2>5. QED BY <2>3, <2>4
<1>9. Typed' BY <1>1, <1>6, <1>7 DEF TInv, Typed, Fits, OnBoard
<1>10. Limits' BY <1>1, <1>3, <1>6, <1>8 DEF Limits, Stepped, Round
<1>11. Limited'
  <2>1. ASSUME NEW c \in CornerSet
        PROVE  /\ Between(c)'
               /\ (board.misc = <<>>)' =>
                    \A d \in 1 .. c : /\ ol'[d] <= MaxI(ol'[c], floor'[d])
                                     /\ ceiling'[d] <= MaxI(ceiling'[c], floor'[d])
    BY <1>1, <1>5, <1>8 DEF Between, Stepped
  <2>2. QED BY <1>6, <2>1 DEF Limited, Between, Stepped
<1>12. FusesRise' BY <1>1, <1>6 DEF TInv, FusesRise
<1>13. Rising' /\ Final' BY <1>1 DEF Rising, Final
<1>14. QED BY <1>9, <1>10, <1>11, <1>12, <1>13 DEF TInv

\* The floors within their range of the ceilings, and then in order.
LEMMA LimitFloorKeeps == ASSUME TInv, LimitFloor PROVE TInv'
<1> USE DEF LimitFloor
<1> DEFINE inRange == [c \in CornerSet |->
                         IF AdjAt(board.range, c) < 0 \/ board.range = <<>> THEN floor[c]
                         ELSE MaxI(Round(ceiling[c] - board.range[c]), floor[c])]
<1>1. OnBoard /\ stage = "floor" /\ stage' \in {"fuse", "done", "quot"} /\ CornersValid
      /\ {floor, ceiling, ol} \subseteq [CornerSet -> Int] /\ isCold' = FALSE
      /\ board' = board /\ fused' = fused /\ part' = part /\ fuseVolt' = fuseVolt
  <2>1. stage = "floor" /\ isCold \in BOOLEAN /\ OnBoard BY DEF TInv, Typed
  <2>2. board.npu \in BOOLEAN BY <2>1, BoardIs
  <2>3. QED BY <2>1, <2>2 DEF TInv, Typed
<1>2. /\ floor' = RunningMax(inRange, CornerSet)
      /\ ol' = [c \in CornerSet |-> IF floor'[c] # floor[c] THEN MaxI(ol[c], floor'[c]) ELSE ol[c]]
      /\ ceiling' = [c \in CornerSet |-> IF floor'[c] # inRange[c] THEN MaxI(ceiling[c], floor'[c])
                                       ELSE ceiling[c]]
  OBVIOUS
<1>3. \A c \in CornerSet : /\ floor[c] <= ceiling[c] /\ Stepped(floor[c]) /\ Between(c)
                             /\ Stepped(ceiling[c]) /\ ceiling[c] <= Round(board.ceiling[c])
  BY <1>1 DEF TInv, Limits, Limited
<1>4. board.step \in Nat \ {0} /\ CornerSet = 1 .. Len(board.floor) /\ Len(board.floor) \in Nat
      /\ \A c \in CornerSet : AdjAt(board.range, c) \in Int
  BY <1>1, BoardIs DEF CornerSet
<1>5. ASSUME NEW c \in CornerSet
      PROVE  /\ inRange[c] \in Int /\ Stepped(inRange[c])
             /\ floor[c] <= inRange[c] /\ inRange[c] <= ceiling[c]
  <2>1. floor[c] \in Int /\ ceiling[c] \in Int /\ AdjAt(board.range, c) \in Int BY <1>1, <1>4
  <2>2. CASE AdjAt(board.range, c) < 0 \/ board.range = <<>> BY <1>3, <2>1, <2>2
  <2>3. CASE ~(AdjAt(board.range, c) < 0 \/ board.range = <<>>)
    <3> DEFINE v == ceiling[c] - board.range[c]
    <3>1. board.range[c] \in Nat BY <2>1, <2>3 DEF AdjAt
    <3>2. v \in Int /\ v <= ceiling[c] BY <2>1, <3>1
    <3>3. inRange[c] = MaxI(Round(v), floor[c]) BY <2>3
    <3> HIDE DEF v, inRange
    <3>4. Round(v) \in Int /\ Stepped(Round(v)) /\ Round(v) <= ceiling[c]
      BY <1>3, <1>4, <2>1, <3>2, Rounded
    <3>5. QED BY <1>3, <2>1, <3>3, <3>4 DEF MaxI
  <2>4. QED BY <2>2, <2>3
<1>6. MaxSoFar(Len(board.floor), inRange, floor')
  <2> HIDE DEF inRange
  <2>1. QED BY <1>2, <1>4, <1>5, RunningMaxIs
<1> HIDE DEF inRange
<1>7. /\ floor' \in [CornerSet -> Int]
      /\ \A c \in CornerSet : \A d \in 1 .. c : floor'[d] <= floor'[c]
  BY <1>4, <1>6 DEF MaxSoFar
<1>8. ASSUME NEW c \in CornerSet
      PROVE  /\ Stepped(floor'[c]) /\ inRange[c] <= floor'[c] /\ floor[c] <= floor'[c]
             /\ floor'[c] <= Round(board.ceiling[c])
  <2>1. floor'[c] \in Int /\ floor[c] \in Int /\ inRange[c] \in Int BY <1>1, <1>5, <1>7
  <2>2. inRange[c] <= floor'[c]
    <3>1. c \in 1 .. c BY <1>4
    <3>2. QED BY <1>4, <1>6, <3>1 DEF MaxSoFar
  <2>3. PICK k \in 1 .. c : floor'[c] = inRange[k] BY <1>4, <1>6 DEF MaxSoFar
  <2>4. k \in CornerSet BY <1>4
  <2>5. ceiling[k] \in Int /\ inRange[k] \in Int /\ inRange[k] <= ceiling[k] /\ Stepped(inRange[k])
        /\ ceiling[k] <= Round(board.ceiling[k])
    BY <1>1, <1>3, <1>5, <2>4
  <2>6. Round(board.ceiling[k]) <= Round(board.ceiling[c]) /\ Round(board.ceiling[k]) \in Int
        /\ Round(board.ceiling[c]) \in Int
    BY <1>1, <2>4, CeilingsRise
  <2>7. floor[c] <= floor'[c] BY <1>5, <2>1, <2>2
  <2>8. QED BY <2>2, <2>3, <2>5, <2>6, <2>7
<1>9. ASSUME NEW c \in CornerSet
      PROVE  /\ ol'[c] = MaxI(ol[c], floor'[c]) /\ ceiling'[c] = MaxI(ceiling[c], floor'[c])
             /\ ol[c] \in Int /\ ceiling[c] \in Int /\ floor'[c] \in Int /\ floor[c] \in Int
  <2>1. ol[c] \in Int /\ ceiling[c] \in Int /\ floor'[c] \in Int /\ floor[c] \in Int BY <1>1, <1>7
  <2>2. ol'[c] = MaxI(ol[c], floor'[c])
    <3>1. floor[c] <= ol[c] BY <1>3 DEF Between
    <3>2. QED BY <1>2, <2>1, <3>1 DEF MaxI
  <2>3. ceiling'[c] = MaxI(ceiling[c], floor'[c])
    <3>1. inRange[c] <= ceiling[c] BY <1>5
    <3>2. QED BY <1>2, <2>1, <3>1 DEF MaxI
  <2>4. QED BY <2>1, <2>2, <2>3
<1>10. ol' \in [CornerSet -> Int] /\ ceiling' \in [CornerSet -> Int]
  <2>1. \A c \in CornerSet : ol'[c] \in Int /\ ceiling'[c] \in Int BY <1>9 DEF MaxI
  <2>2. ol' = [c \in CornerSet |-> ol'[c]] /\ ceiling' = [c \in CornerSet |-> ceiling'[c]]
    BY <1>2
  <2>3. QED BY <2>1, <2>2
<1>11. CornerSet' = CornerSet /\ FuseCorners' = FuseCorners
    /\ (CornersValid' <=> CornersValid)
       /\ (\A v : Round(v)' = Round(v) /\ (Stepped(v)' <=> Stepped(v)))
  BY <1>1 DEF CornerSet, FuseCorners, CornersValid, Round, Stepped
<1>12. ASSUME NEW c \in CornerSet
       PROVE  /\ floor'[c] <= ol'[c] /\ ol'[c] <= ceiling'[c]
              /\ Stepped(ol'[c]) /\ Stepped(ceiling'[c])
              /\ ceiling'[c] <= Round(board.ceiling[c])
  <2>1. ol[c] <= ceiling[c] /\ Stepped(ol[c]) /\ Stepped(ceiling[c])
        /\ ceiling[c] <= Round(board.ceiling[c])
    BY <1>3 DEF Between
  <2>2. Stepped(floor'[c]) /\ floor'[c] <= Round(board.ceiling[c]) BY <1>8
  <2>3. QED BY <1>9, <2>1, <2>2 DEF MaxI
<1>13. ASSUME NEW c \in CornerSet, board.misc = <<>>, NEW d \in 1 .. c
       PROVE  ol'[d] <= ol'[c] /\ ceiling'[d] <= ceiling'[c]
  <2>1. d \in CornerSet BY <1>4
  <2>2. floor'[d] <= floor'[c] BY <1>7
  <2>3. floor[d] <= floor'[d] BY <1>8, <2>1
  <2>4. ol[d] <= MaxI(ol[c], floor[d]) /\ ceiling[d] <= MaxI(ceiling[c], floor[d])
    BY <1>1, <1>13 DEF TInv, Limited
  <2>5. ol'[c] = MaxI(ol[c], floor'[c]) /\ ceiling'[c] = MaxI(ceiling[c], floor'[c])
        /\ ol[c] \in Int /\ ceiling[c] \in Int /\ floor'[c] \in Int /\ floor[c] \in Int
    BY <1>9
  <2>6. ol'[d] = MaxI(ol[d], floor'[d]) /\ ceiling'[d] = MaxI(ceiling[d], floor'[d])
        /\ ol[d] \in Int /\ ceiling[d] \in Int /\ floor'[d] \in Int /\ floor[d] \in Int
    BY <1>9, <2>1
  <2>7. QED BY ONLY <2>2, <2>3, <2>4, <2>5, <2>6 DEF MaxI
<1>14. Typed' BY <1>1, <1>7, <1>10, <1>11 DEF TInv, Typed, Fits, OnBoard
<1>15. Limits'
  <2>1. ASSUME NEW c \in CornerSet
        PROVE  /\ floor'[c] <= ceiling'[c] /\ Stepped(floor'[c]) /\ Stepped(ceiling'[c])
               /\ ceiling'[c] <= Round(board.ceiling[c])
    <3>1. floor'[c] \in Int /\ ol'[c] \in Int /\ ceiling'[c] \in Int BY <1>7, <1>10
    <3>2. QED BY <1>8, <1>12, <3>1
  <2>2. QED BY <1>1, <1>11, <2>1 DEF Limits, Stepped, Round
<1>16. FusesRise' BY <1>1, <1>11 DEF TInv, FusesRise
<1>17. Rising' BY <1>1, <1>11, <1>13 DEF Rising
<1>18. Final'
  <2>1. ASSUME NEW c \in CornerSet
        PROVE  /\ Between(c)' /\ ceiling'[c] <= Round(board.ceiling[c])'
               /\ \A d \in 1 .. c : floor'[d] <= floor'[c] /\ ((board.misc = <<>>)' => ol'[d] <= ol'[c])
    BY <1>1, <1>7, <1>12, <1>13 DEF Between, Stepped, Round
  <2>2. QED BY <1>11, <2>1 DEF Final
<1>19. Limited' BY <1>1 DEF Limited
<1>20. QED BY <1>14, <1>15, <1>16, <1>17, <1>18, <1>19 DEF TInv

\* The quotients leave the voltages alone.
LEMMA QuotientsKeeps == ASSUME TInv, Quotients PROVE TInv'
<1>1. stage = "quot" /\ stage' \in {"boost", "failed"}
      /\ UNCHANGED <<board, fused, isCold, part, fuseVolt, floor, ceiling, ol>>
  BY DEF Quotients
<1>2. Limits' /\ CornerSet' = CornerSet /\ FuseCorners' = FuseCorners
    /\ (CornersValid' <=> CornersValid)
  BY <1>1, LimitsStay
<1>3. Typed' BY <1>1, <1>2 DEF TInv, Typed, Fits, OnBoard
<1>4. FusesRise' BY <1>1, <1>2 DEF TInv, FusesRise
<1>5. Rising' /\ Limited' BY <1>1 DEF Rising, Limited
<1>6. Final' BY <1>1, <1>2 DEF TInv, Final, Between, Stepped, Round, Has
<1>7. QED BY <1>2, <1>3, <1>4, <1>5, <1>6 DEF TInv

\* Boost raises the ceiling of the highest corner only.
LEMMA BoostKeeps == ASSUME TInv, Boost PROVE TInv'
<1>1. OnBoard /\ stage = "boost" /\ stage' = "done"
      /\ UNCHANGED <<board, fused, isCold, part, fuseVolt, floor, ol>>
      /\ {floor, ceiling, ol} \subseteq [CornerSet -> Int] /\ CornersValid
  BY DEF Boost, TInv, Typed
<1>2. CornerSet' = CornerSet /\ FuseCorners' = FuseCorners
    /\ (CornersValid' <=> CornersValid)
  BY <1>1 DEF CornerSet, FuseCorners, CornersValid, Round
<1>3. board.boostCeiling \in Int BY <1>1, BoardIs
<1>4. ASSUME NEW c \in CornerSet
      PROVE  /\ ceiling[c] <= Round(board.ceiling[c]) /\ Round(board.ceiling[c]) \in Int
             /\ Round(board.ceiling[c]) <= board.boostCeiling
             /\ \/ ceiling'[c] = ceiling[c]
                \/ Has("boost") /\ c = Len(board.floor) /\ ceiling'[c] = board.boostCeiling
  <2>1. ceiling[c] <= Round(board.ceiling[c]) BY <1>1 DEF TInv, Limits
  <2>2. QED BY <1>1, <2>1, CeilingsRise DEF Boost
<1>5. ceiling' \in [CornerSet -> Int] BY <1>1, <1>3 DEF Boost
<1>6. Typed' BY <1>1, <1>2, <1>5 DEF TInv, Typed, Fits, OnBoard
<1>7. ASSUME NEW c \in CornerSet
      PROVE  /\ Between(c) /\ floor[c] <= ceiling'[c] /\ ol[c] <= ceiling'[c] /\ Stepped(floor[c])
             /\ \A d \in 1 .. c : floor[d] <= floor[c] /\ (board.misc = <<>> => ol[d] <= ol[c])
  <2>1. Between(c) /\ Stepped(floor[c])
        /\ \A d \in 1 .. c : floor[d] <= floor[c] /\ (board.misc = <<>> => ol[d] <= ol[c])
    BY <1>1 DEF TInv, Final, Limits
  <2>2. floor[c] \in Int /\ ol[c] \in Int /\ ceiling[c] \in Int /\ ceiling'[c] \in Int
    BY <1>1, <1>5
  <2>3. floor[c] <= ol[c] /\ ol[c] <= ceiling[c] BY <2>1 DEF Between
  <2>4. ceiling[c] <= ceiling'[c] BY <1>3, <1>4, <2>2
  <2>5. QED BY <2>1, <2>2, <2>3, <2>4
<1>8. Limits' BY <1>1, <1>2, <1>7 DEF Limits, Stepped
<1>9. FusesRise' BY <1>1, <1>2 DEF TInv, FusesRise
<1>10. Rising' /\ Limited' BY <1>1 DEF Rising, Limited
<1>11. Final'
  <2>1. ASSUME NEW c \in CornerSet
        PROVE  /\ Between(c)'
               /\ \A d \in 1 .. c : floor'[d] <= floor'[c] /\ ((board.misc = <<>>)' => ol'[d] <= ol'[c])
               /\ \/ ceiling'[c] <= Round(board.ceiling[c])'
                  \/ Has("boost")' /\ c = Len(board.floor)' /\ ceiling'[c] = board'.boostCeiling
    BY <1>1, <1>4, <1>7 DEF Between, Stepped, Round, Has
  <2>2. QED BY <1>2, <2>1 DEF Final
<1>12. QED BY <1>6, <1>8, <1>9, <1>10, <1>11 DEF TInv

-----------------------------------------------------------------------------
(* It always holds.                                                        *)

LEMMA TInvHolds ==
  TableSpec => []TInv
<1>1. TableInit => TInv
  <2> SUFFICES ASSUME TableInit PROVE TInv OBVIOUS
  <2>1. OnBoard /\ fused \in Fuses /\ Fits(board, fused) /\ stage = "parse"
        /\ isCold = FALSE /\ part = 0
    BY DEF TableInit, OnBoard
  <2>2. Len(board.parts) \in Nat BY <2>1, BoardsOK DEF OnBoard, WellFormed
  <2>3. Typed
    <3>1. part \in 0 .. Len(board.parts) BY <2>1, <2>2
    <3>2. QED BY <2>1, <3>1 DEF Typed
  <2>4. Limits BY <2>1 DEF Limits
  <2>5. FusesRise BY <2>1 DEF FusesRise
  <2>6. Rising BY <2>1 DEF Rising
  <2>7. Limited BY <2>1 DEF Limited
  <2>8. Final BY <2>1 DEF Final
  <2>9. QED BY <2>3, <2>4, <2>5, <2>6, <2>7, <2>8 DEF TInv
<1>2. TInv /\ [TableNext]_tableVars => TInv'
  <2> SUFFICES ASSUME TInv, [TableNext]_tableVars PROVE TInv' OBVIOUS
  <2>1. CASE TableNext
    BY <2>1, ParseKeeps, FuseVoltagesKeeps, OpenLoopKeeps, LimitKeeps, LimitFloorKeeps,
       QuotientsKeeps, BoostKeeps DEF TableNext
  <2>2. CASE UNCHANGED tableVars
    <3>1. board' = board /\ fused' = fused /\ stage' = stage /\ isCold' = isCold /\ part' = part
          /\ fuseVolt' = fuseVolt /\ floor' = floor /\ ceiling' = ceiling /\ ol' = ol
      BY <2>2 DEF tableVars
    <3>2. CornerSet' = CornerSet /\ FuseCorners' = FuseCorners
        /\ (CornersValid' <=> CornersValid)
      BY <3>1 DEF CornerSet, FuseCorners, CornersValid, Round
    <3>3. Typed' BY <3>1, <3>2 DEF TInv, Typed, Fits, OnBoard
    <3>4. Limits' BY <3>1, <3>2 DEF TInv, Limits, Stepped, Round
    <3>5. FusesRise' BY <3>1, <3>2 DEF TInv, FusesRise
    <3>6. Rising' BY <3>1, <3>2 DEF TInv, Rising
    <3>7. Limited' BY <3>1, <3>2 DEF TInv, Limited, Between, Stepped
    <3>8. Final' BY <3>1, <3>2 DEF TInv, Final, Between, Stepped, Round, Has
    <3>9. QED BY <3>3, <3>4, <3>5, <3>6, <3>7, <3>8 DEF TInv
  <2>3. QED BY <2>1, <2>2
<1>3. QED BY <1>1, <1>2, PTL DEF TableSpec

-----------------------------------------------------------------------------
(* The voltages are what the fuses ask for.                                *)

\* From the second pass on the fuse corners have what the fuses ask for, and with the cold
\* no less.
FusesAsked ==
  stage \in {"open", "limit", "floor", "quot", "boost", "done"} =>
    /\ \A j \in FuseCorners : Asked[j] <= fuseVolt[j]
    /\ ~isCold => fuseVolt = Asked

\* What the voltages are spread over is there, and the cold round is over before the
\* quotients.
Mapped ==
  /\ stage \in {"limit", "floor"} => ~Unmapped
  /\ stage \in {"quot", "boost", "done"} => ~isCold

\* Before the open-loop voltages are limited the ceilings suffice, then they do themselves.
Honoured ==
  board.adj = <<>> /\ board.misc = <<>> =>
    \A c \in CornerSet :
      /\ stage \in {"fuse", "open", "limit"} => Suffices(c, ceiling[c])
      /\ stage = "limit" => Above(c, ol[c], Asked)
      /\ stage \in {"floor", "quot", "boost", "done"} => Suffices(c, ol[c])

HInv == FusesAsked /\ Mapped /\ Honoured

\* None of this changes while the board and the fuses stay.
LEMMA Static ==
  ASSUME board' = board, fused' = fused
  PROVE  /\ CornerSet' = CornerSet /\ FuseCorners' = FuseCorners /\ (Interpolated' <=> Interpolated)
         /\ (Unmapped' <=> Unmapped) /\ Asked' = Asked
         /\ \A v : Round(v)' = Round(v)
         /\ (\A c : FuseOf(c)' = FuseOf(c)) /\ (\A j : Fmax(j)' = Fmax(j))
         /\ \A c, v, F : Above(c, v, F)' <=> Above(c, v, F)
<1>1. CornerSet' = CornerSet /\ FuseCorners' = FuseCorners /\ (\A f : Has(f)' <=> Has(f))
      /\ \A v : Round(v)' = Round(v)
  BY DEF CornerSet, FuseCorners, Has, Round
<1>2. \A c : FuseOf(c)' = FuseOf(c)
  <2>1. ASSUME NEW c PROVE FuseOf(c)' = FuseOf(c)
    <3> DEFINE above == {j \in FuseCorners : c <= board.fmax[j]}
               top == Len(board.ref)
    <3>1. above' = above /\ top' = top BY <1>1
    <3>2. FuseOf(c) = IF above = {} THEN top ELSE CHOOSE j \in above : \A k \in above : j <= k
      BY DEF FuseOf
    <3>3. FuseOf(c)' = IF above' = {} THEN top'
                       ELSE CHOOSE j \in above' : \A k \in above' : j <= k
      BY DEF FuseOf
    <3> HIDE DEF above, top
    <3>4. QED BY <3>1, <3>2, <3>3
  <2>2. QED BY <2>1
<1>3. \A j : CornersOf(j)' = CornersOf(j) BY <1>1, <1>2, Zenon DEF CornersOf
<1>4. \A j : Fmax(j)' = Fmax(j) BY <1>3, Zenon DEF Fmax
<1>5. (Interpolated' <=> Interpolated) /\ (Unmapped' <=> Unmapped)
  BY <1>1, <1>3 DEF Interpolated, Unmapped, Has
<1>6. \A j : Raw(j)' = Raw(j) BY DEF Raw, Converted
<1>7. \A t : PartType(t)' = PartType(t) BY Zenon DEF PartType
<1>8. Plain' = Plain BY <1>1, <1>6, <1>7, Zenon DEF Plain, OfPart, AdjAt
<1>9. Asked' = Asked BY <1>1, <1>8 DEF Asked
<1>10. \A c, v, F : Above(c, v, F)' <=> Above(c, v, F)
  BY <1>2, <1>4, <1>5 DEF Above
<1>11. QED BY <1>1, <1>2, <1>4, <1>5, <1>9, <1>10

\* What is left to show of the next state when the board and the fuses stay.
SufficesNext(S, C, O) ==
  board.adj = <<>> /\ board.misc = <<>> =>
    \A c \in CornerSet :
      /\ S \in {"fuse", "open", "limit"} => Suffices(c, C[c])
      /\ S = "limit" => Above(c, O[c], Asked)
      /\ S \in {"floor", "quot", "boost", "done"} => Suffices(c, O[c])
LEMMA HonouredNext ==
  ASSUME board' = board, fused' = fused, SufficesNext(stage', ceiling', ol')
  PROVE  Honoured'
<1>1. CornerSet' = CornerSet /\ Asked' = Asked /\ (\A v : Round(v)' = Round(v))
      /\ \A c, v, F : Above(c, v, F)' <=> Above(c, v, F)
  BY Static
<1>2. \A c, v : Suffices(c, v)' <=> Suffices(c, v) BY <1>1 DEF Suffices
<1>3. QED BY <1>1, <1>2 DEF SufficesNext, Honoured

\* The parsed ceilings are those of the device tree.
LEMMA ParseHonours == ASSUME TInv, Parse PROVE HInv'
<1>1. OnBoard /\ board' = board /\ fused' = fused /\ stage' \in {"fuse", "failed"}
      /\ ceiling' = [c \in CornerSet |-> Round(board.ceiling[c])]
  BY DEF TInv, Typed, Parse
<1>2. \A c \in CornerSet : Round(board.ceiling[c]) \in Int BY <1>1, CeilingsRise
<1>3. SufficesNext(stage', ceiling', ol') BY <1>1, <1>2 DEF SufficesNext, Suffices
<1>4. Honoured' BY <1>1, <1>3, HonouredNext
<1>5. FusesAsked' /\ Mapped' BY <1>1 DEF FusesAsked, Mapped
<1>6. QED BY <1>4, <1>5 DEF HInv

\* The open-loop voltages lie on or above the line.
LEMMA OpenLoopHonours == ASSUME TInv, HInv, OpenLoop PROVE HInv'
<1>1. OnBoard /\ fused \in Fuses /\ Fits(board, fused) /\ stage = "open"
      /\ stage' \in {"failed", "limit"} /\ CornersValid /\ fuseVolt \in [FuseCorners -> Int]
      /\ \A j \in FuseCorners : \A i \in 1 .. j : fuseVolt[i] <= fuseVolt[j]
  BY DEF TInv, Typed, FusesRise, OpenLoop
<1>2. board' = board /\ fused' = fused /\ isCold' = isCold /\ fuseVolt' = fuseVolt
      /\ ceiling' = ceiling
  BY DEF OpenLoop
<1>3. FuseCorners' = FuseCorners /\ Asked' = Asked /\ (Unmapped' <=> Unmapped)
  BY <1>2, Static
<1>4. CASE stage' = "failed"
  <2>1. SufficesNext(stage', ceiling', ol') BY <1>4 DEF SufficesNext
  <2>2. Honoured' BY <1>2, <2>1, HonouredNext
  <2>3. QED BY <1>4, <2>2 DEF HInv, FusesAsked, Mapped
<1>5. CASE stage' = "limit"
  <2>1. ~Unmapped /\ ol' = [c \in CornerSet |-> Adjusted(Open)[c] + AdjAt(board.misc, c)]
    BY <1>5 DEF OpenLoop, Open, Lows
  <2>2. Open \in [CornerSet -> Int] /\ \A c \in CornerSet : Above(c, Open[c], fuseVolt)
    BY <1>1, <2>1, OpenIs
  <2>3. \A j \in FuseCorners : Asked[j] <= fuseVolt[j] BY <1>1 DEF HInv, FusesAsked
  <2>4. Asked \in [FuseCorners -> Int] BY <1>1, AskedIs
  <2>5. ASSUME board.adj = <<>>, board.misc = <<>>, NEW c \in CornerSet
        PROVE  Above(c, ol'[c], Asked)
    <3>1. ol'[c] = Open[c] /\ Open[c] \in Int BY <2>1, <2>2, <2>5 DEF Adjusted, AdjAt
    <3>2. Above(c, Open[c], Asked) BY <1>1, <2>1, <2>2, <2>3, <2>4, <3>1, AboveGrows
    <3>3. QED BY <3>1, <3>2
  <2>6. SufficesNext(stage', ceiling', ol')
    <3>1. ASSUME board.adj = <<>>, board.misc = <<>>, NEW c \in CornerSet
          PROVE Suffices(c, ceiling[c])
      BY <1>1, <3>1 DEF HInv, Honoured
    <3>2. QED BY <1>2, <1>5, <2>5, <3>1 DEF SufficesNext
  <2>7. Honoured' BY <1>2, <2>6, HonouredNext
  <2>8. FusesAsked' BY <1>1, <1>2, <1>3 DEF HInv, FusesAsked
  <2>9. Mapped' BY <1>3, <1>5, <2>1 DEF Mapped
  <2>10. QED BY <2>7, <2>8, <2>9 DEF HInv
<1>6. QED BY <1>1, <1>4, <1>5

\* The fuse corners get the voltage the fuses ask for, and more while the cold counts.
LEMMA FuseVoltagesHonours == ASSUME TInv, HInv, FuseVoltages PROVE HInv'
<1> USE DEF FuseVoltages
<1> DEFINE raw == [j \in FuseCorners |-> IF fused.off THEN board.ref[j]
                                         ELSE Converted(board.ref[j], fused.init[j])]
           p == PartType(raw[Len(board.ref)])
           adjusted == [j \in FuseCorners |->
                          raw[j] + AdjAt(OfPart(board.fuseAdj, p), j)
                            + (IF isCold THEN AdjAt(OfPart(board.cold, p), j) ELSE 0)]
<1>1. OnBoard /\ fused \in Fuses /\ Fits(board, fused) /\ isCold \in BOOLEAN
      /\ stage = "fuse" /\ stage' = "open"
      /\ board' = board /\ fused' = fused /\ isCold' = isCold
      /\ ceiling' = ceiling /\ ol' = ol
  BY DEF TInv, Typed
<1>2. fuseVolt' = RunningMax(adjusted, FuseCorners) BY DEF Ordered
<1>3. FuseCorners = 1 .. Len(board.ref) /\ Len(board.ref) \in Nat \ {0}
  BY <1>1, BoardIs DEF FuseCorners
<1>4. \A j \in FuseCorners : raw[j] = Raw(j) BY DEF Raw
<1> HIDE DEF raw
<1>5. p = PartType(Raw(Len(board.ref))) BY <1>3, <1>4
<1>6. p \in 0 .. Len(board.parts) /\ \A j \in FuseCorners : Raw(j) \in Int /\ Plain[j] \in Int
  <2> HIDE DEF p
  <2>1. QED BY <1>1, <1>5, AskedIs
<1>7. ASSUME NEW j \in FuseCorners
      PROVE  /\ adjusted[j] \in Int /\ Plain[j] <= adjusted[j]
             /\ ~isCold => adjusted[j] = Plain[j]
  <2> HIDE DEF p
  <2>1. Plain[j] = Raw(j) + AdjAt(OfPart(board.fuseAdj, p), j) BY <1>5 DEF Plain
  <2>2. adjusted[j] = Plain[j] + (IF isCold THEN AdjAt(OfPart(board.cold, p), j) ELSE 0)
    BY <1>4, <2>1
  <2>3. AdjAt(OfPart(board.cold, p), j) \in Nat BY <1>1, <1>6, ColdIs, OfPartIs
  <2> HIDE DEF adjusted
  <2>4. QED BY <1>6, <2>2, <2>3
<1>8. \A j \in FuseCorners : Asked[j] <= fuseVolt'[j]
  <2> HIDE DEF adjusted
  <2>1. MaxSoFar(Len(board.ref), adjusted, fuseVolt') BY <1>2, <1>3, <1>7, RunningMaxIs
  <2>2. MaxSoFar(Len(board.ref), Plain, Asked) BY <1>3, <1>6, RunningMaxIs DEF Asked
  <2>3. QED BY <1>3, <1>6, <1>7, <2>1, <2>2, MaxGrows
<1>9. ~isCold => fuseVolt' = Asked
  <2>1. ASSUME ~isCold PROVE adjusted = Plain
    <3>1. \A j \in FuseCorners : adjusted[j] = Plain[j] BY <1>7, <2>1
    <3>2. adjusted = [j \in FuseCorners |-> adjusted[j]] OBVIOUS
    <3>3. Plain = [j \in FuseCorners |-> Plain[j]] BY DEF Plain
    <3> HIDE DEF adjusted
    <3>4. QED BY <3>1, <3>2, <3>3
  <2> HIDE DEF adjusted
  <2>2. QED BY <1>2, <2>1 DEF Asked
<1> HIDE DEF p, adjusted
<1>10. FuseCorners' = FuseCorners /\ Asked' = Asked BY <1>1, Static
<1>11. FusesAsked' BY <1>1, <1>8, <1>9, <1>10 DEF FusesAsked
<1>12. Mapped' BY <1>1 DEF Mapped
<1>13. Honoured'
  <2>1. SufficesNext(stage', ceiling', ol') BY <1>1 DEF SufficesNext, HInv, Honoured
  <2>2. QED BY <1>1, <2>1, HonouredNext
<1>14. QED BY <1>11, <1>12, <1>13 DEF HInv

\* Rounded up and between the limits, a voltage still suffices, or the ceiling it is put to
\* does.
LEMMA LimitHonours == ASSUME TInv, HInv, Limit PROVE HInv'
<1> USE DEF Limit
<1>1. OnBoard /\ fused \in Fuses /\ Fits(board, fused) /\ stage = "limit"
      /\ stage' = "floor" /\ CornersValid /\ {floor, ceiling, ol} \subseteq [CornerSet -> Int]
      /\ board' = board /\ fused' = fused /\ isCold' = isCold /\ fuseVolt' = fuseVolt
  BY DEF TInv, Typed
<1>2. FuseCorners' = FuseCorners /\ Asked' = Asked /\ (Unmapped' <=> Unmapped)
  BY <1>1, Static
<1>3. ~Unmapped BY <1>1 DEF HInv, Mapped
<1>4. ASSUME board.adj = <<>>, board.misc = <<>>, NEW c \in CornerSet PROVE Suffices(c, ol'[c])
  <2> DEFINE r == Round(ol[c])
  <2>1. ol[c] \in Int /\ floor[c] \in Int /\ ceiling[c] \in Int BY <1>1
  <2>2. r \in Int /\ ol[c] <= r BY <1>1, <2>1, BoardIs, Rounded
  <2>3. ol'[c] = MinI(MaxI(r, floor[c]), ceiling[c]) OBVIOUS
  <2>4. Suffices(c, ol[c]) /\ Suffices(c, ceiling[c])
    BY <1>1, <1>4 DEF HInv, Honoured, Suffices
  <2> HIDE DEF r
  <2>5. ol'[c] \in Int /\ (ol[c] <= ol'[c] \/ ol'[c] = ceiling[c])
    BY ONLY <2>1, <2>2, <2>3 DEF MinI, MaxI
  <2>6. CASE ol[c] <= ol'[c] BY <1>1, <1>3, <2>1, <2>4, <2>5, <2>6, SufficesGrows
  <2>7. CASE ol'[c] = ceiling[c] BY <2>4, <2>7
  <2>8. QED BY <2>5, <2>6, <2>7
<1>5. SufficesNext(stage', ceiling', ol') BY <1>1, <1>4 DEF SufficesNext
<1>6. Honoured' BY <1>1, <1>5, HonouredNext
<1>7. FusesAsked' BY <1>1, <1>2 DEF HInv, FusesAsked
<1>8. Mapped' BY <1>1, <1>2, <1>3 DEF Mapped
<1>9. QED BY <1>6, <1>7, <1>8 DEF HInv

\* Limiting the floors lowers no voltage and no ceiling.
LEMMA LimitFloorHonours == ASSUME TInv, HInv, LimitFloor PROVE HInv'
<1>1. OnBoard /\ fused \in Fuses /\ Fits(board, fused) /\ isCold \in BOOLEAN
      /\ stage = "floor" /\ CornersValid /\ {floor, ceiling, ol} \subseteq [CornerSet -> Int]
      /\ board' = board /\ fused' = fused /\ isCold' = FALSE /\ fuseVolt' = fuseVolt
      /\ stage' \in {"fuse", "done", "quot"} /\ (stage' = "fuse" <=> isCold)
  <2>1. OnBoard /\ isCold \in BOOLEAN /\ stage = "floor" BY DEF TInv, Typed, LimitFloor
  <2>2. board.npu \in BOOLEAN BY <2>1, BoardIs
  <2>3. QED BY <2>1, <2>2 DEF TInv, Typed, LimitFloor
<1>2. FuseCorners' = FuseCorners /\ Asked' = Asked /\ (Unmapped' <=> Unmapped)
  BY <1>1, Static
<1>3. ~Unmapped BY <1>1 DEF HInv, Mapped
<1>4. TInv' BY LimitFloorKeeps
<1>5. ASSUME NEW c \in CornerSet
      PROVE  /\ {ol[c], ceiling[c], ol'[c], ceiling'[c]} \subseteq Int
             /\ ol[c] <= ol'[c] /\ ceiling[c] <= ceiling'[c] /\ ol[c] <= ceiling[c]
  <2>1. ol[c] \in Int /\ ceiling[c] \in Int BY <1>1
  <2>2. {floor', ceiling', ol'} \subseteq [CornerSet -> Int]
    <3>1. CornerSet' = CornerSet BY <1>1, Static
    <3>2. QED BY <1>1, <1>4, <3>1 DEF TInv, Typed
  <2>3. floor'[c] \in Int /\ ol'[c] \in Int /\ ceiling'[c] \in Int BY <2>2
  <2>4. /\ ol'[c] = IF floor'[c] # floor[c] THEN MaxI(ol[c], floor'[c]) ELSE ol[c]
        /\ ceiling'[c] \in {MaxI(ceiling[c], floor'[c]), ceiling[c]}
    BY DEF LimitFloor
  <2>5. ol[c] <= ceiling[c] BY <1>1 DEF TInv, Limited, Between
  <2>6. QED BY <2>1, <2>3, <2>4, <2>5 DEF MaxI
<1>6. ASSUME board.adj = <<>>, board.misc = <<>>, NEW c \in CornerSet
      PROVE  Suffices(c, ol'[c]) /\ Suffices(c, ceiling'[c])
  <2>1. Suffices(c, ol[c]) BY <1>1, <1>6 DEF HInv, Honoured
  <2>2. {ol[c], ceiling[c], ol'[c], ceiling'[c]} \subseteq Int /\ ol[c] <= ol'[c]
        /\ ol[c] <= ceiling'[c]
    BY <1>5
  <2>3. QED BY <1>1, <1>3, <2>1, <2>2, SufficesGrows
<1>7. SufficesNext(stage', ceiling', ol') BY <1>1, <1>6 DEF SufficesNext
<1>8. Honoured' BY <1>1, <1>7, HonouredNext
<1>9. FusesAsked' BY <1>1, <1>2 DEF HInv, FusesAsked
<1>10. Mapped' BY <1>1 DEF Mapped
<1>11. QED BY <1>8, <1>9, <1>10 DEF HInv

\* The quotients and boost leave the open-loop voltages alone.
LEMMA LaterHonours == ASSUME TInv, HInv, Quotients \/ Boost PROVE HInv'
<1>1. board' = board /\ fused' = fused /\ isCold' = isCold /\ fuseVolt' = fuseVolt /\ ol' = ol
      /\ stage \in {"quot", "boost"} /\ stage' \in {"boost", "done", "failed"}
  BY DEF Quotients, Boost
<1>2. FuseCorners' = FuseCorners /\ Asked' = Asked BY <1>1, Static
<1>3. SufficesNext(stage', ceiling', ol') BY <1>1 DEF SufficesNext, HInv, Honoured
<1>4. Honoured' BY <1>1, <1>3, HonouredNext
<1>5. FusesAsked' BY <1>1, <1>2 DEF HInv, FusesAsked
<1>6. Mapped' BY <1>1 DEF HInv, Mapped
<1>7. QED BY <1>4, <1>5, <1>6 DEF HInv

\* It always holds.
LEMMA HInvHolds ==
  TableSpec => []HInv
<1>1. TableInit => HInv
  <2> SUFFICES ASSUME TableInit PROVE HInv OBVIOUS
  <2>1. stage = "parse" BY DEF TableInit
  <2>2. QED BY <2>1 DEF HInv, FusesAsked, Mapped, Honoured
<1>2. TInv /\ HInv /\ [TableNext]_tableVars => HInv'
  <2> SUFFICES ASSUME TInv, HInv, [TableNext]_tableVars PROVE HInv' OBVIOUS
  <2>1. CASE TableNext
    BY <2>1, ParseHonours, FuseVoltagesHonours, OpenLoopHonours, LimitHonours,
       LimitFloorHonours, LaterHonours DEF TableNext
  <2>2. CASE UNCHANGED tableVars
    <3>1. board' = board /\ fused' = fused /\ stage' = stage /\ isCold' = isCold
          /\ fuseVolt' = fuseVolt /\ ceiling' = ceiling /\ ol' = ol
      BY <2>2 DEF tableVars
    <3>2. FuseCorners' = FuseCorners /\ Asked' = Asked /\ (Unmapped' <=> Unmapped)
      BY <3>1, Static
    <3>3. SufficesNext(stage', ceiling', ol') BY <3>1 DEF SufficesNext, HInv, Honoured
    <3>4. Honoured' BY <3>1, <3>3, HonouredNext
    <3>5. FusesAsked' /\ Mapped' BY <3>1, <3>2 DEF HInv, FusesAsked, Mapped
    <3>6. QED BY <3>4, <3>5 DEF HInv
  <2>3. QED BY <2>1, <2>2
<1>3. QED BY <1>1, <1>2, TInvHolds, PTL DEF TableSpec

\* At the end it is VoltHonoured.
LEMMA VoltsHonoured == TInv /\ HInv => VoltHonoured
<1> SUFFICES ASSUME TInv, HInv, stage = "done", board.adj = <<>>, board.misc = <<>>,
                    NEW c \in CornerSet
             PROVE  Needs(c, ol[c]) \/ ol[c] >= Round(board.ceiling[c])
  BY DEF VoltHonoured
<1>1. Suffices(c, ol[c]) BY DEF HInv, Honoured
<1>2. Asked = fuseVolt BY DEF HInv, Mapped, FusesAsked
<1>3. Above(c, ol[c], fuseVolt) => Needs(c, ol[c]) BY DEF Above, Needs, Interpolated
<1>4. QED BY <1>1, <1>2, <1>3 DEF Suffices

-----------------------------------------------------------------------------
(* The quotients.                                                          *)

\* An adjustment of nothing is nothing.
LEMMA QuotAdjIs ==
  ASSUME NEW scale \in Int, NEW volt \in Int
  PROVE  QuotAdj(scale, volt) \in Int /\ QuotAdj(scale, 0) = 0
<1>1. \A x \in Int : Sign(x) \in {-1, 1} /\ Abs(x) \in Int BY DEF Sign, Abs
<1>2. Abs(0) = 0 BY DEF Abs, Sign
<1> DEFINE a == Abs(scale)
           b == Abs(volt)
           d == 1000000
<1>3. a \in Int /\ b \in Int /\ d \in Nat \ {0} BY <1>1
<1> HIDE DEF a, b, d
<1>4. a * b \in Int /\ a * 0 = 0 BY <1>3
<1>5. (a * b) \div d \in Int BY <1>3, <1>4, Division
<1>6. (a * 0) \div d = 0
  <2>1. 0 \div d \in Int /\ (0 \div d) * d <= 0 /\ 0 < (0 \div d) * d + d BY <1>3, Division
  <2>2. ASSUME NEW q \in Int, q * d <= 0, 0 < q * d + d PROVE q = 0
    BY <2>2 DEF d
  <2>3. QED BY <1>4, <2>1, <2>2
<1>7. \A p, q \in {-1, 1} : \A r \in Int : p * q * r \in Int /\ p * q * 0 = 0 OBVIOUS
<1>8. QuotAdj(scale, volt) = Sign(scale) * Sign(volt) * ((a * b) \div d)
  BY DEF QuotAdj, a, b, d
<1>9. QuotAdj(scale, 0) = Sign(scale) * Sign(0) * ((a * 0) \div d)
  BY <1>2 DEF QuotAdj, a, d
<1>10. QED BY <1>1, <1>5, <1>6, <1>7, <1>8, <1>9

\* What the chip and the part give for each fuse corner.
ChipIs ==
  /\ OnBoard /\ fused \in Fuses /\ Fits(board, fused) /\ ~board.npu
  /\ part \in 0 .. Len(board.parts)
LEMMA QuotientsTyped ==
  ASSUME ChipIs, NEW j \in FuseCorners
  PROVE  /\ fused.quot[j] \in 0 .. Word - 1 /\ fused.offset[j] \in Nat /\ RoScale(j) \in Int
         /\ \A of \in FuseCorners : FuseAdjQuot(j, of) \in Int
         /\ \A adj \in Int : fused.quot[j] - fused.offset[j] * 5 + adj \in Int
         /\ \A adj \in Int : OffsetLow(j, adj) \in 0 .. Long - 1
         /\ j # 1 => j - 1 \in FuseCorners /\ AdjustedLow(j) \in 0 .. Long - 1
<1>1. fused.quot[j] \in 0 .. Word - 1 /\ fused.offset[j] \in Nat /\ board.scale[j][fused.ro[j]] \in Int
  BY BoardsOK DEF OnBoard, WellFormed, ChipIs, FuseCorners
<1>2. RoScale(j) \in Int BY <1>1 DEF RoScale
<1>3. ASSUME NEW of \in FuseCorners PROVE FuseAdjQuot(j, of) \in Int
  <2>1. AdjAt(OfPart(board.clFuse, part), of) \in Int BY OfPartIs DEF ChipIs
  <2>2. QED BY <1>2, <2>1, QuotAdjIs DEF FuseAdjQuot
<1>4. ASSUME NEW adj \in Int
      PROVE  fused.quot[j] - fused.offset[j] * 5 + adj \in Int /\ OffsetLow(j, adj) \in 0 .. Long - 1
  <2>1. fused.quot[j] - fused.offset[j] * 5 + adj \in Int BY <1>1, WidthsOK
  <2>2. Long \in Nat \ {0} BY WidthsOK
  <2>3. QED BY <2>1, <2>2, Division DEF OffsetLow
<1>5. ASSUME j # 1 PROVE j - 1 \in FuseCorners /\ AdjustedLow(j) \in 0 .. Long - 1
  <2>1. j - 1 \in FuseCorners
    <3>1. Len(board.ref) \in Nat BY BoardIs DEF ChipIs
    <3>2. QED BY <1>5, <3>1 DEF FuseCorners
  <2>2. FuseAdjQuot(j, j - 1) \in Int BY <1>3, <2>1
  <2>3. QED BY <1>4, <2>1, <2>2 DEF AdjustedLow
<1>6. QED BY <1>1, <1>2, <1>3, <1>4, <1>5

\* What fits its word is not changed by it.
LEMMA InWord ==
  ASSUME NEW m \in Nat \ {0}, NEW x \in 0 .. m - 1 PROVE x % m = x
<1>1. x = (x \div m) * m + (x % m) /\ x \div m \in Int /\ x % m \in 0 .. m - 1 BY Division
<1>2. QED BY <1>1

\* No fused quotient falls below what the fuse of its corner says.
LEMMA FusedIs ==
  ASSUME ChipIs
  PROVE  /\ Fused \in [FuseCorners -> Int] /\ Fused[1] = (fused.quot[1] + FuseAdjQuot(1, 1)) % Word
         /\ Fused[1] \in 0 .. Word - 1
         /\ \A j \in FuseCorners \ {1} : fused.quot[j] <= Fused[j]
<1> DEFINE n == Len(board.ref)
           f1 == (fused.quot[1] + FuseAdjQuot(1, 1)) % Word
           a == [j \in 1 .. n |-> IF j = 1 THEN f1 ELSE fused.quot[j]]
           b == [j \in 1 .. n |-> OffsetLow(j, 0)]
           z == [j \in 1 .. n |-> 0]
           L == {j \in 1 .. n : SameRo(j, j - 1)}
           Step(r, j) == MaxI(fused.quot[j], IF SameRo(j, j - 1) THEN r[j - 1] ELSE OffsetLow(j, 0))
           Equation(r) == r = [j \in FuseCorners |->
                                 IF j = 1 THEN (fused.quot[1] + FuseAdjQuot(1, 1)) % Word
                                 ELSE MaxI(fused.quot[j],
                                           IF SameRo(j, j - 1) THEN r[j - 1] ELSE OffsetLow(j, 0))]
<1>1. n \in Nat /\ n > 0 /\ FuseCorners = 1 .. n /\ 1 \in FuseCorners
  BY BoardIs DEF ChipIs, FuseCorners
<1>2. /\ \A j \in FuseCorners : fused.quot[j] \in Int /\ OffsetLow(j, 0) \in Int
      /\ f1 \in 0 .. Word - 1
  <2>1. \A j \in FuseCorners : fused.quot[j] \in 0 .. Word - 1 /\ OffsetLow(j, 0) \in 0 .. Long - 1
                               /\ FuseAdjQuot(1, 1) \in Int
    BY <1>1, QuotientsTyped
  <2>2. Word \in Nat \ {0} /\ Long \in Nat BY WidthsOK
  <2>3. fused.quot[1] + FuseAdjQuot(1, 1) \in Int BY <1>1, <2>1, <2>2
  <2>4. QED BY <2>1, <2>2, <2>3, Division
<1> HIDE DEF f1
<1>3. a \in [1 .. n -> Int] /\ b \in [1 .. n -> Int] /\ z \in [1 .. n -> Int]
  <2>1. f1 \in Int BY <1>2, WidthsOK
  <2> HIDE DEF n
  <2>2. QED BY <1>1, <1>2, <2>1
<1>4. PICK r \in [1 .. n -> Int] : Linked(n, L, a, b, z, r)
  <2> HIDE DEF n, a, b, z, L
  <2>1. QED BY <1>1, <1>3, Chained
<1>5. \A j \in 2 .. n : r[j] = Step(r, j)
  <2>1. ASSUME NEW j \in 2 .. n
        PROVE  r[j] = Step(r, j)
    <3>1. j \in 1 .. n /\ j - 1 \in 1 .. n /\ j # 1 BY <1>1
    <3>2. r[j] = MaxI(a[j], IF j \in L THEN r[j - 1] + z[j] ELSE b[j]) BY <1>4 DEF Linked
    <3>3. a[j] = fused.quot[j] /\ z[j] = 0 /\ b[j] = OffsetLow(j, 0) /\ (j \in L <=> SameRo(j, j - 1))
      BY <3>1
    <3>4. r[j - 1] \in Int BY <1>4, <3>1
    <3> HIDE DEF n, a, b, z, L
    <3>5. QED BY <3>2, <3>3, <3>4
  <2>2. QED BY <2>1
<1>6. r[1] = f1 BY <1>1, <1>4 DEF Linked
<1>7. Equation(r)
  <2>1. ASSUME NEW j \in FuseCorners PROVE r[j] = IF j = 1 THEN f1 ELSE Step(r, j)
    <3>1. j = 1 \/ j \in 2 .. n BY <1>1
    <3> HIDE DEF n, Step
    <3>2. QED BY <1>5, <1>6, <3>1
  <2>2. r = [j \in FuseCorners |-> r[j]] BY <1>1
  <2>3. QED BY <2>1, <2>2 DEF f1
<1>8. Fused = CHOOSE h : Equation(h) BY DEF Fused
<1>9. Equation(Fused)
  <2> HIDE DEF Equation
  <2>1. QED BY <1>7, <1>8
<1> DEFINE f == Fused
<1>10. Equation(f) BY <1>9
<1> HIDE DEF f
<1>11. f = [j \in FuseCorners |-> f[j]] /\ f[1] = f1
       /\ \A j \in FuseCorners \ {1} : f[j] = Step(f, j)
  BY <1>1, <1>10 DEF f1
<1> HIDE DEF Equation, L, a, b, z
<1>12. \A j \in 1 .. n : f[j] \in Int
  <2> DEFINE G == {j \in 1 .. n : f[j] \in Int}
  <2>1. 1 \in G BY <1>1, <1>2, <1>11, WidthsOK
  <2>2. ASSUME NEW i \in 1 .. n, i - 1 \in G, i > 1 PROVE i \in G
    <3>1. i \in FuseCorners \ {1} /\ f[i - 1] \in Int /\ fused.quot[i] \in Int
          /\ OffsetLow(i, 0) \in Int
      BY <1>1, <1>2, <2>2
    <3>2. QED BY <1>11, <3>1 DEF MaxI
  <2> HIDE DEF G
  <2>3. 1 .. n \subseteq G BY <1>1, <2>1, <2>2, Upward
  <2>4. QED BY <2>3 DEF G
<1>13. ASSUME NEW j \in FuseCorners \ {1} PROVE fused.quot[j] <= f[j]
  <2>1. j - 1 \in 1 .. n BY <1>1
  <2>2. f[j - 1] \in Int /\ fused.quot[j] \in Int /\ OffsetLow(j, 0) \in Int
    BY <1>2, <1>12, <2>1
  <2>3. f[j] = Step(f, j) BY <1>11
  <2>4. QED BY <2>2, <2>3 DEF MaxI
<1>14. QED BY <1>1, <1>2, <1>11, <1>12, <1>13 DEF f, f1

\* The quotient at the top of a fuse corner is no lower than the one at the bottom, nor,
\* if none wraps, than the fused one with its adjustment; and then it fits its word.
LEMMA HighIs ==
  ASSUME ChipIs
  PROVE  /\ High \in [FuseCorners -> Int]
         /\ \A j \in FuseCorners : Low[j] \in Int /\ Low[j] <= High[j]
         /\ Unwrapped =>
              \A j \in FuseCorners : /\ fused.quot[j] + FuseAdjQuot(j, j) <= High[j]
                                     /\ High[j] \in 0 .. Word - 1
<1> DEFINE n == Len(board.ref)
           Top(j) == (Fused[j] + FuseAdjQuot(j, j)) % Long
           a == [j \in 1 .. n |-> IF j = 1 THEN Fused[1] ELSE Top(j)]
           b == [j \in 1 .. n |-> IF j = 1 THEN 0 ELSE AdjustedLow(j)]
           z == [j \in 1 .. n |-> 0]
           L == {j \in 1 .. n : SameRo(j, j - 1)}
           Step(r, j) == MaxI(Top(j), IF SameRo(j, j - 1) THEN r[j - 1] ELSE AdjustedLow(j))
           Equation(r) == r = [j \in FuseCorners |->
                                 IF j = 1 THEN Fused[1]
                                 ELSE MaxI((Fused[j] + FuseAdjQuot(j, j)) % Long,
                                           IF SameRo(j, j - 1) THEN r[j - 1] ELSE AdjustedLow(j))]
<1>1. n \in Nat /\ n > 0 /\ FuseCorners = 1 .. n /\ 1 \in FuseCorners
  BY BoardIs DEF ChipIs, FuseCorners
<1>2. ASSUME NEW j \in FuseCorners
      PROVE  /\ Fused[j] \in Int /\ FuseAdjQuot(j, j) \in Int /\ Top(j) \in Int
             /\ (j # 1 => AdjustedLow(j) \in Int) /\ fused.quot[j] \in Int
  <2>1. Fused[j] \in Int /\ FuseAdjQuot(j, j) \in Int BY FusedIs, QuotientsTyped
  <2>2. Word \in Nat \ {0} /\ Long \in Nat \ {0} BY WidthsOK
  <2>3. Fused[j] + FuseAdjQuot(j, j) \in Int BY <2>1
  <2>4. Top(j) \in Int BY <2>2, <2>3, Division
  <2>5. fused.quot[j] \in 0 .. Word - 1 /\ (j # 1 => AdjustedLow(j) \in 0 .. Long - 1)
    BY QuotientsTyped
  <2>6. QED BY <2>1, <2>2, <2>4, <2>5
<1>3. a \in [1 .. n -> Int] /\ b \in [1 .. n -> Int] /\ z \in [1 .. n -> Int]
  <2> HIDE DEF n
  <2>1. QED BY <1>1, <1>2
<1>4. PICK r \in [1 .. n -> Int] : Linked(n, L, a, b, z, r)
  <2> HIDE DEF n, a, b, z, L
  <2>1. QED BY <1>1, <1>3, Chained
<1>5. \A j \in 2 .. n : r[j] = Step(r, j)
  <2>1. ASSUME NEW j \in 2 .. n PROVE r[j] = Step(r, j)
    <3>1. j \in 1 .. n /\ j - 1 \in 1 .. n /\ j # 1 BY <1>1
    <3>2. r[j] = MaxI(a[j], IF j \in L THEN r[j - 1] + z[j] ELSE b[j]) BY <1>4 DEF Linked
    <3>3. a[j] = Top(j) /\ z[j] = 0 /\ b[j] = AdjustedLow(j)
          /\ (j \in L <=> SameRo(j, j - 1))
      BY <3>1
    <3>4. r[j - 1] \in Int BY <1>4, <3>1
    <3> HIDE DEF n, a, b, z, L
    <3>5. QED BY <3>2, <3>3, <3>4
  <2>2. QED BY <2>1
<1>6. r[1] = Fused[1] BY <1>1, <1>4 DEF Linked
<1>7. Equation(r)
  <2>1. ASSUME NEW j \in FuseCorners PROVE r[j] = IF j = 1 THEN Fused[1] ELSE Step(r, j)
    <3>1. j = 1 \/ j \in 2 .. n BY <1>1
    <3> HIDE DEF n, Step
    <3>2. QED BY <1>5, <1>6, <3>1
  <2>2. r = [j \in FuseCorners |-> r[j]] BY <1>1
  <2>3. QED BY <2>1, <2>2
<1>8. High = CHOOSE h : Equation(h) BY DEF High
<1> DEFINE h == High
<1>9. Equation(h)
  <2> HIDE DEF Equation
  <2>1. QED BY <1>7, <1>8
<1> HIDE DEF h
<1>10. h = [j \in FuseCorners |-> h[j]] /\ h[1] = Fused[1]
       /\ \A j \in FuseCorners \ {1} : h[j] = Step(h, j)
  BY <1>1, <1>9
<1> HIDE DEF Equation, L, a, b, z, Top
<1>11. \A j \in 1 .. n : h[j] \in Int
  <2> DEFINE G == {j \in 1 .. n : h[j] \in Int}
  <2>1. 1 \in G BY <1>1, <1>2, <1>10
  <2>2. ASSUME NEW i \in 1 .. n, i - 1 \in G, i > 1 PROVE i \in G
    <3>1. i \in FuseCorners \ {1} /\ h[i - 1] \in Int BY <1>1, <2>2
    <3>2. h[i] = Step(h, i) BY <1>10, <3>1
    <3>3. Top(i) \in Int /\ AdjustedLow(i) \in Int BY <1>2, <3>1
    <3>4. h[i] \in Int BY <3>1, <3>2, <3>3 DEF MaxI
    <3>5. QED BY <3>4
  <2> HIDE DEF G
  <2>3. 1 .. n \subseteq G BY <1>1, <2>1, <2>2, Upward
  <2>4. QED BY <2>3 DEF G
<1>12. ASSUME NEW j \in FuseCorners, j # 1
       PROVE  /\ Low[j] = IF SameRo(j, j - 1) THEN h[j - 1] ELSE AdjustedLow(j)
              /\ h[j] = MaxI(Top(j), Low[j])
              /\ h[j - 1] \in Int /\ Low[j] \in Int /\ Low[j] <= h[j] /\ Top(j) <= h[j]
  <2>1. j - 1 \in 1 .. n BY <1>1, <1>12
  <2>2. h[j - 1] \in Int /\ h[j] \in Int BY <1>1, <1>11, <2>1
  <2>3. Low[j] = IF SameRo(j, j - 1) THEN h[j - 1] ELSE AdjustedLow(j)
    BY <1>12 DEF Low, h
  <2>4. h[j] = MaxI(Top(j), Low[j]) BY <1>10, <1>12, <2>3
  <2>5. Top(j) \in Int /\ AdjustedLow(j) \in Int BY <1>2, <1>12
  <2>6. Low[j] \in Int BY <2>2, <2>3, <2>5
  <2>7. QED BY ONLY <2>2, <2>3, <2>4, <2>5, <2>6 DEF MaxI
<1>13. Low[1] = h[1] /\ h[1] \in Int BY <1>1, <1>11 DEF Low, h
<1>14. ASSUME Unwrapped
       PROVE  \A j \in FuseCorners : /\ fused.quot[j] + FuseAdjQuot(j, j) <= h[j]
                                      /\ h[j] \in 0 .. Word - 1
  <2>1. Word \in Nat \ {0} /\ Long \in Nat \ {0} /\ Word <= Long BY WidthsOK
  <2>2. /\ h[1] = fused.quot[1] + FuseAdjQuot(1, 1) /\ h[1] \in 0 .. Word - 1
    <3>1. h[1] = (fused.quot[1] + FuseAdjQuot(1, 1)) % Word BY <1>10, FusedIs
    <3>2. fused.quot[1] + FuseAdjQuot(1, 1) \in 0 .. Word - 1 BY <1>1, <1>14 DEF Unwrapped
    <3>3. QED BY <2>1, <3>1, <3>2, InWord
  <2>3. ASSUME NEW j \in FuseCorners, j # 1
        PROVE  fused.quot[j] + FuseAdjQuot(j, j) <= h[j] /\ Top(j) \in 0 .. Word - 1
    <3>1. fused.quot[j] + FuseAdjQuot(j, j) \in 0 .. Word - 1 /\ Fused[j] + FuseAdjQuot(j, j) < Word
      BY <1>14, <2>3 DEF Unwrapped
    <3>2. fused.quot[j] <= Fused[j] BY <2>3, FusedIs
    <3>3. Fused[j] \in Int /\ FuseAdjQuot(j, j) \in Int /\ fused.quot[j] \in Int BY <1>2
    <3>4. Fused[j] + FuseAdjQuot(j, j) \in 0 .. Long - 1 /\ Fused[j] + FuseAdjQuot(j, j) \in 0 .. Word - 1
      BY <2>1, <3>1, <3>2, <3>3
    <3>5. Top(j) = Fused[j] + FuseAdjQuot(j, j) BY <2>1, <3>4, InWord DEF Top
    <3>6. Top(j) <= h[j] /\ h[j] \in Int BY <1>1, <1>11, <1>12, <2>3
    <3>7. QED BY <3>2, <3>3, <3>4, <3>5, <3>6
  <2>4. ASSUME NEW j \in FuseCorners, j # 1, ~SameRo(j, j - 1)
        PROVE  AdjustedLow(j) \in 0 .. Word - 1
    <3>1. fused.quot[j] - fused.offset[j] * 5 + FuseAdjQuot(j, j - 1) \in 0 .. Word - 1
      BY <1>14, <2>4 DEF Unwrapped
    <3>2. fused.quot[j] - fused.offset[j] * 5 + FuseAdjQuot(j, j - 1) \in 0 .. Long - 1
      BY <2>1, <3>1
    <3>3. QED BY <2>1, <3>1, <3>2, InWord DEF AdjustedLow, OffsetLow
  <2> DEFINE G == {j \in 1 .. n : h[j] \in 0 .. Word - 1}
  <2>5. 1 \in G BY <1>1, <2>2
  <2>6. ASSUME NEW i \in 1 .. n, i - 1 \in G, i > 1 PROVE i \in G
    <3>1. i \in FuseCorners /\ i # 1 /\ h[i - 1] \in 0 .. Word - 1 BY <1>1, <2>6
    <3>2. Low[i] \in 0 .. Word - 1
      <4>1. CASE SameRo(i, i - 1) BY <1>12, <3>1, <4>1
      <4>2. CASE ~SameRo(i, i - 1) BY <1>12, <2>4, <3>1, <4>2
      <4>3. QED BY <4>1, <4>2
    <3>3. h[i] = MaxI(Top(i), Low[i]) /\ Top(i) \in 0 .. Word - 1 BY <1>12, <2>3, <3>1
    <3>4. h[i] \in 0 .. Word - 1 BY <3>2, <3>3 DEF MaxI
    <3>5. QED BY <3>4
  <2> HIDE DEF G
  <2>7. 1 .. n \subseteq G BY <1>1, <2>5, <2>6, Upward
  <2>8. ASSUME NEW j \in FuseCorners
        PROVE  fused.quot[j] + FuseAdjQuot(j, j) <= h[j] /\ h[j] \in 0 .. Word - 1
    <3>1. h[j] \in 0 .. Word - 1 BY <1>1, <2>7 DEF G
    <3>2. CASE j = 1 BY <2>1, <2>2, <3>2
    <3>3. CASE j # 1 BY <2>3, <3>1, <3>3
    <3>4. QED BY <3>1, <3>2, <3>3
  <2>9. QED BY <2>8
<1>15. \A j \in FuseCorners : Low[j] \in Int /\ Low[j] <= h[j] BY <1>12, <1>13
<1>16. High = h BY DEF h
<1>17. QED BY <1>1, <1>10, <1>11, <1>14, <1>15, <1>16

\* In the runs of one oscillator the quotients are in order, and none is lowered.
LEMMA InRunsIs ==
  ASSUME OnBoard, NEW s \in [CornerSet -> Int]
  PROVE  \A c \in CornerSet :
           /\ InRuns(s)[c] \in Int /\ s[c] <= InRuns(s)[c]
           /\ c # 1 /\ SameRo(FuseOf(c - 1), FuseOf(c)) => InRuns(s)[c - 1] <= InRuns(s)[c]
<1> DEFINE n == Len(board.floor)
           z == [c \in 1 .. n |-> 0]
           New(c) == ~SameRo(FuseOf(c), FuseOf(MaxI(c - 1, 1)))
           L == {c \in 1 .. n : ~New(c)}
           Equation(r) == r = [c \in CornerSet |->
                                 IF c = 1 \/ ~SameRo(FuseOf(c), FuseOf(MaxI(c - 1, 1)))
                                 THEN s[c] ELSE MaxI(s[c], r[c - 1])]
<1>1. n \in Nat /\ n > 0 /\ CornerSet = 1 .. n /\ 1 \in CornerSet BY BoardIs DEF CornerSet
<1>2. z \in [1 .. n -> Int] /\ s \in [1 .. n -> Int] BY <1>1
<1>3. PICK r \in [1 .. n -> Int] : Linked(n, L, s, s, z, r)
  <2> HIDE DEF n, z, L
  <2>1. QED BY <1>1, <1>2, Chained
<1>4. \A c \in 2 .. n : r[c] = IF New(c) THEN s[c] ELSE MaxI(s[c], r[c - 1])
  <2>1. ASSUME NEW c \in 2 .. n PROVE r[c] = IF New(c) THEN s[c] ELSE MaxI(s[c], r[c - 1])
    <3>1. c \in 1 .. n /\ c - 1 \in 1 .. n /\ c # 1 BY <1>1
    <3>2. r[c] = MaxI(s[c], IF c \in L THEN r[c - 1] + z[c] ELSE s[c]) BY <1>3 DEF Linked
    <3>3. z[c] = 0 /\ (c \in L <=> ~New(c)) BY <3>1
    <3>4. r[c - 1] \in Int /\ s[c] \in Int BY <1>1, <1>3, <3>1
    <3> HIDE DEF n, z, L, New
    <3>5. QED BY <3>2, <3>3, <3>4 DEF MaxI
  <2>2. QED BY <2>1
<1>5. r[1] = s[1] BY <1>1, <1>3 DEF Linked
<1>6. Equation(r)
  <2>1. ASSUME NEW c \in CornerSet
        PROVE  r[c] = IF c = 1 \/ New(c) THEN s[c] ELSE MaxI(s[c], r[c - 1])
    <3>1. c = 1 \/ c \in 2 .. n BY <1>1
    <3> HIDE DEF n, New
    <3>2. QED BY <1>4, <1>5, <3>1
  <2>2. r = [c \in CornerSet |-> r[c]] BY <1>1
  <2>3. QED BY <2>1, <2>2
<1>7. InRuns(s) = CHOOSE q : Equation(q) BY DEF InRuns
<1> DEFINE q == InRuns(s)
<1>8. Equation(q)
  <2> HIDE DEF Equation
  <2>1. QED BY <1>6, <1>7
<1> HIDE DEF q
<1>9. \A c \in CornerSet : q[c] = IF c = 1 \/ New(c) THEN s[c] ELSE MaxI(s[c], q[c - 1])
  BY <1>8
<1> HIDE DEF Equation, L, z
<1>10. \A c \in 1 .. n : q[c] \in Int
  <2> DEFINE G == {c \in 1 .. n : q[c] \in Int}
  <2>1. 1 \in G BY <1>1, <1>9
  <2>2. ASSUME NEW i \in 1 .. n, i - 1 \in G, i > 1 PROVE i \in G
    <3>1. i \in CornerSet /\ q[i - 1] \in Int /\ s[i] \in Int BY <1>1, <2>2
    <3>2. q[i] = IF i = 1 \/ New(i) THEN s[i] ELSE MaxI(s[i], q[i - 1]) BY <1>9, <3>1
    <3> HIDE DEF New
    <3>3. q[i] \in Int BY <3>1, <3>2 DEF MaxI
    <3>4. QED BY <3>3
  <2> HIDE DEF G
  <2>3. 1 .. n \subseteq G BY <1>1, <2>1, <2>2, Upward
  <2>4. QED BY <2>3 DEF G
<1>11. ASSUME NEW c \in CornerSet
       PROVE  /\ q[c] \in Int /\ s[c] <= q[c]
              /\ c # 1 /\ SameRo(FuseOf(c - 1), FuseOf(c)) => q[c - 1] <= q[c]
  <2>1. q[c] = IF c = 1 \/ New(c) THEN s[c] ELSE MaxI(s[c], q[c - 1]) BY <1>9
  <2>2. s[c] \in Int /\ q[c] \in Int BY <1>1, <1>10
  <2>3. CASE c = 1 BY <2>1, <2>2, <2>3
  <2>4. CASE c # 1
    <3>1. c - 1 \in CornerSet /\ MaxI(c - 1, 1) = c - 1 BY <1>1, <2>4 DEF MaxI
    <3>2. New(c) <=> ~SameRo(FuseOf(c), FuseOf(c - 1)) BY <3>1
    <3>3. SameRo(FuseOf(c), FuseOf(c - 1)) <=> SameRo(FuseOf(c - 1), FuseOf(c))
        BY DEF SameRo
    <3>4. q[c - 1] \in Int BY <1>1, <1>10, <3>1
    <3> HIDE DEF New
    <3>5. QED BY <2>1, <2>2, <2>4, <3>2, <3>3, <3>4 DEF MaxI
  <2>5. QED BY <2>2, <2>3, <2>4
<1>12. QED BY <1>11 DEF q

\* What QuotHonoured says of the quotients q.
QuotsAre(q) ==
  /\ \A c \in CornerSet \ {1} : SameRo(FuseOf(c - 1), FuseOf(c)) => q[c - 1] <= q[c]
  /\ board.cl = <<>> /\ board.misc = <<>> /\ Unwrapped =>
       \A j \in FuseCorners : q[Fmax(j)] >= fused.quot[j] + FuseAdjQuot(j, j)
QuotsServe ==
  stage \in {"boost", "done"} /\ ~board.npu /\ Has("quot-interp") => QuotsAre(quot)

\* They say the same of the next state while the board, the chip and the part stay.
LEMMA QuotsNext ==
  ASSUME board' = board, fused' = fused, part' = part
  PROVE  QuotsAre(quot)' <=> QuotsAre(quot')
<1>1. /\ CornerSet' = CornerSet /\ FuseCorners' = FuseCorners
      /\ (\A c : FuseOf(c)' = FuseOf(c)) /\ \A j : Fmax(j)' = Fmax(j)
  BY Static
<1>2. \A i, j : SameRo(i, j)' <=> SameRo(i, j) BY DEF SameRo
<1>3. \A j, of : FuseAdjQuot(j, of)' = FuseAdjQuot(j, of)
  BY DEF FuseAdjQuot, RoScale, ClosedAdj, OfPart, AdjAt, QuotAdj, Sign, Abs
<1>4. \A j, adj : OffsetLow(j, adj)' = OffsetLow(j, adj) BY DEF OffsetLow
<1>5. Fused' = Fused BY <1>1, <1>2, <1>3, <1>4, Zenon DEF Fused
<1>6. Unwrapped' <=> Unwrapped BY <1>1, <1>2, <1>3, <1>5 DEF Unwrapped
<1>7. QED BY <1>1, <1>2, <1>3, <1>6 DEF QuotsAre

\* The quotients that are computed are in order and no lower than the fuses ask.
LEMMA QuotientsHonour == ASSUME TInv, Quotients PROVE QuotsServe'
<1>1. OnBoard /\ fused \in Fuses /\ Fits(board, fused) /\ CornersValid
      /\ part \in 0 .. Len(board.parts) /\ stage = "quot"
      /\ board' = board /\ fused' = fused /\ part' = part
  BY DEF TInv, Typed, Quotients
<1>2. ASSUME stage' = "boost", ~board.npu, Has("quot-interp") PROVE QuotsAre(quot')
  <2> DEFINE line == Spread(Low, High)
             s == [c \in CornerSet |->
                     (line[c] + QuotAdj(RoScale(FuseOf(c)), CornerAdj(c))) % Word]
  <2>1. ChipIs BY <1>1, <1>2 DEF ChipIs
  <2>2. (\A j \in FuseCorners : CornersOf(j) # {}) /\ quot' = InRuns(s)
    BY <1>2 DEF Quotients
  <2>3. /\ High \in [FuseCorners -> Int]
        /\ \A j \in FuseCorners : Low[j] \in Int /\ Low[j] <= High[j]
        /\ Unwrapped =>
             \A j \in FuseCorners : /\ fused.quot[j] + FuseAdjQuot(j, j) <= High[j]
                                    /\ High[j] \in 0 .. Word - 1
    BY <2>1, HighIs
  <2>4. /\ line \in [CornerSet -> Int]
        /\ \A c \in CornerSet : FuseOf(c) = 1 => line[c] = High[1]
        /\ \A c \in CornerSet : FuseOf(c) # 1 /\ c = Fmax(FuseOf(c)) => line[c] = High[FuseOf(c)]
    BY <1>1, <2>2, <2>3, SpreadIs
  <2>5. ASSUME NEW c \in CornerSet
        PROVE  /\ s[c] \in Int
               /\ board.cl = <<>> /\ board.misc = <<>> /\ line[c] \in 0 .. Word - 1 => s[c] = line[c]
    <3>1. RoScale(FuseOf(c)) \in Int BY <1>1, <2>1, FuseOfIs, QuotientsTyped
    <3>2. CornerAdj(c) \in Int BY <1>1, BoardIs DEF CornerAdj
    <3>3. board.cl = <<>> /\ board.misc = <<>> => CornerAdj(c) = 0
      BY DEF CornerAdj, AdjAt
    <3>4. /\ QuotAdj(RoScale(FuseOf(c)), CornerAdj(c)) \in Int
          /\ QuotAdj(RoScale(FuseOf(c)), 0) = 0
      BY <3>1, <3>2, QuotAdjIs
    <3>5. line[c] \in Int BY <2>4
    <3>6. s[c] = (line[c] + QuotAdj(RoScale(FuseOf(c)), CornerAdj(c))) % Word OBVIOUS
    <3> HIDE DEF line, s
    <3>7. Word \in Nat \ {0} BY WidthsOK
    <3>8. line[c] + QuotAdj(RoScale(FuseOf(c)), CornerAdj(c)) \in Int BY <3>4, <3>5
    <3>9. s[c] \in Int BY <3>6, <3>7, <3>8, Division
    <3>10. line[c] + 0 = line[c] BY <3>5
    <3>11. QED BY <3>3, <3>4, <3>6, <3>7, <3>9, <3>10, InWord
  <2>6. s \in [CornerSet -> Int]
    <3> HIDE DEF line
    <3>1. QED BY <2>5
  <2> HIDE DEF line, s
  <2>7. \A c \in CornerSet :
          /\ quot'[c] \in Int /\ s[c] <= quot'[c]
          /\ c # 1 /\ SameRo(FuseOf(c - 1), FuseOf(c)) => quot'[c - 1] <= quot'[c]
    BY <1>1, <2>2, <2>6, InRunsIs
  <2>8. ASSUME board.cl = <<>>, board.misc = <<>>, Unwrapped, NEW j \in FuseCorners
        PROVE  quot'[Fmax(j)] >= fused.quot[j] + FuseAdjQuot(j, j)
    <3>1. Fmax(j) \in CornerSet /\ FuseOf(Fmax(j)) = j BY <1>1, <2>2, FmaxIs
    <3>2. line[Fmax(j)] = High[j] BY <2>4, <3>1
    <3>3. High[j] <= quot'[Fmax(j)]
      <4>1. High[j] \in 0 .. Word - 1 BY <2>3, <2>8
      <4>2. s[Fmax(j)] = High[j] BY <2>5, <2>8, <3>1, <3>2, <4>1
      <4>3. QED BY <2>7, <3>1, <4>2
    <3>4. fused.quot[j] + FuseAdjQuot(j, j) <= High[j] /\ High[j] \in Int BY <2>3, <2>8
    <3>5. fused.quot[j] \in Int /\ FuseAdjQuot(j, j) \in Int
      <4>1. fused.quot[j] \in 0 .. Word - 1 /\ FuseAdjQuot(j, j) \in Int BY <2>1, QuotientsTyped
      <4>2. QED BY <4>1, WidthsOK
    <3>6. quot'[Fmax(j)] \in Int BY <2>7, <3>1
    <3>7. QED BY <3>3, <3>4, <3>5, <3>6
  <2>9. QED BY <2>7, <2>8 DEF QuotsAre
<1>3. stage' = "boost" \/ stage' = "failed" BY DEF Quotients
<1>4. QuotsServe'
  <2>1. CornerSet' = CornerSet /\ FuseCorners' = FuseCorners
      /\ (Has("quot-interp")' <=> Has("quot-interp"))
    BY <1>1, Static DEF Has
  <2>2. QuotsAre(quot)' <=> QuotsAre(quot') BY <1>1, QuotsNext
  <2>3. QED BY <1>1, <1>2, <1>3, <2>1, <2>2 DEF QuotsServe
<1>5. QED BY <1>4

\* It always holds.
LEMMA QuotsHold ==
  TableSpec => []QuotsServe
<1>1. TableInit => QuotsServe BY DEF TableInit, QuotsServe
<1>2. TInv /\ QuotsServe /\ [TableNext]_tableVars => QuotsServe'
  <2> SUFFICES ASSUME TInv, QuotsServe, [TableNext]_tableVars PROVE QuotsServe' OBVIOUS
  <2>1. CASE Quotients BY <2>1, QuotientsHonour
  <2>2. CASE Boost \/ UNCHANGED tableVars
    <3>1. board' = board /\ fused' = fused /\ part' = part /\ quot' = quot
          /\ (stage' \in {"boost", "done"} => stage \in {"boost", "done"})
      BY <2>2 DEF Boost, tableVars
    <3>2. (QuotsAre(quot)' <=> QuotsAre(quot')) /\ (Has("quot-interp")' <=> Has("quot-interp"))
      BY <3>1, QuotsNext DEF Has
    <3>3. QED BY <3>1, <3>2 DEF QuotsServe
  <2>3. CASE Parse \/ FuseVoltages \/ OpenLoop \/ Limit
    BY <2>3 DEF Parse, FuseVoltages, OpenLoop, Limit, QuotsServe
  <2>4. CASE LimitFloor
    <3>1. board' = board /\ (stage' = "done" => board.npu)
          /\ stage' \in {"fuse", "done", "quot"}
      BY <2>4 DEF LimitFloor
    <3>2. QED BY <3>1 DEF QuotsServe
  <2>5. QED BY <2>1, <2>2, <2>3, <2>4 DEF TableNext
<1>3. QED BY <1>1, <1>2, TInvHolds, PTL DEF TableSpec

-----------------------------------------------------------------------------
(* The theorems.                                                           *)

\* Whatever the board and the fuses, the tables serve the controller.
THEOREM TablesCorrect ==
  TableSpec => []TablesServe
<1>1. TInv => TablesServe
  <2> SUFFICES ASSUME TInv, stage = "done", NEW c \in CornerSet
      PROVE  /\ floor[c] <= ol[c] /\ ol[c] <= ceiling[c]
             /\ floor[c] % board.step = 0 /\ ol[c] % board.step = 0
             /\ \/ \E d \in 1 .. c : ceiling[c] <= Round(board.ceiling[d])
                \/ Has("boost") /\ c = Len(board.floor) /\ ceiling[c] = board.boostCeiling
             /\ \A d \in 1 .. c : floor[d] <= floor[c] /\ (board.misc = <<>> => ol[d] <= ol[c])
    BY DEF TablesServe
  <2>1. Between(c) /\ Stepped(floor[c]) BY DEF TInv, Final, Limits
  <2>2. c \in 1 .. c
    <3>1. OnBoard BY DEF TInv, Typed
    <3>2. QED BY <3>1, BoardIs DEF CornerSet
  <2>3. \/ ceiling[c] <= Round(board.ceiling[c])
        \/ Has("boost") /\ c = Len(board.floor) /\ ceiling[c] = board.boostCeiling
    BY DEF TInv, Final
  <2>4. \A d \in 1 .. c : floor[d] <= floor[c] /\ (board.misc = <<>> => ol[d] <= ol[c])
    BY DEF TInv, Final
  <2>5. QED BY <2>1, <2>2, <2>3, <2>4 DEF Between, Stepped
<1>2. QED BY <1>1, TInvHolds, PTL

\* Whatever the board and the fuses, no corner gets a lower voltage than the fuses ask
\* for, nor, when none of the quotients wraps in its word, lower quotients.
THEOREM FusesCorrect ==
  TableSpec => []FuseHonoured
<1>1. QuotsServe => QuotHonoured BY DEF QuotsServe, QuotsAre, QuotHonoured
<1>2. TInv /\ HInv /\ QuotsServe => FuseHonoured BY <1>1, VoltsHonoured DEF FuseHonoured
<1>3. QED BY <1>2, TInvHolds, HInvHolds, QuotsHold, PTL
=============================================================================
