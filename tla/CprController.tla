---------------------------- MODULE CprController ----------------------------
(***************************************************************************)
(* The CPR controller at run time: drivers/regulator/cpr3-regulator.c with *)
(* the APSS driver (CPR4, software closed loop) or the NPU driver (CPR3,   *)
(* open loop), and the array power mux of drivers/power/qcom/apm.c.        *)
(* Several regulators, each at a corner of its own table, share one VDD    *)
(* supply.  Every request aggregates them and walks VDD to the new voltage *)
(* in separate writes, any of which may fail, stopping at the APM          *)
(* threshold to switch the mux.  In closed loop the CPR block asks for one *)
(* step up or down by an interrupt whose thread queues for the same lock.  *)
(*                                                                         *)
(* A voltage is a number of steps; the levels of the other supplies and    *)
(* the target quotients are numbered on the same scale, and all ring       *)
(* oscillators share a quotient.  Of the sdelta table only its spread is   *)
(* kept.  The drivers of this tree have one thread and no hardware closed  *)
(* loop, aging sensor or mem-acc threshold: those branches are left out.   *)
(*                                                                         *)
(* SwitchLate, SystemLast, UseCounted, NoQuot, DropBoth and LeaveDue are   *)
(* not the code: each is a definition below with one mistake.              *)
(***************************************************************************)
EXTENDS Integers, Sequences, FiniteSets

CONSTANTS
  Vregs,     \* the regulators of the controller's thread
  Table,     \* of each regulator, the sequence of its corners
  Configs,   \* the boards: a record of the Config set each
  MaxVolt,   \* the highest voltage
  Boot,      \* where the boot loader may have left VDD
  MaxModes,  \* bound: suspends and switches of closed_loop_enable
  MaxFaults  \* bound: calls to regulators, clocks and the mux that fail

Volts == 0 .. MaxVolt
Corner == [floor : Volts, ceil : Volts, ol : Volts, acc : Volts, sys : Volts, quot : Volts]
Config == [vregs : SUBSET Vregs, \* the regulators the board has
           cpr4 : BOOLEAN,   \* ctrl_type
           closed : BOOLEAN, \* cpr_allowed_sw once parsed: never set for the NPU
           thr : Volts,      \* apm_threshold_volt, 0 without a mux
           acc : BOOLEAN,    \* there is a mem_acc_regulator
           sys : BOOLEAN,    \* there is a system_regulator
           sdelta : BOOLEAN, \* the corners carry temperature adjustments
           boost : BOOLEAN,  \* the top corner of some regulator allows boost
           spread : Volts]   \* the most cpr3_regulator_max_sdelta_diff returns

ASSUME TableOK ==
  /\ Vregs # {} /\ {MaxVolt, MaxModes, MaxFaults} \subseteq Nat
  /\ Configs \subseteq Config /\ Boot \subseteq Volts
  /\ Table \in [Vregs -> Seq(Corner)]
  /\ \A v \in Vregs : \A i \in 1 .. Len(Table[v]) :
       Table[v][i].floor <= Table[v][i].ol /\ Table[v][i].ol <= Table[v][i].ceil
ASSUME VregsFinite == IsFiniteSet(Vregs)

VARIABLES
  conf,    \* the board
  corner,  \* current_corner of each regulator, 0 for CPR3_REGULATOR_CORNER_INVALID
  on,      \* the regulators with vreg_enabled
  counted, \* the regulators with aggregated set
  lastCl,  \* last_closed_loop_corner of each regulator
  last,    \* last_volt of each corner of each regulator
  cpr,     \* cpr_enabled, last_corner_was_closed_loop, cpr_allowed_sw, cpr_suspended,
           \* and how much of MaxModes is used up
  aggr,    \* ctrl->aggr_corner
  supply,  \* what the rails are set to; high: the mux is on its high supply
  refs,    \* references this driver holds on its two supplies
  chip,    \* the CPR block: loop enabled, interrupts, target quotient
  due,     \* the interrupt thread is to run
  job,     \* the handler that holds ctrl->lock, and how far it is
  next,    \* the aggregate that handler is to install
  plan,    \* the writes it still has to make
  faults,  \* how many calls have failed
  clean    \* no update has failed since the last that succeeded
vars == <<conf, corner, on, counted, lastCl, last, cpr, aggr, supply, refs, chip, due, job,
          next, plan, faults, clean>>

MaxOf(S) == IF S = {} THEN 0 ELSE CHOOSE x \in S : \A y \in S : y <= x
MinOf(x, y) == IF x <= y THEN x ELSE y
Corners(v) == 1 .. Len(Table[v])
Dirs == {"up", "down"}
NoAggr == [floor |-> 0, ceil |-> 0, last |-> 0, ol |-> 0, acc |-> 0, sys |-> 0, quot |-> 0,
           irq |-> {}, boost |-> FALSE]
Idle == [kind |-> "none", v |-> CHOOSE v \in Vregs : TRUE, old |-> 0, stage |-> "ok"]

Init ==
  /\ conf \in Configs
  /\ corner = [v \in Vregs |-> 0] /\ on = {} /\ counted = {}
  /\ lastCl = corner
  /\ last = [v \in Vregs |-> [c \in Corners(v) |-> Table[v][c].ol]]
  /\ cpr = [enabled |-> FALSE, was |-> FALSE, allowed |-> conf.closed, suspended |-> FALSE,
            modes |-> 0]
  /\ \E vdd \in Boot :
       supply = [vdd |-> vdd, high |-> vdd >= conf.thr, acc |-> 0, sys |-> 0]
  /\ refs = [vdd |-> 0, sys |-> 0]
  /\ chip = [loop |-> FALSE, irqEn |-> {}, pending |-> "none", quot |-> 0] /\ due = FALSE
  /\ aggr = NoAggr /\ next = NoAggr /\ job = Idle /\ plan = <<>>
  /\ faults = 0 /\ clean = TRUE

-----------------------------------------------------------------------------
(* The walk of VDD from one voltage to another. *)

Write(what, val, back) == [what |-> what, val |-> val, back |-> back]

(* config_voltage_crossings: VDD and the threshold are on different sides. *)
Crosses(from, to) ==
  /\ conf.thr > 0
  /\ \/ from < conf.thr /\ conf.thr <= to
     \/ from >= conf.thr /\ conf.thr > to

SystemWrites(a) == IF conf.sys THEN <<Write("sys", a.sys, 0)>> ELSE <<>>
AccWrites(a) == IF conf.acc /\ a.acc # 0 THEN <<Write("acc", a.acc, 0)>> ELSE <<>>

(* The mux switched after VDD has arrived. *)
SwitchLate(from, to) == <<Write("vdd", to, 0), Write("apm", to, from)>>
SwitchApm(from, to) == <<Write("vdd", conf.thr, 0), Write("apm", to, from)>>

(* The system supply always last. *)
SystemLast(from, to, a) ==
  AccWrites(a) \o (IF Crosses(from, to) THEN SwitchApm(from, to) ELSE <<>>)
    \o <<Write("vdd", to, 0)>> \o SystemWrites(a)

Scale(from, to, a) ==
  LET at == IF Crosses(from, to) THEN conf.thr ELSE from IN
  (IF to < from THEN AccWrites(a) ELSE SystemWrites(a))
    \o (IF Crosses(from, to) THEN SwitchApm(from, to) ELSE <<>>)
    \o <<Write("vdd", to, 0)>>
    \o (IF to >= at THEN AccWrites(a) ELSE SystemWrites(a))

(* One write of the plan takes effect. *)
Applied(w) ==
  CASE w.what = "vdd" -> [supply EXCEPT !.vdd = w.val]
    [] w.what = "apm" -> [supply EXCEPT !.high = w.val >= conf.thr]
    [] w.what = "acc" -> [supply EXCEPT !.acc = w.val]
    [] w.what = "sys" -> [supply EXCEPT !.sys = w.val]

MakeWrite ==
  /\ job.stage = "scale" /\ plan # <<>>
  /\ supply' = Applied(Head(plan))
  /\ plan' = Tail(plan)
  /\ UNCHANGED <<conf, corner, on, counted, lastCl, last, cpr, aggr, refs, chip, due, job,
                 next, faults, clean>>

(* A write fails.  The mux is given its mode before its status is polled,  *)
(* so after a timeout it may have switched all the same; VDD is set back   *)
(* to where it was and the result of that write is not looked at.          *)
WriteFails ==
  /\ job.stage = "scale" /\ plan # <<>> /\ faults < MaxFaults
  /\ LET w == Head(plan) IN
       IF w.what = "apm"
       THEN \E high \in {supply.high, w.val >= conf.thr}, vdd \in {supply.vdd, w.back} :
              supply' = [supply EXCEPT !.high = high, !.vdd = vdd]
       ELSE UNCHANGED supply
  /\ job' = [job EXCEPT !.stage = "failed"]
  /\ plan' = <<>> /\ faults' = faults + 1 /\ clean' = FALSE
  /\ UNCHANGED <<conf, corner, on, counted, lastCl, last, cpr, aggr, refs, chip, due, next>>

-----------------------------------------------------------------------------
(* _cpr3_regulator_update_ctrl_state: stage "update", then "scale". *)

Valid == {v \in on : corner[v] # 0}
At(v) == Table[v][corner[v]]

(* The sdelta of the aggregate is in use: its margins are programmed. *)
Sdelta(a) == conf.cpr4 /\ (conf.sdelta \/ a.boost) /\ a.ceil > 0

Boosting(v) == conf.boost /\ corner[v] = Len(Table[v])

AggrOf(S) ==
  [floor |-> MaxOf({At(v).floor : v \in S}), ceil |-> MaxOf({At(v).ceil : v \in S}),
   last |-> MaxOf({last[v][corner[v]] : v \in S}),
   ol |-> MaxOf({At(v).ol : v \in S}), acc |-> MaxOf({At(v).acc : v \in S}),
   sys |-> MaxOf({At(v).sys : v \in S}), quot |-> MaxOf({At(v).quot : v \in S}),
   irq |-> Dirs, boost |-> \E v \in S : Boosting(v)]

(* Who took part in the last update takes part in this one. *)
UseCounted == AggrOf(IF counted = {} THEN Valid ELSE Valid \cap counted)
Aggregate == AggrOf(Valid)

(* cpr3_ctrl_loop_disable writes the register only while CPR is enabled. *)
Stopped == [chip EXCEPT !.loop = chip.loop /\ ~cpr.enabled]

(* What goes wrong before anything is aggregated: the clocks for clearing  *)
(* the CPR4 margins, or reading VDD.                                       *)
UpdateFails ==
  /\ job.stage = "update" /\ faults < MaxFaults
  /\ \/ ~cpr.enabled /\ Sdelta(aggr) /\ UNCHANGED chip
     \/ chip' = Stopped
  /\ job' = [job EXCEPT !.stage = "failed"]
  /\ faults' = faults + 1 /\ clean' = FALSE
  /\ UNCHANGED <<conf, corner, on, counted, lastCl, last, cpr, aggr, supply, refs, due, next, plan>>

(* cpr3_closed_loop_enable needs the clocks. *)
ClocksFail ==
  /\ job.stage = "update" /\ faults < MaxFaults
  /\ Valid # {} /\ cpr.allowed /\ ~cpr.enabled /\ ~cpr.suspended
  /\ counted' = Valid
  /\ job' = [job EXCEPT !.stage = "failed"]
  /\ faults' = faults + 1 /\ clean' = FALSE
  /\ UNCHANGED <<conf, corner, on, lastCl, last, cpr, aggr, supply, refs, chip, due, next, plan>>

Enabled == Valid # {} /\ cpr.allowed /\ (cpr.enabled \/ ~cpr.suspended)

NewVolts(a) ==
  IF ~(Enabled /\ cpr.was) THEN {a.ol}
  ELSE IF conf.cpr4
  THEN {MinOf(a.last + d, a.ceil) : d \in IF conf.sdelta \/ a.boost THEN 0 .. conf.spread ELSE {0}}
  ELSE {a.last}

(* The regulators are aggregated and the walk to the new voltage laid out; *)
(* without a regulator at a corner CPR is switched off and that is all.    *)
Update ==
  /\ job.stage = "update"
  /\ chip' = Stopped
  /\ counted' = Valid
  /\ cpr' = [cpr EXCEPT !.enabled = Enabled]
  /\ IF Valid = {}
     THEN /\ job' = [job EXCEPT !.stage = "ok"]
          /\ UNCHANGED <<next, plan>>
     ELSE /\ \E new \in NewVolts(Aggregate) :
               /\ next' = [Aggregate EXCEPT !.last = new]
               /\ plan' = Scale(supply.vdd, new, Aggregate)
          /\ job' = [job EXCEPT !.stage = "scale"]
  /\ UNCHANGED <<conf, corner, on, lastCl, last, aggr, supply, refs, due, faults, clean>>

(* What the block is programmed with, the target quotient left out. *)
NoQuot(a) == [loop |-> chip.loop, pending |-> "none", quot |-> chip.quot, irqEn |-> a.irq]
Programmed(a) ==
  [loop |-> chip.loop, pending |-> "none", quot |-> a.quot,
   irqEn |-> a.irq \ ((IF a.last = a.floor THEN {"down"} ELSE {}) \cup
                      (IF a.last = a.ceil THEN {"up"} ELSE {}))]

(* The walk is over and, with CPR enabled, the block is programmed.        *)
(* Unless the clocks for the margins fail the loop runs again, if there is *)
(* more than one voltage to choose from.                                   *)
Commit ==
  /\ job.stage = "scale" /\ plan = <<>> /\ job.kind # "irq"
  /\ LET set == IF cpr.enabled THEN Programmed(next) ELSE chip IN
       /\ lastCl' = [v \in Vregs |-> IF cpr.enabled /\ v \in on THEN corner[v] ELSE lastCl[v]]
       /\ aggr' = [next EXCEPT !.irq = IF cpr.enabled THEN set.irqEn ELSE next.irq]
       /\ \/ /\ chip' = [set EXCEPT !.loop = set.loop
                                      \/ (cpr.enabled /\ next.ceil > next.floor /\ ~next.boost)]
             /\ cpr' = [cpr EXCEPT !.was = cpr.enabled]
             /\ job' = [job EXCEPT !.stage = "ok"]
             /\ clean' = TRUE
             /\ UNCHANGED faults
          \/ /\ ~cpr.enabled /\ Sdelta(next) /\ faults < MaxFaults
             /\ chip' = set
             /\ job' = [job EXCEPT !.stage = "failed"]
             /\ faults' = faults + 1 /\ clean' = FALSE
             /\ UNCHANGED cpr
  /\ UNCHANGED <<conf, corner, on, counted, last, supply, refs, due, next, plan>>

-----------------------------------------------------------------------------
(* The regulator operations and the other callers of an update. *)

Take(kind, v, old) ==
  /\ job.kind = "none"
  /\ job' = [kind |-> kind, v |-> v, old |-> old, stage |-> "update"]

(* cpr3_regulator_set_voltage: only stored while the regulator is off. *)
SetVoltage ==
  /\ job.kind = "none"
  /\ \E v \in conf.vregs : \E c \in Corners(v) :
       /\ c # corner[v]
       /\ corner' = [corner EXCEPT ![v] = c]
       /\ IF v \in on THEN Take("set", v, corner[v]) ELSE UNCHANGED job
  /\ UNCHANGED <<conf, on, counted, lastCl, last, cpr, aggr, supply, refs, chip, due, next, plan,
                 faults, clean>>

SysRef == IF conf.sys THEN 1 ELSE 0

(* cpr3_regulator_enable; when the second supply fails the first keeps its *)
(* reference.                                                              *)
EnableVreg ==
  /\ job.kind = "none"
  /\ \E v \in conf.vregs \ on :
       \/ /\ refs' = [vdd |-> refs.vdd + 1, sys |-> refs.sys + SysRef]
          /\ on' = on \cup {v}
          /\ Take("enable", v, corner[v])
          /\ UNCHANGED faults
       \/ /\ faults < MaxFaults
          /\ \E got \in {0, SysRef} : refs' = [refs EXCEPT !.sys = refs.sys + got]
          /\ faults' = faults + 1
          /\ UNCHANGED <<on, job>>
  /\ UNCHANGED <<conf, corner, counted, lastCl, last, cpr, aggr, supply, chip, due, next, plan, clean>>

(* cpr3_regulator_disable *)
DisableVreg ==
  /\ job.kind = "none"
  /\ \E v \in on :
       \/ /\ refs' = [refs EXCEPT !.vdd = refs.vdd - 1]
          /\ on' = on \ {v}
          /\ Take("disable", v, corner[v])
          /\ UNCHANGED faults
       \/ faults < MaxFaults /\ faults' = faults + 1 /\ UNCHANGED <<refs, on, job>>
  /\ UNCHANGED <<conf, corner, counted, lastCl, last, cpr, aggr, supply, chip, due, next, plan, clean>>

(* The APSS driver's suspend: CPR off, VDD left where the loop had it. *)
Suspend ==
  /\ job.kind = "none" /\ conf.cpr4 /\ ~cpr.suspended /\ cpr.modes < MaxModes
  /\ \/ /\ chip' = Stopped
        /\ cpr' = [cpr EXCEPT !.enabled = FALSE, !.suspended = TRUE, !.modes = cpr.modes + 1]
        /\ UNCHANGED faults
     \/ /\ ~cpr.enabled /\ Sdelta(aggr) /\ faults < MaxFaults
        /\ faults' = faults + 1 /\ UNCHANGED <<chip, cpr>>
  /\ UNCHANGED <<conf, corner, on, counted, lastCl, last, aggr, supply, refs, due, job, next, plan,
                 clean>>

Resume ==
  /\ cpr.suspended
  /\ cpr' = [cpr EXCEPT !.suspended = FALSE]
  /\ Take("resume", job.v, 0)
  /\ UNCHANGED <<conf, corner, on, counted, lastCl, last, aggr, supply, refs, chip, due, next, plan,
                 faults, clean>>

(* Writing cpr_closed_loop_enable in debugfs, which the NPU has not. *)
ToggleClosedLoop ==
  /\ conf.cpr4 /\ cpr.modes < MaxModes
  /\ cpr' = [cpr EXCEPT !.allowed = ~cpr.allowed, !.modes = cpr.modes + 1]
  /\ Take("toggle", job.v, 0)
  /\ UNCHANGED <<conf, corner, on, counted, lastCl, last, aggr, supply, refs, chip, due, next, plan,
                 faults, clean>>

(* What a handler gives back once its update is over: a failed enable or   *)
(* disable undoes what it did to VDD, a disable drops the system supply,   *)
(* which DropBoth does even when it failed.                                *)
DropBoth ==
  IF job.kind = "disable" THEN [refs EXCEPT !.sys = refs.sys - SysRef] ELSE refs
GiveBack ==
  CASE job.kind = "enable" /\ job.stage = "failed" -> [refs EXCEPT !.vdd = refs.vdd - 1]
    [] job.kind = "disable" /\ job.stage = "failed" -> [refs EXCEPT !.vdd = refs.vdd + 1]
    [] job.kind = "disable" /\ job.stage = "ok" -> [refs EXCEPT !.sys = refs.sys - SysRef]
    [] OTHER -> refs

Release == job' = Idle /\ next' = NoAggr /\ UNCHANGED plan

(* A failed update puts back the corner, or the on state; the result of    *)
(* what is then done to the supplies is not looked at.                     *)
Return ==
  /\ job.stage \in {"ok", "failed"} /\ job.kind \in {"set", "enable", "disable", "resume", "toggle"}
  /\ corner' = IF job.kind = "set" /\ job.stage = "failed"
               THEN [corner EXCEPT ![job.v] = job.old] ELSE corner
  /\ on' = CASE job.stage = "failed" /\ job.kind = "enable" -> on \ {job.v}
             [] job.stage = "failed" /\ job.kind = "disable" -> on \cup {job.v}
             [] OTHER -> on
  /\ \/ refs' = GiveBack /\ UNCHANGED faults
     \/ GiveBack # refs /\ faults < MaxFaults /\ faults' = faults + 1 /\ UNCHANGED refs
  /\ Release
  /\ UNCHANGED <<conf, counted, lastCl, last, cpr, aggr, supply, chip, due, clean>>

-----------------------------------------------------------------------------
(* The interrupt. *)

(* The CPR block found VDD too low or too high; the loop then waits for an *)
(* answer.  With both bits set the handler drops "down".                   *)
HwRaise ==
  /\ chip.loop /\ chip.pending = "none"
  /\ \E d \in Dirs : /\ d \in chip.irqEn \/ (d = "up" /\ chip.irqEn # {})
                     /\ chip' = [chip EXCEPT !.pending = d]
  /\ due' = TRUE
  /\ UNCHANGED <<conf, corner, on, counted, lastCl, last, cpr, aggr, supply, refs, job, next, plan,
                 faults, clean>>

Answered == [chip EXCEPT !.pending = "none"]

(* Nothing is done while CPR is off, not even the interrupt dismissed. *)
LeaveDue == due /\ cpr.enabled
Taken == due

(* CPR is off, or no bit is set because an update cleared it first: the    *)
(* loop is switched off and on again.  A busy thread is answered with NACK *)
IrqSpurious ==
  /\ job.kind = "none" /\ Taken
  /\ due' = FALSE
  /\ CASE ~cpr.enabled -> UNCHANGED chip
       [] cpr.enabled /\ chip.pending = "none" -> chip' = [chip EXCEPT !.loop = ~aggr.boost]
       [] OTHER -> chip' = Answered
  /\ UNCHANGED <<conf, corner, on, counted, lastCl, last, cpr, aggr, supply, refs, job, next, plan,
                 faults, clean>>

Toward(v, up) == MinOf(MaxOf({aggr.floor, IF up THEN v + 1 ELSE v - 1}), aggr.ceil)

(* One step up or down from the last voltage, within the range of the      *)
(* aggregate; a limit that is hit masks its interrupt.                     *)
Irq ==
  /\ job.kind = "none" /\ Taken /\ cpr.enabled /\ chip.pending # "none"
  /\ due' = FALSE
  /\ LET up == chip.pending = "up"
         new == Toward(aggr.last, up)
         hit == new # (IF up THEN aggr.last + 1 ELSE aggr.last - 1)
         en == (aggr.irq \cup (IF up THEN {"down"} ELSE {"up"}))
                 \ (IF hit THEN (IF up THEN {"up"} ELSE {"down"}) ELSE {})
     IN /\ next' = [aggr EXCEPT !.last = new, !.irq = en]
        /\ plan' = IF new = aggr.last THEN <<>> ELSE Scale(aggr.last, new, aggr)
  /\ job' = [Idle EXCEPT !.kind = "irq", !.stage = "scale"]
  /\ UNCHANGED <<conf, corner, on, counted, lastCl, last, cpr, aggr, supply, refs, chip, faults, clean>>

(* cpr3_update_vreg_closed_loop_volt: the corner programmed last remembers *)
(* the voltage its loop settled at.                                        *)
Settled(v, volt) ==
  IF lastCl[v] # 0 /\ v \in counted /\ cpr.enabled /\ cpr.was
     /\ volt \in Table[v][lastCl[v]].floor .. Table[v][lastCl[v]].ceil
  THEN [last[v] EXCEPT ![lastCl[v]] = volt] ELSE last[v]

IrqDone ==
  /\ job.kind = "irq"
  /\ \/ /\ job.stage = "scale" /\ plan = <<>>
        /\ last' = IF next.last = aggr.last THEN last
                   ELSE [v \in Vregs |-> Settled(v, next.last)]
        /\ aggr' = next
        /\ chip' = [Answered EXCEPT !.irqEn = IF next.irq = aggr.irq THEN chip.irqEn ELSE next.irq]
     \/ /\ job.stage = "failed" /\ chip' = Answered /\ UNCHANGED <<last, aggr>>
  /\ Release
  /\ UNCHANGED <<conf, corner, on, counted, lastCl, cpr, supply, refs, due, faults, clean>>

-----------------------------------------------------------------------------
Locked == \/ Update \/ UpdateFails \/ ClocksFail \/ MakeWrite \/ WriteFails \/ Commit \/ Return
          \/ IrqDone
Next == \/ Locked \/ SetVoltage \/ EnableVreg \/ DisableVreg \/ Suspend \/ Resume
        \/ ToggleClosedLoop \/ HwRaise \/ IrqSpurious \/ Irq

(* A handler runs to its end; the mutex serves its waiters in order, so    *)
(* the interrupt thread gets it however many requests come.                *)
Fairness == WF_vars(Locked) /\ SF_vars(IrqSpurious \/ Irq)
Spec == Init /\ [][Next]_vars /\ Fairness

-----------------------------------------------------------------------------
Aggr == [floor : Volts, ceil : Volts, last : Volts, ol : Volts, acc : Volts, sys : Volts,
         quot : Volts, irq : SUBSET Dirs, boost : BOOLEAN]
Writes == [what : {"vdd", "apm", "acc", "sys"}, val : Volts, back : Volts]
Kinds == {"none", "set", "enable", "disable", "resume", "toggle", "irq"}

(* Every variable has its type; no voltage asked for lies outside the      *)
(* range of the tables.                                                    *)
TypeOK ==
  /\ conf \in Configs
  /\ corner \in [Vregs -> Nat] /\ lastCl \in [Vregs -> Nat]
  /\ \A v \in Vregs : {corner[v], lastCl[v]} \subseteq {0} \cup Corners(v)
  /\ on \subseteq Vregs /\ counted \subseteq Vregs
  /\ DOMAIN last = Vregs /\ \A v \in Vregs : last[v] \in [Corners(v) -> Volts]
  /\ cpr \in [enabled : BOOLEAN, was : BOOLEAN, allowed : BOOLEAN, suspended : BOOLEAN,
             modes : 0 .. MaxModes]
  /\ aggr \in Aggr /\ next \in Aggr
  /\ supply \in [vdd : Volts, high : BOOLEAN, acc : Volts, sys : Volts]
  /\ refs \in [vdd : Int, sys : Int]
  /\ chip \in [loop : BOOLEAN, irqEn : SUBSET Dirs, pending : Dirs \cup {"none"}, quot : Volts]
  /\ due \in BOOLEAN
  /\ job \in [kind : Kinds, v : Vregs, old : Nat, stage : {"update", "scale", "ok", "failed"}]
  /\ job.old \in {0} \cup Corners(job.v)
  /\ plan \in Seq(Writes)
  /\ faults \in 0 .. MaxFaults /\ clean \in BOOLEAN

(* As long as nothing fails the memory arrays are never fed by the wrong   *)
(* rail: at every write of a walk, and at every step of the loop, the mux  *)
(* is on the high supply only at or above the threshold and on the low one *)
(* only at or below it.                                                    *)
ApmSafe ==
  faults = 0 /\ conf.thr > 0 =>
    IF supply.high THEN supply.vdd >= conf.thr ELSE supply.vdd <= conf.thr

(* The voltage remembered for a corner is one the corner allows, whatever  *)
(* corner was current when the loop settled and whatever failed.           *)
LastInRange ==
  \A v \in Vregs : \A c \in Corners(v) : last[v][c] \in Table[v][c].floor .. Table[v][c].ceil

(* Once an update has succeeded, and until one fails, VDD suits every      *)
(* regulator that is on whenever no handler runs: it is no lower than the  *)
(* floor of any corner in use and no higher than the highest ceiling.  And *)
(* what is remembered for corners will suit the regulators when it is used *)
(* again.                                                                  *)
Enough ==
  /\ LastInRange
  /\ job.kind = "none" /\ clean /\ Valid # {} =>
       /\ \A v \in Valid : At(v).floor <= supply.vdd
       /\ \E v \in Valid : supply.vdd <= At(v).ceil

(* The loop does not run on stale targets, though an interrupt thread that *)
(* finds no bit set switches it on: while it runs, no handler does and no  *)
(* update has failed since the last success, CPR is enabled and not        *)
(* suspended, and the target quotient serves every regulator that is on.   *)
LoopServes ==
  chip.loop /\ job.kind = "none" /\ clean =>
    cpr.enabled /\ ~cpr.suspended /\ \A v \in Valid : At(v).quot <= chip.quot

(* A regulator that is on has its supplies, through every failure that is  *)
(* undone: references are lost only when undoing fails too.                *)
SuppliesHeld ==
  job.kind = "none" => /\ conf.sys => refs.sys >= Cardinality(on)
                       /\ faults <= 1 => refs.vdd >= Cardinality(on)

(* VDD rises only once the system supply is at what the new corner needs,  *)
(* and falls only once the memory accelerator is at what the new one       *)
(* allows; the system supply does not fall while VDD is still above its    *)
(* target, nor the accelerator rise while it is still below.               *)
RailOrder == [][
  clean /\ clean' =>
    /\ supply'.vdd > supply.vdd /\ conf.sys => supply.sys >= next.sys
    /\ supply'.vdd < supply.vdd /\ conf.acc /\ next.acc # 0 => supply.acc <= next.acc
    /\ supply'.sys < supply.sys => supply.vdd <= next.last
    /\ supply'.acc > supply.acc => supply.vdd >= next.last]_vars

(* An interrupt is taken, however busy the lock is. *)
IrqTaken == due ~> ~due
=============================================================================
