--------------------------------- MODULE Dcc ----------------------------------
(***************************************************************************)
(* The data capture engine as users of drivers/soc/qcom/dcc_v2.c see it:   *)
(* lists that are filled, enabled, triggered, disabled and reset through   *)
(* sysfs.  Users add registers to read, to write or to modify, and loops;  *)
(* the program made of a list must do exactly that.  Enabling puts the     *)
(* program of each list and then the space for what it captures into the   *)
(* SRAM, one list after the other from ram_cfg on.  Every file takes the   *)
(* driver's mutex, so a store is one step.                                 *)
(*                                                                         *)
(* A word of the SRAM is Clear (memset_io), Captured, or of the program of *)
(* the list l: which word of it follows from its place.  The engine's      *)
(* status, interrupts and triggers by other hardware are left out.         *)
(*                                                                         *)
(* A board has its number of lists and its SRAM, and the bounds on what    *)
(* its users do.                                                           *)
(*                                                                         *)
(* NoSpace and ClearsAlways are not the code: each is a definition below   *)
(* with one mistake.                                                       *)
(***************************************************************************)
EXTENDS DccProgram, FiniteSets, FiniteSetsExt

\* The boards, each a record with
\*   lists:       nr_link_list
\*   ram:         ram_size in words
\*   reads:       what users read: <<address, length, bus>>
\*   writes:      what users write: <<address, bus>>
\*   writesLater: TRUE: they write after they have read, too
\*   mixesBus:    TRUE: they read on one bus right behind a register read on the other, too
\*   loops:       how often they repeat
\*   runs:        TRUE: they enable lists, FALSE: they only fill them
\*   resetsAtRun: TRUE: they reset the configuration while lists are enabled
\*   max:         bound: what they add to all lists
CONSTANT Boards

ASSUME BoardsOK == \A b \in Boards : b.lists > 0 /\ b.ram > 0

VARIABLES
  board,      \* the board
  cfg,        \* cfg_head
  asked,      \* history: what users asked for, in order, of each list
  func, sink, \* func_type, data_sink of each list
  curr,       \* curr_list
  enable, locked,   \* enable[], and DCC_LL_LOCK
  ramCfg, ramStart, \* ram_cfg, ram_start
  base, fd,   \* DCC_LL_BASE and DCC_FD_BASE of each list
  sram,       \* the SRAM
  room,       \* history: how much each enabled list captures
  sent,       \* history: enabled lists that were sent the triggers of __dcc_first_crc
  over        \* history: a list overstepped the SRAM since the last one was disabled
listVars == <<board, cfg, asked, func, sink, curr>>
runVars == <<enable, locked, ramCfg, ramStart, base, fd, sram, room, sent, over>>
vars == <<listVars, runVars>>

Lists == 0 .. board.lists - 1
Unset == board.lists  \* DCC_INVALID_LINK_LIST, above any list
Enabled == {l \in Lists : enable[l]}
Captures(l) == func[l] = "cap" /\ sink[l] = "sram"

---------------------------------------------------------------------------
(* Filling a list                                                          *)

\* Another list cannot be chosen while one is enabled, nor one that is locked.
SetCurr(l) ==
  /\ curr = Unset \/ Enabled = {}
  /\ ~locked[l]
  /\ curr' = l
  /\ UNCHANGED <<board, cfg, asked, func, sink, runVars>>

Chosen == curr \in Lists
SetFunc(f) ==
  /\ board.runs /\ Chosen /\ ~enable[curr]
  /\ func' = [func EXCEPT ![curr] = f]
  /\ UNCHANGED <<board, cfg, asked, sink, curr, runVars>>
SetSink(s) ==
  /\ board.runs /\ Chosen /\ ~enable[curr]
  /\ sink' = [sink EXCEPT ![curr] = s]
  /\ UNCHANGED <<board, cfg, asked, func, curr, runVars>>

\* A user asks for a, and the entries become those given.
Fill(a, entries) ==
  /\ Chosen /\ MapThenSumSet(LAMBDA l : Len(asked[l]), Lists) < board.max
  /\ cfg' = [cfg EXCEPT ![curr] = entries]
  /\ asked' = [asked EXCEPT ![curr] = Append(@, a)]
  /\ UNCHANGED <<board, func, sink, curr, runVars>>
HasRead(l) == \E k \in DOMAIN asked[l] : asked[l][k][1] = "read"
\* The registers of r follow those read last, which are on the other bus.
Crosses(r) ==
  cfg[curr] # <<>> /\ LET p == Final(cfg[curr]) IN
                      p.type = "read" /\ p.apb # r[3] /\ p.base + p.off + p.len = r[1]
\* dcc_config_add refuses more than half of the SRAM.
AddRead(r) ==
  /\ r[2] <= board.ram \div 2 /\ (board.mixesBus \/ ~Crosses(r))
  /\ Fill(<<"read", r>>, ConfigAdd(cfg[curr], r[1], r[2], r[3]))
AddWrite(w) ==
  /\ board.writesLater \/ ~HasRead(curr)
  /\ Fill(<<"write", w>>, Append(cfg[curr], Write(w[1], w[2])))
AddLoop(n) == Fill(<<"loop", n>>, Append(cfg[curr], Loop(n)))
\* dcc_rd_mod_wr_add refuses an empty list.  Users modify a register they have named.
AddRmw ==
  /\ cfg[curr] # <<>> /\ \E k \in DOMAIN asked[curr] : asked[curr][k][1] # "loop"
  /\ Fill(<<"rmw">>, Append(cfg[curr], Rmw))

\* dcc_config_reset empties every list and forgets what the SRAM holds.
ConfigReset ==
  /\ board.resetsAtRun \/ Enabled = {}
  /\ cfg' = [l \in Lists |-> <<>>] /\ asked' = [l \in Lists |-> <<>>]
  /\ ramCfg' = 0 /\ ramStart' = 0
  /\ UNCHANGED <<board, func, sink, curr, enable, locked, base, fd, sram, room, sent, over>>

---------------------------------------------------------------------------
(* Enabling                                                                *)

Clear == board.lists
Captured == board.lists + 1
Words == 0 .. board.ram - 1
Memset == [i \in Words |-> Clear]
Filled(ram, from, n, v) == [i \in Words |-> IF i \in from .. from + n - 1 THEN v ELSE ram[i]]

ClearsAlways == TRUE
ClearsFirst == Enabled = {}
\* A run of dcc_enable: what it has changed so far, and whether it goes on.
Run0 == [enable |-> enable, locked |-> locked, ramCfg |-> ramCfg, ramStart |-> ramStart,
         base |-> base, fd |-> fd, room |-> room, sent |-> sent, over |-> over, on |-> TRUE,
         sram |-> IF ClearsFirst THEN Memset ELSE sram]

Fail(s, l) == [s EXCEPT !.locked[l] = FALSE, !.on = FALSE]
\* The whole SRAM is cleared when a list does not fit.
Overstep(s, l) == [Fail(s, l) EXCEPT !.sram = Memset, !.over = TRUE]

NoSpace(l, p) == 0
Space(l, p) == IF Captures(l) THEN p.total ELSE 0

\* A trigger makes the engine run a list, which fills its space.
Run(s, ls) ==
  LET space == UNION {s.fd[l] .. s.fd[l] + s.room[l] - 1 : l \in {k \in ls : s.enable[k]}}
  IN [i \in Words |-> IF i \in space THEN Captured ELSE s.sram[i]]

\* The two triggers that clear the CRC error go to the chosen list, whichever is enabled.
FirstCrc(s, l) ==
  IF func[l] # "crc" THEN s ELSE [s EXCEPT !.sent = @ \cup {curr}, !.sram = Run(s, {curr})]

Fits(end) == end <= board.ram
\* p is the program of the list.
EnableList(s, l, p) ==
  LET end == s.ramCfg + Len(p.words)
      next == end + Space(l, p)
  IN IF ~Fits(end) THEN Overstep(s, l)
     ELSE IF ~p.ok THEN [Fail(s, l) EXCEPT !.sram = Filled(@, s.ramCfg, Len(p.words), l)]
     ELSE IF ~Fits(next) THEN [Overstep(s, l) EXCEPT !.ramCfg = next]
     ELSE FirstCrc([s EXCEPT !.sram = Filled(@, s.ramCfg, Len(p.words), l),
                             !.ramCfg = next, !.ramStart = end,
                             !.base[l] = s.ramCfg, !.fd[l] = end,
                             !.locked[l] = TRUE, !.enable[l] = TRUE,
                             !.room[l] = IF Captures(l) THEN p.total ELSE 0], l)

\* Empty, enabled and locked lists are passed over; the first failure ends the run.
Valid(s, l) == s.on /\ cfg[l] # <<>> /\ ~s.enable[l] /\ ~s.locked[l]
Enable ==
  /\ board.runs
  /\ \E prog \in {[l \in Lists |-> Program(cfg[l])]} :
     \E s \in {FoldLeft(LAMBDA r, l : IF Valid(r, l) THEN EnableList(r, l, prog[l]) ELSE r,
                       Run0, [k \in 1 .. board.lists |-> k - 1])} :
       /\ enable' = s.enable /\ locked' = s.locked
       /\ ramCfg' = s.ramCfg /\ ramStart' = s.ramStart
       /\ base' = s.base /\ fd' = s.fd /\ sram' = s.sram
       /\ room' = s.room /\ sent' = s.sent /\ over' = s.over
  /\ UNCHANGED listVars

Zeroed(reg) == [l \in Lists |-> IF enable[l] THEN 0 ELSE reg[l]]
Disable ==
  /\ board.runs
  /\ enable' = [l \in Lists |-> FALSE]
  /\ locked' = [l \in Lists |-> locked[l] /\ ~enable[l]]
  /\ base' = Zeroed(base) /\ fd' = Zeroed(fd)
  /\ room' = [l \in Lists |-> 0] /\ sent' = {} /\ over' = FALSE
  /\ sram' = Memset /\ ramCfg' = 0 /\ ramStart' = 0
  /\ UNCHANGED listVars

Trigger ==
  /\ board.runs
  /\ sram' = Run([Run0 EXCEPT !.sram = sram], Enabled)
  /\ UNCHANGED <<listVars, enable, locked, ramCfg, ramStart, base, fd, room, sent, over>>

---------------------------------------------------------------------------
Init ==
  /\ board \in Boards
  /\ cfg = [l \in Lists |-> <<>>] /\ asked = [l \in Lists |-> <<>>]
  /\ func = [l \in Lists |-> "cap"] /\ sink = [l \in Lists |-> "sram"]
  /\ curr = Unset
  /\ enable = [l \in Lists |-> FALSE] /\ locked = [l \in Lists |-> FALSE]
  /\ ramCfg = 0 /\ ramStart = 0
  /\ base = [l \in Lists |-> 0] /\ fd = [l \in Lists |-> 0]
  /\ sram = Memset
  /\ room = [l \in Lists |-> 0] /\ sent = {} /\ over = FALSE

Next ==
  \/ \E l \in Lists : SetCurr(l)
  \/ \E f \in {"cap", "crc"} : SetFunc(f)
  \/ \E s \in {"sram", "atb"} : SetSink(s)
  \/ Chosen /\ \E r \in board.reads : AddRead(r)
  \/ Chosen /\ \E w \in board.writes : AddWrite(w)
  \/ Chosen /\ AddRmw
  \/ Chosen /\ \E n \in board.loops : AddLoop(n)
  \/ ConfigReset \/ Enable \/ Disable \/ Trigger
Spec == Init /\ [][Next]_vars

---------------------------------------------------------------------------
\* What the user of a list means: each register in the order asked for, a
\* read-modify-write on the register before it, and what stands between two loops as
\* often as the first says, or MaxLoop times.
Mean(s, a) ==
  CASE a[1] = "read" ->
         [s EXCEPT !.acts = @ \o [k \in 1 .. a[2][2] |-> <<"read", a[2][1] + k - 1, a[2][3]>>]]
    [] a[1] = "write" -> [s EXCEPT !.acts = Append(@, <<"write", a[2][1], a[2][2]>>)]
    [] a[1] = "rmw" -> [s EXCEPT !.acts = Append(@, <<"rmw", Final(@)[2], Final(@)[3]>>)]
    [] a[1] = "loop" /\ ~s.open ->
         [s EXCEPT !.open = TRUE, !.times = Smaller(a[2], MaxLoop), !.from = Len(s.acts)]
    [] a[1] = "loop" /\ s.open ->
         LET body == SubSeq(s.acts, s.from + 1, Len(s.acts)) IN
         [s EXCEPT !.open = FALSE, !.acts = SubSeq(@, 1, s.from)
                                            \o FlattenSeq([k \in 1 .. s.times |-> body])]
Meaning(l) == FoldLeft(Mean, [acts |-> <<>>, open |-> FALSE, times |-> 0, from |-> 0], asked[l])

\* Two entries that follow each other, the second at an offset that no pair can hold
\* from the base on, or from where the first ends.
TooFar(e, d) ==
  /\ e.type = "read" /\ d.type = "read" /\ d.off > MaxOffset
  /\ e.base # d.base \/ e.apb # d.apb \/ e.off + e.len - 1 > d.off

\* The engine does what the user of a list asked for: every register, on its bus, no
\* other, in order and as often, however entries were merged or split and whichever
\* words were left out, and it captures as much as is set aside for it.  A list has no
\* program only for a loop without an end or an offset that is too far.  So it is on
\* boards whose users write before they read, loop at least once and do not cross from
\* one bus to the other at registers that follow each other; the code gets each of the
\* three others wrong (see the README).
RightAccesses ==
  \A l \in Lists : cfg[l] # <<>> =>
    LET p == Program(cfg[l])
        meant == Meaning(l)
        captured == {k \in DOMAIN meant.acts : meant.acts[k][1] = "read"}
    IN /\ p.ok <=> ~meant.open /\ \A k \in 2 .. Len(cfg[l]) : ~TooFar(cfg[l][k - 1], cfg[l][k])
       /\ p.ok => Accesses(p.words) = meant.acts /\ p.total = Cardinality(captured)

\* The words of a list: its program, and then the space for what it captures.
Region(l) == base[l] .. fd[l] + room[l] - 1

\* Enabled lists share no word of the SRAM, neither of their programs nor of what they
\* capture, and none leaves it, whatever was enabled, failed or disabled before.
RegionsApart ==
  \A l \in Enabled :
    /\ Region(l) \subseteq Words
    /\ \A k \in Enabled \ {l} : Region(l) \cap Region(k) = {}

\* Until a list oversteps the SRAM, the program of an enabled list stays there, word for
\* word: nothing triggered, enabled or refused after it touches it.
ProgramKept ==
  ~over => \A l \in Enabled : \A i \in base[l] .. fd[l] - 1 : sram[i] = l

\* The program of an enabled list is in the SRAM, whatever happens to other lists.  The
\* comments of dcc_enable promise it; a list that oversteps takes it away.
AlwaysKept == \A l \in Enabled : \A i \in base[l] .. fd[l] - 1 : sram[i] = l

\* An enabled CRC list has been sent the two triggers that clear its first error, as the
\* comment of __dcc_first_crc says; they go to the list that was chosen last.
CrcCleared == \A l \in Enabled : func[l] = "crc" => l \in sent
=============================================================================
