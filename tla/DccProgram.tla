------------------------------ MODULE DccProgram ------------------------------
(***************************************************************************)
(* The lists of the data capture engine, drivers/soc/qcom/dcc_v2.c: what   *)
(* the sysfs files add to a list, and the program that __dcc_ll_cfg makes  *)
(* of it in the engine's SRAM.                                             *)
(*                                                                         *)
(* Addresses, offsets and lengths count registers (words).  A word of the  *)
(* program is a record: an address with the bus and whether it is written, *)
(* a link with two offset-length pairs (the first and the second half of   *)
(* the word), a loop, a read-modify-write, or plain data.  Accesses is the *)
(* engine's side: what it does with the words, an assumption of the model. *)
(*                                                                         *)
(* NextOff is not the code: it is LastOff with one mistake.                *)
(***************************************************************************)
EXTENDS Integers, Sequences, SequencesExt, Bitwise

CONSTANTS
  MaxLen,    \* MAX_DCC_LEN
  MaxOffset, \* the largest offset of a pair, 0xFF
  MaxLoop,   \* MAX_LOOP_CNT
  LoopField, \* how many values the count of a loop word has
  Word       \* how many values a variable of __dcc_ll_cfg has

ASSUME LimitsOK ==
  /\ MaxLen > 0 /\ MaxOffset >= MaxLen
  /\ 0 < MaxLoop /\ MaxLoop <= LoopField /\ LoopField <= Word

Smaller(a, b) == IF a < b THEN a ELSE b
Final(s) == s[Len(s)]

---------------------------------------------------------------------------
(* The entries of a list                                                   *)

Read(base, off, len, apb) == [type |-> "read", base |-> base, off |-> off, len |-> len, apb |-> apb]
Write(addr, apb) ==
  [type |-> "write", base |-> addr - (addr % 4), off |-> addr % 4, len |-> 1, apb |-> apb]
Rmw == [type |-> "rmw"]
Loop(n) == [type |-> "loop", cnt |-> Smaller(n, MaxLoop)]

\* Registers from off on, in entries of at most MaxLen.
Split(base, off, len, apb) ==
  [k \in 1 .. (len + MaxLen - 1) \div MaxLen |->
     Read(base, off + (k - 1) * MaxLen, Smaller(len - (k - 1) * MaxLen, MaxLen), apb)]

\* dcc_config_add: registers near the last entry's are given its base, and those that
\* follow it directly first fill it up, whichever bus they are on.
ConfigAdd(cfg, addr, len, apb) ==
  LET p == Final(cfg)
      near == cfg # <<>> /\ p.type = "read" /\ addr - (p.base + p.off) \in 0 .. MaxOffset
  IN IF ~near THEN cfg \o Split(addr - (addr % 4), addr % 4, len, apb)
     ELSE IF p.base + p.off + p.len # addr THEN cfg \o Split(p.base, addr - p.base, len, apb)
     ELSE LET held == Smaller(p.len + len, MaxLen) IN
          [cfg EXCEPT ![Len(cfg)].len = held]
            \o Split(p.base, p.off + held, p.len + len - held, apb)

---------------------------------------------------------------------------
(* The program                                                             *)

Address(e) == [word |-> "addr", base |-> e.base, apb |-> e.apb, wr |-> e.type = "write"]
Link(p, q) == [word |-> "link", first |-> p, second |-> q]
Data == [word |-> "data"]
\* Offset 1 in the second half: no register, and the list goes on.
GoOn == <<1, 0>>
None == [word |-> "none"]
End == Link(<<0, 0>>, <<0, 0>>)

Start == [words |-> <<>>, link |-> None, addr |-> None, off |-> 0, total |-> 0,
          loop |-> FALSE, loopAt |-> 0, loopLen |-> 0, loopCnt |-> 0, ok |-> TRUE]

Put(s, ws) == [s EXCEPT !.words = @ \o ws]
Pending(s) == IF s.link = None THEN <<>> ELSE <<s.link>>
Forget(s) == [s EXCEPT !.link = None, !.addr = None, !.off = 0]

\* A read joins the address before it, unless it is another one or goes back, and fills
\* the second half of a pending link or starts a new one.
Holds(n) == n <= MaxOffset
NextOff(off, len) == off + len
LastOff(off, len) == off + len - 1
PutRead(s0, e) ==
  LET apart == s0.addr = None \/ s0.addr # Address(e) \/ s0.off > e.off
      s == IF apart THEN [Put(s0, Pending(s0) \o <<Address(e)>>) EXCEPT !.link = None, !.off = 0]
           ELSE s0
      pair == <<e.off - s.off, e.len>>
      t == [s EXCEPT !.total = @ + e.len, !.addr = Address(e), !.off = LastOff(e.off, e.len)]
  IN IF ~Holds(e.off - s.off) THEN [s EXCEPT !.ok = FALSE]
     ELSE IF s.link = None THEN [t EXCEPT !.link = Link(pair, GoOn)]
     ELSE [Put(t, <<Link(s.link.first, pair)>>) EXCEPT !.link = None]

PutRmw(s0) ==
  LET s == IF s0.link = None THEN s0 ELSE Forget(Put(s0, <<s0.link>>))
  IN Put(s, <<[word |-> "rmw"], Data, Data>>)

\* The pair of a write goes into whatever link is there: a pending one has been put
\* out but not cleared.
PutWrite(s0, e) ==
  LET s == IF s0.link = None THEN s0
           ELSE [Put(s0, <<s0.link>>) EXCEPT !.addr = None, !.off = 0]
      old == IF s.link = None THEN <<0, 0>> ELSE s.link.first
      link == Link(<<old[1] | e.off, old[2] | e.len>>, GoOn)
  IN [Put(s, <<Address(e), link, Data>>) EXCEPT !.link = None]

\* The count of a loop is one less than it was asked for, and a loop of 0 wraps.
Repeated(s) == (s.total - s.loopLen) * s.loopCnt
PutLoop(s0, e) ==
  LET s == Put(s0, Pending(s0)) IN
  IF s.loop
  THEN Forget([Put(s, <<[word |-> "loop", back |-> Len(s.words) - s.loopAt, cnt |-> s.loopCnt % LoopField]>>)
               EXCEPT !.loop = FALSE, !.loopLen = 0, !.loopAt = 0,
                      !.total = (@ + Repeated(s)) % Word])
  ELSE Forget([s EXCEPT !.loop = TRUE, !.loopCnt = (e.cnt - 1) % Word, !.loopLen = s.total,
                        !.loopAt = Len(s.words)])

\* After a programming error nothing more is written.
PutEntry(s, e) ==
  IF ~s.ok THEN s
  ELSE CASE e.type = "read" -> PutRead(s, e)
         [] e.type = "rmw" -> PutRmw(s)
         [] e.type = "write" -> PutWrite(s, e)
         [] e.type = "loop" -> PutLoop(s, e)

\* __dcc_ll_cfg up to the end of the list.  The test for a list that ends in a
\* read-modify-write never holds, as that branch has cleared addr.
Program(cfg) ==
  LET s == FoldLeft(PutEntry, Start, cfg)
      t == Put(s, Pending(s))
  IN IF ~s.ok THEN s
     ELSE IF s.loop THEN [t EXCEPT !.ok = FALSE]
     ELSE Put(t, <<End>>)

---------------------------------------------------------------------------
(* The engine                                                              *)

\* It keeps an address and a place after it.  A pair moves the place by its offset and
\* reads or writes its length from there, up to the place it leaves.
Idle == [acts |-> <<>>, before |-> <<>>, addr |-> None, place |-> 0, done |-> FALSE]

Touch(s, pair) ==
  LET first == s.addr.base + s.place + pair[1]
      kind == IF s.addr.wr THEN "write" ELSE "read"
  IN [s EXCEPT !.acts = @ \o [k \in 1 .. pair[2] |-> <<kind, first + k - 1, s.addr.apb>>],
               !.place = @ + pair[1] + pair[2] - 1]

Step(s0, w) ==
  LET s == [s0 EXCEPT !.before = Append(@, Len(s0.acts))] IN
  IF s.done \/ w.word = "data" THEN s ELSE
  CASE w = End -> [s EXCEPT !.done = TRUE]
    [] w.word = "addr" -> [s EXCEPT !.addr = w, !.place = 0]
    [] w.word = "link" /\ w # End -> Touch(Touch(s, w.first), w.second)
    [] w.word = "rmw" -> [s EXCEPT !.acts = Append(@, <<"rmw", s.addr.base + s.place, s.addr.apb>>)]
    [] w.word = "loop" ->
         LET from == s.before[Len(s.before) - w.back]
             body == SubSeq(s.acts, from + 1, Len(s.acts))
         IN [s EXCEPT !.acts = @ \o FlattenSeq([k \in 1 .. w.cnt |-> body])]

Accesses(words) == FoldLeft(Step, Idle, words).acts
=============================================================================
