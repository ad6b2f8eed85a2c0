---------------------------- MODULE MinidumpProofs ----------------------------
(***************************************************************************)
(* With one call at a time the buffer of TLVs, the lines of the files and  *)
(* the header of the device are what the list says, for every number of    *)
(* callers, every set of segments and all sizes of the buffer and the      *)
(* files: Minidump's BufferDescribes, OnlyListed and LinesDescribe, and    *)
(* MinidumpDevice's HeaderAgrees.                                          *)
(*                                                                         *)
(* The inductive invariant IInv numbers the nodes by their TLVs (Numbered) *)
(* and says what each TLV holds while a caller is between the list and the *)
(* buffer (Filled), and what that caller knows (Held).  Together with      *)
(* Unique and Fresh it shows that Minidump implements DumpList.  CountInv   *)
(* counts the segments, LineInv follows a caller to the lines it writes    *)
(* and MmuInv says where the lines of MMU_INFO are.                        *)
(***************************************************************************)
EXTENDS MinidumpDevice, FiniteSetTheorems, TLAPS

NodeSet == [seg : Segs, valid : BOOLEAN, tlv : Nat, off : [File -> Int]]
Locals == NodeSet \cup [seg : Segs] \cup {<<>>}
Places == {"idle", "replace", "new", "link", "append", "ended", "mark",
           "mmu", "mod", "write mmu", "write mod"}

Types ==
  /\ list \in Seq(NodeSet) /\ numSeg \in Int
  /\ buf \in [1 .. TlvRoom + 1 -> TLVs] /\ cur \in 1 .. TlvRoom + 1
  /\ len \in [File -> Int] /\ at \in [File -> Int]
  /\ pc \in [Callers -> Places]
  /\ node \in [Callers -> Locals] /\ seen \in [Callers -> Int]
Alone == \A c, d \in Callers : pc[c] # "idle" /\ pc[d] # "idle" => c = d
Numbered ==
  /\ \A i \in Nodes : list[i].tlv = i
  /\ (\E c \in Callers : pc[c] = "append") => cur = Len(list)
  /\ (\A c \in Callers : pc[c] # "append") => cur = Len(list) + 1
Filling(c) == pc[c] \in {"replace", "append"}
Word(n) == IF n.valid THEN n.seg ELSE Empty
Filled ==
  \A i \in Nodes :
    (\A c \in Callers : Filling(c) => node[c].tlv # i) => buf[i] = Word(list[i])
Held(c) ==
  /\ pc[c] # "idle" => node[c].seg \in Segs
  /\ pc[c] = "link" =>
       node[c] \in NodeSet /\ node[c].valid /\ node[c].tlv = cur /\ cur <= TlvRoom
  /\ Filling(c) =>
       node[c] \in NodeSet /\ node[c].valid /\ node[c].tlv \in Nodes
       /\ list[node[c].tlv] = node[c]
  /\ pc[c] = "append" => node[c].tlv = Len(list) /\ cur <= TlvRoom
  /\ pc[c] = "replace" => buf[node[c].tlv] = Empty
  /\ pc[c] = "mark" => seen[c] = cur
Ended ==
  /\ (\A c \in Callers : pc[c] \notin {"ended", "mark"}) /\ cur > 1 => buf[cur] = Stop
  /\ \A p \in 1 .. cur - 1 : buf[p] # Stop
IInv == Types /\ Alone /\ Numbered /\ Filled /\ (\A c \in Callers : Held(c)) /\ Ended

\* The calls do not overlap: an assumption of every theorem.
OneAtATime == Overlap = FALSE

---------------------------------------------------------------------------
\* A step of a caller that keeps or forgets what it knows.
LEMMA StepTypes ==
  ASSUME Types, NEW c \in Callers, NEW p \in Places, Step(c, p)
  PROVE  pc' \in [Callers -> Places] /\ node' \in [Callers -> Locals]
         /\ seen' \in [Callers -> Int]
<1> DEFINE nothing == <<>>
<1>1. nothing \in Locals BY DEF Locals
<1>2. p = "idle" => node' = [node EXCEPT ![c] = nothing] BY DEF Step
<1>3. node \in [Callers -> Locals] BY DEF Types
<1> HIDE DEF nothing
<1>4. p = "idle" => node' \in [Callers -> Locals] BY <1>1, <1>2, <1>3
<1>5. p # "idle" => node' \in [Callers -> Locals] BY <1>3 DEF Step
<1>6. pc' \in [Callers -> Places] /\ seen' \in [Callers -> Int]
  BY DEF Step, Goto, Types
<1> QED BY <1>4, <1>5, <1>6

LEMMA InitIInv == Init => IInv
<1> SUFFICES ASSUME Init PROVE IInv OBVIOUS
<1>1. Types BY RoomOK DEF Init, Types, Locals, Places, TLVs, File
<1>2. Alone /\ Numbered /\ Filled /\ Ended
  BY RoomOK DEF Init, Alone, Numbered, Filled, Ended, Nodes
<1>3. \A c \in Callers : Held(c) BY DEF Init, Held, Filling
<1> QED BY <1>1, <1>2, <1>3 DEF IInv

\* Two steps that leave the list and the buffer alone: the caller goes on, and
\* what it knows is given.
LEMMA GoOn ==
  ASSUME IInv, Types', NEW c \in Callers, NEW p, pc' = [pc EXCEPT ![c] = p],
         ~Filling(c), p \notin {"replace", "append", "ended"},
         pc[c] \in {"ended", "mark"} => p = "mark",
         pc[c] # "idle" \/ Quiet,
         UNCHANGED <<list, buf, cur>>,
         \A d \in Callers \ {c} : node'[d] = node[d] /\ seen'[d] = seen[d],
         Held(c)'
  PROVE  IInv'
<1>1. Alone' BY DEF IInv, Types, Alone, Quiet
<1>2. \A d \in Callers : Filling(d)' <=> Filling(d) BY DEF IInv, Types, Filling
<1>3. \A d \in Callers : Filling(d) => d # c BY DEF Filling
<1>4. Numbered' BY DEF IInv, Types, Numbered, Nodes, Filling
<1>5. Filled' BY <1>2, <1>3 DEF IInv, Types, Filled, Nodes, Word
<1>6. \A d \in Callers : Held(d)'
  <2> TAKE d \in Callers
  <2> SUFFICES ASSUME d # c PROVE Held(d)' OBVIOUS
  <2>1. Held(d) /\ pc'[d] = pc[d] BY DEF IInv, Types
  <2> QED BY <2>1 DEF Held, Filling, Nodes
<1>7. Ended' BY DEF IInv, Types, Ended
<1> QED BY <1>1, <1>4, <1>5, <1>6, <1>7 DEF IInv

---------------------------------------------------------------------------
(* The list *)

LEMMA ReuseStep ==
  ASSUME OneAtATime, IInv, NEW c \in Callers, NEW s \in Segs, Reuse(c, s) PROVE IInv'
<1>1. Quiet BY DEF OneAtATime, Reuse, MayBegin
<1>2. PICK i \in Nodes :
        /\ First(i)
        /\ list' = [list EXCEPT ![i] = Reused(list[i], s)]
        /\ node' = [node EXCEPT ![c] = Reused(list[i], s)]
        /\ at' = Moved(list[i])
  BY DEF Reuse
<1> DEFINE n == Reused(list[i], s)
<1>3. list \in Seq(NodeSet) /\ list[i] \in NodeSet /\ ~list[i].valid
  BY <1>2 DEF First, Valid, Nodes, IInv, Types
<1>4. n \in NodeSet /\ n.valid /\ n.seg = s /\ n.tlv = i
  BY <1>3 DEF Reused, NodeSet, IInv, Types, Numbered
<1>5. Moved(list[i]) \in [File -> Int]
  BY <1>3 DEF Moved, NodeSet, IInv, Types
<1> HIDE DEF n
<1>6. /\ list' \in Seq(NodeSet) /\ Len(list') = Len(list) /\ list'[i] = n
      /\ \A j \in Nodes \ {i} : list'[j] = list[j]
  BY <1>2, <1>3, <1>4 DEF n, Nodes
<1>7. Types'
  <2>1. n \in Locals BY <1>4 DEF Locals
  <2>2. node' \in [Callers -> Locals]
    <3>1. node' = [node EXCEPT ![c] = n] BY <1>2 DEF n
    <3> QED BY <2>1, <3>1 DEF IInv, Types
  <2>3. at' \in [File -> Int] /\ numSeg' \in Int
    BY <1>2, <1>5 DEF Reuse, Counted, IInv, Types
  <2>4. pc' \in [Callers -> Places] BY DEF Reuse, Goto, IInv, Types, Places
  <2> QED BY <1>6, <2>2, <2>3, <2>4 DEF Reuse, IInv, Types
<1>8. \A d \in Callers : pc'[d] = IF d = c THEN "replace" ELSE "idle"
  BY <1>1 DEF Quiet, Reuse, Goto, IInv, Types
<1>9. Alone' BY <1>8 DEF Alone
<1>10. Numbered'
  BY <1>1, <1>4, <1>6, <1>8 DEF Numbered, Nodes, Quiet, IInv, Reuse
<1>11. node'[c] = n /\ buf' = buf /\ cur' = cur
  BY <1>2 DEF Reuse, n, IInv, Types
<1>12. \A j \in Nodes : buf[j] = Word(list[j])
  BY <1>1 DEF Quiet, Filling, Filled, IInv
<1>13. Filled' BY <1>4, <1>6, <1>8, <1>11, <1>12 DEF Filled, Nodes, Filling, Word
<1>14. \A d \in Callers : Held(d)'
  BY <1>3, <1>4, <1>6, <1>8, <1>11, <1>12
  DEF Held, Filling, Word, Nodes, NodeSet
<1>15. Ended' BY <1>1, <1>8, <1>11 DEF Ended, IInv, Quiet
<1> QED BY <1>7, <1>9, <1>10, <1>13, <1>14, <1>15 DEF IInv

LEMMA NoneFreeStep ==
  ASSUME OneAtATime, IInv, NEW c \in Callers, NEW s \in Segs, NoneFree(c, s) PROVE IInv'
<1>1. Quiet BY DEF OneAtATime, NoneFree, MayBegin
<1>2. Types'
  <2>1. [seg |-> s] \in Locals BY DEF Locals
  <2> QED BY <2>1 DEF NoneFree, Goto, listVars, fileVars, IInv, Types, Places
<1>3. Held(c)'
  BY DEF NoneFree, Goto, IInv, Types, Held, Filling
<1> QED
  BY <1>1, <1>2, <1>3, GoOn
  DEF NoneFree, Goto, listVars, IInv, Types, Filling

LEMMA CreateStep ==
  ASSUME IInv, NEW c \in Callers, Create(c) PROVE IInv'
<1>1. pc[c] = "new" /\ node[c].seg \in Segs
  BY DEF Create, IInv, Held
<1>2. CASE Full
  <2>1. Types'
    BY <1>2, StepTypes DEF Create, listVars, fileVars, IInv, Types, Places
  <2>2. Held(c)' BY <1>2 DEF Create, Step, Goto, IInv, Types, Held, Filling
  <2> QED
    BY <1>1, <1>2, <2>1, <2>2, GoOn DEF Create, Step, Goto, listVars, IInv, Types, Filling
<1>3. CASE ~Full
  <2>1. cur <= TlvRoom BY <1>3, RoomOK DEF Full, IInv, Types
  <2>2. NewNode(Seg(c)) \in NodeSet
    BY <1>1 DEF NewNode, Seg, NodeSet, None, IInv, Types
  <2>3. Types'
    BY <1>3, <2>2 DEF Create, Goto, listVars, fileVars, IInv, Types, Places, Locals
  <2>4. node'[c] = NewNode(Seg(c)) /\ pc'[c] = "link" /\ cur' = cur
    BY <1>3 DEF Create, Goto, IInv, Types
  <2>5. Held(c)'
    BY <1>1, <2>1, <2>2, <2>4 DEF Held, Filling, NewNode, NodeSet, Seg
  <2> QED
    BY <1>1, <1>3, <2>3, <2>5, GoOn DEF Create, Goto, listVars, IInv, Types, Filling
<1> QED BY <1>2, <1>3

LEMMA LinkStep ==
  ASSUME IInv, NEW c \in Callers, Link(c) PROVE IInv'
<1>1. /\ pc[c] = "link" /\ node[c] \in NodeSet /\ node[c].valid
      /\ node[c].tlv = cur /\ cur <= TlvRoom /\ node[c].seg \in Segs
  BY DEF Link, IInv, Held
<1>2. \A d \in Callers \ {c} : pc[d] = "idle" BY <1>1 DEF IInv, Alone
<1>3. \A d \in Callers : pc'[d] = IF d = c THEN "append" ELSE "idle"
  BY <1>2 DEF Link, Step, Goto, IInv, Types
<1>4. cur = Len(list) + 1 /\ list \in Seq(NodeSet)
  BY <1>1, <1>2 DEF IInv, Numbered, Types
<1>5. /\ list' \in Seq(NodeSet) /\ Len(list') = cur /\ list'[cur] = node[c]
      /\ \A i \in Nodes : list'[i] = list[i]
  BY <1>1, <1>4 DEF Link, Nodes
<1>6. UNCHANGED <<buf, cur, node>> BY DEF Link, Step
<1>7. Types'
  <2>1. "append" \in Places /\ Step(c, "append") /\ Types
    BY DEF Link, IInv, Places
  <2>2. /\ pc' \in [Callers -> Places] /\ node' \in [Callers -> Locals]
        /\ seen' \in [Callers -> Int]
    BY <2>1, StepTypes
  <2>3. numSeg' \in Int BY DEF Link, IInv, Types
  <2> QED BY <1>5, <2>2, <2>3 DEF Link, fileVars, IInv, Types
<1>8. Alone' BY <1>3 DEF Alone
<1>9. Numbered' BY <1>1, <1>3, <1>4, <1>5, <1>6 DEF Numbered, Nodes, IInv
<1>10. \A i \in Nodes : buf[i] = Word(list[i])
  BY <1>1, <1>2 DEF Filled, Filling, IInv
<1>11. Filled'
  BY <1>1, <1>3, <1>4, <1>5, <1>6, <1>10 DEF Filled, Filling, Nodes, Word
<1>12. \A d \in Callers : Held(d)'
  BY <1>1, <1>3, <1>4, <1>5, <1>6 DEF Held, Filling, Nodes, IInv, Types
<1>13. Ended' BY <1>1, <1>2, <1>6 DEF Ended, IInv
<1> QED BY <1>7, <1>8, <1>9, <1>11, <1>12, <1>13 DEF IInv

---------------------------------------------------------------------------
(* The buffer *)

LEMMA ReplaceTlvStep ==
  ASSUME IInv, NEW c \in Callers, ReplaceTlv(c) PROVE IInv'
<1> DEFINE i == node[c].tlv
<1>1. /\ pc[c] = "replace" /\ node[c] \in NodeSet /\ node[c].valid
      /\ i \in Nodes /\ list[i] = node[c] /\ Seg(c) \in Segs
  BY DEF ReplaceTlv, Replaces, IInv, Held, Filling, Seg
<1>2. \A d \in Callers \ {c} : pc[d] = "idle" BY <1>1 DEF IInv, Alone
<1>3. \A d \in Callers : pc'[d] = IF d = c THEN "ended" ELSE "idle"
  BY <1>2 DEF ReplaceTlv, Step, Goto, IInv, Types
<1>4. cur = Len(list) + 1 /\ i \in 1 .. cur - 1
  <2>1. cur = Len(list) + 1 BY <1>1, <1>2 DEF IInv, Numbered
  <2>2. cur - 1 = Len(list) BY <2>1, RoomOK DEF IInv, Types
  <2> QED BY <1>1, <2>1, <2>2 DEF Nodes
<1>5. buf' = [buf EXCEPT ![i] = Seg(c)] /\ UNCHANGED <<list, cur, node, seen>>
  BY DEF ReplaceTlv, Step, listVars
<1> HIDE DEF i
<1>6. Types'
  <2>1. "ended" \in Places /\ Step(c, "ended") /\ Types
    BY DEF ReplaceTlv, IInv, Places
  <2>2. pc' \in [Callers -> Places] BY <2>1, StepTypes
  <2>3. Seg(c) \in TLVs BY <1>1 DEF TLVs
  <2>4. buf' \in [1 .. TlvRoom + 1 -> TLVs] BY <1>5, <2>1, <2>3 DEF Types
  <2> QED BY <1>5, <2>2, <2>4 DEF ReplaceTlv, listVars, fileVars, IInv, Types
<1>7. Alone' BY <1>3 DEF Alone
<1>8. Numbered' BY <1>3, <1>4, <1>5 DEF Numbered, IInv, Nodes
<1>9. \A j \in Nodes \ {i} : buf[j] = Word(list[j])
  BY <1>1, <1>2 DEF Filled, Filling, IInv, i
<1>10. Filled'
  <2>1. 1 .. cur - 1 \subseteq DOMAIN buf BY <1>4, RoomOK DEF IInv, Types
  <2> QED BY <1>1, <1>4, <1>5, <1>9, <2>1 DEF Filled, Nodes, Word, Seg
<1>11. \A d \in Callers : Held(d)'
  BY <1>1, <1>3, <1>5 DEF Held, Filling, Nodes, Seg
<1>12. Ended'
  <2>1. Seg(c) # Stop BY <1>1, WordsOK
  <2>2. \A p \in 1 .. cur - 1 : buf'[p] = IF p = i THEN Seg(c) ELSE buf[p]
    BY <1>4, <1>5, RoomOK DEF IInv, Types
  <2>3. pc'[c] = "ended" BY <1>3
  <2> QED BY <1>5, <2>1, <2>2, <2>3 DEF Ended, IInv
<1> QED BY <1>6, <1>7, <1>8, <1>10, <1>11, <1>12 DEF IInv

LEMMA AddTlvStep ==
  ASSUME IInv, NEW c \in Callers, AddTlv(c) PROVE IInv'
<1>1. pc[c] = "append" BY DEF AddTlv, Replaces, IInv, Held, Filling
<1>2. /\ cur <= TlvRoom /\ node[c].tlv = Len(list) /\ node[c] \in NodeSet
      /\ node[c].valid /\ list[Len(list)] = node[c] /\ Seg(c) \in Segs
  BY <1>1 DEF IInv, Held, Filling, Seg
<1>3. \A d \in Callers \ {c} : pc[d] = "idle" BY <1>1 DEF IInv, Alone
<1>4. \A d \in Callers : pc'[d] = IF d = c THEN "ended" ELSE "idle"
  BY <1>2, <1>3, RoomOK DEF AddTlv, Step, Goto, IInv, Types
<1>5. cur = Len(list) /\ cur \in 1 .. TlvRoom
  BY <1>1, <1>2, RoomOK DEF IInv, Numbered, Types
<1>6. /\ buf' = [buf EXCEPT ![cur] = Seg(c)] /\ cur' = cur + 1
      /\ UNCHANGED <<list, node, seen>> /\ Step(c, "ended")
  BY <1>5, RoomOK DEF AddTlv, Step, listVars
<1>7. Types'
  <2>1. "ended" \in Places /\ Types BY DEF IInv, Places
  <2>2. pc' \in [Callers -> Places] BY <1>6, <2>1, StepTypes
  <2>3. Seg(c) \in TLVs BY <1>2 DEF TLVs
  <2>4. buf' \in [1 .. TlvRoom + 1 -> TLVs] BY <1>6, <2>1, <2>3 DEF Types
  <2>5. cur' \in 1 .. TlvRoom + 1 BY <1>5, <1>6, RoomOK
  <2> QED BY <1>6, <2>2, <2>4, <2>5 DEF AddTlv, listVars, fileVars, IInv, Types
<1>8. Alone' BY <1>4 DEF Alone
<1>9. Numbered' BY <1>4, <1>5, <1>6 DEF Numbered, IInv, Nodes
<1>10. \A j \in Nodes \ {cur} : buf[j] = Word(list[j])
  BY <1>2, <1>3, <1>5 DEF Filled, Filling, IInv
<1>11. buf'[cur] = Seg(c) /\ \A p \in 1 .. cur - 1 : buf'[p] = buf[p]
  BY <1>5, <1>6, RoomOK DEF IInv, Types
<1>12. Filled' BY <1>2, <1>5, <1>6, <1>10, <1>11 DEF Filled, Nodes, Word, Seg
<1>13. \A d \in Callers : Held(d)'
  BY <1>2, <1>4, <1>6 DEF Held, Filling, Nodes, Seg
<1>14. Ended'
  <2>1. Seg(c) # Stop BY <1>2, WordsOK
  <2> QED BY <1>4, <1>5, <1>6, <1>11, <2>1 DEF Ended, IInv
<1> QED BY <1>7, <1>8, <1>9, <1>12, <1>13, <1>14 DEF IInv

LEMMA LoadEndStep ==
  ASSUME IInv, NEW c \in Callers, LoadEnd(c) PROVE IInv'
<1>1. Types'
  <2>1. cur \in Int BY RoomOK DEF IInv, Types
  <2>2. seen' \in [Callers -> Int] BY <2>1 DEF LoadEnd, IInv, Types
  <2>3. pc' \in [Callers -> Places] BY DEF LoadEnd, Goto, IInv, Types, Places
  <2> QED BY <2>2, <2>3 DEF LoadEnd, listVars, fileVars, IInv, Types
<1>2. Held(c)' BY DEF LoadEnd, Goto, IInv, Types, Held, Filling
<1> QED
  BY <1>1, <1>2, GoOn DEF LoadEnd, Goto, listVars, IInv, Types, Filling

LEMMA MarkEndStep ==
  ASSUME IInv, NEW c \in Callers, MarkEnd(c) PROVE IInv'
<1>1. pc[c] = "mark" /\ seen[c] = cur /\ node[c].seg \in Segs
  BY DEF MarkEnd, IInv, Held
<1>2. \A d \in Callers \ {c} : pc[d] = "idle" BY <1>1 DEF IInv, Alone
<1>3. \A d \in Callers : pc'[d] = IF d = c THEN "mmu" ELSE "idle"
  BY <1>2 DEF MarkEnd, Step, Goto, IInv, Types
<1>4. buf' = [buf EXCEPT ![cur] = Stop] /\ UNCHANGED <<list, cur, node, seen>>
  BY <1>1 DEF MarkEnd, Marked, Step, listVars
<1>5. cur = Len(list) + 1 BY <1>1, <1>2 DEF IInv, Numbered
<1>6. Types'
  <2>1. "mmu" \in Places /\ Step(c, "mmu") /\ Types
    BY DEF MarkEnd, IInv, Places
  <2>2. pc' \in [Callers -> Places] BY <2>1, StepTypes
  <2>3. buf' \in [1 .. TlvRoom + 1 -> TLVs] BY <1>4, <2>1 DEF Types, TLVs
  <2> QED BY <1>4, <2>2, <2>3 DEF MarkEnd, listVars, fileVars, IInv, Types
<1>7. Alone' BY <1>3 DEF Alone
<1>8. Numbered' BY <1>3, <1>4, <1>5 DEF Numbered, IInv, Nodes
<1>9. buf'[cur] = Stop /\ \A p \in 1 .. cur - 1 : buf'[p] = buf[p]
  BY <1>4 DEF IInv, Types
<1>10. Filled'
  <2>1. \A j \in Nodes : buf[j] = Word(list[j])
    BY <1>1, <1>2 DEF Filled, Filling, IInv
  <2> QED BY <1>4, <1>5, <1>9, <2>1 DEF Filled, Nodes, Word, IInv, Types
<1>11. \A d \in Callers : Held(d)' BY <1>1, <1>3, <1>4 DEF Held, Filling
<1>12. Ended' BY <1>4, <1>9 DEF Ended, IInv
<1> QED BY <1>6, <1>7, <1>8, <1>10, <1>11, <1>12 DEF IInv

---------------------------------------------------------------------------
(* The files *)

LEMMA TestStep ==
  ASSUME IInv, NEW c \in Callers, NEW f \in File, Test(c, f) PROVE IInv'
<1> DEFINE p == IF FileFull(f) \/ ~InFile(f, at[f]) THEN After(c, f) ELSE Writing(f)
<1>1. /\ pc[c] = f /\ f \in {"mod", "mmu"} /\ Step(c, p)
      /\ UNCHANGED <<list, numSeg, buf, cur, line, len, at>>
  BY DEF Test, File, listVars, fileVars
<1>2. p \in {"mod", "idle", "write mmu", "write mod"}
  BY DEF After, Writing
<1> HIDE DEF p
<1>3. p \in Places BY <1>2 DEF Places
<1>4. Types' BY <1>1, <1>3, StepTypes DEF IInv, Types
<1>5. pc' = [pc EXCEPT ![c] = p] /\ (p # "idle" => node' = node)
  BY <1>1 DEF Step, Goto
<1>6. Held(c)' BY <1>1, <1>2, <1>5 DEF Held, Filling, IInv, Types
<1>7. \A d \in Callers \ {c} : node'[d] = node[d] /\ seen'[d] = seen[d]
  BY <1>1 DEF Step, IInv, Types
<1> QED BY <1>1, <1>2, <1>4, <1>5, <1>6, <1>7, GoOn DEF Filling

LEMMA WriteStep ==
  ASSUME IInv, NEW c \in Callers, NEW f \in File, Write(c, f) PROVE IInv'
<1> DEFINE p == After(c, f)
<1>1. /\ pc[c] \in {"write mmu", "write mod"} /\ Step(c, p)
      /\ UNCHANGED <<list, numSeg, buf, cur>>
  BY DEF Write, Writing, listVars
<1>2. p \in {"mod", "idle"} BY DEF After
<1> HIDE DEF p
<1>3. p \in Places BY <1>2 DEF Places
<1>4. len' \in [File -> Int] /\ at' \in [File -> Int]
  <2>1. len \in [File -> Int] /\ at \in [File -> Int] BY DEF IInv, Types
  <2>2. Grown(f) \in Int /\ Gone(f) \in Int
    BY <2>1 DEF Grown, Gone, None, Wild
  <2>3. CASE InFile(f, at[f]) BY <2>1, <2>2, <2>3 DEF Write
  <2>4. CASE ~InFile(f, at[f]) BY <2>1, <2>2, <2>4 DEF Write
  <2> QED BY <2>3, <2>4
<1>5. Types' BY <1>1, <1>3, <1>4, StepTypes DEF IInv, Types
<1>6. pc' = [pc EXCEPT ![c] = p] /\ (p # "idle" => node' = node)
  BY <1>1 DEF Step, Goto
<1>7. Held(c)' BY <1>1, <1>2, <1>6 DEF Held, Filling, IInv, Types
<1>8. \A d \in Callers \ {c} : node'[d] = node[d] /\ seen'[d] = seen[d]
  BY <1>1 DEF Step, IInv, Types
<1> QED BY <1>1, <1>2, <1>5, <1>6, <1>7, <1>8, GoOn DEF Filling

---------------------------------------------------------------------------
LEMMA RemoveStep ==
  ASSUME OneAtATime, IInv, NEW va, Remove(va) PROVE IInv'
<1>1. Quiet BY DEF OneAtATime, Remove, MayBegin
<1>2. PICK i \in Nodes :
        /\ Found(va, i)
        /\ list' = [list EXCEPT ![i].valid = FALSE]
        /\ buf' = EmptyTlv(i)
        /\ at' = [f \in File |-> IF f \in Spilled(list[i]) THEN Gone(f) ELSE at[f]]
        /\ len' = [f \in File |-> IF f \in Spilled(list[i]) THEN 0 ELSE len[f]]
  BY DEF Remove
<1>3. list \in Seq(NodeSet) /\ list[i] \in NodeSet /\ list[i].tlv = i
  BY DEF IInv, Types, Nodes, Numbered
<1> DEFINE n == [list[i] EXCEPT !.valid = FALSE]
<1>4. n \in NodeSet /\ ~n.valid /\ n.tlv = i BY <1>3 DEF NodeSet
<1>5. list' = [list EXCEPT ![i] = n] BY <1>2
<1> HIDE DEF n
<1>6. /\ list' \in Seq(NodeSet) /\ Len(list') = Len(list) /\ list'[i] = n
      /\ \A j \in Nodes \ {i} : list'[j] = list[j]
  BY <1>3, <1>4, <1>5 DEF Nodes
<1>7. cur = Len(list) + 1 /\ UNCHANGED <<cur, pc, node, seen>>
  BY <1>1 DEF IInv, Numbered, Quiet, Remove
<1>8. buf' = [buf EXCEPT ![i] = Empty] BY <1>2, <1>3 DEF EmptyTlv
<1>9. \A f \in File : Gone(f) \in Int BY DEF Gone, None, Wild
<1>10. Types'
  <2>1. buf' \in [1 .. TlvRoom + 1 -> TLVs] BY <1>8 DEF IInv, Types, TLVs
  <2>2. len' \in [File -> Int] /\ at' \in [File -> Int]
    BY <1>2, <1>9 DEF IInv, Types
  <2>3. numSeg' \in Int BY DEF Remove, IInv, Types
  <2> QED BY <1>6, <1>7, <2>1, <2>2, <2>3 DEF IInv, Types
<1>11. Alone' BY <1>1, <1>7 DEF Alone, Quiet
<1>12. Numbered' BY <1>1, <1>4, <1>6, <1>7 DEF Numbered, IInv, Nodes, Quiet
<1>13. 1 .. cur - 1 = Nodes /\ cur <= TlvRoom + 1 /\ cur \in Nat
  BY <1>3, <1>7, RoomOK DEF Nodes, IInv, Types
<1>14. \A j \in Nodes : buf'[j] = IF j = i THEN Empty ELSE buf[j]
  BY <1>8, <1>13, RoomOK DEF IInv, Types
<1>15. Filled'
  <2>1. \A j \in Nodes : buf[j] = Word(list[j])
    BY <1>1 DEF Filled, Filling, IInv, Quiet
  <2> QED BY <1>4, <1>6, <1>14, <2>1 DEF Filled, Nodes, Word
<1>16. \A d \in Callers : Held(d)'
  BY <1>1, <1>7 DEF Held, Filling, Quiet
<1>17. Ended'
  <2>1. cur > 1 => buf'[cur] = buf[cur]
    BY <1>8, <1>13, RoomOK DEF IInv, Types, Nodes
  <2> QED BY <1>1, <1>7, <1>13, <1>14, <2>1, WordsOK DEF Ended, IInv, Quiet
<1> QED BY <1>10, <1>11, <1>12, <1>15, <1>16, <1>17 DEF IInv

---------------------------------------------------------------------------
LEMMA NextIInv ==
  ASSUME OneAtATime, IInv, [Next]_vars PROVE IInv'
<1>1. CASE UNCHANGED vars
  <2> USE <1>1 DEF vars, listVars, fileVars, IInv
  <2>1. Types' /\ Alone' BY DEF Types, Alone
  <2>2. Numbered' /\ Ended' BY DEF Numbered, Ended, Nodes
  <2>3. Filled' BY DEF Filled, Filling, Word, Nodes
  <2>4. ASSUME NEW c \in Callers PROVE Held(c)'
    <3>1. Held(c) OBVIOUS
    <3> QED BY <3>1 DEF Held, Filling, Nodes
  <2> QED BY <2>1, <2>2, <2>3, <2>4
<1>2. CASE Next
  BY <1>2, ReuseStep, NoneFreeStep, CreateStep, LinkStep, ReplaceTlvStep,
     AddTlvStep, LoadEndStep, MarkEndStep, TestStep, WriteStep, RemoveStep
  DEF Next
<1> QED BY <1>1, <1>2

\* The inductive invariant holds in every state.
THEOREM Invariant == ASSUME OneAtATime PROVE Spec => []IInv
<1>1. IInv /\ [Next]_vars => IInv' BY NextIInv
<1> QED BY <1>1, InitIInv, PTL DEF Spec

LEMMA TlvsDescribe == IInv => TlvDescribes
<1> SUFFICES ASSUME IInv, Quiet PROVE TlvDescribes!2 BY DEF TlvDescribes
<1>1. \A i \in Nodes : buf[i] = Word(list[i]) /\ list[i].tlv = i
  BY DEF IInv, Filled, Filling, Quiet, Numbered
<1>2. 1 .. cur - 1 = Nodes
  BY RoomOK DEF IInv, Types, Numbered, Quiet, Nodes
<1> QED BY <1>1, <1>2 DEF Word, Valid

LEMMA EndIsMarked == IInv => BufferEnds
<1> SUFFICES ASSUME IInv, Quiet, list # <<>>, NEW p \in 1 .. cur
             PROVE  buf[p] = Stop <=> p = cur
  BY DEF BufferEnds
<1>1. Len(list) > 0 BY DEF IInv, Types
<1>2. cur > 1 BY <1>1 DEF IInv, Types, Numbered, Quiet
<1> QED BY <1>2, RoomOK DEF IInv, Types, Ended, Quiet

\* Between calls the TLVs of the buffer and the segments of the list are the
\* same, each with its own, and the end of the buffer, and nothing before it, is
\* marked: what the boot loader collects after a crash.
THEOREM Describes == ASSUME OneAtATime PROVE Spec => []BufferDescribes
<1>1. IInv => BufferDescribes BY TlvsDescribe, EndIsMarked DEF BufferDescribes
<1> QED BY <1>1, Invariant, PTL

LEMMA ListedTlv ==
  ASSUME IInv, NEW p \in 1 .. cur - 1, buf[p] \in Segs
  PROVE  p \in Valid /\ list[p].seg = buf[p]
<1>1. p \in Nodes BY RoomOK DEF IInv, Types, Numbered, Nodes
<1>2. ASSUME NEW c \in Callers, Filling(c) PROVE node[c].tlv # p
  BY <1>2, WordsOK, RoomOK DEF IInv, Types, Held, Filling, Numbered
<1>3. buf[p] = Word(list[p]) BY <1>1, <1>2 DEF IInv, Filled
<1> QED BY <1>1, <1>3, WordsOK DEF Word, Valid

\* At any moment, also in the middle of a call, a TLV that is not marked as
\* removed describes a segment of the list.
THEOREM OnlyTheListed == ASSUME OneAtATime PROVE Spec => []OnlyListed
<1>1. IInv => OnlyListed
  BY ListedTlv DEF OnlyListed, IInv, Numbered, Valid
<1> QED BY <1>1, Invariant, PTL

---------------------------------------------------------------------------
(* The buffer implements the set of DumpList: no address and size is in    *)
(* two TLVs, since it is in the list once and a caller adds what is not.   *)

Unique ==
  \A i, j \in Valid :
    list[i].seg.va = list[j].seg.va /\ list[i].seg.size = list[j].seg.size => i = j
Fresh == \A c \in Callers : pc[c] \in {"new", "link"} => ~Listed(node[c].seg)
UInv == IInv /\ Unique /\ Fresh

LEMMA InitUInv == Init => UInv
<1> QED BY InitIInv DEF UInv, Init, Unique, Fresh, Valid, Nodes

\* With the list as it was, only a caller that begins has something to show.
LEMMA SameList ==
  ASSUME UInv, IInv', UNCHANGED list,
         \A c \in Callers : pc'[c] \in {"new", "link"} =>
           ~Listed(node'[c].seg) \/ (pc[c] = "new" /\ node'[c].seg = node[c].seg)
  PROVE  UInv'
<1>1. Unique' BY DEF UInv, Unique, Valid, Nodes
<1>2. Fresh' BY DEF UInv, Fresh, Listed, Valid, Nodes
<1> QED BY <1>1, <1>2 DEF UInv

LEMMA NextUInv == ASSUME OneAtATime, UInv, [Next]_vars PROVE UInv'
<1>1. IInv' /\ IInv BY NextIInv DEF UInv
<1>2. ASSUME NEW c \in Callers, NEW s \in Segs, Reuse(c, s) PROVE UInv'
  <2>1. PICK i \in Nodes :
          /\ First(i)
          /\ list' = [list EXCEPT ![i] = Reused(list[i], s)]
    BY <1>2 DEF Reuse
  <2>2. list \in Seq(NodeSet) BY <1>1 DEF IInv, Types
  <2>3. /\ Len(list') = Len(list) /\ list'[i].valid /\ list'[i].seg = s
        /\ \A j \in Nodes \ {i} : list'[j] = list[j]
    BY <2>1, <2>2 DEF Nodes, Reused
  <2>4. Valid' = Valid \cup {i} BY <2>1, <2>3 DEF Valid, Nodes
  <2>5. \A j \in Valid : ~(list[j].seg.va = s.va /\ list[j].seg.size = s.size)
    BY <1>2 DEF Reuse, Listed
  <2>6. Unique' BY <2>3, <2>4, <2>5 DEF UInv, Unique, Valid
  <2>7. Quiet BY <1>2 DEF OneAtATime, Reuse, MayBegin
  <2>8. Fresh' BY <1>1, <1>2, <2>7 DEF Fresh, Reuse, Goto, Quiet, IInv, Types
  <2> QED BY <1>1, <2>6, <2>8 DEF UInv
<1>3. ASSUME NEW c \in Callers, NEW s \in Segs, NoneFree(c, s) PROVE UInv'
  <2>1. Quiet BY <1>3 DEF OneAtATime, NoneFree, MayBegin
  <2>2. node'[c].seg = s /\ ~Listed(s) BY <1>1, <1>3 DEF NoneFree, IInv, Types
  <2>3. \A d \in Callers : pc'[d] = IF d = c THEN "new" ELSE "idle"
    BY <1>1, <1>3, <2>1 DEF NoneFree, Goto, Quiet, IInv, Types
  <2> QED BY <1>1, <1>3, <2>2, <2>3, SameList DEF NoneFree, listVars
<1>4. ASSUME NEW c \in Callers, Create(c) PROVE UInv'
  <2>1. pc[c] = "new" /\ UNCHANGED list BY <1>4 DEF Create, listVars
  <2>2. \A d \in Callers \ {c} : pc'[d] = "idle"
    BY <1>1, <1>4, <2>1 DEF Create, Step, Goto, IInv, Types, Alone
  <2>3. pc'[c] # "idle" => node'[c].seg = node[c].seg
    BY <1>1, <1>4 DEF Create, Step, Goto, NewNode, Seg, IInv, Types
  <2> QED BY <1>1, <2>1, <2>2, <2>3, SameList
<1>5. ASSUME NEW c \in Callers, Link(c) PROVE UInv'
  <2>1. /\ pc[c] = "link" /\ node[c].valid /\ node[c] \in NodeSet
        /\ ~Listed(node[c].seg) /\ list' = Append(list, node[c])
    BY <1>1, <1>5 DEF Link, UInv, Fresh, IInv, Held
  <2>2. list \in Seq(NodeSet) BY <1>1 DEF IInv, Types
  <2>3. /\ Len(list') = Len(list) + 1 /\ list'[Len(list) + 1] = node[c]
        /\ \A j \in Nodes : list'[j] = list[j]
    BY <2>1, <2>2 DEF Nodes
  <2>4. Nodes' = Nodes \cup {Len(list) + 1} BY <2>2, <2>3 DEF Nodes
  <2>5. Valid' = Valid \cup {Len(list) + 1} BY <2>1, <2>3, <2>4 DEF Valid
  <2>8. \A j \in Valid : list'[j] = list[j] BY <2>3 DEF Valid
  <2>9. \A j \in Valid : ~(/\ list[j].seg.va = node[c].seg.va
                           /\ list[j].seg.size = node[c].seg.size)
    BY <2>1 DEF Listed
  <2>10. \A i, j \in Valid :
           list[i].seg.va = list[j].seg.va /\ list[i].seg.size = list[j].seg.size
             => i = j
    BY DEF UInv, Unique
  <2>6. Unique' BY <2>3, <2>5, <2>8, <2>9, <2>10 DEF Unique
  <2>7. \A d \in Callers : pc'[d] \notin {"new", "link"}
    BY <1>1, <1>5, <2>1 DEF Link, Step, Goto, IInv, Types, Alone
  <2> QED BY <1>1, <2>6, <2>7 DEF UInv, Fresh
<1>6. ASSUME NEW va, Remove(va) PROVE UInv'
  <2>1. PICK i \in Nodes : list' = [list EXCEPT ![i].valid = FALSE]
    BY <1>6 DEF Remove
  <2>2. list \in Seq(NodeSet) BY <1>1 DEF IInv, Types
  <2>3. list[i] \in NodeSet BY <2>1, <2>2 DEF Nodes
  <2>4. /\ Len(list') = Len(list) /\ ~list'[i].valid
        /\ \A j \in Nodes \ {i} : list'[j] = list[j]
    BY <2>1, <2>2, <2>3 DEF Nodes, NodeSet
  <2>5. Valid' = Valid \ {i} BY <2>4 DEF Valid, Nodes
  <2>6. Unique' BY <2>4, <2>5 DEF UInv, Unique, Valid
  <2>7. Quiet /\ pc' = pc BY <1>6 DEF OneAtATime, Remove, MayBegin
  <2> QED BY <1>1, <2>6, <2>7 DEF UInv, Fresh, Quiet
<1>7. ASSUME NEW c \in Callers, UNCHANGED list, NEW p \in Places,
             p \notin {"new", "link"}, pc' = [pc EXCEPT ![c] = p],
             pc[c] # "idle"
      PROVE  UInv'
  BY <1>1, <1>7, SameList DEF IInv, Types, Alone
<1>8. ASSUME NEW c \in Callers,
             ReplaceTlv(c) \/ AddTlv(c) \/ LoadEnd(c) \/ MarkEnd(c)
      PROVE  UInv'
  <2>1. PICK p \in {"ended", "idle", "mark", "mmu"} : pc' = [pc EXCEPT ![c] = p]
    BY <1>8 DEF ReplaceTlv, AddTlv, LoadEnd, MarkEnd, Step, Goto
  <2>2. pc[c] # "idle" /\ UNCHANGED list
    BY <1>8 DEF ReplaceTlv, Replaces, AddTlv, LoadEnd, MarkEnd, listVars
  <2> QED BY <1>7, <2>1, <2>2 DEF Places
<1>9. ASSUME NEW c \in Callers, NEW f \in File, Test(c, f) \/ Write(c, f)
      PROVE  UInv'
  <2>1. PICK p \in {"mod", "idle", "write mmu", "write mod"} : pc' = [pc EXCEPT ![c] = p]
    BY <1>9 DEF Test, Write, After, Writing, Step, Goto
  <2>2. pc[c] # "idle" /\ UNCHANGED list
    BY <1>9 DEF Test, Write, Writing, File, listVars
  <2> QED BY <1>7, <2>1, <2>2 DEF Places
<1>10. CASE UNCHANGED vars
  BY <1>1, <1>10, SameList DEF vars, listVars, UInv, Fresh
<1>11. CASE Next
  BY <1>2, <1>3, <1>4, <1>5, <1>6, <1>8, <1>9, <1>11 DEF Next
<1> QED BY <1>10, <1>11

\* A caller that fills the TLV of node i with its segment adds it to the set.
LEMMA AddsOne ==
  ASSUME UInv, NEW c \in Callers, Filling(c), NEW i \in Nodes,
         i = node[c].tlv, buf' = [buf EXCEPT ![i] = Seg(c)],
         cur' \in Nat, i < cur', i \in 1 .. TlvRoom,
         \A p \in 1 .. cur' - 1 : p # i => p \in 1 .. cur - 1,
         \A p \in 1 .. cur - 1 : p # i => p \in 1 .. cur' - 1,
         i \in 1 .. cur - 1 => buf[i] \notin Segs
  PROVE  Dump!Add(Seg(c)) /\ Seg(c) \in Segs
<1>1. IInv /\ Seg(c) \in Segs /\ i \in Valid /\ list[i].seg = Seg(c)
  BY DEF UInv, IInv, Held, Filling, Seg, Valid
<1>2. \A p \in 1 .. TlvRoom + 1 : buf'[p] = IF p = i THEN Seg(c) ELSE buf[p]
  BY RoomOK, <1>1 DEF IInv, Types
<1>3. cur \in 1 .. TlvRoom + 1 /\ \A p \in 1 .. cur' - 1 : p \in 1 .. TlvRoom + 1
  <2>1. cur \in 1 .. TlvRoom + 1 BY <1>1 DEF IInv, Types
  <2>2. ASSUME NEW p \in 1 .. cur' - 1 PROVE p \in 1 .. TlvRoom + 1
    <3>1. CASE p = i BY <3>1, RoomOK
    <3>2. CASE p # i
      <4>1. p \in 1 .. cur - 1 BY <3>2
      <4> QED BY <4>1, <2>1, RoomOK
    <3> QED BY <3>1, <3>2
  <2> QED BY <2>1, <2>2
<1>4. Live' = Live \cup {Seg(c)}
  <2>1. \A p \in 1 .. cur' - 1 : p # i => buf'[p] = buf[p] /\ p \in 1 .. cur - 1
    BY <1>2, <1>3
  <2>2. \A p \in 1 .. cur - 1 :
          buf[p] \in Segs => buf'[p] = buf[p] /\ p \in 1 .. cur' - 1
    BY <1>2, <1>3, RoomOK
  <2>3. i \in 1 .. cur' - 1 /\ buf'[i] = Seg(c) BY <1>2, RoomOK
  <2>4. ASSUME NEW t \in Live' PROVE t \in Live \cup {Seg(c)}
    BY <2>1, <2>3, <2>4 DEF Live
  <2>5. ASSUME NEW t \in Live PROVE t \in Live'
    BY <2>2, <2>5 DEF Live
  <2>6. Seg(c) \in Live' BY <2>3, <1>1 DEF Live
  <2> QED BY <2>4, <2>5, <2>6
<1>5. \A t \in Live : ~Dump!Same(Seg(c), t)
  <2> SUFFICES ASSUME NEW p \in 1 .. cur - 1, buf[p] \in Segs,
                      Seg(c).va = buf[p].va, Seg(c).size = buf[p].size
               PROVE  FALSE
    BY DEF Live, Dump!Same
  <2>1. p \in Valid /\ list[p].seg = buf[p] BY <1>1, ListedTlv
  <2>2. p = i BY <1>1, <2>1 DEF UInv, Unique
  <2> QED BY <2>2
<1> QED BY <1>1, <1>4, <1>5 DEF Dump!Add, Dump!New

LEMMA NextDump ==
  ASSUME OneAtATime, UInv, UInv', [Next]_vars PROVE [Dump!Next]_Live
<1>1. IInv BY DEF UInv
<1>2. CASE UNCHANGED <<buf, cur>> BY <1>2 DEF Live
<1>3. ASSUME NEW c \in Callers, MarkEnd(c) PROVE UNCHANGED Live
  <2>1. buf' = [buf EXCEPT ![cur] = Stop] /\ cur' = cur
    BY <1>1, <1>3 DEF MarkEnd, Marked, IInv, Held
  <2>2. \A p \in 1 .. cur - 1 : buf'[p] = buf[p]
    BY <1>1, <2>1, RoomOK DEF IInv, Types
  <2> QED BY <2>1, <2>2 DEF Live
<1>4. ASSUME NEW c \in Callers, ReplaceTlv(c) PROVE Dump!Next
  <2>1. /\ pc[c] = "replace" /\ buf' = [buf EXCEPT ![node[c].tlv] = Seg(c)]
        /\ cur' = cur /\ buf[node[c].tlv] = Empty /\ Filling(c)
    BY <1>4 DEF ReplaceTlv, Replaces, Filling
  <2>2. node[c].tlv \in Nodes BY <1>1, <2>1 DEF IInv, Held
  <2>3. \A d \in Callers : pc[d] # "append" BY <1>1, <2>1 DEF IInv, Alone
  <2>4. cur = Len(list) + 1 /\ cur \in 1 .. TlvRoom + 1 /\ list \in Seq(NodeSet)
    BY <1>1, <2>3 DEF IInv, Numbered, Types
  <2>5. node[c].tlv < cur /\ node[c].tlv \in 1 .. TlvRoom
    BY <2>2, <2>4, RoomOK DEF Nodes
  <2>7. cur' \in Nat /\ node[c].tlv < cur' /\ buf[node[c].tlv] \notin Segs
    BY <2>1, <2>4, <2>5, RoomOK, WordsOK
  <2>6. Dump!Add(Seg(c)) /\ Seg(c) \in Segs
    BY <2>1, <2>2, <2>5, <2>7, AddsOne
  <2> QED BY <2>6 DEF Dump!Next
<1>5. ASSUME NEW c \in Callers, AddTlv(c) PROVE Dump!Next
  <2>1. pc[c] = "append" /\ Filling(c)
    BY <1>1, <1>5 DEF AddTlv, Replaces, IInv, Held, Filling
  <2>2. node[c].tlv \in Nodes /\ node[c].tlv = Len(list) /\ cur <= TlvRoom
    BY <1>1, <2>1 DEF IInv, Held
  <2>3. cur = Len(list) /\ cur \in 1 .. TlvRoom
    BY <1>1, <2>1, <2>2, RoomOK DEF IInv, Numbered, Types
  <2>4. buf' = [buf EXCEPT ![cur] = Seg(c)] /\ cur' = cur + 1
    BY <1>5, <2>3, RoomOK DEF AddTlv
  <2>6. /\ cur' \in Nat /\ cur < cur' /\ cur \notin 1 .. cur - 1
        /\ \A p \in 1 .. cur' - 1 : p # cur => p \in 1 .. cur - 1
        /\ \A p \in 1 .. cur - 1 : p \in 1 .. cur' - 1
    BY <2>3, <2>4, RoomOK
  <2>7. cur = node[c].tlv BY <2>2, <2>3
  <2>5. Dump!Add(Seg(c)) /\ Seg(c) \in Segs
    BY <2>1, <2>2, <2>3, <2>4, <2>6, <2>7, AddsOne
  <2> QED BY <2>5 DEF Dump!Next
<1>6. ASSUME NEW s \in Segs, Remove(s.va) PROVE Dump!Next
  <2>1. Quiet BY <1>6 DEF OneAtATime, Remove, MayBegin
  <2>2. PICK i \in Nodes : Found(s.va, i) /\ buf' = EmptyTlv(i)
    BY <1>6 DEF Remove
  <2>3. /\ i \in Valid /\ list[i].seg.va = s.va /\ buf[i] = list[i].seg
        /\ buf' = [buf EXCEPT ![i] = Empty] /\ cur' = cur
    BY <1>1, <1>6, <2>1, <2>2
    DEF Found, EmptyTlv, Remove, IInv, Numbered, Filled, Filling, Quiet, Word, Valid
  <2>4. 1 .. cur - 1 = Nodes /\ cur \in 1 .. TlvRoom + 1
    BY <1>1, <2>1, RoomOK DEF IInv, Types, Numbered, Quiet, Nodes
  <2>5. \A p \in Nodes : buf'[p] = IF p = i THEN Empty ELSE buf[p]
    BY <1>1, <2>3, <2>4, RoomOK DEF IInv, Types
  <2>6. list[i].seg \in Segs
    <3>1. list \in Seq(NodeSet) BY <1>1 DEF IInv, Types
    <3>2. list[i] \in NodeSet BY <3>1 DEF Nodes
    <3> QED BY <3>2 DEF NodeSet
  <2>7. \A p \in Nodes : buf[p] = list[i].seg => p = i
    BY <1>1, <2>3, <2>4, <2>6, ListedTlv DEF UInv, Unique
  <2>8. Live' = Live \ {list[i].seg}
    BY <2>3, <2>4, <2>5, <2>6, <2>7, WordsOK DEF Live
  <2>9. list[i].seg \in Live BY <2>3, <2>4, <2>6 DEF Live
  <2> QED BY <2>3, <2>8, <2>9 DEF Dump!Next, Dump!Remove
<1>7. ASSUME Next, ~UNCHANGED <<buf, cur>> PROVE UNCHANGED Live \/ Dump!Next
  <2>1. \/ \E c \in Callers : ReplaceTlv(c) \/ AddTlv(c) \/ MarkEnd(c)
        \/ \E s \in Segs : Remove(s.va)
    BY <1>7 DEF Next, Reuse, NoneFree, Create, Link, LoadEnd, Test, Write
  <2> QED BY <1>3, <1>4, <1>5, <1>6, <2>1
<1> QED BY <1>2, <1>7 DEF vars

\* Additions and removals in their many steps change the set of segments that
\* the boot loader finds one by one, and never add an address and size twice.
THEOREM Implements == ASSUME OneAtATime PROVE Spec => ImplementsDumpList
<1>1. Init => Dump!Init BY DEF Init, Dump!Init, Live
<1>2. UInv /\ [Next]_vars => UInv' BY NextUInv
<1>3. UInv /\ UInv' /\ [Next]_vars => [Dump!Next]_Live BY NextDump
<1> QED
  BY <1>1, <1>2, <1>3, InitUInv, PTL DEF Spec, ImplementsDumpList, Dump!Spec
---------------------------------------------------------------------------
(* How the calls change the list.                                          *)

\* Nobody else is in a call while a caller is, and after its step.
LEMMA Others ==
  ASSUME IInv, NEW c \in Callers, pc[c] # "idle", NEW p, Goto(c, p)
  PROVE  \A d \in Callers : pc'[d] = IF d = c THEN p ELSE "idle"
BY DEF IInv, Types, Alone, Goto

LEMMA ReuseFacts ==
  ASSUME OneAtATime, IInv, NEW c \in Callers, NEW s \in Segs, Reuse(c, s)
  PROVE /\ Quiet
        /\ \A d \in Callers : pc'[d] = IF d = c THEN "replace" ELSE "idle"
        /\ \E i \in Nodes \ Valid :
             /\ Nodes' = Nodes /\ Valid' = Valid \cup {i}
             /\ \A j \in Nodes \ {i} : list'[j] = list[j]
             /\ list'[i] = node'[c] /\ node'[c].seg = s /\ node'[c].tlv = i
             /\ \A f \in File : node'[c].off[f] =
                  IF list[i].off[f] = None /\ f \in Lines(s) THEN at[f] ELSE list[i].off[f]
             /\ at' = Moved(list[i])
<1>1. Quiet BY DEF OneAtATime, Reuse, MayBegin
<1>2. PICK i \in Nodes :
        /\ First(i)
        /\ list' = [list EXCEPT ![i] = Reused(list[i], s)]
        /\ node' = [node EXCEPT ![c] = Reused(list[i], s)]
        /\ at' = Moved(list[i])
  BY DEF Reuse
<1> DEFINE n == Reused(list[i], s)
<1>3. list \in Seq(NodeSet) /\ i \notin Valid /\ list[i].tlv = i
  BY <1>2 DEF First, Valid, IInv, Types, Numbered
<1>4. /\ n.seg = s /\ n.valid /\ n.tlv = i
      /\ \A f \in File : n.off[f] =
           IF list[i].off[f] = None /\ f \in Lines(s) THEN at[f] ELSE list[i].off[f]
  BY <1>3 DEF Reused
<1> HIDE DEF n
<1>5. Len(list') = Len(list) /\ list'[i] = n /\ \A j \in Nodes \ {i} : list'[j] = list[j]
  BY <1>2, <1>3 DEF n, Nodes
<1>6. Nodes' = Nodes BY <1>5 DEF Nodes
<1>7. Valid' = Valid \cup {i} BY <1>4, <1>5, <1>6 DEF Valid
<1>8. node'[c] = n BY <1>2 DEF n, IInv, Types
<1>9. \A d \in Callers : pc'[d] = IF d = c THEN "replace" ELSE "idle"
  BY <1>1 DEF Quiet, Reuse, Goto, IInv, Types
<1> QED BY <1>1, <1>2, <1>3, <1>4, <1>5, <1>6, <1>7, <1>8, <1>9

LEMMA LinkFacts ==
  ASSUME IInv, NEW c \in Callers, Link(c)
  PROVE /\ \A d \in Callers : pc'[d] = IF d = c THEN "append" ELSE "idle"
        /\ UNCHANGED <<node, fileVars>>
        /\ \E i \in Int :
             /\ i \notin Nodes /\ Nodes' = Nodes \cup {i} /\ Valid' = Valid \cup {i}
             /\ \A j \in Nodes : list'[j] = list[j]
             /\ list'[i] = node[c] /\ node[c].tlv = i
<1>1. /\ pc[c] = "link" /\ node[c] \in NodeSet /\ node[c].valid
      /\ node[c].tlv = cur /\ list' = Append(list, node[c])
  BY DEF Link, IInv, Held
<1>2. \A d \in Callers : pc'[d] = IF d = c THEN "append" ELSE "idle"
  BY <1>1, Others DEF Link, Step
<1>3. \A d \in Callers : pc[d] # "append" BY <1>1 DEF IInv, Alone
<1>4. cur = Len(list) + 1 /\ list \in Seq(NodeSet) BY <1>3 DEF IInv, Numbered, Types
<1>5. /\ Len(list') = Len(list) + 1 /\ list'[cur] = node[c]
      /\ \A j \in Nodes : list'[j] = list[j]
  BY <1>1, <1>4 DEF Nodes
<1>6. Nodes' = Nodes \cup {cur} /\ cur \notin Nodes /\ cur \in Int BY <1>4, <1>5 DEF Nodes
<1>7. Valid' = Valid \cup {cur} BY <1>1, <1>5, <1>6 DEF Valid
<1>8. UNCHANGED <<node, fileVars>> BY DEF Link, Step
<1> QED BY <1>1, <1>2, <1>5, <1>6, <1>7, <1>8

LEMMA RemoveFacts ==
  ASSUME OneAtATime, IInv, NEW va, Remove(va)
  PROVE /\ Quiet
        /\ \E i \in Valid :
             /\ Nodes' = Nodes /\ Valid' = Valid \ {i}
             /\ \A j \in Nodes \ {i} : list'[j] = list[j]
             /\ \A j \in Nodes : list'[j].off = list[j].off
             /\ \A f \in File : list[i].off[f] # Wild
             /\ line' = Cleared(list[i])
             /\ len' = [f \in File |-> IF f \in Spilled(list[i]) THEN 0 ELSE len[f]]
             /\ at' = [f \in File |-> IF f \in Spilled(list[i]) THEN Gone(f) ELSE at[f]]
<1>1. Quiet BY DEF OneAtATime, Remove, MayBegin
<1>2. PICK i \in Nodes :
        /\ i \in Valid
        /\ \A f \in File : list[i].off[f] # Wild
        /\ list' = [list EXCEPT ![i].valid = FALSE]
        /\ line' = Cleared(list[i])
        /\ len' = [f \in File |-> IF f \in Spilled(list[i]) THEN 0 ELSE len[f]]
        /\ at' = [f \in File |-> IF f \in Spilled(list[i]) THEN Gone(f) ELSE at[f]]
  BY DEF Remove, Found
<1>3. list \in Seq(NodeSet) /\ list[i] \in NodeSet BY DEF IInv, Types, Nodes
<1>4. /\ Len(list') = Len(list) /\ ~list'[i].valid /\ list'[i].off = list[i].off
      /\ \A j \in Nodes \ {i} : list'[j] = list[j]
  BY <1>2, <1>3 DEF Nodes, NodeSet
<1>5. Nodes' = Nodes BY <1>4 DEF Nodes
<1>6. Valid' = Valid \ {i} BY <1>4, <1>5 DEF Valid
<1> QED BY <1>1, <1>2, <1>4, <1>5, <1>6

---------------------------------------------------------------------------
(* The header: num_seg is the number of segments in the list.              *)

\* Segments in the list.  A caller that makes a node has loaded their number.
CountInv ==
  /\ UInv
  /\ IsFiniteSet(Listing) /\ numSeg = Cardinality(Listing)
  /\ \A c \in Callers : pc[c] = "link" => seen[c] = numSeg

\* One more, when s was not in the list.
LEMMA OneMore ==
  ASSUME CountInv, NEW s, ~Listed(s), NEW i,
         Valid' = Valid \cup {i}, i \notin Valid,
         \A j \in Valid : list'[j] = list[j], list'[i].seg = s
  PROVE  IsFiniteSet(Listing)' /\ Cardinality(Listing)' = numSeg + 1
<1>1. Listing' = Listing \cup {s} BY DEF Listing
<1>2. s \notin Listing BY DEF Listing, Listed
<1> QED BY <1>1, <1>2, FS_AddElement DEF CountInv

LEMMA InitCount == Init => CountInv
<1> SUFFICES ASSUME Init PROVE CountInv OBVIOUS
<1>1. Listing = {} BY DEF Init, Listing, Valid, Nodes
<1>2. IsFiniteSet(Listing) /\ Cardinality(Listing) = 0 BY <1>1, FS_EmptySet
<1> QED BY <1>2, InitUInv DEF CountInv, Init

LEMMA NextCount == ASSUME OneAtATime, CountInv, [Next]_vars PROVE CountInv'
<1>1. IInv /\ UInv' BY NextUInv DEF CountInv, UInv
<1>2. ASSUME NEW c \in Callers, NEW s \in Segs, Reuse(c, s) PROVE CountInv'
  <2>1. PICK i \in Nodes \ Valid :
          /\ Valid' = Valid \cup {i}
          /\ \A j \in Nodes \ {i} : list'[j] = list[j]
          /\ list'[i] = node'[c] /\ node'[c].seg = s
    BY <1>1, <1>2, ReuseFacts
  <2>2. ~Listed(s) /\ numSeg' = numSeg + 1 BY <1>2 DEF Reuse, Counted
  <2>3. \A j \in Valid : list'[j] = list[j] BY <2>1 DEF Valid
  <2>4. IsFiniteSet(Listing)' /\ Cardinality(Listing)' = numSeg + 1 BY <2>1, <2>2, <2>3, OneMore
  <2>5. \A d \in Callers : pc'[d] # "link" BY <1>1, <1>2, ReuseFacts
  <2> QED BY <1>1, <2>2, <2>4, <2>5 DEF CountInv
<1>3. ASSUME NEW c \in Callers, Link(c) PROVE CountInv'
  <2>1. PICK i \in Int :
          /\ i \notin Nodes /\ Valid' = Valid \cup {i}
          /\ \A j \in Nodes : list'[j] = list[j]
          /\ list'[i] = node[c]
    BY <1>1, <1>3, LinkFacts
  <2>2. ~Listed(node[c].seg) /\ numSeg' = numSeg + 1
    BY <1>3 DEF Link, CountInv, UInv, Fresh
  <2>3. i \notin Valid /\ \A j \in Valid : list'[j] = list[j] BY <2>1 DEF Valid
  <2>4. IsFiniteSet(Listing)' /\ Cardinality(Listing)' = numSeg + 1 BY <2>1, <2>2, <2>3, OneMore
  <2>5. \A d \in Callers : pc'[d] # "link" BY <1>1, <1>3, LinkFacts
  <2> QED BY <1>1, <2>2, <2>4, <2>5 DEF CountInv
<1>4. ASSUME NEW va, Remove(va) PROVE CountInv'
  <2>1. PICK i \in Valid :
          /\ Valid' = Valid \ {i}
          /\ \A j \in Nodes \ {i} : list'[j] = list[j]
    BY <1>1, <1>4, RemoveFacts
  <2>2. \A j \in Valid : list[j].seg = list[i].seg => j = i BY DEF CountInv, UInv, Unique
  <2>3. \A j \in Valid \ {i} : list'[j] = list[j] BY <2>1 DEF Valid
  <2>4. Listing' = Listing \ {list[i].seg} BY <2>1, <2>2, <2>3 DEF Listing
  <2>5. list[i].seg \in Listing BY DEF Listing
  <2>6. IsFiniteSet(Listing)' /\ Cardinality(Listing)' = numSeg - 1
    BY <2>4, <2>5, FS_RemoveElement DEF CountInv
  <2>7. numSeg' = numSeg - 1 /\ Quiet /\ pc' = pc BY <1>1, <1>4, RemoveFacts DEF Remove
  <2> QED BY <1>1, <2>6, <2>7 DEF CountInv, Quiet
<1>5. ASSUME UNCHANGED <<list, numSeg>>,
             \A c \in Callers : pc'[c] = "link" => seen'[c] = numSeg
      PROVE  CountInv'
  <2>1. Listing' = Listing BY <1>5 DEF Listing, Valid, Nodes
  <2> QED BY <1>1, <1>5, <2>1 DEF CountInv
<1>6. ASSUME NEW c \in Callers, NEW s \in Segs, NoneFree(c, s) PROVE CountInv'
  BY <1>1, <1>5, <1>6 DEF NoneFree, Goto, listVars, CountInv, IInv, Types
<1>7. ASSUME NEW c \in Callers, Create(c) PROVE CountInv'
  <2>1. pc[c] = "new" /\ UNCHANGED <<list, numSeg>> BY <1>7 DEF Create, listVars
  <2>2. \E p \in Places : Goto(c, p) /\ (p = "link" => seen'[c] = numSeg)
    BY <1>1, <1>7 DEF Create, Step, Places, IInv, Types
  <2>3. \A d \in Callers : pc'[d] = "link" => d = c /\ seen'[c] = numSeg
    BY <1>1, <2>1, <2>2, Others
  <2> QED BY <1>5, <2>1, <2>3
<1>8. ASSUME NEW c \in Callers, UNCHANGED listVars, NEW p, p # "link", Goto(c, p),
             pc[c] # "idle"
      PROVE  CountInv'
  BY <1>1, <1>5, <1>8, Others DEF listVars
<1>9. ASSUME NEW c \in Callers, ReplaceTlv(c) \/ AddTlv(c) \/ LoadEnd(c) \/ MarkEnd(c)
      PROVE  CountInv'
  <2>1. PICK p \in {"ended", "idle", "mark", "mmu"} : Goto(c, p)
    BY <1>9 DEF ReplaceTlv, AddTlv, LoadEnd, MarkEnd, Step
  <2>2. pc[c] # "idle" /\ UNCHANGED listVars
    BY <1>9 DEF ReplaceTlv, Replaces, AddTlv, LoadEnd, MarkEnd
  <2> QED BY <1>8, <2>1, <2>2
<1>10. ASSUME NEW c \in Callers, NEW f \in File, Test(c, f) \/ Write(c, f) PROVE CountInv'
  <2>1. PICK p \in {"mod", "idle", "write mmu", "write mod"} : Goto(c, p)
    BY <1>10 DEF Test, Write, After, Writing, Step
  <2>2. pc[c] # "idle" /\ UNCHANGED listVars BY <1>10 DEF Test, Write, Writing, File
  <2> QED BY <1>8, <2>1, <2>2
<1>11. CASE UNCHANGED vars BY <1>5, <1>11 DEF vars, listVars, CountInv
<1>12. CASE Next
  BY <1>2, <1>3, <1>4, <1>6, <1>7, <1>9, <1>10, <1>12 DEF Next
<1> QED BY <1>11, <1>12

\* One call at a time: num_seg is the number of segments in the list, in every state.
THEOREM NumSegCorrect == ASSUME OneAtATime PROVE Spec => [](numSeg = Cardinality(Listing))
<1>1. CountInv /\ [Next]_vars => CountInv' BY NextCount
<1>2. CountInv => numSeg = Cardinality(Listing) BY DEF CountInv
<1> QED BY <1>1, <1>2, InitCount, PTL DEF Spec

\* What an open device was given: the list as it was, which while it is frozen it is.
DeviceInv ==
  /\ CountInv
  /\ opened => arrays = Listing /\ got \cup queue = arrays /\ Quiet

\* HeaderAgrees: while the list is still as long as the device is open, its header
\* agrees with its arrays, for every list that calls made one at a time before.
THEOREM HeaderCorrect ==
  ASSUME OneAtATime, Frozen PROVE DeviceSpec => []HeaderAgrees
<1>1. DeviceInit => DeviceInv BY InitCount DEF DeviceInit, DeviceInv
<1>2. DeviceInv /\ [DeviceNext]_<<vars, devVars>> => DeviceInv'
  <2> SUFFICES ASSUME DeviceInv, [DeviceNext]_<<vars, devVars>> PROVE DeviceInv' OBVIOUS
  <2>1. ASSUME UNCHANGED vars PROVE CountInv' /\ Listing' = Listing /\ Quiet' = Quiet
    BY <2>1, NextCount DEF DeviceInv, vars, listVars, Listing, Valid, Nodes, Quiet
  <2>2. CASE Change
    <3>1. ~opened /\ ~opened' BY <2>2 DEF Change, devVars
    <3>2. CountInv' BY <2>2, NextCount DEF Change, DeviceInv
    <3> QED BY <3>1, <3>2 DEF DeviceInv
  <2>3. CASE DoMinidump BY <2>1, <2>3 DEF DoMinidump, DeviceInv
  <2>4. CASE Open BY <2>1, <2>4 DEF Open, DeviceInv
  <2>5. CASE Read BY <2>1, <2>5 DEF Read, DeviceInv
  <2>6. CASE Release BY <2>1, <2>6 DEF Release, DeviceInv
  <2>7. CASE UNCHANGED <<vars, devVars>> BY <2>1, <2>7 DEF devVars, DeviceInv
  <2> QED BY <2>2, <2>3, <2>4, <2>5, <2>6, <2>7 DEF DeviceNext
<1>3. DeviceInv => HeaderAgrees BY DEF DeviceInv, HeaderAgrees, CountInv
<1> QED BY <1>1, <1>2, <1>3, PTL DEF DeviceSpec

\* The device only looks at the list: mini_dump_open, read and release leave the segments,
\* the buffer and the files to the calls, so what holds of Minidump holds beneath a device.
THEOREM DeviceKeeps == DeviceSpec => Spec
<1>1. DeviceInit => Init BY DEF DeviceInit
<1>2. [DeviceNext]_<<vars, devVars>> => [Next]_vars
  BY DEF DeviceNext, Change, DoMinidump, Open, Read, Release
<1> QED BY <1>1, <1>2, PTL DEF DeviceSpec, Spec

---------------------------------------------------------------------------
(* The lines of the files.                                                 *)

\* The words in the files.
Page(f) == [1 .. Room[f] -> Segs \cup {Blank}]
Pages   == UNION {Page(f) : f \in File}
LineTypes == line \in [File -> Pages] /\ \A f \in File : line[f] \in Page(f)

LEMMA Paged == \A f \in File : Page(f) \subseteq Pages
BY DEF Pages

\* A line belongs to a segment in the list, whose node knows it.
Owned ==
  \A f \in File : \A l \in 1 .. Room[f] : line[f][l] # Blank =>
    \E i \in Valid : list[i].off[f] = l /\ list[i].seg = line[f][l]

\* Once a caller's node is in the list it stays as it is until the call ends, and in
\* the files it still has to write the next line is that of its node.
Known(c) == pc[c] \notin {"idle", "new", "link"}
Ahead(c) == IF pc[c] \in {"mod", "write mod"} THEN {"mod"} ELSE File
Aims(c) == \A f \in Lines(Seg(c)) \cap Ahead(c) : node[c].off[f] = at[f]
Placed(c) ==
  /\ Known(c) => node[c].tlv \in Valid /\ list[node[c].tlv] = node[c] /\ Aims(c)
  /\ pc[c] = "link" => Aims(c)
  /\ pc[c] \in {"mod", "write mod"} => Seg(c).named
LineInv == LineTypes /\ Owned /\ \A c \in Callers : Placed(c)

LEMMA InitLine == Init => LineInv
<1> SUFFICES ASSUME Init PROVE LineInv OBVIOUS
<1>1. line = [f \in File |-> [l \in 1 .. Room[f] |-> Blank]] BY DEF Init
<1>2. \A f \in File : line[f] = [l \in 1 .. Room[f] |-> Blank] BY <1>1
<1>3. LineTypes
  <2>1. \A f \in File : line[f] \in Page(f) BY <1>2 DEF Page
  <2> QED BY <1>1, <2>1, Paged DEF LineTypes
<1>4. \A f \in File : \A l \in 1 .. Room[f] : line[f][l] = Blank BY <1>2
<1>5. Owned BY <1>4 DEF Owned
<1>6. \A c \in Callers : Placed(c) BY DEF Init, Placed, Known
<1> QED BY <1>3, <1>5, <1>6 DEF LineInv

\* With list and lines as they were, what counts is where the caller stands.
LEMMA SameLines ==
  ASSUME LineInv, UNCHANGED <<list, line>>, \A c \in Callers : Placed(c)'
  PROVE  LineInv'
BY DEF LineInv, LineTypes, Owned, Valid, Nodes

\* A caller whose node is in the list goes on, and leaves list, lines and offsets alone.
LEMMA GoesOn ==
  ASSUME IInv, LineInv, NEW c \in Callers, Known(c), NEW p \in Places, Step(c, p),
         p \notin {"new", "link"},
         p \in {"mod", "write mod"} => Seg(c).named,
         pc[c] \in {"mod", "write mod"} => p \in {"mod", "write mod", "idle"},
         UNCHANGED <<list, line, at>>
  PROVE  LineInv'
<1>1. pc[c] # "idle" BY DEF Known
<1>2. \A d \in Callers : pc'[d] = IF d = c THEN p ELSE "idle" BY <1>1, Others DEF Step
<1>3. p # "idle" => node' = node BY DEF Step
<1>4. node[c].tlv \in Valid /\ list[node[c].tlv] = node[c] /\ Aims(c) BY DEF LineInv, Placed
<1>5. Valid' = Valid BY DEF Valid, Nodes
<1>6. p # "idle" => Aims(c)' BY <1>2, <1>3, <1>4 DEF Aims, Ahead, Seg, Lines, File
<1>7. Placed(c)' BY <1>2, <1>3, <1>4, <1>5, <1>6 DEF Placed, Known, Seg
<1>8. \A d \in Callers : Placed(d)' BY <1>2, <1>7 DEF Placed, Known
<1> QED BY <1>8, SameLines

LEMMA WriteLine ==
  ASSUME IInv, LineInv, NEW c \in Callers, NEW f \in File, Write(c, f) PROVE LineInv'
<1> DEFINE p == After(c, f)
<1>1. pc[c] = Writing(f) /\ Step(c, p) /\ UNCHANGED list BY DEF Write, listVars
<1>2. pc[c] \in {"write mmu", "write mod"} /\ f \in {"mmu", "mod"} BY <1>1 DEF Writing, File
<1>3. p \in {"mod", "idle"} /\ (p = "mod" => Seg(c).named /\ f = "mmu") BY DEF After
<1> HIDE DEF p
<1>4. \A d \in Callers : pc'[d] = IF d = c THEN p ELSE "idle" BY <1>1, <1>2, Others DEF Step
<1>5. /\ node[c].tlv \in Valid /\ list[node[c].tlv] = node[c] /\ Aims(c)
      /\ pc[c] = "write mod" => Seg(c).named
  BY <1>2 DEF LineInv, Placed, Known
<1>6. f \in Lines(Seg(c)) \cap Ahead(c) BY <1>1, <1>5 DEF Lines, Ahead, Writing, File
<1>7. node[c].off[f] = at[f] BY <1>5, <1>6 DEF Aims
<1>8. at \in [File -> Int] /\ at' \in [File -> Int] /\ \A g \in File \ {f} : at'[g] = at[g]
  <2>1. at \in [File -> Int] /\ at' \in [File -> Int] BY WriteStep DEF IInv, Types
  <2> QED BY <2>1 DEF Write
<1>9. Valid' = Valid BY <1>1 DEF Valid, Nodes
<1>10. ASSUME p = "mod" PROVE Placed(c)'
  <2>1. node' = node /\ pc'[c] = "mod" BY <1>1, <1>4, <1>10 DEF Step
  <2>2. Aims(c)'
    <3>1. at'["mod"] = at["mod"] /\ "mod" \in Lines(Seg(c)) /\ "mod" \in File
      BY <1>3, <1>8, <1>10 DEF Lines, File
    <3>2. node[c].off["mod"] = at["mod"]
      BY <1>1, <1>3, <1>5, <1>10, <3>1 DEF Aims, Ahead, Writing
    <3> QED BY <2>1, <3>1, <3>2 DEF Aims, Ahead
  <2> QED BY <1>1, <1>3, <1>5, <1>9, <1>10, <2>1, <2>2 DEF Placed, Known, Seg
<1>11. \A d \in Callers : Placed(d)' BY <1>3, <1>4, <1>10 DEF Placed, Known
<1>12. CASE ~InFile(f, at[f]) BY <1>1, <1>11, <1>12, SameLines DEF Write
<1>13. CASE InFile(f, at[f])
  <2>1. line' = [line EXCEPT ![f][at[f]] = Seg(c)] BY <1>13 DEF Write
  <2>2. /\ \A g \in File \ {f} : line'[g] = line[g]
        /\ line'[f] = [line[f] EXCEPT ![at[f]] = Seg(c)]
    BY <2>1 DEF LineInv, LineTypes
  <2>3. Seg(c) \in Segs BY <1>2 DEF IInv, Held, Seg
  <2>4. LineTypes'
    <3>1. line'[f] \in Page(f) BY <2>2, <2>3 DEF LineInv, LineTypes, Page
    <3>2. \A g \in File : line'[g] \in Page(g) BY <2>2, <3>1 DEF LineInv, LineTypes
    <3>3. line' = [line EXCEPT ![f] = line'[f]] BY <2>1, <2>2 DEF LineInv, LineTypes
    <3>4. line' \in [File -> Pages] BY <3>1, <3>3, Paged DEF LineInv, LineTypes
    <3> QED BY <3>2, <3>4 DEF LineTypes
  <2>5. at[f] \in 1 .. Room[f] BY <1>13 DEF InFile
  <2>6. \A l \in 1 .. Room[f] : line'[f][l] = IF l = at[f] THEN Seg(c) ELSE line[f][l]
    BY <2>2, <2>5 DEF LineInv, LineTypes, Page
  <2>7. ASSUME NEW g \in File, NEW l \in 1 .. Room[g], line'[g][l] # Blank
        PROVE \E i \in Valid : list[i].off[g] = l /\ list[i].seg = line'[g][l]
    <3>1. CASE g = f /\ l = at[f]
      <4>1. line'[g][l] = Seg(c) BY <2>6, <3>1
      <4> QED BY <1>5, <1>7, <3>1, <4>1 DEF Seg
    <3>2. CASE ~(g = f /\ l = at[f])
      <4>1. line'[g][l] = line[g][l] BY <2>2, <2>6, <3>2
      <4> QED BY <2>7, <4>1 DEF LineInv, Owned
    <3> QED BY <3>1, <3>2
  <2>8. Owned' BY <1>1, <1>9, <2>7 DEF Owned
  <2> QED BY <1>11, <2>4, <2>8 DEF LineInv
<1> QED BY <1>12, <1>13

LEMMA RemoveLine ==
  ASSUME OneAtATime, IInv, LineInv, NEW va, Remove(va) PROVE LineInv'
<1>1. Quiet /\ pc' = pc BY RemoveFacts DEF Remove
<1>2. PICK i \in Valid :
        /\ Valid' = Valid \ {i}
        /\ \A j \in Nodes \ {i} : list'[j] = list[j]
        /\ line' = Cleared(list[i])
  BY RemoveFacts
<1>3. \A d \in Callers : Placed(d)' BY <1>1 DEF Placed, Known, Quiet
<1> DEFINE Rest(f) == [l \in 1 .. Room[f] |->
             IF f \in Erased(list[i]) /\ l = list[i].off[f] THEN Blank ELSE line[f][l]]
<1>4. line' = [f \in File |-> Rest(f)] BY <1>2 DEF Cleared
<1>5. LineTypes'
  <2>1. \A f \in File : Rest(f) \in Page(f) BY DEF LineInv, LineTypes, Page
  <2>2. \A f \in File : Rest(f) \in Pages BY <2>1, Paged
  <2> HIDE DEF Rest
  <2> QED BY <1>4, <2>1, <2>2 DEF LineTypes
<1>6. ASSUME NEW f \in File, NEW l \in 1 .. Room[f], line'[f][l] # Blank
      PROVE \E j \in Valid \ {i} : list'[j].off[f] = l /\ list'[j].seg = line'[f][l]
  <2>1. line'[f][l] = line[f][l] /\ ~(f \in Erased(list[i]) /\ l = list[i].off[f])
    <3>1. line'[f] = Rest(f) BY <1>4
    <3>2. line'[f][l] = IF f \in Erased(list[i]) /\ l = list[i].off[f] THEN Blank ELSE line[f][l]
      BY <3>1
    <3> QED BY <1>6, <3>2
  <2>2. list[i].off[f] # l BY <2>1 DEF Erased, None
  <2>3. PICK j \in Valid : list[j].off[f] = l /\ list[j].seg = line[f][l]
    BY <1>6, <2>1 DEF LineInv, Owned
  <2>4. j # i /\ list'[j] = list[j] BY <1>2, <2>2, <2>3 DEF Valid
  <2> QED BY <2>1, <2>3, <2>4
<1>7. Owned' BY <1>2, <1>6 DEF Owned
<1> QED BY <1>3, <1>5, <1>7 DEF LineInv

LEMMA NextLine == ASSUME OneAtATime, IInv, LineInv, [Next]_vars PROVE LineInv'
<1>1. ASSUME NEW c \in Callers, NEW s \in Segs, Reuse(c, s) PROVE LineInv'
  <2>1. PICK i \in Nodes \ Valid :
          /\ Nodes' = Nodes /\ Valid' = Valid \cup {i}
          /\ \A j \in Nodes \ {i} : list'[j] = list[j]
          /\ list'[i] = node'[c] /\ node'[c].seg = s /\ node'[c].tlv = i
          /\ \A f \in File : node'[c].off[f] =
               IF list[i].off[f] = None /\ f \in Lines(s) THEN at[f] ELSE list[i].off[f]
          /\ at' = Moved(list[i])
    BY <1>1, ReuseFacts
  <2>2. UNCHANGED line BY <1>1 DEF Reuse
  <2>3. LineTypes' BY <2>2 DEF LineInv, LineTypes
  <2>4. Owned' BY <2>1, <2>2 DEF LineInv, Owned, Valid
  <2>5. \A d \in Callers : pc'[d] = IF d = c THEN "replace" ELSE "idle" BY <1>1, ReuseFacts
  <2>6. Aims(c)'
    <3>1. Lines(Seg(c))' = Lines(s) /\ Lines(s) \subseteq File BY <2>1 DEF Seg, Lines, File
    <3>2. \A f \in File : at'[f] = IF list[i].off[f] = None THEN at[f] ELSE list[i].off[f]
      BY <2>1 DEF Moved
    <3>3. \A f \in Lines(s) : node'[c].off[f] = at'[f] BY <2>1, <3>1, <3>2
    <3> QED BY <3>1, <3>3 DEF Aims
  <2>7. Placed(c)' BY <2>1, <2>5, <2>6 DEF Placed
  <2>8. \A d \in Callers : Placed(d)' BY <2>5, <2>7 DEF Placed, Known
  <2> QED BY <2>3, <2>4, <2>8 DEF LineInv
<1>2. ASSUME NEW c \in Callers, NEW s \in Segs, NoneFree(c, s) PROVE LineInv'
  <2>1. Quiet /\ UNCHANGED <<list, line>>
    BY <1>2 DEF OneAtATime, NoneFree, MayBegin, listVars, fileVars
  <2>2. \A d \in Callers : pc'[d] \in {"idle", "new"}
    BY <1>2, <2>1 DEF NoneFree, Goto, Quiet, IInv, Types
  <2> QED BY <2>1, <2>2, SameLines DEF Placed, Known
<1>3. ASSUME NEW c \in Callers, Create(c) PROVE LineInv'
  <2>1. pc[c] = "new" /\ UNCHANGED <<list, line, at>> BY <1>3 DEF Create, listVars, fileVars
  <2>2. CASE Full
    <3>1. \A d \in Callers : pc'[d] = "idle" BY <1>3, <2>1, <2>2, Others DEF Create, Step
    <3> QED BY <2>1, <3>1, SameLines DEF Placed, Known
  <2>3. CASE ~Full
    <3>1. \A d \in Callers : pc'[d] = IF d = c THEN "link" ELSE "idle"
      BY <1>3, <2>1, <2>3, Others DEF Create
    <3>2. node'[c] = NewNode(Seg(c)) BY <1>3, <2>3 DEF Create, IInv, Types
    <3>3. Aims(c)'
      <4>1. Lines(Seg(c))' = Lines(Seg(c)) /\ Lines(Seg(c)) \subseteq File
        BY <3>2 DEF NewNode, Seg, Lines, File
      <4>2. \A f \in Lines(Seg(c)) : node'[c].off[f] = at[f] BY <3>2, <4>1 DEF NewNode
      <4> QED BY <2>1, <4>1, <4>2 DEF Aims
    <3>4. \A d \in Callers : Placed(d)' BY <3>1, <3>3 DEF Placed, Known
    <3> QED BY <2>1, <3>4, SameLines
  <2> QED BY <2>2, <2>3
<1>4. ASSUME NEW c \in Callers, Link(c) PROVE LineInv'
  <2>1. PICK i \in Int :
          /\ i \notin Nodes /\ Valid' = Valid \cup {i}
          /\ \A j \in Nodes : list'[j] = list[j]
          /\ list'[i] = node[c] /\ node[c].tlv = i
    BY <1>4, LinkFacts
  <2>2. UNCHANGED <<node, line, at>> BY <1>4, LinkFacts DEF fileVars
  <2>3. LineTypes' BY <2>2 DEF LineInv, LineTypes
  <2>4. Owned' BY <2>1, <2>2 DEF LineInv, Owned, Valid
  <2>5. \A d \in Callers : pc'[d] = IF d = c THEN "append" ELSE "idle" BY <1>4, LinkFacts
  <2>6. pc[c] = "link" /\ Aims(c) BY <1>4 DEF Link, LineInv, Placed
  <2>7. Aims(c)' BY <2>2, <2>5, <2>6 DEF Aims, Ahead, Seg, Lines
  <2>8. Placed(c)' BY <2>1, <2>2, <2>5, <2>7 DEF Placed
  <2>9. \A d \in Callers : Placed(d)' BY <2>5, <2>8 DEF Placed, Known
  <2> QED BY <2>3, <2>4, <2>9 DEF LineInv
<1>5. ASSUME NEW c \in Callers, ReplaceTlv(c) \/ AddTlv(c) \/ MarkEnd(c) PROVE LineInv'
  <2>1. PICK p \in {"ended", "idle", "mmu"} : Step(c, p)
    BY <1>5 DEF ReplaceTlv, AddTlv, MarkEnd
  <2>2. pc[c] \in {"replace", "append", "mark"} /\ UNCHANGED <<list, line, at>>
    BY <1>5 DEF ReplaceTlv, Replaces, AddTlv, MarkEnd, listVars, fileVars
  <2> QED BY <2>1, <2>2, GoesOn DEF Known, Places
<1>6. ASSUME NEW c \in Callers, LoadEnd(c) PROVE LineInv'
  <2>1. pc[c] = "ended" /\ Goto(c, "mark") /\ UNCHANGED <<list, line, at, node>>
    BY <1>6 DEF LoadEnd, listVars, fileVars
  <2>2. \A d \in Callers : pc'[d] = IF d = c THEN "mark" ELSE "idle" BY <2>1, Others
  <2>3. node[c].tlv \in Valid /\ list[node[c].tlv] = node[c] /\ Aims(c)
    BY <2>1 DEF LineInv, Placed, Known
  <2>4. Aims(c)' BY <2>1, <2>2, <2>3 DEF Aims, Ahead, Seg, Lines
  <2>5. Placed(c)' BY <2>1, <2>2, <2>3, <2>4 DEF Placed, Valid, Nodes
  <2>6. \A d \in Callers : Placed(d)' BY <2>2, <2>5 DEF Placed, Known
  <2> QED BY <2>1, <2>6, SameLines
<1>7. ASSUME NEW c \in Callers, NEW f \in File, Test(c, f) PROVE LineInv'
  <2>1. PICK p \in {After(c, f), Writing(f)} : Step(c, p) BY <1>7 DEF Test
  <2>2. pc[c] = f /\ f \in {"mod", "mmu"} /\ UNCHANGED <<list, line, at>>
    BY <1>7 DEF Test, listVars, fileVars, File
  <2>3. Known(c) BY <2>2 DEF Known
  <2>4. pc[c] = "mod" => Seg(c).named BY DEF LineInv, Placed
  <2>5. /\ p \in {"mod", "idle", "write mmu", "write mod"}
        /\ p \in {"mod", "write mod"} => Seg(c).named
        /\ pc[c] = "mod" => p \in {"write mod", "idle"}
    BY <2>2, <2>4 DEF After, Writing
  <2>6. p \in Places BY <2>5 DEF Places
  <2> QED BY <2>1, <2>2, <2>3, <2>5, <2>6, GoesOn
<1>8. CASE UNCHANGED vars
  <2>1. UNCHANGED <<list, line, at, pc, node>> BY <1>8 DEF vars, listVars, fileVars
  <2>2. \A c \in Callers : Placed(c)'
    BY <2>1 DEF LineInv, Placed, Known, Aims, Ahead, Seg, Lines, Valid, Nodes
  <2> QED BY <2>1, <2>2, SameLines
<1>9. CASE Next
  BY <1>1, <1>2, <1>3, <1>4, <1>5, <1>6, <1>7, <1>9, WriteLine, RemoveLine DEF Next
<1> QED BY <1>8, <1>9

\* One call at a time: no line of either file outlives its segment, full files or not.
THEOREM OwnedCorrect == ASSUME OneAtATime PROVE Spec => []Owned
<1>1. IInv /\ LineInv /\ [Next]_vars => IInv' /\ LineInv' BY NextIInv, NextLine
<1>2. LineInv => Owned BY DEF LineInv
<1> QED BY <1>1, <1>2, InitIInv, InitLine, PTL DEF Spec

\* While MMU_INFO has room every node has a line of its own there, which holds its
\* segment unless a caller has still to write it, and the offset is behind the last.
ToWrite(c) == pc[c] \in {"replace", "append", "ended", "mark", "mmu", "write mmu"}
Mmu(i) == list[i].off["mmu"]
Due(i) == \E c \in Callers : ToWrite(c) /\ node[c].tlv = i
MmuInv ==
  /\ len["mmu"] \in 0 .. Room["mmu"]
  /\ \A i, j \in Nodes : Mmu(i) = Mmu(j) => i = j
  /\ \A i \in Nodes : Mmu(i) \in 1 .. len["mmu"] \/ (Due(i) /\ Mmu(i) = len["mmu"] + 1)
  /\ (\A c \in Callers : ~ToWrite(c)) => at["mmu"] = len["mmu"] + 1
  /\ \A i \in Valid : Due(i) \/ line["mmu"][Mmu(i)] = list[i].seg

\* MMU_INFO and who has to write it are as they were.
LEMMA SameMmu ==
  ASSUME MmuInv, UNCHANGED list, line'["mmu"] = line["mmu"],
         len'["mmu"] = len["mmu"], at'["mmu"] = at["mmu"],
         \A c \in Callers : ToWrite(c)' <=> ToWrite(c),
         \A c \in Callers : ToWrite(c) => node'[c].tlv = node[c].tlv
  PROVE  MmuInv'
<1>1. \A i : Due(i)' <=> Due(i) BY DEF Due
<1>2. Nodes' = Nodes /\ Valid' = Valid /\ \A i : Mmu(i)' = Mmu(i) BY DEF Nodes, Valid, Mmu
<1> QED BY <1>1, <1>2 DEF MmuInv

LEMMA InitMmu == Init => MmuInv
<1> SUFFICES ASSUME Init PROVE MmuInv OBVIOUS
<1>1. Nodes = {} /\ Valid = {} BY DEF Init, Nodes, Valid
<1>2. len["mmu"] = 0 /\ at["mmu"] = 1 BY DEF Init, File
<1>3. Room["mmu"] \in Nat BY RoomOK DEF File
<1> QED BY <1>1, <1>2, <1>3 DEF MmuInv

LEMMA WriteMmu ==
  ASSUME IInv, LineInv, MmuInv, ~FileFull("mmu"), NEW c \in Callers, Write(c, "mmu")
  PROVE  MmuInv'
<1> DEFINE i == node[c].tlv
           L == len["mmu"]
           p == After(c, "mmu")
<1>1. pc[c] = "write mmu" /\ Step(c, p) /\ UNCHANGED list BY DEF Write, Writing, listVars
<1>2. p \in {"mod", "idle"} BY DEF After
<1> HIDE DEF p
<1>3. \A d \in Callers : ~ToWrite(d)'
  <2>1. \A d \in Callers : pc'[d] = IF d = c THEN p ELSE "idle" BY <1>1, Others DEF Step
  <2> QED BY <1>2, <2>1 DEF ToWrite
<1>4. i \in Valid /\ list[i] = node[c] /\ Aims(c) BY <1>1 DEF LineInv, Placed, Known
<1>5. at["mmu"] = Mmu(i) BY <1>1, <1>4 DEF Aims, Ahead, Lines, Mmu, File
<1>6. L \in Nat /\ L < Room["mmu"] /\ Room["mmu"] \in Nat
  BY RoomOK DEF MmuInv, FileFull, File
<1>7. Mmu(i) \in 1 .. L \/ Mmu(i) = L + 1 BY <1>4 DEF MmuInv, Valid
<1>8. InFile("mmu", at["mmu"]) BY <1>5, <1>6, <1>7 DEF InFile
<1>9. /\ line' = [line EXCEPT !["mmu"][at["mmu"]] = Seg(c)]
      /\ len' = [len EXCEPT !["mmu"] = Grown("mmu")]
      /\ at' = [at EXCEPT !["mmu"] = Grown("mmu") + 1]
  BY <1>8 DEF Write
<1>10. "mmu" \in File BY DEF File
<1>11. len'["mmu"] = Grown("mmu") /\ at'["mmu"] = Grown("mmu") + 1
  BY <1>9, <1>10 DEF IInv, Types
<1>12. Grown("mmu") = IF Mmu(i) = L + 1 THEN L + 1 ELSE L BY <1>5 DEF Grown
<1>13. line'["mmu"] = [line["mmu"] EXCEPT ![Mmu(i)] = Seg(c)]
  BY <1>5, <1>9, <1>10 DEF LineInv, LineTypes
<1>14. \A l \in 1 .. Room["mmu"] :
         line'["mmu"][l] = IF l = Mmu(i) THEN Seg(c) ELSE line["mmu"][l]
  BY <1>10, <1>13 DEF LineInv, LineTypes, Page
<1>15. Nodes' = Nodes /\ Valid' = Valid /\ \A j : Mmu(j)' = Mmu(j) /\ ~Due(j)'
  BY <1>1, <1>3 DEF Nodes, Valid, Mmu, Due
<1>16. \A j \in Nodes : Due(j) => j = i
  BY <1>1 DEF Due, IInv, Alone, ToWrite
<1>17. \A j \in Nodes : Mmu(j) \in 1 .. L \/ (j = i /\ Mmu(j) = L + 1)
  BY <1>16 DEF MmuInv
<1>18. \A j \in Nodes : Mmu(j)' \in 1 .. len'["mmu"]
  BY <1>6, <1>7, <1>11, <1>12, <1>15, <1>17
<1>19. \A j \in Valid : line'["mmu"][Mmu(j)] = list[j].seg
  <2> TAKE j \in Valid
  <2>1. j \in Nodes /\ Mmu(j) \in 1 .. Room["mmu"]
    BY <1>6, <1>17 DEF Valid
  <2>2. CASE j = i BY <1>4, <1>14, <2>1, <2>2 DEF Seg
  <2>3. CASE j # i
    <3>1. Mmu(j) # Mmu(i) BY <1>4, <2>1, <2>3 DEF MmuInv, Valid
    <3>2. line["mmu"][Mmu(j)] = list[j].seg BY <1>16, <2>1, <2>3 DEF MmuInv
    <3> QED BY <1>14, <2>1, <3>1, <3>2
  <2> QED BY <2>2, <2>3
<1>20. len'["mmu"] \in 0 .. Room["mmu"] BY <1>6, <1>11, <1>12
<1>21. \A j, k \in Nodes : Mmu(j) = Mmu(k) => j = k BY DEF MmuInv
<1>22. list' = list BY <1>1
<1> QED BY <1>11, <1>15, <1>18, <1>19, <1>20, <1>21, <1>22 DEF MmuInv

LEMMA RemoveMmu ==
  ASSUME OneAtATime, IInv, LineInv, MmuInv, NEW va, Remove(va) PROVE MmuInv'
<1>1. Quiet /\ pc' = pc BY RemoveFacts DEF Remove
<1>2. PICK i \in Valid :
        /\ Nodes' = Nodes /\ Valid' = Valid \ {i}
        /\ \A j \in Nodes \ {i} : list'[j] = list[j]
        /\ \A j \in Nodes : list'[j].off = list[j].off
        /\ line' = Cleared(list[i])
        /\ len' = [f \in File |-> IF f \in Spilled(list[i]) THEN 0 ELSE len[f]]
        /\ at' = [f \in File |-> IF f \in Spilled(list[i]) THEN Gone(f) ELSE at[f]]
  BY RemoveFacts
<1>3. \A c \in Callers : ~ToWrite(c) /\ ~ToWrite(c)' BY <1>1 DEF ToWrite, Quiet
<1>4. \A j : ~Due(j) /\ ~Due(j)' BY <1>3 DEF Due
<1>5. \A j \in Nodes : Mmu(j) \in 1 .. len["mmu"] /\ Mmu(j)' = Mmu(j)
  BY <1>2, <1>4 DEF MmuInv, Mmu
<1>6. len["mmu"] \in 0 .. Room["mmu"] /\ Room["mmu"] \in Nat /\ "mmu" \in File
  BY RoomOK DEF MmuInv, File
<1>7. "mmu" \notin Spilled(list[i])
  <2>1. Mmu(i) <= Room["mmu"] BY <1>5, <1>6 DEF Valid
  <2>2. Mmu(i) \in Nat BY <1>5, <1>6 DEF Valid
  <2> QED BY <1>6, <2>1, <2>2 DEF Spilled, Mmu
<1>8. len'["mmu"] = len["mmu"] /\ at'["mmu"] = at["mmu"] BY <1>2, <1>6, <1>7
<1>9. \A l \in 1 .. Room["mmu"] : l # Mmu(i) => line'["mmu"][l] = line["mmu"][l]
  <2>1. line'["mmu"] = [l \in 1 .. Room["mmu"] |->
          IF "mmu" \in Erased(list[i]) /\ l = list[i].off["mmu"] THEN Blank ELSE line["mmu"][l]]
    BY <1>2, <1>6 DEF Cleared
  <2> QED BY <2>1 DEF Mmu
<1>10. \A j \in Valid \ {i} : line'["mmu"][Mmu(j)] = list[j].seg
  <2> TAKE j \in Valid \ {i}
  <2>1. Mmu(j) # Mmu(i) /\ j \in Nodes BY DEF MmuInv, Valid
  <2>2. Mmu(j) \in 1 .. Room["mmu"] BY <1>5, <1>6, <2>1
  <2>3. line["mmu"][Mmu(j)] = list[j].seg BY <1>4 DEF MmuInv
  <2> QED BY <1>9, <2>1, <2>2, <2>3
<1>11. \A j \in Valid' : j \in Nodes /\ line'["mmu"][Mmu(j)'] = list'[j].seg
  BY <1>2, <1>5, <1>10 DEF Valid
<1>12. \A j, k \in Nodes : Mmu(j)' = Mmu(k)' => j = k BY <1>5 DEF MmuInv
<1>13. at["mmu"] = len["mmu"] + 1 BY <1>3 DEF MmuInv
<1> QED BY <1>2, <1>5, <1>6, <1>8, <1>11, <1>12, <1>13 DEF MmuInv

LEMMA NextMmu ==
  ASSUME OneAtATime, IInv, LineInv, MmuInv, ~FileFull("mmu"), [Next]_vars PROVE MmuInv'
<1> DEFINE L == len["mmu"]
<1>1. ASSUME NEW c \in Callers, NEW s \in Segs, Reuse(c, s) PROVE MmuInv'
  <2>1. PICK i \in Nodes \ Valid :
          /\ Nodes' = Nodes /\ Valid' = Valid \cup {i}
          /\ \A j \in Nodes \ {i} : list'[j] = list[j]
          /\ list'[i] = node'[c] /\ node'[c].tlv = i
          /\ \A f \in File : node'[c].off[f] =
               IF list[i].off[f] = None /\ f \in Lines(s) THEN at[f] ELSE list[i].off[f]
    BY <1>1, ReuseFacts
  <2>2. \A d \in Callers : ~ToWrite(d) BY <1>1, ReuseFacts DEF Quiet, ToWrite
  <2>3. \A j : ~Due(j) BY <2>2 DEF Due
  <2>4. \A j \in Nodes : Mmu(j) \in 1 .. L BY <2>3 DEF MmuInv
  <2>5. L \in Nat BY DEF MmuInv
  <2>6. list'[i].off["mmu"] = list[i].off["mmu"]
    <3>1. list[i].off["mmu"] # None BY <2>4, <2>5 DEF Mmu, None
    <3> QED BY <2>1, <3>1 DEF File
  <2>7. \A j \in Nodes : Mmu(j)' = Mmu(j) BY <2>1, <2>6 DEF Mmu
  <2>8. ToWrite(c)' /\ Due(i)' BY <1>1, <2>1, ReuseFacts DEF ToWrite, Due
  <2>9. UNCHANGED <<line, len>> BY <1>1 DEF Reuse
  <2>10. \A j \in Valid : list'[j] = list[j] /\ j \in Nodes BY <2>1 DEF Valid
  <2>11. \A j \in Valid' : Due(j)' \/ line'["mmu"][Mmu(j)'] = list'[j].seg
    BY <2>1, <2>3, <2>7, <2>8, <2>9, <2>10 DEF MmuInv
  <2>12. \A j, k \in Nodes : Mmu(j)' = Mmu(k)' => j = k BY <2>7 DEF MmuInv
  <2>13. \A j \in Nodes' : Mmu(j)' \in 1 .. len'["mmu"] BY <2>1, <2>4, <2>7, <2>9
  <2>14. len'["mmu"] \in 0 .. Room["mmu"] BY <2>9 DEF MmuInv
  <2> QED BY <2>1, <2>8, <2>11, <2>12, <2>13, <2>14 DEF MmuInv
<1>2. ASSUME NEW c \in Callers, NEW s \in Segs, NoneFree(c, s) PROVE MmuInv'
  <2>1. Quiet /\ UNCHANGED <<list, line, len, at>>
    BY <1>2 DEF OneAtATime, NoneFree, MayBegin, listVars, fileVars
  <2>2. \A d \in Callers : pc'[d] \in {"idle", "new"}
    BY <1>2, <2>1 DEF NoneFree, Goto, Quiet, IInv, Types
  <2> QED BY <2>1, <2>2, SameMmu DEF ToWrite, Quiet
<1>3. ASSUME NEW c \in Callers, Create(c) PROVE MmuInv'
  <2>1. pc[c] = "new" /\ UNCHANGED <<list, line, len, at>>
    BY <1>3 DEF Create, listVars, fileVars
  <2>2. \A d \in Callers : ~ToWrite(d) BY <2>1 DEF IInv, Alone, ToWrite
  <2>3. PICK p \in {"idle", "link"} : Goto(c, p) BY <1>3 DEF Create, Step
  <2>4. \A d \in Callers : ~ToWrite(d)' BY <2>1, <2>3, Others DEF ToWrite
  <2> QED BY <2>1, <2>2, <2>4, SameMmu
<1>4. ASSUME NEW c \in Callers, Link(c) PROVE MmuInv'
  <2>1. PICK i \in Int :
          /\ i \notin Nodes /\ Nodes' = Nodes \cup {i} /\ Valid' = Valid \cup {i}
          /\ \A j \in Nodes : list'[j] = list[j]
          /\ list'[i] = node[c] /\ node[c].tlv = i
    BY <1>4, LinkFacts
  <2>2. UNCHANGED <<node, line, len, at>> BY <1>4, LinkFacts DEF fileVars
  <2>3. pc[c] = "link" /\ Aims(c) BY <1>4 DEF Link, LineInv, Placed
  <2>4. \A d \in Callers : ~ToWrite(d) BY <2>3 DEF IInv, Alone, ToWrite
  <2>5. \A j : ~Due(j) BY <2>4 DEF Due
  <2>6. at["mmu"] = L + 1 BY <2>4 DEF MmuInv
  <2>7. node[c].off["mmu"] = at["mmu"] BY <2>3 DEF Aims, Ahead, Lines, File
  <2>8. Mmu(i)' = L + 1 BY <2>1, <2>6, <2>7 DEF Mmu
  <2>9. \A j \in Nodes : Mmu(j)' = Mmu(j) /\ Mmu(j) \in 1 .. L
    BY <2>1, <2>5 DEF Mmu, MmuInv
  <2>10. ToWrite(c)' /\ Due(i)'
    BY <1>4, <2>1, <2>2, LinkFacts DEF ToWrite, Due
  <2>11. L \in Nat BY DEF MmuInv
  <2>12. \A j, k \in Nodes' : Mmu(j)' = Mmu(k)' => j = k
    <3> SUFFICES ASSUME NEW j \in Nodes', NEW k \in Nodes', Mmu(j)' = Mmu(k)' PROVE j = k
      OBVIOUS
    <3>1. CASE j \in Nodes /\ k \in Nodes BY <2>9, <3>1 DEF MmuInv
    <3>2. CASE j = i /\ k = i BY <3>2
    <3>3. CASE (j = i /\ k \in Nodes) \/ (k = i /\ j \in Nodes) BY <2>8, <2>9, <2>11, <3>3
    <3> QED BY <2>1, <3>1, <3>2, <3>3
  <2>13. \A j \in Nodes' : Mmu(j)' \in 1 .. len'["mmu"] \/ (Due(j)' /\ Mmu(j)' = len'["mmu"] + 1)
    BY <2>1, <2>2, <2>8, <2>9, <2>10
  <2>14. \A j \in Valid : j \in Nodes /\ line["mmu"][Mmu(j)] = list[j].seg
    BY <2>5 DEF MmuInv, Valid
  <2>15. \A j \in Valid' : Due(j)' \/ line'["mmu"][Mmu(j)'] = list'[j].seg
    BY <2>1, <2>2, <2>9, <2>10, <2>14
  <2>16. len'["mmu"] \in 0 .. Room["mmu"] BY <2>2 DEF MmuInv
  <2> QED BY <2>10, <2>12, <2>13, <2>15, <2>16 DEF MmuInv
<1>5. ASSUME NEW c \in Callers, ToWrite(c), NEW p, Goto(c, p),
             p \in {"ended", "mark", "mmu", "write mmu"},
             UNCHANGED <<list, line, len, at, node>>
      PROVE  MmuInv'
  <2>1. pc[c] # "idle" BY <1>5 DEF ToWrite
  <2>2. \A d \in Callers : pc'[d] = IF d = c THEN p ELSE "idle" BY <1>5, <2>1, Others
  <2>3. \A d \in Callers : ToWrite(d)' <=> d = c BY <1>5, <2>2 DEF ToWrite
  <2>4. \A d \in Callers : ToWrite(d) <=> d = c BY <1>5, <2>1 DEF IInv, Alone, ToWrite
  <2> QED BY <1>5, <2>3, <2>4, SameMmu
<1>6. ASSUME NEW c \in Callers, ReplaceTlv(c) \/ AddTlv(c) \/ MarkEnd(c) PROVE MmuInv'
  <2>1. AddTlv(c) => cur <= TlvRoom
    <3>1. AddTlv(c) => pc[c] = "append" BY DEF AddTlv, Replaces, IInv, Held
    <3>2. pc[c] = "append" => cur <= TlvRoom BY DEF IInv, Held
    <3> QED BY <3>1, <3>2
  <2>2. cur \in Nat /\ TlvRoom \in Nat BY RoomOK DEF IInv, Types
  <2>3. PICK p \in {"ended", "mmu"} : Step(c, p)
    BY <1>6, <2>1, <2>2 DEF ReplaceTlv, AddTlv, MarkEnd
  <2>4. Goto(c, p) /\ node' = node BY <2>3 DEF Step
  <2>5. ToWrite(c) /\ UNCHANGED <<list, line, len, at>>
    BY <1>6 DEF ReplaceTlv, Replaces, AddTlv, MarkEnd, listVars, fileVars, ToWrite
  <2> QED BY <1>5, <2>4, <2>5
<1>7. ASSUME NEW c \in Callers, LoadEnd(c) PROVE MmuInv'
  BY <1>5, <1>7 DEF LoadEnd, listVars, fileVars, ToWrite
<1>8. ASSUME NEW c \in Callers, Test(c, "mmu") PROVE MmuInv'
  <2>1. pc[c] = "mmu" /\ UNCHANGED <<list, line, len, at>>
    BY <1>8 DEF Test, listVars, fileVars
  <2>2. node[c].tlv \in Valid /\ list[node[c].tlv] = node[c] /\ Aims(c)
    BY <2>1 DEF LineInv, Placed, Known
  <2>3. at["mmu"] = Mmu(node[c].tlv) BY <2>1, <2>2 DEF Aims, Ahead, Lines, Mmu, File
  <2>4. L \in Nat /\ L < Room["mmu"] /\ Room["mmu"] \in Nat
    BY RoomOK DEF MmuInv, FileFull, File
  <2>5. at["mmu"] \in 1 .. L \/ at["mmu"] = L + 1 BY <2>2, <2>3 DEF MmuInv, Valid
  <2>6. InFile("mmu", at["mmu"]) BY <2>4, <2>5 DEF InFile
  <2>7. Step(c, "write mmu") BY <1>8, <2>6 DEF Test, Writing
  <2>8. Goto(c, "write mmu") /\ node' = node BY <2>7 DEF Step
  <2> QED BY <1>5, <2>1, <2>8 DEF ToWrite
<1>9. ASSUME NEW c \in Callers, Test(c, "mod") \/ Write(c, "mod") PROVE MmuInv'
  <2>1. pc[c] \in {"mod", "write mod"} /\ UNCHANGED list
    BY <1>9 DEF Test, Write, Writing, listVars
  <2>2. PICK p \in {"idle", "write mod"} : Goto(c, p)
    BY <1>9 DEF Test, Write, After, Writing, Step
  <2>3. \A d \in Callers : ~ToWrite(d) BY <2>1 DEF IInv, Alone, ToWrite
  <2>4. \A d \in Callers : ~ToWrite(d)' BY <2>1, <2>2, Others DEF ToWrite
  <2>5. line'["mmu"] = line["mmu"] /\ len'["mmu"] = len["mmu"] /\ at'["mmu"] = at["mmu"]
    <3>1. CASE Test(c, "mod") BY <3>1 DEF Test, fileVars
    <3>2. CASE Write(c, "mod") /\ InFile("mod", at["mod"])
      BY <3>2 DEF Write, File, IInv, Types, LineInv, LineTypes
    <3>3. CASE Write(c, "mod") /\ ~InFile("mod", at["mod"])
      BY <3>3 DEF Write, File, IInv, Types
    <3> QED BY <1>9, <3>1, <3>2, <3>3
  <2> QED BY <2>1, <2>3, <2>4, <2>5, SameMmu
<1>10. CASE UNCHANGED vars
  BY <1>10, SameMmu DEF vars, listVars, fileVars, ToWrite
<1>11. CASE Next
  <2>1. ASSUME NEW c \in Callers, NEW f \in File, Test(c, f) \/ Write(c, f) PROVE MmuInv'
    BY <1>8, <1>9, <2>1, WriteMmu DEF File
  <2> QED BY <1>1, <1>2, <1>3, <1>4, <1>6, <1>7, <1>11, <2>1, RemoveMmu DEF Next
<1> QED BY <1>10, <1>11

\* LinesDescribe, one call at a time, for as long as MMU_INFO is not full: beside Owned,
\* between calls every segment in the list has its line there.
THEOREM LinesCorrect ==
  ASSUME OneAtATime PROVE Spec /\ []~FileFull("mmu") => []LinesDescribe
<1> DEFINE All == IInv /\ LineInv /\ MmuInv
<1>1. Init => All BY InitIInv, InitLine, InitMmu
<1>2. All /\ ~FileFull("mmu") /\ [Next]_vars => All' BY NextIInv, NextLine, NextMmu
<1>3. All => LinesDescribe
  <2> SUFFICES ASSUME All PROVE LinesDescribe OBVIOUS
  <2>1. Owned BY DEF LineInv
  <2>2. ASSUME Quiet, NEW i \in Valid
        PROVE InFile("mmu", Mmu(i)) /\ line["mmu"][Mmu(i)] = list[i].seg
    <3>1. ~Due(i) BY <2>2 DEF Due, ToWrite, Quiet
    <3>2. Mmu(i) \in 1 .. len["mmu"] /\ line["mmu"][Mmu(i)] = list[i].seg
      BY <3>1 DEF MmuInv, Valid
    <3>3. len["mmu"] \in 0 .. Room["mmu"] /\ Room["mmu"] \in Nat BY RoomOK DEF MmuInv, File
    <3> QED BY <3>2, <3>3 DEF InFile
  <2> QED BY <2>1, <2>2 DEF LinesDescribe, Owned, Mmu
<1> QED BY <1>1, <1>2, <1>3, PTL DEF Spec
===============================================================================
