------------------------------- MODULE Minidump -------------------------------
(***************************************************************************)
(* The minidump half of drivers/soc/qcom/ctx-save.c: the buffer of TLVs    *)
(* that the boot loader reads after a crash, the list of nodes that keeps  *)
(* track of it, and the text files MODULE_INFO and MMU_INFO with one line  *)
(* per segment.  Drivers, the panic notifier and the system request key    *)
(* add segments (minidump_fill_segments); drivers and the unloading of     *)
(* modules remove them (minidump_remove_segments).  A spinlock guards the  *)
(* list, but an addition takes it once for each of its parts.              *)
(*                                                                         *)
(* Positions in the buffer and lines of the files are counted from 1; a    *)
(* TLV and a line hold the segment they describe.  The build is for ARM64, *)
(* where every segment has a line in MMU_INFO.  kmalloc succeeds.          *)
(*                                                                         *)
(* NeverListed, Uncounted, NeverReplaces, KeptLine and KeptTlv are not the *)
(* code: each is a definition below with one mistake.                      *)
(***************************************************************************)
EXTENDS Integers, Sequences, FiniteSets

CONSTANTS
  Callers,   \* who adds segments
  Segs,      \* the segments they add: address, size, whether they have a name
  TlvRoom,   \* TLVs that the buffer holds after that of uname
  Room,      \* Room[f]: lines that file f holds
  Overlap,   \* TRUE: calls overlap; FALSE: one call at a time
  \* What a TLV or a line holds besides a segment:
  Junk,      \* never written
  Empty,     \* CTX_SAVE_LOG_DUMP_TYPE_EMPTY: removed
  Stop,      \* CTX_SAVE_LOG_DUMP_TYPE_INVALID: the end of the buffer
  Blank      \* a line of zeros

File == {"mod", "mmu"}
ASSUME RoomOK == TlvRoom \in Nat \ {0} /\ Room \in [File -> Nat \ {0}]
ASSUME WordsOK ==
  /\ Segs \cap {Junk, Empty, Stop, Blank} = {}
  /\ Stop \notin {Junk, Empty}

VARIABLES
  list,        \* metadata_list: nodes in the order they were added
  buf, cur,    \* msg_buffer and cur_msg_buffer_pos
  line,        \* line[f][n]: mod_log, mmu_log
  len,         \* len[f]: lines up to mod_log_len, mmu_log_len
  at,          \* at[f]: cur_modinfo_offset, cur_mmuinfo_offset
  numSeg,      \* minidump.hdr.num_seg
  pc,          \* where each caller is
  node,        \* the segment it adds, with the node it makes or reuses
  seen         \* what it has loaded: num_seg, then the end of the buffer
listVars == <<list, numSeg>>
fileVars == <<line, len, at>>
vars == <<listVars, buf, cur, fileVars, pc, node, seen>>

None == 0          \* the offset of a node without a line
\* An offset that is in no file.  A line put or erased past the last reaches
\* into the length and the offset that lie behind the file: it clears the
\* length, and the whole offset of MMU_INFO but half of that of MODULE_INFO.
Wild == -1
Gone(f) == IF f = "mmu" THEN None ELSE Wild

Nodes == 1 .. Len(list)
Valid == {i \in Nodes : list[i].valid}
Seg(c) == node[c].seg
Goto(c, p) == pc' = [pc EXCEPT ![c] = p]
\* Goes on with what it has loaded, or ends its call and forgets that.
Step(c, p) ==
  /\ Goto(c, p)
  /\ IF p = "idle"
       THEN node' = [node EXCEPT ![c] = <<>>] /\ seen' = [seen EXCEPT ![c] = 0]
       ELSE UNCHANGED <<node, seen>>
Quiet == \A c \in Callers : pc[c] = "idle"
MayBegin == Overlap \/ Quiet

---------------------------------------------------------------------------
(* minidump_traverse_metadata_list *)

Lines(s) == IF s.named THEN File ELSE {"mmu"}
NeverListed(s) == FALSE
Listed(s) == \E i \in Valid : list[i].seg.va = s.va /\ list[i].seg.size = s.size
First(i) == i \in Nodes \ Valid /\ \A j \in Nodes \ Valid : i <= j
FileFull(f) == len[f] >= Room[f]
Full == cur > TlvRoom \/ \E f \in File : FileFull(f)
Uncounted == numSeg
Counted == numSeg + 1

\* A node that was removed serves again, with the TLV and the lines it had;
\* a line it lacked it gets at the end of the file.
Reused(n, s) ==
  [seg |-> s, valid |-> TRUE, tlv |-> n.tlv,
   off |-> [f \in File |->
     IF n.off[f] = None /\ f \in Lines(s) THEN at[f] ELSE n.off[f]]]
\* The offset moves to a line the node has, whether or not it is then written.
Moved(n) == [f \in File |-> IF n.off[f] = None THEN at[f] ELSE n.off[f]]

Reuse(c, s) ==
  /\ pc[c] = "idle" /\ MayBegin
  /\ ~Listed(s)
  /\ \E i \in Nodes :
       /\ First(i)
       /\ list' = [list EXCEPT ![i] = Reused(list[i], s)]
       /\ node' = [node EXCEPT ![c] = Reused(list[i], s)]
       /\ at' = Moved(list[i])
  /\ numSeg' = Counted
  /\ Goto(c, "replace")
  /\ UNCHANGED <<buf, cur, line, len, seen>>

NoneFree(c, s) ==
  /\ pc[c] = "idle" /\ MayBegin
  /\ ~Listed(s) /\ Valid = Nodes
  /\ node' = [node EXCEPT ![c] = [seg |-> s]]
  /\ Goto(c, "new")
  /\ UNCHANGED <<listVars, buf, cur, fileVars, seen>>

\* The lock is free here: the offsets and the count are loaded as they are.
NewNode(s) ==
  [seg |-> s, valid |-> TRUE, tlv |-> cur,
   off |-> [f \in File |-> IF f \in Lines(s) THEN at[f] ELSE None]]
Create(c) ==
  /\ pc[c] = "new"
  /\ IF Full
       THEN Step(c, "idle")
       ELSE /\ node' = [node EXCEPT ![c] = NewNode(Seg(c))]
            /\ seen' = [seen EXCEPT ![c] = numSeg]
            /\ Goto(c, "link")
  /\ UNCHANGED <<listVars, buf, cur, fileVars>>
Link(c) ==
  /\ pc[c] = "link"
  /\ numSeg' = seen[c] + 1
  /\ list' = Append(list, node[c])
  /\ Step(c, "append")
  /\ UNCHANGED <<buf, cur, fileVars>>

---------------------------------------------------------------------------
(* minidump_fill_tlv_crashdump_buffer: the type of a TLV to be replaced is *)
(* tested just before the lock is taken, as part of the step.              *)

NeverReplaces(c) == FALSE
Replaces(c) == pc[c] = "replace" /\ buf[node[c].tlv] = Empty
ReplaceTlv(c) ==
  /\ Replaces(c)
  /\ buf' = [buf EXCEPT ![node[c].tlv] = Seg(c)]
  /\ Step(c, "ended")
  /\ UNCHANGED <<listVars, cur, fileVars>>
\* When the TLV does not fit, the caller gives up and the node stays.
AddTlv(c) ==
  /\ pc[c] \in {"replace", "append"} /\ ~Replaces(c)
  /\ IF cur > TlvRoom
       THEN Step(c, "idle") /\ UNCHANGED <<buf, cur>>
       ELSE /\ buf' = [buf EXCEPT ![cur] = Seg(c)]
            /\ cur' = cur + 1
            /\ Step(c, "ended")
  /\ UNCHANGED <<listVars, fileVars>>
\* The end of the buffer is loaded and marked without the lock.
LoadEnd(c) ==
  /\ pc[c] = "ended"
  /\ seen' = [seen EXCEPT ![c] = cur]
  /\ Goto(c, "mark")
  /\ UNCHANGED <<listVars, buf, cur, fileVars, node>>
Marked(c) == [buf EXCEPT ![seen[c]] = Stop]
MarkEnd(c) ==
  /\ pc[c] = "mark"
  /\ buf' = Marked(c)
  /\ Step(c, "mmu")
  /\ UNCHANGED <<listVars, cur, fileVars>>

---------------------------------------------------------------------------
(* minidump_store_mmu_info, then minidump_store_module_info *)

After(c, f) == IF f = "mmu" /\ Seg(c).named THEN "mod" ELSE "idle"
Writing(f) == IF f = "mmu" THEN "write mmu" ELSE "write mod"
InFile(f, n) == n \in 1 .. Room[f]
Test(c, f) ==
  /\ pc[c] = f
  /\ Step(c, IF FileFull(f) \/ ~InFile(f, at[f]) THEN After(c, f) ELSE Writing(f))
  /\ UNCHANGED <<listVars, buf, cur, fileVars>>

\* A line past the last reaches over the length and the offset behind it.
Grown(f) == IF at[f] = len[f] + 1 THEN len[f] + 1 ELSE len[f]
Write(c, f) ==
  /\ pc[c] = Writing(f)
  /\ IF InFile(f, at[f])
       THEN /\ line' = [line EXCEPT ![f][at[f]] = Seg(c)]
            /\ len' = [len EXCEPT ![f] = Grown(f)]
            /\ at' = [at EXCEPT ![f] = Grown(f) + 1]
       ELSE /\ len' = [len EXCEPT ![f] = 0]
            /\ \E n \in {1, Gone(f)} : at' = [at EXCEPT ![f] = n]
            /\ UNCHANGED line
  /\ Step(c, After(c, f))
  /\ UNCHANGED <<listVars, buf, cur>>

---------------------------------------------------------------------------
(* minidump_remove_segments *)

KeptLine(n) == {f \in {"mmu"} : n.off[f] # None}
Erased(n) == {f \in File : n.off[f] # None}
Cleared(n) ==
  [f \in File |-> [l \in 1 .. Room[f] |->
     IF f \in Erased(n) /\ l = n.off[f] THEN Blank ELSE line[f][l]]]
Spilled(n) == {f \in Erased(n) : n.off[f] > Room[f]}
KeptTlv(i) == buf
EmptyTlv(i) == [buf EXCEPT ![list[i].tlv] = Empty]
Found(va, i) ==
  /\ i \in Valid /\ list[i].seg.va = va
  /\ \A j \in Valid : list[j].seg.va = va => i <= j
\* What a wild offset overwrites is not followed.
Remove(va) ==
  /\ MayBegin
  /\ \E i \in Nodes :
       /\ Found(va, i)
       /\ \A f \in File : list[i].off[f] # Wild
       /\ list' = [list EXCEPT ![i].valid = FALSE]
       /\ buf' = EmptyTlv(i)
       /\ line' = Cleared(list[i])
       /\ len' = [f \in File |-> IF f \in Spilled(list[i]) THEN 0 ELSE len[f]]
       /\ at' = [f \in File |-> IF f \in Spilled(list[i]) THEN Gone(f) ELSE at[f]]
  /\ numSeg' = numSeg - 1
  /\ UNCHANGED <<cur, pc, node, seen>>

---------------------------------------------------------------------------
\* ctx_save_probe, up to the TLV of uname: the five segments it then adds
\* are added as any other.
Init ==
  /\ list = <<>> /\ numSeg = 0
  /\ buf = [p \in 1 .. TlvRoom + 1 |-> Junk] /\ cur = 1
  /\ line = [f \in File |-> [l \in 1 .. Room[f] |-> Blank]]
  /\ len = [f \in File |-> 0] /\ at = [f \in File |-> 1]
  /\ pc = [c \in Callers |-> "idle"]
  /\ node = [c \in Callers |-> <<>>] /\ seen = [c \in Callers |-> 0]

Next ==
  \/ \E c \in Callers :
       \/ \E s \in Segs : Reuse(c, s) \/ NoneFree(c, s)
       \/ Create(c) \/ Link(c)
       \/ ReplaceTlv(c) \/ AddTlv(c) \/ LoadEnd(c) \/ MarkEnd(c)
       \/ \E f \in File : Test(c, f) \/ Write(c, f)
  \/ \E s \in Segs : Remove(s.va)
Spec == Init /\ [][Next]_vars

---------------------------------------------------------------------------
TLVs == Segs \cup {Junk, Empty, Stop}
LineNo(f) == -1 .. Room[f] + 1

\* The offsets stay within a line of the files and the buffer within its room,
\* and a caller holds what its place in the call needs.
TypeOK ==
  /\ \A i \in Nodes :
       /\ list[i].seg \in Segs /\ list[i].valid \in BOOLEAN
       /\ list[i].tlv \in 1 .. TlvRoom
       /\ \A f \in File : list[i].off[f] \in LineNo(f)
  /\ buf \in [1 .. TlvRoom + 1 -> TLVs] /\ cur \in 1 .. TlvRoom + 1
  /\ \A f \in File :
       /\ line[f] \in [1 .. Room[f] -> Segs \cup {Blank}]
       /\ len[f] \in 0 .. Room[f] /\ at[f] \in LineNo(f)
  /\ \A c \in Callers : pc[c] # "idle" => Seg(c) \in Segs

\* Every segment in the list has a TLV that describes it, its own, and the other
\* TLVs up to the end are marked as removed.
TlvDescribes ==
  Quiet =>
    /\ \A i \in Valid : buf[list[i].tlv] = list[i].seg
    /\ \A i, j \in Nodes : list[i].tlv = list[j].tlv => i = j
    /\ \A p \in 1 .. cur - 1 :
         buf[p] = Empty \/ \E i \in Valid : list[i].tlv = p

\* The end of the buffer is marked, and nowhere else is.
BufferEnds ==
  Quiet /\ list # <<>> => \A p \in 1 .. cur : buf[p] = Stop <=> p = cur

\* Between calls the boot loader collects what the list says, no more and no less,
\* and finds the end.
BufferDescribes == TlvDescribes /\ BufferEnds

\* At any moment, since a crash comes at any: a TLV that is not marked as
\* removed describes a segment that is in the list.
OnlyListed ==
  \A p \in 1 .. cur - 1 :
    buf[p] \in Segs => \E i \in Valid : list[i].tlv = p /\ list[i].seg = buf[p]

\* No line of either file outlives its segment: it belongs to a segment that is
\* in the list, whose node will erase it; and between calls every segment has
\* its line in MMU_INFO.
LinesDescribe ==
  /\ \A f \in File : \A l \in 1 .. Room[f] : line[f][l] # Blank =>
       \E i \in Valid : list[i].off[f] = l /\ list[i].seg = line[f][l]
  /\ Quiet => \A i \in Valid : /\ InFile("mmu", list[i].off["mmu"])
                               /\ line["mmu"][list[i].off["mmu"]] = list[i].seg

\* Between calls every segment that has a name has its line in MODULE_INFO.
\* The comment at the list promises it; the code does not keep it.
Lined ==
  Quiet => \A i \in Valid : list[i].seg.named =>
    /\ InFile("mod", list[i].off["mod"])
    /\ line["mod"][list[i].off["mod"]] = list[i].seg

\* The segments that the boot loader finds are a set that additions and removals
\* change one by one, whatever happens to nodes, TLVs and lines meanwhile.
Live == {buf[p] : p \in 1 .. cur - 1} \cap Segs
Dump == INSTANCE DumpList WITH dump <- Live
ImplementsDumpList == Dump!Spec
===============================================================================
