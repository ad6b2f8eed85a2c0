------------------------------- MODULE DumpList -------------------------------
(***************************************************************************)
(* What minidump_fill_segments and minidump_remove_segments of             *)
(* drivers/soc/qcom/ctx-save.c promise to their callers: a set of segments *)
(* that a dump collects, without the same address and size twice.          *)
(* Minidump implements it, with the TLVs of its buffer as the set.         *)
(***************************************************************************)
CONSTANT Segs    \* segments: address, size, whether they have a name
VARIABLE dump    \* the segments that are dumped

Same(s, t) == s.va = t.va /\ s.size = t.size
New(s) == \A t \in dump : ~Same(s, t)
Add(s) == New(s) /\ dump' = dump \cup {s}
\* Of two segments at one address one is removed.
Remove(va) == \E s \in dump : s.va = va /\ dump' = dump \ {s}

Init == dump = {}
Next == \E s \in Segs : Add(s) \/ Remove(s.va)
Spec == Init /\ [][Next]_dump
===============================================================================
