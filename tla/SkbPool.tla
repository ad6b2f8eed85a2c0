------------------------------ MODULE SkbPool ------------------------------
(***************************************************************************)
(* What the skb recycler promises to the rest of the kernel, without its   *)
(* queues, locks and CPUs.  A buffer is in one of three hands: the network *)
(* stack uses it (inUse), the recycler keeps it for a later allocation     *)
(* (pooled), or it is memory of the slab allocator (free).                 *)
(* SkbRecycler is shown to implement this specification.                   *)
(***************************************************************************)
CONSTANT Skbs

VARIABLES inUse, pooled, free

poolVars == <<inUse, pooled, free>>

Init ==
  /\ inUse = {}
  /\ pooled = {}
  /\ free = Skbs

\* skb_recycler_alloc() succeeds: it hands out a buffer nobody uses.
Reuse(s) ==
  /\ s \in pooled
  /\ pooled' = pooled \ {s}
  /\ inUse' = inUse \cup {s}
  /\ UNCHANGED free

\* The slab allocator serves an allocation the recycler could not serve.
Create(s) ==
  /\ s \in free
  /\ free' = free \ {s}
  /\ inUse' = inUse \cup {s}
  /\ UNCHANGED pooled

\* A buffer the stack gives back is kept for reuse, alone or with its list.
Recycle(S) ==
  /\ S \subseteq inUse
  /\ inUse' = inUse \ S
  /\ pooled' = pooled \cup S
  /\ UNCHANGED free

\* ... or goes back to the slab allocator when the recycler has no room.
Release(S) ==
  /\ S \subseteq inUse
  /\ inUse' = inUse \ S
  /\ free' = free \cup S
  /\ UNCHANGED pooled

\* A flush or a dead CPU gives pooled buffers back to the slab allocator.
Drain(S) ==
  /\ S \subseteq pooled
  /\ pooled' = pooled \ S
  /\ free' = free \cup S
  /\ UNCHANGED inUse

Next ==
  \/ \E s \in Skbs : Reuse(s) \/ Create(s)
  \/ \E S \in SUBSET Skbs : Recycle(S) \/ Release(S) \/ Drain(S)

Spec == Init /\ [][Next]_poolVars
=============================================================================
