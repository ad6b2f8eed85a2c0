-------------------------------- MODULE TzLog ---------------------------------
(***************************************************************************)
(* The debugfs files of TrustZone's log, drivers/soc/qcom/tz_log.c.  The   *)
(* files tz_log and hvc_log share a buffer for the diagnostic area         *)
(* (ker_buf), one for the log put in order (copy_buf), its length and a    *)
(* mutex.  Opening a file fetches the area and puts the ring in order;     *)
(* reading copies from copy_buf without the mutex; closing unlocks it,     *)
(* although open has done so already.  An unlock of the kernel's mutex     *)
(* frees it whoever holds it.                                              *)
(*                                                                         *)
(* A byte of the log is its number; 0 is what memory held before.  Left    *)
(* out: the encrypted log, whose text is formatted but not put in order,   *)
(* and the IPQ806x layout.                                                 *)
(*                                                                         *)
(* Swapped is not the code: it is Ordered with the parts of the ring the   *)
(* wrong way round.                                                        *)
(***************************************************************************)
EXTENDS Integers, Sequences, FiniteSets

CONSTANTS
  Users,    \* who opens the files
  Nobody,
  Size,     \* buf_len - ring: the bytes of the ring
  WrapLimit, \* 2^16: the values of the counter of wraps, a uint16_t
  Sources,  \* "scm": one firmware call; "io": the area is copied byte by byte
  Overlap,  \* TRUE: users open a file whenever they like; FALSE: one at a time
  Quiet,    \* TRUE: TrustZone writes nothing while the area is copied
  Pieces,   \* bytes a read asks for
  MaxBytes  \* bound, for each source: bytes TrustZone logs

ASSUME AreaOK ==
  /\ Size \in Nat /\ Size > 1 /\ Pieces \subseteq Nat
  /\ WrapLimit \in Nat \ {0}
  /\ Nobody \notin Users /\ Sources \subseteq {"scm", "io"}

VARIABLES
  source,            \* how this board fetches the area
  ring, logged,      \* TrustZone's ring, and how many bytes it has logged
  kerRing, kerCount, \* the ring in ker_buf, and the count its position gives
  copyBuf, copyLen,  \* copy_buf, copy_len
  lock,              \* who holds the mutex
  pc,                \* where each user is
  at,                \* the byte of the area that a copy has come to
  got,               \* what each user has read since it opened the file
  since              \* history: what was logged when the user's fetch began
tzVars == <<source, ring, logged>>
bufVars == <<kerRing, kerCount, copyBuf, copyLen>>
userVars == <<pc, at, got, since>>
vars == <<tzVars, bufVars, lock, userVars>>

Positions == 0 .. Size - 1
\* The position in the area: offset, and the count of wraps, which goes round in turn.
Offset(n) == n % Size
Wraps(n) == (n \div Size) % WrapLimit

---------------------------------------------------------------------------
Log ==
  /\ logged < MaxBytes[source]
  /\ Quiet => \A u \in Users : pc[u] # "io"
  /\ ring' = [ring EXCEPT ![Offset(logged)] = logged + 1]
  /\ logged' = logged + 1
  /\ UNCHANGED <<source, bufVars, lock, userVars>>

Lock(u) == lock = Nobody /\ lock' = u
Unlock(u) == lock' = Nobody
Goto(u, p) == pc' = [pc EXCEPT ![u] = p]

Open(u) ==
  /\ pc[u] = "idle"
  /\ Overlap \/ \A v \in Users : pc[v] = "idle"
  /\ Lock(u) /\ copyLen' = 0
  /\ Goto(u, "fetch") /\ got' = [got EXCEPT ![u] = <<>>]
  /\ UNCHANGED <<tzVars, kerRing, kerCount, copyBuf, at, since>>

\* One call of the firmware fills the buffer, or the open fails.
FetchScm(u) ==
  /\ pc[u] = "fetch" /\ source = "scm"
  /\ kerRing' = ring /\ kerCount' = logged
  /\ since' = [since EXCEPT ![u] = logged]
  /\ Goto(u, "order")
  /\ UNCHANGED <<tzVars, copyBuf, copyLen, lock, at, got>>
FetchFails(u) ==
  /\ pc[u] = "fetch"
  /\ Unlock(u) /\ Goto(u, "idle")
  /\ UNCHANGED <<tzVars, bufVars, at, got, since>>

\* memcpy_fromio: the position, which lies before the ring, then the ring from its first
\* byte to the last but one.
FetchPosition(u) ==
  /\ pc[u] = "fetch" /\ source = "io"
  /\ kerCount' = logged /\ at' = [at EXCEPT ![u] = 0]
  /\ since' = [since EXCEPT ![u] = logged]
  /\ Goto(u, "io")
  /\ UNCHANGED <<tzVars, kerRing, copyBuf, copyLen, lock, got>>
FetchByte(u) ==
  /\ pc[u] = "io" /\ at[u] < Size - 1
  /\ kerRing' = [kerRing EXCEPT ![at[u]] = ring[at[u]]]
  /\ at' = [at EXCEPT ![u] = @ + 1]
  /\ UNCHANGED <<tzVars, kerCount, copyBuf, copyLen, lock, pc, got, since>>
FetchEnds(u) ==
  /\ pc[u] = "io" /\ at[u] = Size - 1
  /\ Goto(u, "order")
  /\ UNCHANGED <<tzVars, bufVars, lock, at, got, since>>

\* The ring from byte i on, and its first n bytes.
FromByte(i) == [k \in 1 .. Size - i |-> kerRing[i + k - 1]]
First(n) == [k \in 1 .. n |-> kerRing[k - 1]]
Swapped(n) == IF Wraps(n) # 0 THEN First(Offset(n)) \o FromByte(Offset(n)) ELSE First(Offset(n))
Ordered(n) == IF Wraps(n) # 0 THEN FromByte(Offset(n)) \o First(Offset(n)) ELSE First(Offset(n))

Order(u) ==
  /\ pc[u] = "order"
  /\ LET log == Ordered(kerCount) IN
       /\ copyBuf' = log \o SubSeq(copyBuf, Len(log) + 1, Size)
       /\ copyLen' = Len(log)
  /\ Unlock(u) /\ Goto(u, "open")
  /\ UNCHANGED <<tzVars, kerRing, kerCount, at, got, since>>

\* simple_read_from_buffer at the file's own position.
Read(u, n) ==
  /\ pc[u] = "open" /\ Len(got[u]) < copyLen
  /\ got' = [got EXCEPT ![u] = @ \o SubSeq(copyBuf, Len(@) + 1,
                                           IF Len(@) + n < copyLen THEN Len(@) + n ELSE copyLen)]
  /\ UNCHANGED <<tzVars, bufVars, lock, pc, at, since>>

Release(u) ==
  /\ pc[u] = "open"
  /\ Unlock(u) /\ Goto(u, "idle")
  /\ UNCHANGED <<tzVars, bufVars, at, got, since>>

---------------------------------------------------------------------------
Init ==
  /\ source \in Sources
  /\ ring = [i \in Positions |-> 0] /\ logged = 0
  /\ kerRing = [i \in Positions |-> 0] /\ kerCount = 0
  /\ copyBuf = [k \in 1 .. Size |-> 0] /\ copyLen = 0
  /\ lock = Nobody
  /\ pc = [u \in Users |-> "idle"] /\ at = [u \in Users |-> 0]
  /\ got = [u \in Users |-> <<>>] /\ since = [u \in Users |-> 0]

Next ==
  \/ Log
  \/ \E u \in Users :
       \/ Open(u) \/ FetchScm(u) \/ FetchFails(u) \/ FetchPosition(u) \/ FetchByte(u)
       \/ FetchEnds(u) \/ Order(u) \/ Release(u)
       \/ \E n \in Pieces : Read(u, n)

Spec == Init /\ [][Next]_vars

---------------------------------------------------------------------------
Least(a, b) == IF a < b THEN a ELSE b

\* After WrapLimit rounds the counter reads as if the ring had never wrapped.
LooksUnwrapped(n) == n >= Size /\ Wraps(n) = 0

\* An open file holds all that the ring held when it was opened, and what its user has
\* read is the beginning of that: the last bytes logged, oldest first, over the wrap.
\* While the counter of wraps has come round to 0 the file is shorter than the ring, but
\* what it holds is still the last bytes logged, in order.
LogInOrder ==
  \A u \in Users : pc[u] = "open" =>
    /\ ~LooksUnwrapped(since[u]) => copyLen = Least(Size, since[u])
    /\ got[u] = [k \in 1 .. Len(got[u]) |-> since[u] - copyLen + k]

\* The mutex keeps users apart while they fetch the area and put it in order.
OneInside == Cardinality({u \in Users : pc[u] \in {"fetch", "io", "order"}}) <= 1
=============================================================================
