------------------------------ MODULE TzLogProofs ------------------------------
(***************************************************************************)
(* Proofs about the readers of two logs.                                   *)
(*                                                                         *)
(* About TzLog, for a ring of any size that TrustZone logs any number of   *)
(* bytes to, and users who open the files one at a time: a file is the     *)
(* last bytes logged in their order, over every wrap of the ring where the *)
(* firmware copies it, and up to the first where the driver does; it is    *)
(* all that the ring holds unless the counter of wraps came round to 0.    *)
(*                                                                         *)
(* And about RpmLog, for a ring of any size, messages of any lengths and   *)
(* contents and indices of any width, as long as all messages take less    *)
(* than a round of the indices: what the reader keeps from the place where *)
(* a message begins is that message, whole; what it keeps is in order; and *)
(* until it drops one that was overwritten under it, it passes over none.  *)
(***************************************************************************)
EXTENDS TzLog, RpmLog, SequenceTheorems, WellFoundedInduction, TLAPS

-----------------------------------------------------------------------------
(* Positions in the ring.                                                  *)

\* A count of bytes is so many rounds of the ring and a position: the least that were not
\* would be one round more than another.
LEMMA Rounds == \A n \in Nat : \E q \in Nat, r \in Positions : n = Size * q + r
<1> DEFINE Round(n) == \E q \in Nat, r \in Positions : n = Size * q + r
           S == {n \in Nat : ~Round(n)}
           Less == OpToRel(<, Nat)
<1> USE AreaOK DEF Positions
<1> SUFFICES ASSUME S # {} PROVE FALSE OBVIOUS
<1>1. IsWellFoundedOn(Less, Nat) BY NatLessThanWellFounded
<1>2. \A x, y \in Nat : y < x => <<y, x>> \in Less BY DEF OpToRel
<1> HIDE DEF Less
<1>3. PICK m \in S : \A y \in S : ~(<<y, m>> \in Less) BY <1>1, WFMin
<1>4. ASSUME m < Size PROVE Round(m)
  <2>1. m = Size * 0 + m /\ m \in Positions BY <1>4
  <2>2. QED BY <2>1
<1>5. ASSUME m >= Size PROVE Round(m)
  <2>1. m - Size \in Nat /\ m - Size < m BY <1>5
  <2>2. Round(m - Size) BY <1>2, <1>3, <2>1
  <2>3. PICK q \in Nat, r \in Positions : m - Size = Size * q + r BY <2>2
  <2>4. Size * (q + 1) = Size * q + Size OBVIOUS
  <2>5. m = Size * (q + 1) + r /\ q + 1 \in Nat BY <2>3, <2>4
  <2>6. QED BY <2>5
<1>6. QED BY <1>4, <1>5

\* The position of what lies d bytes further on, d up to a round.
LEMMA Further ==
  ASSUME NEW n \in Nat, NEW d \in 0 .. Size
  PROVE /\ Offset(n) \in Positions
        /\ Offset(n + d) = IF Offset(n) + d < Size THEN Offset(n) + d ELSE Offset(n) + d - Size
<1> USE AreaOK DEF Positions
<1>1. PICK q \in Nat, r \in Positions : n = Size * q + r BY Rounds
<1>2. ASSUME NEW x \in Nat, NEW p \in Nat, NEW o \in Positions, x = Size * p + o PROVE x % Size = o
  BY <1>2
<1>3. Offset(n) = r BY <1>1, <1>2 DEF Offset
<1>4. CASE r + d < Size
  <2>1. n + d = Size * q + (r + d) BY <1>1
  <2>2. (n + d) % Size = r + d
    <3>1. n + d \in Nat /\ q \in Nat /\ r + d \in Positions BY <1>4
    <3>2. QED BY ONLY <1>2, <2>1, <3>1
  <2>3. QED BY <1>3, <1>4, <2>2 DEF Offset
<1>5. CASE r + d >= Size
  <2>1. Size * (q + 1) = Size * q + Size OBVIOUS
  <2>2. n + d = Size * (q + 1) + (r + d - Size) BY <1>1, <2>1
  <2>3. r + d - Size \in Positions BY <1>5
  <2>4. (n + d) % Size = r + d - Size
    <3>1. n + d \in Nat /\ q + 1 \in Nat OBVIOUS
    <3>2. QED BY ONLY <1>2, <2>2, <2>3, <3>1
  <2>5. QED BY <1>3, <1>5, <2>4 DEF Offset
<1>6. QED BY <1>3, <1>4, <1>5

\* Before as many bytes are logged as the ring has, the counter of wraps is 0 and the
\* position is the count.
LEMMA Wrapped ==
  ASSUME NEW n \in Nat
  PROVE n < Size => Wraps(n) = 0 /\ Offset(n) = n
<1>1. n < Size => n \div Size = 0 /\ n % Size = n BY AreaOK
<1>2. 0 % WrapLimit = 0 BY AreaOK
<1>3. QED BY <1>1, <1>2 DEF Wraps, Offset

\* The bytes a file holds: those before the position when the counter of wraps is 0.
Kept(n) == IF Wraps(n) = 0 THEN Offset(n) ELSE Size

LEMMA KeptBytes ==
  ASSUME NEW n \in Nat
  PROVE /\ Kept(n) \in 0 .. Size
        /\ ~LooksUnwrapped(n) => Kept(n) = Least(Size, n)
<1>1. Offset(n) \in Positions
  <2>1. 0 \in 0 .. Size BY AreaOK
  <2>2. QED BY <2>1, Further
<1>2. Kept(n) \in 0 .. Size BY <1>1, AreaOK DEF Kept, Positions
<1>3. ASSUME ~LooksUnwrapped(n) PROVE Kept(n) = Least(Size, n)
  <2>1. CASE n < Size BY <2>1, Wrapped, AreaOK DEF Kept, Least
  <2>2. CASE n >= Size BY <1>3, <2>2, AreaOK DEF LooksUnwrapped, Kept, Least
  <2>3. QED BY <2>1, <2>2, AreaOK
<1>4. QED BY <1>2, <1>3

-----------------------------------------------------------------------------
(* The invariant.                                                          *)

\* A ring holds the last bytes of n, each at its position.
Holds(r, n) == \A d \in 1 .. Size : d <= n => r[Offset(n - d)] = n - d + 1

TypeInv ==
  /\ source \in {"scm", "io"} /\ logged \in Nat /\ kerCount \in Nat /\ copyLen \in Nat
  /\ ring \in [Positions -> Nat] /\ kerRing \in [Positions -> Nat] /\ copyBuf \in [1 .. Size -> Nat]
  /\ pc \in [Users -> {"idle", "fetch", "io", "order", "open"}]
  /\ at \in [Users -> Nat] /\ since \in [Users -> Nat] /\ got \in [Users -> Seq(Nat)]

\* One user has the files open.
OneUser == \A u, v \in Users : pc[u] # "idle" /\ pc[v] # "idle" => u = v

\* What a fetch has copied so far, and that it ends with the ring and its count.
Copied(u) ==
  /\ pc[u] = "io" =>
       /\ source = "io" /\ since[u] = kerCount /\ kerCount <= logged /\ at[u] < Size
       /\ \A i \in 0 .. at[u] - 1 : i < kerCount => kerRing[i] = i + 1
  /\ pc[u] = "order" => since[u] = kerCount /\ Holds(kerRing, kerCount)

\* An open file has the bytes in order, and its user has read the first of them.
Held(u) == Kept(since[u])
Logged(s, n, u) == \A k \in 1 .. n : s[k] = since[u] - Held(u) + k
Opened(u) ==
  /\ pc[u] \in {"fetch", "io", "order"} => got[u] = <<>>
  /\ pc[u] = "open" =>
       /\ copyLen = Held(u) /\ Logged(copyBuf, copyLen, u)
       /\ Len(got[u]) <= copyLen /\ Logged(got[u], Len(got[u]), u)

Inv ==
  /\ TypeInv /\ OneUser /\ Holds(ring, logged)
  /\ \A u \in Users : Copied(u) /\ Opened(u)

\* Where the driver copies the area, the ring has not wrapped.
Unwrapped == source = "scm" \/ logged < Size

-----------------------------------------------------------------------------
(* The log put in order.                                                   *)

\* The ring from the position on, and then up to it, or only the latter while the counter
\* of wraps is 0: the last bytes, oldest first.
LEMMA OrderedLog ==
  ASSUME kerRing \in [Positions -> Nat], NEW n \in Nat, Holds(kerRing, n)
  PROVE /\ Ordered(n) \in Seq(Nat) /\ Len(Ordered(n)) = Kept(n)
        /\ \A k \in 1 .. Kept(n) : Ordered(n)[k] = n - Kept(n) + k
<1> DEFINE o == Offset(n)
           m == Kept(n)
<1> USE AreaOK DEF Positions
<1>1. o \in Positions
  <2>1. 0 \in Positions OBVIOUS
  <2>2. QED BY <2>1, Further
<1>2. First(o) \in Seq(Nat) /\ Len(First(o)) = o /\ \A k \in 1 .. o : First(o)[k] = kerRing[k - 1]
  BY <1>1 DEF First
<1>3. /\ FromByte(o) \in Seq(Nat) /\ Len(FromByte(o)) = Size - o
      /\ \A k \in 1 .. Size - o : FromByte(o)[k] = kerRing[o + k - 1]
  <2> DEFINE l == Size - o
             f == [k \in 1 .. l |-> kerRing[o + k - 1]]
  <2>1. FromByte(o) = f BY DEF FromByte
  <2>2. \A k \in 1 .. l : kerRing[o + k - 1] \in Nat
    <3>1. \A k \in 1 .. l : o + k - 1 \in Positions BY <1>1
    <3>2. QED BY <3>1
  <2>3. l \in Nat BY <1>1
  <2> HIDE DEF o, l
  <2>4. f \in [1 .. l -> Nat] BY <2>2
  <2>5. f \in Seq(Nat) /\ Len(f) = l BY <2>3, <2>4, SeqDef
  <2>6. QED BY <2>1, <2>5 DEF l
<1>4. CASE Wraps(n) = 0
  <2>1. Ordered(n) = First(o) /\ m = o BY <1>4 DEF Ordered, Kept
  <2>2. PICK x \in Nat : x = n - o
    <3>1. o <= n
      <4>1. CASE n < Size BY <4>1, Wrapped
      <4>2. CASE n >= Size BY <1>1, <4>2
      <4>3. QED BY <4>1, <4>2
    <3>2. QED BY <1>1, <3>1
  <2>3. Offset(x) = 0
    <3>1. o \in 0 .. Size /\ x + o = n BY <1>1, <2>2
    <3>2. Offset(x) \in Positions
            /\ Offset(x + o) = IF Offset(x) + o < Size THEN Offset(x) + o ELSE Offset(x) + o - Size
      BY <3>1, Further
    <3>3. o = IF Offset(x) + o < Size THEN Offset(x) + o ELSE Offset(x) + o - Size BY <3>1, <3>2
    <3> HIDE DEF o
    <3>4. QED BY <1>1, <3>2, <3>3
  <2>4. \A k \in 1 .. o : kerRing[k - 1] = n - o + k
    <3> TAKE k \in 1 .. o
    <3>1. PICK y \in 0 .. Size : y = k - 1 /\ y < Size BY <1>1
    <3>2. PICK d \in 1 .. Size : d = o - y /\ d <= n /\ n - d = x + y
      <4> DEFINE e == o - y
      <4> HIDE DEF o
      <4>1. o \in 0 .. Size - 1 /\ n = x + o /\ k \in 1 .. o BY <1>1, <2>2
      <4>2. e \in 1 .. Size /\ e <= n /\ n - e = x + y BY <3>1, <4>1
      <4>3. QED BY <4>2
    <3>3. kerRing[Offset(n - d)] = n - d + 1
      <4>1. d <= n BY <3>2
      <4>2. QED BY ONLY <4>1, Holds(kerRing, n), d \in 1 .. Size, Zenon DEF Holds
    <3>4. Offset(x + y) = y
      <4>1. Offset(x + y) = IF Offset(x) + y < Size THEN Offset(x) + y ELSE Offset(x) + y - Size
        BY Further
      <4>2. QED BY <2>3, <3>1, <4>1
    <3>5. kerRing[y] = x + y + 1 BY <3>2, <3>3, <3>4
    <3> HIDE DEF o
    <3>6. QED BY <1>1, <2>2, <3>1, <3>5
  <2>5. QED BY <1>2, <2>1, <2>4
<1>5. CASE Wraps(n) # 0
  <2>1. Ordered(n) = FromByte(o) \o First(o) /\ m = Size BY <1>5 DEF Ordered, Kept
  <2>2. n >= Size BY <1>5, Wrapped
  <2>3. /\ Ordered(n) \in Seq(Nat) /\ Len(Ordered(n)) = Size
        /\ \A k \in 1 .. Size : Ordered(n)[k] =
             kerRing[IF k <= Size - o THEN o + k - 1 ELSE o + k - 1 - Size]
    <3> DEFINE a == FromByte(o)
               b == First(o)
    <3> HIDE DEF o, a, b
    <3>1. a \in Seq(Nat) /\ b \in Seq(Nat) /\ Len(a) = Size - o /\ Len(b) = o BY <1>2, <1>3 DEF a, b
    <3>2. Ordered(n) = a \o b BY <2>1 DEF a, b, o
    <3>3. Ordered(n) \in Seq(Nat) /\ Len(Ordered(n)) = Size BY <1>1, <3>1, <3>2
    <3>4. \A k \in 1 .. Size : Ordered(n)[k] = IF k <= Size - o THEN a[k] ELSE b[k - (Size - o)]
      BY <1>1, <3>1, <3>2
    <3>5. ASSUME NEW k \in 1 .. Size
          PROVE Ordered(n)[k] = kerRing[IF k <= Size - o THEN o + k - 1 ELSE o + k - 1 - Size]
      <4>1. CASE k <= Size - o
        <5>1. a[k] = kerRing[o + k - 1] BY <1>1, <1>3, <4>1 DEF a
        <5>2. QED BY <3>4, <4>1, <5>1
      <4>2. CASE k > Size - o
        <5>1. k - (Size - o) \in 1 .. o BY <1>1, <4>2
        <5>2. b[k - (Size - o)] = kerRing[(k - (Size - o)) - 1] BY <1>2, <5>1 DEF b
        <5>3. (k - (Size - o)) - 1 = o + k - 1 - Size BY <1>1
        <5>4. QED BY <1>1, <3>4, <4>2, <5>2, <5>3
      <4>3. QED BY <1>1, <4>1, <4>2
    <3>6. QED BY <3>3, <3>5
  <2>4. \A k \in 1 .. Size : kerRing[IF k <= Size - o THEN o + k - 1
          ELSE o + k - 1 - Size] = n - Size + k
    <3> TAKE k \in 1 .. Size
    <3>1. PICK d \in 1 .. Size : d = Size - k + 1 OBVIOUS
    <3>2. PICK x \in Nat : x = n - Size BY <2>2
    <3>3. PICK y \in 0 .. Size : y = k - 1 /\ n - d = x + y BY <3>1, <3>2
    <3>4. kerRing[Offset(x + y)] = n - Size + k
      <4>1. kerRing[Offset(n - d)] = n - d + 1
        <5>1. d <= n BY <2>2
        <5>2. QED BY ONLY <5>1, Holds(kerRing, n), d \in 1 .. Size, Zenon DEF Holds
      <4>2. QED BY <3>1, <3>3, <4>1
    <3>5. Offset(x) = o
      <4>1. Offset(x + Size) = Offset(x)
        <5>1. Size \in 0 .. Size OBVIOUS
        <5>2. Offset(x) \in Positions
                /\ Offset(x + Size) = IF Offset(x) + Size < Size THEN Offset(x) + Size ELSE Offset(x) + Size - Size
          BY <5>1, Further
        <5>3. QED BY <5>2
      <4>2. x + Size = n BY <3>2
      <4>3. QED BY <4>1, <4>2
    <3>6. Offset(x + y) = IF o + y < Size THEN o + y ELSE o + y - Size BY <3>5, Further
    <3> HIDE DEF o
    <3>7. QED BY <1>1, <3>3, <3>4, <3>6
  <2>5. QED BY <2>1, <2>3, <2>4
<1>6. QED BY <1>4, <1>5

-----------------------------------------------------------------------------
(* The steps.                                                              *)

\* A step of one user leaves the others out.
LEMMA Moves ==
  ASSUME TypeInv, OneUser, NEW u \in Users, NEW p \in {"idle", "fetch", "io", "order", "open"},
         Goto(u, p), pc[u] # "idle" \/ \A v \in Users : pc[v] = "idle"
  PROVE  /\ pc' \in [Users -> {"idle", "fetch", "io", "order", "open"}]
         /\ OneUser' /\ pc'[u] = p /\ \A v \in Users : v # u => pc'[v] = "idle"
<1>1. \A v \in Users : pc'[v] = IF v = u THEN p ELSE pc[v] BY DEF Goto, TypeInv
<1>2. \A v \in Users : v # u => pc[v] = "idle" BY DEF OneUser
<1>3. QED BY <1>1, <1>2 DEF Goto, TypeInv, OneUser

\* Nothing but the ring changes while TrustZone logs.
LEMMA LogStep == ASSUME Inv, Log PROVE Inv'
<1> USE AreaOK DEF Inv, Positions
<1>1. logged' = logged + 1 /\ ring' = [ring EXCEPT ![Offset(logged)] = logged + 1]
      /\ UNCHANGED <<source, bufVars, lock, userVars>>
  BY DEF Log
<1>2. Offset(logged) \in Positions
  <2>1. logged \in Nat /\ 0 \in 0 .. Size BY DEF TypeInv
  <2>2. QED BY ONLY <2>1, Further
<1>3. TypeInv' /\ OneUser'
  <2>1. logged' \in Nat /\ logged + 1 \in Nat BY <1>1 DEF TypeInv
  <2>2. ring' \in [Positions -> Nat] BY <1>1, <2>1 DEF TypeInv
  <2>3. QED BY <1>1, <2>1, <2>2 DEF TypeInv, OneUser, bufVars, userVars
<1>4. Holds(ring, logged)'
  <2> SUFFICES ASSUME NEW d \in 1 .. Size, d <= logged'
               PROVE ring'[Offset(logged' - d)] = logged' - d + 1
    BY Zenon DEF Holds
  <2>1. CASE d = 1
    <3>1. logged' - d = logged /\ logged' - d + 1 = logged + 1 BY <1>1, <2>1 DEF TypeInv
    <3>2. ring'[Offset(logged)] = logged + 1 BY <1>1, <1>2 DEF TypeInv
    <3>3. QED BY <3>1, <3>2
  <2>2. CASE d > 1
    <3>1. PICK e \in 1 .. Size - 1 : e = d - 1 BY <2>2
    <3>2. PICK x \in Nat : x = logged - e BY <1>1, <3>1 DEF TypeInv
    <3>3. e \in 0 .. Size /\ e \in 1 .. Size /\ e <= logged BY <3>1, <3>2 DEF TypeInv
    <3>4. Offset(x) # Offset(x + e)
      <4>1. /\ Offset(x) \in Positions
            /\ Offset(x + e) = IF Offset(x) + e < Size THEN Offset(x) + e ELSE Offset(x) + e - Size
        BY ONLY <3>2, <3>3, Further
      <4>2. QED BY <3>1, <4>1
    <3>5. x + e = logged BY <3>2 DEF TypeInv
    <3>6. ring[Offset(logged - e)] = logged - e + 1
      BY ONLY Holds(ring, logged), <3>3, Zenon DEF Holds
    <3>7. Offset(x) \in Positions
      <4>1. 0 \in 0 .. Size OBVIOUS
      <4>2. QED BY ONLY <4>1, <3>2, Further
    <3>8. ring'[Offset(x)] = ring[Offset(x)] BY <1>1, <3>4, <3>5, <3>7 DEF TypeInv
    <3>9. logged' - d = x /\ logged' - d + 1 = logged - e + 1 BY <1>1, <3>1, <3>2 DEF TypeInv
    <3>10. QED BY <3>2, <3>6, <3>8, <3>9
  <2>3. QED BY <2>1, <2>2
<1>5. ASSUME NEW u \in Users PROVE Copied(u)' /\ Opened(u)'
  <2>1. Copied(u) /\ Opened(u) OBVIOUS
  <2>2. Copied(u)'
    <3>1. Holds(kerRing, kerCount)' <=> Holds(kerRing, kerCount) BY <1>1 DEF Holds, bufVars
    <3>2. QED BY <1>1, <2>1, <3>1 DEF Copied, bufVars, userVars, TypeInv
  <2>3. Opened(u)' BY <1>1, <2>1 DEF Opened, Logged, Held, bufVars, userVars
  <2>4. QED BY <2>2, <2>3
<1>6. QED BY <1>3, <1>4, <1>5

\* What is left to show of a step of user u: the types, and u's own part.
LEMMA LeftOpen ==
  ASSUME Inv, NEW u \in Users, NEW p \in {"idle", "fetch", "io", "order", "open"}, Goto(u, p),
         pc[u] # "idle" \/ \A v \in Users : pc[v] = "idle",
         UNCHANGED tzVars,
         kerRing' \in [Positions -> Nat], kerCount' \in Nat, copyBuf' \in [1 .. Size -> Nat],
         copyLen' \in Nat,
         at' \in [Users -> Nat], since' \in [Users -> Nat], got' \in [Users -> Seq(Nat)],
         pc'[u] = p => Copied(u)' /\ Opened(u)'
  PROVE  Inv'
<1>1. TypeInv /\ OneUser BY DEF Inv
<1>2. /\ pc' \in [Users -> {"idle", "fetch", "io", "order", "open"}]
      /\ OneUser' /\ pc'[u] = p /\ \A v \in Users : v # u => pc'[v] = "idle"
  BY <1>1, Moves
<1>3. TypeInv' BY <1>1, <1>2 DEF TypeInv, tzVars
<1>4. Holds(ring, logged)'
  <2>1. Holds(ring, logged) /\ ring' = ring /\ logged' = logged BY DEF Inv, tzVars
  <2>2. QED BY <2>1 DEF Holds
<1>5. \A v \in Users : Copied(v)' /\ Opened(v)'
  <2> TAKE v \in Users
  <2>1. CASE v = u BY <1>2, <2>1
  <2>2. CASE v # u BY <1>2, <2>2 DEF Copied, Opened
  <2>3. QED BY <2>1, <2>2
<1>6. QED BY <1>2, <1>3, <1>4, <1>5 DEF Inv

\* Opening, closing and a fetch that fails: nothing is held, nothing has been read.
LEMMA CallStep ==
  ASSUME ~Overlap, Inv, NEW u \in Users, Open(u) \/ FetchFails(u) \/ Release(u) PROVE Inv'
<1>1. TypeInv BY DEF Inv
<1>2. CASE Open(u)
  <2>1. <<>> \in Seq(Nat) /\ got' = [got EXCEPT ![u] = <<>>] BY <1>2 DEF Open
  <2>2. got' \in [Users -> Seq(Nat)] /\ got'[u] = <<>> BY <1>1, <2>1 DEF TypeInv
  <2>3. Goto(u, "fetch") /\ (\A v \in Users : pc[v] = "idle") BY <1>2 DEF Open
  <2>4. /\ UNCHANGED tzVars /\ kerRing' \in [Positions -> Nat] /\ kerCount' \in Nat
        /\ copyBuf' \in [1 .. Size -> Nat] /\ copyLen' \in Nat
        /\ at' \in [Users -> Nat] /\ since' \in [Users -> Nat]
    BY <1>1, <1>2 DEF Open, TypeInv
  <2>5. pc'[u] = "fetch" => Copied(u)' /\ Opened(u)' BY <2>2 DEF Copied, Opened
  <2>6. QED BY <2>2, <2>3, <2>4, <2>5, LeftOpen
<1>3. CASE FetchFails(u) \/ Release(u)
  <2>1. Goto(u, "idle") /\ pc[u] # "idle" BY <1>3 DEF FetchFails, Release
  <2>2. UNCHANGED <<tzVars, bufVars, at, got, since>> BY <1>3 DEF FetchFails, Release
  <2>3. /\ UNCHANGED tzVars /\ kerRing' \in [Positions -> Nat] /\ kerCount' \in Nat
        /\ copyBuf' \in [1 .. Size -> Nat] /\ copyLen' \in Nat
        /\ at' \in [Users -> Nat] /\ since' \in [Users -> Nat] /\ got' \in [Users -> Seq(Nat)]
    BY <1>1, <2>2 DEF TypeInv, bufVars
  <2>4. pc'[u] = "idle" => Copied(u)' /\ Opened(u)' BY DEF Copied, Opened
  <2>5. QED BY <2>1, <2>3, <2>4, LeftOpen
<1>4. QED BY <1>2, <1>3

\* A call that leaves its user where he is.
LEMMA Stays ==
  ASSUME TypeInv, NEW u \in Users, UNCHANGED pc PROVE Goto(u, pc[u])
BY DEF Goto, TypeInv

\* A fetch begins with the position; one call of the firmware is all of it.
LEMMA FetchStep == ASSUME Inv, NEW u \in Users, FetchScm(u) \/ FetchPosition(u) PROVE Inv'
<1>1. TypeInv /\ Opened(u) /\ Holds(ring, logged) BY DEF Inv
<1>2. /\ UNCHANGED <<tzVars, copyBuf, copyLen, got>> /\ pc[u] = "fetch"
      /\ kerCount' = logged /\ since' = [since EXCEPT ![u] = logged]
  BY DEF FetchScm, FetchPosition
<1>3. /\ UNCHANGED tzVars /\ kerCount' \in Nat /\ since'[u] = kerCount' /\ got'[u] = <<>>
      /\ copyBuf' \in [1 .. Size -> Nat] /\ copyLen' \in Nat
      /\ since' \in [Users -> Nat] /\ got' \in [Users -> Seq(Nat)]
  BY <1>1, <1>2 DEF TypeInv, Opened
<1>4. CASE FetchScm(u)
  <2>1. Goto(u, "order") /\ kerRing' = ring /\ at' = at BY <1>4 DEF FetchScm
  <2>2. kerRing' \in [Positions -> Nat] /\ at' \in [Users -> Nat] BY <1>1, <2>1 DEF TypeInv
  <2>3. Holds(kerRing, kerCount)' BY <1>1, <1>2, <2>1 DEF Holds
  <2>4. pc'[u] = "order" => Copied(u)' /\ Opened(u)' BY <1>3, <2>3 DEF Copied, Opened
  <2>5. QED BY <1>2, <1>3, <2>1, <2>2, <2>4, LeftOpen
<1>5. CASE FetchPosition(u)
  <2>1. /\ Goto(u, "io") /\ kerRing' = kerRing /\ at' = [at EXCEPT ![u] = 0] /\ source = "io"
        /\ source' = source /\ logged' = logged
    BY <1>5 DEF FetchPosition, tzVars
  <2>2. kerRing' \in [Positions -> Nat] /\ at' \in [Users -> Nat] /\ at'[u] = 0
    BY <1>1, <2>1 DEF TypeInv
  <2>3. kerCount' <= logged' BY <1>1, <1>2, <2>1 DEF TypeInv
  <2>4. pc'[u] = "io" => Copied(u)' BY <1>3, <2>1, <2>2, <2>3, AreaOK DEF Copied
  <2>5. pc'[u] = "io" => Opened(u)' BY <1>3 DEF Opened
  <2>6. QED BY <1>2, <1>3, <2>1, <2>2, <2>4, <2>5, LeftOpen
<1>6. QED BY <1>4, <1>5

\* Where the driver copies, a byte below the position it has read is in the ring to stay.
LEMMA ByteStep == ASSUME Inv, Unwrapped, NEW u \in Users, FetchByte(u) PROVE Inv'
<1>1. TypeInv /\ Copied(u) /\ Opened(u) /\ Holds(ring, logged) BY DEF Inv
<1>2. /\ pc[u] = "io" /\ at[u] < Size - 1 /\ kerRing' = [kerRing EXCEPT ![at[u]] = ring[at[u]]]
      /\ at' = [at EXCEPT ![u] = @ + 1]
      /\ UNCHANGED <<tzVars, kerCount, copyBuf, copyLen, pc, got, since>>
  BY DEF FetchByte
<1>3. at[u] \in Positions /\ at[u] \in Nat BY <1>1, <1>2, AreaOK DEF Positions, TypeInv
<1>4. /\ kerRing' \in [Positions -> Nat] /\ at' \in [Users -> Nat] /\ at'[u] = at[u] + 1
      /\ kerRing'[at[u]] = ring[at[u]] /\ \A i \in Positions : i # at[u] => kerRing'[i] = kerRing[i]
  BY <1>1, <1>2, <1>3 DEF TypeInv
<1>5. /\ kerCount' \in Nat /\ copyBuf' \in [1 .. Size -> Nat] /\ copyLen' \in Nat
      /\ since' \in [Users -> Nat] /\ got' \in [Users -> Seq(Nat)]
  BY <1>1, <1>2 DEF TypeInv
<1>6. source = "io" /\ since[u] = kerCount /\ kerCount <= logged /\ logged < Size
  BY <1>1, <1>2 DEF Copied, Unwrapped
<1>7. at[u] < kerCount => ring[at[u]] = at[u] + 1
  <2> SUFFICES ASSUME at[u] < kerCount PROVE ring[at[u]] = at[u] + 1 OBVIOUS
  <2>1. PICK d \in 1 .. Size : d = logged - at[u] BY <1>1, <1>3, <1>6, AreaOK DEF TypeInv
  <2>2. d <= logged /\ logged - d = at[u] /\ logged - d + 1 = at[u] + 1 BY <1>1, <1>3, <2>1 DEF TypeInv
  <2>3. ring[Offset(logged - d)] = logged - d + 1
    <3>1. Holds(ring, logged) /\ d <= logged BY <1>1, <2>2
    <3>2. QED BY ONLY <3>1, d \in 1 .. Size, Zenon DEF Holds
  <2>4. Offset(at[u]) = at[u] BY <1>2, <1>3, Wrapped, AreaOK
  <2>5. QED BY <2>2, <2>3, <2>4
<1>8. \A i \in 0 .. at'[u] - 1 : i < kerCount => kerRing'[i] = i + 1
  <2> TAKE i \in 0 .. at'[u] - 1
  <2>1. CASE i = at[u] BY <1>4, <1>7, <2>1
  <2>2. CASE i # at[u]
    <3>1. i \in 0 .. at[u] - 1 /\ i \in Positions BY <1>2, <1>3, <1>4, <2>2, AreaOK DEF Positions
    <3>2. i < kerCount => kerRing[i] = i + 1 BY <1>1, <1>2, <3>1 DEF Copied
    <3>3. QED BY <1>4, <2>2, <3>1, <3>2
  <2>3. QED BY <2>1, <2>2
<1>9. Copied(u)'
  <2>1. pc'[u] = "io" /\ source' = "io" /\ since'[u] = kerCount' /\ kerCount' <= logged'
          /\ at'[u] < Size
    BY <1>2, <1>3, <1>4, <1>6, AreaOK DEF tzVars
  <2>2. kerCount' = kerCount BY <1>2
  <2>3. QED BY <1>8, <2>1, <2>2 DEF Copied
<1>10. Opened(u)' BY <1>1, <1>2 DEF Opened
<1>11. Goto(u, "io") BY <1>1, <1>2, Stays
<1>12. QED BY <1>2, <1>4, <1>5, <1>9, <1>10, <1>11, LeftOpen

\* The last byte of the ring is not copied, and holds nothing yet.
LEMMA EndStep == ASSUME Inv, Unwrapped, NEW u \in Users, FetchEnds(u) PROVE Inv'
<1>1. TypeInv /\ Copied(u) /\ Opened(u) BY DEF Inv
<1>2. /\ pc[u] = "io" /\ at[u] = Size - 1 /\ Goto(u, "order")
      /\ UNCHANGED <<tzVars, kerRing, kerCount, copyBuf, copyLen, at, got, since>>
  BY DEF FetchEnds, bufVars
<1>3. since[u] = kerCount /\ kerCount < Size /\ kerCount \in Nat
  <2>1. source = "io" /\ since[u] = kerCount /\ kerCount <= logged /\ logged < Size
    BY <1>1, <1>2 DEF Copied, Unwrapped
  <2>2. QED BY <1>1, <2>1, AreaOK DEF TypeInv
<1>4. Holds(kerRing, kerCount)
  <2> SUFFICES ASSUME NEW d \in 1 .. Size, d <= kerCount
               PROVE kerRing[Offset(kerCount - d)] = kerCount - d + 1
    BY DEF Holds
  <2>1. PICK i \in 0 .. at[u] - 1 : i = kerCount - d BY <1>2, <1>3, AreaOK
  <2>2. i < kerCount /\ i < Size BY <1>3, <2>1, AreaOK
  <2>3. kerRing[i] = i + 1 BY <1>1, <1>2, <2>2 DEF Copied
  <2>4. Offset(i) = i BY <2>2, Wrapped
  <2>5. QED BY <2>1, <2>3, <2>4
<1>5. pc'[u] = "order" => Copied(u)' /\ Opened(u)'
  <2>1. Holds(kerRing, kerCount)' BY <1>2, <1>4 DEF Holds
  <2>2. QED BY <1>1, <1>2, <1>3, <2>1 DEF Copied, Opened
<1>6. /\ kerRing' \in [Positions -> Nat] /\ kerCount' \in Nat
      /\ copyBuf' \in [1 .. Size -> Nat] /\ copyLen' \in Nat
      /\ at' \in [Users -> Nat] /\ since' \in [Users -> Nat] /\ got' \in [Users -> Seq(Nat)]
  BY <1>1, <1>2 DEF TypeInv
<1>7. QED BY <1>2, <1>5, <1>6, LeftOpen

\* The log is put in order at the beginning of copy_buf.
LEMMA OrderStep == ASSUME Inv, NEW u \in Users, Order(u) PROVE Inv'
<1> DEFINE log == Ordered(kerCount)
           rest == SubSeq(copyBuf, Len(log) + 1, Size)
<1>1. TypeInv /\ Copied(u) /\ Opened(u) BY DEF Inv
<1>2. /\ pc[u] = "order" /\ Goto(u, "open") /\ copyBuf' = log \o rest /\ copyLen' = Len(log)
      /\ UNCHANGED <<tzVars, kerRing, kerCount, at, got, since>>
  BY DEF Order
<1>3. since[u] = kerCount /\ Holds(kerRing, kerCount) /\ got[u] = <<>> BY <1>1, <1>2 DEF Copied, Opened
<1>4. /\ log \in Seq(Nat) /\ Len(log) = Held(u)
      /\ \A k \in 1 .. Held(u) : log[k] = since[u] - Held(u) + k
  BY <1>1, <1>3, OrderedLog DEF TypeInv, Held
<1>5. Held(u) \in 0 .. Size /\ Size \in Nat BY <1>1, <1>3, KeptBytes, AreaOK DEF TypeInv, Held
<1> HIDE DEF log
<1>6. rest \in Seq(Nat) /\ Len(rest) = Size - Held(u)
  <2>1. \A i \in Len(log) + 1 .. Size : copyBuf[i] \in Nat BY <1>1, <1>4, <1>5 DEF TypeInv
  <2>2. Len(log) + 1 \in Int /\ Size \in Int BY <1>4, <1>5
  <2>3. rest \in Seq(Nat) /\ Len(rest) = IF Len(log) + 1 <= Size THEN Size - (Len(log) + 1) + 1 ELSE 0
    BY <2>1, <2>2, SubSeqProperties
  <2>4. QED BY <1>4, <1>5, <2>3
<1> HIDE DEF rest
<1>7. /\ copyBuf' \in [1 .. Size -> Nat]
      /\ \A k \in 1 .. Held(u) : copyBuf'[k] = since[u] - Held(u) + k
  <2>1. /\ log \o rest \in Seq(Nat) /\ Len(log \o rest) = Size
        /\ \A k \in 1 .. Held(u) : (log \o rest)[k] = log[k]
    <3>1. /\ log \o rest \in Seq(Nat) /\ Len(log \o rest) = Len(log) + Len(rest)
          /\ \A k \in 1 .. Len(log) + Len(rest) :
               (log \o rest)[k] = IF k <= Len(log) THEN log[k] ELSE rest[k - Len(log)]
      BY <1>4, <1>6, ConcatProperties
    <3>2. QED BY <1>4, <1>5, <1>6, <3>1
  <2>2. log \o rest \in [1 .. Size -> Nat] BY <2>1, LenProperties
  <2>3. QED BY <1>2, <1>4, <2>1, <2>2
<1>8. /\ kerRing' \in [Positions -> Nat] /\ kerCount' \in Nat /\ copyLen' \in Nat
      /\ at' \in [Users -> Nat] /\ since' \in [Users -> Nat] /\ got' \in [Users -> Seq(Nat)]
  BY <1>1, <1>2, <1>4, <1>5 DEF TypeInv
<1>9. pc'[u] = "open" => Copied(u)' /\ Opened(u)'
  <2>1. Held(u)' = Held(u) /\ since'[u] = since[u] BY <1>2 DEF Held
  <2>2. copyLen' = Held(u)' /\ Logged(copyBuf, copyLen, u)' BY <1>2, <1>4, <1>7, <2>1 DEF Logged
  <2>3. got'[u] = <<>> /\ Len(got'[u]) = 0 BY <1>2, <1>3
  <2>4. Len(got'[u]) <= copyLen' /\ Logged(got[u], Len(got[u]), u)'
    BY <1>2, <1>4, <1>5, <2>3 DEF Logged
  <2>5. QED BY <2>2, <2>4 DEF Copied, Opened
<1>10. QED BY <1>2, <1>7, <1>8, <1>9, LeftOpen

\* A read goes on where the last one ended.
LEMMA ReadStep == ASSUME Inv, NEW u \in Users, NEW n \in Pieces, Read(u, n) PROVE Inv'
<1> DEFINE g == got[u]
           l == Len(g)
           m == IF l + n < copyLen THEN l + n ELSE copyLen
           piece == SubSeq(copyBuf, l + 1, m)
<1>1. TypeInv /\ Opened(u) BY DEF Inv
<1>2. /\ pc[u] = "open" /\ l < copyLen /\ got' = [got EXCEPT ![u] = g \o piece]
      /\ UNCHANGED <<tzVars, kerRing, kerCount, copyBuf, copyLen, pc, at, since>>
  BY DEF Read, bufVars
<1>3. /\ copyLen = Held(u) /\ Logged(copyBuf, copyLen, u)
      /\ l <= copyLen /\ Logged(g, l, u)
  BY <1>1, <1>2 DEF Opened
<1>4. g \in Seq(Nat) /\ l \in Nat /\ n \in Nat /\ copyLen \in Nat /\ copyLen <= Size
  BY <1>1, <1>3, KeptBytes, AreaOK DEF TypeInv, Held
<1>5. m \in Nat /\ l <= m /\ m <= copyLen BY <1>2, <1>4
<1> HIDE DEF m, l
<1>6. /\ piece \in Seq(Nat) /\ Len(piece) = m - l
      /\ \A k \in 1 .. m - l : piece[k] = copyBuf[l + k]
  <2>1. \A i \in l + 1 .. m : copyBuf[i] \in Nat
    <3>1. \A i \in l + 1 .. m : i \in 1 .. Size BY <1>4, <1>5, AreaOK
    <3>2. QED BY <1>1, <3>1 DEF TypeInv
  <2>2. l + 1 \in Int /\ m \in Int BY <1>4, <1>5
  <2>3. /\ piece \in Seq(Nat) /\ Len(piece) = IF l + 1 <= m THEN m - (l + 1) + 1 ELSE 0
        /\ \A i \in 1 .. m - (l + 1) + 1 : piece[i] = copyBuf[(l + 1) + i - 1]
    BY <2>1, <2>2, SubSeqProperties
  <2> HIDE DEF piece
  <2>4. m - (l + 1) + 1 = m - l /\ \A i \in Int : (l + 1) + i - 1 = l + i BY <1>4, <1>5
  <2>5. Len(piece) = m - l BY <1>4, <1>5, <2>3
  <2>6. ASSUME NEW k \in 1 .. m - l PROVE piece[k] = copyBuf[l + k]
    <3>1. k \in Int /\ k \in 1 .. m - (l + 1) + 1 BY <1>4, <1>5, <2>4
    <3>2. piece[k] = copyBuf[(l + 1) + k - 1] BY <2>3, <3>1
    <3>3. (l + 1) + k - 1 = l + k BY <2>4, <3>1
    <3>4. QED BY <3>2, <3>3
  <2>7. QED BY <2>3, <2>5, <2>6
<1> HIDE DEF g, piece
<1>7. /\ g \o piece \in Seq(Nat) /\ Len(g \o piece) = m
      /\ \A k \in 1 .. m : (g \o piece)[k] = IF k <= l THEN g[k] ELSE piece[k - l]
  <2>1. l = Len(g) BY DEF l, g
  <2>2. /\ g \o piece \in Seq(Nat) /\ Len(g \o piece) = l + Len(piece)
        /\ \A k \in 1 .. l + Len(piece) : (g \o piece)[k] = IF k <= l THEN g[k] ELSE piece[k - l]
    BY <1>4, <1>6, <2>1, ConcatProperties
  <2>3. l + Len(piece) = m BY <1>4, <1>5, <1>6
  <2>4. QED BY <2>2, <2>3
<1>8. \A k \in 1 .. m : (g \o piece)[k] = since[u] - Held(u) + k
  <2> TAKE k \in 1 .. m
  <2>1. (g \o piece)[k] = IF k <= l THEN g[k] ELSE piece[k - l] BY <1>7
  <2>2. CASE k <= l BY <1>3, <2>1, <2>2 DEF Logged
  <2>3. CASE k > l
    <3>1. k - l \in 1 .. m - l /\ l + (k - l) = k BY <1>4, <1>5, <2>3
    <3>2. piece[k - l] = copyBuf[k] BY <1>6, <3>1
    <3>3. copyBuf[k] = since[u] - Held(u) + k BY <1>3, <1>4, <1>5 DEF Logged
    <3>4. QED BY <1>4, <2>1, <2>3, <3>2, <3>3
  <2>4. k <= l \/ k > l BY <1>4, <1>5
  <2>5. QED BY <2>2, <2>3, <2>4
<1>9. got' \in [Users -> Seq(Nat)] /\ got'[u] = g \o piece BY <1>1, <1>2, <1>7 DEF TypeInv
<1>10. /\ kerRing' \in [Positions -> Nat] /\ kerCount' \in Nat /\ copyBuf' \in [1 .. Size -> Nat]
       /\ copyLen' \in Nat /\ at' \in [Users -> Nat] /\ since' \in [Users -> Nat]
  BY <1>1, <1>2 DEF TypeInv
<1>11. Copied(u)' /\ Opened(u)'
  <2>1. Held(u)' = Held(u) /\ since'[u] = since[u] /\ pc'[u] = "open" BY <1>2 DEF Held
  <2>2. copyLen' = Held(u)' /\ Logged(copyBuf, copyLen, u)' BY <1>2, <1>3, <2>1 DEF Logged
  <2>3. Len(got'[u]) <= copyLen' /\ Logged(got[u], Len(got[u]), u)'
    BY <1>2, <1>5, <1>7, <1>8, <1>9, <2>1 DEF Logged
  <2>4. QED BY <2>1, <2>2, <2>3 DEF Copied, Opened
<1>12. Goto(u, "open") BY <1>1, <1>2, Stays
<1>13. QED BY <1>2, <1>9, <1>10, <1>11, <1>12, LeftOpen

-----------------------------------------------------------------------------
LEMMA InitInv == Init => Inv
<1> SUFFICES ASSUME Init PROVE Inv OBVIOUS
<1>1. TypeInv
  <2>1. source \in {"scm", "io"} BY AreaOK DEF Init
  <2>2. <<>> \in Seq(Nat) OBVIOUS
  <2>3. QED BY <2>1, <2>2 DEF Init, TypeInv
<1>2. Holds(ring, logged) BY AreaOK DEF Init, Holds
<1>3. OneUser /\ \A u \in Users : Copied(u) /\ Opened(u) BY DEF Init, OneUser, Copied, Opened
<1>4. QED BY <1>1, <1>2, <1>3 DEF Inv

LEMMA NextInv == ~Overlap /\ Inv /\ Unwrapped /\ [Next]_vars => Inv'
<1> SUFFICES ASSUME ~Overlap, Inv, Unwrapped, [Next]_vars PROVE Inv' OBVIOUS
<1>1. CASE Log BY <1>1, LogStep
<1>2. ASSUME NEW u \in Users, Open(u) \/ FetchFails(u) \/ Release(u) PROVE Inv' BY <1>2, CallStep
<1>3. ASSUME NEW u \in Users, FetchScm(u) \/ FetchPosition(u) PROVE Inv' BY <1>3, FetchStep
<1>4. ASSUME NEW u \in Users, FetchByte(u) PROVE Inv' BY <1>4, ByteStep
<1>5. ASSUME NEW u \in Users, FetchEnds(u) PROVE Inv' BY <1>5, EndStep
<1>6. ASSUME NEW u \in Users, Order(u) PROVE Inv' BY <1>6, OrderStep
<1>7. ASSUME NEW u \in Users, NEW n \in Pieces, Read(u, n) PROVE Inv' BY <1>7, ReadStep
<1>8. CASE UNCHANGED vars
  <2>1. Inv /\ UNCHANGED vars BY <1>8
  <2>2. TypeInv' /\ OneUser' BY <2>1 DEF Inv, vars, tzVars, bufVars, userVars, TypeInv, OneUser
  <2>3. Holds(ring, logged)' BY <2>1 DEF Inv, vars, tzVars, Holds
  <2>4. ASSUME NEW u \in Users PROVE Copied(u)' /\ Opened(u)'
    <3>1. Copied(u) /\ Opened(u) BY <2>1 DEF Inv
    <3>2. Copied(u)' BY <2>1, <3>1 DEF Copied, Holds, vars, tzVars, bufVars, userVars
    <3>3. Opened(u)' BY <2>1, <3>1 DEF Opened, Logged, Held, vars, bufVars, userVars
    <3>4. QED BY <3>2, <3>3
  <2>5. QED BY <2>2, <2>3, <2>4 DEF Inv
<1>9. QED BY <1>1, <1>2, <1>3, <1>4, <1>5, <1>6, <1>7, <1>8 DEF Next

\* LogInOrder, for users one at a time: what a file gives is the last bytes logged, in
\* order, for a ring of any size, over any number of wraps with the firmware's copy, and
\* for as long as the ring has not wrapped with the driver's.  None of the bytes in the
\* ring is missing, except while the counter of wraps, of any width, has come round to 0.
THEOREM OrderCorrect ==
  ASSUME ~Overlap PROVE Spec /\ []Unwrapped => []LogInOrder
<1>1. Init => Inv BY InitInv
<1>2. Inv /\ Unwrapped /\ [Next]_vars => Inv' BY NextInv
<1>3. Inv => LogInOrder
  <2> SUFFICES ASSUME Inv, NEW u \in Users, pc[u] = "open"
               PROVE /\ ~LooksUnwrapped(since[u]) => copyLen = Least(Size, since[u])
                     /\ got[u] = [k \in 1 .. Len(got[u]) |-> since[u] - copyLen + k]
    BY DEF LogInOrder
  <2>1. TypeInv /\ Opened(u) BY DEF Inv
  <2>2. copyLen = Held(u) /\ Logged(got[u], Len(got[u]), u) BY <2>1 DEF Opened
  <2>3. ~LooksUnwrapped(since[u]) => copyLen = Least(Size, since[u])
    BY <2>1, <2>2, KeptBytes DEF TypeInv, Held
  <2>4. got[u] = [k \in 1 .. Len(got[u]) |-> got[u][k]] BY <2>1 DEF TypeInv
  <2>5. QED BY <2>2, <2>3, <2>4 DEF Logged
<1>4. QED BY <1>1, <1>2, <1>3, PTL DEF Spec

-----------------------------------------------------------------------------
(* The reader of the RPM's log: RpmLog.                                    *)

\* What RpmLog assumes of its constants.
LEMMA Nums ==
  /\ Modulus \in Nat /\ LogLen \in Nat /\ MaxMsgs \in Nat
  /\ Lengths \subseteq Nat /\ Payloads \subseteq Nat
BY SizesOK DEF Sizes
LEMMA Fit ==
  /\ LogLen > 0 /\ LogLen % 4 = 0 /\ Modulus % LogLen = 0
  /\ Starts \subseteq {i \in 0 .. Modulus - 1 : i % 4 = 0}
  /\ \A n \in Lengths : n > 0 /\ n + 7 <= LogLen
BY SizesOK DEF Sizes
LEMMA Short == MaxMsgs * LogLen < Modulus
BY BoundOK DEF WithinARound

\* Indices, and how far one is past the first message: that never comes round, so that
\* distances compare like the bytes the RPM has written.
Idx == 0 .. Modulus - 1
Dist(b, i) == Wrap(i - b)
Base == IF msgs = <<>> THEN tail ELSE msgs[1].at
Far(i) == Dist(Base, i)
\* Where a word lies in the ring.
Slot(i) == (i % LogLen) \div 4
Words(k) == MsgSize(msgs[k].len) \div 4
Cells == Nat \X Nat

\* The types.
RpmTyped ==
  /\ head \in Idx /\ tail \in Idx
  /\ msgs \in Seq([at : Idx, len : Lengths, pay : Payloads]) /\ Len(msgs) <= MaxMsgs
  /\ rpmRing \in [0 .. LogLen \div 4 - 1 -> (0 .. Len(msgs)) \X Nat]
  /\ written = -1 \/ written \in Nat
  /\ written # 0 => msgs # <<>> /\ New.at = tail /\ 4 * written <= MsgSize(New.len)
  /\ msgs = <<>> => head = tail
ReadTyped ==
  /\ readIdx \in Idx /\ h \in Idx /\ t \in Idx /\ opened \in Idx
  /\ msgLen \in Nat /\ words \in Seq(Cells) /\ rolled \in BOOLEAN
  /\ kept \in Seq([at : Idx, len : Nat, words : Seq(Cells)])

\* The messages lie one behind the other, and those published before the tail.
Sure == IF written = 0 THEN Len(msgs) ELSE Len(msgs) - 1 \* of the messages: published
Chain ==
  /\ \A k \in 1 .. Len(msgs) : \A j \in 1 .. k - 1 :
       Far(msgs[j].at) + MsgSize(msgs[j].len) <= Far(msgs[k].at)
  /\ \A k \in 1 .. Len(msgs) - 1 : msgs[k + 1].at = Wrap(msgs[k].at + MsgSize(msgs[k].len))
  /\ \A k \in 1 .. Len(msgs) : msgs[k].at % 4 = 0
  /\ \A k \in Published : Far(msgs[k].at) + MsgSize(msgs[k].len) <= Far(tail)
  /\ written = 0 /\ msgs # <<>> => tail = Wrap(New.at + MsgSize(New.len))
  /\ Far(tail) <= Sure * LogLen /\ tail % 4 = 0

\* The head is where a message begins, and at most the ring lies before the tail.
Boundary(i) == i = tail \/ \E k \in 1 .. Len(msgs) : msgs[k].at = i
HeadOK ==
  /\ Boundary(head) /\ Far(head) <= Far(tail) /\ Far(tail) - Far(head) <= LogLen
  /\ written > 0 => Far(tail) - Far(head) + MsgSize(New.len) <= LogLen
\* A message that the head has not passed has its words in the ring.
Stored(k, n) == \A i \in 0 .. n - 1 : rpmRing[Slot(msgs[k].at + 4 * i)] = <<k, i>>
RingHolds ==
  /\ \A k \in Published : Far(msgs[k].at) >= Far(head) => Stored(k, Words(k))
  /\ written > 0 => Stored(Len(msgs), written)
RpmInv == RpmTyped /\ Chain /\ HeadOK /\ RingHolds

\* What the reader knows of the message at its index: while it copies, as long as the head
\* has not passed the index; and when it looks again, as long as the head it then read has not.
At(i) == {k \in 1 .. Len(msgs) : msgs[k].at = i}
Partly(k) ==
  /\ msgLen = msgs[k].len
  /\ 4 * Len(words) <= Padded(msgLen)
  /\ \A i \in 1 .. Len(words) : words[i] = <<k, i>>
Whole(l, w, k) == l = msgs[k].len /\ w = [i \in 1 .. Padded(msgs[k].len) \div 4 |-> <<k, i>>]
ReaderInv ==
  /\ Far(readIdx) <= Far(tail)
  /\ reader = "copy_head" => Far(readIdx) <= Far(t) /\ Far(t) <= Far(tail)
  /\ reader \in {"loop", "loop_tail", "length", "word", "check_tail"} =>
       Far(readIdx) < Far(t) /\ Far(t) <= Far(tail)
  /\ reader \in {"loop_tail", "check_tail"} => Far(h) <= Far(head) /\ Boundary(h)
  /\ reader \in {"length", "word", "check_tail"} => Boundary(t) /\ t % 4 = 0 /\ readIdx % 4 = 0
  /\ reader \in {"word", "check_tail"} => MsgSize(msgLen) <= Far(t) - Far(readIdx)
  /\ reader = "word" /\ Far(head) <= Far(readIdx) => \A k \in At(readIdx) : Partly(k)
  /\ reader = "check_tail" /\ Far(h) <= Far(readIdx) => \A k \in At(readIdx) : Whole(msgLen, words, k)
\* What was put in the buffer.
KeptInv ==
  \A j \in 1 .. Len(kept) :
    /\ Far(kept[j].at) < Far(tail)
    /\ \A k \in At(kept[j].at) : Whole(kept[j].len, kept[j].words, k)
\* The index and what was put in the buffer only go on from where the file was opened.
OrderInv ==
  /\ Far(opened) <= Far(head) /\ Far(opened) <= Far(readIdx)
  /\ \A j \in 1 .. Len(kept) :
       /\ Far(opened) <= Far(kept[j].at)
       /\ Far(kept[j].at) + MsgSize(kept[j].len) <= Far(readIdx)
  /\ \A j \in 1 .. Len(kept) - 1 : Far(kept[j].at) + MsgSize(kept[j].len) <= Far(kept[j + 1].at)
\* As long as nothing was dropped half way the index is where a message begins, and every
\* message before it was put in the buffer or overwritten.
Given(k) == \E j \in 1 .. Len(kept) : kept[j].at = msgs[k].at
SkipInv ==
  ~rolled =>
    /\ Boundary(readIdx)
    /\ \A k \in Published :
         Far(opened) <= Far(msgs[k].at) /\ Far(msgs[k].at) < Far(readIdx) =>
           Given(k) \/ Far(msgs[k].at) < Far(head)
-----------------------------------------------------------------------------
(* Indices.                                                                *)

\* The remainder of a number that is so many times m and less than m more.
LEMMA ModIs ==
  ASSUME NEW m \in Nat, m > 0, NEW q \in Int, NEW r \in 0 .. m - 1, NEW x \in Int, x = m * q + r
  PROVE x % m = r
OBVIOUS

\* A number is so many times m and a remainder.
LEMMA ModOf ==
  ASSUME NEW m \in Nat, m > 0, NEW x \in Int
  PROVE x % m \in 0 .. m - 1 /\ x \div m \in Int /\ x = m * (x \div m) + (x % m)
OBVIOUS

\* The counts of bytes are whole words and whole rounds of the ring.
LEMMA Rounded ==
  /\ Modulus \in Nat /\ LogLen \in Nat /\ Modulus > 0 /\ LogLen > 0 /\ LogLen <= Modulus
  /\ Modulus % 4 = 0 /\ LogLen % 4 = 0
  /\ \E q \in Nat : Modulus = LogLen * q
<1>1. Modulus \in Nat /\ LogLen \in Nat /\ LogLen > 0 /\ LogLen % 4 = 0 /\ Modulus % LogLen = 0
  BY Nums, Fit
<1>2. MaxMsgs * LogLen \in Nat BY Nums
<1>3. Modulus > 0 BY <1>1, <1>2, Short
<1> DEFINE q == Modulus \div LogLen
           p == LogLen \div 4
<1>4. q \in Int /\ Modulus = LogLen * q
  <2>1. Modulus = LogLen * q + (Modulus % LogLen) /\ q \in Int BY <1>1, ModOf
  <2>2. LogLen * q \in Int BY <1>1, <2>1
  <2>3. QED BY <1>1, <2>1, <2>2
<1>5. p \in Int /\ LogLen = 4 * p BY <1>1
<1> HIDE DEF q, p
<1>6. q >= 1
  <2>1. CASE q <= 0
    <3>1. LogLen * q <= 0 BY <1>1, <1>4, <2>1
    <3>2. QED BY <1>3, <1>4, <3>1
  <2>2. QED BY <1>4, <2>1
<1>7. LogLen <= Modulus
  <2>1. LogLen * q = LogLen + LogLen * (q - 1) /\ LogLen * (q - 1) >= 0 BY <1>1, <1>4, <1>6
  <2>2. LogLen * (q - 1) \in Int BY <1>1, <1>4
  <2>3. QED BY <1>1, <1>4, <2>1, <2>2
<1>8. Modulus % 4 = 0
  <2>1. Modulus = 4 * (p * q) BY <1>4, <1>5
  <2>2. p * q \in Int BY <1>4, <1>5
  <2>3. Modulus = 4 * (p * q) + 0 BY <1>1, <2>1, <2>2
  <2>4. QED BY <1>1, <2>2, <2>3, ModIs
<1>9. q \in Nat BY <1>4, <1>6
<1>10. QED BY <1>1, <1>3, <1>4, <1>7, <1>8, <1>9

\* An index counted beyond the modulus, or back below zero.
LEMMA WrapIs ==
  ASSUME NEW x \in Int, -Modulus <= x, x < 2 * Modulus
  PROVE Wrap(x) = IF x < 0 THEN x + Modulus ELSE IF x < Modulus THEN x ELSE x - Modulus
<1>1. Modulus \in Nat /\ Modulus > 0 BY Rounded
<1>2. CASE x < 0
  <2>1. x = Modulus * (-1) + (x + Modulus) /\ x + Modulus \in 0 .. Modulus - 1 BY <1>1, <1>2
  <2>2. QED BY <1>1, <1>2, <2>1, ModIs DEF Wrap
<1>3. CASE x >= 0 /\ x < Modulus
  <2>1. x = Modulus * 0 + x /\ x \in 0 .. Modulus - 1 BY <1>1, <1>3
  <2>2. QED BY <1>1, <1>3, <2>1, ModIs DEF Wrap
<1>4. CASE x >= Modulus
  <2>1. x = Modulus * 1 + (x - Modulus) /\ x - Modulus \in 0 .. Modulus - 1 BY <1>1, <1>4
  <2>2. QED BY <1>1, <1>4, <2>1, ModIs DEF Wrap
<1>5. QED BY <1>1, <1>2, <1>3, <1>4

\* Wrapping gives an index.
LEMMA WrapType ==
  \A x \in Int : Wrap(x) \in Idx
BY Rounded, ModOf DEF Wrap, Idx

\* How far an index is from another, b.
LEMMA Distance ==
  ASSUME NEW b \in Idx, NEW x \in Idx
  PROVE Dist(b, x) \in Idx /\ Dist(b, x) = IF x >= b THEN x - b ELSE x - b + Modulus
<1>1. Modulus \in Nat /\ Modulus > 0 BY Rounded
<1>2. x - b \in Int /\ -Modulus <= x - b /\ x - b < 2 * Modulus /\ x \in Int /\ b \in Int
  BY <1>1 DEF Idx
<1>3. Dist(b, x) = IF x - b < 0 THEN x - b + Modulus ELSE IF x - b < Modulus THEN x - b
        ELSE x - b - Modulus
  BY <1>2, WrapIs DEF Dist
<1>4. QED BY <1>1, <1>3 DEF Idx

\* Indices at the same distance are the same.
LEMMA SamePlace ==
  ASSUME NEW b \in Idx, NEW x \in Idx, NEW y \in Idx, Dist(b, x) = Dist(b, y) PROVE x = y
<1>1. Dist(b, x) = IF x >= b THEN x - b ELSE x - b + Modulus BY Distance
<1>2. Dist(b, y) = IF y >= b THEN y - b ELSE y - b + Modulus BY Distance
<1>3. Modulus \in Nat /\ b \in 0 .. Modulus - 1 /\ x \in 0 .. Modulus - 1 /\ y \in 0 .. Modulus - 1
  BY Rounded DEF Idx
<1>4. (IF x >= b THEN x - b ELSE x - b + Modulus) = (IF y >= b THEN y - b ELSE y - b + Modulus)
  BY <1>1, <1>2
<1>5. QED BY ONLY <1>3, <1>4

\* What lies between two indices is the difference of their distances.
LEMMA Between ==
  ASSUME NEW b \in Idx, NEW x \in Idx, NEW y \in Idx
  PROVE Wrap(x - y) = IF Dist(b, y) <= Dist(b, x) THEN Dist(b, x) - Dist(b, y)
                      ELSE Dist(b, x) - Dist(b, y) + Modulus
<1>1. Modulus \in Nat /\ Modulus > 0 BY Rounded
<1>2. x - y \in Int /\ -Modulus <= x - y /\ x - y < 2 * Modulus BY <1>1 DEF Idx
<1>3. Wrap(x - y) = IF x - y < 0 THEN x - y + Modulus ELSE IF x - y < Modulus THEN x - y
        ELSE x - y - Modulus
  BY <1>2, WrapIs
<1>4. Dist(b, x) = IF x >= b THEN x - b ELSE x - b + Modulus BY Distance
<1>5. Dist(b, y) = IF y >= b THEN y - b ELSE y - b + Modulus BY Distance
<1>6. QED BY <1>1, <1>3, <1>4, <1>5 DEF Idx

\* An index that moves on, by less than a round of the counter.
LEMMA Ahead ==
  ASSUME NEW b \in Idx, NEW x \in Idx, NEW n \in Nat, Dist(b, x) + n < Modulus
  PROVE Wrap(x + n) \in Idx /\ Dist(b, Wrap(x + n)) = Dist(b, x) + n
<1>1. Modulus \in Nat /\ Modulus > 0 BY Rounded
<1>2. Dist(b, x) \in Idx /\ Dist(b, x) = IF x >= b THEN x - b ELSE x - b + Modulus BY Distance
<1>3. x \in Int /\ x >= 0 /\ x + n < 2 * Modulus BY <1>1, <1>2 DEF Idx
<1>4. PICK z \in Int : z = x + n BY <1>3
<1>5. -Modulus <= z /\ 0 <= z /\ z < 2 * Modulus BY <1>1, <1>3, <1>4
<1>6. Wrap(z) = IF z < 0 THEN z + Modulus ELSE IF z < Modulus THEN z ELSE z - Modulus
  BY <1>5, WrapIs
<1>7. Wrap(z) \in Idx BY WrapType
<1>8. Dist(b, Wrap(z)) = IF Wrap(z) >= b THEN Wrap(z) - b ELSE Wrap(z) - b + Modulus
  BY <1>7, Distance
<1>9. Dist(b, Wrap(z)) = Dist(b, x) + n BY <1>1, <1>2, <1>3, <1>4, <1>5, <1>6, <1>8 DEF Idx
<1>10. QED BY <1>4, <1>7, <1>9

\* The bytes of a number of words.
LEMMA PaddedType ==
  ASSUME NEW n \in Nat
  PROVE /\ Padded(n) \in Nat /\ Padded(n) % 4 = 0 /\ Padded(n) + 4 <= Modulus
          /\ MsgSize(n) \in Nat /\ MsgSize(n) % 4 = 0
        /\ n + 3 < Modulus => n <= Padded(n) /\ Padded(n) <= n + 3
        /\ n % 4 = 0 /\ n + 4 <= Modulus => Padded(n) = n
<1> DEFINE m == Wrap(n + 3)
<1>1. m \in Idx /\ Modulus \in Nat /\ Modulus > 0 /\ Modulus % 4 = 0 BY WrapType, Rounded
<1>2. Padded(n) = m - (m % 4) BY DEF Padded
<1>3. n + 3 < Modulus => m = n + 3 BY <1>1, WrapIs
<1>4. n % 4 = 0 /\ n + 4 <= Modulus => m = n + 3 BY <1>3, <1>1
<1>5. MsgSize(n) = Padded(n) + 4 BY DEF MsgSize
<1> HIDE DEF m
<1>6. QED BY <1>1, <1>2, <1>3, <1>4, <1>5 DEF Idx

\* The bytes of a message: its length in whole words, and the length word.
LEMMA LengthType ==
  ASSUME NEW n \in Lengths
  PROVE /\ n \in Nat /\ n > 0 /\ n + 7 <= LogLen /\ n + 7 <= Modulus
        /\ MsgSize(n) \in Nat /\ MsgSize(n) % 4 = 0 /\ MsgSize(n) <= LogLen /\ MsgSize(n) >= 4
        /\ MsgSize(n) = Padded(n) + 4 /\ Padded(n) \in Nat
        /\ n <= Padded(n) /\ Padded(n) <= n + 3
<1>1. n \in Nat /\ n > 0 /\ n + 7 <= LogLen BY Nums, Fit
<1>2. LogLen \in Nat /\ Modulus \in Nat /\ LogLen <= Modulus BY Rounded
<1>3. MsgSize(n) \in Nat /\ MsgSize(n) % 4 = 0 /\ Padded(n) \in Nat /\ n <= Padded(n)
            /\ Padded(n) <= n + 3
  BY <1>1, <1>2, PaddedType
<1>4. Padded(n) % 4 = 0 BY <1>1, PaddedType
<1>5. MsgSize(n) = Padded(n) + 4 BY DEF MsgSize
<1>6. MsgSize(n) <= LogLen BY <1>1, <1>2, <1>3, <1>5
<1>7. QED BY <1>1, <1>2, <1>3, <1>5, <1>6

\* Two words less than a round of the ring apart lie in two places.
LEMMA Slots ==
  ASSUME NEW b \in Idx, NEW x \in Idx, NEW y \in Idx, x % 4 = 0, y % 4 = 0, NEW m \in Nat,
         NEW n \in Nat,
         Dist(b, x) + 4 * m # Dist(b, y) + 4 * n,
         (Dist(b, x) + 4 * m) - (Dist(b, y) + 4 * n) < LogLen,
         (Dist(b, y) + 4 * n) - (Dist(b, x) + 4 * m) < LogLen
  PROVE Slot(x + 4 * m) # Slot(y + 4 * n)
<1> DEFINE u == x + 4 * m
           v == y + 4 * n
           d == (Dist(b, x) + 4 * m) - (Dist(b, y) + 4 * n)
<1>1. LogLen \in Nat /\ LogLen > 0 /\ LogLen % 4 = 0 /\ Modulus \in Nat BY Rounded
<1>2. PICK q \in Nat : Modulus = LogLen * q BY Rounded
<1>3. u \in Nat /\ v \in Nat /\ u % 4 = 0 /\ v % 4 = 0 BY DEF Idx
<1>4. d \in Int /\ \E e \in {-1, 0, 1} : u - v = d + Modulus * e
  <2>1. Dist(b, x) = IF x >= b THEN x - b ELSE x - b + Modulus BY Distance
  <2>2. Dist(b, y) = IF y >= b THEN y - b ELSE y - b + Modulus BY Distance
  <2>3. Modulus * 0 = 0 /\ Modulus * 1 = Modulus /\ Modulus * (-1) = -Modulus BY <1>1
  <2>4. u - v = d + Modulus * 0 \/ u - v = d + Modulus * 1 \/ u - v = d + Modulus * (-1)
    BY <1>1, <2>1, <2>2, <2>3 DEF Idx
  <2>5. d \in Int BY <1>1, <2>1, <2>2 DEF Idx
  <2>6. QED BY <2>4, <2>5
<1>5. PICK e \in {-1, 0, 1} : u - v = d + Modulus * e BY <1>4
<1>6. d # 0 /\ d < LogLen /\ -d < LogLen
  <2>1. Dist(b, x) \in Int /\ Dist(b, y) \in Int BY Distance DEF Idx
  <2>2. QED BY <2>1
<1> HIDE DEF u, v, d
<1>7. u % LogLen \in 0 .. LogLen - 1 /\ u \div LogLen \in Int
            /\ u = LogLen * (u \div LogLen) + (u % LogLen)
  BY <1>1, <1>3, ModOf
<1>8. v % LogLen \in 0 .. LogLen - 1 /\ v \div LogLen \in Int
            /\ v = LogLen * (v \div LogLen) + (v % LogLen)
  BY <1>1, <1>3, ModOf
<1> DEFINE uq == u \div LogLen
           ur == u % LogLen
           vq == v \div LogLen
           vr == v % LogLen
           p == LogLen \div 4
<1>9. p \in Nat /\ LogLen = 4 * p BY <1>1
<1> HIDE DEF uq, ur, vq, vr, p
<1>10. uq \in Int /\ vq \in Int /\ ur \in 0 .. LogLen - 1 /\ vr \in 0 .. LogLen - 1
       /\ u = LogLen * uq + ur /\ v = LogLen * vq + vr
  BY <1>7, <1>8 DEF uq, ur, vq, vr
<1>11. ur % 4 = 0
  <2>1. LogLen * uq = 4 * (p * uq) /\ p * uq \in Int BY <1>9, <1>10
  <2>2. QED BY <1>3, <1>10, <2>1
<1>12. vr % 4 = 0
  <2>1. LogLen * vq = 4 * (p * vq) /\ p * vq \in Int BY <1>9, <1>10
  <2>2. QED BY <1>3, <1>10, <2>1
<1>13. ur # vr
  <2>1. SUFFICES ASSUME ur = vr PROVE FALSE OBVIOUS
  <2> DEFINE w == uq - vq - q * e
  <2>2. w \in Int /\ d = LogLen * w
    <3>1. u - v = LogLen * uq - LogLen * vq BY <1>1, <1>10, <2>1
    <3>2. Modulus * e = LogLen * (q * e) BY <1>1, <1>2
    <3>3. LogLen * w = LogLen * uq - LogLen * vq - LogLen * (q * e) BY <1>1, <1>2, <1>10
    <3>4. LogLen * uq \in Int /\ LogLen * vq \in Int /\ LogLen * (q * e) \in Int
      BY <1>1, <1>2, <1>10
    <3>5. d = LogLen * w BY <1>3, <1>4, <1>5, <3>1, <3>2, <3>3, <3>4
    <3>6. QED BY <1>2, <1>10, <3>5
  <2> HIDE DEF w
  <2>3. w # 0 BY <1>1, <1>6, <2>2
  <2>4. CASE w >= 1
    <3>1. LogLen * w = LogLen + LogLen * (w - 1) /\ LogLen * (w - 1) >= 0 /\ LogLen * (w - 1) \in Int
      BY <1>1, <2>2, <2>4
    <3>2. QED BY <1>1, <1>6, <2>2, <3>1
  <2>5. CASE w <= -1
    <3>1. LogLen * w = -LogLen + LogLen * (w + 1) /\ LogLen * (w + 1) <= 0 /\ LogLen * (w + 1) \in Int
      BY <1>1, <2>2, <2>5
    <3>2. QED BY <1>1, <1>6, <2>2, <3>1
  <2>6. QED BY <2>2, <2>3, <2>4, <2>5
<1>14. ur \div 4 # vr \div 4 BY <1>1, <1>10, <1>11, <1>12, <1>13
<1>15. QED BY <1>14 DEF Slot, u, v, ur, vr

\* A place is in the ring.
LEMMA SlotType ==
  \A x \in Nat : Slot(x) \in 0 .. LogLen \div 4 - 1
<1>1. LogLen \in Nat /\ LogLen > 0 /\ LogLen % 4 = 0 BY Rounded
<1>2. TAKE x \in Nat
<1>3. x % LogLen \in 0 .. LogLen - 1 BY <1>1, ModOf
<1> DEFINE r == x % LogLen
<1> HIDE DEF r
<1>4. r \in 0 .. LogLen - 1 BY <1>3 DEF r
<1>5. r \div 4 \in 0 .. LogLen \div 4 - 1 BY <1>1, <1>4
<1>6. QED BY <1>5 DEF Slot, r
\* Wrapping keeps words apart from their bytes.
LEMMA WrapAligned ==
  \A x \in Int : x % 4 = 0 => Wrap(x) % 4 = 0
<1>1. Modulus \in Nat /\ Modulus > 0 /\ Modulus % 4 = 0 BY Rounded
<1>2. SUFFICES ASSUME NEW x \in Int, x % 4 = 0 PROVE Wrap(x) % 4 = 0 OBVIOUS
<1> DEFINE q == x \div Modulus
           r == x % Modulus
           p == Modulus \div 4
<1>3. r \in Int /\ q \in Int /\ x = Modulus * q + r BY <1>1, ModOf
<1>4. p \in Int /\ Modulus = 4 * p BY <1>1
<1> HIDE DEF q, r, p
<1>5. PICK z \in Int : x = 4 * z + r
  <2>1. x = 4 * (p * q) + r /\ p * q \in Int BY <1>3, <1>4
  <2>2. QED BY <2>1
<1>6. r % 4 = 0 BY <1>2, <1>3, <1>5
<1>7. QED BY <1>6 DEF Wrap, r

-----------------------------------------------------------------------------
(* The messages.                                                           *)

\* What the messages and their indices are.
LEMMA MsgType ==
  ASSUME RpmTyped
  PROVE /\ Len(msgs) \in Nat /\ Base \in Idx
        /\ \A k \in 1 .. Len(msgs) : msgs[k].at \in Idx /\ msgs[k].len \in Lengths
              /\ msgs[k].pay \in Payloads
        /\ \A i \in Idx : Far(i) \in Nat /\ Far(i) < Modulus
<1>1. msgs \in Seq([at : Idx, len : Lengths, pay : Payloads]) /\ tail \in Idx BY DEF RpmTyped
<1>2. \A k \in 1 .. Len(msgs) : msgs[k] \in [at : Idx, len : Lengths, pay : Payloads]
  BY <1>1, ElementOfSeq
<1>3. Len(msgs) \in Nat /\ (msgs # <<>> => Len(msgs) > 0) BY <1>1
<1>4. Base \in Idx BY <1>1, <1>2, <1>3 DEF Base
<1>5. \A i \in Idx : Far(i) \in Idx BY <1>4, Distance DEF Far
<1>6. \A i \in Idx : Far(i) \in Nat /\ Far(i) < Modulus BY <1>5, Rounded DEF Idx
<1>7. QED BY <1>2, <1>3, <1>4, <1>6

\* The messages published: all, or all but the one being written.
LEMMA PublishedIs ==
  ASSUME RpmTyped
  PROVE /\ Published = 1 .. Sure /\ Sure \in Nat /\ Sure <= Len(msgs)
        /\ written # 0 => Sure = Len(msgs) - 1 /\ Len(msgs) > 0
<1>1. Len(msgs) \in Nat BY MsgType
<1>2. written # 0 => Len(msgs) > 0
  <2>1. written # 0 => msgs # <<>> /\ msgs \in Seq([at : Idx, len : Lengths, pay : Payloads])
    BY DEF RpmTyped
  <2>2. QED BY <2>1
<1>3. QED BY <1>1, <1>2 DEF Published, Sure

\* Two messages lie apart.
LEMMA Apart ==
  ASSUME RpmTyped, Chain, NEW j \in 1 .. Len(msgs), NEW k \in 1 .. Len(msgs),
         msgs[j].at = msgs[k].at
  PROVE j = k
<1>1. SUFFICES ASSUME NEW a \in 1 .. Len(msgs), NEW c \in 1 .. Len(msgs), a < c, msgs[a].at = msgs[c].at
               PROVE FALSE
  BY MsgType
<1>2. Far(msgs[a].at) + MsgSize(msgs[a].len) <= Far(msgs[c].at)
  <2>1. a \in 1 .. c - 1 BY <1>1, MsgType
  <2>2. QED BY <2>1 DEF Chain
<1>3. msgs[a].at \in Idx /\ msgs[a].len \in Lengths BY MsgType
<1>4. Far(msgs[a].at) \in Nat /\ MsgSize(msgs[a].len) \in Nat /\ MsgSize(msgs[a].len) >= 4
  BY <1>3, MsgType, LengthType
<1>5. QED BY <1>1, <1>2, <1>4

\* What has been published ends before the tail, with room for another message below the
\* modulus.
LEMMA TailBound ==
  ASSUME RpmTyped, Chain, written # 0 \/ Len(msgs) < MaxMsgs
  PROVE Far(tail) + LogLen < Modulus
<1>1. Far(tail) <= Sure * LogLen BY DEF Chain
<1>2. Sure \in Nat /\ Sure + 1 <= MaxMsgs /\ MaxMsgs \in Nat
  <2>1. Len(msgs) <= MaxMsgs /\ MaxMsgs \in Nat BY Nums DEF RpmTyped
  <2>2. QED BY <2>1, MsgType, PublishedIs DEF Sure
<1>3. LogLen \in Nat /\ Modulus \in Nat /\ MaxMsgs * LogLen < Modulus BY Nums, Short
<1>4. Sure * LogLen + LogLen <= MaxMsgs * LogLen
  <2>1. PICK d \in Nat : MaxMsgs = Sure + 1 + d
    <3>1. MaxMsgs - Sure - 1 \in Nat BY <1>2
    <3>2. QED BY <1>2, <3>1
  <2>2. (Sure + 1 + d) * LogLen = Sure * LogLen + LogLen + d * LogLen BY <1>2, <1>3, <2>1
  <2>3. d * LogLen \in Nat BY <1>3, <2>1
  <2>4. Sure * LogLen \in Nat BY <1>2, <1>3
  <2>5. QED BY <1>3, <2>1, <2>2, <2>3, <2>4
<1>5. Far(tail) \in Nat /\ Sure * LogLen \in Nat /\ MaxMsgs * LogLen \in Nat
  <2>1. tail \in Idx BY DEF RpmTyped
  <2>2. QED BY <1>2, <1>3, <2>1, MsgType
<1>6. QED BY <1>1, <1>3, <1>4, <1>5

\* Used is what lies between head and tail.
LEMMA UsedIs ==
  ASSUME RpmTyped, HeadOK PROVE Used = Far(tail) - Far(head)
<1>1. head \in Idx /\ tail \in Idx BY DEF RpmTyped
<1>2. Far(head) <= Far(tail) BY DEF HeadOK
<1>3. QED BY <1>1, <1>2, MsgType, Between DEF Used, Far

\* The base never changes.
LEMMA BaseKept ==
  ASSUME RpmTyped, [LogNext]_logVars PROVE Base' = Base
<1>1. msgs \in Seq([at : Idx, len : Lengths, pay : Payloads]) /\ (written # 0 => msgs # <<>>)
  BY DEF RpmTyped
<1>2. ASSUME NEW n \in Lengths, NEW v \in Payloads, RpmBegin(n, v) PROVE Base' = Base
  <2> DEFINE e == [at |-> tail, len |-> n, pay |-> v]
  <2>1. msgs' = Append(msgs, e) BY <1>2 DEF RpmBegin
  <2>2. msgs' # <<>> /\ msgs'[1] = IF msgs = <<>> THEN e ELSE msgs[1]
    <3>1. Len(msgs') = Len(msgs) + 1 /\ Len(msgs) \in Nat BY <1>1, <2>1
    <3>2. msgs = <<>> <=> Len(msgs) = 0 BY <1>1
    <3>3. \A i \in 1 .. Len(msgs) + 1 : msgs'[i] = IF i = Len(msgs) + 1 THEN e ELSE msgs[i]
      BY <1>1, <2>1
    <3>4. msgs' # <<>> BY <3>1
    <3>5. QED BY <3>1, <3>2, <3>3, <3>4
  <2>3. QED BY <2>2 DEF Base
<1>3. CASE RpmPublish BY <1>1, <1>3 DEF RpmPublish, Base
<1>4. CASE UNCHANGED <<msgs, tail>> BY <1>4 DEF Base
<1>5. CASE RpmFree \/ RpmWrite BY <1>4, <1>5 DEF RpmFree, RpmWrite
<1>6. CASE Copying
  BY <1>4, <1>6 DEF Copying, CopyTail, CopyHead, LoopHead, LoopTail, ReadLength,
     CopyWord,
                                     CheckHead, CheckTail, rpmVars
<1>7. CASE File
  BY <1>4, <1>7 DEF File, OpenLog, Close, ReadLog, Sleep, TryAgain, Recheck, Signal,
     Deliver, rpmVars
<1>8. CASE UNCHANGED logVars BY <1>4, <1>8 DEF logVars, rpmVars
<1>9. QED BY <1>2, <1>3, <1>5, <1>6, <1>7, <1>8 DEF LogNext, Rpm

-----------------------------------------------------------------------------
(* The RPM.                                                                *)

\* Each step of the RPM keeps its invariant.
LEMMA BeginKeeps ==
  ASSUME RpmInv, NEW n \in Lengths, NEW v \in Payloads, RpmBegin(n, v) PROVE RpmInv'
<1> DEFINE e == [at |-> tail, len |-> n, pay |-> v]
           L == Len(msgs)
<1>1. /\ RpmTyped /\ Chain /\ HeadOK /\ RingHolds /\ written = 0 /\ L < MaxMsgs
            /\ msgs' = Append(msgs, e)
      /\ written' = -1 /\ head' = head /\ tail' = tail /\ rpmRing' = rpmRing
  BY DEF RpmInv, RpmBegin
<1>2. msgs \in Seq([at : Idx, len : Lengths, pay : Payloads]) /\ head \in Idx /\ tail \in Idx
            /\ L \in Nat
  BY <1>1 DEF RpmTyped
<1>3. /\ e \in [at : Idx, len : Lengths, pay : Payloads]
      /\ msgs' \in Seq([at : Idx, len : Lengths, pay : Payloads])
      /\ Len(msgs') = L + 1 /\ msgs'[L + 1] = e /\ \A k \in 1 .. L : msgs'[k] = msgs[k]
  BY <1>1, <1>2
<1>4. Base' = Base BY <1>1, BaseKept DEF LogNext, Rpm
<1> HIDE DEF L
<1>5. Published = 1 .. L /\ Sure = L BY <1>1, <1>2 DEF Published, Sure, L
<1>6. Published' = 1 .. L /\ Sure' = L
  BY <1>1, <1>2, <1>3 DEF Published, Sure
<1>7. New' = e BY <1>3 DEF New
<1>8. RpmTyped'
  <2>1. Len(msgs') <= MaxMsgs BY <1>1, <1>2, <1>3, Nums
  <2>2. rpmRing \in [0 .. LogLen \div 4 - 1 -> (0 .. L) \X Nat] BY <1>1 DEF RpmTyped, L
  <2>3. rpmRing' \in [0 .. LogLen \div 4 - 1 -> (0 .. Len(msgs')) \X Nat]
    <3>1. (0 .. L) \X Nat \subseteq (0 .. Len(msgs')) \X Nat BY <1>2, <1>3
    <3>2. QED BY <1>1, <2>2, <3>1
  <2>4. 4 * written' <= MsgSize(n) BY <1>1, LengthType
  <2>5. msgs' # <<>> BY <1>2, <1>3
  <2>6. QED BY <1>1, <1>2, <1>3, <1>7, <2>1, <2>3, <2>4, <2>5 DEF RpmTyped
<1>9. Chain'
  <2>1. \A k \in 1 .. Len(msgs') : \A j \in 1 .. k - 1 :
          Dist(Base, msgs'[j].at) + MsgSize(msgs'[j].len) <= Dist(Base, msgs'[k].at)
    <3>0. TAKE k \in 1 .. Len(msgs')
    <3>1. TAKE j \in 1 .. k - 1
    <3>2. j \in 1 .. L /\ msgs'[j] = msgs[j] BY <1>2, <1>3
    <3>3. CASE k = L + 1 BY <1>1, <1>3, <1>5, <3>2, <3>3 DEF Chain, Far
    <3>4. CASE k # L + 1
      <4>1. k \in 1 .. L /\ msgs'[k] = msgs[k] BY <1>2, <1>3, <3>4
      <4>2. QED BY <1>1, <3>2, <4>1 DEF Chain, Far, L
    <3>5. QED BY <3>3, <3>4
  <2>2. \A k \in 1 .. Len(msgs') - 1 : msgs'[k + 1].at = Wrap(msgs'[k].at + MsgSize(msgs'[k].len))
    <3>1. TAKE k \in 1 .. Len(msgs') - 1
    <3>2. k \in 1 .. L /\ msgs'[k] = msgs[k] BY <1>2, <1>3
    <3>3. CASE k = L
      <4>1. msgs # <<>> /\ New = msgs[L] BY <1>2, <3>2 DEF New, L
      <4>2. QED BY <1>1, <1>3, <3>2, <3>3, <4>1 DEF Chain
    <3>4. CASE k # L
      <4>1. k \in 1 .. L - 1 /\ msgs'[k + 1] = msgs[k + 1] BY <1>2, <1>3, <3>2, <3>4
      <4>2. QED BY <1>1, <3>2, <4>1 DEF Chain, L
    <3>5. QED BY <3>3, <3>4
  <2>3. \A k \in 1 .. Len(msgs') : msgs'[k].at % 4 = 0
    <3>1. TAKE k \in 1 .. Len(msgs')
    <3>2. tail % 4 = 0 /\ \A i \in 1 .. L : msgs[i].at % 4 = 0 BY <1>1 DEF Chain, L
    <3>3. k = L + 1 \/ k \in 1 .. L BY <1>2, <1>3
    <3>4. QED BY <1>3, <3>2, <3>3
  <2>4. \A k \in 1 .. L : Dist(Base, msgs'[k].at) + MsgSize(msgs'[k].len) <= Dist(Base, tail)
    BY <1>1, <1>3, <1>5 DEF Chain, Far
  <2>5. Dist(Base, tail) <= L * LogLen /\ tail % 4 = 0 BY <1>1, <1>5 DEF Chain, Far
  <2>6. \A k \in 1 .. Len(msgs') : \A j \in 1 .. k - 1 :
          Dist(Base', msgs'[j].at) + MsgSize(msgs'[j].len) <= Dist(Base', msgs'[k].at)
    BY <1>4, <2>1
  <2>7. \A k \in Published' : Dist(Base', msgs'[k].at) + MsgSize(msgs'[k].len) <= Dist(Base', tail')
    BY <1>1, <1>4, <1>6, <2>4
  <2>8. Dist(Base', tail') <= Sure' * LogLen /\ tail' % 4 = 0 BY <1>1, <1>4, <1>6, <2>5
  <2>9. written' # 0 BY <1>1
  <2>10. QED BY ONLY <2>2, <2>3, <2>6, <2>7, <2>8, <2>9 DEF Chain, Far
<1>10. HeadOK'
  <2>1. Boundary(head)'
    <3>1. head = tail \/ \E k \in 1 .. L : msgs[k].at = head BY <1>1 DEF HeadOK, Boundary, L
    <3>2. \A k \in 1 .. L : k \in 1 .. Len(msgs') BY <1>2, <1>3
    <3>3. QED BY <1>1, <1>3, <3>1, <3>2 DEF Boundary
  <2>2. QED BY <1>1, <1>4, <2>1 DEF HeadOK, Far
<1>11. RingHolds'
  <2>1. ASSUME NEW k \in 1 .. L, Dist(Base', msgs'[k].at) >= Dist(Base', head')
        PROVE \A i \in 0 .. MsgSize(msgs'[k].len) \div 4 - 1 : rpmRing'[Slot(msgs'[k].at + 4 * i)] = <<k, i>>
    <3>1. msgs'[k] = msgs[k] BY <1>3
    <3>2. Stored(k, Words(k)) BY <1>1, <1>4, <1>5, <2>1, <3>1 DEF RingHolds, Far
    <3>3. QED BY <1>1, <3>1, <3>2 DEF Stored, Words
  <2>2. ~(written' > 0) BY <1>1
  <2>3. QED BY <1>6, <2>1, <2>2 DEF RingHolds, Far, Stored, Words
<1>12. QED BY <1>8, <1>9, <1>10, <1>11 DEF RpmInv

\* Without room the ring is not empty, and its oldest message is the one at the head.
LEMMA OldestIs ==
  ASSUME RpmInv, written # 0, ~Room
  PROVE /\ Oldest \in 1 .. Len(msgs) - 1 /\ msgs[Oldest].at = head
        /\ Wrap(head + MsgSize(msgs[Oldest].len)) = msgs[Oldest + 1].at
<1>1. RpmTyped /\ Chain /\ HeadOK BY DEF RpmInv
<1>2. msgs # <<>> /\ New.at = tail /\ msgs \in Seq([at : Idx, len : Lengths, pay : Payloads])
      /\ head \in Idx /\ tail \in Idx
  BY <1>1 DEF RpmTyped
<1>3. Len(msgs) \in 1 .. Len(msgs) BY <1>2
<1>4. MsgSize(New.len) <= LogLen /\ MsgSize(New.len) \in Nat /\ LogLen \in Nat
  BY <1>1, <1>3, MsgType, LengthType, Nums DEF New
<1>5. Far(head) # Far(tail)
  <2>1. Used + MsgSize(New.len) > LogLen
    <3>1. Used \in Int BY <1>1, <1>2, UsedIs, MsgType
    <3>2. QED BY <1>4, <3>1 DEF Room
  <2>2. Used = Far(tail) - Far(head) /\ Far(tail) \in Nat /\ Far(head) \in Nat
    BY <1>1, <1>2, UsedIs, MsgType
  <2>3. QED BY <1>4, <2>1, <2>2
<1>6. PICK k \in 1 .. Len(msgs) : msgs[k].at = head BY <1>1, <1>5 DEF HeadOK, Boundary
<1>7. Oldest = k BY <1>1, <1>6, Apart DEF Oldest
<1>8. k # Len(msgs) BY <1>2, <1>5, <1>6 DEF New
<1>9. k \in 1 .. Len(msgs) - 1 BY <1>3, <1>8
<1>10. msgs[k + 1].at = Wrap(msgs[k].at + MsgSize(msgs[k].len)) BY <1>1, <1>9 DEF Chain
<1>11. QED BY <1>6, <1>7, <1>9, <1>10

LEMMA FreeKeeps ==
  ASSUME RpmInv, RpmFree PROVE RpmInv' /\ Far(head) <= Dist(Base, head')
<1> DEFINE k == Oldest
<1>1. /\ RpmTyped /\ Chain /\ HeadOK /\ RingHolds /\ written = -1 /\ ~Room
      /\ head' = Wrap(head + MsgSize(msgs[Oldest].len))
      /\ msgs' = msgs /\ written' = written /\ tail' = tail /\ rpmRing' = rpmRing
  BY DEF RpmInv, RpmFree
<1>2. k \in 1 .. Len(msgs) - 1 /\ msgs[k].at = head /\ head' = msgs[k + 1].at BY <1>1, OldestIs
<1> HIDE DEF k
<1>3. Base' = Base /\ Published' = Published /\ New' = New
  BY <1>1 DEF Base, Published, New
<1>4. Len(msgs) \in Nat /\ head \in Idx /\ tail \in Idx BY <1>1, MsgType DEF RpmTyped
<1>5. k + 1 \in 1 .. Len(msgs) /\ k \in 1 .. (k + 1) - 1 BY <1>2, <1>4
<1>6. head' \in Idx BY <1>1, <1>2, <1>5, MsgType
<1>7. Far(head) <= Dist(Base, head')
  <2>1. Far(msgs[k].at) + MsgSize(msgs[k].len) <= Far(msgs[k + 1].at) BY <1>1, <1>5 DEF Chain
  <2>2. k \in 1 .. Len(msgs) BY <1>2, <1>4
  <2>3. MsgSize(msgs[k].len) \in Nat BY <1>1, <2>2, MsgType, LengthType
  <2>4. Far(head) \in Nat /\ Far(head') \in Nat BY <1>1, <1>4, <1>6, MsgType
  <2>5. QED BY <1>2, <2>1, <2>3, <2>4 DEF Far
<1>8. Dist(Base, head') <= Far(tail)
  <2>1. CASE k + 1 = Len(msgs)
    <3>1. msgs[k + 1].at = tail BY <1>1, <2>1 DEF RpmTyped, New
    <3>2. Far(tail) \in Nat BY <1>1, <1>4, MsgType
    <3>3. QED BY <1>2, <3>1, <3>2 DEF Far
  <2>2. CASE k + 1 # Len(msgs)
    <3>1. k + 1 \in Published BY <1>4, <1>5, <2>2 DEF Published
    <3>2. Far(msgs[k + 1].at) + MsgSize(msgs[k + 1].len) <= Far(tail) BY <1>1, <3>1 DEF Chain
    <3>3. MsgSize(msgs[k + 1].len) \in Nat /\ Far(msgs[k + 1].at) \in Nat /\ Far(tail) \in Nat
      BY <1>1, <1>4, <1>5, MsgType, LengthType
    <3>4. QED BY <1>2, <3>2, <3>3 DEF Far
  <2>3. QED BY <2>1, <2>2
<1>9. RpmTyped'
  <2>1. msgs # <<>> BY <1>1 DEF RpmTyped
  <2>2. QED BY <1>1, <1>3, <1>6, <2>1 DEF RpmTyped
<1>10. Chain' BY <1>1, <1>3 DEF Chain, Far, Sure
<1>11. HeadOK'
  <2>1. Boundary(head)' BY <1>1, <1>2, <1>5 DEF Boundary
  <2>2. Dist(Base, head') \in Nat /\ Far(head) \in Nat /\ Far(tail) \in Nat /\ LogLen \in Nat
    BY <1>1, <1>4, <1>6, MsgType, Nums DEF Far
  <2>3. Far(tail) - Dist(Base, head') <= LogLen BY <1>1, <1>7, <2>2 DEF HeadOK
  <2>4. QED BY <1>1, <1>3, <1>8, <2>1, <2>3 DEF HeadOK, Far
<1>12. RingHolds'
  <2>1. ASSUME NEW j \in Published, Dist(Base, msgs[j].at) >= Dist(Base, head')
          PROVE Stored(j, Words(j))
    <3>1. j \in 1 .. Len(msgs) BY DEF Published
    <3>2. Far(msgs[j].at) \in Nat /\ Far(head) \in Nat /\ Dist(Base, head') \in Nat
      BY <1>1, <1>4, <1>6, <3>1, MsgType DEF Far
    <3>3. Far(msgs[j].at) >= Far(head) BY <1>7, <2>1, <3>2 DEF Far
    <3>4. QED BY <1>1, <3>3 DEF RingHolds
  <2>2. QED BY <1>1, <1>3, <2>1 DEF RingHolds, Far, Stored, Words
<1>13. QED BY <1>7, <1>9, <1>10, <1>11, <1>12 DEF RpmInv

LEMMA WriteKeeps ==
  ASSUME RpmInv, RpmWrite PROVE RpmInv'
<1> DEFINE k == IF written = -1 THEN 0 ELSE written
           s == Slot(tail + 4 * k)
           L == Len(msgs)
<1>1. /\ RpmTyped /\ Chain /\ HeadOK /\ RingHolds /\ written # 0 /\ Room /\ 4 * k < MsgSize(New.len)
      /\ rpmRing' = [rpmRing EXCEPT ![s] = <<L, k>>] /\ written' = k + 1
      /\ msgs' = msgs /\ head' = head /\ tail' = tail
  BY DEF RpmInv, RpmWrite, Slot
<1>2. written = -1 \/ written \in Nat BY <1>1 DEF RpmTyped
<1>3. k \in Nat /\ (written > 0 => k = written) /\ (~(written > 0) => k = 0) BY <1>1, <1>2
<1> HIDE DEF k
<1>4. msgs # <<>> /\ New.at = tail /\ head \in Idx /\ tail \in Idx /\ L \in Nat
      /\ msgs \in Seq([at : Idx, len : Lengths, pay : Payloads])
  BY <1>1 DEF RpmTyped
<1>5. L \in 1 .. L /\ New = msgs[L] BY <1>4 DEF New
<1> HIDE DEF L
<1>6. MsgSize(New.len) \in Nat /\ MsgSize(New.len) % 4 = 0 /\ MsgSize(New.len) <= LogLen
            /\ LogLen \in Nat
  BY <1>1, <1>5, MsgType, LengthType, Nums DEF L
<1>7. Base' = Base /\ Published' = Published /\ New' = New
  <2>1. Published = 1 .. L - 1 /\ Published' = 1 .. L - 1
    BY <1>1, <1>3, <1>4, <1>5 DEF Published, L
  <2>2. QED BY <1>1, <2>1 DEF Base, New
<1>8. s \in 0 .. LogLen \div 4 - 1
  <2>1. tail + 4 * k \in Nat BY <1>3, <1>4 DEF Idx
  <2>2. QED BY <2>1, SlotType
<1>9. RpmTyped'
  <2>1. rpmRing \in [0 .. LogLen \div 4 - 1 -> (0 .. L) \X Nat] BY <1>1 DEF RpmTyped, L
  <2>2. <<L, k>> \in (0 .. L) \X Nat BY <1>3, <1>4
  <2>3. rpmRing' \in [0 .. LogLen \div 4 - 1 -> (0 .. L) \X Nat]
    <3> HIDE DEF s
    <3>1. QED BY <1>1, <1>8, <2>1, <2>2
  <2>4. 4 * written' <= MsgSize(New.len) BY <1>1, <1>3, <1>6
  <2>5. written' \in Nat BY <1>1, <1>3
  <2>6. Len(msgs) <= MaxMsgs BY <1>1 DEF RpmTyped
  <2>7. QED BY <1>1, <1>4, <1>7, <2>3, <2>4, <2>5, <2>6 DEF RpmTyped, L
<1>10. Chain'
  <2>1. Sure' = Sure /\ written' # 0 BY <1>1, <1>3 DEF Sure
  <2>2. QED BY <1>1, <1>7, <2>1 DEF Chain, Far
<1>11. Far(tail) - Far(head) + MsgSize(New.len) <= LogLen BY <1>1, UsedIs DEF Room
<1>12. HeadOK' BY <1>1, <1>7, <1>11 DEF HeadOK, Far, Boundary
<1>13. Far(tail) \in Nat /\ Far(head) \in Nat /\ Far(head) <= Far(tail)
  BY <1>1, <1>4, MsgType DEF HeadOK
<1>14. Base \in Idx /\ tail % 4 = 0 /\ \A j \in 1 .. L : msgs[j].at \in Idx /\ msgs[j].at % 4 = 0
  BY <1>1, MsgType DEF Chain, L
<1>15. ASSUME NEW j \in Published, Far(msgs[j].at) >= Far(head) PROVE Stored(j, Words(j))'
  <2>1. Stored(j, Words(j)) BY <1>1, <1>15 DEF RingHolds
  <2>2. j \in 1 .. L BY DEF Published, L
  <2>3. Far(msgs[j].at) + MsgSize(msgs[j].len) <= Far(tail) BY <1>1 DEF Chain
  <2>4. MsgSize(msgs[j].len) \in Nat /\ MsgSize(msgs[j].len) % 4 = 0 /\ Far(msgs[j].at) \in Nat
    BY <1>1, <2>2, MsgType, LengthType DEF L
  <2>5. ASSUME NEW i \in 0 .. Words(j) - 1 PROVE rpmRing'[Slot(msgs[j].at + 4 * i)] = <<j, i>>
    <3>1. i \in Nat /\ 4 * i < MsgSize(msgs[j].len) BY <2>4 DEF Words
    <3>2. msgs[j].at \in Idx /\ msgs[j].at % 4 = 0 BY <1>14, <2>2
    <3>3. Slot(msgs[j].at + 4 * i) # s
      <4>1. Dist(Base, msgs[j].at) \in Nat /\ Dist(Base, tail) \in Nat BY <1>13, <2>4 DEF Far
      <4>2. Dist(Base, msgs[j].at) + 4 * i # Dist(Base, tail) + 4 * k
        BY <1>3, <2>3, <2>4, <3>1, <4>1 DEF Far
      <4>3. (Dist(Base, msgs[j].at) + 4 * i) - (Dist(Base, tail) + 4 * k) < LogLen
        BY <1>3, <1>6, <2>3, <2>4, <3>1, <4>1 DEF Far
      <4>4. (Dist(Base, tail) + 4 * k) - (Dist(Base, msgs[j].at) + 4 * i) < LogLen
        <5>1. Far(msgs[j].at) >= Far(head) /\ 4 * k < MsgSize(New.len) BY <1>1, <1>15
        <5>2. QED BY ONLY <1>3, <1>6, <1>11, <1>13, <2>4, <3>1, <5>1 DEF Far
      <4>5. QED BY <1>3, <1>4, <1>14, <3>1, <3>2, <4>2, <4>3, <4>4, Slots
    <3>4. Slot(msgs[j].at + 4 * i) \in 0 .. LogLen \div 4 - 1
      <4>1. msgs[j].at + 4 * i \in Nat BY <3>1, <3>2 DEF Idx
      <4>2. QED BY <4>1, SlotType
    <3>5. rpmRing[Slot(msgs[j].at + 4 * i)] = <<j, i>> BY <2>1 DEF Stored
    <3>6. rpmRing \in [0 .. LogLen \div 4 - 1 -> (0 .. L) \X Nat] BY <1>1 DEF RpmTyped, L
    <3> HIDE DEF s
    <3>7. QED BY <1>1, <3>3, <3>4, <3>5, <3>6
  <2>6. QED BY <1>1, <2>5 DEF Stored, Words
<1>16. \A i \in 0 .. k : rpmRing'[Slot(msgs'[L].at + 4 * i)] = <<L, i>>
  <2>1. ASSUME NEW i \in 0 .. k PROVE rpmRing'[Slot(tail + 4 * i)] = <<L, i>>
    <3>1. rpmRing \in [0 .. LogLen \div 4 - 1 -> (0 .. L) \X Nat] BY <1>1 DEF RpmTyped, L
    <3>2. CASE i = k
      <4>1. s = Slot(tail + 4 * i) BY <3>2
      <4> HIDE DEF s
      <4>2. QED BY <1>1, <1>8, <3>1, <3>2, <4>1
    <3>3. CASE i # k
      <4>1. i \in Nat /\ i < k /\ 0 < k BY <1>3, <3>3
      <4>2. written > 0 /\ i \in 0 .. written - 1 BY <1>2, <1>3, <4>1
      <4>3. rpmRing[Slot(tail + 4 * i)] = <<L, i>>
        BY <1>1, <1>4, <1>5, <4>2 DEF RingHolds, Stored, L
      <4>4. Dist(Base, tail) \in Nat BY <1>13 DEF Far
      <4>5. Slot(tail + 4 * i) # s
        <5>1. Dist(Base, tail) + 4 * i # Dist(Base, tail) + 4 * k BY <1>3, <4>1, <4>4
        <5>2. (Dist(Base, tail) + 4 * i) - (Dist(Base, tail) + 4 * k) < LogLen
          BY <1>3, <1>6, <4>1, <4>4
        <5>3. (Dist(Base, tail) + 4 * k) - (Dist(Base, tail) + 4 * i) < LogLen
          BY <1>1, <1>3, <1>6, <4>1, <4>4
        <5>4. QED BY <1>3, <1>4, <1>14, <4>1, <5>1, <5>2, <5>3, Slots
      <4>6. Slot(tail + 4 * i) \in 0 .. LogLen \div 4 - 1
        <5>1. tail + 4 * i \in Nat BY <1>4, <4>1 DEF Idx
        <5>2. QED BY <5>1, SlotType
      <4> HIDE DEF s
      <4>7. QED BY <1>1, <3>1, <4>3, <4>5, <4>6
    <3>4. QED BY <3>2, <3>3
  <2>2. msgs'[L].at = tail BY <1>1, <1>4, <1>5
  <2>3. QED BY <2>1, <2>2
<1>17. RingHolds'
  <2>0. Len(msgs') = L /\ written' = k + 1 /\ 0 .. (k + 1) - 1 = 0 .. k BY <1>1, <1>3 DEF L
  <2>1. Stored(Len(msgs), written)' BY <1>16, <2>0 DEF Stored
  <2>2. QED BY <1>1, <1>7, <1>15, <2>1 DEF RingHolds, Far
<1>18. QED BY <1>9, <1>10, <1>12, <1>17 DEF RpmInv

LEMMA PublishKeeps ==
  ASSUME RpmInv, RpmPublish PROVE RpmInv' /\ Far(tail) <= Dist(Base, tail')
<1> DEFINE L == Len(msgs)
           n == MsgSize(New.len)
<1>1. /\ RpmTyped /\ Chain /\ HeadOK /\ RingHolds /\ written # 0 /\ 4 * written = n
      /\ tail' = Wrap(tail + n) /\ written' = 0 /\ msgs' = msgs /\ head' = head /\ rpmRing' = rpmRing
  BY DEF RpmInv, RpmPublish
<1>2. msgs # <<>> /\ New.at = tail /\ head \in Idx /\ tail \in Idx /\ L \in Nat
      /\ msgs \in Seq([at : Idx, len : Lengths, pay : Payloads])
      /\ (written = -1 \/ written \in Nat)
  BY <1>1 DEF RpmTyped
<1>3. L \in 1 .. L /\ New = msgs[L] BY <1>2 DEF New
<1>4. n \in Nat /\ n % 4 = 0 /\ n <= LogLen /\ LogLen \in Nat
  BY <1>1, <1>3, MsgType, LengthType, Nums
<1>5. Base' = Base BY <1>1, BaseKept DEF LogNext, Rpm
<1>6. Far(tail) + LogLen < Modulus /\ Far(tail) \in Nat /\ Far(head) \in Nat /\ Base \in Idx
            /\ Modulus \in Nat
  BY <1>1, <1>2, TailBound, MsgType, Nums
<1>7. tail' \in Idx /\ Dist(Base, tail') = Far(tail) + n
  <2>1. Dist(Base, tail) + n < Modulus BY <1>4, <1>6 DEF Far
  <2> HIDE DEF n
  <2>2. QED BY <1>1, <1>2, <1>4, <1>6, <2>1, Ahead DEF Far
<1>8. tail' % 4 = 0
  <2>1. tail % 4 = 0 /\ tail \in Int BY <1>1, <1>2 DEF Chain, Idx
  <2> HIDE DEF n
  <2>2. tail + n \in Int /\ (tail + n) % 4 = 0 BY <1>4, <2>1
  <2>3. QED BY <1>1, <2>2, WrapAligned
<1>9. written > 0
  <2>1. n > 0 BY <1>1, <1>3, MsgType, LengthType
  <2>2. QED BY <1>1, <1>2, <1>4, <2>1
<1>10. Published' = 1 .. L /\ Published = 1 .. L - 1 /\ New' = New /\ Sure = L - 1 /\ Sure' = L
  BY <1>1, <1>2, <1>3 DEF Published, New, Sure
<1> HIDE DEF L
<1>11. \A k \in 1 .. L : k = L \/ k \in Published BY <1>2, <1>10
<1>12. RpmTyped' BY <1>1, <1>2, <1>7 DEF RpmTyped
<1>13. Chain'
  <2>1. ASSUME NEW k \in 1 .. L PROVE Dist(Base, msgs[k].at) + MsgSize(msgs[k].len) <= Dist(Base, tail')
    <3>1. CASE k = L BY <1>2, <1>3, <1>4, <1>6, <1>7, <3>1 DEF Far
    <3>2. CASE k # L
      <4>1. Far(msgs[k].at) + MsgSize(msgs[k].len) <= Far(tail) BY <1>1, <1>11, <3>2 DEF Chain
      <4>2. Far(msgs[k].at) \in Nat /\ MsgSize(msgs[k].len) \in Nat
        BY <1>1, MsgType, LengthType DEF L
      <4>3. QED BY <1>4, <1>6, <1>7, <4>1, <4>2 DEF Far
    <3>3. QED BY <3>1, <3>2
  <2>2. Dist(Base, tail') <= L * LogLen
    <3>1. Far(tail) <= (L - 1) * LogLen BY <1>1, <1>10 DEF Chain
    <3>2. (L - 1) * LogLen + LogLen = L * LogLen /\ (L - 1) * LogLen \in Int BY <1>2, <1>4 DEF L
    <3>3. QED BY <1>4, <1>6, <1>7, <3>1, <3>2
  <2>3. tail' = Wrap(New.at + MsgSize(New.len)) BY <1>1, <1>2
  <2>4. QED BY <1>1, <1>5, <1>8, <1>10, <2>1, <2>2, <2>3 DEF Chain, Far
<1>14. HeadOK'
  <2>1. Boundary(head)' BY <1>1, <1>2, <1>3 DEF HeadOK, Boundary, L
  <2>2. Far(tail) - Far(head) + n <= LogLen /\ Far(head) <= Far(tail) BY <1>1, <1>9 DEF HeadOK
  <2>3. QED BY <1>1, <1>4, <1>5, <1>6, <1>7, <2>1, <2>2 DEF HeadOK, Far
<1>15. RingHolds'
  <2>1. ASSUME NEW k \in 1 .. L, Dist(Base, msgs[k].at) >= Dist(Base, head) PROVE Stored(k, Words(k))
    <3>1. CASE k = L
      <4>1. Words(k) = written BY <1>1, <1>2, <1>3, <1>4, <3>1 DEF Words
      <4>2. QED BY <1>1, <1>9, <3>1, <4>1 DEF RingHolds, L
    <3>2. CASE k # L BY <1>1, <1>11, <2>1, <3>2 DEF RingHolds, Far
    <3>3. QED BY <3>1, <3>2
  <2>2. \A k \in Published' : Dist(Base', msgs'[k].at) >= Dist(Base', head') =>
          \A i \in 0 .. MsgSize(msgs'[k].len) \div 4 - 1 : rpmRing'[Slot(msgs'[k].at + 4 * i)] = <<k, i>>
    BY <1>1, <1>5, <1>10, <2>1 DEF Stored, Words
  <2>3. ~(written' > 0) BY <1>1
  <2>4. QED BY <2>2, <2>3 DEF RingHolds, Far, Stored, Words
<1>16. QED BY <1>4, <1>6, <1>7, <1>12, <1>13, <1>14, <1>15 DEF RpmInv

\* What a step of the RPM means to the reader: head and tail go on, messages stay, and new
\* ones begin at the tail.
Onward ==
  /\ Base' = Base /\ Far(head) <= Dist(Base, head') /\ Far(tail) <= Dist(Base, tail')
  /\ Len(msgs) <= Len(msgs') /\ Len(msgs') \in Nat
  /\ \A k \in 1 .. Len(msgs) : msgs'[k] = msgs[k]
  /\ \A k \in 1 .. Len(msgs') : k \in 1 .. Len(msgs) \/ msgs'[k].at = tail
  /\ \A k \in Published' : k \in Published \/ (k \in 1 .. Len(msgs') /\ msgs'[k].at = tail)
  /\ tail' = tail \/ \E k \in 1 .. Len(msgs') : msgs'[k].at = tail

\* Every step of the RPM is such a step.
LEMMA RpmStep ==
  ASSUME RpmInv, Rpm PROVE RpmInv' /\ Onward
<1>1. RpmTyped /\ Base' = Base BY BaseKept DEF RpmInv, LogNext
<1>2. Len(msgs) \in Nat /\ Far(head) \in Nat /\ Far(tail) \in Nat
  <2>1. head \in Idx /\ tail \in Idx BY <1>1 DEF RpmTyped
  <2>2. QED BY <1>1, <2>1, MsgType
<1>3. written # 0 => New.at = tail /\ Len(msgs) \in 1 .. Len(msgs) /\ New = msgs[Len(msgs)]
  BY <1>1 DEF RpmTyped, New
<1>4. ASSUME NEW n \in Lengths, NEW v \in Payloads, RpmBegin(n, v) PROVE RpmInv' /\ Onward
  <2> DEFINE e == [at |-> tail, len |-> n, pay |-> v]
             L == Len(msgs)
  <2>1. msgs' = Append(msgs, e) /\ tail' = tail /\ head' = head /\ written = 0 /\ written' = -1
    BY <1>4 DEF RpmBegin
  <2>2. msgs \in Seq([at : Idx, len : Lengths, pay : Payloads]) BY <1>1 DEF RpmTyped
  <2>3. Len(msgs') = L + 1 /\ msgs'[L + 1] = e /\ \A k \in 1 .. L : msgs'[k] = msgs[k] BY <2>1, <2>2
  <2> HIDE DEF L
  <2>4. Published = 1 .. L /\ Published' = 1 .. L BY <1>2, <2>1, <2>3 DEF Published, L
  <2>5. \A k \in 1 .. Len(msgs') : k \in 1 .. L \/ msgs'[k].at = tail
    <3>1. TAKE k \in 1 .. Len(msgs')
    <3>2. k \in 1 .. L \/ k = L + 1 BY <1>2, <2>3 DEF L
    <3>3. QED BY <2>3, <3>2
  <2>6. RpmInv' BY <1>4, BeginKeeps
  <2>7. Len(msgs) <= Len(msgs') /\ Len(msgs') \in Nat BY <1>2, <2>3 DEF L
  <2>8. QED BY <1>1, <1>2, <2>1, <2>3, <2>4, <2>5, <2>6, <2>7 DEF Onward, L, Far
<1>5. CASE RpmFree
  <2>1. msgs' = msgs /\ tail' = tail /\ written' = written BY <1>5 DEF RpmFree
  <2>2. RpmInv' /\ Far(head) <= Dist(Base, head') BY <1>5, FreeKeeps
  <2>3. QED BY <1>1, <1>2, <2>1, <2>2 DEF Onward, Far, Published
<1>6. CASE RpmWrite
  <2>1. msgs' = msgs /\ tail' = tail /\ head' = head /\ written # 0 /\ written' # 0
    BY <1>1, <1>6 DEF RpmWrite, RpmTyped
  <2>2. QED BY <1>1, <1>2, <1>6, <2>1, WriteKeeps DEF Onward, Far, Published
<1>7. CASE RpmPublish
  <2>1. msgs' = msgs /\ head' = head /\ written # 0 BY <1>7 DEF RpmPublish
  <2>2. RpmInv' /\ Far(tail) <= Dist(Base, tail') BY <1>7, PublishKeeps
  <2>3. \A k \in Published' : k \in Published \/ (k \in 1 .. Len(msgs') /\ msgs'[k].at = tail)
    BY <1>2, <1>3, <2>1 DEF Published
  <2>4. QED BY <1>1, <1>2, <1>3, <2>1, <2>2, <2>3 DEF Onward, Far
<1>8. QED BY <1>4, <1>5, <1>6, <1>7 DEF Rpm

\* A step that is not the RPM's keeps what holds of it.
LEMMA RpmRests ==
  ASSUME RpmInv, UNCHANGED rpmVars
  PROVE RpmInv' /\ Base' = Base /\ Published' = Published /\ msgs' = msgs /\ head' = head
          /\ tail' = tail
<1>1. head' = head /\ tail' = tail /\ rpmRing' = rpmRing /\ msgs' = msgs /\ written' = written
  BY DEF rpmVars
<1>2. Base' = Base /\ Published' = Published /\ New' = New /\ Sure' = Sure
  BY <1>1 DEF Base, Published, New, Sure
<1>3. RpmTyped' BY <1>1, <1>2 DEF RpmInv, RpmTyped
<1>4. Chain' BY <1>1, <1>2 DEF RpmInv, Chain, Far
<1>5. HeadOK' BY <1>1, <1>2 DEF RpmInv, HeadOK, Far, Boundary
<1>6. RingHolds' BY <1>1, <1>2 DEF RpmInv, RingHolds, Far, Stored, Words
<1>7. QED BY <1>1, <1>2, <1>3, <1>4, <1>5, <1>6 DEF RpmInv

CopyInv == RpmInv /\ ReadTyped /\ ReaderInv /\ KeptInv /\ OrderInv /\ SkipInv

\* The distances that the invariant speaks of.
LEMMA FarType ==
  ASSUME CopyInv
  PROVE /\ \A i \in {head, tail, readIdx, h, t, opened} : i \in Idx /\ Far(i) \in Nat
        /\ \A j \in 1 .. Len(kept) : /\ kept[j].at \in Idx /\ Far(kept[j].at) \in Nat
                                     /\ kept[j].len \in Nat /\ MsgSize(kept[j].len) \in Nat
        /\ \A k \in 1 .. Len(msgs) : msgs[k].at \in Idx /\ Far(msgs[k].at) \in Nat
        /\ Len(kept) \in Nat /\ Len(msgs) \in Nat /\ Base \in Idx
<1>1. RpmTyped /\ ReadTyped BY DEF CopyInv, RpmInv
<1>2. \A i \in {head, tail, readIdx, h, t, opened} : i \in Idx BY <1>1 DEF RpmTyped, ReadTyped
<1>3. kept \in Seq([at : Idx, len : Nat, words : Seq(Cells)]) BY <1>1 DEF ReadTyped
<1>4. \A j \in 1 .. Len(kept) : kept[j] \in [at : Idx, len : Nat, words : Seq(Cells)]
  BY <1>3, ElementOfSeq
<1>5. \A j \in 1 .. Len(kept) : kept[j].at \in Idx /\ kept[j].len \in Nat BY <1>4
<1>6. Len(kept) \in Nat BY <1>3
<1>7. QED BY <1>1, <1>2, <1>5, <1>6, MsgType, PaddedType

\* While the RPM moves, what the reader knows stays true.
LEMMA RpmKeeps ==
  ASSUME CopyInv, Rpm PROVE CopyInv'
<1>1. RpmInv' /\ Onward BY RpmStep DEF CopyInv
<1>2. /\ h' = h /\ t' = t /\ readIdx' = readIdx /\ msgLen' = msgLen /\ words' = words
            /\ reader' = reader
      /\ kept' = kept /\ opened' = opened /\ rolled' = rolled
  BY DEF Rpm, RpmBegin, RpmFree, RpmWrite, RpmPublish, copyVars, fileVars
<1>3. ReadTyped' BY <1>2 DEF CopyInv, ReadTyped
<1>4. Base' = Base /\ Dist(Base, head') \in Nat /\ Dist(Base, tail') \in Nat
  <2>1. Base' = Base /\ RpmTyped' BY <1>1 DEF Onward, RpmInv
  <2>2. head' \in Idx /\ tail' \in Idx BY <2>1 DEF RpmTyped
  <2>3. QED BY <2>1, <2>2, FarType, Distance DEF Idx
<1>5. Far(head) <= Dist(Base, head') /\ Far(tail) <= Dist(Base, tail') BY <1>1 DEF Onward
<1>6. ASSUME NEW i, i = tail \/ \E k \in 1 .. Len(msgs) : msgs[k].at = i
      PROVE i = tail' \/ \E k \in 1 .. Len(msgs') : msgs'[k].at = i
  <2>1. \A k \in 1 .. Len(msgs) : k \in 1 .. Len(msgs') /\ msgs'[k] = msgs[k]
    BY <1>1, FarType DEF Onward
  <2>2. tail' = tail \/ \E k \in 1 .. Len(msgs') : msgs'[k].at = tail BY <1>1 DEF Onward
  <2>3. QED BY <1>6, <2>1, <2>2
<1>7. ASSUME NEW i \in Idx, Far(i) < Far(tail), NEW k \in 1 .. Len(msgs'), msgs'[k].at = i
      PROVE k \in 1 .. Len(msgs) /\ msgs'[k] = msgs[k] /\ msgs[k].at = i
  <2>1. i # tail
    <3>1. Far(i) \in Nat /\ Far(tail) \in Nat BY FarType, MsgType DEF CopyInv, RpmInv
    <3>2. QED BY <1>7, <3>1
  <2>2. k \in 1 .. Len(msgs) BY <1>1, <1>7, <2>1 DEF Onward
  <2>3. msgs'[k] = msgs[k] BY <1>1, <2>2 DEF Onward
  <2>4. QED BY <1>7, <2>2, <2>3
<1>8. ReaderInv'
  <2>1. ReaderInv BY DEF CopyInv
  <2>2. Far(readIdx) \in Nat /\ Far(t) \in Nat /\ Far(h) \in Nat /\ Far(head) \in Nat
              /\ Far(tail) \in Nat
        /\ readIdx \in Idx
    BY FarType
  <2>3. Dist(Base', readIdx') <= Dist(Base', tail')
    BY <1>2, <1>4, <1>5, <2>1, <2>2 DEF ReaderInv, Far
  <2>4. reader' = "copy_head" => Dist(Base', readIdx') <= Dist(Base', t')
              /\ Dist(Base', t') <= Dist(Base', tail')
    BY <1>2, <1>4, <1>5, <2>1, <2>2 DEF ReaderInv, Far
  <2>5. reader' \in {"loop", "loop_tail", "length", "word", "check_tail"} =>
          Dist(Base', readIdx') < Dist(Base', t') /\ Dist(Base', t') <= Dist(Base', tail')
    BY <1>2, <1>4, <1>5, <2>1, <2>2 DEF ReaderInv, Far
  <2>6. reader' \in {"loop_tail", "check_tail"} => Dist(Base', h') <= Dist(Base', head') /\ Boundary(h)'
    <3>1. reader' \in {"loop_tail", "check_tail"} => Boundary(h)'
      BY <1>2, <1>6, <2>1 DEF ReaderInv, Boundary
    <3>2. QED BY <1>2, <1>4, <1>5, <2>1, <2>2, <3>1 DEF ReaderInv, Far
  <2>7. reader' \in {"length", "word", "check_tail"} => Boundary(t)' /\ t' % 4 = 0 /\ readIdx' % 4 = 0
    BY <1>2, <1>6, <2>1 DEF ReaderInv, Boundary
  <2>8. reader' \in {"word", "check_tail"} => MsgSize(msgLen') <= Dist(Base', t') - Dist(Base', readIdx')
    BY <1>2, <1>4, <2>1 DEF ReaderInv, Far
  <2>9. ASSUME reader \in {"word", "check_tail"}, NEW k \in 1 .. Len(msgs'), msgs'[k].at = readIdx
        PROVE k \in At(readIdx) /\ msgs'[k] = msgs[k]
    <3>1. Far(readIdx) < Far(tail) BY <2>1, <2>2, <2>9 DEF ReaderInv
    <3>2. QED BY <1>7, <2>2, <2>9, <3>1 DEF At
  <2>10. ASSUME reader = "word", Dist(Base, head') <= Dist(Base, readIdx),
                NEW k \in 1 .. Len(msgs'), msgs'[k].at = readIdx
         PROVE /\ msgLen = msgs'[k].len
               /\ 4 * Len(words) <= Padded(msgLen)
               /\ \A i \in 1 .. Len(words) : words[i] = <<k, i>>
    <3>1. k \in At(readIdx) /\ msgs'[k] = msgs[k] BY <2>9, <2>10
    <3>2. Far(head) <= Far(readIdx) BY <1>4, <1>5, <2>2, <2>10 DEF Far
    <3>3. QED BY <2>1, <2>10, <3>1, <3>2 DEF ReaderInv, Partly
  <2>11. ASSUME reader = "check_tail", Dist(Base, h) <= Dist(Base, readIdx),
                NEW k \in 1 .. Len(msgs'), msgs'[k].at = readIdx
         PROVE Whole(msgLen, words, k)'
    <3>1. k \in At(readIdx) /\ msgs'[k] = msgs[k] BY <2>9, <2>11
    <3>2. Whole(msgLen, words, k) BY <2>1, <2>11, <3>1 DEF ReaderInv, Far
    <3>3. QED BY <1>2, <3>1, <3>2 DEF Whole
  <2>12. (reader = "word" /\ Far(head) <= Far(readIdx) => \A k \in At(readIdx) : Partly(k))'
    BY <1>2, <1>4, <2>10 DEF At, Partly, Far
  <2>13. (reader = "check_tail" /\ Far(h) <= Far(readIdx) =>
               \A k \in At(readIdx) : Whole(msgLen, words, k))'
    BY <1>2, <1>4, <2>11 DEF At, Far, Whole
  <2>14. QED BY <2>3, <2>4, <2>5, <2>6, <2>7, <2>8, <2>12, <2>13 DEF ReaderInv, Far
<1>9. KeptInv'
  <2>1. ASSUME NEW j \in 1 .. Len(kept)
        PROVE /\ Dist(Base, kept[j].at) < Dist(Base, tail')
              /\ \A k \in 1 .. Len(msgs') : msgs'[k].at = kept[j].at =>
                    Whole(kept[j].len, kept[j].words, k)'
    <3>1. Far(kept[j].at) < Far(tail) /\ \A k \in At(kept[j].at) : Whole(kept[j].len, kept[j].words, k)
      BY DEF CopyInv, KeptInv
    <3>2. kept[j].at \in Idx /\ Far(kept[j].at) \in Nat /\ Far(tail) \in Nat BY FarType
    <3>3. ASSUME NEW k \in 1 .. Len(msgs'), msgs'[k].at = kept[j].at
            PROVE Whole(kept[j].len, kept[j].words, k)'
      <4>1. k \in At(kept[j].at) /\ msgs'[k] = msgs[k] BY <1>7, <3>1, <3>2, <3>3 DEF At
      <4>2. QED BY <1>2, <3>1, <4>1 DEF Whole
    <3>4. QED BY <1>4, <1>5, <3>1, <3>2, <3>3 DEF Far
  <2>2. QED BY <1>2, <1>4, <2>1 DEF KeptInv, At, Far, Whole
<1>10. OrderInv'
  <2>1. Far(opened) <= Dist(Base, head')
    <3>1. Far(opened) <= Far(head) /\ Far(opened) \in Nat /\ Far(head) \in Nat
      BY FarType DEF CopyInv, OrderInv
    <3>2. QED BY <1>4, <1>5, <3>1
  <2>2. QED BY <1>2, <1>4, <2>1 DEF CopyInv, OrderInv, Far
<1>11. SkipInv'
  <2>1. SUFFICES ASSUME ~rolled
                 PROVE /\ Boundary(readIdx)'
                       /\ \A k \in Published' :
                            Dist(Base, opened) <= Dist(Base, msgs'[k].at)
                                  /\ Dist(Base, msgs'[k].at) < Dist(Base, readIdx) =>
                              (\E j \in 1 .. Len(kept) : kept[j].at = msgs'[k].at)
                              \/ Dist(Base, msgs'[k].at) < Dist(Base, head')
    BY <1>2, <1>4 DEF SkipInv, Far, Given
  <2>2. Boundary(readIdx)' BY <1>2, <1>6, <2>1 DEF CopyInv, SkipInv, Boundary
  <2>3. ASSUME NEW k \in Published', Dist(Base, opened) <= Dist(Base, msgs'[k].at),
               Dist(Base, msgs'[k].at) < Dist(Base, readIdx)
        PROVE (\E j \in 1 .. Len(kept) : kept[j].at = msgs'[k].at)
                \/ Dist(Base, msgs'[k].at) < Dist(Base, head')
    <3>1. Far(readIdx) \in Nat /\ Far(tail) \in Nat /\ Far(head) \in Nat /\ Far(readIdx) <= Far(tail)
      BY FarType DEF CopyInv, ReaderInv
    <3>2. k \in Published
      <4>1. msgs'[k].at # tail BY <2>3, <3>1 DEF Far
      <4>2. QED BY <1>1, <4>1 DEF Onward
    <3>3. k \in 1 .. Len(msgs) /\ msgs'[k] = msgs[k] BY <1>1, <3>2 DEF Onward, Published
    <3>4. Given(k) \/ Far(msgs[k].at) < Far(head)
      BY <2>1, <2>3, <3>2, <3>3 DEF CopyInv, SkipInv, Far
    <3>5. Far(msgs[k].at) \in Nat BY <3>3, FarType
    <3>6. QED BY <1>4, <1>5, <3>1, <3>3, <3>4, <3>5 DEF Given, Far
  <2>4. QED BY <2>2, <2>3
<1>12. QED BY <1>1, <1>3, <1>8, <1>9, <1>10, <1>11 DEF CopyInv

-----------------------------------------------------------------------------
(* The reader.                                                             *)

\* What was put in the buffer stays whole while messages stay.
LEMMA KeptRests ==
  ASSUME CopyInv, UNCHANGED rpmVars, kept' = kept PROVE KeptInv'
<1>1. Base' = Base /\ msgs' = msgs /\ tail' = tail BY RpmRests DEF CopyInv
<1>2. KeptInv BY DEF CopyInv
<1>3. QED BY <1>1, <1>2 DEF KeptInv, Far, At, Whole

\* What was put in the buffer is not touched by a step that moves neither the index nor a
\* message.
LEMMA ListsRest ==
  ASSUME CopyInv, UNCHANGED rpmVars, UNCHANGED <<kept, opened, rolled, readIdx>>
  PROVE KeptInv' /\ OrderInv' /\ SkipInv'
<1>1. Base' = Base /\ Published' = Published /\ msgs' = msgs /\ head' = head /\ tail' = tail
  BY RpmRests DEF CopyInv
<1>2. KeptInv' BY KeptRests
<1>3. OrderInv' BY <1>1 DEF CopyInv, OrderInv, Far
<1>4. SkipInv' BY <1>1 DEF CopyInv, SkipInv, Far, Boundary, Given
<1>5. QED BY <1>2, <1>3, <1>4

\* Between two indices.
LEMMA Gap ==
  ASSUME CopyInv, NEW x \in Idx, NEW y \in Idx
  PROVE /\ Far(y) <= Far(x) => Wrap(x - y) = Far(x) - Far(y)
        /\ Far(y) > Far(x) => Wrap(x - y) = Far(x) - Far(y) + Modulus
        /\ Wrap(x - y) > 0 /\ Far(y) <= Far(x) => Far(y) < Far(x)
<1>1. Base \in Idx /\ Modulus \in Nat BY FarType, Rounded
<1>2. Far(x) \in Nat /\ Far(y) \in Nat BY MsgType DEF CopyInv, RpmInv
<1>3. Wrap(x - y) = IF Dist(Base, y) <= Dist(Base, x) THEN Dist(Base, x) - Dist(Base, y)
                    ELSE Dist(Base, x) - Dist(Base, y) + Modulus
  BY <1>1, Between
<1>4. QED BY <1>1, <1>2, <1>3 DEF Far

\* Overwritten: the head has passed the index.
LEMMA Passed ==
  ASSUME CopyInv, NEW x \in Idx, NEW y \in Idx, Far(x) <= Far(tail), Far(y) <= Far(tail)
  PROVE Overwritten(x, tail, y) <=> Far(y) < Far(x)
<1>1. tail \in Idx /\ Far(tail) \in Nat /\ Far(x) \in Nat /\ Far(y) \in Nat
  BY FarType, MsgType DEF CopyInv, RpmInv
<1>2. Wrap(tail - x) = Far(tail) - Far(x) /\ Wrap(tail - y) = Far(tail) - Far(y) BY <1>1, Gap
<1>3. QED BY <1>1, <1>2 DEF Overwritten

\* Reading the indices before the first message and at each.
LEMMA TailSteps ==
  ASSUME CopyInv, CopyTail \/ CopyHead \/ LoopHead PROVE CopyInv'
<1>1. UNCHANGED rpmVars /\ UNCHANGED <<kept, opened, rolled, readIdx, msgLen, words>>
  BY DEF CopyTail, CopyHead, LoopHead, fileVars
<1>2. RpmInv' /\ Base' = Base /\ msgs' = msgs /\ head' = head /\ tail' = tail
  BY <1>1, RpmRests DEF CopyInv
<1>3. KeptInv' /\ OrderInv' /\ SkipInv' BY <1>1, ListsRest
<1>4. head \in Idx /\ tail \in Idx /\ readIdx \in Idx /\ t \in Idx BY FarType
<1>5. ReadTyped' BY <1>1, <1>4 DEF CopyInv, ReadTyped, CopyTail, CopyHead, LoopHead
<1>6. ReaderInv /\ HeadOK BY DEF CopyInv, RpmInv
<1>7. CASE CopyTail
  <2>1. reader' = "copy_head" /\ t' = tail BY <1>7 DEF CopyTail
  <2>2. Far(readIdx) \in Nat /\ Far(tail) \in Nat BY FarType
  <2>3. ReaderInv' BY <1>1, <1>2, <1>6, <2>1, <2>2 DEF ReaderInv, Far
  <2>4. QED BY <1>2, <1>3, <1>5, <2>3 DEF CopyInv
<1>8. CASE CopyHead
  <2>1. reader = "copy_head" /\ t' = t
              /\ (reader' = IF More(head, t, readIdx) THEN "loop" ELSE "copied")
    BY <1>8 DEF CopyHead, Again
  <2>2. reader' = "loop" => Far(readIdx) < Far(t) BY <1>4, <1>6, <2>1, Gap DEF ReaderInv, More
  <2>3. reader' \in {"loop", "copied"} BY <2>1
  <2>4. ReaderInv' BY <1>1, <1>2, <1>6, <2>1, <2>2, <2>3 DEF ReaderInv, Far
  <2>5. QED BY <1>2, <1>3, <1>5, <2>4 DEF CopyInv
<1>9. CASE LoopHead
  <2>1. reader = "loop" /\ reader' = "loop_tail" /\ t' = t /\ h' = head BY <1>9 DEF LoopHead
  <2>2. Boundary(h)' BY <1>2, <1>6, <2>1 DEF HeadOK, Boundary
  <2>3. Far(head) \in Nat BY FarType
  <2>4. ReaderInv' BY <1>1, <1>2, <1>6, <2>1, <2>2, <2>3 DEF ReaderInv, Far
  <2>5. QED BY <1>2, <1>3, <1>5, <2>4 DEF CopyInv
<1>10. QED BY <1>7, <1>8, <1>9

\* The reader goes on at its index or, when the head has passed it, at the head.
LEMMA LoopStep ==
  ASSUME CopyInv, LoopTail PROVE CopyInv'
<1>1. /\ reader = "loop_tail" /\ t' = tail /\ h' = h /\ msgLen' = msgLen /\ words' = words
      /\ UNCHANGED rpmVars /\ kept' = kept /\ opened' = opened /\ rolled' = rolled
  BY DEF LoopTail, fileVars
<1>2. RpmInv' /\ Base' = Base /\ Published' = Published /\ msgs' = msgs /\ head' = head
            /\ tail' = tail
  BY <1>1, RpmRests DEF CopyInv
<1>3. tail \in Idx /\ readIdx \in Idx /\ h \in Idx
            /\ \A i \in {head, tail, readIdx, h, t, opened} : Far(i) \in Nat
  BY FarType
<1>4. /\ Far(readIdx) < Far(t) /\ Far(t) <= Far(tail) /\ Far(h) <= Far(head) /\ Boundary(h)
      /\ Far(readIdx) <= Far(tail) /\ Far(head) <= Far(tail)
  BY <1>1 DEF CopyInv, ReaderInv, RpmInv, HeadOK
<1>5. Overwritten(h, tail, readIdx) <=> Far(readIdx) < Far(h) BY <1>3, <1>4, Passed
<1>6. CASE Overwritten(h, tail, readIdx)
  <2>1. readIdx' = h /\ (reader' = IF More(h, tail, h) THEN "loop" ELSE "copied")
    BY <1>6 DEF LoopTail, Reset, Again
  <2>2. reader' \in {"loop", "copied"} /\ (reader' = "loop" => Far(h) < Far(tail))
    BY <1>3, <1>4, <2>1, Gap DEF More
  <2>3. ReadTyped' BY <1>1, <1>3, <2>1 DEF CopyInv, ReadTyped
  <2>4. Far(h) <= Far(tail) BY <1>3, <1>4
  <2>5. ReaderInv' BY <1>1, <1>2, <2>1, <2>2, <2>4, <1>3 DEF ReaderInv, Far
  <2>6. KeptInv' BY <1>1, KeptRests
  <2>7. OrderInv'
    <3>1. Far(opened) <= Far(h)
      <4>1. Far(opened) <= Far(readIdx) BY DEF CopyInv, OrderInv
      <4>2. QED BY <1>3, <1>5, <1>6, <4>1
    <3>2. ASSUME NEW j \in 1 .. Len(kept) PROVE Far(kept[j].at) + MsgSize(kept[j].len) <= Far(h)
      <4>1. Far(kept[j].at) + MsgSize(kept[j].len) <= Far(readIdx) BY DEF CopyInv, OrderInv
      <4>2. Far(kept[j].at) \in Nat /\ MsgSize(kept[j].len) \in Nat BY FarType
      <4>3. QED BY <1>3, <1>5, <1>6, <4>1, <4>2
    <3>3. QED BY <1>1, <1>2, <2>1, <3>1, <3>2 DEF CopyInv, OrderInv, Far
  <2>8. SkipInv'
    <3>1. SUFFICES ASSUME ~rolled, NEW k \in Published, Far(opened) <= Far(msgs[k].at),
                          Far(msgs[k].at) < Far(h)
                   PROVE Given(k) \/ Far(msgs[k].at) < Far(head)
      BY <1>1, <1>2, <1>4, <2>1 DEF SkipInv, Far, Boundary, Given
    <3>2. k \in 1 .. Len(msgs) BY DEF Published
    <3>3. Far(msgs[k].at) \in Nat BY <3>2, FarType
    <3>4. QED BY <1>3, <1>4, <3>1, <3>3
  <2>9. QED BY <1>2, <2>3, <2>5, <2>6, <2>7, <2>8 DEF CopyInv
<1>7. CASE ~Overwritten(h, tail, readIdx)
  <2>1. readIdx' = readIdx
              /\ (reader' = IF \A i \in {h, tail, readIdx} : i % 4 = 0 THEN "length" ELSE "copied")
    BY <1>7 DEF LoopTail
  <2>2. ReadTyped' BY <1>1, <1>3, <2>1 DEF CopyInv, ReadTyped
  <2>3. KeptInv' /\ OrderInv' /\ SkipInv' BY <1>1, <2>1, ListsRest
  <2>4. Far(readIdx) < Far(tail) BY <1>3, <1>4
  <2>5. reader' \in {"length", "copied"} /\ (reader' = "length" => tail % 4 = 0 /\ readIdx % 4 = 0)
    BY <2>1
  <2>6. Boundary(t)' BY <1>1, <1>2 DEF Boundary
  <2>7. ReaderInv' BY <1>1, <1>2, <1>3, <1>4, <2>1, <2>4, <2>5, <2>6 DEF ReaderInv, Far
  <2>8. QED BY <1>2, <2>2, <2>3, <2>7 DEF CopyInv
<1>8. QED BY <1>6, <1>7

\* A message at the index, not overwritten, has its words in the ring.
LEMMA AtIndex ==
  ASSUME CopyInv, Far(readIdx) < Far(tail), Far(head) <= Far(readIdx), NEW k \in At(readIdx)
  PROVE /\ k \in 1 .. Len(msgs) /\ k \in Published /\ msgs[k].len \in Lengths /\ msgs[k].at = readIdx
        /\ \A i \in 0 .. Padded(msgs[k].len) \div 4 : rpmRing[Slot(readIdx + 4 * i)] = <<k, i>>
<1>1. RpmTyped /\ Chain /\ RingHolds BY DEF CopyInv, RpmInv
<1>2. k \in 1 .. Len(msgs) /\ msgs[k].at = readIdx BY DEF At
<1>3. msgs[k].len \in Lengths BY <1>1, <1>2, MsgType
<1>4. k \in Published
  <2>1. CASE written = 0 BY <1>2, <2>1 DEF Published
  <2>2. CASE written # 0
    <3>1. New.at = tail BY <1>1, <2>2 DEF RpmTyped
    <3>2. Far(readIdx) \in Nat /\ Far(tail) \in Nat /\ Len(msgs) \in Nat BY FarType
    <3>3. k # Len(msgs) BY <1>2, <3>1, <3>2 DEF New
    <3>4. QED BY <1>2, <3>2, <3>3 DEF Published
  <2>3. QED BY <2>1, <2>2
<1>5. Stored(k, Words(k)) BY <1>1, <1>2, <1>4 DEF RingHolds
<1>6. 0 .. Padded(msgs[k].len) \div 4 = 0 .. Words(k) - 1
  <2> DEFINE n == Padded(msgs[k].len)
  <2>1. n \in Nat /\ Words(k) = (n + 4) \div 4 BY <1>3, LengthType DEF Words
  <2> HIDE DEF n
  <2>2. (n + 4) \div 4 = n \div 4 + 1 BY <2>1
  <2>3. QED BY <2>1, <2>2 DEF n
<1>7. QED BY <1>2, <1>3, <1>4, <1>5, <1>6 DEF Stored

\* A message that begins before a boundary ends no later.
LEMMA EndsBefore ==
  ASSUME CopyInv, NEW k \in Published, NEW i \in Idx, Boundary(i),
         Far(msgs[k].at) < Far(i), Far(i) <= Far(tail)
  PROVE Far(msgs[k].at) + MsgSize(msgs[k].len) <= Far(i)
<1>1. Chain BY DEF CopyInv, RpmInv
<1>2. CASE i = tail BY <1>1, <1>2 DEF Chain
<1>3. CASE i # tail
  <2>1. PICK j \in 1 .. Len(msgs) : msgs[j].at = i BY <1>3 DEF Boundary
  <2>2. k \in 1 .. Len(msgs) BY DEF Published
  <2>3. Len(msgs) \in Nat /\ Far(msgs[k].at) \in Nat /\ Far(msgs[j].at) \in Nat
    BY <2>1, <2>2, FarType
  <2>4. CASE j <= k
    <3>1. j = k \/ Far(msgs[j].at) + MsgSize(msgs[j].len) <= Far(msgs[k].at)
      <4>1. j = k \/ j \in 1 .. k - 1 BY <2>1, <2>2, <2>3, <2>4
      <4>2. QED BY <1>1, <2>2, <4>1 DEF Chain
    <3>2. MsgSize(msgs[j].len) \in Nat BY <2>1, MsgType, LengthType DEF CopyInv, RpmInv
    <3>3. QED BY <2>1, <2>3, <3>1, <3>2
  <2>5. CASE k < j
    <3>1. k \in 1 .. j - 1 BY <2>1, <2>2, <2>3, <2>5
    <3>2. QED BY <1>1, <2>1, <3>1 DEF Chain
  <2>6. QED BY <2>1, <2>2, <2>3, <2>4, <2>5
<1>4. QED BY <1>2, <1>3

\* The length read: never beyond the tail that was read, and the message's own when its
\* length word is in the ring.
LEMMA CappedIs ==
  ASSUME CopyInv, reader = "length"
  PROVE /\ Capped \in Nat /\ MsgSize(Capped) <= Far(t) - Far(readIdx)
        /\ Far(head) <= Far(readIdx) => \A k \in At(readIdx) : Capped = msgs[k].len
<1>1. RpmTyped BY DEF CopyInv, RpmInv
<1>2. /\ Far(readIdx) < Far(t) /\ Far(t) <= Far(tail) /\ Boundary(t) /\ t % 4 = 0 /\ readIdx % 4 = 0
  BY DEF CopyInv, ReaderInv
<1>3. readIdx \in Idx /\ t \in Idx /\ Far(readIdx) \in Nat /\ Far(t) \in Nat /\ Far(tail) \in Nat
      /\ Modulus \in Nat /\ Modulus % 4 = 0 /\ Modulus > 0 /\ Far(t) < Modulus
  BY <1>1, FarType, MsgType, Rounded
<1>4. Wrap(t - readIdx) = Far(t) - Far(readIdx) BY <1>2, <1>3, Gap
<1> DEFINE g == Far(t) - Far(readIdx)
<1>5. g \in Nat /\ g > 0 /\ g % 4 = 0 /\ g < Modulus
  <2>1. t - readIdx \in Int /\ (t - readIdx) % 4 = 0
    <3>1. t \in Int /\ readIdx \in Int BY <1>3 DEF Idx
    <3>2. QED BY <1>2, <3>1
  <2>2. g % 4 = 0 BY <1>4, <2>1, WrapAligned
  <2>3. QED BY <1>2, <1>3, <2>2
<1>6. Left = g - 4
  <2>1. PICK e \in {0, 1} : t - readIdx = g - Modulus * e
    <3>1. Far(t) = IF t >= Base THEN t - Base ELSE t - Base + Modulus
      BY <1>3, FarType, Distance DEF Far
    <3>2. Far(readIdx) = IF readIdx >= Base THEN readIdx - Base ELSE readIdx - Base + Modulus
      BY <1>3, FarType, Distance DEF Far
    <3>3. Modulus * 0 = 0 /\ Modulus * 1 = Modulus BY <1>3
    <3>4. t \in 0 .. Modulus - 1 /\ readIdx \in 0 .. Modulus - 1 /\ Base \in 0 .. Modulus - 1
      BY <1>3, FarType DEF Idx
    <3>5. t - readIdx = g - Modulus * 0 \/ t - readIdx = g - Modulus * 1
      BY <1>2, <1>3, <3>1, <3>2, <3>3, <3>4
    <3>6. QED BY <3>5
  <2> HIDE DEF g
  <2>2. PICK z \in Int : z = t - readIdx - 4 BY <1>3 DEF Idx
  <2>3. z = Modulus * (-e) + (g - 4)
    <3>1. t \in Int /\ readIdx \in Int BY <1>3 DEF Idx
    <3>2. Modulus * (-e) = -(Modulus * e) /\ Modulus * e \in Int BY <1>3, <2>1
    <3>3. QED BY <1>5, <2>1, <2>2, <3>1, <3>2
  <2>4. g - 4 \in 0 .. Modulus - 1 BY <1>3, <1>5
  <2>5. z % Modulus = g - 4 BY <1>3, <2>1, <2>2, <2>3, <2>4, ModIs
  <2>6. QED BY <2>2, <2>5 DEF Left, Wrap
<1> HIDE DEF g
<1>7. Left \in Nat /\ Left % 4 = 0 /\ Left + 4 <= Modulus /\ Padded(Left) = Left
  <2>1. Left \in Nat /\ Left % 4 = 0 /\ Left + 4 <= Modulus BY <1>3, <1>5, <1>6
  <2>2. QED BY <2>1, PaddedType
<1>8. readIdx \in Nat /\ Slot(readIdx) \in 0 .. LogLen \div 4 - 1
            /\ Word(readIdx) = rpmRing[Slot(readIdx)]
  <2>1. readIdx \in Nat BY <1>3 DEF Idx
  <2>2. QED BY <2>1, SlotType DEF Word, Slot
<1>9. Claimed \in Nat
  <2>1. Word(readIdx) \in (0 .. Len(msgs)) \X Nat BY <1>1, <1>8 DEF RpmTyped
  <2>2. Word(readIdx)[1] \in 0 .. Len(msgs) BY <2>1
  <2>3. Len(msgs) \in Nat BY FarType
  <2>4. Value(Word(readIdx)) \in Nat
    <3>1. CASE Word(readIdx)[1] = 0 BY <3>1 DEF Value
    <3>2. CASE Word(readIdx)[1] # 0
      <4>1. Word(readIdx)[1] \in 1 .. Len(msgs) BY <2>2, <2>3, <3>2
      <4>2. msgs[Word(readIdx)[1]].pay \in Nat /\ msgs[Word(readIdx)[1]].len \in Nat
        BY <1>1, <4>1, MsgType, Nums
      <4>3. QED BY <3>2, <4>2 DEF Value
    <3>3. QED BY <3>1, <3>2
  <2>5. Wrap(Value(Word(readIdx)) - 4) \in Idx BY <2>4, WrapType
  <2>6. QED BY <1>3, <2>4, <2>5 DEF Claimed, Idx
<1>10. Capped \in Nat /\ Padded(Capped) <= Left
  <2>1. Padded(Claimed) \in Nat BY <1>9, PaddedType
  <2>2. QED BY <1>7, <1>9, <2>1 DEF Capped
<1>11. MsgSize(Capped) <= Far(t) - Far(readIdx)
  <2>1. Padded(Capped) \in Nat BY <1>10, PaddedType
  <2>2. QED BY <1>5, <1>6, <1>10, <2>1 DEF MsgSize, g
<1>12. ASSUME Far(head) <= Far(readIdx), NEW k \in At(readIdx) PROVE Capped = msgs[k].len
  <2>1. Far(readIdx) < Far(tail) BY <1>2, <1>3
  <2>2. k \in 1 .. Len(msgs) /\ k \in Published /\ msgs[k].len \in Lengths /\ msgs[k].at = readIdx
        /\ \A i \in 0 .. Padded(msgs[k].len) \div 4 : rpmRing[Slot(readIdx + 4 * i)] = <<k, i>>
    BY <1>12, <2>1, AtIndex
  <2>3. rpmRing[Slot(readIdx)] = <<k, 0>>
    <3>1. 0 \in 0 .. Padded(msgs[k].len) \div 4 BY <2>2, LengthType
    <3>2. readIdx + 4 * 0 = readIdx BY <1>8
    <3>3. QED BY <2>2, <3>1, <3>2
  <2> DEFINE n == msgs[k].len
  <2>4. n \in Nat /\ n + 7 <= Modulus /\ k \in Nat /\ k # 0 BY <2>2, LengthType
  <2>5. Claimed = n
    <3>1. Value(<<k, 0>>) = n + (IF Is8974 THEN 4 ELSE 0) BY <2>4 DEF Value
    <3> HIDE DEF n
    <3>2. CASE Is8974
      <4>1. Claimed = Wrap((n + 4) - 4) BY <1>8, <2>3, <3>1, <3>2 DEF Claimed
      <4>2. (n + 4) - 4 = n BY <2>4
      <4>3. Wrap(n) = n BY <1>3, <2>4, WrapIs
      <4>4. QED BY <4>1, <4>2, <4>3
    <3>3. CASE ~Is8974 BY <1>8, <2>3, <2>4, <3>1, <3>3 DEF Claimed
    <3>4. QED BY <3>2, <3>3
  <2>6. Padded(n) <= Left
    <3>1. Far(msgs[k].at) + MsgSize(msgs[k].len) <= Far(t) BY <1>2, <1>3, <2>2, EndsBefore
    <3>2. MsgSize(n) = Padded(n) + 4 /\ Padded(n) \in Nat BY <2>2, LengthType
    <3>3. QED BY <1>3, <1>6, <2>2, <3>1, <3>2 DEF g
  <2>7. ~(Padded(n) > Left)
    <3>1. Padded(n) \in Nat BY <2>2, LengthType
    <3>2. QED BY <1>7, <2>6, <3>1
  <2>8. QED BY <2>5, <2>7 DEF Capped
<1>13. QED BY <1>10, <1>11, <1>12

\* The length word.
LEMMA LengthStep ==
  ASSUME CopyInv, ReadLength PROVE CopyInv'
<1>1. /\ reader = "length" /\ msgLen' = Capped /\ words' = <<>> /\ h' = h /\ t' = t
            /\ readIdx' = readIdx
      /\ reader' \in {"word", "copied"} /\ UNCHANGED rpmVars
            /\ UNCHANGED <<kept, opened, rolled, readIdx>>
  BY DEF ReadLength, fileVars
<1>2. RpmInv' /\ Base' = Base /\ msgs' = msgs /\ head' = head /\ tail' = tail
  BY <1>1, RpmRests DEF CopyInv
<1>3. KeptInv' /\ OrderInv' /\ SkipInv' BY <1>1, ListsRest
<1>4. /\ Capped \in Nat /\ MsgSize(Capped) <= Far(t) - Far(readIdx)
      /\ Far(head) <= Far(readIdx) => \A k \in At(readIdx) : Capped = msgs[k].len
  BY <1>1, CappedIs
<1>5. ReadTyped'
  <2>1. words' \in Seq(Cells) BY <1>1
  <2>2. QED BY <1>1, <1>4, <2>1 DEF CopyInv, ReadTyped
<1>6. ReaderInv'
  <2>1. Far(readIdx) < Far(t) /\ Far(t) <= Far(tail) /\ Boundary(t) /\ t % 4 = 0 /\ readIdx % 4 = 0
        /\ Far(readIdx) <= Far(tail)
    BY <1>1 DEF CopyInv, ReaderInv
  <2>2. ASSUME Far(head) <= Far(readIdx), NEW k \in At(readIdx) PROVE Partly(k)'
    <3>1. Capped = msgs[k].len BY <1>4, <2>2
    <3>2. Len(words') = 0 BY <1>1
    <3>3. Padded(Capped) \in Nat BY <1>4, PaddedType
    <3>4. QED BY <1>1, <1>2, <3>1, <3>2, <3>3 DEF Partly
  <2>3. (reader = "word" /\ Far(head) <= Far(readIdx) => \A k \in At(readIdx) : Partly(k))'
    BY <1>1, <1>2, <2>2 DEF At, Far, Partly
  <2>4. Boundary(t)' BY <1>1, <1>2, <2>1 DEF Boundary
  <2>5. QED BY <1>1, <1>2, <1>4, <2>1, <2>3, <2>4 DEF ReaderInv, Far
<1>7. QED BY <1>2, <1>3, <1>5, <1>6 DEF CopyInv

\* A word more of the message, which is the message's while the head has not passed the index.
LEMMA WordStep ==
  ASSUME CopyInv, CopyWord PROVE CopyInv'
<1> DEFINE n == Len(words)
           w == Word(readIdx + 4 + 4 * n)
<1>1. /\ reader = "word" /\ 4 * n < msgLen /\ words' = Append(words, w) /\ h' = h /\ t' = t
      /\ readIdx' = readIdx /\ msgLen' = msgLen
      /\ reader' = reader /\ UNCHANGED rpmVars /\ UNCHANGED <<kept, opened, rolled, readIdx>>
  BY DEF CopyWord, fileVars
<1>2. RpmInv' /\ Base' = Base /\ msgs' = msgs /\ head' = head /\ tail' = tail
  BY <1>1, RpmRests DEF CopyInv
<1>3. KeptInv' /\ OrderInv' /\ SkipInv' BY <1>1, ListsRest
<1>4. words \in Seq(Cells) /\ n \in Nat /\ readIdx \in Idx /\ msgLen \in Nat /\ RpmTyped
  BY DEF CopyInv, ReadTyped, RpmInv
<1>5. w = rpmRing[Slot(readIdx + 4 * (n + 1))] /\ readIdx + 4 * (n + 1) \in Nat
  <2>1. readIdx + 4 + 4 * n = readIdx + 4 * (n + 1) /\ readIdx + 4 * (n + 1) \in Nat BY <1>4 DEF Idx
  <2>2. QED BY <2>1 DEF Word, Slot
<1>6. w \in Cells
  <2>1. rpmRing \in [0 .. LogLen \div 4 - 1 -> (0 .. Len(msgs)) \X Nat] BY <1>4 DEF RpmTyped
  <2>2. Slot(readIdx + 4 * (n + 1)) \in 0 .. LogLen \div 4 - 1 BY <1>5, SlotType
  <2> HIDE DEF w
  <2>3. w \in (0 .. Len(msgs)) \X Nat BY <1>5, <2>1, <2>2
  <2>4. (0 .. Len(msgs)) \subseteq Nat BY FarType
  <2>5. QED BY <2>3, <2>4 DEF Cells
<1> HIDE DEF w
<1>7. /\ words' \in Seq(Cells) /\ Len(words') = n + 1 /\ words'[n + 1] = w
      /\ \A i \in 1 .. n : words'[i] = words[i]
  BY <1>1, <1>4, <1>6
<1>8. ReadTyped' BY <1>1, <1>7 DEF CopyInv, ReadTyped
<1> HIDE DEF n
<1>9. ReaderInv'
  <2>1. /\ Far(readIdx) < Far(t) /\ Far(t) <= Far(tail) /\ Boundary(t) /\ t % 4 = 0 /\ readIdx % 4 = 0
        /\ MsgSize(msgLen) <= Far(t) - Far(readIdx) /\ Far(readIdx) <= Far(tail)
    BY <1>1 DEF CopyInv, ReaderInv
  <2>2. ASSUME Far(head) <= Far(readIdx), NEW k \in At(readIdx) PROVE Partly(k)'
    <3>1. Partly(k) BY <1>1, <2>2 DEF CopyInv, ReaderInv
    <3>2. Far(readIdx) < Far(tail)
      <4>1. Far(readIdx) \in Nat /\ Far(t) \in Nat /\ Far(tail) \in Nat BY FarType
      <4>2. QED BY <2>1, <4>1
    <3>3. msgs[k].len \in Lengths
                /\ \A i \in 0 .. Padded(msgs[k].len) \div 4 : rpmRing[Slot(readIdx + 4 * i)] = <<k, i>>
      BY <2>2, <3>2, AtIndex
    <3> DEFINE p == Padded(msgLen)
    <3>4. p \in Nat /\ p % 4 = 0 /\ msgLen <= p /\ msgLen = msgs[k].len
      BY <1>4, <3>1, <3>3, PaddedType, LengthType DEF Partly
    <3> HIDE DEF p
    <3>5. 4 * (n + 1) <= p /\ n + 1 \in 0 .. p \div 4
      <4>1. 4 * n < msgLen /\ n \in Nat /\ msgLen \in Nat BY <1>1, <1>4
      <4>2. QED BY ONLY <3>4, <4>1
    <3>6. w = <<k, n + 1>> BY <1>5, <3>3, <3>4, <3>5 DEF p
    <3>7. \A i \in 1 .. n : words[i] = <<k, i>> BY <3>1 DEF Partly, n
    <3>8. \A i \in 1 .. n + 1 : words'[i] = <<k, i>>
      <4>1. TAKE i \in 1 .. n + 1
      <4>2. i = n + 1 \/ i \in 1 .. n BY <1>4
      <4>3. QED BY <1>7, <3>6, <3>7, <4>2
    <3>9. QED BY <1>1, <1>2, <1>7, <3>4, <3>5, <3>8 DEF Partly, p
  <2>3. (reader = "word" /\ Far(head) <= Far(readIdx) => \A k \in At(readIdx) : Partly(k))'
    BY <1>1, <1>2, <2>2 DEF At, Far, Partly
  <2>4. Boundary(t)' BY <1>1, <1>2, <2>1 DEF Boundary
  <2>5. QED BY <1>1, <1>2, <2>1, <2>3, <2>4 DEF ReaderInv, Far
<1>10. QED BY <1>2, <1>3, <1>8, <1>9 DEF CopyInv

\* The head read after the last word: what was copied is whole unless it has passed the index.
LEMMA HeadStep ==
  ASSUME CopyInv, CheckHead PROVE CopyInv'
<1>1. /\ reader = "word" /\ 4 * Len(words) >= msgLen /\ h' = head /\ reader' = "check_tail" /\ t' = t
      /\ readIdx' = readIdx /\ msgLen' = msgLen /\ words' = words
      /\ UNCHANGED rpmVars /\ UNCHANGED <<kept, opened, rolled, readIdx>>
  BY DEF CheckHead, fileVars
<1>2. RpmInv' /\ Base' = Base /\ msgs' = msgs /\ head' = head /\ tail' = tail
  BY <1>1, RpmRests DEF CopyInv
<1>3. KeptInv' /\ OrderInv' /\ SkipInv' BY <1>1, ListsRest
<1>4. head \in Idx /\ Far(head) \in Nat /\ readIdx \in Idx BY FarType
<1>5. ReadTyped' BY <1>1, <1>4 DEF CopyInv, ReadTyped
<1>6. ReaderInv'
  <2>1. /\ Far(readIdx) < Far(t) /\ Far(t) <= Far(tail) /\ Boundary(t) /\ t % 4 = 0 /\ readIdx % 4 = 0
        /\ MsgSize(msgLen) <= Far(t) - Far(readIdx) /\ Far(readIdx) <= Far(tail)
    BY <1>1 DEF CopyInv, ReaderInv
  <2>2. ASSUME Far(head) <= Far(readIdx), NEW k \in At(readIdx) PROVE Whole(msgLen, words, k)
    <3>1. Partly(k) BY <1>1, <2>2 DEF CopyInv, ReaderInv
    <3>2. Far(readIdx) < Far(tail)
      <4>1. Far(readIdx) \in Nat /\ Far(t) \in Nat /\ Far(tail) \in Nat BY FarType
      <4>2. QED BY <2>1, <4>1
    <3>3. msgs[k].len \in Lengths BY <2>2, <3>2, AtIndex
    <3> DEFINE p == Padded(msgLen)
               n == Len(words)
    <3>4. p \in Nat /\ p % 4 = 0 /\ msgLen <= p /\ p <= msgLen + 3 /\ msgLen = msgs[k].len
                /\ msgLen \in Nat
      BY <3>1, <3>3, PaddedType, LengthType DEF Partly
    <3>5. words \in Seq(Cells) BY DEF CopyInv, ReadTyped
    <3>6. n \in Nat /\ 4 * n <= p /\ 4 * n >= msgLen /\ \A i \in 1 .. n : words[i] = <<k, i>>
      BY <1>1, <3>1, <3>5 DEF Partly
    <3> HIDE DEF p, n
    <3>7. n = p \div 4 BY <3>4, <3>6
    <3>8. words = [i \in 1 .. n |-> words[i]] BY <3>5 DEF n
    <3>9. words = [i \in 1 .. n |-> <<k, i>>] BY <3>6, <3>8
    <3>10. QED BY <3>4, <3>7, <3>9 DEF Whole, p
  <2>3. (reader = "check_tail" /\ Far(h) <= Far(readIdx) =>
              \A k \in At(readIdx) : Whole(msgLen, words, k))'
    BY <1>1, <1>2, <2>2 DEF At, Far, Whole
  <2>4. Boundary(t)' BY <1>1, <1>2, <2>1 DEF Boundary
  <2>5. Boundary(h)' BY <1>1, <1>2 DEF Boundary, CopyInv, RpmInv, HeadOK
  <2>6. QED BY <1>1, <1>2, <1>4, <2>1, <2>3, <2>4, <2>5 DEF ReaderInv, Far
<1>7. QED BY <1>2, <1>3, <1>5, <1>6 DEF CopyInv

\* A message at a place where a kept one lies is the one that was kept, which is whole; and
\* when nothing was dropped half way the index goes from message to message.
LEMMA KeepStep ==
  ASSUME CopyInv, CheckTail PROVE CopyInv'
<1> DEFINE e == [at |-> readIdx, len |-> msgLen, words |-> words]
           K == Len(kept)
<1>1. /\ reader = "check_tail" /\ t' = tail /\ h' = h /\ msgLen' = msgLen /\ words' = words
            /\ opened' = opened
      /\ readIdx' = Advanced /\ Again(h, tail, Advanced) /\ KeepOrDrop /\ UNCHANGED rpmVars
  BY DEF CheckTail
<1>2. RpmInv' /\ Base' = Base /\ Published' = Published /\ msgs' = msgs /\ head' = head
            /\ tail' = tail
  BY <1>1, RpmRests DEF CopyInv
<1>3. /\ Far(readIdx) < Far(t) /\ Far(t) <= Far(tail) /\ Far(h) <= Far(head) /\ Boundary(t)
      /\ MsgSize(msgLen) <= Far(t) - Far(readIdx) /\ Far(readIdx) <= Far(tail) /\ Far(head) <= Far(tail)
      /\ Far(h) <= Far(readIdx) => \A k \in At(readIdx) : Whole(msgLen, words, k)
  BY <1>1 DEF CopyInv, ReaderInv, RpmInv, HeadOK
<1>4. /\ \A i \in {head, tail, readIdx, h, t, opened} : i \in Idx /\ Far(i) \in Nat
      /\ Base \in Idx /\ K \in Nat /\ Len(msgs) \in Nat
  BY FarType
<1>5. /\ msgLen \in Nat /\ words \in Seq(Cells) /\ rolled \in BOOLEAN
      /\ kept \in Seq([at : Idx, len : Nat, words : Seq(Cells)])
  BY DEF CopyInv, ReadTyped
<1>6. Padded(msgLen) \in Nat /\ MsgSize(msgLen) = Padded(msgLen) + 4 /\ MsgSize(msgLen) \in Nat
  BY <1>5, PaddedType DEF MsgSize
<1>7. Advanced \in Idx /\ Far(Advanced) = Far(readIdx) + MsgSize(msgLen)
            /\ Far(Advanced) <= Far(tail)
  <2> DEFINE n == Padded(msgLen) + 4
  <2>1. Advanced = Wrap(readIdx + n)
    <3>1. readIdx + Padded(msgLen) + 4 = readIdx + (Padded(msgLen) + 4) BY <1>4, <1>6 DEF Idx
    <3>2. QED BY <3>1 DEF Advanced
  <2>2. n \in Nat /\ n = MsgSize(msgLen) BY <1>6
  <2> HIDE DEF n
  <2>3. Far(tail) < Modulus /\ Modulus \in Nat BY <1>4, MsgType, Nums DEF CopyInv, RpmInv
  <2>4. Far(readIdx) + n <= Far(tail) BY <1>3, <1>4, <2>2
  <2>5. Dist(Base, readIdx) + n < Modulus BY <1>4, <2>2, <2>3, <2>4 DEF Far
  <2>6. Wrap(readIdx + n) \in Idx /\ Dist(Base, Wrap(readIdx + n)) = Dist(Base, readIdx) + n
    BY <1>4, <2>2, <2>5, Ahead
  <2>7. QED BY <2>1, <2>2, <2>4, <2>6 DEF Far
<1>8. reader' \in {"loop", "copied"} /\ (reader' = "loop" => Far(Advanced) < Far(tail))
  <2>1. reader' = IF More(h, tail, Advanced) THEN "loop" ELSE "copied" BY <1>1 DEF Again
  <2>2. QED BY <1>4, <1>7, <2>1, Gap DEF More
<1>9. Overwritten(h, tail, readIdx) <=> Far(readIdx) < Far(h)
  <2>1. Far(h) <= Far(tail) BY <1>3, <1>4
  <2>2. QED BY <1>3, <1>4, <2>1, Passed
<1>10. ReaderInv' BY <1>1, <1>2, <1>4, <1>7, <1>8 DEF ReaderInv, Far
<1>11. CASE Overwritten(h, tail, readIdx)
  <2>1. rolled' = TRUE /\ kept' = kept BY <1>1, <1>11 DEF KeepOrDrop
  <2>2. ReadTyped' BY <1>1, <1>4, <1>5, <1>7, <2>1 DEF ReadTyped
  <2>3. KeptInv' BY <1>1, <2>1, KeptRests
  <2>4. OrderInv'
    <3>1. Far(opened) <= Far(Advanced)
      <4>1. Far(opened) <= Far(readIdx) BY DEF CopyInv, OrderInv
      <4>2. QED BY <1>4, <1>6, <1>7, <4>1
    <3>2. ASSUME NEW j \in 1 .. K PROVE Far(kept[j].at) + MsgSize(kept[j].len) <= Far(Advanced)
      <4>1. Far(kept[j].at) + MsgSize(kept[j].len) <= Far(readIdx) BY DEF CopyInv, OrderInv
      <4>2. Far(kept[j].at) \in Nat /\ MsgSize(kept[j].len) \in Nat BY FarType
      <4>3. QED BY <1>4, <1>6, <1>7, <4>1, <4>2
    <3>3. QED BY <1>1, <1>2, <2>1, <3>1, <3>2 DEF CopyInv, OrderInv, Far
  <2>5. SkipInv' BY <2>1 DEF SkipInv
  <2>6. QED BY <1>2, <1>10, <2>2, <2>3, <2>4, <2>5 DEF CopyInv
<1>12. CASE ~Overwritten(h, tail, readIdx)
  <2>1. kept' = Append(kept, e) /\ rolled' = rolled BY <1>1, <1>12 DEF KeepOrDrop
  <2>2. /\ e \in [at : Idx, len : Nat, words : Seq(Cells)]
        /\ kept' \in Seq([at : Idx, len : Nat, words : Seq(Cells)])
        /\ Len(kept') = K + 1 /\ kept'[K + 1] = e /\ \A j \in 1 .. K : kept'[j] = kept[j]
    BY <1>4, <1>5, <2>1
  <2>3. \A k \in At(readIdx) : Whole(msgLen, words, k) BY <1>3, <1>4, <1>9, <1>12
  <2>4. ReadTyped' BY <1>1, <1>4, <1>5, <1>7, <2>1, <2>2 DEF ReadTyped
  <2> HIDE DEF K
  <2>5. \A j \in 1 .. Len(kept') : j = K + 1 \/ j \in 1 .. K BY <1>4, <2>2
  <2>6. Far(readIdx) < Far(tail) BY <1>3, <1>4
  <2>7. KeptInv'
    <3>1. ASSUME NEW j \in 1 .. Len(kept')
          PROVE /\ Far(kept'[j].at) < Far(tail)
                /\ \A k \in At(kept'[j].at) : Whole(kept'[j].len, kept'[j].words, k)
      <4>1. CASE j = K + 1 BY <2>2, <2>3, <2>6, <4>1
      <4>2. CASE j \in 1 .. K BY <2>2, <4>2 DEF CopyInv, KeptInv, K
      <4>3. QED BY <2>5, <4>1, <4>2
    <3>2. QED BY <1>2, <3>1 DEF KeptInv, Far, At, Whole
  <2>8. OrderInv'
    <3>1. Far(opened) <= Far(head) /\ Far(opened) <= Far(readIdx) BY DEF CopyInv, OrderInv
    <3>2. \A j \in 1 .. K : /\ Far(opened) <= Far(kept[j].at)
                            /\ Far(kept[j].at) + MsgSize(kept[j].len) <= Far(readIdx)
                            /\ Far(kept[j].at) \in Nat /\ MsgSize(kept[j].len) \in Nat
      BY FarType DEF CopyInv, OrderInv, K
    <3>3. ASSUME NEW j \in 1 .. Len(kept')
          PROVE /\ Far(opened) <= Far(kept'[j].at)
                /\ Far(kept'[j].at) + MsgSize(kept'[j].len) <= Far(Advanced)
      <4>1. CASE j = K + 1 BY <1>4, <1>6, <1>7, <2>2, <3>1, <4>1
      <4>2. CASE j \in 1 .. K
        <5>1. kept'[j] = kept[j] BY <2>2, <4>2
        <5>2. Far(kept[j].at) + MsgSize(kept[j].len) <= Far(readIdx) /\ Far(kept[j].at) \in Nat
              /\ MsgSize(kept[j].len) \in Nat /\ Far(opened) <= Far(kept[j].at)
          BY <3>2, <4>2
        <5>3. Far(kept[j].at) + MsgSize(kept[j].len) <= Far(Advanced) BY <1>4, <1>6, <1>7, <5>2
        <5>4. QED BY <5>1, <5>2, <5>3
      <4>3. QED BY <2>5, <4>1, <4>2
    <3>4. ASSUME NEW j \in 1 .. Len(kept') - 1
          PROVE Far(kept'[j].at) + MsgSize(kept'[j].len) <= Far(kept'[j + 1].at)
      <4>1. j \in 1 .. K /\ kept'[j] = kept[j] BY <1>4, <2>2
      <4>2. CASE j = K
        <5>1. kept'[j + 1].at = readIdx BY <2>2, <4>2
        <5>2. QED BY <3>2, <4>1, <5>1
      <4>3. CASE j # K
        <5>1. j \in 1 .. K - 1 /\ j + 1 \in 1 .. K BY <1>4, <4>1, <4>3
        <5>2. kept'[j + 1] = kept[j + 1] BY <2>2, <5>1
        <5>3. QED BY <4>1, <5>1, <5>2 DEF CopyInv, OrderInv, K
      <4>4. QED BY <4>2, <4>3
    <3>5. Far(opened) <= Far(Advanced) BY <1>4, <1>6, <1>7, <3>1
    <3>6. QED BY <1>1, <1>2, <3>1, <3>3, <3>4, <3>5 DEF OrderInv, Far
  <2>9. SkipInv'
    <3>1. SUFFICES ASSUME ~rolled
                   PROVE /\ Boundary(Advanced)
                         /\ \A k \in Published :
                              Far(opened) <= Far(msgs[k].at) /\ Far(msgs[k].at) < Far(Advanced) =>
                                (\E j \in 1 .. Len(kept') : kept'[j].at = msgs[k].at)
                                  \/ Far(msgs[k].at) < Far(head)
      BY <1>1, <1>2, <2>1 DEF SkipInv, Far, Boundary, Given
    <3>2. Boundary(readIdx) BY <3>1 DEF CopyInv, SkipInv
    <3>3. PICK m \in 1 .. Len(msgs) : msgs[m].at = readIdx BY <1>4, <2>6, <3>2 DEF Boundary
    <3>4. m \in At(readIdx) BY <3>3 DEF At
    <3>5. msgLen = msgs[m].len BY <2>3, <3>4 DEF Whole
    <3>6. Chain /\ RpmTyped BY DEF CopyInv, RpmInv
    <3>7. Advanced = Wrap(msgs[m].at + MsgSize(msgs[m].len))
      <4>1. readIdx + Padded(msgLen) + 4 = readIdx + MsgSize(msgLen) BY <1>4, <1>6 DEF Idx
      <4>2. QED BY <3>3, <3>5, <4>1 DEF Advanced
    <3>8. Boundary(Advanced)
      <4>1. CASE m # Len(msgs)
        <5>1. m \in 1 .. Len(msgs) - 1 /\ m + 1 \in 1 .. Len(msgs) BY <1>4, <3>3, <4>1
        <5>2. Advanced = msgs[m + 1].at BY <3>6, <3>7, <5>1 DEF Chain
        <5>3. QED BY <5>1, <5>2 DEF Boundary
      <4>2. CASE m = Len(msgs)
        <5>1. New = msgs[m] /\ msgs # <<>> BY <1>4, <3>3, <4>2 DEF New
        <5>2. written = 0
          <6>1. written # 0 => readIdx = tail BY <3>3, <3>6, <5>1 DEF RpmTyped
          <6>2. QED BY <1>4, <2>6, <6>1
        <5>3. Advanced = tail BY <3>6, <3>7, <5>1, <5>2 DEF Chain
        <5>4. QED BY <5>3 DEF Boundary
      <4>3. QED BY <4>1, <4>2
    <3>9. ASSUME NEW k \in Published, Far(opened) <= Far(msgs[k].at),
                 Far(msgs[k].at) < Far(Advanced)
          PROVE (\E j \in 1 .. Len(kept') : kept'[j].at = msgs[k].at) \/ Far(msgs[k].at) < Far(head)
      <4>1. k \in 1 .. Len(msgs) BY DEF Published
      <4>2. Far(msgs[k].at) \in Nat /\ Far(msgs[m].at) \in Nat BY <3>3, <4>1, FarType
      <4>3. CASE Far(msgs[k].at) < Far(readIdx)
        <5>1. Given(k) \/ Far(msgs[k].at) < Far(head) BY <3>1, <3>9, <4>3 DEF CopyInv, SkipInv
        <5>2. Given(k) => \E j \in 1 .. Len(kept') : kept'[j].at = msgs[k].at
          <6>1. \A j \in 1 .. K : j \in 1 .. Len(kept') /\ kept'[j] = kept[j] BY <1>4, <2>2
          <6>2. QED BY <6>1 DEF Given, K
        <5>3. QED BY <5>1, <5>2
      <4>4. CASE Far(msgs[k].at) >= Far(readIdx)
        <5>1. k = m
          <6>1. CASE m < k
            <7>1. m \in 1 .. k - 1 BY <1>4, <3>3, <4>1, <6>1
            <7>2. Far(msgs[m].at) + MsgSize(msgs[m].len) <= Far(msgs[k].at)
              BY <3>6, <4>1, <7>1 DEF Chain
            <7>3. QED BY <1>4, <1>6, <1>7, <3>3, <3>5, <3>9, <4>2, <7>2
          <6>2. CASE k < m
            <7>1. k \in 1 .. m - 1 BY <1>4, <3>3, <4>1, <6>2
            <7>2. Far(msgs[k].at) + MsgSize(msgs[k].len) <= Far(msgs[m].at)
              BY <3>3, <3>6, <7>1 DEF Chain
            <7>3. MsgSize(msgs[k].len) \in Nat /\ MsgSize(msgs[k].len) >= 4
              BY <3>6, <4>1, MsgType, LengthType
            <7>4. QED BY <3>3, <4>2, <4>4, <7>2, <7>3
          <6>3. QED BY <1>4, <3>3, <4>1, <6>1, <6>2
        <5>2. K + 1 \in 1 .. Len(kept') /\ kept'[K + 1].at = readIdx BY <1>4, <2>2
        <5>3. QED BY <3>3, <5>1, <5>2
      <4>5. QED BY <1>4, <4>2, <4>3, <4>4
    <3>10. QED BY <3>8, <3>9
  <2>10. QED BY <1>2, <1>10, <2>4, <2>7, <2>8, <2>9 DEF CopyInv
<1>13. QED BY <1>11, <1>12

-----------------------------------------------------------------------------
(* The file.                                                               *)

\* A file that is opened begins at the head, with nothing put in its buffer.
LEMMA OpenStep ==
  ASSUME CopyInv, OpenLog PROVE CopyInv'
<1>1. /\ reader' = "user" /\ readIdx' = head /\ opened' = head /\ kept' = <<>> /\ rolled' = FALSE
      /\ UNCHANGED rpmVars /\ h' = h /\ t' = t /\ msgLen' = msgLen /\ words' = words
  BY DEF OpenLog
<1>2. RpmInv' /\ Base' = Base /\ Published' = Published /\ msgs' = msgs /\ head' = head
            /\ tail' = tail
  BY <1>1, RpmRests DEF CopyInv
<1>3. head \in Idx /\ Far(head) \in Nat BY FarType
<1>4. Boundary(head) /\ Far(head) <= Far(tail) BY DEF CopyInv, RpmInv, HeadOK
<1>5. kept' \in Seq([at : Idx, len : Nat, words : Seq(Cells)]) /\ Len(kept') = 0 BY <1>1
<1>6. ReadTyped' BY <1>1, <1>3, <1>5 DEF CopyInv, ReadTyped
<1>7. ReaderInv' BY <1>1, <1>2, <1>4 DEF ReaderInv, Far
<1>8. KeptInv' BY <1>5 DEF KeptInv
<1>9. OrderInv' BY <1>1, <1>2, <1>3, <1>5 DEF OrderInv, Far
<1>10. SkipInv'
  <2>1. \A k \in Published : ~(Far(head) <= Far(msgs[k].at) /\ Far(msgs[k].at) < Far(head))
    <3>1. TAKE k \in Published
    <3>2. Far(msgs[k].at) \in Nat BY FarType DEF Published
    <3>3. QED BY <1>3, <3>2
  <2>2. QED BY <1>1, <1>2, <1>4, <2>1 DEF SkipInv, Far, Boundary, Given
<1>11. QED BY <1>2, <1>6, <1>7, <1>8, <1>9, <1>10 DEF CopyInv

\* The rest of the file operations move no index.
LEMMA FileStep ==
  ASSUME CopyInv, [File /\ ~OpenLog]_logVars PROVE CopyInv'
<1>1. /\ UNCHANGED rpmVars /\ UNCHANGED <<kept, opened, rolled, readIdx>>
      /\ h' = h /\ t' = t /\ msgLen' = msgLen /\ words' = words
      /\ reader' \in {"closed", "copy", "copied", "asleep", "user"} \/ reader' = reader
  BY DEF File, Close, ReadLog, Sleep, TryAgain, Recheck, Signal, Deliver, logVars,
     copyVars, fileVars
<1>2. RpmInv' /\ Base' = Base /\ msgs' = msgs /\ head' = head /\ tail' = tail
  BY <1>1, RpmRests DEF CopyInv
<1>3. KeptInv' /\ OrderInv' /\ SkipInv' BY <1>1, ListsRest
<1>4. ReadTyped' BY <1>1 DEF CopyInv, ReadTyped
<1>5. ReaderInv'
  <2>1. ReaderInv BY DEF CopyInv
  <2>2. CASE reader' = reader
    BY <1>1, <1>2, <2>1, <2>2 DEF ReaderInv, Far, Boundary, At, Partly, Whole
  <2>3. CASE reader' \in {"closed", "copy", "copied", "asleep", "user"}
    BY <1>1, <1>2, <2>1, <2>3 DEF ReaderInv, Far
  <2>4. QED BY <1>1, <2>2, <2>3
<1>6. QED BY <1>2, <1>3, <1>4, <1>5 DEF CopyInv

\* Every step keeps the invariant, and it holds at first.
LEMMA CopyStep ==
  CopyInv /\ [LogNext]_logVars => CopyInv'
<1>1. CASE CopyInv /\ Rpm BY <1>1, RpmKeeps
<1>2. CASE CopyInv /\ Copying
  BY <1>2, TailSteps, LoopStep, LengthStep, WordStep, HeadStep, KeepStep DEF Copying
<1>3. CASE CopyInv /\ OpenLog BY <1>3, OpenStep
<1>4. CASE CopyInv /\ [File /\ ~OpenLog]_logVars BY <1>4, FileStep
<1>5. QED BY <1>1, <1>2, <1>3, <1>4 DEF LogNext

LEMMA CopyStart ==
  LogInit => CopyInv
<1>1. SUFFICES ASSUME LogInit PROVE CopyInv OBVIOUS
<1>2. /\ head \in Starts /\ tail = head /\ readIdx = head /\ opened = head
      /\ rpmRing = [i \in 0 .. LogLen \div 4 - 1 |-> <<0, 0>>] /\ msgs = <<>> /\ written = 0
      /\ h = 0 /\ t = 0 /\ msgLen = 0 /\ words = <<>> /\ kept = <<>> /\ rolled = FALSE
            /\ reader = "closed"
  BY <1>1 DEF LogInit
<1>3. head \in Idx /\ head % 4 = 0 /\ 0 \in Idx BY <1>2, Fit, Rounded DEF Idx
<1>4. Len(msgs) = 0 /\ Len(kept) = 0 /\ Published = {} /\ Sure = 0 /\ Base = head
  BY <1>2 DEF Published, Sure, Base
<1>5. Far(head) = 0
  <2>1. head - head = 0 /\ Wrap(0) = 0
    <3>1. 0 \in Int /\ -Modulus <= 0 /\ 0 < 2 * Modulus /\ 0 < Modulus BY Rounded
    <3>2. QED BY <1>3, <3>1, WrapIs DEF Idx
  <2>2. QED BY <1>4, <2>1 DEF Far, Dist
<1>6. RpmTyped
  <2>1. MaxMsgs >= 0 BY Nums
  <2>2. rpmRing \in [0 .. LogLen \div 4 - 1 -> (0 .. Len(msgs)) \X Nat]
    <3>1. <<0, 0>> \in (0 .. 0) \X Nat OBVIOUS
    <3>2. QED BY <1>2, <1>4, <3>1
  <2>3. QED BY <1>2, <1>3, <1>4, <2>1, <2>2 DEF RpmTyped
<1>7. Chain BY <1>2, <1>3, <1>4, <1>5, Nums DEF Chain
<1>8. HeadOK BY <1>2, <1>5, Nums DEF HeadOK, Boundary
<1>9. RingHolds BY <1>2, <1>4 DEF RingHolds
<1>10. ReadTyped
  <2>1. words \in Seq(Cells) /\ kept \in Seq([at : Idx, len : Nat, words : Seq(Cells)]) BY <1>2
  <2>2. QED BY <1>2, <1>3, <2>1 DEF ReadTyped
<1>11. ReaderInv BY <1>2, <1>5 DEF ReaderInv
<1>12. KeptInv /\ OrderInv /\ SkipInv BY <1>2, <1>4, <1>5 DEF KeptInv, OrderInv, SkipInv, Boundary
<1>13. QED BY <1>6, <1>7, <1>8, <1>9, <1>10, <1>11, <1>12 DEF CopyInv, RpmInv

LEMMA CopyHolds ==
  LogSpec => []CopyInv
BY CopyStart, CopyStep, PTL DEF LogSpec

-----------------------------------------------------------------------------
(* The results.                                                            *)

\* msm_rpm_log_copy gives out whole messages: whatever it has put in the buffer from the place
\* of a message is that message, however the RPM's writes fall between its reads.
THEOREM KeptCorrect ==
  LogSpec => []KeptIsWhole
<1>1. CopyInv => KeptIsWhole
  <2>1. SUFFICES ASSUME CopyInv, NEW j \in 1 .. Len(kept), NEW k \in Sent(kept[j])
                 PROVE Whole(kept[j].len, kept[j].words, k)
    BY DEF KeptIsWhole, Whole
  <2>2. k \in At(kept[j].at) BY <2>1 DEF Sent, Published, At
  <2>3. QED BY <2>1, <2>2 DEF CopyInv, KeptInv
<1>2. QED BY <1>1, CopyHolds, PTL

\* An index counted from where the file was opened: those before it lie a round away.
LEMMA FromIs ==
  ASSUME CopyInv, NEW x \in Idx
  PROVE From(x) = IF Far(opened) <= Far(x) THEN Far(x) - Far(opened)
          ELSE Far(x) - Far(opened) + Modulus
<1>1. opened \in Idx /\ Far(opened) \in Nat BY FarType
<1>2. Far(x) \in Nat BY MsgType DEF CopyInv, RpmInv
<1>3. QED BY <1>1, <1>2, Gap DEF From

\* It gives out messages in the order they were written, and, until it drops one because it was
\* overwritten during its copy, passes over none that the RPM has not overwritten.
THEOREM OrderKeptCorrect ==
  LogSpec => []NothingSkipped
<1>1. ASSUME CopyInv PROVE NothingSkipped
  <2>1. InOrder
    <3>1. SUFFICES ASSUME NEW j \in 1 .. Len(kept) - 1
                   PROVE From(kept[j].at) + MsgSize(kept[j].len) <= From(kept[j + 1].at)
      BY DEF InOrder
    <3>2. j \in 1 .. Len(kept) /\ j + 1 \in 1 .. Len(kept) BY <1>1, FarType
    <3>3. /\ kept[j].at \in Idx /\ kept[j + 1].at \in Idx /\ Far(kept[j].at) \in Nat
                /\ Far(kept[j + 1].at) \in Nat
          /\ MsgSize(kept[j].len) \in Nat /\ Far(opened) \in Nat
      BY <1>1, <3>2, FarType
    <3>4. /\ Far(opened) <= Far(kept[j].at) /\ Far(opened) <= Far(kept[j + 1].at)
          /\ Far(kept[j].at) + MsgSize(kept[j].len) <= Far(kept[j + 1].at)
      BY <1>1, <3>1, <3>2 DEF CopyInv, OrderInv
    <3>5. From(kept[j].at) = Far(kept[j].at) - Far(opened)
                /\ From(kept[j + 1].at) = Far(kept[j + 1].at) - Far(opened)
      BY <1>1, <3>3, <3>4, FromIs
    <3>6. QED BY <3>3, <3>4, <3>5
  <2>2. ASSUME ~rolled, NEW k \in Published, From(msgs[k].at) < From(readIdx)
        PROVE Given(k) \/ From(msgs[k].at) < From(head)
    <3>1. k \in 1 .. Len(msgs) BY DEF Published
    <3>2. /\ msgs[k].at \in Idx /\ readIdx \in Idx /\ head \in Idx /\ Far(msgs[k].at) \in Nat
                /\ Far(readIdx) \in Nat
          /\ Far(head) \in Nat /\ Far(opened) \in Nat
      BY <1>1, <3>1, FarType
    <3>3. Far(readIdx) < Modulus /\ Modulus \in Nat
      BY <1>1, <3>2, MsgType, Rounded DEF CopyInv, RpmInv
    <3>4. Far(opened) <= Far(readIdx) /\ Far(opened) <= Far(head) BY <1>1 DEF CopyInv, OrderInv
    <3>5. From(readIdx) = Far(readIdx) - Far(opened) /\ From(head) = Far(head) - Far(opened)
      BY <1>1, <3>2, <3>4, FromIs
    <3>6. From(msgs[k].at) = IF Far(opened) <= Far(msgs[k].at) THEN Far(msgs[k].at) - Far(opened)
                             ELSE Far(msgs[k].at) - Far(opened) + Modulus
      BY <1>1, <3>2, FromIs
    <3>7. Far(opened) <= Far(msgs[k].at) /\ Far(msgs[k].at) < Far(readIdx)
      BY <2>2, <3>2, <3>3, <3>5, <3>6
    <3>8. Given(k) \/ Far(msgs[k].at) < Far(head) BY <1>1, <2>2, <3>7 DEF CopyInv, SkipInv
    <3>9. QED BY <3>2, <3>5, <3>6, <3>7, <3>8
  <2>3. QED BY <2>1, <2>2 DEF NothingSkipped, Given
<1>2. QED BY <1>1, CopyHolds, PTL
=============================================================================
