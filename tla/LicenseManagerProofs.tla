------------------------- MODULE LicenseManagerProofs -------------------------
(***************************************************************************)
(* Proofs about LicenseManager, for any number of users, rescans and files *)
(* of any size: the count is exact, a valid buffer is whole, and apart     *)
(* from the race a buffer in use is not filled again.                      *)
(***************************************************************************)
EXTENDS LicenseManager, FiniteSetTheorems, SequenceTheorems, WellFoundedInduction, TLAPS

Places == {"out", "locking", "scanning", "unlocking", "granting", "counting", "using", "freeing"}
Content == Seq(Nat \X Nat)

TypeInv ==
  /\ disk \in [Files -> Nat] /\ valid \in BOOLEAN /\ buf \in Content /\ len \in Nat
  /\ at \in [Threads -> Places] /\ pos \in Nat /\ ret \in BOOLEAN
  /\ lock \in SUBSET Threads /\ got \in [Users -> Content]
  /\ count \in Int /\ lost \in Nat /\ raced \in BOOLEAN

\* The users that count for one.
Holders == {u \in Users : at[u] \in {"using", "freeing"}}

\* Where rescans go, and who holds the lock.
LockInv ==
  /\ \A r \in Rescanners : at[r] \in {"out", "locking", "scanning", "unlocking"}
  /\ \A t \in Threads : at[t] \in {"scanning", "unlocking"} <=> lock = {t}
  /\ lock = Nobody \/ \E t \in Threads : lock = {t}

\* A length comes with a file, and a valid buffer has one.
ContentInv ==
  /\ len # 0 => buf # <<>>
  /\ lock = Nobody /\ valid => len # 0

\* Unless a licence was given out during a scan, no scan is under way and none can
\* start while somebody has one.
QuietInv ==
  ~raced /\ (\E u \in Users : at[u] \in {"counting", "using"}) =>
    /\ lock = Nobody /\ valid
    /\ \A r \in Rescanners : at[r] = "out"

Inv == TypeInv /\ CountExact /\ LockInv /\ ContentInv /\ QuietInv /\ InUseKept

-----------------------------------------------------------------------------
\* Users are finitely many, so those that hold a licence can be counted.
LEMMA HoldersFinite ==
  ASSUME NEW S \in SUBSET Users PROVE IsFiniteSet(S) /\ Cardinality(S) \in Nat
<1>1. IsFiniteSet(Users) BY ThreadsOK DEF Users
<1>2. IsFiniteSet(S) BY <1>1, FS_Subset
<1>3. QED BY <1>2, FS_CardinalityType

\* A set of users grows by one, or shrinks by one.
LEMMA HoldersStep ==
  ASSUME NEW S \in SUBSET Users, NEW u \in Users
  PROVE /\ u \notin S => Cardinality(S \cup {u}) = Cardinality(S) + 1
        /\ u \in S => Cardinality(S \ {u}) = Cardinality(S) - 1 /\ Cardinality(S) > 0
<1>1. IsFiniteSet(S) /\ Cardinality(S) \in Nat BY HoldersFinite
<1>2. u \notin S => Cardinality(S \cup {u}) = Cardinality(S) + 1 BY <1>1, FS_AddElement
<1>3. ASSUME u \in S PROVE Cardinality(S \ {u}) = Cardinality(S) - 1 /\ Cardinality(S) > 0
  <2>1. Cardinality(S \ {u}) = Cardinality(S) - 1 BY <1>1, <1>3, FS_RemoveElement
  <2>2. Cardinality(S \ {u}) \in Nat BY HoldersFinite
  <2>3. QED BY <1>1, <2>1, <2>2
<1>4. QED BY <1>2, <1>3

\* Initially nobody holds anything.
LEMMA InitInv == Init => Inv
<1> SUFFICES ASSUME Init PROVE Inv OBVIOUS
<1>1. TypeInv
  <2>1. disk \in [Files -> Nat] BY SizesOK DEF Init
  <2>2. <<>> \in Content BY DEF Content
  <2>3. got \in [Users -> Content] /\ buf \in Content BY <2>2 DEF Init
  <2>4. at \in [Threads -> Places] BY DEF Init, Places
  <2>5. valid \in BOOLEAN /\ len \in Nat /\ pos \in Nat /\ ret \in BOOLEAN BY DEF Init
  <2>6. count \in Int BY DEF Init
  <2>7. lost \in Nat BY DEF Init
  <2>8. raced \in BOOLEAN BY DEF Init
  <2>10. lock \in SUBSET Threads BY Zenon DEF Init, Nobody
  <2>9. QED BY <2>1, <2>3, <2>4, <2>5, <2>6, <2>7, <2>8, <2>10 DEF TypeInv
<1>2. CountExact
  <2>1. {u \in Users : at[u] \in {"using", "freeing"}} = {} BY DEF Init, Threads
  <2>2. QED BY <2>1, FS_EmptySet DEF Init, CountExact
<1>3. LockInv BY DEF Init, LockInv, Nobody, Threads
<1>4. ContentInv BY DEF Init, ContentInv
<1>5. QuietInv /\ InUseKept BY DEF Init, QuietInv, InUseKept, Threads
<1>6. QED BY <1>1, <1>2, <1>3, <1>4, <1>5 DEF Inv

-----------------------------------------------------------------------------
\* Every step keeps every variable in its type.
LEMMA TypeStep == TypeInv /\ [Next]_vars => TypeInv'
<1> SUFFICES ASSUME TypeInv, [Next]_vars PROVE TypeInv' OBVIOUS
<1> USE DEF TypeInv, Goto, Buffer, Scan, Places, Nobody
<1>1. CASE Edit
  <2>1. PICK f \in Files, s \in Sizes : disk' = [disk EXCEPT ![f] = s] BY <1>1 DEF Edit
  <2>2. s \in Nat BY SizesOK
  <2>3. disk' \in [Files -> Nat] BY <2>1, <2>2
  <2>4. QED BY <1>1, <2>3 DEF Edit
<1>2. ASSUME NEW t \in Threads, Step(t) PROVE TypeInv'
  <2>1. CASE LockValid(t) BY <2>1 DEF LockValid
  <2>2. CASE Lock(t)
    <3>1. <<>> \in Content BY DEF Content
    <3>2. QED BY <2>2, <3>1 DEF Lock
  <2>3. CASE ReadFile(t)
    <3> DEFINE f == pos + 1
    <3>1. f \in Files BY <2>3, SizesOK DEF ReadFile, Files
    <3>2. disk[f] \in Nat BY <3>1
    <3>3. f \in Nat BY <3>1 DEF Files
    <3>4. Append(buf, <<f, disk[f]>>) \in Content BY <3>2, <3>3 DEF Content
    <3>5. len + disk[f] \in Nat BY <3>2
    <3>6. ResultOf(TRUE) \in BOOLEAN /\ ResultOf(FALSE) \in BOOLEAN BY DEF ResultOf
    <3>7. /\ buf' \in Content /\ len' \in Nat /\ pos' \in Nat /\ ret' \in BOOLEAN
          /\ at' \in [Threads -> Places]
      BY <2>3, <3>3, <3>4, <3>5, <3>6 DEF ReadFile
    <3>8. QED BY <2>3, <3>7 DEF ReadFile
  <2>4. CASE BadList(t) BY <2>4 DEF BadList
  <2>5. CASE SetValid(t) BY <2>5 DEF SetValid
  <2>6. CASE Unlock(t) BY <2>6 DEF Unlock, After
  <2>7. QED BY <1>2, <2>1, <2>2, <2>3, <2>4, <2>5, <2>6 DEF Step
<1>3. ASSUME NEW u \in Users, UserStep(u) PROVE TypeInv'
  <2> u \in Threads BY DEF Threads
  <2>1. CASE Get(u) BY <2>1 DEF Get
  <2>2. CASE Grant(u) BY <2>2 DEF Grant, Counted
  <2>3. CASE Count(u) BY <2>3 DEF Count
  <2>4. CASE Free(u)
    <3>1. <<>> \in Content BY DEF Content
    <3>2. QED BY <2>4, <3>1 DEF Free
  <2>5. CASE FreeCount(u) BY <2>5 DEF FreeCount
  <2>6. CASE Forget(u)
    <3>1. <<>> \in Content BY DEF Content
    <3>2. QED BY <2>6, <3>1 DEF Forget
  <2>7. QED BY <1>3, <2>1, <2>2, <2>3, <2>4, <2>5, <2>6 DEF UserStep
<1>4. ASSUME NEW r \in Rescanners, Rescan(r) PROVE TypeInv'
  BY <1>4 DEF Rescan, Threads
<1>5. CASE UNCHANGED vars BY <1>5 DEF vars
<1>6. QED BY <1>1, <1>2, <1>3, <1>4, <1>5 DEF Next

\* Who holds the lock is where a holder is; the lock has one holder.
LEMMA LockStep == TypeInv /\ LockInv /\ [Next]_vars => LockInv'
<1> SUFFICES ASSUME TypeInv, LockInv, [Next]_vars PROVE LockInv' OBVIOUS
<1> USE DEF TypeInv, LockInv, Goto, Buffer, Scan, Places, Nobody
<1>1. CASE Edit BY <1>1 DEF Edit
<1>2. ASSUME NEW t \in Threads, Step(t) PROVE LockInv'
  <2>1. CASE LockValid(t) BY <2>1, ThreadsOK DEF LockValid, Users
  <2>2. CASE Lock(t) BY <2>2 DEF Lock
  <2>3. CASE ReadFile(t)
    <3>1. at[t] = "scanning" /\ lock' = lock BY <2>3 DEF ReadFile
    <3>2. at' = at \/ Goto(t, "unlocking") BY <2>3 DEF ReadFile
    <3>3. at'[t] \in {"scanning", "unlocking"} /\ \A x \in Threads : x # t => at'[x] = at[x]
      BY <3>1, <3>2
    <3>4. \A x \in Threads : at'[x] \in {"scanning", "unlocking"} <=> at[x] \in {"scanning", "unlocking"}
      BY <3>1, <3>3
    <3>5. \A r \in Rescanners : at'[r] \in {"out", "locking", "scanning", "unlocking"}
      BY <3>3 DEF Threads
    <3>6. QED BY <3>1, <3>4, <3>5
  <2>4. CASE BadList(t) BY <2>4 DEF BadList
  <2>5. CASE SetValid(t) BY <2>5 DEF SetValid
  <2>6. CASE Unlock(t) BY <2>6, ThreadsOK DEF Unlock, After, Users
  <2>7. QED BY <1>2, <2>1, <2>2, <2>3, <2>4, <2>5, <2>6 DEF Step
<1>3. ASSUME NEW u \in Users, UserStep(u) PROVE LockInv'
  <2> u \in Threads BY DEF Threads
  <2> u \notin Rescanners BY ThreadsOK DEF Users
  <2>1. CASE Get(u) BY <2>1 DEF Get
  <2>2. CASE Grant(u)
    <3>1. at[u] = "granting" /\ lock' = lock BY <2>2 DEF Grant
    <3>2. PICK where \in {"counting", "out"} : Goto(u, where) BY <2>2 DEF Grant
    <3>3. at'[u] \in {"counting", "out"} /\ \A x \in Threads : x # u => at'[x] = at[x] BY <3>2
    <3>4. \A x \in Threads : at'[x] \in {"scanning", "unlocking"} <=> at[x] \in {"scanning", "unlocking"}
      BY <3>1, <3>3
    <3>5. \A r \in Rescanners : at'[r] = at[r] BY <3>3 DEF Threads
    <3>6. QED BY <3>1, <3>4, <3>5
  <2>3. CASE Count(u) BY <2>3 DEF Count
  <2>4. CASE Free(u) BY <2>4 DEF Free
  <2>5. CASE FreeCount(u) BY <2>5 DEF FreeCount
  <2>6. CASE Forget(u) BY <2>6 DEF Forget
  <2>7. QED BY <1>3, <2>1, <2>2, <2>3, <2>4, <2>5, <2>6 DEF UserStep
<1>4. ASSUME NEW r \in Rescanners, Rescan(r) PROVE LockInv'
  BY <1>4 DEF Rescan, Threads
<1>5. CASE UNCHANGED vars BY <1>5 DEF vars
<1>6. QED BY <1>1, <1>2, <1>3, <1>4, <1>5 DEF Next

\* What was appended to is not empty.
LEMMA AppendNotEmpty ==
  ASSUME NEW T, NEW s \in Seq(T), NEW e \in T PROVE Append(s, e) # <<>>
<1>1. Len(Append(s, e)) = Len(s) + 1 /\ Len(s) \in Nat OBVIOUS
<1>2. Len(<<>>) = 0 OBVIOUS
<1>3. QED BY <1>1, <1>2

\* A valid buffer that nobody fills is not empty.
LEMMA ContentStep == TypeInv /\ LockInv /\ ContentInv /\ [Next]_vars => ContentInv'
<1> SUFFICES ASSUME TypeInv, LockInv, ContentInv, [Next]_vars PROVE ContentInv' OBVIOUS
<1> USE DEF TypeInv, LockInv, ContentInv, Goto, Buffer, Scan, Nobody
<1>1. CASE Edit BY <1>1 DEF Edit
<1>2. ASSUME NEW t \in Threads, Step(t) PROVE ContentInv'
  <2>1. CASE LockValid(t) BY <2>1 DEF LockValid
  <2>2. CASE Lock(t) BY <2>2 DEF Lock
  <2>3. CASE ReadFile(t)
    <3> DEFINE f == pos + 1
    <3>1. f \in Files BY <2>3, SizesOK DEF ReadFile, Files
    <3>2. f \in Nat /\ disk[f] \in Nat BY <3>1 DEF Files
    <3>3. <<f, disk[f]>> \in Nat \X Nat BY <3>2
    <3>4. Append(buf, <<f, disk[f]>>) # <<>> BY <3>3, AppendNotEmpty DEF Content
    <3>5. lock = {t} /\ lock' = lock BY <2>3 DEF ReadFile
    <3>6. lock' # Nobody BY <3>5
    <3>7. len' # 0 => buf' # <<>>
      BY <2>3, <3>4 DEF ReadFile
    <3>8. QED BY <3>6, <3>7
  <2>4. CASE BadList(t) BY <2>4 DEF BadList
  <2>5. CASE SetValid(t) BY <2>5 DEF SetValid
  <2>6. CASE Unlock(t) BY <2>6 DEF Unlock
  <2>7. QED BY <1>2, <2>1, <2>2, <2>3, <2>4, <2>5, <2>6 DEF Step
<1>3. ASSUME NEW u \in Users, UserStep(u) PROVE ContentInv'
  BY <1>3 DEF UserStep, Get, Grant, Count, Free, FreeCount, Forget
<1>4. ASSUME NEW r \in Rescanners, Rescan(r) PROVE ContentInv'
  BY <1>4 DEF Rescan
<1>5. CASE UNCHANGED vars BY <1>5 DEF vars
<1>6. QED BY <1>1, <1>2, <1>3, <1>4, <1>5 DEF Next

\* Every way in and out of the use of the buffer keeps the count exact: only Count,
\* FreeCount and Forget move anybody in or out of Holders.
LEMMA CountStep == TypeInv /\ CountExact /\ [Next]_vars => CountExact'
<1> SUFFICES ASSUME TypeInv, CountExact, [Next]_vars PROVE CountExact' OBVIOUS
<1> USE DEF TypeInv, Goto, Buffer, Scan
<1> count = lost + Cardinality(Holders) BY DEF CountExact, Holders
<1> SUFFICES count' = lost' + Cardinality(Holders') BY DEF CountExact, Holders
<1> Holders \in SUBSET Users BY DEF Holders
<1> Cardinality(Holders) \in Nat BY HoldersFinite
<1>1. CASE Edit
  <2>1. Holders' = Holders BY <1>1 DEF Edit, Holders
  <2>2. QED BY <1>1, <2>1 DEF Edit
<1>2. ASSUME NEW t \in Threads, Step(t) PROVE count' = lost' + Cardinality(Holders')
  <2>1. count' = count /\ lost' = lost
    BY <1>2 DEF Step, LockValid, Lock, ReadFile, BadList, SetValid, Unlock
  <2>2. at[t] \notin {"using", "freeing"} /\ at'[t] \notin {"using", "freeing"}
        /\ \A x \in Threads : x # t => at'[x] = at[x]
    BY <1>2 DEF Step, LockValid, Lock, ReadFile, BadList, SetValid, Unlock, After
  <2>3. Holders' = Holders BY <2>2 DEF Holders, Threads
  <2>4. QED BY <2>1, <2>3
<1>3. ASSUME NEW u \in Users, UserStep(u) PROVE count' = lost' + Cardinality(Holders')
  <2> u \in Threads BY DEF Threads
  <2>1. CASE Get(u) \/ Grant(u)
    <3>1. count' = count /\ lost' = lost BY <2>1 DEF Get, Grant, Counted
    <3>2. at[u] \notin {"using", "freeing"} /\ at'[u] \notin {"using", "freeing"}
          /\ \A x \in Threads : x # u => at'[x] = at[x]
      BY <2>1 DEF Get, Grant
    <3>3. Holders' = Holders BY <3>2 DEF Holders, Threads
    <3>4. QED BY <3>1, <3>3
  <2>2. CASE Count(u)
    <3>1. u \notin Holders BY <2>2 DEF Count, Holders
    <3>2. Holders' = Holders \cup {u} BY <2>2 DEF Count, Holders, Threads
    <3>3. Cardinality(Holders') = Cardinality(Holders) + 1 BY <3>1, <3>2, HoldersStep
    <3>4. QED BY <2>2, <3>3 DEF Count
  <2>3. CASE Free(u)
    <3>1. u \in Holders BY <2>3 DEF Free, Holders
    <3>2. Cardinality(Holders) > 0 BY <3>1, HoldersStep
    <3>3. lost \in Nat OBVIOUS
    <3>4. count > 0 BY <3>2, <3>3
    <3>5. Holders' = Holders BY <2>3, <3>4 DEF Free, Holders, Threads
    <3>6. QED BY <2>3, <3>5 DEF Free
  <2>4. CASE FreeCount(u)
    <3>1. u \in Holders BY <2>4 DEF FreeCount, Holders
    <3>2. Holders' = Holders \ {u} BY <2>4 DEF FreeCount, Holders, Threads
    <3>3. Cardinality(Holders') = Cardinality(Holders) - 1 BY <3>1, <3>2, HoldersStep
    <3>4. QED BY <2>4, <3>3 DEF FreeCount
  <2>5. CASE Forget(u)
    <3>1. u \in Holders BY <2>5 DEF Forget, Holders
    <3>2. Holders' = Holders \ {u} BY <2>5 DEF Forget, Holders, Threads
    <3>3. Cardinality(Holders') = Cardinality(Holders) - 1 BY <3>1, <3>2, HoldersStep
    <3>4. QED BY <2>5, <3>3 DEF Forget
  <2>6. QED BY <1>3, <2>1, <2>2, <2>3, <2>4, <2>5 DEF UserStep
<1>4. ASSUME NEW r \in Rescanners, Rescan(r) PROVE count' = lost' + Cardinality(Holders')
  <2>1. Holders' = Holders BY <1>4, ThreadsOK DEF Rescan, Holders, Threads, Users
  <2>2. QED BY <1>4, <2>1 DEF Rescan
<1>5. CASE UNCHANGED vars
  <2>1. Holders' = Holders BY <1>5 DEF vars, Holders
  <2>2. QED BY <1>5, <2>1 DEF vars
<1>6. QED BY <1>1, <1>2, <1>3, <1>4, <1>5 DEF Next

\* A licence in use is counted, so that no rescan gets past InUse.
LEMMA UseCounts ==
  ASSUME TypeInv, CountExact, NEW u \in Users, at[u] = "using" PROVE InUse
<1>1. u \in Holders /\ Holders \in SUBSET Users BY DEF Holders
<1>2. Cardinality(Holders) > 0 BY <1>1, HoldersStep
<1>3. Cardinality(Holders) \in Nat BY <1>1, HoldersFinite
<1>4. lost \in Nat /\ count = lost + Cardinality(Holders) BY DEF TypeInv, CountExact, Holders
<1>5. count > 0 BY <1>2, <1>3, <1>4
<1>6. QED BY <1>4, <1>5 DEF InUse

\* While somebody has the buffer no scan starts, because the count keeps rescans away
\* and validity keeps users from filling; and what was given is what is there.
LEMMA QuietStep == Inv /\ [Next]_vars => QuietInv' /\ InUseKept'
<1> SUFFICES ASSUME Inv, [Next]_vars PROVE QuietInv' /\ InUseKept' OBVIOUS
<1> DEFINE Have(u) == at[u] \in {"counting", "using"}
<1> USE DEF Goto, Buffer, Scan
<1>0. TypeInv /\ LockInv /\ ContentInv /\ QuietInv /\ InUseKept /\ CountExact BY DEF Inv
<1>1. CASE Edit BY <1>0, <1>1 DEF Edit, QuietInv, InUseKept
<1>2. ASSUME NEW t \in Threads, Step(t) PROVE QuietInv' /\ InUseKept'
  \* A thread that takes a step has no licence yet, nor has it one after it; if somebody
  \* has one, that thread found the buffer valid.
  <2>1. /\ raced' = raced /\ got' = got
        /\ at[t] \in {"locking", "scanning", "unlocking"}
        /\ at'[t] \in {"scanning", "unlocking", "granting", "out"}
        /\ \A x \in Threads : x # t => at'[x] = at[x]
    BY <1>0, <1>2
    DEF Step, LockValid, Lock, ReadFile, BadList, SetValid, Unlock, After, TypeInv
  <2>2. \A u \in Users : at'[u] \in {"counting", "using"} => at[u] = at'[u]
    BY <2>1 DEF Threads
  <2> SUFFICES ASSUME ~raced, NEW u \in Users, at'[u] \in {"counting", "using"}
               PROVE /\ lock' = Nobody /\ valid' /\ \A r \in Rescanners : at'[r] = "out"
                     /\ \A x \in Users : at'[x] \in {"counting", "using"} => got'[x] = buf' /\ buf' # <<>>
    BY <2>1 DEF QuietInv, InUseKept
  <2>3. at[u] \in {"counting", "using"} BY <2>2
  <2>4. lock = Nobody /\ valid /\ \A r \in Rescanners : at[r] = "out"
    BY <1>0, <2>3 DEF QuietInv
  <2>5. at[t] = "locking"
    <3>1. lock # {t} BY <2>4 DEF Nobody
    <3>2. QED BY <1>0, <2>1, <3>1 DEF LockInv
  <2>6. t \notin Rescanners BY <2>4, <2>5
  <2>7. LockValid(t)
    BY <1>2, <2>4, <2>5, <2>6
    DEF Step, Lock, ReadFile, BadList, SetValid, Unlock
  <2>8. len # 0 BY <1>0, <2>4 DEF ContentInv
  <2>9. lock' = Nobody /\ valid' /\ buf' = buf BY <2>4, <2>7, <2>8 DEF LockValid
  <2>10. \A r \in Rescanners : at'[r] = "out" BY <2>1, <2>4, <2>6 DEF Threads
  <2>11. \A x \in Users : at'[x] \in {"counting", "using"} => got'[x] = buf' /\ buf' # <<>>
    BY <1>0, <2>1, <2>2, <2>9 DEF InUseKept
  <2>12. QED BY <2>9, <2>10, <2>11
<1>3. ASSUME NEW u \in Users, UserStep(u) PROVE QuietInv' /\ InUseKept'
  <2> u \in Threads BY DEF Threads
  <2> u \notin Rescanners BY ThreadsOK DEF Users
  <2>1. CASE Get(u) \/ Count(u) \/ Free(u) \/ FreeCount(u) \/ Forget(u)
    <3>1. /\ UNCHANGED <<Buffer, Scan, raced>>
          /\ at'[u] \in {"counting", "using"} => at[u] = "counting" /\ got'[u] = got[u]
          /\ \A x \in Threads : x # u => at'[x] = at[x]
          /\ \A x \in Users : x # u => got'[x] = got[x]
      BY <1>0, <2>1 DEF Get, Count, Free, FreeCount, Forget, TypeInv
    <3>2. \A x \in Users : at'[x] \in {"counting", "using"} =>
             at[x] \in {"counting", "using"} /\ got'[x] = got[x]
      BY <3>1 DEF Threads
    <3>3. \A r \in Rescanners : at'[r] = at[r] BY <3>1 DEF Threads
    <3>4. QuietInv' BY <1>0, <3>1, <3>2, <3>3 DEF QuietInv
    <3>5. InUseKept' BY <1>0, <3>1, <3>2 DEF InUseKept
    <3>6. QED BY <3>4, <3>5
  <2>2. CASE Grant(u)
    <3>1. UNCHANGED <<Buffer, Scan>> /\ \A x \in Threads : x # u => at'[x] = at[x]
      BY <1>0, <2>2 DEF Grant, TypeInv
    <3>2. at[u] = "granting" BY <2>2 DEF Grant
    <3>3. \A r \in Rescanners : at'[r] = at[r] BY <3>1 DEF Threads
    <3>4. CASE at'[u] = "counting"
      <4>1. valid /\ raced' = (raced \/ Scanning) /\ got' = [got EXCEPT ![u] = buf]
        BY <1>0, <2>2, <3>4 DEF Grant, TypeInv
      <4> SUFFICES ASSUME ~raced' PROVE QuietInv' /\ InUseKept' BY DEF QuietInv, InUseKept
      <4>2. ~raced /\ ~Scanning BY <4>1
      <4>3. lock = Nobody /\ \A r \in Rescanners : at[r] = "out" BY <4>2 DEF Scanning
      <4>4. buf # <<>> BY <1>0, <4>1, <4>3 DEF ContentInv
      <4>5. \A x \in Users : at'[x] \in {"counting", "using"} => got'[x] = buf'
        BY <1>0, <3>1, <4>1, <4>2 DEF InUseKept, TypeInv, Threads
      <4>6. QED BY <3>1, <3>3, <4>1, <4>3, <4>4, <4>5 DEF QuietInv, InUseKept
    <3>5. CASE at'[u] # "counting"
      <4>1. at'[u] = "out" /\ raced' = raced /\ got' = got
        BY <1>0, <2>2, <3>5 DEF Grant, TypeInv
      <4>2. \A x \in Users : at'[x] \in {"counting", "using"} => at[x] \in {"counting", "using"}
        BY <3>1, <4>1 DEF Threads
      <4>3. QED BY <1>0, <3>1, <3>3, <4>1, <4>2 DEF QuietInv, InUseKept
    <3>6. QED BY <3>4, <3>5
  <2>3. QED BY <1>3, <2>1, <2>2 DEF UserStep
<1>4. ASSUME NEW r \in Rescanners, Rescan(r) PROVE QuietInv' /\ InUseKept'
  <2>1. UNCHANGED <<Buffer, got>> /\ raced' = (raced \/ \E u \in Users : at[u] = "counting")
    BY <1>4 DEF Rescan
  <2>2. r \notin Users /\ \A x \in Users : at'[x] = at[x]
    BY <1>0, <1>4, ThreadsOK DEF Rescan, TypeInv, Threads, Users
  <2>3. ~InUse BY <1>4 DEF Rescan, MayRescan
  <2>4. \A u \in Users : at[u] # "using" BY <1>0, <2>3, UseCounts
  <2>5. ~raced' => ~raced /\ \A u \in Users : at'[u] \notin {"counting", "using"}
    BY <2>1, <2>2, <2>4
  <2>6. QED BY <2>5 DEF QuietInv, InUseKept
<1>5. CASE UNCHANGED vars BY <1>0, <1>5 DEF vars, QuietInv, InUseKept
<1>6. QED BY <1>1, <1>2, <1>3, <1>4, <1>5 DEF Next

-----------------------------------------------------------------------------
(* What a valid buffer holds.                                              *)

\* A set of numbers with zero, and with the next of each, has them all.
LEMMA NumberSet ==
  ASSUME NEW S \in SUBSET Nat, 0 \in S, \A n \in S : n + 1 \in S PROVE Nat \subseteq S
<1> DEFINE Less == OpToRel(<, Nat)
<1> SUFFICES ASSUME Nat \ S # {} PROVE FALSE OBVIOUS
<1>1. IsWellFoundedOn(Less, Nat) BY NatLessThanWellFounded
<1>2. \A x, y \in Nat : y < x => <<y, x>> \in Less BY DEF OpToRel
<1> HIDE DEF Less
<1>3. PICK m \in Nat \ S : \A y \in Nat \ S : ~(<<y, m>> \in Less) BY <1>1, WFMin
<1>4. m # 0 /\ m - 1 \in Nat BY <1>3
<1>5. m - 1 \in S
  <2>1. m - 1 < m BY <1>3
  <2>2. <<m - 1, m>> \in Less BY <1>2, <1>3, <1>4, <2>1
  <2>3. QED BY <1>3, <1>4, <2>2
<1>6. (m - 1) + 1 = m BY <1>3
<1>7. QED BY <1>3, <1>5, <1>6

\* f gives the total of each part of s with at most n files.
Sums(f, s, n) ==
  /\ f \in [0 .. n -> Nat] /\ f[0] = 0
  /\ \A i \in 1 .. n : f[i] = f[i - 1] + s[i][2]

\* Such an f exists, by induction on the number of files.
LEMMA SumsExist == ASSUME NEW s \in Content PROVE \E f : Sums(f, s, Len(s))
<1> DEFINE S == {n \in Nat : n <= Len(s) => \E f : Sums(f, s, n)}
<1>1. 0 \in S
  <2>1. Sums([i \in 0 .. 0 |-> 0], s, 0) BY DEF Sums
  <2>2. QED BY <2>1
<1>2. ASSUME NEW n \in S PROVE n + 1 \in S
  <2> SUFFICES ASSUME n + 1 <= Len(s) PROVE \E f : Sums(f, s, n + 1) OBVIOUS
  <2>1. Len(s) \in Nat /\ n \in Nat BY DEF Content
  <2>2. PICK f : Sums(f, s, n) BY <2>1
  <2>3. s[n + 1][2] \in Nat BY <2>1 DEF Content
  <2> DEFINE g == [i \in 0 .. n + 1 |-> IF i <= n THEN f[i] ELSE f[n] + s[n + 1][2]]
  <2>4. g \in [0 .. n + 1 -> Nat] BY <2>1, <2>2, <2>3 DEF Sums
  <2>5. g[0] = 0 BY <2>1, <2>2 DEF Sums
  <2>6. \A i \in 1 .. n + 1 : g[i] = g[i - 1] + s[i][2]
    <3> TAKE i \in 1 .. n + 1
    <3>1. CASE i <= n BY <2>1, <2>2, <3>1 DEF Sums
    <3>2. CASE i = n + 1 BY <2>1, <2>2, <3>2 DEF Sums
    <3>3. QED BY <2>1, <3>1, <3>2
  <2> HIDE DEF g
  <2>7. Sums(g, s, n + 1) BY <2>4, <2>5, <2>6 DEF Sums
  <2>8. QED BY <2>7
<1> HIDE DEF S
<1>3. Nat \subseteq S BY <1>1, <1>2, NumberSet DEF S
<1>4. Len(s) \in S BY <1>3 DEF Content
<1>5. QED BY <1>4 DEF S, Content

\* The total is what f gives for all of s: two solutions of the equation of Total agree.
LEMMA TotalSums == ASSUME NEW s \in Content, NEW f, Sums(f, s, Len(s)) PROVE Total(s) = f[Len(s)]
<1> DEFINE Eq(g) == g = [i \in 0 .. Len(s) |-> IF i = 0 THEN 0 ELSE g[i - 1] + s[i][2]]
<1>0. Len(s) \in Nat BY DEF Content
<1>1. Eq(f)
  <2>1. f = [i \in 0 .. Len(s) |-> f[i]] BY DEF Sums
  <2>2. \A i \in 0 .. Len(s) : f[i] = IF i = 0 THEN 0 ELSE f[i - 1] + s[i][2] BY <1>0 DEF Sums
  <2>3. QED BY <2>1, <2>2
<1>2. ASSUME NEW g, Eq(g) PROVE g[Len(s)] = f[Len(s)]
  <2> DEFINE S == {n \in Nat : n <= Len(s) => g[n] = f[n]}
  <2>0. \A n \in 0 .. Len(s) : g[n] = IF n = 0 THEN 0 ELSE g[n - 1] + s[n][2] BY <1>2, <1>0, Zenon
  <2>1. 0 \in S BY <2>0, <1>0 DEF Sums
  <2>2. ASSUME NEW n \in S PROVE n + 1 \in S
    <3> SUFFICES ASSUME n + 1 <= Len(s) PROVE g[n + 1] = f[n + 1] OBVIOUS
    <3>1. n \in Nat /\ n + 1 \in 1 .. Len(s) /\ (n + 1) - 1 = n BY <1>0
    <3>2. g[n + 1] = g[n] + s[n + 1][2] BY <2>0, <3>1
    <3>3. f[n + 1] = f[n] + s[n + 1][2] BY <3>1 DEF Sums
    <3>4. QED BY <1>0, <3>1, <3>2, <3>3
  <2> HIDE DEF S
  <2>3. Nat \subseteq S BY <2>1, <2>2, NumberSet DEF S
  <2>4. QED BY <1>0, <2>3 DEF S
<1> DEFINE h == CHOOSE g : Eq(g)
<1>3. Eq(h) BY <1>1
<1>4. Total(s) = h[Len(s)] BY DEF Total
<1>5. QED BY <1>2, <1>3, <1>4

\* The total of nothing, and of one file more.
LEMMA TotalStep ==
  /\ Total(<<>>) = 0
  /\ \A s \in Content, e \in Nat \X Nat : Total(Append(s, e)) = Total(s) + e[2]
<1>1. Total(<<>>) = 0
  <2>1. <<>> \in Content /\ Len(<<>>) = 0 BY DEF Content
  <2>2. PICK f : Sums(f, <<>>, Len(<<>>)) BY <2>1, SumsExist
  <2>3. QED BY <2>1, <2>2, TotalSums DEF Sums
<1>2. ASSUME NEW s \in Content, NEW e \in Nat \X Nat PROVE Total(Append(s, e)) = Total(s) + e[2]
  <2> DEFINE r == Append(s, e)
  <2>1. /\ r \in Content /\ Len(r) = Len(s) + 1 /\ Len(s) \in Nat
        /\ \A i \in 1 .. Len(s) : r[i] = s[i]
        /\ r[Len(s) + 1] = e
    BY AppendProperties DEF Content
  <2> HIDE DEF r
  <2>2. PICK f : Sums(f, r, Len(r)) BY <2>1, SumsExist
  <2> DEFINE g == [i \in 0 .. Len(s) |-> f[i]]
  <2>3. Sums(g, s, Len(s)) BY <2>1, <2>2 DEF Sums
  <2>4. Total(s) = g[Len(s)] BY <2>3, TotalSums
  <2>5. Total(r) = f[Len(s) + 1] BY <2>1, <2>2, TotalSums
  <2>6. f[Len(s) + 1] = f[Len(s)] + e[2] BY <2>1, <2>2 DEF Sums
  <2>7. QED BY <2>1, <2>4, <2>5, <2>6 DEF r
<1>3. QED BY <1>1, <1>2

\* The last file in the buffer is the last of the first n that were looked for.
EndsAt(n) == buf # <<>> => buf[Len(buf)][1] = n

\* The length is that of the files; while a scan goes well, and after it, so is the
\* number of names, and the last file is the last one gone through.
WholeInv ==
  /\ len = Total(buf)
  /\ \A t \in Threads :
       /\ at[t] = "scanning" => names = Len(buf) /\ (pos = 0 => buf = <<>>) /\ (ret => EndsAt(pos))
       /\ at[t] = "unlocking" /\ ret => names = Len(buf) /\ EndsAt(FileCount)
  /\ lock = Nobody /\ valid => names = Len(buf) /\ EndsAt(FileCount)

LEMMA WholeStep == TypeInv /\ LockInv /\ ContentInv /\ WholeInv /\ [Next]_vars => WholeInv'
<1> SUFFICES ASSUME TypeInv, LockInv, ContentInv, WholeInv, [Next]_vars PROVE WholeInv' OBVIOUS
<1> USE DEF TypeInv, WholeInv, Goto, Buffer, Scan, Nobody, EndsAt
<1>a. ASSUME UNCHANGED <<buf, len, names>>, UNCHANGED Scan, valid' => valid,
             NEW t \in Threads, \A x \in Threads : x # t => at'[x] = at[x],
             at'[t] \notin {"scanning", "unlocking"}
      PROVE  WholeInv'
  BY <1>a
<1>1. CASE Edit BY <1>1 DEF Edit
<1>2. ASSUME NEW t \in Threads, Step(t) PROVE WholeInv'
  \* No other thread is in the lock.
  <2>0. at[t] \in {"scanning", "unlocking"} =>
          \A x \in Threads : x # t => at[x] \notin {"scanning", "unlocking"}
    BY DEF LockInv
  <2>1. CASE LockValid(t)
    <3>1. /\ valid' => valid
          /\ at'[t] \notin {"scanning", "unlocking"}
          /\ \A x \in Threads : x # t => at'[x] = at[x]
      BY <2>1 DEF LockValid
    <3>2. QED BY <2>1, <3>1, <1>a DEF LockValid
  <2>2. CASE Lock(t)
    <3>1. \A x \in Threads : at[x] \notin {"scanning", "unlocking"} BY <2>2 DEF Lock, LockInv
    <3>2. \A x \in Threads : x # t => at'[x] = at[x] BY <2>2 DEF Lock
    <3>3. at'[t] = "scanning" /\ lock' # Nobody BY <2>2 DEF Lock
    <3>4. names' = 0 /\ buf' = <<>> /\ len' = 0 BY <2>2 DEF Lock
    <3>5. Len(<<>>) = 0 OBVIOUS
    <3>6. QED BY <3>1, <3>2, <3>3, <3>4, <3>5, TotalStep
  <2>3. CASE ReadFile(t)
    <3> DEFINE f == pos + 1
    <3>1. f \in Files BY <2>3, SizesOK DEF ReadFile, Files
    <3>2. f \in Nat /\ disk[f] \in Nat /\ f # 0 BY <3>1 DEF Files
    <3>3. lock' # Nobody /\ at[t] = "scanning" BY <2>3 DEF ReadFile, LockInv
    <3>4. CASE disk[f] = 0
      <4>1. UNCHANGED <<buf, len, names, at>> /\ ~ret' /\ pos' = f
        BY <2>3, <3>4 DEF ReadFile, ResultOf
      <4>2. QED BY <2>0, <3>2, <3>3, <4>1
    <3>5. CASE disk[f] # 0 /\ len + disk[f] <= Room
      <4>1. /\ buf' = Append(buf, <<f, disk[f]>>) /\ len' = len + disk[f]
            /\ names' = names + 1 /\ pos' = f /\ at' = at
        <5>1. Room \in Nat /\ len + disk[f] \in Nat BY <3>2, SizesOK
        <5>2. ~(disk[f] # 0 /\ len + disk[f] > Room) BY <3>5, <5>1
        <5>3. QED BY <2>3, <3>5, <5>2 DEF ReadFile
      <4>2. <<f, disk[f]>> \in Nat \X Nat BY <3>2
      <4>3. /\ Len(buf') = Len(buf) + 1 /\ Len(buf) \in Nat
            /\ buf'[Len(buf) + 1] = <<f, disk[f]>>
        BY <4>1, <4>2, AppendProperties DEF Content
      <4>4. len' = Total(buf')
        <5>1. Total(buf') = Total(buf) + <<f, disk[f]>>[2] BY <4>1, <4>2, TotalStep
        <5>2. <<f, disk[f]>>[2] = disk[f] OBVIOUS
        <5>3. len = Total(buf) OBVIOUS
        <5>4. QED BY Zenon, <4>1, <5>1, <5>2, <5>3
      <4>5. EndsAt(pos)' BY <4>1, <4>3
      <4>6. names' = Len(buf') BY <3>3, <4>1, <4>3
      <4>7. QED BY <2>0, <3>2, <3>3, <4>1, <4>4, <4>5, <4>6
    <3>6. CASE disk[f] # 0 /\ ~(len + disk[f] <= Room)
      <4>1. UNCHANGED <<buf, len>> /\ ~ret' /\ Goto(t, "unlocking")
        BY <2>3, <3>2, <3>6, SizesOK DEF ReadFile
      <4>2. at'[t] = "unlocking" /\ \A x \in Threads : x # t => at'[x] = at[x] BY <4>1
      <4>3. QED BY <2>0, <3>3, <4>1, <4>2
    <3>7. QED BY <3>4, <3>5, <3>6
  <2>4. CASE BadList(t)
    <3>1. /\ UNCHANGED Buffer /\ ~ret' /\ lock' = lock
          /\ at[t] = "scanning" /\ at'[t] = "unlocking"
          /\ \A x \in Threads : x # t => at'[x] = at[x]
      BY <2>4 DEF BadList
    <3>2. lock' # Nobody BY <3>1 DEF LockInv
    <3>3. QED BY <2>0, <3>1, <3>2
  <2>5. CASE SetValid(t)
    <3>1. /\ UNCHANGED <<buf, len, names, Scan>> /\ pos = FileCount
          /\ at[t] = "scanning" /\ at'[t] = "unlocking"
          /\ \A x \in Threads : x # t => at'[x] = at[x]
      BY <2>5 DEF SetValid
    <3>2. lock' # Nobody BY <3>1 DEF LockInv
    <3>3. QED BY <2>0, <3>1, <3>2
  <2>6. CASE Unlock(t)
    <3>1. /\ UNCHANGED <<buf, len, names, pos, ret>> /\ valid' = (valid /\ ret /\ len # 0)
          /\ at[t] = "unlocking" /\ at'[t] \notin {"scanning", "unlocking"}
          /\ \A x \in Threads : x # t => at'[x] = at[x]
      BY <2>6 DEF Unlock, After
    <3>2. QED BY <2>0, <3>1
  <2>7. QED BY <1>2, <2>1, <2>2, <2>3, <2>4, <2>5, <2>6 DEF Step
<1>3. ASSUME NEW u \in Users, UserStep(u) PROVE WholeInv'
  <2>1. /\ UNCHANGED <<Buffer, Scan>> /\ u \in Threads
        /\ \A x \in Threads : x # u => at'[x] = at[x]
        /\ at'[u] \notin {"scanning", "unlocking"}
    BY <1>3 DEF UserStep, Get, Grant, Count, Free, FreeCount, Forget, Threads
  <2>2. QED BY <1>a, <2>1
<1>4. ASSUME NEW r \in Rescanners, Rescan(r) PROVE WholeInv'
  <2>1. /\ UNCHANGED <<Buffer, Scan>> /\ r \in Threads
        /\ \A x \in Threads : x # r => at'[x] = at[x]
        /\ at'[r] \notin {"scanning", "unlocking"}
    BY <1>4 DEF Rescan, Threads
  <2>2. QED BY <1>a, <2>1
<1>5. CASE UNCHANGED vars BY <1>5 DEF vars
<1>6. QED BY <1>1, <1>2, <1>3, <1>4, <1>5 DEF Next

-----------------------------------------------------------------------------
\* The invariant holds in every reachable state.
THEOREM InvHolds == Spec => []Inv
<1>1. Init => Inv BY InitInv
<1>2. Inv /\ [Next]_vars => Inv'
  <2> SUFFICES ASSUME Inv, [Next]_vars PROVE Inv' OBVIOUS
  <2>1. TypeInv' BY TypeStep DEF Inv
  <2>2. CountExact' BY CountStep DEF Inv
  <2>3. LockInv' BY LockStep DEF Inv
  <2>4. ContentInv' BY ContentStep DEF Inv
  <2>5. QuietInv' /\ InUseKept' BY QuietStep
  <2>6. QED BY <2>1, <2>2, <2>3, <2>4, <2>5 DEF Inv
<1>3. QED BY <1>1, <1>2, PTL DEF Spec

\* buf_use_count always says how many buffers were given out and not given back, those
\* of failed loads included: lm_get_license and lm_free_license keep it so on every path.
THEOREM CountCorrect == Spec => []CountExact
<1>1. Inv => CountExact BY DEF Inv
<1>2. QED BY <1>1, InvHolds, PTL

\* Unless a licence is given out while a scan is under way, what lm_get_license gave is
\* not filled again by lm_get_license_in_tlv before lm_free_license.
THEOREM InUseCorrect == Spec => []InUseKept
<1>1. Inv => InUseKept BY DEF Inv
<1>2. QED BY <1>1, InvHolds, PTL

\* While nobody fills it, a buffer said to be valid is what lm_get_license_in_tlv makes
\* of the list when nothing goes wrong at its end: the last file is in it, license_buf_len
\* is the sum of the sizes, and num_of_file counts them.
THEOREM WholeCorrect == Spec => []ValidMeansWhole
<1>1. Init => WholeInv
  <2> SUFFICES ASSUME Init PROVE WholeInv OBVIOUS
  <2>1. \A t \in Threads : at[t] = "out" BY DEF Init
  <2>2. len = Total(buf) /\ ~valid BY TotalStep DEF Init
  <2>3. QED BY <2>1, <2>2 DEF WholeInv
<1>2. Inv /\ WholeInv /\ [Next]_vars => WholeInv' BY WholeStep DEF Inv
<1>3. Inv /\ WholeInv => ValidMeansWhole
  BY DEF Inv, ContentInv, WholeInv, EndsAt, ValidMeansWhole
<1>4. QED BY <1>1, <1>2, <1>3, InvHolds, PTL DEF Spec
=============================================================================
