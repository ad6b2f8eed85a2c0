-------------------------- MODULE MpdRemoteprocProofs --------------------------
(***************************************************************************)
(* Proofs about MpdRemoteproc, for any number of user domains, clients,    *)
(* restart threads, crashes and faults, in any order: the variables keep   *)
(* their types, no power count falls below zero, each mutex has the one    *)
(* holder that the position of its jobs says, and until the root crashes   *)
(* it executes exactly while it is counted as used.  While crashes of the  *)
(* root keep apart from calls, from each other and from other failures     *)
(* (~Overlap), the root's count is the number of users that hold it,       *)
(* however often the root recovers, and a user that is RUNNING executes,   *)
(* unless its own stop has failed.                                         *)
(***************************************************************************)
EXTENDS MpdRemoteproc, FiniteSetTheorems, TLAPS

-----------------------------------------------------------------------------
(* The jobs.                                                               *)

\* Who the jobs are, and that no two of them are the same.
LEMMA JobFacts ==
  /\ \A u \in Users : /\ Client(u) \in Jobs /\ Work(u) \in Jobs /\ Client(u) # Work(u)
                      /\ Work(u) # Work(Root) /\ Client(u) # Work(Root)
                      /\ \A v \in Users : /\ Client(u) = Client(v) => u = v
                                          /\ Work(u) = Work(v) => u = v
                                          /\ Client(u) # Work(v)
  /\ Work(Root) \in Jobs
  /\ \A t \in Threads : /\ Thread(t) \in Jobs /\ Thread(t) # Work(Root)
                        /\ \A u \in Users : Thread(t) # Client(u) /\ Thread(t) # Work(u)
                        /\ \A r \in Threads : Thread(t) = Thread(r) => t = r
  /\ \A j \in Jobs : \/ \E u \in Users : j = Client(u) \/ j = Work(u)
                     \/ j = Work(Root)
                     \/ \E t \in Threads : j = Thread(t)
  /\ None \notin Jobs
  BY ConstantsOK, NoneIsNoJob DEF Jobs, Client, Work, Thread, PDs

\* The domains, and the list of users.
LEMMA DomainFacts ==
  /\ Root \in PDs /\ Root \notin Users /\ Users \subseteq PDs
  /\ \A p \in PDs : p = Root \/ p \in Users
  /\ Len(Order) \in Nat /\ Len(Order) >= 1
  /\ \A i \in 1 .. Len(Order) : Order[i] \in Users
  BY ConstantsOK DEF PDs, Users

\* Which jobs loop over the users, where each returns to, and which are clients.
LEMMA KindFacts ==
  /\ \A u \in Users : /\ ~Looping(Client(u)) /\ After(Client(u)) = "idle"
                      /\ Client(u) \in Clients
                      /\ ~Looping(Work(u)) /\ After(Work(u)) = "idle"
                      /\ Work(u) \notin Clients
  /\ Looping(Work(Root)) /\ After(Work(Root)) = "sweep" /\ Work(Root) \notin Clients
  /\ \A t \in Threads : /\ Looping(Thread(t)) /\ After(Thread(t)) = "scan"
                        /\ Thread(t) \notin Clients
<1>1. \A u \in Users : ~Looping(Client(u)) /\ ~Looping(Work(u))
  BY ConstantsOK DEF Looping, Client, Work
<1>2. Looping(Work(Root)) /\ \A t \in Threads : Looping(Thread(t))
  BY DEF Looping, Work, Thread
<1>3. Work(Root)[1] # "thread" /\ \A t \in Threads : Thread(t)[1] = "thread"
  BY DEF Work, Thread
<1>4. /\ \A u \in Users : Client(u) \in Clients /\ Work(u) \notin Clients
      /\ Work(Root) \notin Clients
      /\ \A t \in Threads : Thread(t) \notin Clients
  BY JobFacts DEF Clients
<1>5. QED BY <1>1, <1>2, <1>3, <1>4 DEF After

-----------------------------------------------------------------------------
(* The invariant.                                                          *)

Starting == {"rootstart", "rootrun", "rootfail"}
Booting  == {"load", "rootget", "start", "run", "fail"} \cup Starting
Stopping == {"stop", "put", "stopped", "stopfail"}
ForUser  == Booting \cup Stopping

\* The jobs that work under the mutex of user u.
Of(u) == {Client(u), Work(u)}

\* The labels a job may be at, and those at which it works on a user in a loop.
May(j) ==
  IF j = Work(Root) THEN {"idle", "recover", "sweep"} \cup Starting \cup Stopping
  ELSE IF j \in Clients THEN {"idle"} \cup ForUser
  ELSE IF Looping(j) THEN {"idle", "spin", "scan"} \cup Booting
  ELSE {"idle", "recover"} \cup ForUser
Within(j) == IF j = Work(Root) THEN Stopping ELSE IF Looping(j) THEN Booting ELSE {}

\* Which functions each job may be in, on which user, and that a loop over the users is
\* not past their end while one is worked on.
LabelInv ==
  /\ \A j \in Jobs : at[j] \in May(j) /\ (at[j] \in Within(j) => ix[j] <= Len(Order))
  /\ \A u \in Users : \A j \in Of(u) : pd[j] = u

\* The labels at which a job holds the root's mutex.
RootLabels(j) == IF j = Work(Root) THEN {"sweep"} \cup Starting \cup Stopping ELSE Starting

\* A mutex is held by the job that is where the code has taken it, so by one at most: that
\* of a user by its client or its crash worker, that of the root by whoever starts the
\* root and by the root's own worker.
MutexInv ==
  /\ \A u \in Users : /\ lock[u] \in {None} \cup Of(u)
                      /\ \A j \in Of(u) : at[j] \in ForUser <=> lock[u] = j
  /\ \A j \in Jobs : at[j] \in RootLabels(j) <=> lock[Root] = j

\* Why no count falls below zero: who may lower one has raised it, and a root that is
\* RUNNING, CRASHED or being started is counted.
PowerInv ==
  /\ \A u \in Users : at[Client(u)] \in Booting => power[u] >= 1
  /\ st[Root] \in {"RUNNING", "CRASHED"} \/ lock[Root] # None => power[Root] >= 1
  /\ lock[Root] \notin {None, Work(Root)} => st[Root] \notin {"RUNNING", "CRASHED"}
  /\ st[Root] # "SUSPENDED"

\* Until the root crashes nothing recovers it, and its count, its state and its execution
\* agree whenever its mutex is free.
Uncrashed ==
  used.root = 0 =>
    /\ Root \notin queued /\ wcss[Root] # "RESTARTING"
    /\ \A j \in Jobs : Looping(j) => at[j] = "idle"
    /\ st[Root] \in {"OFFLINE", "RUNNING"}
    /\ IF lock[Root] = None
       THEN (power[Root] > 0 <=> Root \in up) /\ (st[Root] = "RUNNING" <=> Root \in up)
       ELSE power[Root] = 1 /\ (at[lock[Root]] = "rootrun" <=> Root \in up)

Inv == TypeOK /\ LabelInv /\ MutexInv /\ PowerInv /\ Uncrashed

\* The jobs of a user do not loop, are those of no other user, and work on that user.
LEMMA OfFacts ==
  ASSUME LabelInv, NEW j \in Jobs
  PROVE /\ ~Looping(j) => pd[j] \in Users /\ j \in Of(pd[j]) /\ j # Work(Root)
        /\ \A u \in Users : j \in Of(u) => u = pd[j] /\ ~Looping(j)
        /\ j \in Clients => ~Looping(j) /\ j = Client(pd[j])
        /\ \A u \in Users : Client(u) = j => j \in Clients /\ u = pd[j]
<1>1. CASE Looping(j)
  <2>1. \A u \in Users : j # Client(u) /\ j # Work(u) BY <1>1, KindFacts
  <2>2. j \notin Clients BY <2>1 DEF Clients
  <2>3. QED BY <1>1, <2>1, <2>2 DEF Of
<1>2. CASE ~Looping(j)
  <2>1. PICK u \in Users : j \in Of(u) BY <1>2, JobFacts, KindFacts DEF Of
  <2>2. pd[j] = u BY <2>1 DEF LabelInv
  <2>3. \A v \in Users : j \in Of(v) => v = u BY <2>2 DEF LabelInv
  <2>4. j # Work(Root) BY <1>2, KindFacts
  <2>5. \A v \in Users : Client(v) \in Of(v) BY DEF Of
  <2>6. j \in Clients => \E v \in Users : j = Client(v) BY DEF Clients
  <2>7. \A v \in Users : Client(v) \in Clients BY KindFacts
  <2>8. QED BY <1>2, <2>1, <2>2, <2>3, <2>4, <2>5, <2>6, <2>7
<1>3. QED BY <1>1, <1>2

LEMMA InitInv == Init => Inv
<1> SUFFICES ASSUME Init PROVE Inv OBVIOUS
<1> USE JobFacts, DomainFacts
<1>1. \A u \in Users : pd[Client(u)] = u /\ pd[Work(u)] = u
  BY ConstantsOK DEF Init, Client, Work
<1>2. pd \in [Jobs -> Users]
  <2>1. Order[1] \in Users OBVIOUS
  <2>2. \A j \in Jobs : (IF j[1] = "thread" \/ j[2] = Root THEN Order[1] ELSE j[2]) \in Users
    <3>1. \A u \in Users : Client(u)[2] = u /\ Work(u)[2] = u BY DEF Client, Work
    <3>2. Work(Root)[2] = Root /\ \A t \in Threads : Thread(t)[1] = "thread"
      BY DEF Work, Thread
    <3>3. QED BY <2>1, <3>1, <3>2
  <2>3. QED BY <2>2 DEF Init
<1>3. TypeOK BY <1>2, ConstantsOK DEF Init, TypeOK, Labels
<1>4. \A j \in Jobs : at[j] = "idle" BY DEF Init
<1>5. LabelInv
  <2>1. \A j \in Jobs : "idle" \in May(j) /\ "idle" \notin Within(j)
    BY DEF May, Within, ForUser, Booting, Starting, Stopping
  <2>2. QED BY <1>1, <1>4, <2>1 DEF LabelInv, Of
<1>6. MutexInv
  <2>1. \A j \in Jobs : "idle" \notin RootLabels(j) /\ "idle" \notin ForUser
    BY DEF RootLabels, ForUser, Booting, Starting, Stopping
  <2>2. \A p \in PDs : lock[p] = None BY DEF Init
  <2>3. \A u \in Users : Of(u) \subseteq Jobs BY DEF Of
  <2>4. QED BY <1>4, <2>1, <2>2, <2>3 DEF MutexInv
<1>7. PowerInv BY <1>4 DEF Init, PowerInv, Booting, Starting
<1>8. Uncrashed BY <1>4 DEF Init, Uncrashed
<1>9. QED BY <1>3, <1>5, <1>6, <1>7, <1>8 DEF Inv

-----------------------------------------------------------------------------
(* How a job moves.                                                        *)

\* Job j goes to label l and nothing else changes of its loop and its user.
Moves(j, l) == at' = [at EXCEPT ![j] = l] /\ UNCHANGED <<pd, ix>>

\* What the history of faults may be.
Uses == [root : 0..MaxRootCrash, user : 0..MaxUserCrash, fault : 0..MaxFaults,
         halted : SUBSET Users]

\* One more fault is counted as one.
LEMMA FaultCounted ==
  ASSUME TypeOK, used.fault < MaxFaults, NEW h \in SUBSET Users,
         used' = [used EXCEPT !.fault = @ + 1, !.halted = h]
  PROVE /\ used' \in Uses /\ used'.root = used.root /\ used'.user = used.user
        /\ used'.fault = used.fault + 1 /\ used'.halted = h /\ used.fault \in Nat
<1>1. MaxFaults \in Nat BY ConstantsOK
<1>2. used.fault \in 0 .. MaxFaults /\ used.fault + 1 \in 0 .. MaxFaults
  BY <1>1 DEF TypeOK
<1>3. used' = [root |-> used.root, user |-> used.user, fault |-> used.fault + 1, halted |-> h]
  BY DEF TypeOK
<1>4. used.root \in 0 .. MaxRootCrash /\ used.user \in 0 .. MaxUserCrash BY DEF TypeOK
<1>5. used' \in Uses BY <1>2, <1>3, <1>4 DEF Uses
<1>6. QED BY <1>2, <1>3, <1>5

LEMMA FaultOnly ==
  ASSUME TypeOK, used.fault < MaxFaults, used' = [used EXCEPT !.fault = @ + 1]
  PROVE /\ used' \in Uses /\ used'.root = used.root /\ used'.user = used.user
        /\ used'.fault = used.fault + 1 /\ used'.halted = used.halted /\ used.fault \in Nat
<1>1. used.halted \in SUBSET Users BY DEF TypeOK
<1>2. used' = [used EXCEPT !.fault = @ + 1, !.halted = used.halted] BY DEF TypeOK
<1>3. QED BY <1>1, <1>2, FaultCounted

\* Going to a label it may be at keeps the labels.
LEMMA MoveLoop ==
  ASSUME TypeOK, LabelInv, NEW j \in Jobs, NEW l \in May(j), at' = [at EXCEPT ![j] = l],
         \A k \in Jobs : k # j => pd'[k] = pd[k] /\ ix'[k] = ix[k],
         ~Looping(j) => pd'[j] = pd[j], l \in Within(j) => ix'[j] <= Len(Order)
  PROVE LabelInv'
<1>1. \A k \in Jobs : at'[k] = IF k = j THEN l ELSE at[k] BY DEF TypeOK
<1>2. \A u \in Users : \A k \in Of(u) : k \in Jobs /\ ~Looping(k)
  BY JobFacts, KindFacts DEF Of
<1>3. \A u \in Users : \A k \in Of(u) : pd'[k] = u BY <1>2 DEF LabelInv
<1>4. QED BY <1>1, <1>3 DEF LabelInv

LEMMA MoveLabel ==
  ASSUME TypeOK, LabelInv, NEW j \in Jobs, NEW l \in May(j), Moves(j, l),
         l \in Within(j) => ix[j] <= Len(Order)
  PROVE LabelInv'
BY MoveLoop DEF Moves

\* Moving among labels with the same mutexes keeps the mutexes.
LEMMA SameMutex ==
  ASSUME MutexInv, UNCHANGED lock,
         \A k \in Jobs : /\ ~Looping(k) => (at'[k] \in ForUser <=> at[k] \in ForUser)
                         /\ at'[k] \in RootLabels(k) <=> at[k] \in RootLabels(k)
  PROVE MutexInv'
<1>1. \A u \in Users : \A k \in Of(u) : k \in Jobs /\ ~Looping(k)
  BY JobFacts, KindFacts DEF Of
<1>2. QED BY <1>1 DEF MutexInv

LEMMA MoveMutex ==
  ASSUME TypeOK, MutexInv, NEW j \in Jobs, NEW l, at' = [at EXCEPT ![j] = l], lock' = lock,
         ~Looping(j) => (l \in ForUser <=> at[j] \in ForUser),
         l \in RootLabels(j) <=> at[j] \in RootLabels(j)
  PROVE MutexInv'
<1>1. \A k \in Jobs : at'[k] = IF k = j THEN l ELSE at[k] BY DEF TypeOK
<1>2. QED BY <1>1, SameMutex

\* A client that starts to boot has counted itself; the root's count is left alone.
LEMMA MovePower ==
  ASSUME TypeOK, PowerInv, NEW j \in Jobs, NEW l, at' = [at EXCEPT ![j] = l],
         UNCHANGED <<power, lock>>, st'[Root] = st[Root],
         j \in Clients /\ l \in Booting => at[j] \in Booting
  PROVE PowerInv'
<1>1. \A k \in Jobs : at'[k] = IF k = j THEN l ELSE at[k] BY DEF TypeOK
<1>2. \A u \in Users : Client(u) \in Jobs /\ Client(u) \in Clients BY JobFacts, KindFacts
<1>3. QED BY <1>1, <1>2 DEF PowerInv

\* What does not touch the root, or belongs to a recovery, keeps Uncrashed.
LEMMA MoveUncrashed ==
  ASSUME TypeOK, MutexInv, Uncrashed, NEW j \in Jobs, NEW l, at' = [at EXCEPT ![j] = l],
         lock'[Root] = lock[Root], used'.root = used.root,
         Looping(j) => at[j] # "idle",
         Root \in queued' => Root \in queued,
         ~Looping(j) => /\ wcss'[Root] = wcss[Root]
                        /\ power'[Root] = power[Root] /\ st'[Root] = st[Root]
                        /\ Root \in up' <=> Root \in up
                        /\ at[j] = "rootrun" <=> l = "rootrun"
  PROVE Uncrashed'
<1>1. \A k \in Jobs : at'[k] = IF k = j THEN l ELSE at[k] BY DEF TypeOK
<1>2. Root \in PDs BY DomainFacts
<1>3. lock[Root] \in Jobs \cup {None} BY <1>2 DEF TypeOK
<1>4. CASE used.root = 0 /\ ~Looping(j)
  <2>1. lock[Root] # None => (at'[lock[Root]] = "rootrun" <=> at[lock[Root]] = "rootrun")
    BY <1>1, <1>3, <1>4
  <2>2. \A k \in Jobs : Looping(k) => at'[k] = "idle" BY <1>1, <1>4 DEF Uncrashed
  <2>3. QED BY <1>4, <2>1, <2>2 DEF Uncrashed
<1>5. CASE used.root = 0 /\ Looping(j) BY <1>5 DEF Uncrashed
<1>6. CASE used.root # 0 BY <1>6 DEF Uncrashed
<1>7. QED BY <1>4, <1>5, <1>6

\* Taking a free mutex of the root.
LEMMA TakeRoot ==
  ASSUME TypeOK, MutexInv, NEW j \in Jobs, NEW l, at' = [at EXCEPT ![j] = l],
         lock[Root] = None, lock' = [lock EXCEPT ![Root] = j],
         l \in ForUser <=> at[j] \in ForUser, l \in RootLabels(j)
  PROVE MutexInv'
<1>1. \A k \in Jobs : at'[k] = IF k = j THEN l ELSE at[k] BY DEF TypeOK
<1>2. \A u \in Users : Of(u) \subseteq Jobs BY JobFacts DEF Of
<1>3. lock'[Root] = j /\ \A u \in Users : lock'[u] = lock[u] BY DomainFacts DEF TypeOK
<1>4. \A k \in Jobs : at'[k] \in ForUser <=> at[k] \in ForUser BY <1>1
<1>5. \A k \in Jobs : at[k] \notin RootLabels(k) BY JobFacts DEF MutexInv
<1>6. QED BY <1>1, <1>2, <1>3, <1>4, <1>5 DEF MutexInv

\* Giving the mutex of the root back.
LEMMA GiveRoot ==
  ASSUME TypeOK, MutexInv, NEW j \in Jobs, NEW l, at' = [at EXCEPT ![j] = l],
         at[j] \in RootLabels(j), lock' = [lock EXCEPT ![Root] = None],
         \A u \in Users : j \in Of(u) => (l \in ForUser <=> at[j] \in ForUser),
         l \notin RootLabels(j)
  PROVE MutexInv'
<1>1. \A k \in Jobs : at'[k] = IF k = j THEN l ELSE at[k] BY DEF TypeOK
<1>2. \A u \in Users : Of(u) \subseteq Jobs BY JobFacts DEF Of
<1>3. lock'[Root] = None /\ \A u \in Users : lock'[u] = lock[u] BY DomainFacts DEF TypeOK
<1>4. \A u \in Users : \A k \in Of(u) : at'[k] \in ForUser <=> at[k] \in ForUser
  BY <1>1, <1>2
<1>5. lock[Root] = j BY DEF MutexInv
<1>6. \A k \in Jobs : at'[k] \notin RootLabels(k) /\ lock'[Root] # k
  BY <1>1, <1>3, <1>5, JobFacts DEF MutexInv
<1>7. QED BY <1>2, <1>3, <1>4, <1>6 DEF MutexInv

\* Taking a free mutex of a user.
LEMMA TakeUser ==
  ASSUME TypeOK, LabelInv, MutexInv, NEW u \in Users, NEW j \in Of(u), NEW l,
         at' = [at EXCEPT ![j] = l],
         lock[u] = None, lock' = [lock EXCEPT ![u] = j],
         l \in ForUser, l \notin Starting, at[j] \notin Starting
  PROVE MutexInv'
<1>1. j \in Jobs /\ j # Work(Root) BY JobFacts DEF Of
<1>2. \A k \in Jobs : at'[k] = IF k = j THEN l ELSE at[k] BY <1>1 DEF TypeOK
<1>3. \A v \in Users : Of(v) \subseteq Jobs BY JobFacts DEF Of
<1>4. lock'[Root] = lock[Root] /\ \A v \in Users : lock'[v] = IF v = u THEN j ELSE lock[v]
  BY DomainFacts DEF TypeOK
<1>5. \A v \in Users : j \in Of(v) => v = u BY <1>1, OfFacts
<1>6. \A k \in Of(u) : at[k] \notin ForUser BY <1>3, JobFacts DEF MutexInv
<1>7. \A k \in Jobs : at'[k] \in RootLabels(k) <=> at[k] \in RootLabels(k)
  BY <1>1, <1>2 DEF RootLabels
<1>8. \A v \in Users : \A k \in Of(v) : at'[k] \in ForUser <=> lock'[v] = k
  BY <1>2, <1>3, <1>4, <1>5, <1>6 DEF MutexInv
<1>9. \A v \in Users : lock'[v] \in {None} \cup Of(v) BY <1>4 DEF MutexInv
<1>10. QED BY <1>4, <1>7, <1>8, <1>9 DEF MutexInv

\* Giving the mutex of a user back.
LEMMA GiveUser ==
  ASSUME TypeOK, LabelInv, MutexInv, NEW u \in Users, NEW j \in Of(u), NEW l,
         at' = [at EXCEPT ![j] = l],
         at[j] \in ForUser, lock' = [lock EXCEPT ![u] = None],
         l \notin ForUser, at[j] \notin Starting
  PROVE MutexInv'
<1>1. j \in Jobs /\ j # Work(Root) BY JobFacts DEF Of
<1>2. \A k \in Jobs : at'[k] = IF k = j THEN l ELSE at[k] BY <1>1 DEF TypeOK
<1>3. \A v \in Users : Of(v) \subseteq Jobs BY JobFacts DEF Of
<1>4. lock'[Root] = lock[Root] /\ \A v \in Users : lock'[v] = IF v = u THEN None ELSE lock[v]
  BY DomainFacts DEF TypeOK
<1>5. \A v \in Users : j \in Of(v) => v = u BY <1>1, OfFacts
<1>6. lock[u] = j BY DEF MutexInv
<1>7. l \notin Starting BY DEF ForUser, Booting
<1>8. \A k \in Jobs : at'[k] \in RootLabels(k) <=> at[k] \in RootLabels(k)
  BY <1>1, <1>2, <1>7 DEF RootLabels
<1>9. \A v \in Users : \A k \in Of(v) : at'[k] \in ForUser <=> lock'[v] = k
  <2>1. ASSUME NEW v \in Users, NEW k \in Of(v) PROVE at'[k] \in ForUser <=> lock'[v] = k
    <3>1. k \in Jobs /\ k # None BY <1>3, JobFacts
    <3>2. CASE v = u
      <4>1. k # j => at[k] \notin ForUser BY <1>6, <3>2 DEF MutexInv
      <4>2. QED BY <1>2, <1>4, <3>1, <3>2, <4>1
    <3>3. CASE v # u
      <4>1. k # j BY <1>5, <3>3
      <4>2. QED BY <1>2, <1>4, <3>1, <3>3, <4>1 DEF MutexInv
    <3>4. QED BY <3>2, <3>3
  <2>2. QED BY <2>1
<1>10. \A v \in Users : lock'[v] \in {None} \cup Of(v) BY <1>4 DEF MutexInv
<1>11. QED BY <1>4, <1>8, <1>9, <1>10 DEF MutexInv
\* A job is done with its user: a loop goes on to the next, a call gives the mutex back.
LEMMA ReturnMoves ==
  ASSUME TypeOK, LabelInv, MutexInv, NEW j \in Jobs, at[j] \in ForUser \ Starting, Return(j),
         UNCHANGED pd
  PROVE /\ LabelInv' /\ MutexInv' /\ After(j) \in {"idle", "scan", "sweep"}
        /\ at' = [at EXCEPT ![j] = After(j)]
        /\ ix' \in [Jobs -> 1 .. (Len(Order) + 1)] /\ at' \in [Jobs -> Labels]
        /\ lock' \in [PDs -> Jobs \cup {None}] /\ lock'[Root] = lock[Root]
<1>1. at' = [at EXCEPT ![j] = After(j)] BY DEF Return, Goto
<1>2. \A k \in Jobs : at'[k] = IF k = j THEN After(j) ELSE at[k] BY <1>1 DEF TypeOK
<1>3. After(j) \in {"idle", "scan", "sweep"} BY DEF After
<1>4. at' \in [Jobs -> Labels] BY <1>1, <1>3 DEF TypeOK, Labels
<1>5. Len(Order) \in Nat /\ Root \in PDs BY DomainFacts
<1>6. CASE Looping(j)
  <2>1. at[j] \in Within(j)
    BY <1>6, OfFacts DEF LabelInv, May, Within, ForUser, Booting, Starting, Stopping
  <2>2. ix[j] \in 1 .. Len(Order)
    <3>1. ix[j] \in 1 .. (Len(Order) + 1) BY DEF TypeOK
    <3>2. ix[j] <= Len(Order) BY <2>1 DEF LabelInv
    <3>3. QED BY <1>5, <3>1, <3>2
  <2>3. ix' = [ix EXCEPT ![j] = @ + 1] /\ lock' = lock BY <1>6 DEF Return
  <2>4. ix' \in [Jobs -> 1 .. (Len(Order) + 1)]
    <3>1. ix[j] + 1 \in 1 .. (Len(Order) + 1) BY <1>5, <2>2
    <3>2. QED BY <2>3, <3>1 DEF TypeOK
  <2>5. After(j) = IF j = Work(Root) THEN "sweep" ELSE "scan"
    BY <1>6, JobFacts, KindFacts
  <2>6. After(j) \in May(j) /\ After(j) \notin Within(j)
    BY <1>6, <2>5, OfFacts DEF May, Within, Booting, Starting, Stopping
  <2>7. \A k \in Jobs : k # j => ix'[k] = ix[k] BY <2>3 DEF TypeOK
  <2>8. LabelInv' BY <1>2, <2>6, <2>7 DEF LabelInv
  <2>9. After(j) \in RootLabels(j) <=> at[j] \in RootLabels(j)
    <3>1. CASE j = Work(Root)
      BY <2>1, <2>5, <3>1 DEF Within, RootLabels
    <3>2. CASE j # Work(Root) BY <2>5, <3>2 DEF RootLabels, Starting
    <3>3. QED BY <3>1, <3>2
  <2>10. MutexInv' BY <1>1, <1>6, <2>3, <2>9, MoveMutex
  <2>11. QED BY <1>1, <1>3, <1>4, <2>3, <2>4, <2>8, <2>10 DEF TypeOK
<1>7. CASE ~Looping(j)
  <2>1. pd[j] \in Users /\ j \in Of(pd[j]) /\ j # Work(Root) BY <1>7, OfFacts
  <2>2. lock' = [lock EXCEPT ![pd[j]] = None] BY <1>7 DEF Return
  <2>3. ix' = ix
    <3>1. ix' = [ix EXCEPT ![j] = ix[j]] BY <1>7 DEF Return
    <3>2. QED BY <3>1 DEF TypeOK
  <2>4. After(j) = "idle" BY <1>7 DEF After
  <2>5. "idle" \in May(j) /\ "idle" \notin Within(j) /\ "idle" \notin ForUser
    BY <1>7 DEF May, Within, ForUser, Booting, Starting, Stopping
  <2>6. LabelInv' BY <1>2, <2>3, <2>4, <2>5 DEF LabelInv
  <2>7. MutexInv' BY <1>1, <2>1, <2>2, <2>4, <2>5, GiveUser
  <2>8. lock' \in [PDs -> Jobs \cup {None}] /\ lock'[Root] = lock[Root]
    BY <2>1, <2>2, DomainFacts DEF TypeOK
  <2>9. QED BY <1>1, <1>3, <1>4, <2>3, <2>6, <2>7, <2>8 DEF TypeOK
<1>8. QED BY <1>6, <1>7
-----------------------------------------------------------------------------
(* Each action keeps the invariant: starting a user.                       *)

\* rproc_boot of a user by its client.
LEMMA BootStep == ASSUME Inv, NEW u \in Users, Boot(u) PROVE Inv'
<1> DEFINE c == Client(u)
<1>1. TypeOK /\ LabelInv /\ MutexInv /\ PowerInv /\ Uncrashed BY DEF Inv
<1>2. c \in Jobs /\ c \in Clients /\ c # Work(Root) /\ ~Looping(c) /\ c \in Of(u)
  BY JobFacts, KindFacts DEF Of
<1>3. power' = [power EXCEPT ![u] = @ + 1] /\ lock[u] = None /\ at[c] = "idle" BY DEF Boot
<1>4. UNCHANGED <<st, wcss, up, pd, ix, queued, used>> BY DEF Boot
<1>5. u \in PDs /\ u # Root BY DomainFacts
<1>6. power' \in [PDs -> Nat] /\ power'[Root] = power[Root] /\ power'[u] >= 1
      /\ \A v \in Users : power[v] >= 1 => power'[v] >= 1
  BY <1>1, <1>3, <1>5, DomainFacts DEF TypeOK
<1>7. CASE UNCHANGED <<at, lock>>
  <2>1. TypeOK' BY <1>1, <1>4, <1>6, <1>7 DEF TypeOK
  <2>2. LabelInv' /\ MutexInv' BY <1>1, <1>4, <1>7 DEF LabelInv, MutexInv
  <2>3. PowerInv' BY <1>1, <1>4, <1>6, <1>7 DEF PowerInv
  <2>4. Uncrashed' BY <1>1, <1>4, <1>6, <1>7 DEF Uncrashed
  <2>5. QED BY <2>1, <2>2, <2>3, <2>4 DEF Inv
<1>8. CASE at' = [at EXCEPT ![c] = "load"] /\ lock' = [lock EXCEPT ![u] = c]
  <2>1. "load" \in Labels /\ "load" \in May(c) /\ "load" \notin Within(c)
        /\ "load" \in ForUser /\ "load" \notin Starting /\ at[c] \notin Starting
    BY <1>2, <1>3 DEF Labels, May, Within, ForUser, Booting, Starting, Stopping
  <2>2. TypeOK' BY <1>1, <1>2, <1>4, <1>5, <1>6, <1>8, <2>1 DEF TypeOK
  <2>3. LabelInv' BY <1>1, <1>2, <1>4, <1>8, <2>1, MoveLabel DEF Moves
  <2>4. MutexInv' BY <1>1, <1>2, <1>3, <1>8, <2>1, TakeUser
  <2>5. lock'[Root] = lock[Root] BY <1>1, <1>5, <1>8, DomainFacts DEF TypeOK
  <2>6. PowerInv'
    <3>1. \A v \in Users : v # u => at'[Client(v)] = at[Client(v)]
      BY <1>1, <1>8, JobFacts DEF TypeOK
    <3>2. QED BY <1>1, <1>4, <1>6, <2>5, <3>1 DEF PowerInv
  <2>7. Uncrashed'
    BY <1>1, <1>2, <1>3, <1>4, <1>6, <1>8, <2>5, MoveUncrashed
  <2>8. QED BY <2>2, <2>3, <2>4, <2>6, <2>7 DEF Inv
<1>9. QED BY <1>7, <1>8 DEF Boot, Goto

\* A job of a user that goes on without a mutex and without touching the root.
LEMMA PlainStep ==
  ASSUME Inv, NEW j \in Jobs, NEW l \in Labels, Moves(j, l), UNCHANGED <<power, lock>>,
         at[j] \in ForUser \ Starting, l \in ForUser \ Starting,
         l \in Booting => at[j] \in Booting \/ (j \notin Clients /\ ~Looping(j)),
         l \in Stopping => at[j] \in Stopping,
         st' \in [PDs -> {"OFFLINE", "RUNNING", "CRASHED", "SUSPENDED"}], st'[Root] = st[Root],
         wcss' \in [PDs -> {"NORMAL", "RESTARTING", "SHUTDOWN"}], wcss'[Root] = wcss[Root],
         up' \in SUBSET PDs, Root \in up' <=> Root \in up, queued' = queued,
         used' \in Uses,
         used'.root = used.root
  PROVE Inv'
<1>1. TypeOK /\ LabelInv /\ MutexInv /\ PowerInv /\ Uncrashed BY DEF Inv
<1>2. at' = [at EXCEPT ![j] = l] /\ UNCHANGED <<pd, ix>> BY DEF Moves
<1>3. at[j] \in May(j) /\ (at[j] \in Within(j) => ix[j] <= Len(Order)) BY <1>1 DEF LabelInv
<1>4. /\ j = Work(Root) => Looping(j) /\ j \notin Clients
      /\ j \in Clients => ~Looping(j)
  BY <1>1, KindFacts, OfFacts
<1>5. l \in May(j) /\ (l \in Within(j) => at[j] \in Within(j))
  <2>1. CASE j = Work(Root)
    <3>1. l \in Stopping
      BY <1>3, <1>4, <2>1 DEF May, ForUser, Booting, Starting, Stopping
    <3>2. QED BY <2>1, <3>1 DEF May, Within
  <2>2. CASE j # Work(Root) /\ Looping(j)
    <3>1. l \in Booting /\ at[j] \in Booting
      BY <1>3, <1>4, <2>2 DEF May, ForUser, Booting, Starting, Stopping
    <3>2. QED BY <1>4, <2>2, <3>1 DEF May, Within
  <2>3. CASE ~Looping(j) BY <1>4, <2>3 DEF May, Within
  <2>4. QED BY <2>1, <2>2, <2>3
<1>6. l \in RootLabels(j) <=> at[j] \in RootLabels(j)
  <2>1. CASE j = Work(Root)
    <3>1. l \in Stopping /\ at[j] \in Stopping
      BY <1>3, <1>4, <2>1 DEF May, ForUser, Booting, Starting, Stopping
    <3>2. QED BY <2>1, <3>1 DEF RootLabels
  <2>2. CASE j # Work(Root) BY <2>2 DEF RootLabels
  <2>3. QED BY <2>1, <2>2
<1>7. TypeOK' BY <1>1, <1>2 DEF TypeOK, Uses
<1>8. LabelInv' BY <1>1, <1>3, <1>5, MoveLabel
<1>9. MutexInv' BY <1>1, <1>2, <1>6, MoveMutex
<1>10. PowerInv' BY <1>1, <1>2, MovePower
<1>11. Uncrashed'
  <2>1. at[j] \notin {"idle", "rootrun"} /\ l # "rootrun"
    BY DEF ForUser, Booting, Starting, Stopping
  <2>2. QED BY <1>1, <1>2, <2>1, MoveUncrashed
<1>12. QED BY <1>7, <1>8, <1>9, <1>10, <1>11 DEF Inv

LEMMA StartSteps ==
  ASSUME Inv, NEW j \in Jobs,
         Load(j) \/ Start(j) \/ StartFails(j) \/ Stop(j) \/ StopFails(j)
  PROVE Inv'
<1> USE DomainFacts DEF ForUser, Booting, Starting, Stopping, Labels, Uses
<1>1. TypeOK /\ pd[j] \in Users BY DEF Inv, TypeOK
<1>2. CASE Load(j)
  <2>1. \E l \in {"rootget", "start"} : Moves(j, l) BY <1>2 DEF Load, Goto, Moves
  <2>2. at[j] = "load" /\ UNCHANGED <<st, power, wcss, lock, up, queued, used>>
    BY <1>2 DEF Load
  <2>3. QED BY <1>1, <2>1, <2>2, PlainStep DEF TypeOK
<1>3. CASE Start(j)
  <2>1. PICK l \in {"run", "fail"} : Moves(j, l) BY <1>3 DEF Start, Goto, Moves
  <2>2. at[j] = "start" /\ UNCHANGED <<st, power, lock, queued>> BY <1>3 DEF Start
  <2>3. /\ wcss' \in [PDs -> {"NORMAL", "RESTARTING", "SHUTDOWN"}] /\ wcss'[Root] = wcss[Root]
        /\ up' \in SUBSET PDs /\ (Root \in up' <=> Root \in up)
    <3>1. \/ UNCHANGED <<up, wcss>>
          \/ up' = up \cup {pd[j]} /\ wcss' = [wcss EXCEPT ![pd[j]] = "NORMAL"]
      BY <1>3 DEF Start
    <3>2. pd[j] \in PDs /\ pd[j] # Root BY <1>1
    <3>3. wcss \in [PDs -> {"NORMAL", "RESTARTING", "SHUTDOWN"}] /\ up \in SUBSET PDs
      BY <1>1 DEF TypeOK
    <3>4. CASE UNCHANGED <<up, wcss>> BY <3>3, <3>4
    <3>5. CASE up' = up \cup {pd[j]} /\ wcss' = [wcss EXCEPT ![pd[j]] = "NORMAL"]
      BY <3>2, <3>3, <3>5
    <3>6. QED BY <3>1, <3>4, <3>5
  <2>4. st' \in [PDs -> {"OFFLINE", "RUNNING", "CRASHED", "SUSPENDED"}]
        /\ used' \in Uses /\ used'.root = used.root
    <3>1. st' = st BY <2>2
    <3>2. used' = used \/ used' = [used EXCEPT !.halted = @ \ {pd[j]}] BY <1>3 DEF Start
    <3>3. CASE used' = used BY <1>1, <3>1, <3>3 DEF TypeOK
    <3>4. CASE used' = [used EXCEPT !.halted = @ \ {pd[j]}]
      <4>1. /\ used.root \in 0 .. MaxRootCrash /\ used.user \in 0 .. MaxUserCrash
            /\ used.fault \in 0 .. MaxFaults /\ used.halted \ {pd[j]} \in SUBSET Users
        BY <1>1 DEF TypeOK
      <4>2. used' = [root |-> used.root, user |-> used.user, fault |-> used.fault,
                     halted |-> used.halted \ {pd[j]}]
        BY <1>1, <3>4 DEF TypeOK
      <4>3. used' \in Uses /\ used'.root = used.root BY <4>1, <4>2
      <4>4. QED BY <1>1, <3>1, <4>3 DEF TypeOK
    <3>5. QED BY <3>2, <3>3, <3>4
  <2>5. /\ l \in Labels /\ at[j] \in ForUser \ Starting /\ l \in ForUser \ Starting
        /\ (l \in Booting => at[j] \in Booting) /\ (l \in Stopping => at[j] \in Stopping)
    BY <2>1, <2>2
  <2>6. QED BY <2>1, <2>2, <2>3, <2>4, <2>5, PlainStep
<1>4. CASE StartFails(j)
  <2>1. Moves(j, "fail") BY <1>4 DEF StartFails, Goto, Moves
  <2>2. at[j] \in {"load", "start"} /\ UNCHANGED <<st, power, wcss, lock, up, queued>>
    BY <1>4 DEF StartFails
  <2>3. used' \in Uses /\ used'.root = used.root BY <1>1, <1>4, FaultOnly DEF StartFails
  <2>4. QED BY <1>1, <2>1, <2>2, <2>3, PlainStep DEF TypeOK
<1>5. CASE Stop(j)
  <2>1. \E l \in {"put", "stopfail"} : Moves(j, l) BY <1>5 DEF Stop, Goto, Moves
  <2>2. at[j] = "stop" /\ UNCHANGED <<st, power, wcss, lock, queued, used>> BY <1>5 DEF Stop
  <2>3. up' \in SUBSET PDs /\ (Root \in up' <=> Root \in up) BY <1>1, <1>5 DEF Stop, TypeOK
  <2>4. QED BY <1>1, <2>1, <2>2, <2>3, PlainStep DEF TypeOK
<1>6. CASE StopFails(j)
  <2>1. Moves(j, "stopfail") BY <1>6 DEF StopFails, Goto, Moves
  <2>2. at[j] = "stop" /\ UNCHANGED <<st, power, wcss, lock, queued>> BY <1>6 DEF StopFails
  <2>3. up' \in SUBSET PDs /\ (Root \in up' <=> Root \in up)
    BY <1>1, <1>6 DEF StopFails, TypeOK
  <2>4. used' \in Uses /\ used'.root = used.root
    <3>1. used.halted \cup {pd[j]} \in SUBSET Users BY <1>1 DEF TypeOK
    <3>2. used' = [used EXCEPT !.fault = @ + 1, !.halted = used.halted \cup {pd[j]}]
      BY <1>6 DEF StopFails
    <3>3. used.fault < MaxFaults BY <1>6 DEF StopFails
    <3>4. QED BY <1>1, <3>1, <3>2, <3>3, FaultCounted
  <2>5. QED BY <1>1, <2>1, <2>2, <2>3, <2>4, PlainStep DEF TypeOK
<1>7. QED BY <1>2, <1>3, <1>4, <1>5, <1>6
\* rproc_boot of the root: its mutex is taken only by the first user, and only then has
\* it to be started.
LEMMA RootGetStep == ASSUME Inv, NEW j \in Jobs, RootGet(j) PROVE Inv'
<1>1. TypeOK /\ LabelInv /\ MutexInv /\ PowerInv /\ Uncrashed BY DEF Inv
<1>2. at[j] = "rootget" /\ lock[Root] = None /\ power' = [power EXCEPT ![Root] = @ + 1]
  BY DEF RootGet
<1>3. UNCHANGED <<st, wcss, up, pd, ix, queued, used>> BY DEF RootGet
<1>4. Root \in PDs /\ Root \notin Users BY DomainFacts
<1>5. power[Root] \in Nat BY <1>1, <1>4 DEF TypeOK
<1>6. /\ power' \in [PDs -> Nat] /\ power'[Root] = power[Root] + 1
      /\ \A u \in Users : power'[u] = power[u]
  BY <1>1, <1>2, <1>4, <1>5, DomainFacts DEF TypeOK
<1>7. j # Work(Root) /\ at[j] \in May(j)
  BY <1>1, <1>2 DEF LabelInv, May, ForUser, Booting, Starting, Stopping
<1>8. ~Looping(j) \/ used.root # 0 BY <1>1, <1>2 DEF Uncrashed
<1>9. CASE power[Root] > 0
  <2>1. at' = [at EXCEPT ![j] = "start"] /\ lock' = lock BY <1>9 DEF RootGet, Goto
  <2>2. "start" \in Labels /\ "start" \in May(j)
        /\ ("start" \in Within(j) <=> at[j] \in Within(j)) /\ "start" \in ForUser
        /\ at[j] \in ForUser /\ at[j] \in Booting
        /\ "start" \notin RootLabels(j) /\ at[j] \notin RootLabels(j)
    BY <1>2, <1>7 DEF Labels, May, Within, RootLabels, ForUser, Booting, Starting, Stopping
  <2>3. TypeOK' BY <1>1, <1>3, <1>6, <2>1, <2>2 DEF TypeOK
  <2>4. LabelInv' BY <1>1, <1>3, <2>1, <2>2, MoveLabel DEF Moves, LabelInv
  <2>5. MutexInv' BY <1>1, <2>1, <2>2, MoveMutex
  <2>6. \A k \in Jobs : at'[k] = IF k = j THEN "start" ELSE at[k] BY <1>1, <2>1 DEF TypeOK
  <2>7. PowerInv'
    <3>1. \A u \in Users : Client(u) \in Jobs BY JobFacts
    <3>2. power'[Root] >= 1 BY <1>5, <1>6
    <3>3. QED BY <1>1, <1>2, <1>3, <1>6, <2>1, <2>2, <2>6, <3>1, <3>2 DEF PowerInv
  <2>8. Uncrashed'
    <3>1. power'[Root] > 0 BY <1>5, <1>6
    <3>2. QED BY <1>1, <1>2, <1>3, <1>8, <1>9, <2>1, <2>6, <3>1 DEF Uncrashed
  <2>9. QED BY <2>3, <2>4, <2>5, <2>7, <2>8 DEF Inv
<1>10. CASE ~(power[Root] > 0)
  <2>1. at' = [at EXCEPT ![j] = "rootstart"] /\ lock' = [lock EXCEPT ![Root] = j]
    BY <1>10 DEF RootGet, Goto
  <2>2. "rootstart" \in Labels /\ "rootstart" \in May(j)
        /\ ("rootstart" \in Within(j) <=> at[j] \in Within(j)) /\ "rootstart" \in ForUser
        /\ at[j] \in ForUser /\ at[j] \in Booting
        /\ "rootstart" \in RootLabels(j)
    BY <1>2, <1>7 DEF Labels, May, Within, RootLabels, ForUser, Booting, Starting, Stopping
  <2>3. TypeOK' BY <1>1, <1>3, <1>4, <1>6, <2>1, <2>2 DEF TypeOK
  <2>4. LabelInv' BY <1>1, <1>3, <2>1, <2>2, MoveLabel DEF Moves, LabelInv
  <2>5. MutexInv' BY <1>1, <1>2, <2>1, <2>2, TakeRoot
  <2>6. \A k \in Jobs : at'[k] = IF k = j THEN "rootstart" ELSE at[k]
    BY <1>1, <2>1 DEF TypeOK
  <2>7. power[Root] = 0 /\ power'[Root] = 1 BY <1>5, <1>6, <1>10
  <2>8. lock'[Root] = j /\ j # None BY <1>1, <1>4, <2>1, JobFacts DEF TypeOK
  <2>9. PowerInv'
    <3>1. \A u \in Users : Client(u) \in Jobs BY JobFacts
    <3>2. st[Root] \notin {"RUNNING", "CRASHED"} BY <1>1, <2>7 DEF PowerInv
    <3>3. QED BY <1>1, <1>3, <1>6, <2>2, <2>6, <2>7, <3>1, <3>2 DEF PowerInv
  <2>10. Uncrashed'
    BY <1>1, <1>2, <1>3, <1>8, <1>10, <2>6, <2>7, <2>8 DEF Uncrashed
  <2>11. QED BY <2>3, <2>4, <2>5, <2>9, <2>10 DEF Inv
<1>11. QED BY <1>9, <1>10

\* q6_wcss_start, with the restart thread it may make; the mutexes are left alone.
LEMMA RestartMoves ==
  ASSUME Inv, NEW j \in Jobs, at[j] = "rootstart", NEW l \in {"rootrun", "rootfail"},
         RestartUsers(j, l), UNCHANGED <<lock, pd, ix>>
  PROVE /\ LabelInv' /\ MutexInv' /\ at' \in [Jobs -> Labels]
        /\ at'[j] = l
        /\ \A u \in Users : at'[Client(u)] \in Booting <=> at[Client(u)] \in Booting
        /\ wcss' \in [PDs -> {"NORMAL", "RESTARTING", "SHUTDOWN"}] /\ wcss'[Root] = wcss[Root]
        /\ used.root = 0 => \A k \in Jobs : k # j => at'[k] = at[k]
<1>1. TypeOK /\ LabelInv /\ MutexInv /\ PowerInv /\ Uncrashed BY DEF Inv
<1>2. Root \in PDs BY DomainFacts
<1>3. \A u \in Users : Client(u) \in Jobs BY JobFacts
<1>4. /\ at[j] \in May(j) /\ l \in May(j) /\ (l \in Within(j) <=> at[j] \in Within(j))
      /\ l \in RootLabels(j) /\ at[j] \in RootLabels(j) /\ l \in ForUser /\ at[j] \in ForUser
      /\ l \in Booting /\ at[j] \in Booting /\ l \in Labels
  BY <1>1 DEF LabelInv, Labels, May, Within, RootLabels, ForUser, Booting, Starting, Stopping
<1>5. CASE wcss[Root] = "RESTARTING"
  <2>1. PICK t \in Threads : /\ at[Thread(t)] = "idle" /\ UNCHANGED wcss
                             /\ at' = [at EXCEPT ![j] = l, ![Thread(t)] = "spin"]
    BY <1>5 DEF RestartUsers
  <2> DEFINE r == Thread(t)
  <2>2. r \in Jobs /\ r # Work(Root) /\ Looping(r) /\ r \notin Clients /\ r # j
    BY <2>1, JobFacts, KindFacts
  <2>3. \A k \in Jobs : at'[k] = IF k = r THEN "spin" ELSE IF k = j THEN l ELSE at[k]
    BY <1>1, <2>1, <2>2 DEF TypeOK
  <2>4. /\ "spin" \in May(r) /\ "spin" \notin Within(r) /\ "spin" \notin RootLabels(r)
        /\ at[r] \notin RootLabels(r) /\ "spin" \in Labels
    BY <2>1, <2>2 DEF Labels, May, Within, RootLabels, ForUser, Booting, Starting, Stopping
  <2> HIDE DEF r
  <2>5. at' \in [Jobs -> Labels]
    <3>1. at' = [at EXCEPT ![j] = l, ![r] = "spin"] BY <2>1 DEF r
    <3>2. QED BY <1>1, <1>4, <2>2, <2>4, <3>1 DEF TypeOK
  <2>6. LabelInv' BY <1>1, <1>4, <2>3, <2>4 DEF LabelInv
  <2>7. MutexInv' BY <1>1, <1>4, <2>2, <2>3, <2>4, SameMutex
  <2>8. \A u \in Users : at'[Client(u)] \in Booting <=> at[Client(u)] \in Booting
    <3>1. \A u \in Users : Client(u) # r BY <2>2, KindFacts
    <3>2. QED BY <1>3, <1>4, <2>3, <3>1
  <2>9. used.root # 0 BY <1>1, <1>5 DEF Uncrashed
  <2>10. QED BY <1>1, <1>2, <2>1, <2>2, <2>3, <2>5, <2>6, <2>7, <2>8, <2>9 DEF TypeOK
<1>6. CASE wcss[Root] # "RESTARTING"
  <2>1. /\ at' = [at EXCEPT ![j] = l]
        /\ wcss' = [p \in PDs |-> IF p = Root THEN wcss[p] ELSE "NORMAL"]
    BY <1>6 DEF RestartUsers, Goto
  <2>2. \A k \in Jobs : at'[k] = IF k = j THEN l ELSE at[k] BY <1>1, <2>1 DEF TypeOK
  <2>3. at' \in [Jobs -> Labels] BY <1>1, <1>4, <2>1 DEF TypeOK
  <2>4. LabelInv' BY <1>1, <1>4, <2>2 DEF LabelInv
  <2>5. MutexInv' BY <1>1, <1>4, <2>1, MoveMutex
  <2>6. wcss' \in [PDs -> {"NORMAL", "RESTARTING", "SHUTDOWN"}] /\ wcss'[Root] = wcss[Root]
    BY <1>1, <1>2, <2>1 DEF TypeOK
  <2>7. \A u \in Users : at'[Client(u)] \in Booting <=> at[Client(u)] \in Booting
    BY <1>3, <1>4, <2>2
  <2>8. QED BY <2>2, <2>3, <2>4, <2>5, <2>6, <2>7
<1>7. QED BY <1>5, <1>6

LEMMA RootStartSteps ==
  ASSUME Inv, NEW j \in Jobs, RootStart(j) \/ RootStartFails(j) PROVE Inv'
<1>1. TypeOK /\ LabelInv /\ MutexInv /\ PowerInv /\ Uncrashed BY DEF Inv
<1>2. at[j] = "rootstart" /\ UNCHANGED <<st, power, lock, pd, ix, queued>>
  BY DEF RootStart, RootStartFails
<1>3. Root \in PDs BY DomainFacts
<1>4. used' \in Uses /\ used'.root = used.root
  <2>1. CASE RootStart(j) BY <1>1, <2>1 DEF RootStart, TypeOK, Uses
  <2>2. CASE RootStartFails(j) BY <1>1, <2>2, FaultOnly DEF RootStartFails
  <2>3. QED BY <2>1, <2>2
<1>5. PICK l \in {"rootrun", "rootfail"} :
        /\ l = "rootrun" => up' = up \cup {Root}
        /\ l = "rootfail" => up' = up
        /\ RestartUsers(j, l) \/ (Goto(j, l) /\ UNCHANGED wcss)
  BY DEF RootStart, RootStartFails
<1>6. /\ LabelInv' /\ MutexInv' /\ at' \in [Jobs -> Labels] /\ at'[j] = l
      /\ \A u \in Users : at'[Client(u)] \in Booting <=> at[Client(u)] \in Booting
      /\ wcss' \in [PDs -> {"NORMAL", "RESTARTING", "SHUTDOWN"}] /\ wcss'[Root] = wcss[Root]
      /\ used.root = 0 => \A k \in Jobs : k # j => at'[k] = at[k]
  <2>1. CASE RestartUsers(j, l) BY <1>2, <2>1, RestartMoves
  <2>2. CASE Goto(j, l) /\ UNCHANGED wcss
    <3>1. at' = [at EXCEPT ![j] = l] BY <2>2 DEF Goto
    <3>2. \A k \in Jobs : at'[k] = IF k = j THEN l ELSE at[k] BY <1>1, <3>1 DEF TypeOK
    <3>3. /\ at[j] \in May(j) /\ l \in May(j) /\ (l \in Within(j) <=> at[j] \in Within(j))
          /\ l \in RootLabels(j) /\ at[j] \in RootLabels(j) /\ l \in ForUser /\ at[j] \in ForUser
          /\ l \in Booting /\ at[j] \in Booting /\ l \in Labels
      BY <1>1, <1>2
      DEF LabelInv, Labels, May, Within, RootLabels, ForUser, Booting, Starting, Stopping
    <3>4. LabelInv' BY <1>1, <1>2, <3>2, <3>3 DEF LabelInv
    <3>5. MutexInv' BY <1>1, <1>2, <3>1, <3>3, MoveMutex
    <3>6. at' \in [Jobs -> Labels] BY <1>1, <3>1, <3>3 DEF TypeOK
    <3>7. \A u \in Users : at'[Client(u)] \in Booting <=> at[Client(u)] \in Booting
      BY <3>2, <3>3, JobFacts
    <3>8. wcss' = wcss /\ wcss \in [PDs -> {"NORMAL", "RESTARTING", "SHUTDOWN"}]
      BY <1>1, <2>2 DEF TypeOK
    <3>9. QED BY <3>2, <3>4, <3>5, <3>6, <3>7, <3>8
  <2>3. QED BY <1>5, <2>1, <2>2
<1>7. up' \in SUBSET PDs BY <1>1, <1>3, <1>5 DEF TypeOK
<1>8. TypeOK' BY <1>1, <1>2, <1>4, <1>6, <1>7 DEF TypeOK, Uses
<1>9. PowerInv' BY <1>1, <1>2, <1>6 DEF PowerInv
<1>10. lock[Root] = j /\ j # None
  <2>1. at[j] \in RootLabels(j) BY <1>2 DEF RootLabels, Starting
  <2>2. QED BY <1>1, <2>1, JobFacts DEF MutexInv
<1>11. Uncrashed'
  <2>1. SUFFICES ASSUME used'.root = 0 PROVE Uncrashed' BY DEF Uncrashed
  <2>2. ~Looping(j) BY <1>1, <1>2, <1>4, <2>1 DEF Uncrashed
  <2>3. \A k \in Jobs : Looping(k) => at'[k] = "idle"
    BY <1>1, <1>4, <1>6, <2>1, <2>2 DEF Uncrashed
  <2>4. Root \notin up /\ power[Root] = 1 BY <1>1, <1>2, <1>4, <1>10, <2>1 DEF Uncrashed
  <2>5. (l = "rootrun") <=> Root \in up' BY <1>5, <2>4
  <2>6. QED BY <1>1, <1>2, <1>4, <1>6, <1>10, <2>1, <2>3, <2>4, <2>5 DEF Uncrashed
<1>12. QED BY <1>6, <1>8, <1>9, <1>11 DEF Inv
\* The root's mutex is given back: the root runs, or its start has failed, and what it
\* counts and executes agrees again.
LEMMA RootEndSteps ==
  ASSUME Inv, NEW j \in Jobs, RootRuns(j) \/ RootFailed(j) PROVE Inv'
<1>1. TypeOK /\ LabelInv /\ MutexInv /\ PowerInv /\ Uncrashed BY DEF Inv
<1>2. /\ at[j] \in {"rootrun", "rootfail"} /\ lock' = [lock EXCEPT ![Root] = None]
      /\ UNCHANGED <<wcss, up, pd, ix, queued, used>>
  BY DEF RootRuns, RootFailed
<1>3. PICK l \in {"idle", "start", "fail"} :
        at' = [at EXCEPT ![j] = l] /\ (l = "idle" <=> j = Work(Root))
  BY DEF RootRuns, RootFailed, Goto
<1>4. Root \in PDs /\ Root \notin Users BY DomainFacts
<1>5. at[j] \in RootLabels(j) /\ at[j] \in ForUser /\ at[j] \in Booting /\ at[j] \in May(j)
  BY <1>1, <1>2 DEF LabelInv, RootLabels, ForUser, Booting, Starting, Stopping
<1>6. lock[Root] = j /\ j # None BY <1>1, <1>5, JobFacts DEF MutexInv
<1>7. lock'[Root] = None /\ lock' \in [PDs -> Jobs \cup {None}]
  BY <1>1, <1>2, <1>4 DEF TypeOK
<1>8. /\ l \in May(j) /\ (l \in Within(j) => at[j] \in Within(j)) /\ l \in Labels
      /\ l \notin RootLabels(j) /\ (j # Work(Root) => l \in ForUser /\ l \in Booting)
  BY <1>2, <1>3, <1>5 DEF Labels, May, Within, RootLabels, ForUser, Booting, Starting, Stopping
<1>9. \A k \in Jobs : at'[k] = IF k = j THEN l ELSE at[k] BY <1>1, <1>3 DEF TypeOK
<1>10. LabelInv' BY <1>1, <1>2, <1>3, <1>8, MoveLabel DEF Moves, LabelInv
<1>11. MutexInv'
  <2>1. \A u \in Users : j \in Of(u) => j # Work(Root) BY JobFacts DEF Of
  <2>2. QED BY <1>1, <1>2, <1>3, <1>5, <1>8, <2>1, GiveRoot
<1>12. power[Root] \in Nat /\ power[Root] >= 1 BY <1>1, <1>4, <1>6 DEF TypeOK, PowerInv
<1>13. \A u \in Users : Client(u) \in Jobs /\ Client(u) # Work(Root) BY JobFacts
<1>14. at' \in [Jobs -> Labels] BY <1>1, <1>3, <1>8 DEF TypeOK
<1>15. \A u \in Users : at'[Client(u)] \in Booting <=> at[Client(u)] \in Booting
  BY <1>5, <1>8, <1>9, <1>13
<1>16. used.root = 0 => ~Looping(j) /\ j # Work(Root)
  BY <1>1, <1>2, KindFacts DEF Uncrashed
<1>17. used.root = 0 => \A k \in Jobs : Looping(k) => at'[k] = "idle"
  BY <1>1, <1>9, <1>16 DEF Uncrashed
<1>18. CASE RootRuns(j)
  <2>1. at[j] = "rootrun" /\ st' = [st EXCEPT ![Root] = "RUNNING"] /\ power' = power
    BY <1>18 DEF RootRuns
  <2>2. /\ st' \in [PDs -> {"OFFLINE", "RUNNING", "CRASHED", "SUSPENDED"}]
        /\ st'[Root] = "RUNNING"
    BY <1>1, <1>4, <2>1 DEF TypeOK
  <2>3. TypeOK' BY <1>1, <1>2, <1>7, <1>14, <2>1, <2>2 DEF TypeOK
  <2>4. PowerInv' BY <1>1, <1>7, <1>12, <1>15, <2>1, <2>2 DEF PowerInv
  <2>5. Uncrashed'
    BY <1>1, <1>2, <1>6, <1>7, <1>12, <1>17, <2>1, <2>2 DEF Uncrashed
  <2>6. QED BY <1>10, <1>11, <2>3, <2>4, <2>5 DEF Inv
<1>19. CASE RootFailed(j)
  <2>1. at[j] = "rootfail" /\ st' = st BY <1>19 DEF RootFailed
  <2>2. IF j = Work(Root) THEN power' = power ELSE power' = [power EXCEPT ![Root] = @ - 1]
    BY <1>19 DEF RootFailed
  <2>3. /\ power' \in [PDs -> Nat] /\ \A u \in Users : power'[u] = power[u]
        /\ power'[Root] = IF j = Work(Root) THEN power[Root] ELSE power[Root] - 1
    <3>1. power[Root] - 1 \in Nat BY <1>12
    <3>2. QED BY <1>1, <1>4, <2>2, <3>1, DomainFacts DEF TypeOK
  <2>4. TypeOK' BY <1>1, <1>2, <1>7, <1>14, <2>1, <2>3 DEF TypeOK
  <2>5. j # Work(Root) => st[Root] \notin {"RUNNING", "CRASHED"} BY <1>1, <1>6 DEF PowerInv
  <2>6. PowerInv' BY <1>1, <1>7, <1>12, <1>15, <2>1, <2>3, <2>5 DEF PowerInv
  <2>7. used.root = 0 => power[Root] = 1 /\ Root \notin up
    BY <1>1, <1>6, <2>1 DEF Uncrashed
  <2>8. used.root = 0 => power'[Root] = 0 BY <1>16, <2>3, <2>7
  <2>9. Uncrashed'
    BY <1>1, <1>2, <1>7, <1>16, <1>17, <2>1, <2>5, <2>7, <2>8 DEF Uncrashed
  <2>10. QED BY <1>10, <1>11, <2>4, <2>6, <2>9 DEF Inv
<1>20. QED BY <1>18, <1>19

\* A job is done with its user.
LEMMA ReturnStep ==
  ASSUME Inv, NEW j \in Jobs, at[j] \in ForUser \ Starting, Return(j),
         UNCHANGED <<pd, up, queued, used>>,
         st' \in [PDs -> {"OFFLINE", "RUNNING", "CRASHED", "SUSPENDED"}], st'[Root] = st[Root],
         wcss' \in [PDs -> {"NORMAL", "RESTARTING", "SHUTDOWN"}], wcss'[Root] = wcss[Root],
         power' \in [PDs -> Nat], power'[Root] = power[Root],
         \A u \in Users : j # Client(u) => power'[u] = power[u]
  PROVE Inv'
<1>1. TypeOK /\ LabelInv /\ MutexInv /\ PowerInv /\ Uncrashed BY DEF Inv
<1>2. /\ LabelInv' /\ MutexInv' /\ After(j) \in {"idle", "scan", "sweep"}
      /\ at' = [at EXCEPT ![j] = After(j)]
      /\ ix' \in [Jobs -> 1 .. (Len(Order) + 1)] /\ at' \in [Jobs -> Labels]
      /\ lock' \in [PDs -> Jobs \cup {None}] /\ lock'[Root] = lock[Root]
  BY <1>1, ReturnMoves
<1>3. TypeOK' BY <1>1, <1>2 DEF TypeOK
<1>4. \A k \in Jobs : at'[k] = IF k = j THEN After(j) ELSE at[k] BY <1>1, <1>2 DEF TypeOK
<1>5. After(j) \notin Booting BY <1>2 DEF Booting, Starting
<1>6. PowerInv' BY <1>1, <1>2, <1>4, <1>5, JobFacts DEF PowerInv
<1>7. Uncrashed'
  <2>1. at[j] \notin {"idle", "rootrun"} /\ After(j) # "rootrun"
    BY <1>2 DEF ForUser, Booting, Starting, Stopping
  <2>2. QED BY <1>1, <1>2, <2>1, MoveUncrashed
<1>8. QED BY <1>2, <1>3, <1>6, <1>7 DEF Inv

LEMMA ReturnSteps ==
  ASSUME Inv, NEW j \in Jobs, Run(j) \/ Fail(j) \/ StopFailed(j) PROVE Inv'
<1>1. TypeOK /\ LabelInv /\ PowerInv /\ pd[j] \in Users BY DEF Inv, TypeOK
<1>2. pd[j] \in PDs /\ pd[j] # Root /\ Root \in PDs BY <1>1, DomainFacts
<1>3. /\ st \in [PDs -> {"OFFLINE", "RUNNING", "CRASHED", "SUSPENDED"}]
      /\ wcss \in [PDs -> {"NORMAL", "RESTARTING", "SHUTDOWN"}]
      /\ power \in [PDs -> Nat] /\ power[pd[j]] \in Nat
  BY <1>1, <1>2 DEF TypeOK
<1>4. j \in Clients => j = Client(pd[j]) BY <1>1, OfFacts
<1>5. CASE Run(j)
  <2>1. at[j] \in ForUser \ Starting BY <1>5 DEF Run, ForUser, Booting, Starting, Stopping
  <2>2. /\ Return(j) /\ st' = [st EXCEPT ![pd[j]] = "RUNNING"]
        /\ UNCHANGED <<power, wcss, up, pd, queued, used>>
    BY <1>5 DEF Run
  <2>3. QED BY <1>2, <1>3, <2>1, <2>2, ReturnStep
<1>6. CASE Fail(j)
  <2>1. at[j] \in ForUser \ Starting /\ at[j] \in Booting
    BY <1>6 DEF Fail, ForUser, Booting, Starting, Stopping
  <2>2. /\ Return(j) /\ UNCHANGED <<st, wcss, up, pd, queued, used>>
        /\ power' = IF j \in Clients THEN [power EXCEPT ![pd[j]] = @ - 1] ELSE power
    BY <1>6 DEF Fail
  <2>3. /\ power' \in [PDs -> Nat] /\ power'[Root] = power[Root]
        /\ \A u \in Users : j # Client(u) => power'[u] = power[u]
    <3>1. CASE j \in Clients
      <4>1. power[pd[j]] - 1 \in Nat BY <1>1, <1>3, <1>4, <2>1, <3>1 DEF PowerInv
      <4>2. QED BY <1>2, <1>3, <1>4, <2>2, <3>1, <4>1, DomainFacts
    <3>2. CASE j \notin Clients BY <1>3, <2>2, <3>2
    <3>3. QED BY <3>1, <3>2
  <2>4. QED BY <1>2, <1>3, <2>1, <2>2, <2>3, ReturnStep
<1>7. CASE StopFailed(j)
  <2>1. at[j] \in ForUser \ Starting
    BY <1>7 DEF StopFailed, ForUser, Booting, Starting, Stopping
  <2>2. /\ Return(j) /\ UNCHANGED <<wcss, up, pd, queued, used>>
        /\ power' = IF j \in Clients THEN [power EXCEPT ![pd[j]] = @ + 1] ELSE power
        /\ st' = IF Looping(j) THEN [st EXCEPT ![pd[j]] = "SUSPENDED"] ELSE st
    BY <1>7 DEF StopFailed
  <2>3. /\ power' \in [PDs -> Nat] /\ power'[Root] = power[Root]
        /\ \A u \in Users : j # Client(u) => power'[u] = power[u]
    BY <1>2, <1>3, <1>4, <2>2, DomainFacts
  <2>4. QED BY <1>2, <1>3, <2>1, <2>2, <2>3, ReturnStep
<1>8. QED BY <1>5, <1>6, <1>7
-----------------------------------------------------------------------------
(* Stopping a user.                                                        *)

\* rproc_shutdown of a user by its client.
LEMMA ShutdownStep == ASSUME Inv, NEW u \in Users, Shutdown(u) PROVE Inv'
<1> DEFINE c == Client(u)
<1>1. TypeOK /\ LabelInv /\ MutexInv /\ PowerInv /\ Uncrashed BY DEF Inv
<1>2. c \in Jobs /\ c \in Clients /\ c # Work(Root) /\ ~Looping(c) /\ c \in Of(u)
  BY JobFacts, KindFacts DEF Of
<1>3. /\ power' = [power EXCEPT ![u] = @ - 1] /\ power[u] > 0
      /\ lock[u] = None /\ at[c] = "idle"
  BY DEF Shutdown
<1>4. UNCHANGED <<st, wcss, up, pd, ix, queued, used>> BY DEF Shutdown
<1>5. u \in PDs /\ u # Root BY DomainFacts
<1>6. /\ power' \in [PDs -> Nat] /\ power'[Root] = power[Root]
      /\ \A v \in Users : v # u => power'[v] = power[v]
  <2>1. power[u] - 1 \in Nat BY <1>1, <1>3, <1>5 DEF TypeOK
  <2>2. QED BY <1>1, <1>3, <1>5, <2>1, DomainFacts DEF TypeOK
<1>7. at[c] \notin Booting /\ "stop" \notin Booting BY <1>3 DEF Booting, Starting
<1>8. CASE UNCHANGED <<at, lock>>
  <2>1. TypeOK' BY <1>1, <1>4, <1>6, <1>8 DEF TypeOK
  <2>2. LabelInv' /\ MutexInv' BY <1>1, <1>4, <1>8 DEF LabelInv, MutexInv
  <2>3. PowerInv' BY <1>1, <1>4, <1>6, <1>7, <1>8 DEF PowerInv
  <2>4. Uncrashed' BY <1>1, <1>4, <1>6, <1>8 DEF Uncrashed
  <2>5. QED BY <2>1, <2>2, <2>3, <2>4 DEF Inv
<1>9. CASE at' = [at EXCEPT ![c] = "stop"] /\ lock' = [lock EXCEPT ![u] = c]
  <2>1. "stop" \in Labels /\ "stop" \in May(c) /\ "stop" \notin Within(c)
        /\ "stop" \in ForUser /\ "stop" \notin Starting /\ at[c] \notin Starting
    BY <1>2, <1>3 DEF Labels, May, Within, ForUser, Booting, Starting, Stopping
  <2>2. TypeOK' BY <1>1, <1>2, <1>4, <1>5, <1>6, <1>9, <2>1 DEF TypeOK
  <2>3. LabelInv' BY <1>1, <1>2, <1>4, <1>9, <2>1, MoveLabel DEF Moves
  <2>4. MutexInv' BY <1>1, <1>2, <1>3, <1>9, <2>1, TakeUser
  <2>5. lock'[Root] = lock[Root] BY <1>1, <1>5, <1>9, DomainFacts DEF TypeOK
  <2>6. PowerInv'
    <3>1. at'[c] = "stop" /\ \A v \in Users : v # u => at'[Client(v)] = at[Client(v)]
      BY <1>1, <1>2, <1>9, JobFacts DEF TypeOK
    <3>2. QED BY <1>1, <1>4, <1>6, <1>7, <2>5, <3>1 DEF PowerInv
  <2>7. Uncrashed'
    BY <1>1, <1>2, <1>3, <1>4, <1>6, <1>9, <2>5, MoveUncrashed
  <2>8. QED BY <2>2, <2>3, <2>4, <2>6, <2>7 DEF Inv
<1>10. QED BY <1>8, <1>9 DEF Shutdown, Goto

\* rproc_shutdown of the root by pd_stop: the last user takes it down.
LEMMA RootPutStep == ASSUME Inv, NEW j \in Jobs, RootPut(j) PROVE Inv'
<1>1. TypeOK /\ LabelInv /\ MutexInv /\ PowerInv /\ Uncrashed BY DEF Inv
<1>2. /\ at[j] = "put" /\ at' = [at EXCEPT ![j] = "stopped"]
      /\ UNCHANGED <<wcss, lock, pd, ix, queued, used>>
  BY DEF RootPut, Goto
<1>3. /\ at[j] \in ForUser \ Starting /\ "stopped" \in ForUser \ Starting
      /\ "stopped" \in Labels /\ "stopped" \notin Booting /\ at[j] \in Stopping
  BY <1>2 DEF Labels, ForUser, Booting, Starting, Stopping
<1>4. CASE UNCHANGED <<st, power, up>>
  <2>1. Moves(j, "stopped") BY <1>2 DEF Moves
  <2>2. /\ st' \in [PDs -> {"OFFLINE", "RUNNING", "CRASHED", "SUSPENDED"}]
        /\ wcss' \in [PDs -> {"NORMAL", "RESTARTING", "SHUTDOWN"}] /\ up' \in SUBSET PDs
        /\ used' \in Uses
    <3>1. st' = st /\ wcss' = wcss /\ up' = up /\ used' = used BY <1>2, <1>4
    <3>2. QED BY <1>1, <3>1 DEF TypeOK, Uses
  <2>3. QED BY <1>2, <1>3, <1>4, <2>1, <2>2, PlainStep
<1>5. CASE ~UNCHANGED <<st, power, up>>
  <2>1. lock[Root] = None /\ st[Root] = "RUNNING" /\ power' = [power EXCEPT ![Root] = @ - 1]
    BY <1>5 DEF RootPut
  <2>2. IF power[Root] # 1 THEN UNCHANGED <<st, up>>
        ELSE st' = [st EXCEPT ![Root] = "OFFLINE"] /\ up' = {}
    BY <1>5 DEF RootPut
  <2>3. Root \in PDs /\ Root \notin Users BY DomainFacts
  <2>4. power[Root] \in Nat /\ power[Root] >= 1 BY <1>1, <2>1, <2>3 DEF TypeOK, PowerInv
  <2>5. /\ power' \in [PDs -> Nat] /\ power'[Root] = power[Root] - 1
        /\ \A u \in Users : power'[u] = power[u]
    <3>1. power[Root] - 1 \in Nat BY <2>4
    <3>2. QED BY <1>1, <2>1, <2>3, <3>1, DomainFacts DEF TypeOK
  <2>6. /\ st' \in [PDs -> {"OFFLINE", "RUNNING", "CRASHED", "SUSPENDED"}] /\ up' \in SUBSET PDs
        /\ power[Root] = 1 => st'[Root] = "OFFLINE" /\ Root \notin up'
        /\ power[Root] # 1 => st'[Root] = st[Root] /\ up' = up
    BY <1>1, <2>2, <2>3 DEF TypeOK
  <2>7. j # Work(Root)
    <3>1. j = Work(Root) => at[j] \in RootLabels(j) BY <1>3 DEF RootLabels
    <3>2. QED BY <1>1, <2>1, <3>1, JobFacts DEF MutexInv
  <2>8. ~Looping(j)
    BY <1>1, <1>2, <2>7, OfFacts DEF LabelInv, May, ForUser, Booting, Starting, Stopping
  <2>9. /\ "stopped" \in May(j) /\ "stopped" \notin Within(j)
        /\ "stopped" \notin RootLabels(j) /\ at[j] \notin RootLabels(j)
    BY <1>3, <2>7, <2>8 DEF May, Within, RootLabels
  <2>10. TypeOK' BY <1>1, <1>2, <1>3, <2>5, <2>6 DEF TypeOK
  <2>11. LabelInv' BY <1>1, <1>2, <2>9, MoveLabel DEF Moves
  <2>12. MutexInv' BY <1>1, <1>2, <1>3, <2>9, MoveMutex
  <2>13. \A k \in Jobs : at'[k] = IF k = j THEN "stopped" ELSE at[k]
    BY <1>1, <1>2 DEF TypeOK
  <2>14. PowerInv'
    <3>1. \A u \in Users : at'[Client(u)] \in Booting => at[Client(u)] \in Booting
      BY <1>3, <2>13, JobFacts
    <3>2. st'[Root] \in {"OFFLINE", "RUNNING"} BY <2>1, <2>6
    <3>3. st'[Root] = "RUNNING" => power'[Root] >= 1 BY <2>4, <2>5, <2>6
    <3>4. QED BY <1>1, <1>2, <2>1, <2>5, <3>1, <3>2, <3>3 DEF PowerInv
  <2>15. Uncrashed'
    <3>1. SUFFICES ASSUME used.root = 0 PROVE Uncrashed' BY <1>2 DEF Uncrashed
    <3>2. \A k \in Jobs : Looping(k) => at'[k] = "idle" BY <1>1, <2>8, <2>13, <3>1 DEF Uncrashed
    <3>3. Root \in up /\ power[Root] > 0 BY <1>1, <2>1, <3>1 DEF Uncrashed
    <3>4. (power'[Root] > 0 <=> Root \in up') /\ (st'[Root] = "RUNNING" <=> Root \in up')
          /\ st'[Root] \in {"OFFLINE", "RUNNING"}
      BY <2>1, <2>4, <2>5, <2>6, <3>3
    <3>5. QED BY <1>1, <1>2, <2>1, <3>1, <3>2, <3>4 DEF Uncrashed
  <2>16. QED BY <2>10, <2>11, <2>12, <2>14, <2>15 DEF Inv
<1>6. QED BY <1>4, <1>5

\* A root that refuses to be shut down.
LEMMA RootPutFailsStep == ASSUME Inv, NEW j \in Jobs, RootPutFails(j) PROVE Inv'
<1>1. TypeOK BY DEF Inv
<1>2. at[j] = "put" /\ Moves(j, "stopped") BY DEF RootPutFails, Goto, Moves
<1>3. UNCHANGED <<st, power, wcss, lock, up, queued>> BY DEF RootPutFails
<1>4. used' \in Uses /\ used'.root = used.root BY <1>1, FaultOnly DEF RootPutFails
<1>5. /\ at[j] \in ForUser \ Starting /\ "stopped" \in ForUser \ Starting
      /\ "stopped" \in Labels /\ "stopped" \notin Booting /\ at[j] \in Stopping
  BY <1>2 DEF Labels, ForUser, Booting, Starting, Stopping
<1>6. /\ st' \in [PDs -> {"OFFLINE", "RUNNING", "CRASHED", "SUSPENDED"}]
      /\ wcss' \in [PDs -> {"NORMAL", "RESTARTING", "SHUTDOWN"}] /\ up' \in SUBSET PDs
      /\ st' = st /\ wcss' = wcss /\ up' = up
  BY <1>1, <1>3 DEF TypeOK
<1>7. QED BY <1>2, <1>3, <1>4, <1>5, <1>6, PlainStep

LEMMA StoppedStep == ASSUME Inv, NEW j \in Jobs, Stopped(j) PROVE Inv'
<1>1. TypeOK /\ LabelInv /\ pd[j] \in Users BY DEF Inv, TypeOK
<1>2. pd[j] \in PDs /\ pd[j] # Root /\ Root \in PDs BY <1>1, DomainFacts
<1>3. /\ st \in [PDs -> {"OFFLINE", "RUNNING", "CRASHED", "SUSPENDED"}]
      /\ wcss \in [PDs -> {"NORMAL", "RESTARTING", "SHUTDOWN"}] /\ power \in [PDs -> Nat]
      /\ up \in SUBSET PDs
      /\ used \in Uses
  BY <1>1 DEF TypeOK, Uses
<1>4. /\ at[j] = "stopped" /\ UNCHANGED <<power, up, pd, queued, used>>
      /\ wcss' = [wcss EXCEPT ![pd[j]] = "SHUTDOWN"]
      /\ st' = [st EXCEPT ![pd[j]] = IF Looping(j) THEN "SUSPENDED" ELSE "OFFLINE"]
  BY DEF Stopped
<1>5. at[j] \in ForUser \ Starting BY <1>4 DEF ForUser, Booting, Starting, Stopping
<1>6. /\ st' \in [PDs -> {"OFFLINE", "RUNNING", "CRASHED", "SUSPENDED"}] /\ st'[Root] = st[Root]
      /\ wcss' \in [PDs -> {"NORMAL", "RESTARTING", "SHUTDOWN"}] /\ wcss'[Root] = wcss[Root]
  BY <1>2, <1>3, <1>4
<1>7. CASE Return(j) BY <1>3, <1>4, <1>5, <1>6, <1>7, ReturnStep
<1>8. CASE ~(j \in Clients \/ Looping(j))
  <2>1. Moves(j, "load") /\ UNCHANGED lock BY <1>4, <1>8 DEF Stopped, Goto, Moves
  <2>2. "load" \in Labels /\ "load" \in ForUser \ Starting /\ "load" \notin Stopping
    BY DEF Labels, ForUser, Booting, Starting, Stopping
  <2>3. QED BY <1>3, <1>4, <1>5, <1>6, <1>8, <2>1, <2>2, PlainStep
<1>9. QED BY <1>7, <1>8 DEF Stopped

-----------------------------------------------------------------------------
(* Crashes and recovery.                                                   *)

LEMMA CrashSteps ==
  ASSUME Inv, RootCrash \/ \E u \in Users : UserCrash(u) PROVE Inv'
<1>1. TypeOK /\ LabelInv /\ MutexInv /\ PowerInv /\ Uncrashed BY DEF Inv
<1>2. UNCHANGED <<st, power, wcss, lock, at, pd, ix>> BY DEF RootCrash, UserCrash
<1>3. LabelInv' /\ MutexInv' /\ PowerInv' BY <1>1, <1>2 DEF LabelInv, MutexInv, PowerInv
<1>4. Root \in PDs /\ Root \notin Users /\ Users \subseteq PDs BY DomainFacts
<1>5. MaxRootCrash \in Nat /\ MaxUserCrash \in Nat BY ConstantsOK
<1>6. CASE RootCrash
  <2>1. /\ used.root < MaxRootCrash /\ used' = [used EXCEPT !.root = @ + 1]
        /\ up' = {} /\ queued' = queued \cup {Root}
    BY <1>6 DEF RootCrash
  <2>2. used.root \in 0 .. MaxRootCrash BY <1>1 DEF TypeOK
  <2>3. used.root + 1 \in 0 .. MaxRootCrash /\ used.root + 1 # 0 BY <1>5, <2>1, <2>2
  <2>4. /\ used' \in Uses
        /\ used'.root # 0
    BY <1>1, <2>1, <2>3 DEF TypeOK, Uses
  <2>5. TypeOK' BY <1>1, <1>2, <1>4, <2>1, <2>4 DEF TypeOK, Uses
  <2>6. Uncrashed' BY <2>4 DEF Uncrashed
  <2>7. QED BY <1>3, <2>5, <2>6 DEF Inv
<1>7. ASSUME NEW u \in Users, UserCrash(u) PROVE Inv'
  <2>1. /\ used.user < MaxUserCrash /\ used' = [used EXCEPT !.user = @ + 1]
        /\ up' = up \ {u} /\ queued' = queued \cup {u}
    BY <1>7 DEF UserCrash
  <2>2. used.user \in 0 .. MaxUserCrash BY <1>1 DEF TypeOK
  <2>3. used.user + 1 \in 0 .. MaxUserCrash BY <1>5, <2>1, <2>2
  <2>4. /\ used' \in Uses
        /\ used'.root = used.root
    BY <1>1, <2>1, <2>3 DEF TypeOK, Uses
  <2>5. TypeOK' BY <1>1, <1>2, <1>4, <2>1, <2>4 DEF TypeOK, Uses
  <2>6. Uncrashed' BY <1>1, <1>2, <1>4, <2>1, <2>4 DEF Uncrashed
  <2>7. QED BY <1>3, <2>5, <2>6 DEF Inv
<1>8. QED BY <1>6, <1>7

\* rproc_crash_handler_work, up to the recovery.
LEMMA SeenStep == ASSUME Inv, NEW p \in PDs, CrashSeen(p) PROVE Inv'
<1> DEFINE w == Work(p)
<1>1. TypeOK /\ LabelInv /\ MutexInv /\ PowerInv /\ Uncrashed BY DEF Inv
<1>2. /\ p \in queued /\ at[w] = "idle" /\ lock[p] = None /\ queued' = queued \ {p}
      /\ UNCHANGED <<power, wcss, lock, up, pd, ix, used>>
  BY DEF CrashSeen
<1>3. w \in Jobs /\ w \notin Clients /\ (p = Root <=> w = Work(Root)) /\ (Looping(w) <=> p = Root)
  BY JobFacts, KindFacts, DomainFacts
<1>4. used.root = 0 => p # Root BY <1>1, <1>2 DEF Uncrashed
<1>5. queued' \in SUBSET PDs BY <1>1, <1>2 DEF TypeOK
<1>6. CASE UNCHANGED <<st, at>>
  <2>1. TypeOK' BY <1>1, <1>2, <1>5, <1>6 DEF TypeOK
  <2>2. LabelInv' /\ MutexInv' /\ PowerInv'
    BY <1>1, <1>2, <1>6 DEF LabelInv, MutexInv, PowerInv
  <2>3. Uncrashed' BY <1>1, <1>2, <1>6 DEF Uncrashed
  <2>4. QED BY <2>1, <2>2, <2>3 DEF Inv
<1>7. CASE /\ st[p] \notin {"CRASHED", "OFFLINE"}
           /\ st' = [st EXCEPT ![p] = "CRASHED"] /\ at' = [at EXCEPT ![w] = "recover"]
  <2>1. /\ "recover" \in Labels /\ "recover" \in May(w) /\ "recover" \notin Within(w)
        /\ "recover" \notin ForUser /\ at[w] \notin ForUser
        /\ "recover" \notin RootLabels(w) /\ at[w] \notin RootLabels(w)
    BY <1>2, <1>3
    DEF Labels, May, Within, RootLabels, ForUser, Booting, Starting, Stopping
  <2>2. /\ st' \in [PDs -> {"OFFLINE", "RUNNING", "CRASHED", "SUSPENDED"}]
        /\ st'[p] = "CRASHED" /\ \A q \in PDs : q # p => st'[q] = st[q]
    BY <1>1, <1>7 DEF TypeOK
  <2>3. TypeOK' BY <1>1, <1>2, <1>3, <1>5, <1>7, <2>1, <2>2 DEF TypeOK
  <2>4. LabelInv' BY <1>1, <1>2, <1>3, <1>7, <2>1, MoveLabel DEF Moves
  <2>5. MutexInv' BY <1>1, <1>2, <1>3, <1>7, <2>1, MoveMutex
  <2>6. \A k \in Jobs : at'[k] = IF k = w THEN "recover" ELSE at[k]
    BY <1>1, <1>3, <1>7 DEF TypeOK
  <2>7. PowerInv'
    <3>1. \A u \in Users : at'[Client(u)] = at[Client(u)] BY <1>3, <2>6, JobFacts, KindFacts
    <3>2. CASE p = Root
      <4>1. st[Root] = "RUNNING" BY <1>1, <1>7, <3>2, DomainFacts DEF TypeOK, PowerInv
      <4>2. QED BY <1>1, <1>2, <2>2, <3>1, <3>2, <4>1 DEF PowerInv
    <3>3. CASE p # Root BY <1>1, <1>2, <2>2, <3>1, <3>3, DomainFacts DEF PowerInv
    <3>4. QED BY <3>2, <3>3
  <2>8. Uncrashed'
    <3>1. SUFFICES ASSUME used.root = 0 PROVE Uncrashed' BY <1>2 DEF Uncrashed
    <3>2. st'[Root] = st[Root] BY <1>4, <2>2, <3>1, DomainFacts
    <3>3. \A k \in Jobs : Looping(k) => at'[k] = "idle"
      BY <1>1, <1>3, <1>4, <2>6, <3>1 DEF Uncrashed
    <3>4. lock[Root] # None => (at'[lock[Root]] = "rootrun" <=> at[lock[Root]] = "rootrun")
      BY <1>1, <1>2, <2>6, DomainFacts DEF TypeOK
    <3>5. QED BY <1>1, <1>2, <3>1, <3>2, <3>3, <3>4 DEF Uncrashed
  <2>9. QED BY <2>3, <2>4, <2>5, <2>7, <2>8 DEF Inv
<1>8. QED BY <1>6, <1>7 DEF CrashSeen, Goto

\* rproc_trigger_recovery and rproc_boot_recovery, when they have the mutex.
LEMMA RecoverStep == ASSUME Inv, NEW p \in PDs, Recover(p) PROVE Inv'
<1> DEFINE w == Work(p)
<1>1. TypeOK /\ LabelInv /\ MutexInv /\ PowerInv /\ Uncrashed BY DEF Inv
<1>2. /\ at[w] = "recover" /\ lock[p] = None
      /\ UNCHANGED <<st, power, wcss, up, pd, queued, used>>
  BY DEF Recover
<1>3. w \in Jobs /\ w \notin Clients /\ (p = Root <=> w = Work(Root)) /\ (Looping(w) <=> p = Root)
  BY JobFacts, KindFacts, DomainFacts
<1>4. at[w] \notin ForUser /\ at[w] \notin RootLabels(w) /\ at[w] \notin Starting
  BY <1>2 DEF RootLabels, ForUser, Booting, Starting, Stopping
<1>5. CASE at' = [at EXCEPT ![w] = "idle"] /\ UNCHANGED <<lock, ix>>
  <2>1. /\ "idle" \in Labels /\ "idle" \in May(w) /\ "idle" \notin Within(w)
        /\ "idle" \notin ForUser /\ "idle" \notin RootLabels(w) /\ "idle" \notin Booting
    BY <1>3 DEF Labels, May, Within, RootLabels, ForUser, Booting, Starting, Stopping
  <2>2. TypeOK' BY <1>1, <1>2, <1>3, <1>5, <2>1 DEF TypeOK
  <2>3. LabelInv' BY <1>1, <1>2, <1>3, <1>5, <2>1, MoveLabel DEF Moves
  <2>4. MutexInv' BY <1>1, <1>3, <1>4, <1>5, <2>1, MoveMutex
  <2>5. PowerInv' BY <1>1, <1>2, <1>3, <1>5, MovePower
  <2>6. Uncrashed' BY <1>1, <1>2, <1>3, <1>5, MoveUncrashed
  <2>7. QED BY <2>2, <2>3, <2>4, <2>5, <2>6 DEF Inv
<1>6. ASSUME NEW l, l = (IF p = Root THEN "sweep" ELSE "stop"), st[p] = "CRASHED",
             lock' = [lock EXCEPT ![p] = w], at' = [at EXCEPT ![w] = l],
             ix' = [ix EXCEPT ![w] = 1]
      PROVE Inv'
  <2>1. /\ l \in Labels /\ l \in May(w) /\ l # "idle"
        /\ l \notin Booting /\ l \notin Starting /\ l # "rootrun"
        /\ p = Root => l \notin ForUser /\ l \in RootLabels(w) /\ l \notin Within(w)
        /\ p # Root => l \in ForUser /\ l \notin Within(w)
    BY <1>3, <1>6 DEF Labels, May, Within, RootLabels, ForUser, Booting, Starting, Stopping
  <2>2. /\ ix' \in [Jobs -> 1..(Len(Order) + 1)]
        /\ \A k \in Jobs : k # w => ix'[k] = ix[k]
    <3>1. 1 \in 1..(Len(Order) + 1) BY DomainFacts
    <3>2. QED BY <1>1, <1>6, <3>1 DEF TypeOK
  <2>3. lock' \in [PDs -> Jobs \cup {None}] BY <1>1, <1>3, <1>6 DEF TypeOK
  <2>4. TypeOK' BY <1>1, <1>2, <1>3, <1>6, <2>1, <2>2, <2>3 DEF TypeOK
  <2>5. LabelInv' BY <1>1, <1>2, <1>3, <1>6, <2>1, <2>2, MoveLoop
  <2>6. \A k \in Jobs : at'[k] = IF k = w THEN l ELSE at[k] BY <1>1, <1>3, <1>6 DEF TypeOK
  <2>7. \A u \in Users : at'[Client(u)] = at[Client(u)] BY <1>3, <2>6, JobFacts, KindFacts
  <2>8. CASE p = Root
    <3>1. MutexInv' BY <1>1, <1>2, <1>3, <1>4, <1>6, <2>1, <2>8, TakeRoot
    <3>2. lock'[Root] = w BY <1>1, <1>6, <2>8, DomainFacts DEF TypeOK
    <3>3. PowerInv' BY <1>1, <1>2, <1>3, <1>6, <2>7, <2>8, <3>2 DEF PowerInv
    <3>4. used'.root # 0 BY <1>1, <1>2, <1>3, <2>8 DEF Uncrashed
    <3>5. QED BY <2>4, <2>5, <3>1, <3>3, <3>4 DEF Inv, Uncrashed
  <2>9. CASE p # Root
    <3>1. p \in Users /\ w \in Of(p) BY <2>9, DomainFacts DEF Of
    <3>2. lock'[Root] = lock[Root] BY <1>1, <1>6, <2>9, DomainFacts DEF TypeOK
    <3>3. MutexInv' BY <1>1, <1>2, <1>4, <1>6, <2>1, <2>9, <3>1, TakeUser
    <3>4. PowerInv' BY <1>1, <1>2, <2>7, <3>2 DEF PowerInv
    <3>5. Uncrashed' BY <1>1, <1>2, <1>3, <1>6, <2>1, <2>9, <3>2, MoveUncrashed
    <3>6. QED BY <2>4, <2>5, <3>3, <3>4, <3>5 DEF Inv
  <2>10. QED BY <2>8, <2>9
<1>7. QED BY <1>5, <1>6 DEF Recover, Goto

\* A step of a loop over the users: it has a crash behind it.
LEMMA LoopStep ==
  ASSUME Inv, NEW j \in Jobs, NEW l \in May(j), Looping(j), at[j] # "idle",
         at' = [at EXCEPT ![j] = l], UNCHANGED <<power, lock, queued, used>>,
         l \in Labels, l \in RootLabels(j) <=> at[j] \in RootLabels(j),
         l \in Within(j) => ix'[j] <= Len(Order),
         \A k \in Jobs : k # j => pd'[k] = pd[k] /\ ix'[k] = ix[k],
         st' \in [PDs -> {"OFFLINE", "RUNNING", "CRASHED", "SUSPENDED"}],
         st'[Root] \in {st[Root], "OFFLINE"},
         wcss' \in [PDs -> {"NORMAL", "RESTARTING", "SHUTDOWN"}], up' \in SUBSET PDs,
         pd' \in [Jobs -> Users], ix' \in [Jobs -> 1..(Len(Order) + 1)]
  PROVE Inv'
<1>1. TypeOK /\ LabelInv /\ MutexInv /\ PowerInv /\ Uncrashed BY DEF Inv
<1>2. TypeOK' BY <1>1 DEF TypeOK
<1>3. LabelInv' BY <1>1, MoveLoop
<1>4. lock' = lock /\ used' = used OBVIOUS
<1>5. MutexInv' BY <1>1, <1>4, MoveMutex
<1>6. \A k \in Jobs : at'[k] = IF k = j THEN l ELSE at[k] BY <1>1 DEF TypeOK
<1>7. \A u \in Users : at'[Client(u)] = at[Client(u)] BY <1>6, JobFacts, KindFacts
<1>8. PowerInv' BY <1>1, <1>7 DEF PowerInv
<1>9. used'.root # 0 BY <1>1, <1>4 DEF Uncrashed
<1>10. QED BY <1>2, <1>3, <1>5, <1>8, <1>9 DEF Inv, Uncrashed

\* q6_wcss_stop of a crashed root.
LEMMA SweepSteps == ASSUME Inv, Sweep \/ RootDown PROVE Inv'
<1> DEFINE w == Work(Root)
<1>1. TypeOK BY DEF Inv
<1>2. w \in Jobs /\ Looping(w) /\ Root \in PDs BY JobFacts, KindFacts, DomainFacts
<1>3. /\ {"sweep", "stop", "rootstart"} \subseteq Labels \cap May(w) \cap RootLabels(w)
      /\ "sweep" \notin Within(w) /\ "rootstart" \notin Within(w)
  BY DEF Labels, May, RootLabels, Within, Starting, Stopping
<1>4. CASE Sweep
  <2> DEFINE u == Order[ix[w]]
  <2>1. /\ at[w] = "sweep" /\ ix[w] <= Len(Order)
        /\ UNCHANGED <<power, wcss, lock, up, queued, used>>
    BY <1>4 DEF Sweep
  <2>2. ix[w] \in 1..Len(Order) BY <1>1, <1>2, <2>1, DomainFacts DEF TypeOK
  <2>3. u \in Users /\ u \in PDs /\ u # Root BY <2>2, DomainFacts
  <2>4. CASE /\ st' = [st EXCEPT ![u] = "CRASHED"] /\ pd' = [pd EXCEPT ![w] = u]
             /\ at' = [at EXCEPT ![w] = "stop"] /\ UNCHANGED ix
    <3>1. /\ st' \in [PDs -> {"OFFLINE", "RUNNING", "CRASHED", "SUSPENDED"}]
          /\ st'[Root] = st[Root]
      BY <1>1, <1>2, <2>3, <2>4 DEF TypeOK
    <3>2. /\ pd' \in [Jobs -> Users] /\ ix' = ix
          /\ \A k \in Jobs : k # w => pd'[k] = pd[k]
      BY <1>1, <1>2, <2>3, <2>4 DEF TypeOK
    <3>3. wcss' = wcss /\ up' = up BY <2>1
    <3>4. /\ wcss' \in [PDs -> {"NORMAL", "RESTARTING", "SHUTDOWN"}] /\ up' \in SUBSET PDs
          /\ ix' \in [Jobs -> 1..(Len(Order) + 1)]
      BY <1>1, <3>2, <3>3 DEF TypeOK
    <3>5. /\ "stop" \in May(w) /\ "stop" \in Labels /\ at[w] # "idle"
          /\ "stop" \in RootLabels(w) /\ at[w] \in RootLabels(w) /\ ix'[w] <= Len(Order)
          /\ \A k \in Jobs : ix'[k] = ix[k]
      BY <1>3, <2>1, <3>2
    <3>6. UNCHANGED <<power, lock, queued, used>> BY <2>1
    <3>7. QED BY <1>2, <2>4, <3>1, <3>2, <3>4, <3>5, <3>6, LoopStep
  <2>5. CASE ix' = [ix EXCEPT ![w] = @ + 1] /\ UNCHANGED <<st, pd, at>>
    <3>1. at' = [at EXCEPT ![w] = "sweep"] BY <1>1, <1>2, <2>1, <2>5 DEF TypeOK
    <3>2. ix[w] + 1 \in 1..(Len(Order) + 1) BY <2>2, DomainFacts
    <3>3. /\ ix' \in [Jobs -> 1..(Len(Order) + 1)]
          /\ \A k \in Jobs : k # w => ix'[k] = ix[k]
      BY <1>1, <1>2, <2>5, <3>2 DEF TypeOK
    <3>4. wcss' = wcss /\ up' = up /\ st' = st /\ pd' = pd BY <2>1, <2>5
    <3>5. QED BY <1>1, <1>2, <1>3, <2>1, <3>1, <3>3, <3>4, LoopStep DEF TypeOK
  <2>6. QED BY <1>4, <2>4, <2>5 DEF Sweep, Goto
<1>5. CASE RootDown
  <2>1. /\ at[w] = "sweep" /\ at' = [at EXCEPT ![w] = "rootstart"]
        /\ UNCHANGED <<power, lock, pd, ix, queued, used>> /\ up' = {}
        /\ wcss' = [wcss EXCEPT ![Root] = "RESTARTING"] /\ st' = [st EXCEPT ![Root] = "OFFLINE"]
    BY <1>5 DEF RootDown, Goto
  <2>2. /\ st' \in [PDs -> {"OFFLINE", "RUNNING", "CRASHED", "SUSPENDED"}]
        /\ st'[Root] = "OFFLINE"
        /\ wcss' \in [PDs -> {"NORMAL", "RESTARTING", "SHUTDOWN"}]
    BY <1>1, <1>2, <2>1 DEF TypeOK
  <2>3. pd' = pd /\ ix' = ix BY <2>1
  <2>4. /\ pd' \in [Jobs -> Users] /\ ix' \in [Jobs -> 1..(Len(Order) + 1)]
        /\ up' \in SUBSET PDs
    BY <1>1, <2>1, <2>3 DEF TypeOK
  <2>5. /\ "rootstart" \in May(w) /\ "rootstart" \in Labels /\ at[w] # "idle"
        /\ "rootstart" \in RootLabels(w) /\ at[w] \in RootLabels(w)
        /\ \A k \in Jobs : ix'[k] = ix[k] /\ pd'[k] = pd[k]
    BY <1>3, <2>1, <2>3
  <2>6. UNCHANGED <<power, lock, queued, used>> BY <2>1
  <2>7. QED BY <1>2, <1>3, <2>1, <2>2, <2>4, <2>5, <2>6, LoopStep
<1>6. QED BY <1>4, <1>5

\* The recovery gives up: the root's mutex is free, and its state says that it crashed.
LEMMA RootDownFailsStep == ASSUME Inv, RootDownFails PROVE Inv'
<1> DEFINE w == Work(Root)
<1>1. TypeOK /\ LabelInv /\ MutexInv /\ PowerInv /\ Uncrashed BY DEF Inv
<1>2. w \in Jobs /\ Looping(w) /\ w \notin Clients /\ Root \in PDs
  BY JobFacts, KindFacts, DomainFacts
<1>3. /\ at[w] = "sweep" /\ at' = [at EXCEPT ![w] = "idle"] /\ UNCHANGED <<pd, ix>>
      /\ lock' = [lock EXCEPT ![Root] = None] /\ wcss' = [wcss EXCEPT ![Root] = "RESTARTING"]
      /\ UNCHANGED <<st, power, up, queued>>
  BY DEF RootDownFails, Goto
<1>4. used' \in Uses /\ used'.root = used.root BY <1>1, FaultOnly DEF RootDownFails
<1>5. /\ "idle" \in May(w) /\ "idle" \in Labels /\ "idle" \notin Within(w)
      /\ "idle" \notin RootLabels(w) /\ at[w] \in RootLabels(w) /\ "idle" \notin Booting
  BY <1>3 DEF May, Labels, Within, RootLabels, Booting, Starting, Stopping
<1>6. /\ at' \in [Jobs -> Labels] /\ lock' \in [PDs -> Jobs \cup {None}]
      /\ wcss' \in [PDs -> {"NORMAL", "RESTARTING", "SHUTDOWN"}]
      /\ lock'[Root] = None
  BY <1>1, <1>2, <1>3, <1>5 DEF TypeOK
<1>7. TypeOK' BY <1>1, <1>3, <1>4, <1>6 DEF TypeOK, Uses
<1>8. LabelInv' BY <1>1, <1>2, <1>3, <1>5, MoveLabel DEF Moves
<1>9. MutexInv'
  <2>1. \A u \in Users : w \notin Of(u) BY JobFacts DEF Of
  <2>2. QED BY <1>1, <1>2, <1>3, <1>5, <2>1, GiveRoot
<1>10. lock[Root] = w /\ w # None BY <1>1, <1>2, <1>5, JobFacts DEF MutexInv
<1>11. \A u \in Users : at'[Client(u)] = at[Client(u)]
  BY <1>1, <1>2, <1>3, JobFacts, KindFacts DEF TypeOK
<1>12. PowerInv' BY <1>1, <1>3, <1>6, <1>10, <1>11 DEF PowerInv
<1>13. used'.root # 0 BY <1>1, <1>2, <1>3, <1>4 DEF Uncrashed
<1>14. QED BY <1>7, <1>8, <1>9, <1>12, <1>13 DEF Inv, Uncrashed

\* handle_upd_in_rpd_crash.
LEMMA ThreadSteps ==
  ASSUME Inv, NEW t \in Threads, Spin(t) \/ Scan(t) \/ ScanDone(t) PROVE Inv'
<1> DEFINE j == Thread(t)
<1>1. TypeOK BY DEF Inv
<1>2. j \in Jobs /\ Looping(j) /\ j # Work(Root) /\ j \notin Clients /\ Root \in PDs
  BY JobFacts, KindFacts, DomainFacts
<1>3. /\ {"scan", "load", "idle"} \subseteq Labels \cap May(j)
      /\ "scan" \notin Within(j) /\ "idle" \notin Within(j)
      /\ \A l \in {"spin", "scan", "load", "idle"} : l \notin RootLabels(j)
  BY <1>2 DEF Labels, May, RootLabels, Within, Booting, Starting
<1>4. CASE Spin(t)
  <2>1. /\ at[j] = "spin" /\ at' = [at EXCEPT ![j] = "scan"] /\ ix' = [ix EXCEPT ![j] = 1]
        /\ UNCHANGED <<st, power, wcss, lock, up, pd, queued, used>>
    BY <1>4 DEF Spin, Goto
  <2>2. 1 \in 1..(Len(Order) + 1) BY DomainFacts
  <2>3. /\ ix' \in [Jobs -> 1..(Len(Order) + 1)]
        /\ \A k \in Jobs : k # j => ix'[k] = ix[k]
    BY <1>1, <1>2, <2>1, <2>2 DEF TypeOK
  <2>4. wcss' = wcss /\ up' = up /\ st' = st /\ pd' = pd BY <2>1
  <2>5. QED BY <1>1, <1>2, <1>3, <2>1, <2>3, <2>4, LoopStep DEF TypeOK
<1>5. CASE Scan(t)
  <2> DEFINE u == Order[ix[j]]
  <2>1. /\ at[j] = "scan" /\ ix[j] <= Len(Order)
        /\ UNCHANGED <<st, power, wcss, lock, up, queued, used>>
    BY <1>5 DEF Scan
  <2>2. ix[j] \in 1..Len(Order) BY <1>1, <1>2, <2>1, DomainFacts DEF TypeOK
  <2>3. u \in Users BY <2>2, DomainFacts
  <2>4. wcss' = wcss /\ up' = up /\ st' = st BY <2>1
  <2>5. CASE pd' = [pd EXCEPT ![j] = u] /\ at' = [at EXCEPT ![j] = "load"] /\ UNCHANGED ix
    <3>1. /\ pd' \in [Jobs -> Users] /\ ix' = ix
          /\ \A k \in Jobs : k # j => pd'[k] = pd[k]
      BY <1>1, <1>2, <2>3, <2>5 DEF TypeOK
    <3>2. QED BY <1>1, <1>2, <1>3, <2>1, <2>4, <2>5, <3>1, LoopStep DEF TypeOK
  <2>6. CASE ix' = [ix EXCEPT ![j] = @ + 1] /\ UNCHANGED <<pd, at>>
    <3>1. at' = [at EXCEPT ![j] = "scan"] BY <1>1, <1>2, <2>1, <2>6 DEF TypeOK
    <3>2. ix[j] + 1 \in 1..(Len(Order) + 1) BY <2>2, DomainFacts
    <3>3. /\ ix' \in [Jobs -> 1..(Len(Order) + 1)]
          /\ \A k \in Jobs : k # j => ix'[k] = ix[k]
      BY <1>1, <1>2, <2>6, <3>2 DEF TypeOK
    <3>4. pd' = pd BY <2>6
    <3>5. QED BY <1>1, <1>2, <1>3, <2>1, <2>4, <3>1, <3>3, <3>4, LoopStep DEF TypeOK
  <2>7. QED BY <1>5, <2>5, <2>6 DEF Scan, Goto
<1>6. CASE ScanDone(t)
  <2>1. /\ at[j] = "scan" /\ at' = [at EXCEPT ![j] = "idle"]
        /\ wcss' = [wcss EXCEPT ![Root] = "NORMAL"]
        /\ UNCHANGED <<st, power, lock, up, pd, ix, queued, used>>
    BY <1>6 DEF ScanDone, Goto
  <2>2. wcss' \in [PDs -> {"NORMAL", "RESTARTING", "SHUTDOWN"}] BY <1>1, <1>2, <2>1 DEF TypeOK
  <2>3. up' = up /\ st' = st /\ pd' = pd /\ ix' = ix BY <2>1
  <2>4. QED BY <1>1, <1>2, <1>3, <2>1, <2>2, <2>3, LoopStep DEF TypeOK
<1>7. QED BY <1>4, <1>5, <1>6

-----------------------------------------------------------------------------
(* The specification.                                                      *)

LEMMA StutterInv == ASSUME Inv, UNCHANGED vars PROVE Inv'
BY DEF vars, Inv, TypeOK, LabelInv, MutexInv, PowerInv, Uncrashed

LEMMA NextInv == Inv /\ [Next]_vars => Inv'
<1> SUFFICES ASSUME Inv, Next PROVE Inv' BY StutterInv
<1>1. ASSUME NEW j \in Jobs, Step(j) PROVE Inv'
  <2>1. CASE Load(j) \/ Start(j) \/ Stop(j) BY <2>1, StartSteps
  <2>2. CASE RootGet(j) BY <2>2, RootGetStep
  <2>3. CASE RootStart(j) BY <2>3, RootStartSteps
  <2>4. CASE RootRuns(j) \/ RootFailed(j) BY <2>4, RootEndSteps
  <2>5. CASE Run(j) \/ Fail(j) \/ StopFailed(j) BY <2>5, ReturnSteps
  <2>6. CASE RootPut(j) BY <2>6, RootPutStep
  <2>7. CASE Stopped(j) BY <2>7, StoppedStep
  <2>8. ASSUME NEW p \in PDs, CrashSeen(p) \/ Recover(p) PROVE Inv'
    BY <2>8, SeenStep, RecoverStep
  <2>9. CASE Sweep \/ RootDown BY <2>9, SweepSteps
  <2>10. ASSUME NEW t \in Threads, Spin(t) \/ Scan(t) \/ ScanDone(t) PROVE Inv'
    BY <2>10, ThreadSteps
  <2>11. QED
    BY <1>1, <2>1, <2>2, <2>3, <2>4, <2>5, <2>6, <2>7, <2>8, <2>9, <2>10 DEF Step
<1>2. ASSUME NEW j \in Jobs, RootStartFails(j) PROVE Inv' BY <1>2, RootStartSteps
<1>3. ASSUME NEW j \in Jobs, StartFails(j) \/ StopFails(j) PROVE Inv' BY <1>3, StartSteps
<1>4. ASSUME NEW j \in Jobs, RootPutFails(j) PROVE Inv' BY <1>4, RootPutFailsStep
<1>5. ASSUME NEW u \in Users, Boot(u) PROVE Inv' BY <1>5, BootStep
<1>6. ASSUME NEW u \in Users, Shutdown(u) PROVE Inv' BY <1>6, ShutdownStep
<1>7. CASE RootCrash \/ \E u \in Users : UserCrash(u) BY <1>7, CrashSteps
<1>8. CASE RootDownFails BY <1>8, RootDownFailsStep
<1>9. QED BY <1>1, <1>2, <1>3, <1>4, <1>5, <1>6, <1>7, <1>8 DEF Next

\* The inductive invariant holds of every behaviour.
THEOREM InvHolds == Spec => []Inv
<1>1. QED BY InitInv, NextInv, PTL DEF Spec

\* The variables keep their types: in particular no rproc_shutdown, no failed boot and no
\* recovery takes the count of an rproc below zero, and neither loop over the users runs
\* past the end of the device tree's list (q6_wcss_stop, handle_upd_in_rpd_crash).
THEOREM TypeCorrect == Spec => []TypeOK
<1>1. Inv => TypeOK BY DEF Inv
<1>2. QED BY <1>1, InvHolds, PTL

\* The position of every client, crash worker and restart thread says which rproc mutex it
\* holds: two of them are never at once inside the boot, shutdown or recovery of one user
\* domain that takes its mutex, nor of the root (rproc->lock in rproc_boot, rproc_shutdown
\* and rproc_trigger_recovery, as pd_load and pd_stop call them).
THEOREM MutexCorrect == Spec => []MutexInv
<1>1. Inv => MutexInv BY DEF Inv
<1>2. QED BY <1>1, InvHolds, PTL

\* Until the root crashes, it executes exactly while its power count says that somebody
\* uses it: a failed boot of the root counts nobody, the first user starts it, the last one
\* to stop takes it down (rproc_boot in pd_load, rproc_shutdown in pd_stop).
THEOREM RootUpCorrect == Spec => []RootUpWhileReferenced
<1>1. Inv => RootUpWhileReferenced BY DEF Inv, Uncrashed, RootUpWhileReferenced
<1>2. QED BY <1>1, InvHolds, PTL

-----------------------------------------------------------------------------
(* The invariant while crashes of the root keep apart (~Overlap).          *)

\* A user whose reference on the root is counted, a boot of the root that failed included.
Member(u) == Holds(u) \/ at[Client(u)] = "rootfail"
Counted   == {u \in Users : Member(u)}

\* From a crash of the root until its worker has stopped every user.
Sweeping == Root \in queued \/ at[Work(Root)] \in {"recover", "sweep"} \cup Stopping

\* One thing at a time: a recovery of the root has no call beside it and one restart
\* thread, and before the first crash of a user no worker of a user runs.
TurnInv ==
  /\ used.user = 0 => queued \subseteq {Root} /\ \A u \in Users : at[Work(u)] = "idle"
  /\ used.root > 0 => Alone /\ (Idle(Clients) \/ Calm)
  /\ Root \in queued => Idle(Recoveries)
  /\ at[Work(Root)] # "idle" =>
       \A t \in Threads :
         at[Thread(t)] = "idle" \/ (at[Thread(t)] = "spin" /\ at[Work(Root)] = "rootrun")
  /\ \A t, r \in Threads : at[Thread(t)] # "idle" /\ at[Thread(r)] # "idle" => t = r

\* The root's count, state and execution agree, or it is being started.
Agree ==
  IF lock[Root] = None
  THEN (power[Root] > 0 <=> Root \in up) /\ (st[Root] = "RUNNING" <=> Root \in up)
  ELSE power[Root] = 1 /\ (at[lock[Root]] = "rootrun" <=> Root \in up)

\* What a restart thread may be doing, and to whom.
ThreadInv ==
  \A t \in Threads :
    /\ at[Thread(t)] \in {"idle", "spin", "scan", "load", "start", "run"}
    /\ at[Thread(t)] \notin {"idle", "spin"} => st[Root] = "RUNNING"
    /\ at[Thread(t)] \in Booting => st[pd[Thread(t)]] = "SUSPENDED"

\* The root is RESTARTING from when its worker took it down until the thread has started
\* the users; its state says how far the worker is, and agrees with the rest otherwise.
RestartInv ==
  /\ \A u \in Users : wcss[u] # "RESTARTING"
  /\ wcss[Root] = "RESTARTING" <=>
       at[Work(Root)] = "rootstart" \/ \E t \in Threads : at[Thread(t)] # "idle"
  /\ Sweeping => /\ up = {}
                 /\ st[Root] = IF Root \in queued THEN "RUNNING" ELSE "CRASHED"
  /\ at[Work(Root)] \in Starting => st[Root] = "OFFLINE" /\ at[Work(Root)] # "rootfail"
  /\ at[Work(Root)] = "rootrun" => Root \in up
  /\ at[Work(Root)] \in Stopping =>
       st[pd[Work(Root)]] = "CRASHED" /\ pd[Work(Root)] = Order[ix[Work(Root)]]
  /\ at[Work(Root)] = "idle" /\ Root \notin queued => Agree

\* What a client and the crash worker of its user know of its count and state.
UserOK(u) ==
  /\ at[Client(u)] \in Booting => power[u] = 1 /\ st[u] = "OFFLINE"
  /\ at[Client(u)] \in Stopping => power[u] = 0 /\ st[u] = "RUNNING"
  /\ at[Client(u)] = "idle" /\ st[u] # "OFFLINE" => power[u] >= 1
  /\ at[Work(u)] \in ForUser => power[u] >= 1 /\ at[Work(u)] \notin Starting
  /\ at[Work(u)] \in Stopping => st[u] = "CRASHED"
UserInv == \A u \in Users : UserOK(u)

\* A user that is RUNNING, but for one that is being stopped or whose stop has failed,
\* executes or has crashed.
UpOK(u) ==
  /\ st[u] = "RUNNING" /\ at[Client(u)] \notin {"put", "stopped"} =>
       u \in up \cup queued \cup used.halted
  /\ \A j \in Of(u) : at[j] = "run" => u \in up \cup queued

\* So are all, but those that the root's worker has still to stop.
UpInv ==
  /\ ~Sweeping => \A u \in Users : UpOK(u)
  /\ \A t \in Threads : at[Thread(t)] = "run" => pd[Thread(t)] \in up
  /\ at[Work(Root)] \in {"sweep"} \cup Stopping =>
       \A i \in 1 .. Len(Order) : i < ix[Work(Root)] => st[Order[i]] # "RUNNING"

\* The count is never less than the users that hold it, and exceeds it only by what failed
\* starts and recoveries of users leave.
CountInv ==
  /\ power[Root] >= Cardinality(Counted)
  /\ Alone => power[Root] = Cardinality(Counted)

ApartInv == Inv /\ TurnInv /\ ThreadInv /\ RestartInv /\ UserInv /\ UpInv /\ CountInv

\* Once a recovery could not shut the root down nothing happens but boots that fail: the
\* root stays CRASHED and no user runs.
Abandoned ==
  /\ Inv /\ used.root > 0 /\ used.fault > 0
  /\ st[Root] = "CRASHED" /\ wcss[Root] = "RESTARTING" /\ up = {} /\ queued = {}
  /\ Idle(Recoveries)
  /\ \A u \in Users : /\ st[u] # "RUNNING"
                      /\ at[Client(u)] \in {"idle", "load", "start", "fail"}

-----------------------------------------------------------------------------
(* Lemmas about the jobs.                                                  *)

\* A step that is no crash and no fault.
NoFault == /\ used'.root = used.root /\ used'.user = used.user /\ used'.fault = used.fault

\* A step that is none in the turn of a recovery, and forgets no failed stop but that of u.
Faults(u) == /\ used'.root = used.root /\ used'.user = used.user
             /\ used'.fault >= used.fault /\ (used.root > 0 => used'.fault = used.fault)
             /\ used.halted \subseteq used'.halted \cup {u}

LEMMA NoFaultFaults ==
  ASSUME TypeOK, NEW u, NoFault, used.halted \subseteq used'.halted \cup {u}
  PROVE Faults(u)
<1>1. used.fault \in Nat BY ConstantsOK DEF TypeOK
<1>2. QED BY <1>1 DEF NoFault, Faults

\* No loop runs: the clients and the workers of users have the driver to themselves.
Undisturbed == Root \notin queued /\ \A j \in Jobs : Looping(j) => at[j] = "idle"

\* There are finitely many users, so finitely many are counted.
LEMMA UsersFinite == IsFiniteSet(Users) /\ IsFiniteSet(Counted)
<1> DEFINE f == [i \in 1 .. Len(Order) |-> Order[i]]
<1>1. f \in Surjection(1 .. Len(Order), Users) BY DomainFacts DEF Users, Surjection
<1>2. IsFiniteSet(1 .. Len(Order)) BY DomainFacts, FS_Interval
<1>3. IsFiniteSet(Users) BY <1>1, <1>2, FS_Surjection
<1>4. Counted \subseteq Users BY DEF Counted
<1>5. QED BY <1>3, <1>4, FS_Subset

\* Who loops, and that the clients are those of the users.
LEMMA LoopFacts ==
  /\ \A j \in Jobs : Looping(j) <=> j = Work(Root) \/ \E t \in Threads : j = Thread(t)
  /\ \A j \in Jobs : ~Looping(j) => \E u \in Users : j \in Of(u)
  /\ \A u \in Users : Of(u) \subseteq Jobs /\ \A j \in Of(u) : ~Looping(j)
  /\ \A j \in Jobs : Looping(j) => j \in Recoveries
  /\ \A u \in Users : Client(u) \notin Recoveries /\ Work(u) \in Recoveries
BY JobFacts, KindFacts DEF Of, Recoveries, Clients

\* Once a job of a user is in a call, no loop runs.
LEMMA UserTurn ==
  ASSUME Inv, TurnInv, NEW u \in Users, NEW j \in Of(u), at[j] # "idle"
  PROVE Undisturbed /\ (j = Work(u) => used.root = 0 /\ used.user # 0)
<1>1. Uncrashed /\ j \in Jobs BY LoopFacts DEF Inv
<1>2. j = Work(u) => used.user # 0 BY DEF TurnInv
<1>3. used.root \in Nat BY DEF Inv, TypeOK
<1>4. CASE used.root = 0 BY <1>1, <1>2, <1>4 DEF Uncrashed, Undisturbed
<1>5. CASE used.root > 0
  <2>1. Alone /\ (Idle(Clients) \/ Calm) BY <1>5 DEF TurnInv
  <2>2. j = Client(u) BY <1>2, <2>1 DEF Alone, Of
  <2>3. Calm BY <2>1, <2>2, KindFacts DEF Idle
  <2>4. QED BY <1>2, <2>1, <2>3, LoopFacts DEF Calm, Idle, Undisturbed, Alone
<1>6. QED BY <1>3, <1>4, <1>5

\* Nor does one when a client calls.
LEMMA CallTurn == ASSUME Inv, TurnInv, ~Overlap, MayCall PROVE Undisturbed
<1>1. Uncrashed BY DEF Inv
<1>2. QED BY <1>1, LoopFacts DEF MayCall, Calm, Idle, Uncrashed, Undisturbed

\* What a move of a job of user u leaves alone.
LEMMA UserMoves ==
  ASSUME TypeOK, NEW u \in Users, NEW j \in Of(u), NEW l, at' = [at EXCEPT ![j] = l]
  PROVE /\ at'[j] = l /\ j \in Jobs
        /\ \A k \in Of(u) : k # j => at'[k] = at[k]
        /\ \A v \in Users : v # u => at'[Client(v)] = at[Client(v)] /\ at'[Work(v)] = at[Work(v)]
        /\ \A k \in Jobs : Looping(k) => at'[k] = at[k]
        /\ \A k \in Recoveries : j \in Clients => at'[k] = at[k]
<1>1. j \in Jobs /\ ~Looping(j) BY LoopFacts
<1>2. \A k \in Jobs : at'[k] = IF k = j THEN l ELSE at[k] BY <1>1 DEF TypeOK
<1>3. \A v \in Users : v # u => Client(v) # j /\ Work(v) # j BY JobFacts DEF Of
<1>4. Of(u) \subseteq Jobs BY LoopFacts
<1>5. QED BY <1>1, <1>2, <1>3, <1>4, JobFacts DEF Recoveries

\* Client and worker of a user exclude each other.
LEMMA OneOfTwo ==
  ASSUME Inv, NEW u \in Users
  PROVE /\ at[Client(u)] \in {"idle"} \cup ForUser
        /\ at[Work(u)] \in {"idle", "recover"} \cup ForUser
        /\ at[Work(u)] \in ForUser => at[Client(u)] = "idle"
        /\ at[Client(u)] # "idle" => at[Work(u)] \in {"idle", "recover"}
        /\ lock[u] = None => at[Client(u)] = "idle" /\ at[Work(u)] \in {"idle", "recover"}
        /\ "idle" \notin ForUser /\ pd[Client(u)] = u /\ pd[Work(u)] = u
<1>1. LabelInv /\ MutexInv BY DEF Inv
<1>2. Client(u) \in Of(u) /\ Work(u) \in Of(u) BY DEF Of
<1>3. Client(u) \in Clients /\ Client(u) \in Jobs /\ Work(u) \in Jobs /\ Client(u) # Work(u)
      /\ Client(u) # Work(Root) /\ Work(u) # Work(Root) /\ Work(u) \notin Clients
      /\ ~Looping(Work(u))
  BY JobFacts, KindFacts
<1>4. at[Client(u)] \in {"idle"} \cup ForUser BY <1>1, <1>3 DEF LabelInv, May
<1>5. at[Work(u)] \in {"idle", "recover"} \cup ForUser BY <1>1, <1>3 DEF LabelInv, May
<1>6. /\ at[Client(u)] \in ForUser <=> lock[u] = Client(u)
      /\ at[Work(u)] \in ForUser <=> lock[u] = Work(u)
  BY <1>1, <1>2 DEF MutexInv
<1>7. "idle" \notin ForUser /\ "recover" \notin ForUser
  BY DEF ForUser, Booting, Starting, Stopping
<1>8. None \notin {Client(u), Work(u)} BY <1>3, NoneIsNoJob
<1>9. pd[Client(u)] = u /\ pd[Work(u)] = u BY <1>1, <1>2 DEF LabelInv
<1>10. QED BY <1>3, <1>4, <1>5, <1>6, <1>7, <1>8, <1>9

\* A member is counted, and two are counted twice.
LEMMA MembersCounted ==
  ASSUME Inv, CountInv, NEW u \in Users, Member(u)
  PROVE /\ power[Root] >= 1
        /\ \A v \in Users : v # u /\ Member(v) => power[Root] >= 2
<1>1. IsFiniteSet(Counted) /\ u \in Counted BY UsersFinite DEF Counted
<1>2. power[Root] \in Nat BY DomainFacts DEF Inv, TypeOK
<1>3. Cardinality(Counted) \in Nat BY <1>1, FS_CardinalityType
<1>4. Cardinality(Counted \ {u}) = Cardinality(Counted) - 1 /\ IsFiniteSet(Counted \ {u})
  BY <1>1, FS_RemoveElement
<1>5. Cardinality(Counted \ {u}) \in Nat BY <1>4, FS_CardinalityType
<1>6. power[Root] >= 1 BY <1>2, <1>3, <1>4, <1>5 DEF CountInv
<1>7. ASSUME NEW v \in Users, v # u, Member(v) PROVE power[Root] >= 2
  <2>1. v \in Counted \ {u} BY <1>7 DEF Counted
  <2>2. Cardinality(Counted \ {u}) # 0 BY <1>4, <2>1, FS_EmptySet
  <2>3. QED BY <1>2, <1>3, <1>4, <1>5, <2>2 DEF CountInv
<1>8. QED BY <1>6, <1>7

\* The count with one user that becomes a member, or ceases to be one.
LEMMA CountStep ==
  ASSUME Inv, CountInv, NEW u \in Users, power'[Root] \in Nat,
         \A v \in Users : v # u => (Member(v)' <=> Member(v)),
         Alone' => Alone,
         \/ (Member(u)' <=> Member(u)) /\ power'[Root] >= power[Root]
            /\ (Alone' => power'[Root] = power[Root])
         \/ ~Member(u) /\ Member(u)' /\ power'[Root] = power[Root] + 1
         \/ Member(u) /\ ~Member(u)' /\ power'[Root] = power[Root] - 1
         \/ Member(u) /\ ~Member(u)' /\ power'[Root] = power[Root] /\ ~Alone'
  PROVE CountInv'
<1>1. IsFiniteSet(Counted) BY UsersFinite
<1>2. Cardinality(Counted) \in Nat BY <1>1, FS_CardinalityType
<1>3. power[Root] \in Nat BY DomainFacts DEF Inv, TypeOK
<1>4. CASE Member(u)' <=> Member(u)
  <2>1. Counted' = Counted BY <1>4 DEF Counted
  <2>2. QED BY <1>2, <1>3, <1>4, <2>1 DEF CountInv
<1>5. CASE ~Member(u) /\ Member(u)'
  <2>1. Counted' = Counted \cup {u} /\ u \notin Counted BY <1>5 DEF Counted
  <2>2. Cardinality(Counted') = Cardinality(Counted) + 1 BY <1>1, <2>1, FS_AddElement
  <2>3. QED BY <1>2, <1>3, <1>5, <2>2 DEF CountInv
<1>6. CASE Member(u) /\ ~Member(u)'
  <2>1. Counted' = Counted \ {u} /\ u \in Counted BY <1>6 DEF Counted
  <2>2. Cardinality(Counted') = Cardinality(Counted) - 1 BY <1>1, <2>1, FS_RemoveElement
  <2>3. QED BY <1>2, <1>3, <1>6, <2>2 DEF CountInv
<1>7. QED BY <1>4, <1>5, <1>6

\* While no loop runs, the root is up when somebody holds it and its mutex is free; and a
\* client that is to start its user does so under a root that is up.
LEMMA HeldRoot ==
  ASSUME ApartInv, Undisturbed, NEW u \in Users, Member(u)
  PROVE /\ lock[Root] = None => Root \in up /\ st[Root] = "RUNNING"
        /\ at[Client(u)] = "start" => Root \in up
<1>1. Inv /\ TurnInv /\ RestartInv /\ UserInv /\ CountInv BY DEF ApartInv
<1>2. at[Work(Root)] = "idle" /\ Root \notin queued BY JobFacts, KindFacts DEF Undisturbed
<1>3. Agree BY <1>1, <1>2 DEF RestartInv
<1>4. power[Root] \in Nat /\ lock[Root] \in Jobs \cup {None} BY <1>1, DomainFacts DEF Inv, TypeOK
<1>5. power[Root] >= 1 BY <1>1, MembersCounted
<1>6. lock[Root] = None => Root \in up /\ st[Root] = "RUNNING" BY <1>3, <1>4, <1>5 DEF Agree
<1>7. ASSUME at[Client(u)] = "start", lock[Root] # None PROVE FALSE
  <2>1. PICK k \in Jobs : lock[Root] = k BY <1>4, <1>7
  <2>2. at[k] \in RootLabels(k) BY <1>1, <2>1 DEF Inv, MutexInv
  <2>3. k # Work(Root) /\ at[k] \in Starting
    BY <1>2, <2>2 DEF RootLabels, Starting, Stopping
  <2>4. ~Looping(k) BY <2>3 DEF Undisturbed, Starting
  <2>5. PICK v \in Users : k \in Of(v) BY <2>4, LoopFacts
  <2>6. k # Work(v) BY <1>1, <2>3 DEF UserInv, UserOK, ForUser, Booting
  <2>7. k = Client(v) BY <2>5, <2>6 DEF Of
  <2>8. v # u BY <1>7, <2>3, <2>7 DEF Starting
  <2>9. Member(v) BY <2>3, <2>7 DEF Member, Holds, Starting
  <2>10. power[Root] >= 2 BY <1>1, <2>8, <2>9, MembersCounted
  <2>11. power[Root] = 1 BY <1>3, <1>7 DEF Agree
  <2>12. QED BY <2>10, <2>11
<1>8. QED BY <1>6, <1>7

-----------------------------------------------------------------------------
(* What a step of a user's job leaves alone.                               *)

\* What does not touch the root keeps its count, state and execution in agreement.
LEMMA AgreeKept ==
  ASSUME Inv, Agree, NEW j \in Jobs, NEW l, at' = [at EXCEPT ![j] = l],
         lock'[Root] = lock[Root], power'[Root] = power[Root], st'[Root] = st[Root],
         Root \in up' <=> Root \in up, at[j] # "rootrun", l # "rootrun"
  PROVE Agree'
<1>1. lock[Root] \in Jobs \cup {None} BY DomainFacts DEF Inv, TypeOK
<1>2. \A k \in Jobs : at'[k] = "rootrun" <=> at[k] = "rootrun" BY DEF Inv, TypeOK
<1>3. QED BY <1>1, <1>2 DEF Agree

\* Another user executes as long as it did, if nothing stops it.
LEMMA UpKept ==
  ASSUME NEW v \in Users, UpOK(v), st'[v] = st[v],
         at'[Client(v)] = at[Client(v)], at'[Work(v)] = at[Work(v)],
         v \in up \cup queued => v \in up' \cup queued',
         v \in used.halted => v \in up' \cup used'.halted
  PROVE UpOK(v)'
BY DEF UpOK, Of

\* Before the root crashes only the users' own parts of the invariant say anything.
LEMMA QuietTurn ==
  ASSUME ApartInv, Inv', Undisturbed, NEW u \in Users, NEW j \in Of(u), NEW l,
         at' = [at EXCEPT ![j] = l], j = Work(u) => used.root = 0 /\ used.user # 0,
         queued' \subseteq queued, Faults(u)
  PROVE TurnInv' /\ ~Sweeping' /\ (Alone' => Alone)
        /\ \A k \in Jobs : Looping(k) => at'[k] = "idle"
<1>1. Inv /\ TurnInv BY DEF ApartInv
<1>2. TypeOK BY <1>1 DEF Inv
<1>3. \A k \in Jobs : Looping(k) => at'[k] = "idle" BY <1>2, UserMoves DEF Undisturbed
<1>4. Root \notin queued' BY DEF Undisturbed
<1>5. at'[Work(Root)] = "idle" /\ \A t \in Threads : at'[Thread(t)] = "idle"
  BY <1>3, JobFacts, KindFacts
<1>6. used'.root > 0 => j = Client(u) /\ used'.user = used.user /\ used'.fault = used.fault
  BY <1>2 DEF Of, TypeOK, Faults
<1>7. used'.user = 0 => queued' \subseteq {Root} /\ \A v \in Users : at'[Work(v)] = "idle"
  <2> SUFFICES ASSUME used'.user = 0
               PROVE queued' \subseteq {Root} /\ \A v \in Users : at'[Work(v)] = "idle"
    OBVIOUS
  <2>1. j = Client(u) /\ used.user = 0 BY DEF Of, Faults
  <2>2. \A v \in Users : at'[Work(v)] = at[Work(v)]
    BY <1>2, <2>1, UserMoves, JobFacts DEF Of
  <2>3. QED BY <1>1, <2>1, <2>2 DEF TurnInv
<1>8. used'.root > 0 => Alone' /\ (Idle(Clients)' \/ Calm')
  <2> SUFFICES ASSUME used'.root > 0 PROVE Alone' /\ Calm' OBVIOUS
  <2>1. Alone /\ Alone' BY <1>1, <1>6 DEF TurnInv, Alone, Faults
  <2>2. queued' = {} /\ \A v \in Users : at'[Work(v)] = "idle" BY <1>4, <1>7, <2>1 DEF Alone
  <2>3. \A k \in Recoveries : at'[k] = "idle"
    BY <1>5, <2>2, JobFacts, KindFacts DEF Recoveries
  <2>4. QED BY <2>1, <2>2, <2>3 DEF Calm, Idle, Recoveries, Clients
<1>9. Alone' => Alone
  <2>1. used.fault \in Nat /\ used'.fault \in Nat BY <1>1, ConstantsOK DEF Inv, TypeOK
  <2>2. QED BY <2>1 DEF Alone, Faults
<1>10. TurnInv' BY <1>4, <1>5, <1>7, <1>8 DEF TurnInv
<1>11. ~Sweeping' BY <1>4, <1>5 DEF Sweeping, Stopping
<1>12. QED BY <1>3, <1>9, <1>10, <1>11

\* A step of a user's job keeps the invariant if it keeps what is said of its user, the
\* count, and how the root's count, state and execution agree.
LEMMA UserStep ==
  ASSUME ApartInv, Inv', Undisturbed, NEW u \in Users, NEW j \in Of(u), NEW l,
         at' = [at EXCEPT ![j] = l], j = Work(u) => used.root = 0 /\ used.user # 0,
         queued' \subseteq queued, Faults(u),
         wcss'[Root] = wcss[Root], \A v \in Users : wcss'[v] # "RESTARTING",
         used.root > 0 => Agree',
         \A v \in Users : v # u => st'[v] = st[v] /\ power'[v] = power[v] /\ UpOK(v)',
         UserOK(u)', UpOK(u)',
         \/ (Member(u)' <=> Member(u)) /\ power'[Root] >= power[Root]
            /\ (Alone' => power'[Root] = power[Root])
         \/ ~Member(u) /\ Member(u)' /\ power'[Root] = power[Root] + 1
         \/ Member(u) /\ ~Member(u)' /\ power'[Root] = power[Root] - 1
         \/ Member(u) /\ ~Member(u)' /\ power'[Root] = power[Root] /\ ~Alone'
  PROVE ApartInv'
<1>1. Inv /\ TypeOK /\ RestartInv /\ UserInv /\ CountInv BY DEF ApartInv, Inv
<1>2. /\ TurnInv' /\ ~Sweeping' /\ (Alone' => Alone)
      /\ \A k \in Jobs : Looping(k) => at'[k] = "idle"
  BY QuietTurn
<1>3. /\ at'[Work(Root)] = "idle" /\ at[Work(Root)] = "idle"
      /\ \A t \in Threads : at'[Thread(t)] = "idle" /\ at[Thread(t)] = "idle"
      /\ Root \notin queued /\ Root \notin queued'
  BY <1>2, JobFacts, KindFacts DEF Undisturbed
<1>4. \A v \in Users : v # u =>
        at'[Client(v)] = at[Client(v)] /\ at'[Work(v)] = at[Work(v)]
  BY <1>1, UserMoves
<1>5. ThreadInv' BY <1>3 DEF ThreadInv, Booting, Starting
<1>6. Agree'
  <2>1. CASE used.root > 0 BY <2>1
  <2>2. CASE used.root = 0 BY <2>2 DEF Inv, Uncrashed, Agree, Faults
  <2>3. used.root \in Nat BY <1>1, ConstantsOK DEF TypeOK
  <2>4. QED BY <2>1, <2>2, <2>3
<1>7. RestartInv' BY <1>1, <1>2, <1>3, <1>6 DEF RestartInv, Starting, Stopping
<1>8. UserInv' BY <1>1, <1>4 DEF UserInv, UserOK
<1>9. UpInv' BY <1>3 DEF UpInv, Stopping
<1>10. \A v \in Users : v # u => (Member(v)' <=> Member(v)) BY <1>4 DEF Member, Holds
<1>11. power'[Root] \in Nat BY DomainFacts DEF Inv, TypeOK
<1>12. CountInv' BY <1>1, <1>2, <1>10, <1>11, CountStep
<1>13. QED BY <1>2, <1>5, <1>7, <1>8, <1>9, <1>12 DEF ApartInv

\* One that does not touch the root, if the user's client gives up no reference.
LEMMA UserOnlyStep ==
  ASSUME ApartInv, Inv', Undisturbed, NEW u \in Users, NEW j \in Of(u), NEW l,
         at' = [at EXCEPT ![j] = l], j = Work(u) => used.root = 0 /\ used.user # 0,
         queued' \subseteq queued, queued \subseteq queued' \cup {u},
         Faults(u),
         wcss'[Root] = wcss[Root], \A v \in Users : wcss'[v] # "RESTARTING",
         lock'[Root] = lock[Root], power'[Root] = power[Root], st'[Root] = st[Root],
         Root \in up' <=> Root \in up, at[j] # "rootrun", l # "rootrun",
         up \subseteq up' \cup {u},
         \A v \in Users : v # u => st'[v] = st[v] /\ power'[v] = power[v],
         UserOK(u)', UpOK(u)',
         (Member(u)' <=> Member(u)) \/ (Member(u) /\ ~Member(u)' /\ ~Alone')
  PROVE ApartInv'
<1>1. Inv /\ TypeOK /\ RestartInv /\ UpInv BY DEF ApartInv, Inv
<1>2. at[Work(Root)] = "idle" /\ Root \notin queued BY JobFacts, KindFacts DEF Undisturbed
<1>3. Agree BY <1>1, <1>2 DEF RestartInv
<1>4. j \in Jobs BY <1>1, UserMoves
<1>5. Agree' BY <1>1, <1>3, <1>4, AgreeKept
<1>6. \A v \in Users : UpOK(v) BY <1>1, <1>2 DEF UpInv, Sweeping, Stopping
<1>7. \A v \in Users : v # u => UpOK(v)'
  <2>1. \A v \in Users : v # u =>
          at'[Client(v)] = at[Client(v)] /\ at'[Work(v)] = at[Work(v)]
    BY <1>1, UserMoves
  <2>2. QED BY <1>6, <2>1, UpKept DEF Faults
<1>8. power'[Root] >= power[Root] BY <1>1, DomainFacts DEF TypeOK
<1>9. QED BY <1>5, <1>7, <1>8, UserStep

-----------------------------------------------------------------------------
(* The steps of a user's client and of its crash worker.                   *)

\* What a user's job finds.
LEMMA UserFacts ==
  ASSUME ApartInv, Undisturbed, NEW u \in Users, NEW j \in Of(u)
  PROVE /\ Inv /\ TypeOK /\ LabelInv /\ MutexInv /\ TurnInv /\ Agree /\ UserOK(u)
        /\ \A v \in Users : UserOK(v) /\ UpOK(v)
        /\ j \in Jobs /\ pd[j] = u /\ ~Looping(j) /\ After(j) = "idle"
        /\ (j \in Clients <=> j = Client(u)) /\ (j = Client(u) \/ j = Work(u))
        /\ j # Work(Root) /\ Client(u) # Work(u)
        /\ Client(u) \in Jobs /\ Work(u) \in Jobs
        /\ wcss[Root] # "RESTARTING" /\ \A v \in Users : wcss[v] # "RESTARTING"
        /\ u \in PDs /\ Root \in PDs /\ u # Root /\ Users \subseteq PDs
        /\ power[u] \in Nat /\ power[Root] \in Nat
<1>1. Inv /\ TypeOK /\ LabelInv /\ MutexInv /\ TurnInv /\ RestartInv /\ UserInv /\ UpInv
  BY DEF ApartInv, Inv
<1>2. /\ at[Work(Root)] = "idle" /\ Root \notin queued
      /\ \A t \in Threads : at[Thread(t)] = "idle"
  BY JobFacts, KindFacts DEF Undisturbed
<1>3. Agree /\ wcss[Root] # "RESTARTING" /\ \A v \in Users : wcss[v] # "RESTARTING"
  BY <1>1, <1>2 DEF RestartInv
<1>4. \A v \in Users : UserOK(v) /\ UpOK(v)
  BY <1>1, <1>2 DEF UserInv, UpInv, Sweeping, Stopping
<1>5. j \in Jobs /\ pd[j] = u /\ (j = Client(u) \/ j = Work(u)) BY <1>1, JobFacts DEF Of, LabelInv
<1>6. power[u] \in Nat /\ power[Root] \in Nat BY <1>1, DomainFacts DEF TypeOK
<1>7. QED BY <1>1, <1>3, <1>4, <1>5, <1>6, JobFacts, KindFacts, DomainFacts

\* A call of the user's client, or its worker starting, leaves alone whatever the user's
\* job was at: what is left of UserOnlyStep when the user's count and state stay too.
LEMMA MoveStep ==
  ASSUME ApartInv, Inv', Undisturbed, NEW u \in Users, NEW j \in Of(u), NEW l,
         at' = [at EXCEPT ![j] = l], j = Work(u) => used.root = 0 /\ used.user # 0,
         UNCHANGED <<st, power, queued>>, lock'[Root] = lock[Root],
         Faults(u),
         wcss'[Root] = wcss[Root], \A v \in Users : wcss'[v] # "RESTARTING",
         up' = up \/ up' = up \cup {u},
         at[j] # "rootrun", l # "rootrun", l # "idle", at[j] # "idle",
         l = "run" => u \in up', used.halted \subseteq used'.halted \cup up',
         at[j] \in Booting, l \in Booting, j = Work(u) => l \notin Starting,
         j = Client(u) => (l \in Starting \cup {"start", "run"} <=>
                             at[j] \in Starting \cup {"start", "run"})
                          \/ (l = "fail" /\ ~Alone')
  PROVE ApartInv'
<1>1. /\ Inv /\ TypeOK /\ UserOK(u) /\ UpOK(u) /\ j \in Jobs
      /\ (j = Client(u) \/ j = Work(u)) /\ Client(u) # Work(u) /\ u # Root
  BY UserFacts
<1>2. at'[j] = l /\ \A k \in Of(u) : k # j => at'[k] = at[k]
  <2>1. at'[j] = l BY <1>1 DEF TypeOK
  <2>2. \A k \in Of(u) : k # j => at'[k] = at[k] BY <1>1, UserMoves
  <2>3. QED BY <2>1, <2>2
<1>3. Client(u) \in Of(u) /\ Work(u) \in Of(u) BY DEF Of
<1>4. st'[u] = st[u] /\ power'[u] = power[u] OBVIOUS
<1>5. l \in ForUser /\ at[j] \in ForUser /\ l \notin Stopping
  BY DEF ForUser, Booting, Starting, Stopping
<1>6. UserOK(u)' BY <1>1, <1>2, <1>3, <1>4, <1>5 DEF UserOK
<1>7. UpOK(u)'
  <2>1. at'[Client(u)] \notin {"put", "stopped"} => at[Client(u)] \notin {"put", "stopped"}
    BY <1>1, <1>2, <1>3, <1>5 DEF Booting, Starting
  <2>2. \A k \in Of(u) : at'[k] = "run" => at[k] = "run" \/ u \in up' BY <1>2
  <2>3. QED BY <1>1, <1>4, <2>1, <2>2 DEF UpOK
<1>8. (Member(u)' <=> Member(u)) \/ (Member(u) /\ ~Member(u)' /\ ~Alone')
  <2>1. CASE j = Work(u)
    BY <1>1, <1>2, <1>3, <1>4, <2>1 DEF Member, Holds
  <2>2. CASE j = Client(u)
    BY <1>2, <1>4, <2>2 DEF Member, Holds, Booting, Starting
  <2>3. QED BY <1>1, <2>1, <2>2
<1>9. up \subseteq up' \cup {u} /\ (Root \in up' <=> Root \in up) BY <1>1
<1>10. \A v \in Users : v # u => st'[v] = st[v] /\ power'[v] = power[v] OBVIOUS
<1>11. lock'[Root] = lock[Root] /\ power'[Root] = power[Root] /\ st'[Root] = st[Root]
  OBVIOUS
<1>12. queued' \subseteq queued /\ queued \subseteq queued' \cup {u} OBVIOUS
<1>13. QED BY <1>6, <1>7, <1>8, <1>9, <1>10, <1>11, <1>12, UserOnlyStep

\* pd_load takes a reference on the root: nothing recovers it.
LEMMA LoadStep == ASSUME ApartInv, Inv', NEW u \in Users, NEW j \in Of(u), Load(j) PROVE ApartInv'
<1>1. at[j] = "load" /\ UNCHANGED <<st, power, wcss, lock, up, pd, ix, queued, used>>
  BY DEF Load
<1>2. Undisturbed /\ (j = Work(u) => used.root = 0 /\ used.user # 0)
  BY <1>1, UserTurn DEF ApartInv
<1>3. /\ TypeOK /\ pd[j] = u /\ wcss[Root] # "RESTARTING"
      /\ \A v \in Users : wcss[v] # "RESTARTING"
  BY <1>2, UserFacts
<1>4. at' = [at EXCEPT ![j] = "rootget"] BY <1>3 DEF Load, Goto, BootsRoot
<1>5. /\ UNCHANGED <<st, power, queued>> /\ up' = up
      /\ lock'[Root] = lock[Root] /\ wcss'[Root] = wcss[Root] /\ used' = used
      /\ \A v \in Users : wcss'[v] # "RESTARTING"
  BY <1>1, <1>3
<1>6. Faults(u) /\ used.halted \subseteq used'.halted
  BY <1>3, <1>5, NoFaultFaults DEF NoFault
<1>7. {"load", "rootget"} \subseteq Booting /\ {"load", "rootget"} \cap Starting = {}
  BY DEF Booting, Starting
<1>8. QED BY <1>1, <1>2, <1>4, <1>5, <1>6, <1>7, MoveStep

\* pd_start of a user whose client holds the root finds it up.
LEMMA StartStep == ASSUME ApartInv, Inv', NEW u \in Users, NEW j \in Of(u), Start(j) PROVE ApartInv'
<1>1. at[j] = "start" /\ UNCHANGED <<st, power, lock, pd, ix, queued>>
  BY DEF Start
<1>2. Undisturbed /\ (j = Work(u) => used.root = 0 /\ used.user # 0)
  BY <1>1, UserTurn DEF ApartInv
<1>3. /\ TypeOK /\ pd[j] = u /\ u # Root /\ u \in PDs /\ (j = Client(u) \/ j = Work(u))
      /\ \A v \in Users : wcss[v] # "RESTARTING"
      /\ Users \subseteq PDs
  BY <1>2, UserFacts
<1>4. j = Client(u) => Root \in up
  BY <1>1, <1>2, HeldRoot DEF Member, Holds
<1>5. UNCHANGED <<st, power, queued>> /\ lock'[Root] = lock[Root]
  BY <1>1
<1>6. Faults(u) /\ used.halted \subseteq used'.halted \cup up'
  <2>1. CASE Root \in up
    <3>1. used' = [used EXCEPT !.halted = @ \ {u}] /\ u \in up' BY <1>3, <2>1 DEF Start
    <3>2. NoFault /\ used'.halted = used.halted \ {u} BY <1>3, <3>1 DEF TypeOK, NoFault
    <3>3. QED BY <1>3, <3>1, <3>2, NoFaultFaults
  <2>2. CASE Root \notin up
    <3>1. used' = used BY <2>2 DEF Start
    <3>2. QED BY <1>3, <3>1, NoFaultFaults DEF NoFault
  <2>3. QED BY <2>1, <2>2
<1>7. {"start", "run", "fail"} \subseteq Booting /\ {"start", "run", "fail"} \cap Starting = {}
  BY DEF Booting, Starting
<1>8. CASE Root \in up
  <2>1. /\ at' = [at EXCEPT ![j] = "run"] /\ up' = up \cup {u}
        /\ wcss' = [wcss EXCEPT ![u] = "NORMAL"]
    BY <1>3, <1>8 DEF Start, Goto
  <2>2. wcss'[Root] = wcss[Root] /\ \A v \in Users : wcss'[v] # "RESTARTING"
    BY <1>3, <2>1 DEF TypeOK
  <2>3. QED BY <1>1, <1>2, <1>5, <1>6, <1>7, <2>1, <2>2, MoveStep
<1>9. CASE Root \notin up
  <2>1. at' = [at EXCEPT ![j] = "fail"] /\ up' = up /\ wcss' = wcss
    BY <1>9 DEF Start, Goto
  <2>2. j = Work(u) BY <1>3, <1>4, <1>9
  <2>3. j # Client(u) BY <2>2, JobFacts
  <2>4. wcss'[Root] = wcss[Root] /\ \A v \in Users : wcss'[v] # "RESTARTING" BY <1>3, <2>1
  <2>5. QED BY <1>1, <1>2, <1>5, <1>6, <1>7, <2>1, <2>3, <2>4, MoveStep
<1>10. QED BY <1>8, <1>9

\* A start of a user that fails on its own leaks a reference, and is a fault.
LEMMA StartFailsStep ==
  ASSUME ApartInv, Inv', ~Overlap, NEW u \in Users, NEW j \in Of(u), StartFails(j)
  PROVE ApartInv'
<1>1. /\ at[j] \in {"load", "start"} /\ used.root = 0
      /\ at' = [at EXCEPT ![j] = "fail"] /\ used' = [used EXCEPT !.fault = @ + 1]
      /\ UNCHANGED <<st, power, wcss, lock, up, pd, ix, queued>>
  BY DEF StartFails, MayFail, Goto
<1>2. Undisturbed /\ (j = Work(u) => used.root = 0 /\ used.user # 0)
  BY <1>1, UserTurn DEF ApartInv
<1>3. TypeOK /\ \A v \in Users : wcss[v] # "RESTARTING"
  BY <1>2, UserFacts
<1>4. /\ UNCHANGED <<st, power, queued>> /\ up' = up /\ lock'[Root] = lock[Root]
      /\ wcss'[Root] = wcss[Root] /\ \A v \in Users : wcss'[v] # "RESTARTING"
  BY <1>1, <1>3
<1>5. /\ used.fault \in Nat /\ used'.root = used.root /\ used'.user = used.user
      /\ used'.fault = used.fault + 1 /\ used'.halted = used.halted
  BY <1>1, <1>3, ConstantsOK DEF TypeOK
<1>6. ~Alone' /\ Faults(u) BY <1>1, <1>5 DEF Alone, Faults
<1>7. {"load", "start", "fail"} \subseteq Booting /\ {"load", "start", "fail"} \cap Starting = {}
  BY DEF Booting, Starting
<1>8. QED BY <1>1, <1>2, <1>4, <1>5, <1>6, <1>7, MoveStep

\* A step of pd_load's boot of the root.
LEMMA RootBootStep ==
  ASSUME ApartInv, Inv', Undisturbed, NEW u \in Users, NEW j \in Of(u), NEW l,
         at' = [at EXCEPT ![j] = l], j = Work(u) => used.root = 0 /\ used.user # 0,
         queued' = queued, Faults(u),
         wcss'[Root] = wcss[Root], \A v \in Users : wcss'[v] # "RESTARTING",
         used.root > 0 => Agree',
         \A v \in Users : st'[v] = st[v] /\ power'[v] = power[v],
         up \subseteq up', used.halted \subseteq used'.halted,
         {at[j], l} \subseteq {"rootget", "start", "fail"} \cup Starting,
         j = Work(u) => l \notin Starting,
         IF j = Work(u) THEN power'[Root] = power[Root] + 1
         ELSE \/ at[j] = "rootget" /\ l \notin {"fail", "rootget"} /\ power'[Root] = power[Root] + 1
              \/ at[j] \in Starting /\ l \notin {"fail", "rootget"} /\ power'[Root] = power[Root]
              \/ at[j] \in Starting /\ l = "fail" /\ power'[Root] = power[Root] - 1
  PROVE ApartInv'
<1>1. /\ Inv /\ TypeOK /\ TurnInv /\ UserOK(u) /\ j \in Jobs
      /\ (j = Client(u) \/ j = Work(u)) /\ Client(u) # Work(u)
      /\ power[Root] \in Nat
      /\ \A v \in Users : UpOK(v)
  BY UserFacts
<1>2. at'[j] = l /\ \A k \in Of(u) : k # j => at'[k] = at[k]
  <2>1. at'[j] = l BY <1>1 DEF TypeOK
  <2>2. \A k \in Of(u) : k # j => at'[k] = at[k] BY <1>1, UserMoves
  <2>3. QED BY <2>1, <2>2
<1>3. Client(u) \in Of(u) /\ Work(u) \in Of(u) BY DEF Of
<1>4. st'[u] = st[u] /\ power'[u] = power[u] OBVIOUS
<1>5. /\ l \in Booting /\ at[j] \in Booting /\ Booting \subseteq ForUser
      /\ l \notin Stopping /\ l \notin {"idle", "run", "put", "stopped"}
      /\ at[j] \notin {"idle", "run", "put", "stopped"}
  BY DEF ForUser, Booting, Starting, Stopping
<1>6. UserOK(u)' BY <1>1, <1>2, <1>3, <1>4, <1>5 DEF UserOK
<1>7. UpOK(u)'
  <2>1. at'[Client(u)] \notin {"put", "stopped"} => at[Client(u)] \notin {"put", "stopped"}
    BY <1>1, <1>2, <1>3, <1>5
  <2>2. \A k \in Of(u) : at'[k] = "run" => at[k] = "run" BY <1>2, <1>5
  <2>3. QED BY <1>1, <1>4, <2>1, <2>2 DEF UpOK
<1>8. \A v \in Users : v # u => UpOK(v)'
  <2>1. \A v \in Users : v # u =>
          at'[Client(v)] = at[Client(v)] /\ at'[Work(v)] = at[Work(v)]
    BY <1>1, UserMoves
  <2>2. QED BY <1>1, <2>1, UpKept DEF Faults
<1>9. \/ (Member(u)' <=> Member(u)) /\ power'[Root] >= power[Root]
         /\ (Alone' => power'[Root] = power[Root])
      \/ ~Member(u) /\ Member(u)' /\ power'[Root] = power[Root] + 1
      \/ Member(u) /\ ~Member(u)' /\ power'[Root] = power[Root] - 1
  <2>1. CASE j = Work(u)
    <3>1. Member(u)' <=> Member(u)
      BY <1>1, <1>2, <1>3, <1>4, <2>1 DEF Member, Holds
    <3>2. ~Alone' BY <2>1 DEF Alone, Faults
    <3>3. QED BY <1>1, <2>1, <3>1, <3>2
  <2>2. CASE j = Client(u)
    <3>1. /\ Member(u) <=> at[j] \in {"start"} \cup Starting
          /\ Member(u)' <=> l \in {"start"} \cup Starting
      BY <1>2, <1>5, <2>2 DEF Member, Holds, Starting
    <3>2. QED BY <1>1, <2>2, <3>1 DEF Starting
  <2>3. QED BY <1>1, <2>1, <2>2
<1>10. QED BY <1>6, <1>7, <1>8, <1>9, UserStep

\* rproc_boot(rpd_rproc): a client is counted; its crash worker always finds the root counted.
LEMMA RootGetApart ==
  ASSUME ApartInv, Inv', NEW u \in Users, NEW j \in Of(u), RootGet(j) PROVE ApartInv'
<1>1. /\ at[j] = "rootget" /\ lock[Root] = None /\ power' = [power EXCEPT ![Root] = @ + 1]
      /\ UNCHANGED <<st, wcss, up, pd, ix, queued, used>>
  BY DEF RootGet
<1>2. Undisturbed /\ (j = Work(u) => used.root = 0 /\ used.user # 0)
  BY <1>1, UserTurn DEF ApartInv
<1>3. /\ TypeOK /\ u # Root /\ u \in PDs /\ (j = Client(u) \/ j = Work(u)) /\ Client(u) # Work(u)
      /\ \A v \in Users : wcss[v] # "RESTARTING"
      /\ Users \subseteq PDs /\ Root \in PDs /\ Agree /\ UserOK(u) /\ j \in Jobs
      /\ power[Root] \in Nat
  BY <1>2, UserFacts
<1>4. /\ power'[Root] = power[Root] + 1
      /\ \A v \in Users : st'[v] = st[v] /\ power'[v] = power[v]
  BY <1>1, <1>3, DomainFacts DEF TypeOK
<1>5. /\ queued' = queued /\ used' = used /\ up \subseteq up' /\ wcss'[Root] = wcss[Root]
      /\ \A v \in Users : wcss'[v] # "RESTARTING"
  BY <1>1, <1>3
<1>6. Faults(u) /\ used.halted \subseteq used'.halted
  BY <1>3, <1>5, NoFaultFaults DEF NoFault
<1>7. CASE power[Root] > 0
  <2>1. at' = [at EXCEPT ![j] = "start"] /\ lock' = lock BY <1>7 DEF RootGet, Goto
  <2>2. Agree' BY <1>1, <1>3, <1>4, <1>7, <2>1 DEF Agree
  <2>3. "start" \notin Starting BY DEF Starting
  <2>4. QED BY <1>1, <1>2, <1>4, <1>5, <1>6, <2>1, <2>2, <2>3, RootBootStep
<1>8. CASE ~(power[Root] > 0)
  <2>1. at' = [at EXCEPT ![j] = "rootstart"] /\ lock' = [lock EXCEPT ![Root] = j]
    BY <1>8 DEF RootGet, Goto
  <2>2. j = Client(u)
    <3>1. SUFFICES ASSUME j = Work(u) PROVE FALSE BY <1>3
    <3>2. Inv /\ CountInv BY DEF ApartInv
    <3>3. at[Client(u)] = "idle" /\ power[u] >= 1
      BY <1>1, <1>3, <3>1, <3>2, OneOfTwo DEF UserOK, ForUser, Booting
    <3>4. power[u] > 0 BY <1>3, <3>3 DEF TypeOK
    <3>5. Member(u) BY <3>3, <3>4 DEF Member, Holds
    <3>6. power[Root] >= 1 BY <3>2, <3>5, MembersCounted
    <3>7. QED BY <1>3, <1>8, <3>6
  <2>3. at'[j] = "rootstart" /\ lock'[Root] = j BY <1>3, <2>1 DEF TypeOK
  <2>4. j # None BY <1>3, NoneIsNoJob
  <2>5. Agree' BY <1>1, <1>3, <1>4, <1>8, <2>3, <2>4 DEF Agree
  <2>6. j # Work(u) BY <1>3, <2>2
  <2>7. {at[j], "rootstart"} \subseteq {"rootget", "start", "fail"} \cup Starting
    BY <1>1 DEF Starting
  <2>8. QED BY <1>1, <1>2, <1>4, <1>5, <1>6, <2>1, <2>5, <2>6, <2>7, RootBootStep
<1>9. QED BY <1>7, <1>8

\* q6_wcss_start for a client, which may fail.
LEMMA RootStartApart ==
  ASSUME ApartInv, Inv', ~Overlap, NEW u \in Users, NEW j \in Of(u),
         RootStart(j) \/ RootStartFails(j)
  PROVE ApartInv'
<1>1. /\ at[j] = "rootstart" /\ UNCHANGED <<st, power, lock, pd, ix, queued>>
      /\ up \subseteq up'
  BY DEF RootStart, RootStartFails
<1>2. Undisturbed /\ (j = Work(u) => used.root = 0 /\ used.user # 0)
  BY <1>1, UserTurn DEF ApartInv
<1>3. /\ TypeOK /\ Agree /\ UserOK(u) /\ MutexInv /\ wcss[Root] # "RESTARTING"
      /\ \A v \in Users : wcss[v] # "RESTARTING"
      /\ (j = Client(u) \/ j = Work(u)) /\ Client(u) # Work(u) /\ j # Work(Root)
      /\ Users \subseteq PDs /\ Root \in PDs /\ u # Root /\ j \in Jobs /\ power[Root] \in Nat
  BY <1>2, UserFacts
<1>4. j = Client(u) /\ j # Work(u)
  BY <1>1, <1>3 DEF UserOK, ForUser, Booting, Starting
<1>5. /\ \A v \in Users : st'[v] = st[v] /\ power'[v] = power[v]
      /\ power'[Root] = power[Root] /\ queued' = queued
  BY <1>1
<1>6. ASSUME NEW l, RestartUsers(j, l) \/ (Goto(j, l) /\ UNCHANGED wcss)
      PROVE /\ at' = [at EXCEPT ![j] = l] /\ wcss'[Root] = wcss[Root]
            /\ \A v \in Users : wcss'[v] # "RESTARTING"
  <2>1. CASE RestartUsers(j, l)
    <3>1. at' = [at EXCEPT ![j] = l] BY <1>3, <2>1 DEF RestartUsers, Goto
    <3>2. wcss' = [p \in PDs |-> IF p = Root THEN wcss[p] ELSE "NORMAL"]
      BY <1>3, <2>1 DEF RestartUsers
    <3>3. QED BY <1>3, <3>1, <3>2, DomainFacts
  <2>2. CASE Goto(j, l) /\ UNCHANGED wcss BY <1>3, <2>2 DEF Goto
  <2>3. QED BY <1>6, <2>1, <2>2
<1>7. CASE RootStart(j)
  <2>1. /\ at' = [at EXCEPT ![j] = "rootrun"] /\ used' = used /\ up' = up \cup {Root}
        /\ wcss'[Root] = wcss[Root] /\ \A v \in Users : wcss'[v] # "RESTARTING"
    BY <1>6, <1>7 DEF RootStart
  <2>2. Faults(u) /\ used.halted \subseteq used'.halted
    BY <1>3, <2>1, NoFaultFaults DEF NoFault
  <2>3. at'[j] = "rootrun" BY <1>3, <2>1 DEF TypeOK
  <2>4. lock[Root] = j /\ j # None
    BY <1>1, <1>3, NoneIsNoJob DEF MutexInv, RootLabels, Starting
  <2>5. lock' = lock BY <1>1
  <2>6. Agree' BY <1>3, <1>5, <2>1, <2>3, <2>4, <2>5 DEF Agree
  <2>7. /\ {"rootstart", "rootrun"} \subseteq {"rootget", "start", "fail"} \cup Starting
        /\ "rootstart" \in Starting
    BY DEF Starting
  <2>8. QED BY <1>1, <1>2, <1>4, <1>5, <2>1, <2>2, <2>6, <2>7, RootBootStep
<1>8. CASE RootStartFails(j)
  <2>1. /\ used' = [used EXCEPT !.fault = @ + 1] /\ used.root = 0
        /\ at' = [at EXCEPT ![j] = "rootfail"]
        /\ wcss'[Root] = wcss[Root] /\ \A v \in Users : wcss'[v] # "RESTARTING"
    BY <1>6, <1>8 DEF RootStartFails, MayFail
  <2>2. Faults(u) /\ used.halted \subseteq used'.halted /\ ~(used.root > 0)
    <3>1. used.fault \in Nat BY <1>3, ConstantsOK DEF TypeOK
    <3>2. QED BY <1>3, <2>1, <3>1 DEF Faults, TypeOK
  <2>3. /\ {"rootstart", "rootfail"} \subseteq {"rootget", "start", "fail"} \cup Starting
        /\ "rootstart" \in Starting
    BY DEF Starting
  <2>4. QED BY <1>1, <1>2, <1>4, <1>5, <2>1, <2>2, <2>3, RootBootStep
<1>9. QED BY <1>7, <1>8

\* rproc_boot of the root ends: its first user is still counted, unless it failed.
LEMMA RootEndApart ==
  ASSUME ApartInv, Inv', NEW u \in Users, NEW j \in Of(u), RootRuns(j) \/ RootFailed(j)
  PROVE ApartInv'
<1>1. /\ at[j] \in {"rootrun", "rootfail"} /\ UNCHANGED <<wcss, up, pd, ix, queued, used>>
      /\ lock' = [lock EXCEPT ![Root] = None]
  BY DEF RootRuns, RootFailed
<1>2. Undisturbed /\ (j = Work(u) => used.root = 0 /\ used.user # 0)
  BY <1>1, UserTurn DEF ApartInv
<1>3. /\ Inv /\ TypeOK /\ Agree /\ UserOK(u) /\ MutexInv
      /\ \A v \in Users : wcss[v] # "RESTARTING"
      /\ (j = Client(u) \/ j = Work(u)) /\ Client(u) # Work(u) /\ j # Work(Root)
      /\ Users \subseteq PDs /\ Root \in PDs /\ u # Root /\ j \in Jobs /\ power[Root] \in Nat
  BY <1>2, UserFacts
<1>4. j = Client(u) /\ j # Work(u)
  BY <1>1, <1>3 DEF UserOK, ForUser, Booting, Starting
<1>5. lock[Root] = j /\ j # None /\ lock'[Root] = None
  BY <1>1, <1>3, NoneIsNoJob DEF MutexInv, RootLabels, Starting, TypeOK
<1>6. power[Root] = 1 /\ (at[j] = "rootrun" <=> Root \in up) /\ st[Root] # "RUNNING"
  BY <1>3, <1>5 DEF Agree, Inv, PowerInv
<1>7. /\ queued' = queued /\ used' = used /\ up' = up /\ wcss'[Root] = wcss[Root]
      /\ \A v \in Users : wcss'[v] # "RESTARTING"
  BY <1>1, <1>3
<1>8. Faults(u) /\ used.halted \subseteq used'.halted
  BY <1>3, <1>7, NoFaultFaults DEF NoFault
<1>9. {"start", "fail"} \cap Starting = {} /\ {"rootrun", "rootfail"} \subseteq Starting
  BY DEF Starting
<1>10. CASE RootRuns(j)
  <2>1. /\ at' = [at EXCEPT ![j] = "start"] /\ st' = [st EXCEPT ![Root] = "RUNNING"]
        /\ power' = power /\ at[j] = "rootrun"
    BY <1>3, <1>10 DEF RootRuns, Goto
  <2>2. st'[Root] = "RUNNING" /\ \A v \in Users : st'[v] = st[v] /\ power'[v] = power[v]
    BY <1>3, <2>1, DomainFacts DEF TypeOK
  <2>3. Agree' BY <1>5, <1>6, <1>7, <2>1, <2>2 DEF Agree
  <2>4. QED BY <1>2, <1>4, <1>7, <1>8, <1>9, <2>1, <2>2, <2>3, RootBootStep
<1>11. CASE RootFailed(j)
  <2>1. /\ at' = [at EXCEPT ![j] = "fail"] /\ st' = st
        /\ power' = [power EXCEPT ![Root] = @ - 1] /\ at[j] = "rootfail"
    BY <1>3, <1>11 DEF RootFailed, Goto
  <2>2. /\ power'[Root] = power[Root] - 1
        /\ \A v \in Users : st'[v] = st[v] /\ power'[v] = power[v]
    BY <1>3, <2>1, DomainFacts DEF TypeOK
  <2>3. Agree' BY <1>5, <1>6, <1>7, <2>1, <2>2 DEF Agree
  <2>4. QED BY <1>2, <1>4, <1>7, <1>8, <1>9, <2>1, <2>2, <2>3, RootBootStep
<1>12. QED BY <1>10, <1>11

\* A call of the user's client or its worker ends.
LEMMA ReturnApart ==
  ASSUME ApartInv, Inv', NEW u \in Users, NEW j \in Of(u), Run(j) \/ Fail(j) \/ StopFailed(j)
  PROVE ApartInv'
<1>1. /\ at[j] \in {"run", "fail", "stopfail"} /\ Return(j)
      /\ UNCHANGED <<wcss, up, pd, queued, used>>
  BY DEF Run, Fail, StopFailed
<1>2. Undisturbed /\ (j = Work(u) => used.root = 0 /\ used.user # 0)
  BY <1>1, UserTurn DEF ApartInv
<1>3. /\ Inv /\ TypeOK /\ UserOK(u) /\ UpOK(u) /\ pd[j] = u /\ ~Looping(j) /\ After(j) = "idle"
      /\ \A v \in Users : wcss[v] # "RESTARTING"
      /\ (j = Client(u) \/ j = Work(u)) /\ Client(u) # Work(u)
      /\ (j \in Clients <=> j = Client(u))
      /\ Users \subseteq PDs /\ Root \in PDs /\ u # Root /\ j \in Jobs /\ power[u] \in Nat
  BY <1>2, UserFacts
<1>4. at' = [at EXCEPT ![j] = "idle"] /\ lock' = [lock EXCEPT ![u] = None]
  BY <1>1, <1>3 DEF Return, Goto
<1>5. at'[j] = "idle" /\ \A k \in Of(u) : k # j => at'[k] = at[k]
  <2>1. at'[j] = "idle" BY <1>3, <1>4 DEF TypeOK
  <2>2. \A k \in Of(u) : k # j => at'[k] = at[k] BY <1>3, <1>4, UserMoves
  <2>3. QED BY <2>1, <2>2
<1>6. Client(u) \in Of(u) /\ Work(u) \in Of(u) BY DEF Of
<1>7. /\ queued' = queued /\ used' = used /\ up' = up /\ wcss'[Root] = wcss[Root]
      /\ \A v \in Users : wcss'[v] # "RESTARTING"
  BY <1>1, <1>3
<1>8. Faults(u) BY <1>3, <1>7, NoFaultFaults DEF NoFault
<1>9. lock'[Root] = lock[Root] BY <1>3, <1>4 DEF TypeOK
<1>10. /\ at[j] \in ForUser /\ at[j] # "idle" /\ at[j] # "rootrun"
       /\ at[j] \in Booting <=> at[j] # "stopfail"
       /\ at[j] \in Stopping <=> at[j] = "stopfail"
       /\ "idle" \notin ForUser /\ "idle" \notin Booting /\ "idle" \notin Stopping
       /\ "recover" \notin ForUser
  BY <1>1 DEF ForUser, Booting, Starting, Stopping
<1>11. /\ st' \in {st, [st EXCEPT ![u] = "RUNNING"]}
       /\ power' \in {power, [power EXCEPT ![u] = @ - 1], [power EXCEPT ![u] = @ + 1]}
  <2>1. CASE Run(j) BY <1>3, <2>1 DEF Run
  <2>2. CASE Fail(j) BY <1>3, <2>2 DEF Fail
  <2>3. CASE StopFailed(j) BY <1>3, <2>3 DEF StopFailed
  <2>4. QED BY <2>1, <2>2, <2>3
<1>12. \A v \in Users : v # u => st'[v] = st[v] /\ power'[v] = power[v]
  BY <1>3, <1>11 DEF TypeOK
<1>13. power'[Root] = power[Root] /\ st'[Root] = st[Root]
  BY <1>3, <1>11 DEF TypeOK
<1>14. /\ power'[u] = IF j = Client(u) /\ at[j] = "fail" THEN power[u] - 1
                      ELSE IF j = Client(u) /\ at[j] = "stopfail" THEN power[u] + 1 ELSE power[u]
       /\ st'[u] = IF at[j] = "run" THEN "RUNNING" ELSE st[u]
  BY <1>1, <1>3 DEF Run, Fail, StopFailed, TypeOK
<1>15. /\ j = Work(u) => at[Client(u)] = "idle"
       /\ j = Client(u) => at[Work(u)] \in {"idle", "recover"}
  BY <1>3, <1>10, OneOfTwo
<1>16. UserOK(u)'
  <2>1. CASE j = Client(u)
    BY <1>1, <1>3, <1>5, <1>6, <1>10, <1>14, <1>15, <2>1 DEF UserOK
  <2>2. CASE j = Work(u)
    BY <1>1, <1>3, <1>5, <1>6, <1>10, <1>14, <1>15, <2>2 DEF UserOK
  <2>3. QED BY <1>3, <2>1, <2>2
<1>17. UpOK(u)'
  <2>1. CASE j = Client(u)
    BY <1>1, <1>3, <1>5, <1>6, <1>7, <1>14, <1>15, <2>1 DEF UpOK, Of
  <2>2. CASE j = Work(u)
    BY <1>1, <1>3, <1>5, <1>6, <1>7, <1>14, <1>15, <2>2 DEF UpOK, Of
  <2>3. QED BY <1>3, <2>1, <2>2
<1>18. Member(u)' <=> Member(u)
  <2>1. CASE j = Client(u)
    BY <1>1, <1>3, <1>5, <1>10, <1>14, <2>1 DEF Member, Holds, UserOK
  <2>2. CASE j = Work(u)
    BY <1>3, <1>5, <1>6, <1>14, <2>2 DEF Member, Holds
  <2>3. QED BY <1>3, <2>1, <2>2
<1>19. QED
  BY <1>2, <1>4, <1>7, <1>8, <1>9, <1>10, <1>12, <1>13, <1>16, <1>17, <1>18, UserOnlyStep

\* pd_stop of a user, which may find that it does not run.
LEMMA StopApart == ASSUME ApartInv, Inv', NEW u \in Users, NEW j \in Of(u), Stop(j) PROVE ApartInv'
<1>1. at[j] = "stop" /\ UNCHANGED <<st, power, wcss, lock, pd, ix, queued, used>>
  BY DEF Stop
<1>2. Undisturbed /\ (j = Work(u) => used.root = 0 /\ used.user # 0)
  BY <1>1, UserTurn DEF ApartInv
<1>3. /\ Inv /\ TypeOK /\ UserOK(u) /\ UpOK(u) /\ pd[j] = u
      /\ \A v \in Users : wcss[v] # "RESTARTING"
      /\ (j = Client(u) \/ j = Work(u)) /\ Client(u) # Work(u)
      /\ Root \in PDs /\ u # Root /\ j \in Jobs
  BY <1>2, UserFacts
<1>4. PICK l \in {"put", "stopfail"} :
        /\ at' = [at EXCEPT ![j] = l] /\ up' = IF l = "put" THEN up \ {u} ELSE up
        /\ l = "stopfail" => st[u] # "CRASHED"
  <2>1. CASE st[u] = "CRASHED" \/ u \in up BY <1>3, <2>1 DEF Stop, Goto
  <2>2. CASE ~(st[u] = "CRASHED" \/ u \in up) BY <1>3, <2>2 DEF Stop, Goto
  <2>3. QED BY <2>1, <2>2
<1>5. at'[j] = l /\ \A k \in Of(u) : k # j => at'[k] = at[k]
  <2>1. at'[j] = l BY <1>3, <1>4 DEF TypeOK
  <2>2. \A k \in Of(u) : k # j => at'[k] = at[k] BY <1>3, <1>4, UserMoves
  <2>3. QED BY <2>1, <2>2
<1>6. Client(u) \in Of(u) /\ Work(u) \in Of(u) BY DEF Of
<1>7. /\ queued' = queued /\ used' = used /\ wcss'[Root] = wcss[Root] /\ lock' = lock
      /\ st' = st /\ power' = power /\ \A v \in Users : wcss'[v] # "RESTARTING"
  BY <1>1, <1>3
<1>8. Faults(u) BY <1>3, <1>7, NoFaultFaults DEF NoFault
<1>9. /\ {at[j], l} \subseteq Stopping /\ {at[j], l} \subseteq ForUser
      /\ l \notin Booting /\ l \notin {"idle", "run", "rootrun"} /\ at[j] # "rootrun"
      /\ at[j] # "idle" /\ l \notin Starting
  BY <1>1, <1>4 DEF ForUser, Booting, Starting, Stopping
<1>10. /\ j = Work(u) => at[Client(u)] = "idle"
       /\ j = Client(u) => at[Work(u)] \in {"idle", "recover"}
  BY <1>3, <1>9, OneOfTwo
<1>11. UserOK(u)'
  <2>1. CASE j = Client(u) BY <1>3, <1>5, <1>6, <1>7, <1>9, <2>1 DEF UserOK
  <2>2. CASE j = Work(u) BY <1>3, <1>5, <1>6, <1>7, <1>9, <2>2 DEF UserOK
  <2>3. QED BY <1>3, <2>1, <2>2
<1>12. UpOK(u)'
  <2>1. CASE j = Client(u)
    <3>1. at'[Work(u)] # "run" /\ at'[Client(u)] = l /\ at[Client(u)] = "stop"
      BY <1>1, <1>3, <1>5, <1>6, <1>10, <2>1
    <3>2. QED BY <1>3, <1>4, <1>7, <1>9, <3>1 DEF UpOK, Of
  <2>2. CASE j = Work(u)
    <3>1. st[u] = "CRASHED" BY <1>3, <1>9, <2>2 DEF UserOK
    <3>2. at'[Work(u)] # "run" /\ at'[Client(u)] # "run"
      BY <1>3, <1>5, <1>6, <1>9, <1>10, <2>2
    <3>3. QED BY <1>7, <3>1, <3>2 DEF UpOK, Of
  <2>3. QED BY <1>3, <2>1, <2>2
<1>13. Member(u)' <=> Member(u)
  <2>1. CASE j = Client(u) BY <1>1, <1>4, <1>5, <2>1 DEF Member, Holds
  <2>2. CASE j = Work(u) BY <1>3, <1>5, <1>6, <1>7, <2>2 DEF Member, Holds
  <2>3. QED BY <1>3, <2>1, <2>2
<1>14. up \subseteq up' \cup {u} /\ (Root \in up' <=> Root \in up) BY <1>3, <1>4
<1>15. QED
  BY <1>2, <1>4, <1>7, <1>8, <1>9, <1>11, <1>12, <1>13, <1>14, UserOnlyStep

\* A stop that fails leaves the user as it is, and is a fault.
LEMMA StopFailsApart ==
  ASSUME ApartInv, Inv', ~Overlap, NEW u \in Users, NEW j \in Of(u), StopFails(j)
  PROVE ApartInv'
<1>1. /\ at[j] = "stop" /\ at' = [at EXCEPT ![j] = "stopfail"] /\ used.root = 0
      /\ used' = [used EXCEPT !.fault = @ + 1, !.halted = @ \cup {pd[j]}]
      /\ up' \in {up, up \ {pd[j]}} /\ UNCHANGED <<st, power, wcss, lock, pd, ix, queued>>
  BY DEF StopFails, MayFail, Goto
<1>2. Undisturbed /\ (j = Work(u) => used.root = 0 /\ used.user # 0)
  BY <1>1, UserTurn DEF ApartInv
<1>3. /\ Inv /\ TypeOK /\ UserOK(u) /\ UpOK(u) /\ pd[j] = u
      /\ \A v \in Users : wcss[v] # "RESTARTING"
      /\ (j = Client(u) \/ j = Work(u)) /\ Client(u) # Work(u)
      /\ Root \in PDs /\ u # Root /\ j \in Jobs
  BY <1>2, UserFacts
<1>4. at'[j] = "stopfail" /\ \A k \in Of(u) : k # j => at'[k] = at[k]
  <2>1. at'[j] = "stopfail" BY <1>1, <1>3 DEF TypeOK
  <2>2. \A k \in Of(u) : k # j => at'[k] = at[k] BY <1>1, <1>3, UserMoves
  <2>3. QED BY <2>1, <2>2
<1>5. Client(u) \in Of(u) /\ Work(u) \in Of(u) BY DEF Of
<1>6. /\ queued' = queued /\ wcss'[Root] = wcss[Root] /\ lock' = lock
      /\ st' = st /\ power' = power /\ \A v \in Users : wcss'[v] # "RESTARTING"
  BY <1>1, <1>3
<1>7. Faults(u) /\ u \in used'.halted
  <2>1. used.fault \in Nat BY <1>3, ConstantsOK DEF TypeOK
  <2>2. /\ used'.root = used.root /\ used'.user = used.user /\ used'.fault = used.fault + 1
        /\ used'.halted = used.halted \cup {u}
    BY <1>1, <1>3 DEF TypeOK
  <2>3. QED BY <1>1, <2>1, <2>2 DEF Faults
<1>8. /\ {"stop", "stopfail"} \subseteq Stopping /\ {"stop", "stopfail"} \subseteq ForUser
      /\ {"stop", "stopfail"} \cap Booting = {} /\ "stopfail" \notin Starting
  BY DEF ForUser, Booting, Starting, Stopping
<1>9. /\ j = Work(u) => at[Client(u)] = "idle"
      /\ j = Client(u) => at[Work(u)] \in {"idle", "recover"}
  BY <1>1, <1>3, <1>8, OneOfTwo
<1>10. UserOK(u)'
  <2>1. CASE j = Client(u) BY <1>1, <1>3, <1>4, <1>5, <1>6, <1>8, <2>1 DEF UserOK
  <2>2. CASE j = Work(u) BY <1>1, <1>3, <1>4, <1>5, <1>6, <1>8, <2>2 DEF UserOK
  <2>3. QED BY <1>3, <2>1, <2>2
<1>11. UpOK(u)'
  <2>1. \A k \in Of(u) : at'[k] # "run" BY <1>3, <1>4, <1>5, <1>9 DEF Of
  <2>2. QED BY <1>7, <2>1 DEF UpOK
<1>12. Member(u)' <=> Member(u)
  <2>1. CASE j = Client(u) BY <1>1, <1>4, <2>1 DEF Member, Holds
  <2>2. CASE j = Work(u) BY <1>3, <1>4, <1>5, <1>6, <2>2 DEF Member, Holds
  <2>3. QED BY <1>3, <2>1, <2>2
<1>13. up \subseteq up' \cup {u} /\ (Root \in up' <=> Root \in up) BY <1>1, <1>3
<1>14. QED
  BY <1>1, <1>2, <1>6, <1>7, <1>10, <1>11, <1>12, <1>13, UserOnlyStep

\* A user is stopped: its client returns, its crash worker starts it again.
LEMMA StoppedApart ==
  ASSUME ApartInv, Inv', NEW u \in Users, NEW j \in Of(u), Stopped(j) PROVE ApartInv'
<1>1. /\ at[j] = "stopped" /\ UNCHANGED <<power, up, pd, queued, used>>
      /\ wcss' = [wcss EXCEPT ![pd[j]] = "SHUTDOWN"]
  BY DEF Stopped
<1>2. Undisturbed /\ (j = Work(u) => used.root = 0 /\ used.user # 0)
  BY <1>1, UserTurn DEF ApartInv
<1>3. /\ Inv /\ TypeOK /\ UserOK(u) /\ UpOK(u) /\ pd[j] = u /\ ~Looping(j) /\ After(j) = "idle"
      /\ \A v \in Users : wcss[v] # "RESTARTING"
      /\ (j = Client(u) \/ j = Work(u)) /\ Client(u) # Work(u)
      /\ (j \in Clients <=> j = Client(u))
      /\ Users \subseteq PDs /\ Root \in PDs /\ u # Root /\ j \in Jobs /\ u \in PDs
  BY <1>2, UserFacts
<1>4. /\ at' = [at EXCEPT ![j] = IF j = Client(u) THEN "idle" ELSE "load"]
      /\ lock' = IF j = Client(u) THEN [lock EXCEPT ![u] = None] ELSE lock
      /\ st' = [st EXCEPT ![u] = "OFFLINE"]
  <2>1. CASE j = Client(u) BY <1>3, <2>1 DEF Stopped, Return, Goto
  <2>2. CASE j # Client(u) BY <1>3, <2>2 DEF Stopped, Goto
  <2>3. QED BY <2>1, <2>2
<1> DEFINE l == IF j = Client(u) THEN "idle" ELSE "load"
<1>5. at'[j] = l /\ \A k \in Of(u) : k # j => at'[k] = at[k]
  <2>1. at'[j] = l BY <1>3, <1>4 DEF TypeOK
  <2>2. \A k \in Of(u) : k # j => at'[k] = at[k] BY <1>3, <1>4, UserMoves
  <2>3. QED BY <2>1, <2>2
<1>6. Client(u) \in Of(u) /\ Work(u) \in Of(u) BY DEF Of
<1>7. /\ queued' = queued /\ used' = used /\ up' = up /\ power' = power
      /\ wcss'[Root] = wcss[Root] /\ \A v \in Users : wcss'[v] # "RESTARTING"
      /\ lock'[Root] = lock[Root]
      /\ \A v \in Users : v # u => st'[v] = st[v] /\ power'[v] = power[v]
      /\ st'[Root] = st[Root] /\ st'[u] = "OFFLINE"
  BY <1>1, <1>3, <1>4 DEF TypeOK
<1>8. Faults(u) BY <1>3, <1>7, NoFaultFaults DEF NoFault
<1>9. /\ at[j] \in ForUser /\ at[j] \in Stopping /\ l # "rootrun" /\ at[j] # "rootrun"
      /\ {"idle", "load", "recover"} \cap (Stopping \cup Starting) = {}
      /\ {"idle", "recover"} \cap ForUser = {} /\ "idle" \notin Booting
  BY <1>1 DEF ForUser, Booting, Starting, Stopping
<1>10. /\ j = Work(u) => at[Client(u)] = "idle"
       /\ j = Client(u) => at[Work(u)] \in {"idle", "recover"}
  BY <1>3, <1>9, OneOfTwo
<1>11. UserOK(u)'
  <2>1. CASE j = Client(u)
    BY <1>3, <1>5, <1>6, <1>7, <1>9, <1>10, <2>1 DEF UserOK
  <2>2. CASE j = Work(u)
    BY <1>3, <1>5, <1>6, <1>7, <1>9, <1>10, <2>2 DEF UserOK
  <2>3. QED BY <1>3, <2>1, <2>2
<1>12. UpOK(u)'
  <2>1. \A k \in Of(u) : at'[k] # "run"
    BY <1>3, <1>5, <1>6, <1>10 DEF Of
  <2>2. QED BY <1>7, <2>1 DEF UpOK
<1>13. Member(u)' <=> Member(u)
  <2>1. CASE j = Client(u)
    BY <1>1, <1>3, <1>5, <1>7, <1>9, <2>1 DEF Member, Holds, UserOK
  <2>2. CASE j = Work(u) BY <1>3, <1>5, <1>6, <1>7, <2>2 DEF Member, Holds
  <2>3. QED BY <1>3, <2>1, <2>2
<1>14. /\ queued' \subseteq queued /\ queued \subseteq queued' \cup {u}
       /\ up \subseteq up' \cup {u} /\ (Root \in up' <=> Root \in up)
       /\ power'[Root] = power[Root]
  BY <1>7
<1>15. QED
  BY <1>2, <1>4, <1>7, <1>8, <1>9, <1>11, <1>12, <1>13, <1>14, UserOnlyStep

\* pd_stop gives the user's reference back: the last one takes the root down, and finds
\* nobody RUNNING on it.
LEMMA RootPutApart ==
  ASSUME ApartInv, Inv', NEW u \in Users, NEW j \in Of(u), RootPut(j) PROVE ApartInv'
<1>1. /\ at[j] = "put" /\ UNCHANGED <<wcss, lock, pd, ix, queued, used>>
      /\ at' = [at EXCEPT ![j] = "stopped"]
  BY DEF RootPut, Goto
<1>2. Undisturbed /\ (j = Work(u) => used.root = 0 /\ used.user # 0)
  BY <1>1, UserTurn DEF ApartInv
<1>3. /\ Inv /\ CountInv /\ TypeOK /\ UserOK(u) /\ UpOK(u) /\ Agree /\ pd[j] = u
      /\ \A v \in Users : wcss[v] # "RESTARTING"
      /\ \A v \in Users : UserOK(v) /\ UpOK(v)
      /\ (j = Client(u) \/ j = Work(u)) /\ Client(u) # Work(u)
      /\ Users \subseteq PDs /\ Root \in PDs /\ u # Root /\ j \in Jobs
      /\ power[Root] \in Nat
  BY <1>2, UserFacts DEF ApartInv
<1>4. at'[j] = "stopped" /\ \A k \in Of(u) : k # j => at'[k] = at[k]
  <2>1. at'[j] = "stopped" BY <1>1, <1>3 DEF TypeOK
  <2>2. \A k \in Of(u) : k # j => at'[k] = at[k] BY <1>1, <1>3, UserMoves
  <2>3. QED BY <2>1, <2>2
<1>5. Client(u) \in Of(u) /\ Work(u) \in Of(u) BY DEF Of
<1>6. /\ queued' = queued /\ used' = used /\ lock' = lock /\ wcss'[Root] = wcss[Root]
      /\ \A v \in Users : wcss'[v] # "RESTARTING"
  BY <1>1, <1>3
<1>7. Faults(u) BY <1>3, <1>6, NoFaultFaults DEF NoFault
<1>8. /\ {"put", "stopped"} \subseteq Stopping /\ {"put", "stopped"} \subseteq ForUser
      /\ {"put", "stopped"} \cap Booting = {} /\ "stopped" \notin Starting
      /\ {"idle", "recover"} \cap ForUser = {}
  BY DEF ForUser, Booting, Starting, Stopping
<1>9. /\ j = Work(u) => at[Client(u)] = "idle"
      /\ j = Client(u) => at[Work(u)] \in {"idle", "recover"}
  BY <1>1, <1>3, <1>8, OneOfTwo
<1>10. \A v \in Users : v # u =>
         at'[Client(v)] = at[Client(v)] /\ at'[Work(v)] = at[Work(v)]
  BY <1>1, <1>3, UserMoves
<1>11. CASE j = Work(u)
  <2>1. st[u] = "CRASHED" BY <1>1, <1>3, <1>8, <1>11 DEF UserOK
  <2>2. UNCHANGED <<st, power, up>> BY <1>3, <2>1 DEF RootPut, PutKeeps
  <2>3. UserOK(u)' BY <1>1, <1>3, <1>4, <1>5, <1>8, <1>9, <1>11, <2>2 DEF UserOK
  <2>4. UpOK(u)' BY <1>4, <1>5, <1>9, <1>11, <2>1, <2>2 DEF UpOK, Of
  <2>5. Member(u)' <=> Member(u)
    BY <1>3, <1>4, <1>5, <1>11, <2>2 DEF Member, Holds
  <2>6. /\ queued' \subseteq queued /\ queued \subseteq queued' \cup {u}
        /\ up \subseteq up' \cup {u} /\ (Root \in up' <=> Root \in up)
        /\ power'[Root] = power[Root]
        /\ st'[Root] = st[Root] /\ lock'[Root] = lock[Root] /\ at[j] # "rootrun"
        /\ \A v \in Users : v # u => st'[v] = st[v] /\ power'[v] = power[v]
    BY <1>1, <1>6, <2>2
  <2>7. QED BY <1>1, <1>2, <1>6, <1>7, <2>3, <2>4, <2>5, <2>6, UserOnlyStep
<1>12. CASE j = Client(u)
  <2>1. st[u] = "RUNNING" /\ power[u] = 0 /\ Member(u) /\ ~PutKeeps(u)
    BY <1>1, <1>3, <1>8, <1>12 DEF UserOK, Member, Holds, PutKeeps
  <2>2. lock[Root] = None BY <1>3, <2>1 DEF RootPut
  <2>3. st[Root] = "RUNNING" /\ Root \in up BY <1>2, <2>1, <2>2, HeldRoot
  <2>4. /\ power[Root] >= 1
        /\ \A v \in Users : v # u /\ Member(v) => power[Root] >= 2
    BY <1>3, <2>1, MembersCounted
  <2>5. /\ power' = [power EXCEPT ![Root] = @ - 1]
        /\ IF power[Root] # 1 THEN UNCHANGED <<st, up>>
           ELSE st' = [st EXCEPT ![Root] = "OFFLINE"] /\ up' = {}
    BY <1>3, <2>1, <2>2, <2>3 DEF RootPut
  <2>6. power'[Root] = power[Root] - 1 /\ \A v \in Users : power'[v] = power[v] /\ st'[v] = st[v]
    BY <1>3, <2>5, DomainFacts DEF TypeOK
  <2>7. /\ power[Root] = 1 => st'[Root] = "OFFLINE" /\ up' = {}
        /\ power[Root] # 1 => st' = st /\ up' = up
    BY <1>3, <2>5 DEF TypeOK
  <2>8. Agree' BY <1>3, <1>6, <2>2, <2>3, <2>4, <2>6, <2>7 DEF Agree
  <2>9. UserOK(u)'
    BY <1>1, <1>3, <1>4, <1>5, <1>8, <1>9, <1>12, <2>6 DEF UserOK
  <2>10. UpOK(u)' BY <1>4, <1>5, <1>9, <1>12 DEF UpOK, Of
  <2>11. ~Member(u)'
    BY <1>4, <1>12 DEF Member, Holds
  <2>12. ASSUME NEW v \in Users, v # u PROVE UpOK(v)'
    <3>1. at'[Client(v)] = at[Client(v)] /\ at'[Work(v)] = at[Work(v)] BY <1>10, <2>12
    <3>2. UpOK(v) /\ UserOK(v) BY <1>3
    <3>3. CASE power[Root] # 1
      BY <1>6, <2>6, <2>7, <3>1, <3>2, <3>3, UpKept
    <3>4. CASE power[Root] = 1
      <4>1. ~Member(v) BY <2>4, <2>12, <3>4
      <4>2. power[v] \in Nat BY <1>3 DEF TypeOK
      <4>3. /\ at[Client(v)] \in {"idle"} \cup ForUser
            /\ at[Work(v)] \in ForUser => at[Client(v)] = "idle"
        BY <1>3, OneOfTwo
      <4>4. ~(at[Client(v)] = "idle" /\ power[v] >= 1) BY <4>1, <4>2 DEF Member, Holds
      <4>5. ~(st[v] = "RUNNING" /\ at[Client(v)] \notin {"put", "stopped"})
        <5>1. CASE at[Client(v)] = "idle" BY <3>2, <4>4, <5>1 DEF UserOK
        <5>2. CASE at[Client(v)] \in Booting BY <3>2, <5>2 DEF UserOK
        <5>3. CASE at[Client(v)] \in Stopping
          BY <4>1, <5>3 DEF Member, Holds, Stopping
        <5>4. QED BY <4>3, <5>1, <5>2, <5>3 DEF ForUser
      <4>6. at[Client(v)] # "run" BY <4>1 DEF Member, Holds
      <4>7. at[Work(v)] # "run"
        BY <3>2, <4>3, <4>4 DEF UserOK, ForUser, Booting
      <4>8. QED BY <2>6, <3>1, <4>5, <4>6, <4>7 DEF UpOK, Of
    <3>5. QED BY <3>3, <3>4
  <2>13. j # Work(u) /\ queued' \subseteq queued
    BY <1>3, <1>6, <1>12
  <2>14. \A v \in Users : v # u => st'[v] = st[v] /\ power'[v] = power[v] /\ UpOK(v)'
    BY <2>6, <2>12
  <2>15. Member(u) /\ ~Member(u)' /\ power'[Root] = power[Root] - 1
    BY <2>1, <2>6, <2>11
  <2>16. QED
    BY <1>1, <1>2, <1>6, <1>7, <2>8, <2>9, <2>10, <2>13, <2>14, <2>15, UserStep
<1>13. QED BY <1>3, <1>11, <1>12

\* A root that refuses to be shut down keeps the reference, and stays up: a fault.
LEMMA PutFailsApart ==
  ASSUME ApartInv, Inv', ~Overlap, NEW u \in Users, NEW j \in Of(u), RootPutFails(j)
  PROVE ApartInv'
<1>1. /\ at[j] = "put" /\ at' = [at EXCEPT ![j] = "stopped"] /\ used.root = 0
      /\ used' = [used EXCEPT !.fault = @ + 1] /\ ~PutKeeps(pd[j])
      /\ UNCHANGED <<st, power, wcss, lock, up, pd, ix, queued>>
  BY DEF RootPutFails, MayFail, Goto
<1>2. Undisturbed /\ (j = Work(u) => used.root = 0 /\ used.user # 0)
  BY <1>1, UserTurn DEF ApartInv
<1>3. /\ Inv /\ TypeOK /\ UserOK(u) /\ pd[j] = u
      /\ \A v \in Users : wcss[v] # "RESTARTING"
      /\ (j = Client(u) \/ j = Work(u)) /\ Client(u) # Work(u) /\ j \in Jobs
  BY <1>2, UserFacts
<1>4. /\ {"put", "stopped"} \subseteq Stopping /\ {"put", "stopped"} \subseteq ForUser
      /\ {"put", "stopped"} \cap Booting = {} /\ {"idle", "recover"} \cap ForUser = {}
  BY DEF ForUser, Booting, Starting, Stopping
<1>5. j = Client(u) BY <1>1, <1>3, <1>4 DEF UserOK, PutKeeps
<1>6. at'[j] = "stopped" /\ \A k \in Of(u) : k # j => at'[k] = at[k]
  <2>1. at'[j] = "stopped" BY <1>1, <1>3 DEF TypeOK
  <2>2. \A k \in Of(u) : k # j => at'[k] = at[k] BY <1>1, <1>3, UserMoves
  <2>3. QED BY <2>1, <2>2
<1>7. Client(u) \in Of(u) /\ Work(u) \in Of(u) BY DEF Of
<1>8. /\ queued' = queued /\ wcss'[Root] = wcss[Root] /\ lock' = lock /\ up' = up
      /\ st' = st /\ power' = power /\ \A v \in Users : wcss'[v] # "RESTARTING"
  BY <1>1, <1>3
<1>9. Faults(u) /\ ~Alone'
  <2>1. used.fault \in Nat BY <1>3, ConstantsOK DEF TypeOK
  <2>2. /\ used'.root = used.root /\ used'.user = used.user /\ used'.fault = used.fault + 1
        /\ used'.halted = used.halted
    BY <1>1, <1>3 DEF TypeOK
  <2>3. QED BY <1>1, <2>1, <2>2 DEF Faults, Alone
<1>10. at[Work(u)] \in {"idle", "recover"} BY <1>1, <1>3, <1>4, <1>5, OneOfTwo
<1>11. UserOK(u)' BY <1>1, <1>3, <1>4, <1>5, <1>6, <1>7, <1>8 DEF UserOK
<1>12. UpOK(u)' BY <1>3, <1>5, <1>6, <1>7, <1>10 DEF UpOK, Of
<1>13. Member(u) /\ ~Member(u)' BY <1>1, <1>5, <1>6 DEF Member, Holds
<1>14. QED
  BY <1>1, <1>2, <1>3, <1>5, <1>8, <1>9, <1>11, <1>12, <1>13, UserOnlyStep

\* The crash worker of a user sees a crash, and takes the user's mutex.
LEMMA SeenApart ==
  ASSUME ApartInv, Inv', NEW u \in Users, CrashSeen(u) \/ Recover(u) PROVE ApartInv'
<1> DEFINE w == Work(u)
<1>1. lock[u] = None /\ UNCHANGED <<power, wcss, up, pd, used>>
  BY DEF CrashSeen, Recover
<1>2. Inv /\ TurnInv /\ w \in Of(u) /\ Client(u) \in Of(u) /\ u # Root /\ w # Work(Root)
  BY DomainFacts, JobFacts DEF ApartInv, Of
<1>3. Undisturbed /\ used.root = 0 /\ used.user # 0
  <2>1. CASE CrashSeen(u)
    <3>1. u \in queued BY <2>1 DEF CrashSeen
    <3>2. used.user # 0 BY <1>2, <3>1 DEF TurnInv
    <3>3. used.root = 0
      BY <1>2, <3>2, ConstantsOK DEF TurnInv, Alone, Inv, TypeOK
    <3>4. QED BY <1>2, <3>2, <3>3 DEF Inv, Uncrashed, Undisturbed
  <2>2. CASE Recover(u)
    <3>1. at[w] # "idle" BY <2>2 DEF Recover
    <3>2. QED BY <1>2, <3>1, UserTurn
  <2>3. QED BY <2>1, <2>2
<1>4. /\ TypeOK /\ UserOK(u) /\ UpOK(u) /\ w \in Jobs /\ Client(u) # w
      /\ \A v \in Users : wcss[v] # "RESTARTING"
      /\ Users \subseteq PDs /\ Root \in PDs /\ u \in PDs
  BY <1>2, <1>3, UserFacts
<1>5. at[Client(u)] = "idle" /\ at[w] \in {"idle", "recover"} BY <1>1, <1>2, OneOfTwo
<1>6. PICK l \in {"idle", "recover", "stop"} :
        /\ at' = [at EXCEPT ![w] = l]
        /\ l = "stop" => st[u] = "CRASHED"
  <2>1. CASE CrashSeen(u) /\ st[u] \in {"CRASHED", "OFFLINE"}
    <3>1. at' = at BY <2>1 DEF CrashSeen
    <3>2. at' = [at EXCEPT ![w] = at[w]] BY <1>4, <3>1 DEF TypeOK
    <3>3. QED BY <1>5, <3>2
  <2>2. CASE CrashSeen(u) /\ st[u] \notin {"CRASHED", "OFFLINE"}
    BY <2>2 DEF CrashSeen, Goto
  <2>3. CASE Recover(u) /\ st[u] # "CRASHED" BY <2>3 DEF Recover, Goto
  <2>4. CASE Recover(u) /\ st[u] = "CRASHED" BY <1>2, <2>4 DEF Recover, Goto
  <2>5. QED BY <2>1, <2>2, <2>3, <2>4
<1>7. /\ at'[w] = l /\ at'[Client(u)] = "idle"
  <2>1. at'[w] = l BY <1>4, <1>6 DEF TypeOK
  <2>2. at'[Client(u)] = at[Client(u)] BY <1>2, <1>4, <1>6, UserMoves
  <2>3. QED BY <1>5, <2>1, <2>2
<1>8. /\ st' = st \/ (st[u] \notin {"CRASHED", "OFFLINE"} /\ st' = [st EXCEPT ![u] = "CRASHED"])
      /\ queued' \subseteq queued /\ queued \subseteq queued' \cup {u}
      /\ u \notin queued' => u \notin queued \/ st'[u] # "RUNNING"
  <2>1. CASE CrashSeen(u) BY <1>4, <2>1 DEF CrashSeen, TypeOK
  <2>2. CASE Recover(u) BY <2>2 DEF Recover
  <2>3. QED BY <2>1, <2>2
<1>9. /\ \A v \in Users : v # u => st'[v] = st[v] /\ power'[v] = power[v]
      /\ st'[Root] = st[Root] /\ power'[Root] = power[Root] /\ power'[u] = power[u]
      /\ st'[u] = st[u] \/ (st[u] # "OFFLINE" /\ st'[u] = "CRASHED")
      /\ l = "stop" => st'[u] = "CRASHED"
  BY <1>1, <1>2, <1>4, <1>6, <1>8 DEF TypeOK
<1>10. /\ used' = used /\ up' = up /\ wcss'[Root] = wcss[Root]
       /\ \A v \in Users : wcss'[v] # "RESTARTING"
  BY <1>1, <1>4
<1>11. Faults(u) BY <1>4, <1>10, NoFaultFaults DEF NoFault
<1>12. lock'[Root] = lock[Root]
  BY <1>2, <1>4 DEF CrashSeen, Recover, TypeOK
<1>13. /\ l \notin Booting /\ l \notin Starting /\ l # "rootrun" /\ at[w] # "rootrun"
       /\ l \in ForUser <=> l = "stop"
       /\ l \in Stopping <=> l = "stop"
       /\ "idle" \notin Booting /\ "idle" \notin Stopping
  BY <1>5 DEF ForUser, Booting, Starting, Stopping
<1>14. UserOK(u)' BY <1>4, <1>5, <1>6, <1>7, <1>9, <1>13 DEF UserOK
<1>15. UpOK(u)'
  <2>1. \A k \in Of(u) : at'[k] # "run" BY <1>7 DEF Of
  <2>2. st'[u] = "RUNNING" => u \in up' \cup queued' \cup used'.halted
    BY <1>4, <1>5, <1>8, <1>9, <1>10 DEF UpOK
  <2>3. QED BY <2>1, <2>2 DEF UpOK
<1>16. Member(u)' <=> Member(u) BY <1>5, <1>7, <1>9 DEF Member, Holds
<1>17. /\ up \subseteq up' \cup {u} /\ (Root \in up' <=> Root \in up)
  BY <1>10
<1>18. QED
  BY <1>2, <1>3, <1>6, <1>8, <1>9, <1>10, <1>11, <1>12, <1>13, <1>14, <1>15, <1>16, <1>17,
     UserOnlyStep

\* A client calls.
LEMMA CallApart ==
  ASSUME ApartInv, Inv', ~Overlap, NEW u \in Users, Boot(u) \/ Shutdown(u) PROVE ApartInv'
<1> DEFINE c == Client(u)
<1>1. /\ at[c] = "idle" /\ lock[u] = None /\ MayCall
      /\ UNCHANGED <<st, wcss, up, pd, ix, queued, used>>
  BY DEF Boot, Shutdown
<1>2. Undisturbed /\ Inv BY <1>1, CallTurn DEF ApartInv
<1>3. c \in Of(u) /\ Work(u) \in Of(u) BY DEF Of
<1>4. /\ TypeOK /\ UserOK(u) /\ UpOK(u) /\ c \in Jobs /\ c # Work(u)
      /\ \A v \in Users : wcss[v] # "RESTARTING"
      /\ Users \subseteq PDs /\ Root \in PDs /\ u \in PDs /\ u # Root /\ power[u] \in Nat
  BY <1>2, <1>3, UserFacts
<1>5. at[Work(u)] \in {"idle", "recover"} BY <1>1, <1>2, OneOfTwo
<1>6. PICK l \in {"idle", "load", "stop"} :
        /\ at' = [at EXCEPT ![c] = l]
        /\ l = "idle" => power'[u] >= 1 /\ power[u] >= 1
        /\ l = "load" => power[u] = 0 /\ power'[u] = 1
        /\ l = "stop" => power[u] = 1 /\ power'[u] = 0 /\ st[u] = "RUNNING"
  <2>1. CASE Boot(u)
    <3>1. power'[u] = power[u] + 1 BY <1>4, <2>1 DEF Boot, TypeOK
    <3>2. CASE power[u] > 0
      <4>1. at' = [at EXCEPT ![c] = "idle"] BY <1>1, <1>4, <2>1, <3>2 DEF Boot, TypeOK
      <4>2. QED BY <1>4, <3>1, <3>2, <4>1
    <3>3. CASE ~(power[u] > 0)
      <4>1. at' = [at EXCEPT ![c] = "load"] BY <2>1, <3>3 DEF Boot, Goto
      <4>2. QED BY <1>4, <3>1, <3>3, <4>1
    <3>4. QED BY <3>2, <3>3
  <2>2. CASE Shutdown(u)
    <3>1. power'[u] = power[u] - 1 /\ power[u] > 0 /\ st[u] = "RUNNING"
      BY <1>4, <2>2 DEF Shutdown, TypeOK
    <3>2. CASE power[u] > 1
      <4>1. at' = [at EXCEPT ![c] = "idle"] BY <1>1, <1>4, <2>2, <3>2 DEF Shutdown, TypeOK
      <4>2. QED BY <1>4, <3>1, <3>2, <4>1
    <3>3. CASE ~(power[u] > 1)
      <4>1. at' = [at EXCEPT ![c] = "stop"] BY <2>2, <3>3 DEF Shutdown, Goto
      <4>2. QED BY <1>4, <3>1, <3>3, <4>1
    <3>4. QED BY <3>2, <3>3
  <2>3. QED BY <2>1, <2>2
<1>7. at'[c] = l /\ at'[Work(u)] = at[Work(u)]
  <2>1. at'[c] = l BY <1>4, <1>6 DEF TypeOK
  <2>2. at'[Work(u)] = at[Work(u)] BY <1>3, <1>4, <1>6, UserMoves
  <2>3. QED BY <2>1, <2>2
<1>8. /\ \A v \in Users : v # u => st'[v] = st[v] /\ power'[v] = power[v]
      /\ power'[Root] = power[Root] /\ lock'[Root] = lock[Root]
  BY <1>4 DEF Boot, Shutdown, TypeOK
<1>9. /\ st' = st /\ queued' = queued /\ used' = used /\ up' = up /\ wcss'[Root] = wcss[Root]
      /\ \A v \in Users : wcss'[v] # "RESTARTING"
  BY <1>1, <1>4
<1>10. Faults(u) BY <1>4, <1>9, NoFaultFaults DEF NoFault
<1>11. /\ {"idle", "recover"} \cap ForUser = {} /\ Booting \cup Stopping \subseteq ForUser
       /\ "load" \in Booting /\ "stop" \in Stopping
       /\ "load" \notin Stopping /\ "stop" \notin Booting
  BY DEF ForUser, Booting, Starting, Stopping
<1>12. UserOK(u)'
  <2>1. st[u] # "OFFLINE" => power[u] >= 1 BY <1>1, <1>4 DEF UserOK
  <2>2. at'[Work(u)] \notin ForUser /\ at'[Work(u)] \notin Stopping
    BY <1>5, <1>7, <1>11
  <2>3. QED BY <1>4, <1>6, <1>7, <1>9, <1>11, <2>1, <2>2 DEF UserOK
<1>13. UpOK(u)'
  <2>1. \A k \in Of(u) : at'[k] # "run" BY <1>5, <1>6, <1>7 DEF Of
  <2>2. QED BY <1>1, <1>4, <1>9, <2>1 DEF UpOK
<1>14. Member(u)' <=> Member(u)
  <2>1. power'[u] \in Nat BY <1>4 DEF Inv, TypeOK
  <2>2. Member(u) <=> l # "load" BY <1>1, <1>4, <1>6 DEF Member, Holds
  <2>3. Member(u)' <=> l # "load" BY <1>6, <1>7, <2>1 DEF Member, Holds
  <2>4. QED BY <2>2, <2>3
<1>15. /\ queued' \subseteq queued /\ queued \subseteq queued' \cup {u}
       /\ up \subseteq up' \cup {u} /\ (Root \in up' <=> Root \in up)
       /\ st'[Root] = st[Root] /\ at[c] # "rootrun" /\ l # "rootrun"
  BY <1>1, <1>6, <1>9
<1>16. QED
  BY <1>2, <1>3, <1>4, <1>6, <1>8, <1>9, <1>10, <1>12, <1>13, <1>14, <1>15, UserOnlyStep

\* A user crashes.
LEMMA UserCrashApart ==
  ASSUME ApartInv, Inv', ~Overlap, NEW u \in Users, UserCrash(u) PROVE ApartInv'
<1>1. /\ u \in up /\ used.root = 0 /\ used' = [used EXCEPT !.user = @ + 1]
      /\ up' = up \ {u} /\ queued' = queued \cup {u}
      /\ UNCHANGED <<st, power, wcss, lock, at, pd, ix>>
  BY DEF UserCrash, MayFail
<1>2. Inv /\ TypeOK /\ TurnInv /\ RestartInv /\ UserInv /\ UpInv /\ CountInv
  BY DEF ApartInv, Inv
<1>3. /\ used'.user = used.user + 1 /\ used'.root = 0 /\ used.user \in Nat
      /\ used'.halted = used.halted
  BY <1>1, <1>2, ConstantsOK DEF TypeOK
<1>4. ~Alone' /\ used'.user # 0 BY <1>3 DEF Alone
<1>5. /\ Root \notin queued' /\ Root \notin queued /\ Agree'
      /\ \A k \in Jobs : Looping(k) => at[k] = "idle" /\ at'[k] = "idle"
  BY <1>1, <1>2, <1>3 DEF Inv, Uncrashed, Agree
<1>6. /\ at[Work(Root)] = "idle" /\ at'[Work(Root)] = "idle"
      /\ \A t \in Threads : at[Thread(t)] = "idle" /\ at'[Thread(t)] = "idle"
  BY <1>5, JobFacts, KindFacts
<1>7. TurnInv' BY <1>3, <1>4, <1>5, <1>6 DEF TurnInv
<1>8. ThreadInv' BY <1>6 DEF ThreadInv, Booting, Starting
<1>9. RestartInv' BY <1>1, <1>2, <1>5, <1>6 DEF RestartInv, Sweeping, Starting, Stopping
<1>10. UserInv' BY <1>1, <1>2 DEF UserInv, UserOK
<1>11. UpInv'
  <2>1. \A v \in Users : UpOK(v) BY <1>2, <1>5, <1>6 DEF UpInv, Sweeping, Stopping
  <2>2. \A v \in Users : UpOK(v)' BY <1>1, <1>3, <2>1 DEF UpOK
  <2>3. QED BY <1>6, <2>2 DEF UpInv, Stopping
<1>12. CountInv'
  <2>1. Counted' = Counted BY <1>1 DEF Counted, Member, Holds
  <2>2. QED BY <1>1, <1>2, <1>4, <2>1 DEF CountInv
<1>13. QED BY <1>7, <1>8, <1>9, <1>10, <1>11, <1>12 DEF ApartInv

-----------------------------------------------------------------------------
(* The steps of the root's worker and of the restart threads.              *)

\* Their turn: a recovery of the root is alone, and clients wait for it.
LEMMA LoopTurn ==
  ASSUME ApartInv, Root \in queued \/ \E j \in Jobs : Looping(j) /\ at[j] # "idle"
  PROVE /\ used.root > 0 /\ Alone /\ queued \subseteq {Root} /\ Idle(Clients)
        /\ \A u \in Users : at[Client(u)] = "idle" /\ at[Work(u)] = "idle"
<1>1. Inv /\ TurnInv BY DEF ApartInv
<1>2. used.root # 0 /\ used.root \in Nat
  BY <1>1, ConstantsOK DEF Inv, Uncrashed, TypeOK
<1>3. Alone /\ (Idle(Clients) \/ Calm) /\ used.root > 0 BY <1>1, <1>2 DEF TurnInv
<1>4. ~Calm BY LoopFacts DEF Calm, Idle
<1>5. \A u \in Users : at[Client(u)] = "idle" BY <1>3, <1>4, KindFacts DEF Idle
<1>6. queued \subseteq {Root} /\ \A u \in Users : at[Work(u)] = "idle"
  BY <1>1, <1>3 DEF TurnInv, Alone
<1>7. QED BY <1>3, <1>4, <1>5, <1>6

\* What they leave of the users' parts of the invariant.
LEMMA LoopKept ==
  ASSUME ApartInv, Root \in queued \/ \E j \in Jobs : Looping(j) /\ at[j] # "idle",
         \A u \in Users : at'[Client(u)] = at[Client(u)] /\ at'[Work(u)] = at[Work(u)],
         NoFault, power' = power,
         \A u \in Users : st[u] = "OFFLINE" => st'[u] = "OFFLINE"
  PROVE /\ Alone' /\ Idle(Clients)' /\ UserInv' /\ CountInv'
        /\ \A u \in Users : /\ at'[Client(u)] = "idle" /\ at'[Work(u)] = "idle"
                            /\ st'[u] # "RUNNING" \/ u \in up' \cup queued' => UpOK(u)'
<1>1. Inv /\ UserInv /\ CountInv BY DEF ApartInv
<1>2. Alone /\ \A u \in Users : at[Client(u)] = "idle" /\ at[Work(u)] = "idle" BY LoopTurn
<1>3. \A u \in Users : at'[Client(u)] = "idle" /\ at'[Work(u)] = "idle" BY <1>2
<1>4. Idle(Clients)' BY <1>3 DEF Idle, Clients
<1>5. Alone' BY <1>2 DEF Alone, NoFault
<1>6. {"idle"} \cap (Booting \cup Stopping \cup ForUser) = {}
  BY DEF ForUser, Booting, Starting, Stopping
<1>7. UserInv' BY <1>1, <1>2, <1>3, <1>6 DEF UserInv, UserOK
<1>8. CountInv'
  <2>1. Counted' = Counted BY <1>2, <1>3 DEF Counted, Member, Holds
  <2>2. QED BY <1>1, <1>2, <2>1 DEF CountInv
<1>9. \A u \in Users : st'[u] # "RUNNING" \/ u \in up' \cup queued' => UpOK(u)'
  BY <1>3 DEF UpOK, Of
<1>10. QED BY <1>3, <1>4, <1>5, <1>7, <1>8, <1>9

\* The root's worker stops users: no thread runs, and the root is CRASHED.
LEMMA SweepKept ==
  ASSUME ApartInv, NEW l, at' = [at EXCEPT ![Work(Root)] = l],
         Root \in queued \/ at[Work(Root)] \in {"recover", "sweep"} \cup Stopping,
         queued' = {}, used' = used, power' = power, up' \subseteq up,
         wcss'[Root] = wcss[Root], \A v \in Users : wcss'[v] # "RESTARTING",
         \A v \in Users : st[v] = "OFFLINE" => st'[v] = "OFFLINE",
         st'[Root] = "CRASHED", l \in {"recover", "sweep"} \cup Stopping,
         l \in Stopping => /\ st'[pd'[Work(Root)]] = "CRASHED"
                           /\ pd'[Work(Root)] = Order[ix'[Work(Root)]],
         l # "recover" =>
           \A i \in 1 .. Len(Order) : i < ix'[Work(Root)] => st'[Order[i]] # "RUNNING",
         Inv'
  PROVE ApartInv'
<1> DEFINE w == Work(Root)
<1>1. Inv /\ TypeOK /\ TurnInv /\ RestartInv BY DEF ApartInv, Inv
<1>2. w \in Jobs /\ Looping(w) /\ w \in Recoveries BY JobFacts, KindFacts, LoopFacts
<1>3. /\ at'[w] = l
      /\ \A k \in Jobs : k # w => at'[k] = at[k]
  BY <1>1, <1>2 DEF TypeOK
<1>4. Root \in queued \/ at[w] # "idle" BY DEF Stopping
<1>5. /\ \A t \in Threads : at[Thread(t)] = "idle"
      /\ at[w] # "rootstart"
  <2>1. CASE Root \in queued
    <3>1. Idle(Recoveries) BY <1>1, <2>1 DEF TurnInv
    <3>2. QED BY <1>2, <3>1, JobFacts, KindFacts, LoopFacts DEF Idle
  <2>2. CASE at[w] \in {"recover", "sweep"} \cup Stopping
    BY <1>1, <2>2 DEF TurnInv, Stopping
  <2>3. QED BY <2>1, <2>2
<1>6. /\ \A t \in Threads : at'[Thread(t)] = "idle"
      /\ \A u \in Users : at'[Client(u)] = at[Client(u)] /\ at'[Work(u)] = at[Work(u)]
  BY <1>3, <1>5, JobFacts
<1>7. /\ Alone' /\ Idle(Clients)' /\ UserInv' /\ CountInv'
      /\ \A u \in Users : at'[Work(u)] = "idle"
  BY <1>2, <1>4, <1>6, LoopKept DEF NoFault
<1>8. /\ l \notin {"idle", "rootstart", "rootrun"} /\ l \notin Starting
      /\ "idle" \notin Booting
  BY DEF Stopping, Starting, Booting
<1>9. TurnInv' BY <1>6, <1>7 DEF TurnInv
<1>10. ThreadInv' BY <1>6, <1>8 DEF ThreadInv
<1>10a. up' = {} BY <1>1 DEF RestartInv, Sweeping
<1>11. RestartInv' BY <1>1, <1>3, <1>5, <1>6, <1>8, <1>10a DEF RestartInv
<1>12. Sweeping' BY <1>3 DEF Sweeping
<1>13. UpInv' BY <1>3, <1>6, <1>12 DEF UpInv, Stopping
<1>14. QED BY <1>7, <1>9, <1>10, <1>11, <1>13 DEF ApartInv

\* The root's worker sees the crash and takes the root's mutex.
LEMMA RootSeenApart ==
  ASSUME ApartInv, Inv', CrashSeen(Root) \/ Recover(Root) PROVE ApartInv'
<1> DEFINE w == Work(Root)
<1>1. Inv /\ TypeOK /\ TurnInv /\ RestartInv BY DEF ApartInv, Inv
<1>2. w \in Jobs /\ Looping(w) /\ w \in Recoveries /\ Root \in PDs /\ Root \notin Users
      /\ Users \subseteq PDs
  BY JobFacts, KindFacts, LoopFacts, DomainFacts
<1>3. UNCHANGED <<power, wcss, up, pd, used>> BY DEF CrashSeen, Recover
<1>4. wcss'[Root] = wcss[Root] /\ \A v \in Users : wcss'[v] # "RESTARTING"
  BY <1>1, <1>3 DEF RestartInv
<1>5. CASE CrashSeen(Root)
  <2>1. Root \in queued /\ queued' = queued \ {Root} BY <1>5 DEF CrashSeen
  <2>2. queued \subseteq {Root} BY <2>1, LoopTurn
  <2>3. st[Root] = "RUNNING" BY <1>1, <2>1 DEF RestartInv, Sweeping
  <2>4. at' = [at EXCEPT ![w] = "recover"] /\ st' = [st EXCEPT ![Root] = "CRASHED"]
    BY <1>5, <2>3 DEF CrashSeen, Goto
  <2>5. st'[Root] = "CRASHED" /\ \A v \in Users : st'[v] = st[v] BY <1>1, <1>2, <2>4 DEF TypeOK
  <2>6. queued' = {} BY <2>1, <2>2
  <2>7. "recover" \notin Stopping BY DEF Stopping
  <2>8. QED BY <1>3, <1>4, <2>1, <2>4, <2>5, <2>6, <2>7, SweepKept, <1>5
<1>6. CASE Recover(Root)
  <2>1. at[w] = "recover" /\ queued' = queued /\ st' = st BY <1>6 DEF Recover
  <2>2. at[w] # "idle" BY <2>1
  <2>3. queued \subseteq {Root} /\ Root \notin queued
    <3>1. queued \subseteq {Root} BY <1>2, <2>2, LoopTurn
    <3>2. Root \notin queued BY <1>1, <1>2, <2>2 DEF TurnInv, Idle
    <3>3. QED BY <3>1, <3>2
  <2>4. st[Root] = "CRASHED" BY <1>1, <2>1, <2>3 DEF RestartInv, Sweeping
  <2>5. at' = [at EXCEPT ![w] = "sweep"] /\ ix' = [ix EXCEPT ![w] = 1]
    BY <1>6, <2>4 DEF Recover, Goto
  <2>6. ix'[w] = 1 BY <1>1, <1>2, <2>5 DEF TypeOK
  <2>7. queued' = {} BY <2>1, <2>3
  <2>8. "sweep" \notin Stopping BY DEF Stopping
  <2>9. \A i \in 1 .. Len(Order) : i < ix'[w] => st'[Order[i]] # "RUNNING"
    BY <2>6, DomainFacts
  <2>10. st'[Root] = "CRASHED" /\ \A v \in Users : st'[v] = st[v] BY <2>1, <2>4
  <2>11. QED BY <1>3, <1>4, <2>1, <2>5, <2>7, <2>8, <2>9, <2>10, SweepKept
<1>7. QED BY <1>5, <1>6

\* q6_wcss_stop of a crashed root, a user after the other ...
LEMMA SweepApart ==
  ASSUME ApartInv, Inv',
         \/ Sweep \/ Stop(Work(Root)) \/ RootPut(Work(Root))
         \/ Stopped(Work(Root)) \/ StopFailed(Work(Root))
  PROVE ApartInv'
<1> DEFINE w == Work(Root)
           u == Order[ix[w]]
<1>1. Inv /\ TypeOK /\ LabelInv /\ TurnInv /\ RestartInv /\ UpInv BY DEF ApartInv, Inv
<1>2. w \in Jobs /\ Looping(w) /\ After(w) = "sweep" /\ w \in Recoveries /\ w \notin Clients
      /\ Root \in PDs /\ Root \notin Users /\ Users \subseteq PDs
  BY JobFacts, KindFacts, LoopFacts, DomainFacts
<1>3. at[w] \in {"sweep"} \cup Stopping /\ UNCHANGED <<queued, used>>
  BY DEF Sweep, Stop, RootPut, Stopped, StopFailed, Stopping
<1>4. at[w] # "idle" BY <1>3 DEF Stopping
<1>5. queued \subseteq {Root} /\ Root \notin queued
  <2>1. queued \subseteq {Root} BY <1>2, <1>4, LoopTurn
  <2>2. Root \notin queued BY <1>1, <1>2, <1>4 DEF TurnInv, Idle
  <2>3. QED BY <2>1, <2>2
<1>6. st[Root] = "CRASHED" BY <1>1, <1>3, <1>5 DEF RestartInv, Sweeping
<1>7. ix[w] \in 1 .. Len(Order) /\ u \in Users
  <2>1. ix[w] <= Len(Order)
    <3>1. CASE at[w] \in Stopping BY <1>1, <1>2, <3>1 DEF LabelInv, Within
    <3>2. CASE at[w] = "sweep"
      BY <3>2 DEF Sweep, Stop, RootPut, Stopped, StopFailed
    <3>3. QED BY <1>3, <3>1, <3>2
  <2>2. QED BY <1>1, <1>2, <2>1, DomainFacts DEF TypeOK
<1>8. \A i \in 1 .. Len(Order) : i < ix[w] => st[Order[i]] # "RUNNING"
  BY <1>1, <1>3 DEF UpInv
<1>9. at[w] \in Stopping => st[u] = "CRASHED" /\ pd[w] = u
  BY <1>1 DEF RestartInv
<1>10. queued' = {} BY <1>3, <1>5
<1>10a. up' \subseteq up
  <2>1. up = {} BY <1>1, <1>3 DEF RestartInv, Sweeping
  <2>2. QED BY <2>1 DEF Sweep, Stop, RootPut, Stopped, StopFailed
<1>11. ASSUME NEW l \in {"sweep"} \cup Stopping, at' = [at EXCEPT ![w] = l],
              wcss' \in {wcss, [wcss EXCEPT ![u] = "SHUTDOWN"]}, power' = power,
              \/ l \in Stopping /\ ix' = ix /\ pd'[w] = u /\ st' = [st EXCEPT ![u] = "CRASHED"]
              \/ /\ l = "sweep" /\ ix' = [ix EXCEPT ![w] = @ + 1]
                 /\ (st' = st /\ st[u] # "RUNNING") \/ st' = [st EXCEPT ![u] = "SUSPENDED"]
                 /\ st[u] = "OFFLINE" => st' = st
              \/ /\ l \in Stopping /\ ix' = ix /\ pd' = pd /\ st' = st /\ at[w] \in Stopping,
              l \in Stopping => st[u] # "OFFLINE"
       PROVE ApartInv'
  <2>1. wcss'[Root] = wcss[Root] /\ \A v \in Users : wcss'[v] # "RESTARTING"
    BY <1>1, <1>2, <1>7, <1>11 DEF TypeOK, RestartInv
  <2>2. /\ st'[Root] = "CRASHED"
        /\ \A v \in Users : (st[v] = "OFFLINE" => st'[v] = "OFFLINE")
                            /\ (v # u => st'[v] = st[v])
    BY <1>1, <1>2, <1>6, <1>7, <1>11 DEF TypeOK
  <2>3. l \in Stopping => st'[pd'[w]] = "CRASHED" /\ pd'[w] = Order[ix'[w]] /\ ix' = ix
    BY <1>1, <1>2, <1>7, <1>9, <1>11 DEF TypeOK, Stopping
  <2>4. \A i \in 1 .. Len(Order) : i < ix'[w] => st'[Order[i]] # "RUNNING"
    <3> SUFFICES ASSUME NEW i \in 1 .. Len(Order), i < ix'[w] PROVE st'[Order[i]] # "RUNNING"
      OBVIOUS
    <3>1. Order[i] \in Users BY DomainFacts
    <3>2. CASE Order[i] = u
      <4>1. CASE l \in Stopping BY <1>7, <2>3, <3>2, <4>1
      <4>2. CASE l = "sweep"
        <5>1. st'[u] # "RUNNING" BY <1>1, <1>2, <1>7, <1>11, <4>2 DEF TypeOK, Stopping
        <5>2. QED BY <3>2, <5>1
      <4>3. QED BY <1>11, <4>1, <4>2
    <3>3. CASE Order[i] # u
      <4>1. ix'[w] \in {ix[w], ix[w] + 1} BY <1>1, <1>2, <1>11 DEF TypeOK
      <4>2. i < ix[w] BY <1>7, <3>3, <4>1
      <4>3. QED BY <1>8, <2>2, <3>1, <3>3, <4>2
    <3>4. QED BY <3>2, <3>3
  <2>5. used' = used BY <1>3
  <2>6. QED BY <1>3, <1>10, <1>11, <1>10a, <2>1, <2>2, <2>3, <2>4, <2>5, SweepKept
<1>12. CASE Sweep
  <2>1. CASE Sweeps(u)
    <3>1. /\ at' = [at EXCEPT ![w] = "stop"] /\ st' = [st EXCEPT ![u] = "CRASHED"]
          /\ pd' = [pd EXCEPT ![w] = u] /\ ix' = ix /\ power' = power /\ wcss' = wcss
      BY <1>12, <2>1 DEF Sweep, Goto
    <3>2. pd'[w] = u BY <1>1, <1>2, <3>1 DEF TypeOK
    <3>3. "stop" \in Stopping BY DEF Stopping
    <3>4. st[u] # "OFFLINE" BY <2>1 DEF Sweeps
    <3>5. QED BY <1>11, <3>1, <3>2, <3>3, <3>4
  <2>2. CASE ~Sweeps(u)
    <3>1. /\ at' = at /\ at[w] = "sweep" /\ st' = st /\ power' = power /\ wcss' = wcss
          /\ ix' = [ix EXCEPT ![w] = @ + 1]
      BY <1>12, <2>2 DEF Sweep
    <3>2. at' = [at EXCEPT ![w] = "sweep"] BY <1>1, <1>2, <3>1 DEF TypeOK
    <3>3. st[u] # "RUNNING" /\ "sweep" \notin Stopping BY <2>2 DEF Sweeps, Stopping
    <3>4. QED BY <1>11, <3>1, <3>2, <3>3
  <2>3. QED BY <2>1, <2>2
<1>13. CASE Stop(w) \/ RootPut(w)
  <2>1. at[w] \in Stopping /\ at[w] \in {"stop", "put"} BY <1>13 DEF Stop, RootPut, Stopping
  <2>2. st[pd[w]] = "CRASHED" /\ PutKeeps(pd[w]) BY <1>9, <2>1 DEF PutKeeps
  <2>3. PICK l \in {"put", "stopped"} :
          /\ at' = [at EXCEPT ![w] = l] /\ UNCHANGED <<st, power, wcss, pd, ix>>
    <3>1. CASE Stop(w) BY <2>2, <3>1 DEF Stop, Goto
    <3>2. CASE RootPut(w) BY <2>2, <3>2 DEF RootPut, Goto
    <3>3. QED BY <1>13, <3>1, <3>2
  <2>4. l \in Stopping BY DEF Stopping
  <2>5. st' = st /\ power' = power /\ wcss' = wcss /\ pd' = pd /\ ix' = ix BY <2>3
  <2>6. st[u] # "OFFLINE" BY <1>9, <2>1
  <2>7. QED BY <1>11, <2>1, <2>3, <2>4, <2>5, <2>6
<1>14. CASE Stopped(w) \/ StopFailed(w)
  <2>1. at[w] \in Stopping BY <1>14 DEF Stopped, StopFailed, Stopping
  <2>2. pd[w] = u /\ st[u] = "CRASHED" BY <1>9, <2>1
  <2>3. /\ at' = [at EXCEPT ![w] = "sweep"] /\ ix' = [ix EXCEPT ![w] = @ + 1]
        /\ power' = power /\ st' = [st EXCEPT ![u] = "SUSPENDED"]
        /\ wcss' \in {wcss, [wcss EXCEPT ![u] = "SHUTDOWN"]}
    BY <1>2, <1>14, <2>2 DEF Stopped, StopFailed, Return, Goto
  <2>4. "sweep" \notin Stopping BY DEF Stopping
  <2>5. QED BY <1>11, <2>2, <2>3, <2>4
<1>15. QED BY <1>12, <1>13, <1>14

\* ... until all are stopped and the root is down, and is started again.
LEMMA RootDownApart == ASSUME ApartInv, Inv', RootDown PROVE ApartInv'
<1> DEFINE w == Work(Root)
<1>1. Inv /\ TypeOK /\ TurnInv /\ RestartInv /\ UpInv BY DEF ApartInv, Inv
<1>2. w \in Jobs /\ Looping(w) /\ w \in Recoveries /\ Root \in PDs /\ Root \notin Users
      /\ Users \subseteq PDs
  BY JobFacts, KindFacts, LoopFacts, DomainFacts
<1>3. /\ at[w] = "sweep" /\ ix[w] > Len(Order) /\ at' = [at EXCEPT ![w] = "rootstart"]
      /\ wcss' = [wcss EXCEPT ![Root] = "RESTARTING"] /\ st' = [st EXCEPT ![Root] = "OFFLINE"]
      /\ UNCHANGED <<power, lock, pd, ix, queued, used>>
  BY DEF RootDown, Goto
<1>4. at'[w] = "rootstart" /\ \A k \in Jobs : k # w => at'[k] = at[k]
  BY <1>1, <1>2, <1>3 DEF TypeOK
<1>5. Root \notin queued /\ \A t \in Threads : at[Thread(t)] = "idle"
  BY <1>1, <1>2, <1>3 DEF TurnInv, Idle
<1>6. /\ wcss'[Root] = "RESTARTING" /\ \A v \in Users : wcss'[v] = wcss[v]
      /\ st'[Root] = "OFFLINE" /\ \A v \in Users : st'[v] = st[v]
  BY <1>1, <1>2, <1>3 DEF TypeOK
<1>7. /\ \A t \in Threads : at'[Thread(t)] = "idle"
      /\ \A u \in Users : at'[Client(u)] = at[Client(u)] /\ at'[Work(u)] = at[Work(u)]
  BY <1>4, <1>5, JobFacts
<1>8. queued' = queued /\ used' = used /\ power' = power BY <1>3
<1>9. at[w] # "idle" BY <1>3
<1>10. /\ Alone' /\ Idle(Clients)' /\ UserInv' /\ CountInv'
       /\ \A u \in Users : at'[Work(u)] = "idle" /\ (st'[u] # "RUNNING" => UpOK(u)')
  BY <1>2, <1>6, <1>7, <1>8, <1>9, LoopKept DEF NoFault
<1>11. queued' \subseteq {Root} BY <1>2, <1>8, <1>9, LoopTurn
<1>12. \A u \in Users : st[u] # "RUNNING"
  <2> SUFFICES ASSUME NEW u \in Users PROVE st[u] # "RUNNING" OBVIOUS
  <2>1. PICK i \in 1 .. Len(Order) : u = Order[i] BY DEF Users
  <2>2. ix[w] \in Nat /\ Len(Order) \in Nat BY <1>1, <1>2, DomainFacts DEF TypeOK
  <2>3. QED BY <1>1, <1>3, <2>1, <2>2 DEF UpInv
<1>13. /\ {"rootstart"} \cap ({"recover", "sweep"} \cup Stopping) = {}
       /\ "idle" \notin Booting
  BY DEF Stopping, Starting, Booting
<1>14. TurnInv' BY <1>5, <1>7, <1>8, <1>10, <1>11 DEF TurnInv
<1>15. ThreadInv' BY <1>7, <1>13 DEF ThreadInv
<1>16. ~Sweeping' BY <1>4, <1>5, <1>8, <1>13 DEF Sweeping
<1>17. RestartInv' BY <1>1, <1>4, <1>6, <1>13, <1>16 DEF RestartInv
<1>18. UpInv' BY <1>4, <1>6, <1>7, <1>10, <1>12, <1>13 DEF UpInv
<1>19. QED BY <1>10, <1>14, <1>15, <1>17, <1>18 DEF ApartInv

\* The root's worker starts the root, which makes the restart thread.
LEMMA RestartApart ==
  ASSUME ApartInv, Inv', RootStart(Work(Root)) \/ RootRuns(Work(Root)) PROVE ApartInv'
<1> DEFINE w == Work(Root)
<1>1. Inv /\ TypeOK /\ MutexInv /\ PowerInv /\ TurnInv /\ ThreadInv /\ RestartInv /\ UpInv
  BY DEF ApartInv, Inv
<1>2. w \in Jobs /\ Looping(w) /\ w \in Recoveries /\ Root \in PDs /\ Root \notin Users
      /\ Users \subseteq PDs
  BY JobFacts, KindFacts, LoopFacts, DomainFacts
<1>3. at[w] \in {"rootstart", "rootrun"} /\ UNCHANGED <<power, pd, ix, queued, used>>
  BY DEF RootStart, RootRuns
<1>4. at[w] # "idle" /\ at[w] \in Starting /\ at[w] \notin {"recover", "sweep"} \cup Stopping
  BY <1>3 DEF Starting, Stopping
<1>5. Root \notin queued BY <1>1, <1>2, <1>4 DEF TurnInv, Idle
<1>6. \A v \in Users : UpOK(v) BY <1>1, <1>4, <1>5 DEF UpInv, Sweeping
<1>7. queued' = queued /\ used' = used /\ power' = power BY <1>3
<1>8. queued' \subseteq {Root} BY <1>2, <1>4, <1>7, LoopTurn
<1>9. st[Root] = "OFFLINE" BY <1>1, <1>4 DEF RestartInv
<1>10. /\ {"idle", "spin", "rootrun"} \cap Booting = {"rootrun"}
       /\ {"idle", "rootrun"} \cap ({"recover", "sweep"} \cup Stopping) = {}
       /\ "idle" \notin Starting
  BY DEF Stopping, Starting, Booting
<1>11. CASE RootStart(w)
  <2>1. at[w] = "rootstart" /\ up' = up \cup {Root} /\ UNCHANGED <<st, lock>>
    BY <1>11 DEF RootStart
  <2>2. wcss[Root] = "RESTARTING" BY <1>1, <2>1 DEF RestartInv
  <2>3. \A t \in Threads : at[Thread(t)] = "idle" BY <1>1, <2>1 DEF TurnInv
  <2>4. PICK t \in Threads :
          at' = [at EXCEPT ![w] = "rootrun", ![Thread(t)] = "spin"] /\ UNCHANGED wcss
    BY <1>11, <2>2 DEF RootStart, RestartUsers
  <2>5. Thread(t) \in Jobs /\ Thread(t) # w BY JobFacts
  <2>6. /\ at'[w] = "rootrun" /\ at'[Thread(t)] = "spin"
        /\ \A k \in Jobs : k \notin {w, Thread(t)} => at'[k] = at[k]
    BY <1>1, <1>2, <2>4, <2>5 DEF TypeOK
  <2>7. /\ \A r \in Threads : r # t => at'[Thread(r)] = "idle"
        /\ \A u \in Users : at'[Client(u)] = at[Client(u)] /\ at'[Work(u)] = at[Work(u)]
    BY <2>3, <2>6, JobFacts
  <2>8. st' = st /\ wcss' = wcss /\ Root \in up' BY <2>1, <2>4
  <2>9. /\ Alone' /\ Idle(Clients)' /\ UserInv' /\ CountInv'
        /\ \A u \in Users : at'[Work(u)] = "idle"
    BY <1>2, <1>4, <1>7, <2>7, <2>8, LoopKept DEF NoFault
  <2>10. TurnInv' BY <1>5, <1>7, <1>8, <2>6, <2>7, <2>9 DEF TurnInv
  <2>11. ThreadInv' BY <1>10, <2>6, <2>7 DEF ThreadInv
  <2>12. ~Sweeping' BY <1>5, <1>7, <1>10, <2>6 DEF Sweeping
  <2>13. RestartInv'
    BY <1>1, <1>9, <1>10, <2>2, <2>6, <2>8, <2>12 DEF RestartInv
  <2>14. \A v \in Users : UpOK(v)' BY <1>6, <1>7, <2>1, <2>7, <2>8, UpKept
  <2>15. UpInv'
    <3>1. \A r \in Threads : at'[Thread(r)] # "run" BY <2>6, <2>7
    <3>2. QED BY <1>10, <2>6, <2>14, <3>1 DEF UpInv
  <2>16. QED BY <2>9, <2>10, <2>11, <2>13, <2>15 DEF ApartInv
<1>12. CASE RootRuns(w)
  <2>1. /\ at[w] = "rootrun" /\ at' = [at EXCEPT ![w] = "idle"] /\ UNCHANGED <<wcss, up>>
        /\ st' = [st EXCEPT ![Root] = "RUNNING"] /\ lock' = [lock EXCEPT ![Root] = None]
    BY <1>12 DEF RootRuns, Goto
  <2>2. at'[w] = "idle" /\ \A k \in Jobs : k # w => at'[k] = at[k]
    BY <1>1, <1>2, <2>1 DEF TypeOK
  <2>3. /\ \A t \in Threads : at'[Thread(t)] = at[Thread(t)]
        /\ \A u \in Users : at'[Client(u)] = at[Client(u)] /\ at'[Work(u)] = at[Work(u)]
    BY <2>2, JobFacts
  <2>4. /\ st'[Root] = "RUNNING" /\ lock'[Root] = None
        /\ \A v \in Users : st'[v] = st[v]
    BY <1>1, <1>2, <2>1 DEF TypeOK
  <2>5. wcss' = wcss /\ up' = up /\ pd' = pd BY <1>3, <2>1
  <2>6. \A t \in Threads : at[Thread(t)] \in {"idle", "spin"} BY <1>1, <2>1 DEF TurnInv
  <2>7. /\ Alone' /\ Idle(Clients)' /\ UserInv' /\ CountInv'
        /\ \A u \in Users : at'[Work(u)] = "idle"
    BY <1>2, <1>4, <1>7, <2>3, <2>4, LoopKept DEF NoFault
  <2>8. TurnInv' BY <1>1, <1>5, <1>7, <1>8, <2>2, <2>3, <2>7 DEF TurnInv
  <2>9. ThreadInv' BY <1>10, <2>3, <2>6 DEF ThreadInv
  <2>10. ~Sweeping' BY <1>5, <1>7, <1>10, <2>2 DEF Sweeping
  <2>11. Agree'
    <3>1. lock[Root] = w
      BY <1>1, <1>2, <1>4 DEF MutexInv, RootLabels
    <3>2. w # None BY <1>2, NoneIsNoJob
    <3>3. power[Root] >= 1 /\ power[Root] \in Nat BY <1>1, <1>2, <3>1, <3>2 DEF PowerInv, TypeOK
    <3>4. Root \in up BY <1>1, <2>1 DEF RestartInv
    <3>5. QED BY <1>7, <2>4, <2>5, <3>3, <3>4 DEF Agree
  <2>12. RestartInv'
    BY <1>1, <1>10, <2>1, <2>2, <2>3, <2>5, <2>10, <2>11 DEF RestartInv
  <2>13. \A v \in Users : UpOK(v)' BY <1>6, <1>7, <2>3, <2>4, <2>5, UpKept
  <2>14. UpInv'
    <3>1. \A t \in Threads : at'[Thread(t)] # "run" BY <2>3, <2>6
    <3>2. QED BY <1>10, <2>2, <2>13, <3>1 DEF UpInv
  <2>15. QED BY <2>7, <2>8, <2>9, <2>12, <2>14 DEF ApartInv
<1>13. QED BY <1>11, <1>12

\* A restart thread starts the users that the root's worker suspended.
LEMMA ThreadFacts ==
  ASSUME ApartInv, NEW t \in Threads, at[Thread(t)] # "idle"
  PROVE /\ Inv /\ TypeOK /\ TurnInv /\ ThreadInv /\ RestartInv
        /\ queued = {} /\ wcss[Root] = "RESTARTING"
        /\ \A r \in Threads : r # t => at[Thread(r)] = "idle"
        /\ Thread(t) \in Jobs /\ Looping(Thread(t)) /\ Thread(t) # Work(Root)
        /\ \A v \in Users : UpOK(v)
        /\ st[Root] = "RUNNING" => at[Work(Root)] = "idle" /\ Agree
        /\ st[Root] = "RUNNING" => lock[Root] = None
<1>1. Inv /\ TypeOK /\ LabelInv /\ MutexInv /\ TurnInv /\ ThreadInv /\ RestartInv /\ UpInv
  BY DEF ApartInv, Inv
<1>2. /\ Thread(t) \in Jobs /\ Looping(Thread(t)) /\ Thread(t) # Work(Root)
      /\ Thread(t) \in Recoveries
  BY JobFacts, KindFacts, LoopFacts
<1>3. Root \notin queued BY <1>1, <1>2 DEF TurnInv, Idle
<1>4. queued \subseteq {Root} /\ \A u \in Users : at[Client(u)] = "idle" /\ at[Work(u)] = "idle"
  BY <1>2, LoopTurn
<1>5. wcss[Root] = "RESTARTING" BY <1>1 DEF RestartInv
<1>6. \A r \in Threads : r # t => at[Thread(r)] = "idle" BY <1>1 DEF TurnInv
<1>7. at[Work(Root)] \in {"idle", "rootrun"} BY <1>1 DEF TurnInv
<1>8. \A v \in Users : UpOK(v) BY <1>1, <1>3, <1>7 DEF UpInv, Sweeping, Stopping
<1>9. st[Root] = "RUNNING" => at[Work(Root)] = "idle" /\ Agree
  BY <1>1, <1>3, <1>7 DEF RestartInv, Starting
<1>10. ASSUME st[Root] = "RUNNING" PROVE lock[Root] = None
  <2>1. SUFFICES ASSUME lock[Root] # None PROVE FALSE OBVIOUS
  <2>2. lock[Root] \in Jobs BY <1>1, <2>1, DomainFacts DEF TypeOK
  <2>3. at[lock[Root]] \in RootLabels(lock[Root]) BY <1>1, <2>2 DEF MutexInv
  <2>4. at[lock[Root]] # "idle" BY <2>3 DEF RootLabels, Starting, Stopping
  <2>5. PICK r \in Threads : lock[Root] = Thread(r) BY <1>4, <1>9, <1>10, <2>2, <2>4, JobFacts
  <2>6. lock[Root] # Work(Root) BY <2>5, JobFacts
  <2>7. at[Thread(r)] \in Starting BY <2>3, <2>5, <2>6 DEF RootLabels
  <2>8. QED BY <1>1, <2>7 DEF ThreadInv, Starting
<1>11. QED BY <1>1, <1>2, <1>3, <1>4, <1>5, <1>6, <1>8, <1>9, <1>10

\* A restart thread is alone, under a root that is up.
LEMMA ThreadKept ==
  ASSUME ApartInv, Inv', NEW t \in Threads, NEW l, at[Thread(t)] # "idle", st[Root] = "RUNNING",
         at' = [at EXCEPT ![Thread(t)] = l],
         UNCHANGED <<power, lock, queued>>, NoFault,
         st'[Root] = st[Root], Root \in up' <=> Root \in up,
         \A v \in Users : wcss'[v] # "RESTARTING",
         IF l = "idle" THEN wcss'[Root] # "RESTARTING" ELSE wcss'[Root] = wcss[Root],
         \A v \in Users : (st[v] = "OFFLINE" => st'[v] = "OFFLINE") /\ UpOK(v)',
         l \in {"idle", "scan", "load", "start", "run"},
         l \in Booting => st'[pd'[Thread(t)]] = "SUSPENDED",
         l = "run" => pd'[Thread(t)] \in up'
  PROVE ApartInv'
<1> DEFINE j == Thread(t)
<1>1. /\ Inv /\ TypeOK /\ TurnInv /\ ThreadInv /\ RestartInv
      /\ queued = {} /\ wcss[Root] = "RESTARTING"
      /\ \A r \in Threads : r # t => at[Thread(r)] = "idle"
      /\ j \in Jobs /\ Looping(j) /\ j # Work(Root)
      /\ at[Work(Root)] = "idle" /\ Agree /\ lock[Root] = None
  BY ThreadFacts
<1>2. at'[j] = l /\ \A k \in Jobs : k # j => at'[k] = at[k] BY <1>1 DEF TypeOK
<1>3. /\ \A r \in Threads : r # t => at'[Thread(r)] = "idle"
      /\ \A u \in Users : at'[Client(u)] = at[Client(u)] /\ at'[Work(u)] = at[Work(u)]
      /\ at'[Work(Root)] = "idle"
  BY <1>1, <1>2, JobFacts
<1>4. power' = power /\ NoFault /\ queued' = {} /\ lock' = lock BY <1>1
<1>5. /\ Alone' /\ Idle(Clients)' /\ UserInv' /\ CountInv'
      /\ \A u \in Users : at'[Work(u)] = "idle"
  BY <1>1, <1>3, <1>4, LoopKept
<1>6. TurnInv' BY <1>3, <1>4, <1>5 DEF TurnInv
<1>7. /\ "idle" \notin Booting /\ "idle" \notin Starting
      /\ "idle" \notin {"recover", "sweep"} \cup Stopping
  BY DEF Booting, Starting, Stopping
<1>8. ThreadInv'
  <2> SUFFICES ASSUME NEW r \in Threads
               PROVE /\ at'[Thread(r)] \in {"idle", "spin", "scan", "load", "start", "run"}
                     /\ at'[Thread(r)] \notin {"idle", "spin"} => st'[Root] = "RUNNING"
                     /\ at'[Thread(r)] \in Booting => st'[pd'[Thread(r)]] = "SUSPENDED"
    BY DEF ThreadInv
  <2>1. CASE r = t BY <1>2, <2>1
  <2>2. CASE r # t BY <1>3, <1>7, <2>2
  <2>3. QED BY <2>1, <2>2
<1>9. Agree' BY <1>1, <1>4 DEF Agree
<1>10. ~Sweeping' BY <1>3, <1>4, <1>7 DEF Sweeping
<1>11. wcss'[Root] = "RESTARTING" <=> \E r \in Threads : at'[Thread(r)] # "idle"
  BY <1>1, <1>2, <1>3
<1>12. RestartInv' BY <1>3, <1>7, <1>9, <1>10, <1>11 DEF RestartInv
<1>13. \A r \in Threads : at'[Thread(r)] = "run" => pd'[Thread(r)] \in up' BY <1>2, <1>3
<1>14. UpInv' BY <1>3, <1>7, <1>13 DEF UpInv
<1>15. QED BY <1>5, <1>6, <1>8, <1>12, <1>14 DEF ApartInv

\* What it does: it spins, scans the users and starts the suspended ones.
LEMMA ThreadApart ==
  ASSUME ApartInv, Inv', NEW t \in Threads,
         \/ Spin(t) \/ Scan(t) \/ ScanDone(t)
         \/ Load(Thread(t)) \/ Start(Thread(t)) \/ Run(Thread(t))
  PROVE ApartInv'
<1> DEFINE j == Thread(t)
<1>1. at[j] # "idle" /\ UNCHANGED <<power, lock, queued>>
  <2>1. Looping(j) BY KindFacts
  <2>2. QED BY <2>1 DEF Spin, Scan, ScanDone, Load, Start, Run, Return
<1>2. /\ TypeOK /\ ThreadInv /\ RestartInv
      /\ queued = {} /\ wcss[Root] = "RESTARTING"
      /\ j \in Jobs /\ Looping(j) /\ j # Work(Root) /\ \A v \in Users : UpOK(v)
  BY <1>1, ThreadFacts
<1>3. After(j) = "scan" /\ j \notin Clients /\ Root \in PDs /\ Root \notin Users
      /\ Users \subseteq PDs
  BY KindFacts, DomainFacts
<1>4. \A v \in Users : wcss[v] # "RESTARTING" BY <1>2 DEF RestartInv
<1>5. st[Root] = "RUNNING"
  <2>1. CASE Spin(t) BY <2>1 DEF Spin
  <2>2. CASE ~Spin(t)
    <3>1. at[j] \notin {"idle", "spin"} BY <2>2 DEF Scan, ScanDone, Load, Start, Run
    <3>2. QED BY <1>2, <3>1 DEF ThreadInv
  <2>3. QED BY <2>1, <2>2
<1>6. lock[Root] = None /\ Agree BY <1>1, <1>5, ThreadFacts
<1>7. Root \in up BY <1>5, <1>6 DEF Agree
<1>8. at[j] \in Booting => st[pd[j]] = "SUSPENDED" BY <1>2 DEF ThreadInv
<1>9. {"load", "start", "run"} \subseteq Booting /\ {"idle", "scan"} \cap Booting = {}
  BY DEF Booting, Starting
<1>10. pd[j] \in Users BY <1>2 DEF TypeOK
<1>11. \A u \in Users : at'[Client(u)] = at[Client(u)] /\ at'[Work(u)] = at[Work(u)]
  <2>1. \A k \in Jobs : k # j => at'[k] = at[k]
    BY <1>2 DEF Spin, Scan, ScanDone, Load, Start, Run, Return, Goto, TypeOK
  <2>2. QED BY <2>1, JobFacts
<1>11a. /\ NoFault /\ used.halted \subseteq used'.halted \cup up'
  <2>1. CASE Start(j)
    <3>1. used' = [used EXCEPT !.halted = @ \ {pd[j]}] /\ pd[j] \in up'
      BY <1>7, <2>1 DEF Start
    <3>2. QED BY <1>2, <3>1 DEF NoFault, TypeOK
  <2>2. CASE ~Start(j)
    <3>1. used' = used BY <2>2 DEF Spin, Scan, ScanDone, Load, Run
    <3>2. QED BY <3>1 DEF NoFault
  <2>3. QED BY <2>1, <2>2
<1>12. ASSUME st' = st, up \subseteq up' PROVE \A v \in Users : UpOK(v)'
  <2>1. queued' = queued BY <1>1
  <2>2. QED BY <1>2, <1>11, <1>12, <1>11a, <2>1, UpKept
<1>13. CASE Spin(t)
  <2>1. at' = [at EXCEPT ![j] = "scan"] /\ UNCHANGED <<st, wcss, up>>
    BY <1>13 DEF Spin, Goto
  <2>2. st' = st /\ wcss' = wcss /\ up' = up BY <2>1
  <2>3. QED BY <1>1, <1>11a, <1>4, <1>5, <1>9, <1>12, <2>1, <2>2, ThreadKept
<1>14. CASE Scan(t)
  <2> DEFINE u == Order[ix[j]]
  <2>1. at[j] = "scan" /\ UNCHANGED <<st, wcss, up>> BY <1>14 DEF Scan
  <2>2. st' = st /\ wcss' = wcss /\ up' = up BY <2>1
  <2>3. CASE st[u] = "SUSPENDED"
    <3>1. at' = [at EXCEPT ![j] = "load"] /\ pd' = [pd EXCEPT ![j] = u]
      BY <1>14, <2>3 DEF Scan, Goto
    <3>2. pd'[j] = u BY <1>2, <3>1 DEF TypeOK
    <3>3. QED BY <1>1, <1>11a, <1>4, <1>5, <1>12, <2>2, <2>3, <3>1, <3>2, ThreadKept
  <2>4. CASE st[u] # "SUSPENDED"
    <3>1. at' = at BY <1>14, <2>4 DEF Scan
    <3>2. at' = [at EXCEPT ![j] = "scan"] BY <1>2, <2>1, <3>1 DEF TypeOK
    <3>3. QED BY <1>1, <1>11a, <1>4, <1>5, <1>9, <1>12, <2>2, <3>2, ThreadKept
  <2>5. QED BY <2>3, <2>4
<1>15. CASE ScanDone(t)
  <2>1. /\ at' = [at EXCEPT ![j] = "idle"] /\ wcss' = [wcss EXCEPT ![Root] = "NORMAL"]
        /\ UNCHANGED <<st, up>>
    BY <1>15 DEF ScanDone, Goto
  <2>2. wcss'[Root] = "NORMAL" /\ \A v \in Users : wcss'[v] # "RESTARTING"
    BY <1>2, <1>3, <1>4, <2>1 DEF TypeOK
  <2>3. st' = st /\ up' = up BY <2>1
  <2>4. QED BY <1>1, <1>11a, <1>5, <1>9, <1>12, <2>1, <2>2, <2>3, ThreadKept
<1>16. CASE Load(j)
  <2>1. at[j] = "load" /\ UNCHANGED <<st, wcss, up, pd>> BY <1>16 DEF Load
  <2>2. at' = [at EXCEPT ![j] = "start"] BY <1>2, <1>16 DEF Load, Goto, BootsRoot
  <2>3. st' = st /\ wcss' = wcss /\ up' = up /\ pd' = pd BY <2>1
  <2>4. st'[pd'[j]] = "SUSPENDED" BY <1>8, <1>9, <2>1, <2>3
  <2>5. QED BY <1>1, <1>11a, <1>4, <1>5, <1>12, <2>2, <2>3, <2>4, ThreadKept
<1>17. CASE Start(j)
  <2>1. /\ at[j] = "start" /\ at' = [at EXCEPT ![j] = "run"] /\ up' = up \cup {pd[j]}
        /\ wcss' = [wcss EXCEPT ![pd[j]] = "NORMAL"] /\ UNCHANGED <<st, pd>>
    BY <1>7, <1>17 DEF Start, Goto
  <2>2. wcss'[Root] = wcss[Root] /\ \A v \in Users : wcss'[v] # "RESTARTING"
    BY <1>2, <1>3, <1>4, <1>10, <2>1 DEF TypeOK
  <2>3. st' = st /\ pd' = pd /\ (Root \in up' <=> Root \in up) BY <1>7, <2>1
  <2>4. st'[pd'[j]] = "SUSPENDED" BY <1>8, <1>9, <2>1, <2>3
  <2>5. QED BY <1>1, <1>11a, <1>5, <1>12, <2>1, <2>2, <2>3, <2>4, ThreadKept
<1>18. CASE Run(j)
  <2>1. /\ at[j] = "run" /\ at' = [at EXCEPT ![j] = "scan"]
        /\ st' = [st EXCEPT ![pd[j]] = "RUNNING"] /\ UNCHANGED <<wcss, up>>
    BY <1>3, <1>18 DEF Run, Return, Goto
  <2>2. wcss' = wcss /\ up' = up BY <2>1
  <2>3. st[pd[j]] = "SUSPENDED" BY <1>8, <1>9, <2>1
  <2>4. /\ st'[Root] = st[Root] /\ st'[pd[j]] = "RUNNING"
        /\ \A v \in Users : v # pd[j] => st'[v] = st[v]
    BY <1>2, <1>3, <1>10, <2>1 DEF TypeOK
  <2>5. pd[j] \in up BY <2>1 DEF ApartInv, UpInv
  <2>6. \A v \in Users : (st[v] = "OFFLINE" => st'[v] = "OFFLINE") /\ UpOK(v)'
    <3> SUFFICES ASSUME NEW v \in Users
                 PROVE (st[v] = "OFFLINE" => st'[v] = "OFFLINE") /\ UpOK(v)'
      OBVIOUS
    <3>1. CASE v = pd[j] BY <2>2, <2>3, <2>5, <3>1 DEF UpOK
    <3>2. CASE v # pd[j]
      <4>1. v \in up \cup queued => v \in up' \cup queued' BY <1>1, <2>2
      <4>2. QED BY <1>2, <1>11, <1>11a, <2>4, <3>2, <4>1, UpKept
    <3>3. QED BY <3>1, <3>2
  <2>7. QED BY <1>1, <1>11a, <1>4, <1>5, <1>9, <2>1, <2>2, <2>4, <2>6, ThreadKept
<1>19. QED BY <1>13, <1>14, <1>15, <1>16, <1>17, <1>18

\* The root crashes while nobody calls and nothing recovers.
LEMMA RootCrashApart == ASSUME ApartInv, Inv', ~Overlap, RootCrash PROVE ApartInv'
<1>1. /\ Root \in up /\ Calm /\ Idle(Clients) /\ Alone /\ used.root < MaxRootCrash
      /\ used' = [used EXCEPT !.root = @ + 1] /\ up' = {} /\ queued' = queued \cup {Root}
      /\ UNCHANGED <<st, power, wcss, lock, at, pd, ix>>
  BY DEF RootCrash, MayCrash
<1>2. /\ Inv /\ TypeOK /\ MutexInv /\ TurnInv /\ ThreadInv /\ RestartInv /\ UserInv /\ CountInv
  BY DEF ApartInv, Inv
<1>3. \A j \in Jobs : at[j] = "idle" BY <1>1 DEF Calm, Idle, Recoveries
<1>4. queued = {} /\ Idle(Recoveries) BY <1>1 DEF Calm
<1>5. /\ at[Work(Root)] = "idle" /\ \A t \in Threads : at[Thread(t)] = "idle"
      /\ \A u \in Users : at[Client(u)] = "idle" /\ at[Work(u)] = "idle"
  BY <1>3, JobFacts
<1>6. lock[Root] = None
  <2>1. SUFFICES ASSUME lock[Root] # None PROVE FALSE OBVIOUS
  <2>2. lock[Root] \in Jobs BY <1>2, <2>1, DomainFacts DEF TypeOK
  <2>3. at[lock[Root]] \in RootLabels(lock[Root]) BY <1>2, <2>2 DEF MutexInv
  <2>4. QED BY <1>3, <2>2, <2>3 DEF RootLabels, Starting, Stopping
<1>7. st[Root] = "RUNNING" BY <1>1, <1>2, <1>4, <1>5, <1>6 DEF RestartInv, Agree
<1>8. Alone' BY <1>1, <1>2 DEF Alone, TypeOK
<1>9. queued' = {Root} BY <1>1, <1>4
<1>10. at' = at /\ st' = st /\ power' = power /\ wcss' = wcss /\ pd' = pd /\ ix' = ix BY <1>1
<1>11. Idle(Clients)' /\ Idle(Recoveries)'
  BY <1>1, <1>4, <1>10 DEF Idle, Clients, Recoveries
<1>12. TurnInv' BY <1>5, <1>8, <1>9, <1>10, <1>11 DEF TurnInv
<1>13. ThreadInv' BY <1>2, <1>10 DEF ThreadInv
<1>14. "idle" \notin Starting /\ "idle" \notin {"recover", "sweep"} \cup Stopping
  BY DEF Starting, Stopping
<1>15. RestartInv' BY <1>1, <1>2, <1>5, <1>7, <1>9, <1>10, <1>14 DEF RestartInv
<1>16. UserInv' BY <1>2, <1>10 DEF UserInv, UserOK
<1>17. UpInv' BY <1>5, <1>9, <1>10, <1>14 DEF UpInv, Sweeping
<1>18. CountInv'
  <2>1. Counted' = Counted BY <1>10 DEF Counted, Member, Holds
  <2>2. QED BY <1>1, <1>2, <1>10, <2>1 DEF CountInv
<1>19. QED BY <1>12, <1>13, <1>15, <1>16, <1>17, <1>18 DEF ApartInv

-----------------------------------------------------------------------------
(* The specification.                                                      *)

\* Nothing runs at first.
LEMMA InitApart == Init => ApartInv
<1> SUFFICES ASSUME Init PROVE ApartInv OBVIOUS
<1>1. Inv BY InitInv
<1>2. \A j \in Jobs : at[j] = "idle" BY DEF Init
<1>3. /\ at[Work(Root)] = "idle" /\ \A t \in Threads : at[Thread(t)] = "idle"
      /\ \A u \in Users : at[Client(u)] = "idle" /\ at[Work(u)] = "idle"
  BY <1>2, JobFacts
<1>4. "idle" \notin Booting \cup Stopping \cup Starting \cup ForUser
      /\ "idle" \notin {"recover", "sweep"}
  BY DEF ForUser, Booting, Starting, Stopping
<1>5. /\ queued = {} /\ up = {} /\ used.user = 0 /\ used.root = 0
      /\ \A u \in Users : st[u] = "OFFLINE" /\ power[u] = 0 /\ wcss[u] = "NORMAL"
      /\ st[Root] = "OFFLINE" /\ power[Root] = 0 /\ wcss[Root] = "NORMAL" /\ lock[Root] = None
  BY DomainFacts DEF Init
<1>6. TurnInv BY <1>3, <1>5 DEF TurnInv
<1>7. ThreadInv BY <1>3, <1>4 DEF ThreadInv
<1>8. RestartInv BY <1>3, <1>4, <1>5 DEF RestartInv, Agree, Sweeping
<1>9. UserInv BY <1>3, <1>4, <1>5 DEF UserInv, UserOK
<1>10. UpInv BY <1>3, <1>4, <1>5 DEF UpInv, UpOK, Of
<1>11. CountInv
  <2>1. Counted = {} BY <1>3, <1>5 DEF Counted, Member, Holds
  <2>2. Cardinality(Counted) = 0 BY <2>1, FS_EmptySet
  <2>3. QED BY <1>5, <2>2 DEF CountInv
<1>12. QED BY <1>1, <1>6, <1>7, <1>8, <1>9, <1>10, <1>11 DEF ApartInv

\* Nothing changes in a stutter.
LEMMA StutterApart == ASSUME ApartInv, UNCHANGED vars PROVE ApartInv'
<1>1. Inv' BY StutterInv DEF ApartInv
<1>2. /\ st' = st /\ power' = power /\ wcss' = wcss /\ lock' = lock /\ up' = up /\ at' = at
      /\ pd' = pd /\ ix' = ix /\ queued' = queued /\ used' = used
  BY DEF vars
<1>3. TurnInv' BY <1>2 DEF ApartInv, TurnInv, Alone, Idle, Calm, Clients, Recoveries
<1>4. ThreadInv' BY <1>2 DEF ApartInv, ThreadInv
<1>5. RestartInv' BY <1>2 DEF ApartInv, RestartInv, Agree, Sweeping
<1>6. UserInv' BY <1>2 DEF ApartInv, UserInv, UserOK
<1>7. UpInv' BY <1>2 DEF ApartInv, UpInv, UpOK, Sweeping
<1>8. CountInv'
  <2>1. Counted' = Counted BY <1>2 DEF Counted, Member, Holds
  <2>2. QED BY <1>2, <2>1 DEF ApartInv, CountInv, Alone
<1>9. QED BY <1>1, <1>3, <1>4, <1>5, <1>6, <1>7, <1>8 DEF ApartInv

\* What a called job does, whoever it is.
LEMMA JobApart ==
  ASSUME ApartInv, Inv', ~Overlap, NEW j \in Jobs,
         \/ Step(j) \/ RootStartFails(j) \/ StartFails(j)
         \/ StopFails(j) \/ RootPutFails(j)
  PROVE ApartInv'
<1>1. Inv /\ LabelInv /\ TypeOK BY DEF ApartInv, Inv
<1>2. CASE \E u \in Users : j \in Of(u)
  <2>1. PICK u \in Users : j \in Of(u) BY <1>2
  <2>2. ~Looping(j) /\ j # Work(Root) /\ \A t \in Threads : j # Thread(t)
    BY <2>1, LoopFacts, KindFacts
  <2>3. \A p \in PDs : j = Work(p) => p \in Users BY <2>2, DomainFacts
  <2>4. CASE Load(j) \/ Start(j) \/ StartFails(j) BY <2>1, <2>4, LoadStep, StartStep, StartFailsStep
  <2>5. CASE RootGet(j) BY <2>1, <2>5, RootGetApart
  <2>6. CASE RootStart(j) \/ RootStartFails(j) BY <2>1, <2>6, RootStartApart
  <2>7. CASE RootRuns(j) \/ RootFailed(j) BY <2>1, <2>7, RootEndApart
  <2>8. CASE Run(j) \/ Fail(j) \/ StopFailed(j) BY <2>1, <2>8, ReturnApart
  <2>9. CASE Stop(j) \/ StopFails(j) BY <2>1, <2>9, StopApart, StopFailsApart
  <2>10. CASE RootPut(j) \/ RootPutFails(j) BY <2>1, <2>10, RootPutApart, PutFailsApart
  <2>11. CASE Stopped(j) BY <2>1, <2>11, StoppedApart
  <2>12. ASSUME NEW p \in PDs, j = Work(p), CrashSeen(p) \/ Recover(p) PROVE ApartInv'
    BY <2>3, <2>12, SeenApart
  <2>13. QED
    BY <2>2, <2>4, <2>5, <2>6, <2>7, <2>8, <2>9, <2>10, <2>11, <2>12 DEF Step
<1>3. at[j] # "idle" /\ Looping(j) => ~MayFail BY LoopTurn DEF MayFail
<1>4. CASE j = Work(Root)
  <2>1. Looping(j) /\ (\A t \in Threads : j # Thread(t)) /\ (\A p \in PDs : j = Work(p) => p = Root)
    BY <1>4, JobFacts, KindFacts, DomainFacts
  <2>2. at[j] \in {"idle", "recover", "sweep"} \cup Starting \cup Stopping /\ at[j] # "rootfail"
    BY <1>1, <1>4 DEF LabelInv, May, ApartInv, RestartInv, Starting
  <2>3. ~(Load(j) \/ RootGet(j) \/ Start(j) \/ Run(j) \/ Fail(j) \/ RootFailed(j))
    BY <2>2 DEF Load, RootGet, Start, Run, Fail, RootFailed, Starting, Stopping
  <2>4. ~(RootStartFails(j) \/ StartFails(j) \/ StopFails(j) \/ RootPutFails(j))
    BY <1>3, <2>1 DEF RootStartFails, StartFails, StopFails, RootPutFails
  <2>5. CASE RootStart(j) \/ RootRuns(j) BY <1>4, <2>5, RestartApart
  <2>6. CASE Stop(j) \/ RootPut(j) \/ Stopped(j) \/ StopFailed(j) \/ Sweep
    BY <1>4, <2>6, SweepApart
  <2>7. CASE RootDown BY <2>7, RootDownApart
  <2>8. ASSUME NEW p \in PDs, j = Work(p), CrashSeen(p) \/ Recover(p) PROVE ApartInv'
    BY <2>1, <2>8, RootSeenApart
  <2>9. QED BY <2>1, <2>3, <2>4, <2>5, <2>6, <2>7, <2>8 DEF Step
<1>5. ASSUME NEW t \in Threads, j = Thread(t) PROVE ApartInv'
  <2>1. /\ Looping(j) /\ (\A r \in Threads : j = Thread(r) => r = t)
        /\ (\A p \in PDs : j # Work(p))
    BY <1>5, JobFacts, KindFacts, DomainFacts
  <2>2. at[j] \in {"idle", "spin", "scan", "load", "start", "run"}
    BY <1>5 DEF ApartInv, ThreadInv
  <2>3. /\ ~(RootGet(j) \/ RootStart(j) \/ RootRuns(j) \/ RootFailed(j) \/ Fail(j))
        /\ ~(Stop(j) \/ RootPut(j) \/ Stopped(j) \/ StopFailed(j))
    BY <2>2 DEF RootGet, RootStart, RootRuns, RootFailed, Fail, Stop, RootPut, Stopped,
       StopFailed
  <2>4. ~(RootStartFails(j) \/ StartFails(j) \/ StopFails(j) \/ RootPutFails(j))
    BY <1>3, <2>1 DEF RootStartFails, StartFails, StopFails, RootPutFails
  <2>5. CASE Load(j) \/ Start(j) \/ Run(j) BY <1>5, <2>5, ThreadApart
  <2>6. ASSUME NEW r \in Threads, j = Thread(r), Spin(r) \/ Scan(r) \/ ScanDone(r)
        PROVE ApartInv'
    BY <2>6, ThreadApart
  <2>7. j # Work(Root) BY <2>1, DomainFacts
  <2>8. QED BY <2>1, <2>3, <2>4, <2>5, <2>6, <2>7 DEF Step
<1>6. QED BY <1>2, <1>4, <1>5, LoopFacts

\* q6_wcss_stop of a crashed root that the firmware does not shut down.
LEMMA DownFailsApart == ASSUME ApartInv, Inv', RootDownFails PROVE Abandoned'
<1> DEFINE w == Work(Root)
<1>1. Inv /\ TypeOK /\ TurnInv /\ RestartInv /\ UpInv BY DEF ApartInv, Inv
<1>2. w \in Jobs /\ Looping(w) /\ w \in Recoveries /\ Root \in PDs
  BY JobFacts, KindFacts, LoopFacts, DomainFacts
<1>3. /\ at[w] = "sweep" /\ ix[w] > Len(Order) /\ at' = [at EXCEPT ![w] = "idle"]
      /\ used.fault < MaxFaults /\ used' = [used EXCEPT !.fault = @ + 1]
      /\ wcss' = [wcss EXCEPT ![Root] = "RESTARTING"] /\ UNCHANGED <<st, up, queued>>
  BY DEF RootDownFails, Goto
<1>4. /\ used.root > 0 /\ queued \subseteq {Root}
      /\ \A u \in Users : at[Client(u)] = "idle" /\ at[Work(u)] = "idle"
  BY <1>2, <1>3, LoopTurn
<1>5. Root \notin queued /\ \A t \in Threads : at[Thread(t)] = "idle"
  BY <1>1, <1>2, <1>3 DEF TurnInv, Idle
<1>6. st[Root] = "CRASHED" /\ up = {} BY <1>1, <1>3, <1>5 DEF RestartInv, Sweeping
<1>7. \A u \in Users : st[u] # "RUNNING"
  <2> SUFFICES ASSUME NEW u \in Users PROVE st[u] # "RUNNING" OBVIOUS
  <2>1. PICK i \in 1 .. Len(Order) : u = Order[i] BY DEF Users
  <2>2. ix[w] \in Nat /\ Len(Order) \in Nat BY <1>1, <1>2, DomainFacts DEF TypeOK
  <2>3. QED BY <1>1, <1>3, <2>1, <2>2 DEF UpInv
<1>8. \A k \in Jobs : at'[k] = IF k = w THEN "idle" ELSE at[k] BY <1>1, <1>2, <1>3 DEF TypeOK
<1>9. \A k \in Jobs : at'[k] = "idle" BY <1>4, <1>5, <1>8, JobFacts
<1>10. Idle(Recoveries)' /\ \A u \in Users : at'[Client(u)] = "idle"
  BY <1>9, JobFacts DEF Idle, Recoveries
<1>11. used'.root > 0 /\ used'.fault > 0
  BY <1>1, <1>3, <1>4, FaultOnly
<1>12. wcss'[Root] = "RESTARTING" BY <1>1, <1>2, <1>3 DEF TypeOK
<1>13. st' = st /\ up' = up /\ queued' = queued BY <1>3
<1>14. queued = {} BY <1>4, <1>5
<1>15. QED BY <1>6, <1>7, <1>10, <1>11, <1>12, <1>13, <1>14 DEF Abandoned

\* From then on clients boot their users in vain, and nothing else happens.
LEMMA AbandonedStays == ASSUME ~Overlap, Abandoned, [Next]_vars PROVE Abandoned'
<1>1. Inv' BY NextInv DEF Abandoned
<1>2. CASE UNCHANGED vars
  <2>1. /\ st' = st /\ wcss' = wcss /\ up' = up /\ at' = at /\ queued' = queued /\ used' = used
    BY <1>2 DEF vars
  <2>2. QED BY <1>1, <2>1 DEF Abandoned, Idle, Recoveries
<1>3. /\ TypeOK /\ LabelInv /\ ~MayFail /\ ~MayCrash /\ Root \in PDs
  BY DomainFacts DEF Abandoned, Inv, MayFail, MayCrash, Alone
<1>4. /\ at[Work(Root)] = "idle" /\ \A t \in Threads : at[Thread(t)] = "idle"
      /\ \A u \in Users : at[Work(u)] = "idle"
  BY LoopFacts, JobFacts, KindFacts DEF Abandoned, Idle
<1>5. ASSUME NEW u \in Users, NEW l \in {"idle", "load", "start", "fail"},
             at' = [at EXCEPT ![Client(u)] = l], UNCHANGED <<st, wcss, up, queued, used>>
      PROVE Abandoned'
  <2>1. Client(u) \in Jobs /\ Client(u) \notin Recoveries /\ Recoveries \subseteq Jobs
    BY JobFacts, LoopFacts DEF Recoveries
  <2>2. \A k \in Jobs : at'[k] = IF k = Client(u) THEN l ELSE at[k] BY <1>3, <1>5, <2>1 DEF TypeOK
  <2>3. Idle(Recoveries)' BY <2>1, <2>2 DEF Abandoned, Idle, Recoveries
  <2>4. \A v \in Users : at'[Client(v)] \in {"idle", "load", "start", "fail"}
    BY <2>2, JobFacts DEF Abandoned
  <2>5. st' = st /\ wcss' = wcss /\ up' = up /\ queued' = queued /\ used' = used BY <1>5
  <2>6. QED BY <1>1, <2>3, <2>4, <2>5 DEF Abandoned
<1>6. ASSUME NEW j \in Jobs, Step(j) PROVE Abandoned'
  <2>1. /\ at[j] \notin {"rootget", "rootstart", "rootrun", "rootfail", "run", "stop", "put",
                         "stopped", "stopfail", "recover", "sweep", "spin", "scan"}
        /\ at[j] # "idle" => \E u \in Users : j = Client(u)
    <3>1. at[j] \in {"idle", "load", "start", "fail"} BY <1>4, JobFacts DEF Abandoned
    <3>2. QED BY <1>4, <3>1, JobFacts
  <2>2. Load(j) \/ Start(j) \/ Fail(j)
    <3>1. \A p \in PDs : ~CrashSeen(p) BY DEF CrashSeen, Abandoned
    <3>2. \A p \in PDs : ~(j = Work(p) /\ Recover(p)) BY <2>1 DEF Recover
    <3>3. ~(j = Work(Root) /\ (Sweep \/ RootDown)) BY <2>1 DEF Sweep, RootDown
    <3>4. \A t \in Threads : ~(j = Thread(t) /\ (Spin(t) \/ Scan(t) \/ ScanDone(t)))
      BY <2>1 DEF Spin, Scan, ScanDone
    <3>5. ~(RootGet(j) \/ RootStart(j) \/ RootRuns(j) \/ RootFailed(j) \/ Run(j))
      BY <2>1 DEF RootGet, RootStart, RootRuns, RootFailed, Run
    <3>6. ~(Stop(j) \/ RootPut(j) \/ Stopped(j) \/ StopFailed(j))
      BY <2>1 DEF Stop, RootPut, Stopped, StopFailed
    <3>7. QED BY <1>6, <3>1, <3>2, <3>3, <3>4, <3>5, <3>6 DEF Step
  <2>3. PICK u \in Users : j = Client(u)
    <3>1. at[j] # "idle" BY <2>2 DEF Load, Start, Fail
    <3>2. QED BY <2>1, <3>1
  <2>4. ~Looping(j) /\ After(j) = "idle" BY <2>3, KindFacts
  <2>5. CASE Load(j)
    <3>1. ~BootsRoot(pd[j]) BY DEF BootsRoot, Abandoned
    <3>2. at' = [at EXCEPT ![Client(u)] = "start"] BY <2>3, <2>5, <3>1 DEF Load, Goto
    <3>3. UNCHANGED <<st, wcss, up, queued, used>> BY <2>5 DEF Load
    <3>4. QED BY <1>5, <3>2, <3>3
  <2>6. CASE Start(j)
    <3>1. Root \notin up BY DEF Abandoned
    <3>2. at' = [at EXCEPT ![Client(u)] = "fail"] /\ UNCHANGED <<st, wcss, up, queued, used>>
      BY <2>3, <2>6, <3>1 DEF Start, Goto
    <3>3. QED BY <1>5, <3>2
  <2>7. CASE Fail(j)
    <3>1. at' = [at EXCEPT ![Client(u)] = "idle"] /\ UNCHANGED <<st, wcss, up, queued, used>>
      BY <2>3, <2>4, <2>7 DEF Fail, Return, Goto
    <3>2. QED BY <1>5, <3>1
  <2>8. QED BY <2>2, <2>5, <2>6, <2>7
<1>7. ASSUME NEW u \in Users, Boot(u) \/ Shutdown(u) PROVE Abandoned'
  <2>1. Boot(u) BY <1>7 DEF Shutdown, Abandoned
  <2>2. UNCHANGED <<st, wcss, up, queued, used>> /\ at[Client(u)] = "idle" BY <2>1 DEF Boot
  <2>3. CASE power[u] > 0
    <3>1. at' = at BY <2>1, <2>3 DEF Boot
    <3>2. at' = [at EXCEPT ![Client(u)] = "idle"] BY <1>3, <2>2, <3>1 DEF TypeOK
    <3>3. QED BY <1>5, <2>2, <3>2
  <2>4. CASE ~(power[u] > 0)
    <3>1. at' = [at EXCEPT ![Client(u)] = "load"] BY <2>1, <2>4 DEF Boot, Goto
    <3>2. QED BY <1>5, <2>2, <3>1
  <2>5. QED BY <2>3, <2>4
<1>8. /\ \A j \in Jobs : ~(RootStartFails(j) \/ StartFails(j) \/ StopFails(j) \/ RootPutFails(j))
      /\ \A u \in Users : ~UserCrash(u)
      /\ ~RootCrash /\ ~RootDownFails
  BY <1>3, <1>4
  DEF RootStartFails, StartFails, StopFails, RootPutFails, UserCrash, RootCrash, RootDownFails
<1>9. QED BY <1>2, <1>6, <1>7, <1>8 DEF Next

\* Every step keeps the invariant, until a recovery is abandoned.
LEMMA NextApart == ASSUME ~Overlap, ApartInv, [Next]_vars PROVE ApartInv' \/ Abandoned'
<1>1. Inv' BY NextInv DEF ApartInv
<1>2. SUFFICES ASSUME Next PROVE ApartInv' \/ Abandoned' BY StutterApart
<1>3. ASSUME NEW j \in Jobs,
             \/ Step(j) \/ RootStartFails(j) \/ StartFails(j)
             \/ StopFails(j) \/ RootPutFails(j)
      PROVE ApartInv'
  BY <1>1, <1>3, JobApart
<1>4. ASSUME NEW u \in Users, Boot(u) \/ Shutdown(u) PROVE ApartInv' BY <1>1, <1>4, CallApart
<1>5. ASSUME NEW u \in Users, UserCrash(u) PROVE ApartInv' BY <1>1, <1>5, UserCrashApart
<1>6. CASE RootCrash BY <1>1, <1>6, RootCrashApart
<1>7. CASE RootDownFails BY <1>1, <1>7, DownFailsApart
<1>8. QED BY <1>2, <1>3, <1>4, <1>5, <1>6, <1>7 DEF Next

\* While crashes of the root keep apart the invariant holds, until a recovery that cannot
\* shut the root down, after which nothing runs any more.
THEOREM ApartHolds == ASSUME ~Overlap PROVE Spec => [](ApartInv \/ Abandoned)
<1> DEFINE I == ApartInv \/ Abandoned
<1>1. Init => I BY InitApart
<1>2. I /\ [Next]_vars => I' BY NextApart, AbandonedStays
<1>3. QED BY <1>1, <1>2, PTL DEF Spec

\* Booting and shutting down users in any order, and recovering them with the root, leaves
\* the root's power count at the number of users that hold it (pd_load, pd_stop).
THEOREM RefsCorrect == ASSUME ~Overlap PROVE Spec => []RefsBalanced
<1>1. ApartInv => RefsBalanced
  <2> SUFFICES ASSUME ApartInv, lock[Root] = None, Alone
               PROVE power[Root] = Cardinality(Holders)
    BY DEF RefsBalanced
  <2>1. \A u \in Users : at[Client(u)] # "rootfail"
    <3> SUFFICES ASSUME NEW u \in Users, at[Client(u)] = "rootfail" PROVE FALSE OBVIOUS
    <3>1. Client(u) \in Jobs /\ Client(u) # Work(Root) BY JobFacts
    <3>2. lock[Root] = Client(u) BY <3>1 DEF ApartInv, Inv, MutexInv, RootLabels, Starting
    <3>3. QED BY <3>1, <3>2, NoneIsNoJob
  <2>2. Counted = Holders BY <2>1 DEF Counted, Member, Holders
  <2>3. QED BY <2>2 DEF ApartInv, CountInv
<1>2. Abandoned => RefsBalanced BY DEF Abandoned, RefsBalanced, Alone
<1>3. QED BY <1>1, <1>2, ApartHolds, PTL

\* Whatever users crash, whatever starts and stops fail, and whether or not a crashed root
\* can be recovered: a user that is RUNNING, that nobody works on, that has no crash to
\* report and whose own last stop did not fail half-way, executes.  Nobody takes the root
\* down beneath it, and a restart reports it running only once it is spawned (pd_stop,
\* q6_wcss_stop, handle_upd_in_rpd_crash).
THEOREM RunsCorrect == ASSUME ~Overlap PROVE Spec => []RunningRuns
<1>1. ApartInv => RunningRuns
  <2> SUFFICES ASSUME ApartInv, NEW u \in Users \ used.halted, st[u] = "RUNNING", lock[u] = None,
                      queued \cap {u, Root} = {}, Idle(Recoveries)
               PROVE u \in up
    BY DEF RunningRuns
  <2>1. at[Work(Root)] = "idle" BY LoopFacts, KindFacts, JobFacts DEF Idle
  <2>2. UpOK(u) BY <2>1 DEF ApartInv, UpInv, Sweeping, Stopping
  <2>3. at[Client(u)] = "idle" BY OneOfTwo DEF ApartInv
  <2>4. QED BY <2>2, <2>3 DEF UpOK
<1>2. Abandoned => RunningRuns BY DEF Abandoned, RunningRuns
<1>3. QED BY <1>1, <1>2, ApartHolds, PTL
=============================================================================
