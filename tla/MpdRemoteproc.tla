---------------------------- MODULE MpdRemoteproc ----------------------------
(***************************************************************************)
(* The multi-PD remote processor driver, drivers/remoteproc/qcom_q6v5_mpd: *)
(* a root protection domain (the Q6 itself) and the user domains that run  *)
(* on it.  Each domain is one rproc of the kernel's remoteproc core.  A    *)
(* user domain boots the root before it starts and shuts it down after it  *)
(* stops, so the root's power count counts its running users.  When the    *)
(* root crashes, its recovery stops every user, and a kernel thread starts *)
(* them again once the root runs.                                          *)
(*                                                                         *)
(* Three kinds of job call the driver: a client of each user domain (a     *)
(* wifi driver that boots it and shuts it down), the crash worker of each  *)
(* domain, and the restart threads.  Clients and workers hold the rproc    *)
(* mutex of their domain; restart threads hold none, and neither does the  *)
(* root's worker while it stops the users.                                 *)
(*                                                                         *)
(* The remoteproc core and the Q6 itself are external: rproc_boot,         *)
(* rproc_shutdown, rproc_start and rproc_stop are modelled as the driver   *)
(* relies on them.  User domains of user domains are left out.             *)
(*                                                                         *)
(* RestartUsersNever, RootGetFirst, StartFailsIgnored, PutKeepsNever and   *)
(* RootFailedCounts are not the code: each is a definition below with one  *)
(* mistake, to show that a property notices it.                            *)
(***************************************************************************)
EXTENDS Integers, Sequences, FiniteSets

CONSTANTS
  Root,          \* the root domain
  Order,         \* the user domains, in device tree order
  Threads,       \* restart threads that may exist at once
  None,          \* no job
  MaxUses,       \* bound: how often a client may boot its domain at once
  MaxRefs,       \* bound: no client boots once the root's count is this high
  MaxRootCrash,  \* bound: crashes of the root
  MaxUserCrash,  \* bound: crashes of user domains
  MaxFaults,     \* bound: firmware requests, starts and stops that fail on their own
  Overlap        \* FALSE: crashes of the root keep apart from calls, recoveries,
                 \* crashes of users and faults, but for a recovery that cannot
                 \* shut the root down; TRUE: nothing keeps apart

Users == {Order[i] : i \in 1..Len(Order)}
PDs   == Users \cup {Root}

ASSUME ConstantsOK ==
  /\ Root \notin Users /\ Order \in Seq(Users) /\ Order # <<>>
  /\ \A i, k \in 1..Len(Order) : Order[i] = Order[k] => i = k
  /\ {MaxUses, MaxRefs, MaxRootCrash, MaxUserCrash, MaxFaults} \subseteq Nat
  /\ Overlap \in BOOLEAN

Client(u) == <<"client", u>>
Work(p)   == <<"work", p>>
Thread(t) == <<"thread", t>>
Jobs == {Client(u) : u \in Users} \cup {Work(p) : p \in PDs}
                                  \cup {Thread(t) : t \in Threads}
ASSUME NoneIsNoJob == None \notin Jobs

VARIABLES
  st,      \* rproc->state of each domain
  power,   \* rproc->power of each domain
  wcss,    \* q6_wcss->state of each domain
  lock,    \* rproc->lock: the job that holds each domain's mutex
  up,      \* the domains that execute
  at,      \* where each job is
  pd,      \* the user domain a job works on
  ix,      \* position of a job in a loop over the user domains
  queued,  \* domains whose crash handler is queued
  used     \* history: how much of each bound on crashes and faults is used up,
           \* and the users whose stop failed since they were last spawned
vars == <<st, power, wcss, lock, up, at, pd, ix, queued, used>>

Init ==
  /\ st = [p \in PDs |-> "OFFLINE"]
  /\ power = [p \in PDs |-> 0]
  /\ wcss = [p \in PDs |-> "NORMAL"]
  /\ lock = [p \in PDs |-> None]
  /\ up = {} /\ queued = {}
  /\ at = [j \in Jobs |-> "idle"]
  /\ pd = [j \in Jobs |-> IF j[1] = "thread" \/ j[2] = Root THEN Order[1] ELSE j[2]]
  /\ ix = [j \in Jobs |-> 1]
  /\ used = [root |-> 0, user |-> 0, fault |-> 0, halted |-> {}]

Idle(js)   == \A j \in js : at[j] = "idle"
Clients    == {Client(u) : u \in Users}
Recoveries == Jobs \ Clients
Calm       == queued = {} /\ Idle(Recoveries)

\* When clients call; when users crash, starts and stops fail; when the root crashes.
Alone      == used.user = 0 /\ used.fault = 0
MayCall    == Overlap \/ used.root = 0 \/ Calm
MayFail    == Overlap \/ used.root = 0
MayCrash   == Overlap \/ (Calm /\ Idle(Clients) /\ Alone)

Goto(j, l)  == at' = [at EXCEPT ![j] = l]
Looping(j)  == j[1] = "thread" \/ j = Work(Root)
\* A job is done with its user domain: a loop goes on, a call returns.
After(j)    == IF ~Looping(j) THEN "idle" ELSE IF j[1] = "thread" THEN "scan" ELSE "sweep"
Return(j) ==
  /\ Goto(j, After(j))
  /\ ix' = [ix EXCEPT ![j] = IF Looping(j) THEN @ + 1 ELSE @]
  /\ lock' = IF Looping(j) THEN lock ELSE [lock EXCEPT ![pd[j]] = None]

-----------------------------------------------------------------------------
(* Starting a user domain: rproc_boot, rproc_boot_recovery or the restart  *)
(* thread.                                                                 *)

\* rproc_boot of a user domain: only the first user powers it up.
Boot(u) == LET c == Client(u) IN
  /\ at[c] = "idle" /\ lock[u] = None /\ power[u] < MaxUses /\ power[Root] < MaxRefs
  /\ MayCall
  /\ power' = [power EXCEPT ![u] = @ + 1]
  /\ IF power[u] > 0 THEN UNCHANGED <<at, lock>>
     ELSE Goto(c, "load") /\ lock' = [lock EXCEPT ![u] = c]
  /\ UNCHANGED <<st, wcss, up, pd, ix, queued, used>>

\* Does the load of user domain u take a reference on the root?
BootsRoot(u) == wcss[u] # "RESTARTING" /\ wcss[Root] # "RESTARTING"

\* wcss_ahb_pcie_pd_load: no reference on the root while that recovers.
Load(j) ==
  /\ at[j] = "load"
  /\ Goto(j, IF BootsRoot(pd[j]) THEN "rootget" ELSE "start")
  /\ UNCHANGED <<st, power, wcss, lock, up, pd, ix, queued, used>>

RootGetFirst(j) ==
  /\ at[j] = "rootget" /\ lock[Root] = None
  /\ IF power[Root] > 0 THEN Goto(j, "start") /\ UNCHANGED <<power, lock>>
     ELSE /\ Goto(j, "rootstart") /\ lock' = [lock EXCEPT ![Root] = j]
          /\ power' = [power EXCEPT ![Root] = 1]
  /\ UNCHANGED <<st, wcss, up, pd, ix, queued, used>>

\* rproc_boot(rpd_rproc): the first user of the root starts it.
RootGet(j) ==
  /\ at[j] = "rootget" /\ lock[Root] = None
  /\ power' = [power EXCEPT ![Root] = @ + 1]
  /\ IF power[Root] > 0 THEN Goto(j, "start") /\ UNCHANGED lock
     ELSE Goto(j, "rootstart") /\ lock' = [lock EXCEPT ![Root] = j]
  /\ UNCHANGED <<st, wcss, up, pd, ix, queued, used>>

RestartUsersNever(j, l) ==
  Goto(j, l) /\ wcss' = [p \in PDs |-> IF p = Root THEN wcss[p] ELSE "NORMAL"]

\* The tail of q6_wcss_start: job j goes to l; a recovering root gets a
\* restart thread, any other start makes every user domain NORMAL again.
RestartUsers(j, l) ==
  IF wcss[Root] = "RESTARTING"
  THEN \E t \in Threads :
         /\ at[Thread(t)] = "idle"
         /\ at' = [at EXCEPT ![j] = l, ![Thread(t)] = "spin"]
         /\ UNCHANGED wcss
  ELSE Goto(j, l) /\ wcss' = [p \in PDs |-> IF p = Root THEN wcss[p] ELSE "NORMAL"]
RootStart(j) ==
  /\ at[j] = "rootstart"
  /\ up' = up \cup {Root}
  /\ RestartUsers(j, "rootrun")
  /\ UNCHANGED <<st, power, lock, pd, ix, queued, used>>

\* auth_and_reset fails, or the root never gets ready: the error is returned
\* to rproc_start, in the second case after the restart thread is made.
RootStartFails(j) ==
  /\ at[j] = "rootstart" /\ MayFail /\ used.fault < MaxFaults
  /\ used' = [used EXCEPT !.fault = @ + 1]
  /\ \/ Goto(j, "rootfail") /\ UNCHANGED wcss
     \/ RestartUsers(j, "rootfail")
  /\ UNCHANGED <<st, power, lock, up, pd, ix, queued>>

\* rproc_start sets the state; rproc_boot unlocks the root.
RootRuns(j) ==
  /\ at[j] = "rootrun"
  /\ st' = [st EXCEPT ![Root] = "RUNNING"]
  /\ lock' = [lock EXCEPT ![Root] = None]
  /\ Goto(j, IF j = Work(Root) THEN "idle" ELSE "start")
  /\ UNCHANGED <<power, wcss, up, pd, ix, queued, used>>

RootFailedCounts(j) ==
  /\ at[j] = "rootfail"
  /\ lock' = [lock EXCEPT ![Root] = None]
  /\ Goto(j, IF j = Work(Root) THEN "idle" ELSE "fail")
  /\ UNCHANGED <<st, power, wcss, up, pd, ix, queued, used>>

\* rproc_boot drops its count on an error; rproc_boot_recovery drops nothing.
RootFailed(j) ==
  /\ at[j] = "rootfail"
  /\ lock' = [lock EXCEPT ![Root] = None]
  /\ IF j = Work(Root) THEN Goto(j, "idle") /\ UNCHANGED power
     ELSE Goto(j, "fail") /\ power' = [power EXCEPT ![Root] = @ - 1]
  /\ UNCHANGED <<st, wcss, up, pd, ix, queued, used>>

\* wcss_ahb_pcie_pd_start: the root spawns the domain, or the request times
\* out because the root does not run.
Start(j) ==
  /\ at[j] = "start"
  /\ IF Root \in up
     THEN /\ up' = up \cup {pd[j]}
          /\ wcss' = [wcss EXCEPT ![pd[j]] = "NORMAL"]
          /\ used' = [used EXCEPT !.halted = @ \ {pd[j]}]
          /\ Goto(j, "run")
     ELSE Goto(j, "fail") /\ UNCHANGED <<up, wcss, used>>
  /\ UNCHANGED <<st, power, lock, pd, ix, queued>>

StartFailsIgnored(j) ==
  /\ at[j] \in {"load", "start"} /\ MayFail /\ used.fault < MaxFaults
  /\ used' = [used EXCEPT !.fault = @ + 1]
  /\ Goto(j, "run")
  /\ UNCHANGED <<st, power, wcss, lock, up, pd, ix, queued>>

\* A firmware request, the loading or the spawn fails on its own.
StartFails(j) ==
  /\ at[j] \in {"load", "start"} /\ MayFail /\ used.fault < MaxFaults
  /\ used' = [used EXCEPT !.fault = @ + 1]
  /\ Goto(j, "fail")
  /\ UNCHANGED <<st, power, wcss, lock, up, pd, ix, queued>>

Run(j) ==
  /\ at[j] = "run"
  /\ st' = [st EXCEPT ![pd[j]] = "RUNNING"]
  /\ Return(j)
  /\ UNCHANGED <<power, wcss, up, pd, queued, used>>

\* A client's rproc_boot drops its count; no path gives the root's back.
Fail(j) ==
  /\ at[j] = "fail"
  /\ power' = IF j \in Clients THEN [power EXCEPT ![pd[j]] = @ - 1] ELSE power
  /\ Return(j)
  /\ UNCHANGED <<st, wcss, up, pd, queued, used>>

-----------------------------------------------------------------------------
(* Stopping a user domain: rproc_shutdown, rproc_boot_recovery or the      *)
(* root's worker.                                                          *)

\* rproc_shutdown of a user domain: an error unless it is RUNNING, and only
\* the last user stops it.  A client shuts down only what it booted.
Shutdown(u) == LET c == Client(u) IN
  /\ at[c] = "idle" /\ lock[u] = None /\ st[u] = "RUNNING" /\ power[u] > 0
  /\ MayCall
  /\ power' = [power EXCEPT ![u] = @ - 1]
  /\ IF power[u] > 1 THEN UNCHANGED <<at, lock>>
     ELSE Goto(c, "stop") /\ lock' = [lock EXCEPT ![u] = c]
  /\ UNCHANGED <<st, wcss, up, pd, ix, queued, used>>

\* wcss_ahb_pcie_pd_stop: a domain that did not crash is asked to stop, which
\* times out if it does not run; then it is powered down.
Stop(j) ==
  /\ at[j] = "stop"
  /\ IF st[pd[j]] = "CRASHED" \/ pd[j] \in up
     THEN Goto(j, "put") /\ up' = up \ {pd[j]}
     ELSE Goto(j, "stopfail") /\ UNCHANGED up
  /\ UNCHANGED <<st, power, wcss, lock, pd, ix, queued, used>>

\* The request times out although the domain executes, which may yet have stopped, or
\* it stopped and the firmware does not power it down.
StopFails(j) ==
  /\ at[j] = "stop" /\ MayFail /\ used.fault < MaxFaults
  /\ used' = [used EXCEPT !.fault = @ + 1, !.halted = @ \cup {pd[j]}]
  /\ up' \in {up, up \ {pd[j]}}
  /\ Goto(j, "stopfail")
  /\ UNCHANGED <<st, power, wcss, lock, pd, ix, queued>>

PutKeepsNever(u) == FALSE
\* The state is read again: unless CRASHED, rproc_shutdown(rpd_rproc), whose
\* error for a root that is not RUNNING is ignored.
PutKeeps(u) == st[u] = "CRASHED"
RootPut(j) ==
  /\ at[j] = "put"
  /\ IF PutKeeps(pd[j]) THEN UNCHANGED <<st, power, up>>
     ELSE /\ lock[Root] = None
          /\ IF st[Root] # "RUNNING" THEN UNCHANGED <<st, power, up>>
             ELSE /\ power' = [power EXCEPT ![Root] = @ - 1]
                  /\ IF power[Root] # 1 THEN UNCHANGED <<st, up>>
                     ELSE st' = [st EXCEPT ![Root] = "OFFLINE"] /\ up' = {}
  /\ Goto(j, "stopped")
  /\ UNCHANGED <<wcss, lock, pd, ix, queued, used>>

\* The firmware does not shut the root down: q6_wcss_stop fails, rproc_shutdown takes
\* its count back, and pd_stop looks at no result.
RootPutFails(j) ==
  /\ at[j] = "put" /\ MayFail /\ used.fault < MaxFaults
  /\ ~PutKeeps(pd[j]) /\ lock[Root] = None /\ st[Root] = "RUNNING" /\ power[Root] = 1
  /\ used' = [used EXCEPT !.fault = @ + 1]
  /\ Goto(j, "stopped")
  /\ UNCHANGED <<st, power, wcss, lock, up, pd, ix, queued>>

\* pd_stop and rproc_stop end; the root's worker then sets SUSPENDED, a crash
\* worker of the domain goes on to start it.
Stopped(j) ==
  /\ at[j] = "stopped"
  /\ wcss' = [wcss EXCEPT ![pd[j]] = "SHUTDOWN"]
  /\ st' = [st EXCEPT ![pd[j]] = IF Looping(j) THEN "SUSPENDED" ELSE "OFFLINE"]
  /\ IF j \in Clients \/ Looping(j) THEN Return(j)
     ELSE Goto(j, "load") /\ UNCHANGED <<ix, lock>>
  /\ UNCHANGED <<power, up, pd, queued, used>>

\* rproc_shutdown takes its count back; the root's worker only logs it.
StopFailed(j) ==
  /\ at[j] = "stopfail"
  /\ power' = IF j \in Clients THEN [power EXCEPT ![pd[j]] = @ + 1] ELSE power
  /\ st' = IF Looping(j) THEN [st EXCEPT ![pd[j]] = "SUSPENDED"] ELSE st
  /\ Return(j)
  /\ UNCHANGED <<wcss, up, pd, queued, used>>

-----------------------------------------------------------------------------
(* Crashes: rproc_crash_handler_work and rproc_trigger_recovery.           *)

RootCrash ==
  /\ Root \in up /\ MayCrash /\ used.root < MaxRootCrash
  /\ used' = [used EXCEPT !.root = @ + 1]
  /\ up' = {} /\ queued' = queued \cup {Root}
  /\ UNCHANGED <<st, power, wcss, lock, at, pd, ix>>

UserCrash(u) ==
  /\ u \in up /\ MayFail /\ used.user < MaxUserCrash
  /\ used' = [used EXCEPT !.user = @ + 1]
  /\ up' = up \ {u} /\ queued' = queued \cup {u}
  /\ UNCHANGED <<st, power, wcss, lock, at, pd, ix>>

\* A crash of a domain that is stopped, or already being recovered, is dropped.
CrashSeen(p) == LET w == Work(p) IN
  /\ p \in queued /\ at[w] = "idle" /\ lock[p] = None
  /\ queued' = queued \ {p}
  /\ IF st[p] \in {"CRASHED", "OFFLINE"} THEN UNCHANGED <<st, at>>
     ELSE st' = [st EXCEPT ![p] = "CRASHED"] /\ Goto(w, "recover")
  /\ UNCHANGED <<power, wcss, lock, up, pd, ix, used>>

\* The mutex was free in between: the state is read again.
Recover(p) == LET w == Work(p) IN
  /\ at[w] = "recover" /\ lock[p] = None
  /\ IF st[p] # "CRASHED" THEN Goto(w, "idle") /\ UNCHANGED <<lock, ix>>
     ELSE /\ lock' = [lock EXCEPT ![p] = w]
          /\ Goto(w, IF p = Root THEN "sweep" ELSE "stop")
          /\ ix' = [ix EXCEPT ![w] = 1]
  /\ UNCHANGED <<st, power, wcss, up, pd, queued, used>>

\* q6_wcss_stop of a crashed root: every user that is not OFFLINE is stopped,
\* without its mutex ...
Sweeps(u) == st[u] # "OFFLINE"
Sweep == LET w == Work(Root)  u == Order[ix[w]] IN
  /\ at[w] = "sweep" /\ ix[w] <= Len(Order)
  /\ IF Sweeps(u)
     THEN /\ st' = [st EXCEPT ![u] = "CRASHED"]
          /\ pd' = [pd EXCEPT ![w] = u]
          /\ Goto(w, "stop") /\ UNCHANGED ix
     ELSE ix' = [ix EXCEPT ![w] = @ + 1] /\ UNCHANGED <<st, pd, at>>
  /\ UNCHANGED <<power, wcss, lock, up, queued, used>>

\* ... and the root goes down, to be started again by rproc_boot_recovery.
RootDown == LET w == Work(Root) IN
  /\ at[w] = "sweep" /\ ix[w] > Len(Order)
  /\ wcss' = [wcss EXCEPT ![Root] = "RESTARTING"]
  /\ st' = [st EXCEPT ![Root] = "OFFLINE"]
  /\ up' = {}
  /\ Goto(w, "rootstart")
  /\ UNCHANGED <<power, lock, pd, ix, queued, used>>

\* The firmware does not shut it down: q6_wcss_stop and rproc_boot_recovery fail, the
\* root stays CRASHED and its users SUSPENDED.
RootDownFails == LET w == Work(Root) IN
  /\ at[w] = "sweep" /\ ix[w] > Len(Order) /\ used.fault < MaxFaults
  /\ used' = [used EXCEPT !.fault = @ + 1]
  /\ wcss' = [wcss EXCEPT ![Root] = "RESTARTING"]
  /\ lock' = [lock EXCEPT ![Root] = None]
  /\ Goto(w, "idle")
  /\ UNCHANGED <<st, power, up, pd, ix, queued>>

\* handle_upd_in_rpd_crash: spins until the root runs, starts every SUSPENDED
\* user and leaves the root NORMAL.
Spin(t) == LET j == Thread(t) IN
  /\ at[j] = "spin" /\ st[Root] = "RUNNING"
  /\ Goto(j, "scan") /\ ix' = [ix EXCEPT ![j] = 1]
  /\ UNCHANGED <<st, power, wcss, lock, up, pd, queued, used>>

Scan(t) == LET j == Thread(t)  u == Order[ix[j]] IN
  /\ at[j] = "scan" /\ ix[j] <= Len(Order)
  /\ IF st[u] = "SUSPENDED"
     THEN pd' = [pd EXCEPT ![j] = u] /\ Goto(j, "load") /\ UNCHANGED ix
     ELSE ix' = [ix EXCEPT ![j] = @ + 1] /\ UNCHANGED <<pd, at>>
  /\ UNCHANGED <<st, power, wcss, lock, up, queued, used>>

ScanDone(t) == LET j == Thread(t) IN
  /\ at[j] = "scan" /\ ix[j] > Len(Order)
  /\ wcss' = [wcss EXCEPT ![Root] = "NORMAL"]
  /\ Goto(j, "idle")
  /\ UNCHANGED <<st, power, lock, up, pd, ix, queued, used>>

-----------------------------------------------------------------------------
\* What a job does once it is called.
Step(j) ==
  \/ Load(j) \/ RootGet(j) \/ RootStart(j) \/ RootRuns(j) \/ RootFailed(j)
  \/ Start(j) \/ Run(j) \/ Fail(j)
  \/ Stop(j) \/ RootPut(j) \/ Stopped(j) \/ StopFailed(j)
  \/ \E p \in PDs : j = Work(p) /\ (CrashSeen(p) \/ Recover(p))
  \/ j = Work(Root) /\ (Sweep \/ RootDown)
  \/ \E t \in Threads : j = Thread(t) /\ (Spin(t) \/ Scan(t) \/ ScanDone(t))

Next ==
  \/ \E j \in Jobs : \/ Step(j) \/ RootStartFails(j) \/ StartFails(j)
                     \/ StopFails(j) \/ RootPutFails(j)
  \/ \E u \in Users : Boot(u) \/ Shutdown(u) \/ UserCrash(u)
  \/ RootCrash \/ RootDownFails

Spec == Init /\ [][Next]_vars

(***************************************************************************)
(* A called job runs: the scheduler is fair, and a kernel mutex hands over *)
(* to the longest waiter, so a job whose wait ends again and again gets it.*)
(* Clients may stop calling, and crashes and faults need not happen.       *)
(***************************************************************************)
FairSpec == Spec /\ \A j \in Jobs : SF_vars(Step(j))

-----------------------------------------------------------------------------
Labels == {"idle", "load", "rootget", "rootstart", "rootrun", "rootfail", "start",
           "run", "fail", "stop", "put", "stopped", "stopfail", "recover",
           "sweep", "spin", "scan"}

(* Every variable keeps its type; no count of an rproc falls below zero,   *)
(* and the loops stay inside the device tree's list of users (the loops of *)
(* q6_wcss_stop and handle_upd_in_rpd_crash).                              *)
TypeOK ==
  /\ st \in [PDs -> {"OFFLINE", "RUNNING", "CRASHED", "SUSPENDED"}]
  /\ power \in [PDs -> Nat]
  /\ wcss \in [PDs -> {"NORMAL", "RESTARTING", "SHUTDOWN"}]
  /\ lock \in [PDs -> Jobs \cup {None}]
  /\ up \in SUBSET PDs /\ queued \in SUBSET PDs
  /\ at \in [Jobs -> Labels]
  /\ pd \in [Jobs -> Users]
  /\ ix \in [Jobs -> 1..(Len(Order) + 1)]
  /\ used \in [root : 0..MaxRootCrash, user : 0..MaxUserCrash, fault : 0..MaxFaults,
               halted : SUBSET Users]

\* Client of u has taken the root's reference for u and not given it back.
Holds(u) ==
  \/ at[Client(u)] \in {"rootstart", "rootrun", "start", "run", "stop", "stopfail", "put"}
  \/ at[Client(u)] = "idle" /\ power[u] > 0
Holders == {u \in Users : Holds(u)}

(* The root's power count is the number of users whose client holds it:    *)
(* booting (pd_load) and shutting down (pd_stop) users in any order, and   *)
(* recovering them with the root, neither leaks nor drops a reference.     *)
(* Recovering a user alone, a start that fails, or a root that refuses to  *)
(* be shut down, does leak one.                                            *)
RefsBalanced == lock[Root] = None /\ Alone => power[Root] = Cardinality(Holders)

(* A user domain that is RUNNING and NORMAL ("subsystem is operating       *)
(* normally"), that no job works on and no crash is reported for, really   *)
(* executes: the root is never stopped beneath a user that still runs, and *)
(* a start that fails leaves nothing RUNNING.  The one exception is a stop *)
(* that fails half-way: its caller gets the error, and the user keeps its  *)
(* state and its count whether it executes or not, until it is spawned     *)
(* again.                                                                  *)
RunningRuns ==
  \A u \in Users \ used.halted :
    (/\ st[u] = "RUNNING" /\ wcss[u] = "NORMAL" /\ lock[u] = None /\ queued \cap {u, Root} = {}
     /\ Idle(Recoveries)) => u \in up

(* While the root does not crash it executes exactly as long as its power  *)
(* count says that somebody uses it, whatever users crash and whatever     *)
(* starts and stops fail: a failed boot of the root counts nobody, the     *)
(* last user to stop takes the root down, and a root that cannot be shut   *)
(* down stays counted (rproc_boot in pd_load, rproc_shutdown in pd_stop).  *)
RootUpWhileReferenced ==
  lock[Root] = None /\ used.root = 0 => (power[Root] > 0 <=> Root \in up)

\* The recovery of the root ended without shutting it down.
GivenUp == st[Root] = "CRASHED" /\ at[Work(Root)] = "idle"

(* A user suspended with a crashed root is started again ("start userpd's, *)
(* if root pd getting recovered", q6_wcss_start), unless its client shut   *)
(* it down, or the recovery gave up on a root that it could not shut down. *)
SuspendedRestarts ==
  \A u \in Users :
    (st[u] = "SUSPENDED") ~> (st[u] = "RUNNING" \/ power[u] = 0 \/ GivenUp)

(* Every recovery ends: the root's worker stops the users ("stop userpd's, *)
(* if root pd getting crashed", q6_wcss_stop) and gets the root going, and *)
(* no job is left waiting for a mutex it will never get.                   *)
RecoveryEnds ==
  \A j \in Jobs : (at[j] # "idle") ~> (at[j] = "idle")
=============================================================================
