---------------------------- MODULE LicenseManager ----------------------------
(***************************************************************************)
(* The licence buffer of drivers/soc/qcom/license_manager.c: one DMA       *)
(* buffer filled from the licence files the first time somebody asks,      *)
(* handed to the remote processors (qcom_q6v5_mpd.c) and MHI devices       *)
(* (patch 0441) that load, and filled again by a rescan, from an ioctl or  *)
(* from sysfs, which buf_use_count is to keep away while it is in use.     *)
(* Filling holds license_valid_lock; asking, the test of the count and     *)
(* giving back do not.                                                     *)
(*                                                                         *)
(* A licence file is its aligned size with its header, 0 when it is absent *)
(* or empty; a device tree with license-file is a list of one file.  What  *)
(* an external user gets besides (the SSLM or ECDSA buffer of its own) is  *)
(* an allocation that may fail.  The list of clients is not modelled.      *)
(*                                                                         *)
(* TestNothing, IgnoreMissing and CountFirst are not the code: each is a   *)
(* definition below with one mistake.                                      *)
(***************************************************************************)
EXTENDS Integers, Sequences, FiniteSets

CONSTANTS
  Internal,   \* users that load a processor
  External,   \* users that load an MHI device
  Rescanners, \* threads that ask for a rescan
  FileCount,  \* the files the configuration lists
  Sizes,      \* sizes a file may have
  Room,       \* LICENSE_BUF_MAX
  MaxEdits,   \* bound: changes to the files
  MaxLost     \* bound: licences a failed load did not give back

ASSUME SizesOK == Sizes \subseteq Nat /\ {FileCount, Room, MaxEdits, MaxLost} \subseteq Nat
ASSUME ThreadsOK == IsFiniteSet(Internal \cup External)
                    /\ Rescanners \cap (Internal \cup External) = {}

VARIABLES
  disk,  \* the size of each file now
  edits, \* how often the files changed
  valid, \* license_buf_valid
  buf,   \* what was copied to license_buf since the last reset: files and sizes
  len,   \* license_buf_len
  names, \* num_of_file
  lock,  \* the thread in license_valid_lock, or the empty set
  count, \* buf_use_count
  at,    \* where each thread is
  pos,   \* how many files the thread in the lock has gone through
  ret,   \* the result it will return is 0
  got,   \* what was in the buffer when each user was given it
  lost,  \* licences not given back
  raced  \* a licence was given out while a scan was under way
vars == <<disk, edits, valid, buf, len, names, lock, count, at, pos, ret, got, lost, raced>>

Users == Internal \cup External
Threads == Users \cup Rescanners
Files == 1 .. FileCount
Nobody == {}

Init ==
  /\ disk \in [Files -> Sizes] /\ edits = 0
  /\ valid = FALSE /\ buf = <<>> /\ len = 0 /\ names = 0
  /\ lock = Nobody /\ count = 0 /\ pos = 0 /\ ret = TRUE
  /\ at = [t \in Threads |-> "out"] /\ got = [u \in Users |-> <<>>]
  /\ lost = 0 /\ raced = FALSE

Goto(t, where) == at' = [at EXCEPT ![t] = where]
Buffer == <<valid, buf, len, names>>
Scan == <<lock, pos, ret>>

(* A licence file is written, replaced or removed. *)
Edit ==
  /\ edits < MaxEdits
  /\ \E f \in Files : \E s \in Sizes \ {disk[f]} : disk' = [disk EXCEPT ![f] = s]
  /\ edits' = edits + 1
  /\ UNCHANGED <<Buffer, Scan, count, at, got, lost, raced>>

-----------------------------------------------------------------------------
(* lm_get_license, up to the lock: valid is looked at without it. *)
Get(u) ==
  /\ at[u] = "out"
  /\ Goto(u, IF valid THEN "granting" ELSE "locking")
  /\ UNCHANGED <<disk, edits, Buffer, Scan, count, got, lost, raced>>

(* LICENSE_RESCAN and store_license_rescan: refused while in use. *)
TestNothing(r) == TRUE
InUse == count # 0
MayRescan(r) == ~InUse
Rescan(r) ==
  /\ at[r] = "out" /\ MayRescan(r)
  /\ Goto(r, "locking")
  /\ raced' = (raced \/ \E u \in Users : at[u] = "counting")
  /\ UNCHANGED <<disk, edits, Buffer, Scan, count, got, lost>>

(* What a thread does after the lock: a user goes on, a rescan is over. *)
After(t) == IF t \in Users THEN "granting" ELSE "out"

(* lm_get_license_buffer and lm_get_license_in_tlv: valid is tested again, *)
(* unless this is a rescan, and what was there is forgotten, but valid.    *)
LockValid(t) ==
  /\ at[t] = "locking" /\ lock = Nobody
  /\ t \in Users /\ valid
  /\ valid' = (len # 0)
  /\ Goto(t, "granting")
  /\ UNCHANGED <<disk, edits, buf, len, names, Scan, count, got, lost, raced>>

Lock(t) ==
  /\ at[t] = "locking" /\ lock = Nobody
  /\ t \in Rescanners \/ ~valid
  /\ lock' = {t} /\ pos' = 0 /\ ret' = TRUE
  /\ len' = 0 /\ names' = 0 /\ buf' = <<>>
  /\ Goto(t, "scanning")
  /\ UNCHANGED <<disk, edits, valid, count, got, lost, raced>>

(* lm_read_license_file; a missing file is passed over, though the result  *)
(* stays an error if it is the last; one that does not fit ends the scan.  *)
IgnoreMissing(missing) == TRUE
ResultOf(missing) == ~missing
ReadFile(t) ==
  /\ at[t] = "scanning" /\ pos < FileCount
  /\ LET f == pos + 1 IN
       \/ /\ disk[f] = 0
          /\ ret' = ResultOf(TRUE) /\ pos' = f
          /\ UNCHANGED <<buf, len, names, at>>
       \/ /\ disk[f] # 0 /\ len + disk[f] <= Room
          /\ buf' = Append(buf, <<f, disk[f]>>)
          /\ len' = len + disk[f] /\ names' = names + 1
          /\ ret' = ResultOf(FALSE) /\ pos' = f
          /\ UNCHANGED at
       \/ /\ disk[f] # 0 /\ len + disk[f] > Room
          /\ names' = 0 /\ ret' = FALSE
          /\ Goto(t, "unlocking")
          /\ UNCHANGED <<buf, len, pos>>
  /\ UNCHANGED <<disk, edits, valid, lock, count, got, lost, raced>>

(* The list itself is missing or malformed, or there is no memory for it. *)
BadList(t) ==
  /\ at[t] = "scanning" /\ pos = 0
  /\ ret' = FALSE
  /\ Goto(t, "unlocking")
  /\ UNCHANGED <<disk, edits, Buffer, lock, pos, count, got, lost, raced>>

SetValid(t) ==
  /\ at[t] = "scanning" /\ pos = FileCount
  /\ valid' = (valid \/ len # 0)
  /\ Goto(t, "unlocking")
  /\ UNCHANGED <<disk, edits, buf, len, names, Scan, count, got, lost, raced>>

Unlock(t) ==
  /\ at[t] = "unlocking"
  /\ valid' = (valid /\ ret /\ len # 0)
  /\ lock' = Nobody
  /\ Goto(t, IF ret THEN After(t) ELSE "out")
  /\ UNCHANGED <<disk, edits, buf, len, names, pos, ret, count, got, lost, raced>>

-----------------------------------------------------------------------------
(* lm_get_license, from the lock on. *)

Scanning == lock # Nobody \/ \E r \in Rescanners : at[r] # "out"

(* Nothing is counted until the user is sure to get the buffer. *)
CountFirst(granted) == count + 1
Counted(granted) == count

Grant(u) ==
  /\ at[u] = "granting"
  /\ IF valid
     THEN /\ \/ Goto(u, "counting") /\ raced' = (raced \/ Scanning)
                /\ got' = [got EXCEPT ![u] = buf]
             \/ u \in External /\ Goto(u, "out") /\ UNCHANGED <<raced, got>>
     ELSE Goto(u, "out") /\ UNCHANGED <<raced, got>>
  /\ count' = Counted(at'[u] = "counting")
  /\ UNCHANGED <<disk, edits, Buffer, Scan, lost>>

Count(u) ==
  /\ at[u] = "counting"
  /\ count' = count + 1
  /\ Goto(u, "using")
  /\ UNCHANGED <<disk, edits, Buffer, Scan, got, lost, raced>>

(* lm_free_license *)
Free(u) ==
  /\ at[u] = "using"
  /\ Goto(u, IF count > 0 THEN "freeing" ELSE "out")
  /\ got' = [got EXCEPT ![u] = <<>>]
  /\ UNCHANGED <<disk, edits, Buffer, Scan, count, lost, raced>>
FreeCount(u) ==
  /\ at[u] = "freeing"
  /\ count' = count - 1
  /\ Goto(u, "out")
  /\ UNCHANGED <<disk, edits, Buffer, Scan, got, lost, raced>>

(* A load of a processor that fails before q6_wcss_start waits for it      *)
(* leaves lic_param.buf, which the next load overwrites.                   *)
Forget(u) ==
  /\ at[u] = "using" /\ u \in Internal /\ lost < MaxLost
  /\ lost' = lost + 1
  /\ Goto(u, "out") /\ got' = [got EXCEPT ![u] = <<>>]
  /\ UNCHANGED <<disk, edits, Buffer, Scan, count, raced>>

Step(t) == LockValid(t) \/ Lock(t) \/ ReadFile(t) \/ BadList(t) \/ SetValid(t) \/ Unlock(t)
UserStep(u) == Get(u) \/ Grant(u) \/ Count(u) \/ Free(u) \/ FreeCount(u) \/ Forget(u)
Next == \/ Edit
        \/ \E t \in Threads : Step(t)
        \/ \E u \in Users : UserStep(u)
        \/ \E r \in Rescanners : Rescan(r)
Spec == Init /\ [][Next]_vars

-----------------------------------------------------------------------------
Total(s) ==
  LET sum[i \in 0 .. Len(s)] == IF i = 0 THEN 0 ELSE sum[i - 1] + s[i][2] IN sum[Len(s)]

(* While nobody fills it, a buffer said to be valid holds at least the     *)
(* last file of the list, its length is that of the files in it, and as    *)
(* many names are kept as there are files.                                 *)
ValidMeansWhole ==
  lock = Nobody /\ valid =>
    buf # <<>> /\ buf[Len(buf)][1] = FileCount /\ len = Total(buf) /\ names = Len(buf)

(* Apart from the race of NeverRewritten the count does what it is for:    *)
(* what a user was given is not empty and stays what it was until it is    *)
(* given back, whoever asks, rescans or changes the files meanwhile.       *)
InUseKept ==
  ~raced => \A u \in Users : at[u] \in {"counting", "using"} => got[u] = buf /\ buf # <<>>

(* buf_use_count is exact: every way out of lm_get_license and             *)
(* lm_free_license leaves one for each buffer given out and not given back *)
CountExact ==
  count = lost + Cardinality({u \in Users : at[u] \in {"using", "freeing"}})

(* What the comment "increment atomic counter to keep track of buf use"    *)
(* (license_manager.c:537) says the counter is for: a buffer in use is not *)
(* filled again.                                                           *)
NeverRewritten == \A u \in Users : at[u] = "using" => got[u] = buf
=============================================================================
