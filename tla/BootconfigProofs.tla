--------------------------- MODULE BootconfigProofs ---------------------------
(***************************************************************************)
(* What holds of the boot configuration for any modulus of the ages, any   *)
(* number of boots and any flash: types, that a valid copy always remains  *)
(* in flash, that what is published and what is read back is valid, and    *)
(* that coming up levels the ages.                                         *)
(***************************************************************************)
EXTENDS Bootconfig, TLAPS

LEMMA CopiesFacts == /\ \A c \in Copies : Other(c) \in Copies /\ Other(c) # c
                     /\ \A c, d \in Copies : d = c \/ d = Other(c)
  BY DEF Copies, Other

\* The age that follows an age is an age.
LEMMA NextIsAge == \A a \in Ages : Next1(a) \in Ages
  BY BoundsOK DEF Ages, Next1

LEMMA BlankIsRecord == Blank \in Record /\ ~Valid(Blank)
  <1>1. 0 \in Ages BY BoundsOK DEF Ages
  <1>2. Blank \in Record BY <1>1 DEF Blank, Record, Magics
  <1>3. Sum(Blank) = <<"none", 0, 0>> BY DEF Blank, Sum
  <1>4. Blank.end = <<"junk">> BY DEF Blank
  <1> QED BY <1>2, <1>3, <1>4 DEF Valid

\* A checksum covers everything but itself.
LEMMA SummedValid == \A r \in Record : Summed(r) \in Record /\ Valid(Summed(r))
  <1> SUFFICES ASSUME NEW r \in Record PROVE Summed(r) \in Record /\ Valid(Summed(r))
    OBVIOUS
  <1>1. CASE r.end = <<"end">> BY <1>1 DEF Summed, Valid
  <1>2. CASE r.end # <<"end">>
    <2> DEFINE q == [r EXCEPT !.end = Sum(r)]
    <2>1. Sum(r) \in Sums BY DEF Record, Sum, Sums
    <2>2. q \in Record BY <2>1 DEF Record
    <2>3. q.end = Sum(r) /\ Sum(q) = Sum(r) BY DEF Record, Sum
    <2> QED BY <1>2, <2>2, <2>3 DEF Summed, Valid
  <1> QED BY <1>1, <1>2

-----------------------------------------------------------------------------
(* Every variable keeps its type.                                          *)
THEOREM TypeCorrect == Spec => []TypeOK
  <1>1. Init => TypeOK
    BY BlankIsRecord DEF Init, TypeOK, Copies
  <1>2. TypeOK /\ [Next]_vars => TypeOK'
    <2> SUFFICES ASSUME TypeOK, [Next]_vars PROVE TypeOK'
      OBVIOUS
    <2> USE BlankIsRecord, CopiesFacts DEF TypeOK
    <2>1. CASE PowerOn BY <2>1 DEF PowerOn
    <2>2. CASE PowerLoss BY <2>2 DEF PowerLoss
    <2>3. CASE Read BY <2>3 DEF Read, GiveUp
    <2>4. CASE Check BY <2>4 DEF Check, GiveUp, Restore, Restored
    <2>5. CASE Erase BY <2>5 DEF Erase, GiveUp
    <2>6. CASE Write BY <2>6 DEF Write, GiveUp
    <2>7. CASE WriteFails BY <2>7 DEF WriteFails, GiveUp
    <2>8. CASE Publish
      <3>1. Bump \in [Copies -> Record]
        BY NextIsAge DEF Bump, Record, Copies
      <3> QED BY <2>8, <3>1 DEF Publish, GiveUp
    <2>9. CASE Programmed BY <2>9 DEF Programmed
    <2>10. ASSUME NEW c \in Copies, Rot(c) PROVE TypeOK'
      <3> USE <2>10 DEF Rot
      <3>1. PICK m \in Magics : flash' = [flash EXCEPT ![c].magic = m, ![c].end = <<"junk">>]
        OBVIOUS
      <3>2. [flash[c] EXCEPT !.magic = m, !.end = <<"junk">>] \in Record
        BY DEF Record
      <3>3. flash' \in [Copies -> Record] BY <3>1, <3>2
      <3>4. spent' \in [rot : Nat, boot : Nat, edit : Nat] OBVIOUS
      <3> QED BY <3>3, <3>4
    <2>11. ASSUME NEW c \in Copies, Edit(c) PROVE TypeOK'
      <3> USE <2>11 DEF Edit
      <3>1. CASE \E a \in Ages : ram' = [ram EXCEPT ![c].age = a]
        <4>1. \A a \in Ages : [ram[c] EXCEPT !.age = a] \in Record BY DEF Record
        <4> QED BY <3>1, <4>1
      <3>2. CASE \E s \in {0, 1} : ram' = [ram EXCEPT ![c].side = s]
        <4>1. \A s \in {0, 1} : [ram[c] EXCEPT !.side = s] \in Record BY DEF Record
        <4> QED BY <3>2, <4>1
      <3> QED BY <3>1, <3>2
    <2>12. ASSUME NEW c \in Copies, GetBinary(c) PROVE TypeOK'
      BY <2>12, SummedValid DEF GetBinary
    <2>13. ASSUME NEW c \in Copies, Program(c) PROVE TypeOK'
      BY <2>13 DEF Program
    <2>14. CASE UNCHANGED vars BY <2>14 DEF vars
    <2> QED BY <2>1, <2>2, <2>3, <2>4, <2>5, <2>6, <2>7, <2>8, <2>9, <2>10, <2>11,
               <2>12, <2>13, <2>14 DEF Next
  <1> QED BY <1>1, <1>2, PTL DEF Spec

-----------------------------------------------------------------------------
\* Why a valid copy remains: the copy being overwritten is never the only
\* valid one, and the driver decides on what is in flash.
Spared ==
  /\ OneCopySurvives
  /\ phase \in {"erase", "write", "program"} => Valid(flash[Other(bad)])
  /\ phase = "check" => ram = flash

(* One copy in flash is always valid, whatever restore or programming is   *)
(* cut short by a power loss or a failing write.                           *)
THEOREM SurvivesCorrect == Spec => []OneCopySurvives
  <1>1. Init => Spared
    BY CopiesFacts DEF Init, Spared, OneCopySurvives, Copies
  <1>2. TypeOK /\ Spared /\ [Next]_vars => Spared'
    <2> SUFFICES ASSUME TypeOK, Spared, [Next]_vars PROVE Spared'
      OBVIOUS
    <2> USE CopiesFacts DEF TypeOK, Spared, OneCopySurvives
    <2>1. CASE PowerOn BY <2>1 DEF PowerOn
    <2>2. CASE PowerLoss BY <2>2 DEF PowerLoss
    <2>3. CASE Read BY <2>3 DEF Read, GiveUp
    <2>4. CASE Check
      <3>1. CASE Faulty = {} /\ phase' = "publish" /\ UNCHANGED <<ram, bad>>
        BY <2>4, <3>1 DEF Check
      <3>2. CASE GiveUp BY <2>4, <3>2 DEF Check, GiveUp
      <3>3. ASSUME NEW c \in Copies, Faulty = {c}, Restore(c) PROVE Spared'
        <4>1. Valid(flash[Other(c)]) BY <2>4, <3>3 DEF Check, Faulty
        <4> QED BY <2>4, <3>3, <4>1 DEF Check, Restore, Restored
      <3> QED BY <2>4, <3>1, <3>2, <3>3 DEF Check
    <2>5. CASE Erase BY <2>5 DEF Erase, GiveUp
    <2>6. CASE Write BY <2>6 DEF Write, GiveUp
    <2>7. CASE WriteFails BY <2>7 DEF WriteFails, GiveUp
    <2>8. CASE Publish BY <2>8 DEF Publish, GiveUp
    <2>9. CASE Programmed BY <2>9 DEF Programmed
    <2>10. ASSUME NEW c \in Copies, Rot(c) PROVE Spared'
      BY <2>10 DEF Rot
    <2>11. ASSUME NEW c \in Copies, Edit(c) PROVE Spared'
      BY <2>11 DEF Edit
    <2>12. ASSUME NEW c \in Copies, GetBinary(c) PROVE Spared'
      BY <2>12 DEF GetBinary
    <2>13. ASSUME NEW c \in Copies, Program(c) PROVE Spared'
      BY <2>13 DEF Program
    <2>14. CASE UNCHANGED vars BY <2>14 DEF vars
    <2> QED BY <2>1, <2>2, <2>3, <2>4, <2>5, <2>6, <2>7, <2>8, <2>9, <2>10, <2>11,
               <2>12, <2>13, <2>14 DEF Next
  <1>3. Spared => OneCopySurvives BY DEF Spared
  <1> QED BY <1>1, <1>2, <1>3, TypeCorrect, PTL DEF Spec

-----------------------------------------------------------------------------
(* What getbinary_bootconfig returned passes the check of the next boot.   *)
THEOREM ImageCorrect == Spec => []ImageValid
  <1>1. Init => ImageValid
    BY DEF Init, ImageValid
  <1>2. TypeOK /\ ImageValid /\ [Next]_vars => ImageValid'
    <2> SUFFICES ASSUME TypeOK, ImageValid, [Next]_vars PROVE ImageValid'
      OBVIOUS
    <2> USE DEF TypeOK, ImageValid
    <2>1. ASSUME NEW c \in Copies, GetBinary(c) PROVE ImageValid'
      BY <2>1, SummedValid DEF GetBinary
    <2>2. CASE PowerLoss BY <2>2 DEF PowerLoss
    <2>3. ASSUME image' = image PROVE ImageValid'
      BY <2>3
    <2> QED BY <2>1, <2>2, <2>3 DEF Next, vars, PowerOn, Read, Check, Erase, Write,
               WriteFails, Publish, Programmed, Rot, Edit, Program
  <1> QED BY <1>1, <1>2, TypeCorrect, PTL DEF Spec
-----------------------------------------------------------------------------
\* Why what is published is what flash or the boot loader holds: the copy in shared
\* memory is valid as long as the power is on, and until the restored copy is written
\* only that copy differs from flash.
Restoring ==
  /\ phase # "off" => Valid(smem)
  /\ phase = "check" => ram = flash
  /\ phase \in {"erase", "write"} =>
       /\ ram[bad] = smem
       /\ ram[Other(bad)] = flash[Other(bad)] /\ Valid(flash[Other(bad)])
  /\ RestoreAgrees

(* What the driver publishes is valid, each copy as it is in flash or as   *)
(* the boot loader chose it, even if writing the restored copy failed.     *)
THEOREM RestoreCorrect == Spec => []RestoreAgrees
  <1>1. Init => Restoring
    BY DEF Init, Restoring, RestoreAgrees
  <1>2. TypeOK /\ Restoring /\ [Next]_vars => Restoring'
    <2> SUFFICES ASSUME TypeOK, Restoring, [Next]_vars PROVE Restoring'
      OBVIOUS
    <2> USE CopiesFacts DEF TypeOK, Restoring, RestoreAgrees
    <2>1. CASE PowerOn BY <2>1 DEF PowerOn
    <2>2. CASE PowerLoss BY <2>2 DEF PowerLoss
    <2>3. CASE Read BY <2>3 DEF Read, GiveUp
    <2>4. CASE Check
      <3>1. CASE Faulty = {} /\ phase' = "publish" /\ UNCHANGED <<ram, bad>>
        BY <2>4, <3>1 DEF Check, Faulty
      <3>2. CASE GiveUp BY <2>4, <3>2 DEF Check, GiveUp
      <3>3. ASSUME NEW c \in Copies, Faulty = {c}, Restore(c) PROVE Restoring'
        <4>1. Valid(flash[Other(c)]) BY <2>4, <3>3 DEF Check, Faulty
        <4>2. bad' = c /\ ram' = [ram EXCEPT ![c] = smem] /\ phase' \in {"erase", "write"}
          BY <3>3 DEF Restore, Restored
        <4>3. ram'[c] = smem /\ ram'[Other(c)] = flash[Other(c)]
          BY <2>4, <4>2 DEF Check
        <4>4. UNCHANGED <<flash, smem>> /\ Valid(smem) BY <2>4 DEF Check
        <4> QED BY <4>1, <4>2, <4>3, <4>4
      <3> QED BY <2>4, <3>1, <3>2, <3>3 DEF Check
    <2>5. CASE Erase BY <2>5 DEF Erase, GiveUp
    <2>6. CASE Write BY <2>6 DEF Write, GiveUp
    <2>7. CASE WriteFails BY <2>7 DEF WriteFails, GiveUp
    <2>8. CASE Publish BY <2>8 DEF Publish, GiveUp
    <2>9. CASE Programmed BY <2>9 DEF Programmed
    <2>10. ASSUME NEW c \in Copies, Rot(c) PROVE Restoring'
      BY <2>10 DEF Rot
    <2>11. ASSUME NEW c \in Copies, Edit(c) PROVE Restoring'
      BY <2>11 DEF Edit
    <2>12. ASSUME NEW c \in Copies, GetBinary(c) PROVE Restoring'
      BY <2>12 DEF GetBinary
    <2>13. ASSUME NEW c \in Copies, Program(c) PROVE Restoring'
      BY <2>13 DEF Program
    <2>14. CASE UNCHANGED vars BY <2>14 DEF vars
    <2> QED BY <2>1, <2>2, <2>3, <2>4, <2>5, <2>6, <2>7, <2>8, <2>9, <2>10, <2>11,
               <2>12, <2>13, <2>14 DEF Next
  <1>3. Restoring => RestoreAgrees BY DEF Restoring
  <1> QED BY <1>1, <1>2, <1>3, TypeCorrect, PTL DEF Spec

-----------------------------------------------------------------------------
(* Coming up without the try feature gives both copies one age, which,     *)
(* unless it wraps, is larger than the age either had (the increments in   *)
(* bootconfig_partition_init).                                             *)
THEOREM LevelCorrect == Spec => AgesLevel
  <1> DEFINE Level ==
        phase = "publish" /\ phase' = "ready" /\ ~TryFeature =>
          /\ ram'[1].age = ram'[2].age
          /\ ram'[1].age # 0 => \A c \in Copies : ram'[1].age > ram[c].age
  <1>1. TypeOK /\ [Next]_vars => Level
    <2> SUFFICES ASSUME TypeOK, [Next]_vars,
                        phase = "publish", phase' = "ready", ~TryFeature
                 PROVE /\ ram'[1].age = ram'[2].age
                       /\ ram'[1].age # 0 => \A c \in Copies : ram'[1].age > ram[c].age
      OBVIOUS
    <2>1. Publish
      BY DEF Next, vars, PowerOn, PowerLoss, Read, Check, Erase, Write, WriteFails,
             Programmed, Rot, Edit, GetBinary, Program, GiveUp
    <2>2. ram' = Bump BY <2>1 DEF Publish, GiveUp
    <2> DEFINE top == IF ram[1].age > ram[2].age THEN ram[1].age ELSE ram[2].age
    <2>3. \A c \in Copies : ram[c] \in Record /\ ram[c].age \in Ages
      BY DEF TypeOK, Record
    <2>4. ram[1].age \in Ages /\ ram[2].age \in Ages BY <2>3 DEF Copies
    <2>5. top \in Ages /\ top >= ram[1].age /\ top >= ram[2].age
      BY <2>4, BoundsOK DEF Ages
    <2> HIDE DEF top
    <2>6. \A c \in Copies : ram'[c] = [ram[c] EXCEPT !.age = Next1(top)]
      BY <2>2 DEF Bump, top
    <2>7. \A c \in Copies : ram'[c].age = Next1(top) BY <2>3, <2>6 DEF Record
    <2>8. Next1(top) # 0 => Next1(top) > top BY <2>5, BoundsOK DEF Ages, Next1
    <2>9. Next1(top) \in Ages BY <2>5, NextIsAge
    <2> QED BY <2>4, <2>5, <2>7, <2>8, <2>9, BoundsOK DEF Copies, Ages
  <1>2. TypeOK /\ [Next]_vars => [Level]_vars BY <1>1
  <1>3. Spec => [][Level]_vars
    <2> HIDE DEF Level
    <2>1. QED BY <1>2, TypeCorrect, PTL DEF Spec
  <1>4. QED BY <1>3 DEF AgesLevel, Level
=============================================================================
