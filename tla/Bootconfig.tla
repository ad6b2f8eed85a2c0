------------------------------ MODULE Bootconfig ------------------------------
(***************************************************************************)
(* The dual-boot configuration, drivers/platform/ipq/bootconfig: two       *)
(* copies of one record in flash say which partition of each pair boots.   *)
(* At boot the driver reads both, restores a corrupted one from the copy   *)
(* the boot loader left in shared memory, and publishes them in /proc,     *)
(* where user space changes them, reads them back with a fresh checksum    *)
(* and programs them into flash.  Power may be lost at any step.           *)
(*                                                                         *)
(* A record keeps its magic, its age, the side that boots (one value for   *)
(* all pairs) and its last word: the end magic or a CRC of the rest.  The  *)
(* CRC is the tuple it covers, so different contents never share one.      *)
(*                                                                         *)
(* RestoreOther, BumpFirst, SumKept and FaultyFirst are not the code: each *)
(* is a definition below with one mistake.                                 *)
(***************************************************************************)
EXTENDS Naturals, FiniteSets

CONSTANTS
  Flashes,  \* where the copies are: "mtd" (NOR, NAND), the only MMC device of the
            \* board ("emmc"), or the first of two ("emmc+sd")
  AgeMod,   \* an age is a number modulo this (2^32 in the code)
  MaxRot,   \* bound: copies that flash corrupts on its own
  MaxBoots, \* bound: times the power comes on
  MaxEdits  \* bound: writes of user space

Copies == {1, 2}
Other(c) == 3 - c
Ages == 0 .. (AgeMod - 1)

ASSUME BoundsOK == Flashes \subseteq {"emmc", "emmc+sd", "mtd"} /\ AgeMod \in Nat \ {0}
                   /\ {MaxRot, MaxBoots, MaxEdits} \subseteq Nat

Magics == {"start", "try", "none"}
Sums == Magics \X Ages \X {0, 1}
Record == [magic : Magics, age : Ages, side : {0, 1}, end : Sums \cup {<<"end">>, <<"junk">>}]
Sum(r) == <<r.magic, r.age, r.side>>
Valid(r) == r.end \in {<<"end">>, Sum(r)}
Blank == [magic |-> "none", age |-> 0, side |-> 0, end |-> <<"junk">>]

VARIABLES
  type,   \* the flash the board boots from (flash_type_emmc)
  flash,  \* the two copies in flash
  ram,    \* bootconfig1 and bootconfig2
  smem,   \* SMEM_BOOT_DUALPARTINFO, written by the boot loader
  image,  \* what user space read from getbinary_bootconfig, per copy
  phase,  \* where the driver is
  bad,    \* the copy being restored or programmed
  spent   \* how much of each bound is used up
vars == <<type, flash, ram, smem, image, phase, bad, spent>>

Init ==
  /\ type \in Flashes
  /\ flash \in [Copies -> {r \in Record : Valid(r) /\ r.magic # "none" /\ r.end # <<"junk">>}]
  /\ flash[1].magic = flash[2].magic
  /\ ram = [c \in Copies |-> Blank] /\ image = ram /\ smem = Blank
  /\ phase = "off" /\ bad = 1
  /\ spent = [rot |-> 0, boot |-> 0, edit |-> 0]

-----------------------------------------------------------------------------
(* The boot loader leaves a valid copy in shared memory, the first one if  *)
(* it is valid; it does not boot without one.                              *)
PowerOn ==
  /\ phase = "off" /\ spent.boot < MaxBoots
  /\ \E c \in Copies :
       /\ Valid(flash[c]) /\ (c = 2 => ~Valid(flash[1]))
       /\ smem' = flash[c]
  /\ phase' = "read" /\ spent' = [spent EXCEPT !.boot = @ + 1]
  /\ UNCHANGED <<type, flash, ram, image, bad>>

PowerLoss ==
  /\ phase # "off" /\ phase' = "off"
  /\ ram' = [c \in Copies |-> Blank] /\ image' = ram' /\ smem' = Blank
  /\ UNCHANGED <<type, flash, bad, spent>>

\* Flash damages a copy on its own, but not while the other one is damaged.
Rot(c) ==
  /\ spent.rot < MaxRot /\ phase \in {"off", "ready"} /\ \A d \in Copies : Valid(flash[d])
  /\ \E m \in Magics : flash' = [flash EXCEPT ![c].magic = m, ![c].end = <<"junk">>]
  /\ spent' = [spent EXCEPT !.rot = @ + 1]
  /\ UNCHANGED <<type, ram, smem, image, phase, bad>>

-----------------------------------------------------------------------------
(* bootconfig_partition_init                                               *)

GiveUp == phase' = "failed" /\ ram' = [c \in Copies |-> Blank]

\* A read may fail.  Only the eMMC reader looks at the magic of what it read.
Read ==
  /\ phase = "read"
  /\ \/ /\ type = "mtd" \/ \A c \in Copies : flash[c].magic # "none"
        /\ ram' = flash /\ phase' = "check"
     \/ GiveUp
  /\ UNCHANGED <<type, flash, smem, image, bad, spent>>

FaultyFirst == {c \in {1} : ~Valid(ram[c])}
Faulty == {c \in Copies : ~Valid(ram[c])}

RestoreOther(c) == Other(c)
\* The copy restore_bootconfig_partition overwrites when c is corrupted.
Restored(c) == c

\* One corrupted copy is replaced by the boot loader's; two are hopeless.
Restore(c) ==
  /\ ram' = [ram EXCEPT ![Restored(c)] = smem] /\ bad' = Restored(c)
  /\ phase' = IF type = "mtd" THEN "erase" ELSE "write"

Check ==
  /\ phase = "check"
  /\ \/ Faulty = {} /\ phase' = "publish" /\ UNCHANGED <<ram, bad>>
     \/ Faulty # {} /\ (Faulty = Copies \/ smem.magic = "none") /\ GiveUp /\ UNCHANGED bad
     \/ \E c \in Copies : Faulty = {c} /\ smem.magic # "none" /\ Restore(c)
  /\ UNCHANGED <<type, flash, smem, image, spent>>

\* write_to_flash on MTD erases the partition first; each part may fail.
Erase ==
  /\ phase = "erase"
  /\ \/ flash' = [flash EXCEPT ![bad] = Blank] /\ phase' = "write" /\ UNCHANGED ram
     \/ GiveUp /\ UNCHANGED flash
  /\ UNCHANGED <<type, smem, image, bad, spent>>

\* On eMMC write_to_flash goes on to a second device, and fails without one.
Write ==
  /\ phase = "write" /\ flash' = [flash EXCEPT ![bad] = ram[bad]]
  /\ IF type = "emmc" THEN GiveUp ELSE phase' = "publish" /\ UNCHANGED ram
  /\ UNCHANGED <<type, smem, image, bad, spent>>

\* blkdev_issue_write drops the error of the write itself.
WriteFails ==
  /\ phase = "write"
  /\ \/ type = "emmc+sd" /\ phase' = "publish" /\ UNCHANGED ram
     \/ GiveUp
  /\ UNCHANGED <<type, flash, smem, image, bad, spent>>

TryFeature == \E c \in Copies : ram[c].magic = "try"
Next1(age) == (age + 1) % AgeMod
BumpFirst == [c \in Copies |-> [ram[c] EXCEPT !.age = IF c = 1 THEN Next1(@) ELSE @]]
\* Both ages become one more than the larger.
Bump ==
  LET top == IF ram[1].age > ram[2].age THEN ram[1].age ELSE ram[2].age
  IN  [c \in Copies |-> [ram[c] EXCEPT !.age = Next1(top)]]

\* With the try feature a failing read of its state in shared memory gives up.
Publish ==
  /\ phase = "publish"
  /\ \/ phase' = "ready" /\ ram' = IF TryFeature THEN ram ELSE Bump
     \/ TryFeature /\ GiveUp
  /\ UNCHANGED <<type, flash, smem, image, bad, spent>>

-----------------------------------------------------------------------------
(* /proc/boot_info: age, primaryboot and getbinary_bootconfig              *)

Edit(c) ==
  /\ phase = "ready" /\ spent.edit < MaxEdits
  /\ \/ \E a \in Ages : ram' = [ram EXCEPT ![c].age = a]
     \/ \E s \in {0, 1} : ram' = [ram EXCEPT ![c].side = s]
  /\ spent' = [spent EXCEPT !.edit = @ + 1]
  /\ UNCHANGED <<type, flash, smem, image, phase, bad>>

SumKept(r) == r
\* A record that ends in the magic keeps it; any other gets a fresh CRC.
Summed(r) == IF r.end = <<"end">> THEN r ELSE [r EXCEPT !.end = Sum(r)]

\* One step: user space is assumed not to write a copy while it reads it back.
GetBinary(c) ==
  /\ phase = "ready"
  /\ ram' = [ram EXCEPT ![c] = Summed(@)]
  /\ image' = [image EXCEPT ![c] = ram'[c]]
  /\ UNCHANGED <<type, flash, smem, phase, bad, spent>>

\* User space programs a copy it read, never while the other one is damaged.
Program(c) ==
  /\ phase = "ready" /\ image[c] # Blank /\ Valid(flash[Other(c)])
  /\ flash' = [flash EXCEPT ![c] = Blank] /\ phase' = "program" /\ bad' = c
  /\ UNCHANGED <<type, ram, smem, image, spent>>

Programmed ==
  /\ phase = "program"
  /\ flash' = [flash EXCEPT ![bad] = image[bad]] /\ phase' = "ready"
  /\ UNCHANGED <<type, ram, smem, image, bad, spent>>

-----------------------------------------------------------------------------
Next ==
  \/ PowerOn \/ PowerLoss \/ Read \/ Check \/ Erase \/ Write \/ WriteFails \/ Publish
  \/ Programmed
  \/ \E c \in Copies : Rot(c) \/ Edit(c) \/ GetBinary(c) \/ Program(c)

Spec == Init /\ [][Next]_vars

(* Every variable keeps its type; ages stay below AgeMod.                  *)
TypeOK ==
  /\ type \in Flashes
  /\ flash \in [Copies -> Record] /\ ram \in [Copies -> Record] /\ image \in [Copies -> Record]
  /\ smem \in Record /\ bad \in Copies
  /\ phase \in {"off", "read", "check", "erase", "write", "publish", "ready", "failed", "program"}
  /\ spent \in [rot : Nat, boot : Nat, edit : Nat]

(* One copy in flash is always valid: restoring the other (write_to_flash  *)
(* erases before it writes) or programming it, with the power lost or a    *)
(* write failing at any step, never leaves the board without a             *)
(* configuration.                                                          *)
OneCopySurvives == \E c \in Copies : Valid(flash[c])

(* What getbinary_bootconfig returns passes the check of the next boot,    *)
(* whatever was written to age and primaryboot before.                     *)
ImageValid == \A c \in Copies : image[c] # Blank => Valid(image[c])

(* What the driver publishes is valid, each copy as it is in flash or as   *)
(* the boot loader chose it, even if writing the restored copy failed      *)
(* (bootconfig_partition_init).                                            *)
RestoreAgrees ==
  phase = "publish" => /\ \A c \in Copies : Valid(ram[c])
                       /\ \A c \in Copies : ram[c] \in {flash[c], smem}

(* Coming up without the try feature leaves both copies with the same age, *)
(* which, unless it wraps, is larger than any age in flash.                *)
AgesLevel ==
  [][phase = "publish" /\ phase' = "ready" /\ ~TryFeature =>
       /\ ram'[1].age = ram'[2].age
       /\ ram'[1].age # 0 => \A c \in Copies : ram'[1].age > ram[c].age]_vars
=============================================================================
