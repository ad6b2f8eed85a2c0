---------------------------- MODULE MinidumpDevice ----------------------------
(***************************************************************************)
(* /dev/minidump of drivers/soc/qcom/ctx-save.c, together with Minidump:   *)
(* the system request key makes the device, opening it copies the list     *)
(* into arrays and a queue, reading empties the queue, and closing it      *)
(* removes the device.  The header that users fetch, minidump.hdr, has the *)
(* count of the list as it is then (num_seg) and the arrays as they were   *)
(* made.                                                                   *)
(*                                                                         *)
(* One user has the device open at a time, and the key is pressed again    *)
(* only after it is closed.  The modules that the request adds are added   *)
(* as any other segment.  Left out: total_size, allocations that fail      *)
(* (mini_dump_open then returns with the lock held) and a device that      *)
(* cannot be made.                                                         *)
(***************************************************************************)
EXTENDS Minidump

CONSTANT Frozen  \* TRUE: no segment is added or removed while it is open

VARIABLES
  made,     \* the device exists: dump_major, dump_class
  opened,   \* it is open
  arrays,   \* seg_size, phy_addr, type: the segments they were filled with
  queue,    \* minidump.dump_segments
  got       \* what the user has read since it opened the device
devVars == <<made, opened, arrays, queue, got>>

Listing == {list[i].seg : i \in Valid}

Change ==
  /\ Frozen => ~opened
  /\ Next /\ UNCHANGED devVars

\* sysrq_minidump_handler, do_minidump
DoMinidump ==
  /\ Quiet /\ ~opened /\ ~made
  /\ made' = TRUE
  /\ UNCHANGED <<vars, opened, arrays, queue, got>>

\* The arrays have num_seg places, and those past the list are not filled.
Open ==
  /\ made /\ ~opened /\ (Frozen => Quiet)
  /\ opened' = TRUE
  /\ arrays' = Listing /\ queue' = Listing /\ got' = {}
  /\ UNCHANGED <<vars, made>>

\* Segments are copied in turn until one cannot be; those copied leave the queue.
Read ==
  /\ opened
  /\ \E S \in SUBSET queue :
       /\ got' = got \cup S
       /\ queue' = queue \ S
  /\ UNCHANGED <<vars, made, opened, arrays>>

Release ==
  /\ opened
  /\ queue' = {} /\ arrays' = {} /\ got' = {}
  /\ made' = FALSE /\ opened' = FALSE
  /\ UNCHANGED vars

DeviceInit ==
  /\ Init
  /\ made = FALSE /\ opened = FALSE
  /\ arrays = {} /\ queue = {} /\ got = {}
DeviceNext == Change \/ DoMinidump \/ Open \/ Read \/ Release
DeviceSpec == DeviceInit /\ [][DeviceNext]_<<vars, devVars>>

---------------------------------------------------------------------------
\* While the device is open its header agrees with its arrays: num_seg, which
\* sizes and reads them, is the number of their entries, through every addition and
\* removal before; and what has been read or is left to be read is what they list.
HeaderAgrees ==
  opened =>
    /\ numSeg = Cardinality(arrays)
    /\ got \cup queue = arrays
===============================================================================
