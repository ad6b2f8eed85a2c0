-------------------------------- MODULE RpmLog --------------------------------
(***************************************************************************)
(* The reader of the RPM's log, drivers/soc/qcom/rpm_log.c.  The RPM, a    *)
(* processor of its own, writes messages into a circular buffer and knows  *)
(* nothing of readers: tail is where it writes next, head its oldest valid *)
(* byte, both count up and roll over.  msm_rpm_log_copy reads the indices, *)
(* copies a message word by word, reads the indices again and drops the    *)
(* message if the RPM has meanwhile overwritten it.                        *)
(*                                                                         *)
(* Every read of a register or of a word is a step, and the RPM may take   *)
(* any number of steps between two.  Indices and lengths are bytes modulo  *)
(* Modulus; a word of the ring is <<message, place>>, place 0 the length   *)
(* word, and Value is what the reader finds there.                         *)
(*                                                                         *)
(* Compared, ResetToTail and NoRecheck are not the code: each is a         *)
(* definition below with one mistake.                                      *)
(***************************************************************************)
EXTENDS Integers, Sequences

CONSTANTS
  Modulus,   \* of the indices and lengths: 2^32
  LogLen,    \* log_len, the size of the ring in bytes
  Is8974,    \* version = VERSION_8974: the length word counts itself
  Starts,    \* where the indices may stand at first
  Lengths,   \* payload lengths of messages
  Payloads,  \* what payload words hold, read as a length
  Counts,    \* what users ask for
  MaxMsgs    \* bound: messages the RPM writes

Sizes ==
  /\ {Modulus, LogLen, MaxMsgs} \subseteq Nat /\ Lengths \cup Payloads \subseteq Nat
  /\ LogLen > 0 /\ LogLen % 4 = 0 /\ Modulus % LogLen = 0
  /\ Starts \subseteq {i \in 0 .. Modulus - 1 : i % 4 = 0}
  /\ \A n \in Lengths : n > 0 /\ n + 7 <= LogLen
ASSUME SizesOK == Sizes

\* Messages take less than a round of the indices, so that each has an index of its own: a
\* reader that is 2^32 bytes behind takes a new message for an old one.
WithinARound == MaxMsgs * LogLen < Modulus
ASSUME BoundOK == WithinARound

VARIABLES
  head, tail, \* MSM_RPM_LOG_HEAD, MSM_RPM_LOG_TAIL
  rpmRing,    \* the words of the log
  msgs,       \* every message the RPM has begun, with its index
  written,    \* words of the last one that are in the ring; 0 between messages
  reader,     \* where the reader is
  h, t,       \* head_idx, tail_idx
  readIdx,    \* read_idx
  msgLen,     \* msg_len
  words,      \* the words copied of the current message
  len, pos,   \* len and pos of the local buffer, len the pos of the copy
  kept,       \* history: what was put in the buffer since the file was opened
  opened,     \* history: the index at which the file was opened
  rolled      \* history: a message was dropped because it was overwritten
rpmVars == <<head, tail, rpmRing, msgs, written>>
copyVars == <<h, t, readIdx, msgLen, words>>
fileVars == <<len, pos, kept, opened, rolled>>
logVars == <<rpmVars, copyVars, fileVars, reader>>

Wrap(n) == n % Modulus
\* PADDED_LENGTH and PRINTED_LENGTH, as unsigned numbers.
Padded(n) == LET m == Wrap(n + 3) IN m - (m % 4)
Printed(n) == Wrap(6 * n + 3)
MaxLen == Printed(LogLen)
MsgSize(n) == Padded(n) + 4

Value(w) ==
  IF w[1] = 0 THEN 0
  ELSE IF w[2] > 0 THEN msgs[w[1]].pay
  ELSE msgs[w[1]].len + (IF Is8974 THEN 4 ELSE 0)
Word(i) == rpmRing[(i % LogLen) \div 4]

---------------------------------------------------------------------------
(* The RPM                                                                 *)

Used == Wrap(tail - head)
Oldest == CHOOSE k \in 1 .. Len(msgs) : msgs[k].at = head

\* It takes up a message, drops old ones until there is room, writes the words, and
\* only then moves the tail.
RpmBegin(n, v) ==
  /\ written = 0 /\ Len(msgs) < MaxMsgs
  /\ msgs' = Append(msgs, [at |-> tail, len |-> n, pay |-> v])
  /\ written' = -1
  /\ UNCHANGED <<head, tail, rpmRing, copyVars, fileVars, reader>>

New == msgs[Len(msgs)]
Room == Used + MsgSize(New.len) <= LogLen

RpmFree ==
  /\ written = -1 /\ ~Room
  /\ head' = Wrap(head + MsgSize(msgs[Oldest].len))
  /\ UNCHANGED <<tail, rpmRing, msgs, written, copyVars, fileVars, reader>>

RpmWrite ==
  LET k == IF written = -1 THEN 0 ELSE written IN
  /\ written # 0 /\ Room /\ 4 * k < MsgSize(New.len)
  /\ rpmRing' = [rpmRing EXCEPT ![((tail + 4 * k) % LogLen) \div 4] = <<Len(msgs), k>>]
  /\ written' = k + 1
  /\ UNCHANGED <<head, tail, msgs, copyVars, fileVars, reader>>

RpmPublish ==
  /\ written # 0 /\ 4 * written = MsgSize(New.len)
  /\ tail' = Wrap(tail + MsgSize(New.len))
  /\ written' = 0
  /\ UNCHANGED <<head, rpmRing, msgs, copyVars, fileVars, reader>>

Rpm == (\E n \in Lengths, v \in Payloads : RpmBegin(n, v)) \/ RpmFree \/ RpmWrite \/ RpmPublish

---------------------------------------------------------------------------
(* msm_rpm_log_copy                                                        *)

Compared(hd, tl, r) == tl > hd /\ tl > r
More(hd, tl, r) == Wrap(tl - hd) > 0 /\ Wrap(tl - r) > 0
Overwritten(hd, tl, r) == Wrap(tl - r) > Wrap(tl - hd)
Again(hd, tl, r) == reader' = IF More(hd, tl, r) THEN "loop" ELSE "copied"

CopyTail ==
  /\ reader = "copy" /\ t' = tail /\ reader' = "copy_head"
  /\ UNCHANGED <<rpmVars, fileVars, h, readIdx, msgLen, words>>
CopyHead ==
  /\ reader = "copy_head" /\ h' = head /\ Again(head, t, readIdx)
  /\ UNCHANGED <<rpmVars, fileVars, t, readIdx, msgLen, words>>
LoopHead ==
  /\ reader = "loop" /\ h' = head /\ reader' = "loop_tail"
  /\ UNCHANGED <<rpmVars, fileVars, t, readIdx, msgLen, words>>

\* A reader left behind goes on at the head.
ResetToTail(hd, tl) == tl
Reset(hd, tl) == hd
LoopTail ==
  /\ reader = "loop_tail" /\ t' = tail
  /\ IF Overwritten(h, tail, readIdx)
     THEN readIdx' = Reset(h, tail) /\ Again(h, tail, readIdx')
     ELSE /\ reader' = IF \A i \in {h, tail, readIdx} : i % 4 = 0 THEN "length" ELSE "copied"
          /\ UNCHANGED readIdx
  /\ UNCHANGED <<rpmVars, fileVars, h, msgLen, words>>

\* The length a message claims, and at most what lies before the tail.
Claimed == LET v == Value(Word(readIdx)) IN IF Is8974 THEN Wrap(v - 4) ELSE v
Left == Wrap(t - readIdx - 4)
Capped == IF Padded(Claimed) > Left THEN Left ELSE Claimed

Fits(n) == Wrap(len + Printed(n)) <= MaxLen
ReadLength ==
  /\ reader = "length"
  /\ msgLen' = Capped /\ words' = <<>>
  /\ reader' = IF Fits(Capped) THEN "word" ELSE "copied"
  /\ UNCHANGED <<rpmVars, fileVars, h, t, readIdx>>

CopyWord ==
  /\ reader = "word" /\ 4 * Len(words) < msgLen
  /\ words' = Append(words, Word(readIdx + 4 + 4 * Len(words)))
  /\ UNCHANGED <<rpmVars, fileVars, h, t, readIdx, msgLen, reader>>

CheckHead ==
  /\ reader = "word" /\ 4 * Len(words) >= msgLen
  /\ h' = head /\ reader' = "check_tail"
  /\ UNCHANGED <<rpmVars, fileVars, t, readIdx, msgLen, words>>

\* The copy ends with the index past the message, kept or not.  scnprintf stops one
\* byte before the end of the buffer.
Fill(n) == LET full == len + 6 * n + 3 IN IF full < MaxLen THEN full ELSE MaxLen - 1
Advanced == Wrap(readIdx + Padded(msgLen) + 4)
NoRecheck == /\ len' = Fill(msgLen)
             /\ kept' = Append(kept, [at |-> readIdx, len |-> msgLen, words |-> words])
             /\ UNCHANGED rolled
KeepOrDrop ==
  IF Overwritten(h, tail, readIdx)
  THEN rolled' = TRUE /\ UNCHANGED <<len, kept>>
  ELSE /\ len' = Fill(msgLen)
       /\ kept' = Append(kept, [at |-> readIdx, len |-> msgLen, words |-> words])
       /\ UNCHANGED rolled
CheckTail ==
  /\ reader = "check_tail" /\ t' = tail
  /\ KeepOrDrop
  /\ readIdx' = Advanced /\ Again(h, tail, readIdx')
  /\ UNCHANGED <<rpmVars, pos, opened, h, msgLen, words>>

Copying == CopyTail \/ CopyHead \/ LoopHead \/ LoopTail \/ ReadLength \/ CopyWord
           \/ CheckHead \/ CheckTail

---------------------------------------------------------------------------
(* The file                                                                *)

OpenLog ==
  /\ reader = "closed" /\ reader' = "user"
  /\ readIdx' = head /\ opened' = head
  /\ len' = 0 /\ pos' = 0 /\ kept' = <<>> /\ rolled' = FALSE
  /\ UNCHANGED <<rpmVars, h, t, msgLen, words>>
Close ==
  /\ reader = "user" /\ reader' = "closed"
  /\ UNCHANGED <<rpmVars, copyVars, fileVars>>

\* A read looks for messages only when the local buffer is used up.
ReadLog ==
  /\ reader = "user"
  /\ IF pos = len
     THEN reader' = "copy" /\ len' = 0 /\ pos' = 0
     ELSE reader' = "copied" /\ UNCHANGED <<len, pos>>
  /\ UNCHANGED <<rpmVars, copyVars, kept, opened, rolled>>

\* With nothing to give, the caller is told so (O_NONBLOCK) or sleeps, and after the
\* sleep copies again or, when a signal came, returns nothing.
Sleep ==
  /\ reader = "copied" /\ len = 0 /\ reader' = "asleep"
  /\ UNCHANGED <<rpmVars, copyVars, fileVars>>
TryAgain ==
  /\ reader = "copied" /\ len = 0 /\ reader' = "user"
  /\ UNCHANGED <<rpmVars, copyVars, fileVars>>
Recheck ==
  /\ reader = "asleep" /\ reader' = "copy"
  /\ UNCHANGED <<rpmVars, copyVars, fileVars>>
Signal ==
  /\ reader = "asleep" /\ reader' = "user"
  /\ UNCHANGED <<rpmVars, copyVars, fileVars>>

Deliver(n) ==
  /\ reader = "copied" /\ len > 0 /\ reader' = "user"
  /\ pos' = IF len - pos < n THEN len ELSE pos + n
  /\ UNCHANGED <<rpmVars, copyVars, len, kept, opened, rolled>>

File == OpenLog \/ Close \/ ReadLog \/ Sleep \/ TryAgain \/ Recheck \/ Signal
        \/ \E n \in Counts : Deliver(n)

---------------------------------------------------------------------------
LogInit ==
  /\ head \in Starts /\ tail = head /\ readIdx = head /\ opened = head
  /\ rpmRing = [i \in 0 .. LogLen \div 4 - 1 |-> <<0, 0>>]
  /\ msgs = <<>> /\ written = 0
  /\ h = 0 /\ t = 0 /\ msgLen = 0 /\ words = <<>>
  /\ len = 0 /\ pos = 0 /\ kept = <<>> /\ rolled = FALSE
  /\ reader = "closed"

LogNext == Rpm \/ Copying \/ File
LogSpec == LogInit /\ [][LogNext]_logVars
\* The reader's thread runs, its sleeps end, unless by a signal, and the RPM finishes the
\* messages that it has begun; it need not begin any.
FairSpec == LogSpec /\ WF_logVars(Copying)
            /\ WF_logVars(Sleep \/ TryAgain \/ \E n \in Counts : Deliver(n))
            /\ WF_logVars(Recheck) /\ WF_logVars(RpmFree \/ RpmWrite \/ RpmPublish)

---------------------------------------------------------------------------
\* How far an index is from where the file was opened.
From(i) == Wrap(i - opened)
Published == {k \in 1 .. Len(msgs) : k < Len(msgs) \/ written = 0}
Sent(e) == {k \in Published : msgs[k].at = e.at}

\* What is kept from the place of a message is that message, every word of it in order
\* and nothing else, although the RPM may write over it at any moment of the copy.
KeptIsWhole ==
  \A j \in 1 .. Len(kept) : \A k \in Sent(kept[j]) :
    /\ kept[j].len = msgs[k].len
    /\ kept[j].words = [i \in 1 .. (Padded(msgs[k].len) \div 4) |-> <<k, i>>]

\* The buffer never repeats a message or goes back in time, also after the reader fell
\* behind and when the indices roll over; and a message that was there while the file is
\* open is passed over only if the RPM has overwritten it, as long as no message was
\* dropped half way.
InOrder ==
  \A j \in 1 .. Len(kept) - 1 :
    From(kept[j].at) + MsgSize(kept[j].len) <= From(kept[j + 1].at)
NothingSkipped ==
  /\ InOrder
  /\ reader # "closed" /\ ~rolled =>
       \A k \in Published :
         From(msgs[k].at) < From(readIdx) =>
           \/ \E j \in 1 .. Len(kept) : kept[j].at = msgs[k].at
           \/ From(msgs[k].at) < From(head)

\* Whatever is given to a user is a message that the RPM wrote: messages are valid both
\* before and after reading.
OnlyMessages == \A j \in 1 .. Len(kept) : Sent(kept[j]) # {}

\* A reader that sleeps while there are messages after its index gets them: it does not
\* sleep until later messages push it on.
Arrives == reader = "asleep" /\ readIdx # tail ~> reader \in {"user", "closed"}
=============================================================================
