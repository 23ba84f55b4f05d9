----------------------------- MODULE XmodemTrim -----------------------------
(***************************************************************************)
(* What a qodem download does at the EOT (qodem/source/xmodem.c, the loop  *)
(* at eot:): it reads the last byte of the file again and again, and cuts  *)
(* it off while it is a SUB.  Xmodem.tla takes the loop for one step that  *)
(* leaves Trim(file), or for one that never ends; this module runs it over *)
(* the bytes of the file, with the stream position.                        *)
(***************************************************************************)
EXTENDS Integers, Sequences, Padding

CONSTANTS
  Bytes,      \* what a byte may be, Sub among it
  Downloads   \* the files a download may have received, with their padding

ASSUME TrimAssumption ==
  /\ Sub \in Bytes
  /\ Downloads \subseteq Seq(Bytes)

VARIABLES
  received,    \* the file as the blocks left it
  disk,        \* the file
  position,    \* ftell(file)
  last_byte,   \* uninitialized when the loop begins
  complete     \* stats_file_complete_ok() has been called, the ACK is sent

vars == <<received, disk, position, last_byte, complete>>

Size == Len(disk)

\* fseek(file, -1, SEEK_END) and fread(&last_byte, 1, 1, file): neither does
\* anything to an empty file.
ByteRead == IF Size = 0 THEN last_byte ELSE disk[Size]

\* (Slip: the read does not move the stream.)
ReadInPlace == last_byte' = ByteRead /\ UNCHANGED position

ReadLastByte ==
  /\ last_byte' = ByteRead
  /\ position' = IF Size = 0 THEN position ELSE Size

\* (Slip: off by one.)
TruncateTwo ==
  disk' = IF position <= 1 THEN disk ELSE SubSeq(disk, 1, position - 2)

\* ftruncate(fileno(file), filesize - 1), where filesize is the position
\* before the read: after the first round it is one past the end, or the end.
\* It refuses a negative length.
Truncate ==
  disk' = IF position = 0 THEN disk ELSE SubSeq(disk, 1, position - 1)

\* (Slip: one SUB only.)
CutOneSub ==
  /\ ~complete /\ ByteRead = Sub
  /\ ReadLastByte
  /\ Truncate
  /\ complete' = TRUE
  /\ UNCHANGED received

\* last_byte is a SUB: cut it off.
CutSub ==
  /\ ~complete /\ ByteRead = Sub
  /\ ReadLastByte
  /\ Truncate
  /\ UNCHANGED <<received, complete>>

\* last_byte is data: ACK, and the transfer is complete.
Finish ==
  /\ ~complete /\ ByteRead # Sub
  /\ ReadLastByte
  /\ complete' = TRUE
  /\ UNCHANGED <<received, disk>>

Init ==
  /\ received \in Downloads
  /\ disk = received
  /\ position = Len(received)
  /\ last_byte \in Bytes
  /\ complete = FALSE

Next == CutSub \/ Finish

\* The loop is inside one call of xmodem_receive().
Spec == Init /\ [][Next]_vars /\ WF_vars(Next)

-----------------------------------------------------------------------------
HasData == \E i \in DOMAIN received : received[i] # Sub

TypeOK ==
  /\ received \in Downloads /\ disk \in Seq(Bytes)
  /\ position \in Nat /\ last_byte \in Bytes
  /\ complete \in BOOLEAN

\* However far the stream position and the end of the file drift apart while
\* the loop truncates, it never cuts a byte of data and never makes the file
\* longer, so that a crash in the loop leaves the data on disk.
KeepsData ==
  /\ \E n \in 0..Len(received) : disk = SubSeq(received, 1, n)
  /\ Trim(disk) = Trim(received)

\* The file that is reported complete has no padding left.
CompleteIsTrimmed == complete => disk = Trim(received)

\* The loop ends if there is a byte of data to stop it.
LoopEnds == HasData => <>complete

-----------------------------------------------------------------------------
(***************************************************************************)
(* The inductive invariant.  After the first round every round but one in  *)
(* two finds the position one past the end and truncates nothing.          *)
(***************************************************************************)
TrimInv ==
  /\ TypeOK
  /\ disk = SubSeq(received, 1, Size)
  /\ LastData(received) <= Size /\ Size <= Len(received)
  /\ position \in {Size, Size + 1}
  /\ CompleteIsTrimmed
=============================================================================
