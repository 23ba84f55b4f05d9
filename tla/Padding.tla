------------------------------- MODULE Padding -------------------------------
(***************************************************************************)
(* The SUB padding at the tail of a file.  Xmodem does not send the size   *)
(* of the file: the sender fills the last block with SUBs, and the         *)
(* receiver cuts every SUB off the end of the file that it saves.  A file  *)
(* is a sequence, of blocks or of bytes.                                   *)
(***************************************************************************)
EXTENDS Naturals, Sequences

CONSTANT Sub  \* the element that is padding when nothing else follows it

\* The place of the last element that is not padding, 0 if there is none.
LastData(f) == CHOOSE m \in 0..Len(f) :
                 /\ m = 0 \/ f[m] # Sub
                 /\ \A i \in (m + 1)..Len(f) : f[i] = Sub

Trim(f) == SubSeq(f, 1, LastData(f))
=============================================================================
