---------------------------- MODULE FileTransfer ----------------------------
(***************************************************************************)
(* What every file-transfer protocol of qodem promises its user, with no   *)
(* line and no protocol in it: the receiver's file grows block by block as *)
(* a prefix of the sender's, it is saved only when it is complete (with    *)
(* the SUB padding of the tail cut off), the sender reports success only   *)
(* after the receiver has saved, and either side may give up at any time.  *)
(* Xmodem.tla is shown to implement this specification.                    *)
(***************************************************************************)
EXTENDS Naturals, Sequences, Padding

CONSTANT Files  \* the files that may be sent, as sequences of blocks; Sub is
                \* the content of a block that holds nothing but SUB bytes

VARIABLES
  src,       \* the file on the sender's disk, cut into blocks
  dst,       \* the file on the receiver's disk
  sender,    \* what the sender's user has been told
  receiver   \* what the receiver's user has been told

vars == <<src, dst, sender, receiver>>

TypeOK ==
  /\ src \in Files
  /\ sender \in {"busy", "ok", "failed"}
  /\ receiver \in {"busy", "saved", "failed"}

Init ==
  /\ src \in Files
  /\ dst = <<>>
  /\ sender = "busy"
  /\ receiver = "busy"

Deliver ==
  /\ receiver = "busy"
  /\ Len(dst) < Len(src)
  /\ dst' = Append(dst, src[Len(dst) + 1])
  /\ UNCHANGED <<src, sender, receiver>>

Save ==
  /\ receiver = "busy"
  /\ dst = src
  /\ dst' = Trim(src)
  /\ receiver' = "saved"
  /\ UNCHANGED <<src, sender>>

Succeed ==
  /\ sender = "busy"
  /\ receiver = "saved"
  /\ sender' = "ok"
  /\ UNCHANGED <<src, dst, receiver>>

SenderGivesUp ==
  /\ sender = "busy"
  /\ sender' = "failed"
  /\ UNCHANGED <<src, dst, receiver>>

ReceiverGivesUp ==
  /\ receiver = "busy"
  /\ receiver' = "failed"
  /\ UNCHANGED <<src, dst, sender>>

Next == Deliver \/ Save \/ Succeed \/ SenderGivesUp \/ ReceiverGivesUp

Spec == Init /\ [][Next]_vars
=============================================================================
