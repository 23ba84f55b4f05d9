--------------------------- MODULE BatchTransfer ---------------------------
(***************************************************************************)
(* What a session in which two programs send each other a batch of files   *)
(* promises, with no protocol in it: what is on disk of a file only grows  *)
(* along the file or is thrown away, a file is saved whole, a sender is    *)
(* told OK for a file after it has been saved, and a session that ends     *)
(* well has gone through both batches.  The disks outlive the session.     *)
(* Hydra.tla and Zmodem.tla are shown to implement this specification.     *)
(***************************************************************************)
EXTENDS Naturals, Sequences, SequencesExt

CONSTANTS
  Peers,   \* the two programs
  Batch    \* the files each sends, as sequences of units

VARIABLES
  part,     \* part[p][k]: what p has of the other's k-th file, not yet saved
  saved,    \* saved[p][k]: what p has saved under the name of that file
  result,   \* result[p]: what p has been told of its files, in order
  outcome   \* how the session has ended for p

vars == <<part, saved, result, outcome>>

Other(p) == CHOOSE q \in Peers : q # p
FilesOf(p) == 1 .. Len(Batch[p])
AllSkipped(s) == \A k \in DOMAIN s : s[k] = "SKIP"

Init ==
  /\ part = [p \in Peers |-> [k \in FilesOf(Other(p)) |-> <<>>]]
  /\ saved = [p \in Peers |-> [k \in FilesOf(Other(p)) |-> <<>>]]
  /\ \A p \in Peers : AllSkipped(result[p])
  /\ outcome = [p \in Peers |-> "none"]

Grow(p, k) ==
  /\ outcome[p] = "none"
  /\ part' = [part EXCEPT ![p][k] = part'[p][k]]
  /\ IsStrictPrefix(part[p][k], part'[p][k])
  /\ IsPrefix(part'[p][k], Batch[Other(p)][k])
  /\ UNCHANGED <<saved, result, outcome>>

Discards(p) ==
  \/ part' = part
  \/ \E k \in FilesOf(Other(p)) : part' = [part EXCEPT ![p][k] = <<>>]

Discard(p) ==
  /\ outcome[p] = "none"
  /\ Discards(p)
  /\ UNCHANGED <<saved, result, outcome>>

Save(p, k) ==
  /\ outcome[p] = "none"
  /\ part[p][k] = Batch[Other(p)][k]
  /\ part' = [part EXCEPT ![p][k] = <<>>]
  /\ saved' = [saved EXCEPT ![p][k] = Append(@, Batch[Other(p)][k])]
  /\ UNCHANGED <<result, outcome>>

Report(p) ==
  /\ outcome[p] = "none"
  /\ result' = [result EXCEPT ![p] = result'[p]]
  /\ IsStrictPrefix(result[p], result'[p])
  /\ Len(result'[p]) <= Len(Batch[p])
  /\ \A k \in DOMAIN result'[p] :
       result'[p][k] = "OK" => saved[Other(p)][k] # <<>>
  /\ UNCHANGED <<part, saved, outcome>>

End(p, how) ==
  /\ outcome[p] = "none"
  /\ how = "XFER_OK" => \A q \in Peers : Len(result[q]) = Len(Batch[q])
  /\ outcome' = [outcome EXCEPT ![p] = how]
  /\ Discards(p)
  /\ UNCHANGED <<saved, result>>

NewSession ==
  /\ \A p \in Peers : outcome[p] # "none"
  /\ outcome' = [p \in Peers |-> "none"]
  /\ DOMAIN result' = Peers
  /\ \A p \in Peers : AllSkipped(result'[p])
  /\ UNCHANGED <<part, saved>>

Next ==
  \/ \E p \in Peers : \/ Discard(p)
                      \/ Report(p)
                      \/ \E k \in FilesOf(Other(p)) : Grow(p, k) \/ Save(p, k)
                      \/ \E how \in {"XFER_OK", "XFER_ABORT"} : End(p, how)
  \/ NewSession

Spec == Init /\ [][Next]_vars
=============================================================================
