---------------------------- MODULE XmodemProofs ----------------------------
(***************************************************************************)
(* Safety of Xmodem for every file, every bound and every combination of   *)
(* flavors but X_1K_G, proved from the inductive invariant IInv; and the   *)
(* agreement of the flavors, for all of them, from AgreeInv.               *)
(***************************************************************************)
EXTENDS Xmodem, PaddingProofs, SequenceTheorems, TLAPS

-----------------------------------------------------------------------------
(***************************************************************************)
(* What the steps of the protocol do to the two lines, as sequences.       *)
(***************************************************************************)

\* Taking k elements off the front of a line keeps the others in order.
LEMMA RestFacts ==
  ASSUME NEW S, NEW line \in Seq(S), NEW k \in 0..Len(line)
  PROVE  /\ Rest(line, k) \in Seq(S)
         /\ Len(Rest(line, k)) = Len(line) - k
         /\ \A i \in DOMAIN Rest(line, k) :
              i + k \in DOMAIN line /\ Rest(line, k)[i] = line[i + k]
<1>1. \A i \in (k + 1)..Len(line) : line[i] \in S
  OBVIOUS
<1>2. /\ SubSeq(line, k + 1, Len(line)) \in Seq(S)
      /\ Len(SubSeq(line, k + 1, Len(line))) =
           IF k + 1 <= Len(line) THEN Len(line) - (k + 1) + 1 ELSE 0
      /\ \A i \in 1..(Len(line) - (k + 1) + 1) :
           SubSeq(line, k + 1, Len(line))[i] = line[k + 1 + i - 1]
  BY <1>1, SubSeqProperties
<1>3. QED
  BY <1>2 DEF Rest

\* The first k elements of a line are elements of the line.
LEMMA FrontFacts ==
  ASSUME NEW S, NEW line \in Seq(S), NEW k \in 0..Len(line)
  PROVE  /\ SubSeq(line, 1, k) \in Seq(S)
         /\ Len(SubSeq(line, 1, k)) = k
         /\ \A i \in 1..k : SubSeq(line, 1, k)[i] = line[i]
<1>1. \A i \in 1..k : line[i] \in S
  OBVIOUS
<1>2. QED
  BY <1>1, SubSeqProperties

\* Losing one element of a line keeps the others in order.
LEMMA RemoveAtFacts ==
  ASSUME NEW S, NEW line \in Seq(S), NEW j \in DOMAIN line
  PROVE  /\ RemoveAt(line, j) \in Seq(S)
         /\ Len(RemoveAt(line, j)) = Len(line) - 1
         /\ \A i \in DOMAIN RemoveAt(line, j) :
              RemoveAt(line, j)[i] = line[IF i < j THEN i ELSE i + 1]
<1> DEFINE front == SubSeq(line, 1, j - 1)
           back == SubSeq(line, j + 1, Len(line))
<1>1. /\ front \in Seq(S) /\ Len(front) = j - 1
      /\ \A i \in 1..(j - 1) : front[i] = line[i]
  BY FrontFacts, j - 1 \in 0..Len(line)
<1>2. /\ back \in Seq(S) /\ Len(back) = Len(line) - j
      /\ \A i \in DOMAIN back : back[i] = line[i + j]
  BY RestFacts, j \in 0..Len(line) DEF Rest
<1>3. /\ front \o back \in Seq(S)
      /\ Len(front \o back) = Len(front) + Len(back)
      /\ \A i \in 1..(Len(front) + Len(back)) :
           (front \o back)[i] = IF i <= Len(front) THEN front[i] ELSE back[i - Len(front)]
  BY <1>1, <1>2, ConcatProperties
<1>4. RemoveAt(line, j) = front \o back
  BY DEF RemoveAt
<1> HIDE DEF front, back
<1>5. \A i \in 1..(Len(line) - 1) :
        (front \o back)[i] = line[IF i < j THEN i ELSE i + 1]
  <2> TAKE i \in 1..(Len(line) - 1)
  <2>1. CASE i < j
    BY <1>1, <1>2, <1>3, <2>1
  <2>2. CASE ~(i < j)
    <3>1. i - Len(front) \in DOMAIN back
      BY <1>1, <1>2, <2>2
    <3>2. back[i - Len(front)] = line[i - Len(front) + j]
      BY <1>2, <3>1
    <3>3. i - Len(front) + j = i + 1
      BY <1>1
    <3>4. (front \o back)[i] = back[i - Len(front)]
      BY <1>1, <1>2, <1>3, <2>2
    <3> QED
      BY <3>2, <3>3, <3>4, <2>2
  <2> QED
    BY <2>1, <2>2
<1>6. QED
  BY <1>1, <1>2, <1>3, <1>4, <1>5

\* Pieces are well formed, whole and undamaged.
LEMMA PiecesFacts ==
  ASSUME NEW n \in Nat, NEW kind \in BlockKinds \cup {"eot"}
  PROVE  /\ Pieces(n, kind) \in Seq(PieceSet)
         /\ \A i \in DOMAIN Pieces(n, kind) :
              /\ Pieces(n, kind)[i].n = n
              /\ Pieces(n, kind)[i].kind = kind
              /\ Pieces(n, kind)[i].harm = "none"
<1> DEFINE m == Len(Cuts(kind))
<1>1. m \in 1..4
  BY DEF Cuts, BlockKinds
<1> HIDE DEF m
<1>2. \A i \in 1..m : Piece(n, kind, i) \in PieceSet
  <2> TAKE i \in 1..m
  <2>1. i \in 1..4
    BY <1>1
  <2> QED
    BY <2>1 DEF Piece, PieceSet
<1>3. Pieces(n, kind) = [i \in 1..m |-> Piece(n, kind, i)]
  BY DEF Pieces, m
<1>4. QED
  BY <1>1, <1>2, <1>3 DEF Piece

-----------------------------------------------------------------------------
(***************************************************************************)
(* What errors and timeouts do to the state of either program.             *)
(***************************************************************************)

\* The helpers of either side yield a program of that side.
LEMMA SenderHelpers ==
  ASSUME NEW p \in SenderSet, NEW from \in States
  PROVE  /\ Aborted(p) \in SenderSet
         /\ Purging(p, from) \in SenderSet
         /\ WithError(p) \in SenderSet
         /\ WithTimeout(p) \in SenderSet
         /\ ResetTimer(p) \in SenderSet
         /\ Lapse(p) \in SenderSet
<1>1. ASSUME NEW q \in SenderSet PROVE Aborted(q) \in SenderSet
  BY DEF Aborted, SenderSet, States, Outcomes
<1>2. ASSUME NEW q \in SenderSet, NEW s \in States PROVE Purging(q, s) \in SenderSet
  BY DEF Purging, SenderSet, States
<1>3. [p EXCEPT !.errors = @ + 1] \in SenderSet
  BY DEF SenderSet
<1>4. [p EXCEPT !.timeouts = @ + 1, !.errors = @ + 1] \in SenderSet
  <2>1. [p EXCEPT !.timeouts = p.timeouts + 1] \in SenderSet
    BY DEF SenderSet
  <2>2. \A q \in SenderSet : [q EXCEPT !.errors = p.errors + 1] \in SenderSet
    BY DEF SenderSet
  <2> QED
    BY <2>1, <2>2
<1>5. p.state \in States
  BY DEF SenderSet
<1>6. WithError(p) \in SenderSet
  BY <1>1, <1>3 DEF WithError
<1>7. WithTimeout(p) \in SenderSet
  BY <1>1, <1>2, <1>4, <1>5 DEF WithTimeout
<1>8. ResetTimer(p) \in SenderSet
  BY DEF ResetTimer, SenderSet
<1>9. Lapse(p) \in SenderSet
  BY DEF Lapse, SenderSet
<1> QED
  BY <1>1, <1>2, <1>6, <1>7, <1>8, <1>9

LEMMA ReceiverHelpers ==
  ASSUME NEW p \in ReceiverSet, NEW from \in States
  PROVE  /\ Aborted(p) \in ReceiverSet
         /\ Purging(p, from) \in ReceiverSet
         /\ WithError(p) \in ReceiverSet
         /\ WithTimeout(p) \in ReceiverSet
<1>1. ASSUME NEW q \in ReceiverSet PROVE Aborted(q) \in ReceiverSet
  BY DEF Aborted, ReceiverSet, States, Outcomes
<1>2. ASSUME NEW q \in ReceiverSet, NEW s \in States PROVE Purging(q, s) \in ReceiverSet
  BY DEF Purging, ReceiverSet, States
<1>3. [p EXCEPT !.errors = @ + 1] \in ReceiverSet
  BY DEF ReceiverSet
<1>4. [p EXCEPT !.timeouts = @ + 1, !.errors = @ + 1] \in ReceiverSet
  <2>1. [p EXCEPT !.timeouts = p.timeouts + 1] \in ReceiverSet
    BY DEF ReceiverSet
  <2>2. \A q \in ReceiverSet : [q EXCEPT !.errors = p.errors + 1] \in ReceiverSet
    BY SMTT(30) DEF ReceiverSet
  <2> QED
    BY <2>1, <2>2
<1>5. p.state \in States
  BY DEF ReceiverSet
<1>6. WithError(p) \in ReceiverSet
  BY <1>1, <1>3 DEF WithError
<1>7. WithTimeout(p) \in ReceiverSet
  BY <1>1, <1>2, <1>4, <1>5 DEF WithTimeout
<1> QED
  BY <1>1, <1>2, <1>6, <1>7

-----------------------------------------------------------------------------
(***************************************************************************)
(* Type correctness.                                                       *)
(***************************************************************************)

\* What is sent is well typed, and so is what is left on a line.
LEMMA LineTypes ==
  ASSUME TypeOK
  PROVE  /\ \A n, kind : n \in Nat /\ kind \in BlockKinds \cup {"eot"} /\ Sends(n, kind)
              => data' \in Seq(PieceSet)
         /\ \A byte \in ControlBytes : Replies(byte) => reply' \in Seq(ControlBytes)
         /\ \A k \in 0..Len(data) : Rest(data, k) \in Seq(PieceSet)
         /\ \A k \in 0..Len(reply) : Rest(reply, k) \in Seq(ControlBytes)
         /\ \A k \in 0..Len(data) : Collected(k) \in Seq(PieceSet)
<1> USE DEF TypeOK
<1>1. ASSUME NEW n \in Nat, NEW kind \in BlockKinds \cup {"eot"}, Sends(n, kind)
      PROVE  data' \in Seq(PieceSet)
  BY <1>1, PiecesFacts, ConcatProperties DEF Sends
<1>2. ASSUME NEW byte \in ControlBytes, Replies(byte)
      PROVE  reply' \in Seq(ControlBytes)
  BY <1>2, AppendProperties DEF Replies
<1>3. \A k \in 0..Len(data) : Rest(data, k) \in Seq(PieceSet)
  BY RestFacts
<1>4. \A k \in 0..Len(reply) : Rest(reply, k) \in Seq(ControlBytes)
  BY RestFacts
<1>5. rcv.block \in Seq(PieceSet)
  BY DEF ReceiverSet
<1>6. \A k \in 0..Len(data) : Collected(k) \in Seq(PieceSet)
  BY <1>5, FrontFacts, ConcatProperties DEF Collected
<1> QED
  BY <1>1, <1>2, <1>3, <1>4, <1>6

\* The kind of a block of the file is a kind of block.
LEMMA KindSentFacts == \A flavor, n : KindSent(flavor, n) \in BlockKinds
  BY DEF KindSent, BlockKinds

\* A block that is constructed leaves the sender and the line well typed.
LEMMA ConstructTypes ==
  ASSUME TypeOK, NEW p \in SenderSet, ConstructBlock(p)
  PROVE  snd' \in SenderSet /\ data' \in Seq(PieceSet)
<1>1. data' \in Seq(PieceSet)
  <2>1. p.number \in Nat \ {0}
    BY DEF SenderSet
  <2> QED
    BY <2>1, LineTypes, KindSentFacts DEF ConstructBlock
<1>2. snd' \in SenderSet
  <2> DEFINE q == ResetTimer(p)
             s == IF p.number = Len(src) THEN "LAST_BLOCK" ELSE "BLOCK"
  <2>1. q \in SenderSet
    BY SenderHelpers DEF SenderSet
  <2>2. s \in States
    BY DEF States
  <2>3. snd' = [q EXCEPT !.number = @ + 1, !.state = s]
    BY DEF ConstructBlock
  <2> HIDE DEF q, s
  <2>4. [q EXCEPT !.number = q.number + 1] \in SenderSet
    BY <2>1 DEF SenderSet
  <2>5. \A r \in SenderSet : [r EXCEPT !.state = s] \in SenderSet
    BY <2>2 DEF SenderSet
  <2> QED
    BY <2>3, <2>4, <2>5
<1> QED
  BY <1>1, <1>2

\* The sender's steps preserve the types.
LEMMA SenderTypes ==
  ASSUME TypeOK, SenderGo \/ SenderTimeout
  PROVE  TypeOK'
<1> DEFINE Goal == /\ snd' \in SenderSet
                   /\ data' \in Seq(PieceSet)
                   /\ reply' \in Seq(ControlBytes)
                   /\ UNCHANGED <<src, short, file, rcv, faults>>
<1> SUFFICES Goal
  BY DEF TypeOK
<1> USE DEF SenderUnmoved
<1>1. /\ snd \in SenderSet /\ data \in Seq(PieceSet) /\ reply \in Seq(ControlBytes)
      /\ snd.number \in Nat \ {0} /\ snd.state \in States /\ snd.prior \in States
  BY DEF TypeOK, SenderSet
<1>2. {"INIT", "BLOCK", "LAST_BLOCK", "EOT_ACK", "COMPLETE"} \subseteq States
  BY DEF States
<1>3. \A p \in SenderSet, s \in States : [p EXCEPT !.state = s] \in SenderSet
  BY DEF SenderSet
<1>4. \A k \in 0..Len(reply) : Rest(reply, k) \in Seq(ControlBytes)
  BY LineTypes
<1>5. \A p \in SenderSet, from \in States : Garbage(p, from) \in SenderSet
  BY SenderHelpers DEF Garbage
<1>6. ASSUME NEW k \in 1..Len(reply), SenderInput(k) PROVE Goal
  <2>1. CASE SenderCancelled(k)
    BY <1>1, <1>2, <1>4, <2>1, SenderHelpers DEF SenderCancelled
  <2>2. CASE SenderStart(k)
    <3> DEFINE p == [Downgraded(snd, reply[1]) EXCEPT !.state = "BLOCK"]
    <3>1. Downgraded(snd, reply[1]) \in SenderSet
      BY <1>1 DEF Downgraded, SenderSet, Flavors
    <3>2. p \in SenderSet
      BY <1>2, <1>3, <3>1
    <3> HIDE DEF p
    <3>3. \/ ConstructBlock(p)
          \/ snd' = Garbage(p, "BLOCK") /\ UNCHANGED data
      BY <2>2 DEF SenderStart, p
    <3>4. snd' \in SenderSet /\ data' \in Seq(PieceSet)
      BY <1>1, <1>2, <1>5, <3>2, <3>3, ConstructTypes
    <3> QED
      BY <1>4, <2>2, <3>4 DEF SenderStart
  <2>3. CASE SenderIgnore(k)
    BY <1>1, <1>2, <1>4, <2>3, SenderHelpers DEF SenderIgnore
  <2>4. CASE SenderBlock(k)
    BY <1>1, <1>4, <2>4, ConstructTypes DEF SenderBlock
  <2>5. CASE SenderNak(k)
    BY <1>1, <1>4, <1>5, <2>5 DEF SenderNak
  <2>6. CASE SenderDone(k)
    <3>1. [snd EXCEPT !.state = "COMPLETE", !.xfer = "END"] \in SenderSet
      BY <1>1, <1>2 DEF SenderSet, Outcomes
    <3> QED
      BY <1>1, <1>4, <2>6, <3>1 DEF SenderDone
  <2> QED
    BY <1>6, <2>1, <2>2, <2>3, <2>4, <2>5, <2>6 DEF SenderInput
<1>7. ASSUME NEW k \in 0..Len(reply), SenderStream(k) PROVE Goal
  BY <1>1, <1>4, <1>7, ConstructTypes DEF SenderStream
<1>8. \A kind \in BlockKinds \cup {"eot"} :
        Sends(snd.number - 1, kind) => data' \in Seq(PieceSet)
  <2>1. snd.number - 1 \in Nat
    BY <1>1
  <2> QED
    BY <2>1, LineTypes
<1>9. ASSUME NEW k \in 0..Len(reply), SenderEot(k) PROVE Goal
  <2>1. [ResetTimer(snd) EXCEPT !.state = "EOT_ACK"] \in SenderSet
    BY <1>1, <1>2, <1>3, SenderHelpers
  <2> QED
    BY <1>4, <1>8, <1>9, <2>1 DEF SenderEot
<1>10. CASE SenderResend
  <2>1. snd' \in SenderSet
    BY <1>1, <1>3, <1>10, SenderHelpers DEF SenderResend
  <2>2. data' \in Seq(PieceSet)
    BY <1>1, <1>8, <1>10, KindSentFacts DEF SenderResend
  <2> QED
    BY <1>1, <1>10, <2>1, <2>2 DEF SenderResend
<1>11. CASE SenderTimeout
  <2> DEFINE p == ResetTimer(WithTimeout(snd))
  <2>1. p \in SenderSet /\ Purging(p, "BLOCK") \in SenderSet
    <3>1. p \in SenderSet /\ "BLOCK" \in States
      BY <1>1, SenderHelpers DEF States
    <3> QED
      BY <3>1, SenderHelpers
  <2> HIDE DEF p
  <2>2. snd' \in SenderSet
    BY <1>2, <1>3, <1>11, <2>1 DEF SenderTimeout, p
  <2>3. data' \in Seq(PieceSet)
    BY <1>1, <1>8, <1>11 DEF SenderTimeout
  <2> QED
    BY <1>1, <1>11, <2>2, <2>3 DEF SenderTimeout
<1> QED
  BY <1>6, <1>7, <1>9, <1>10, <1>11 DEF SenderGo

\* The receiver's steps preserve the types.
LEMMA ReceiverTypes ==
  ASSUME TypeOK, ReceiverGo \/ FirstBlockTimeout \/ BlockTimeout
  PROVE  TypeOK'
<1> DEFINE Goal == /\ rcv' \in ReceiverSet
                   /\ snd' \in SenderSet
                   /\ data' \in Seq(PieceSet)
                   /\ reply' \in Seq(ControlBytes)
                   /\ UNCHANGED <<src, short, faults>>
<1> SUFFICES Goal
  BY DEF TypeOK
<1> USE DEF ReceiverUnmoved
<1>1. /\ snd \in SenderSet /\ rcv \in ReceiverSet
      /\ data \in Seq(PieceSet) /\ reply \in Seq(ControlBytes)
      /\ rcv.state \in States /\ rcv.prior \in States /\ rcv.first \in ControlBytes
  BY DEF TypeOK, ReceiverSet, ControlBytes
<1>2. /\ {"INIT", "BLOCK", "FIRST_BLOCK", "COMPLETE", "TRIM_LOOP", "ASSERT"} \subseteq States
      /\ {"NAK", "ACK", "CAN"} \subseteq ControlBytes
  BY DEF States, ControlBytes, FirstBytes
<1>3. \A p \in ReceiverSet, s \in States : [p EXCEPT !.state = s] \in ReceiverSet
  BY DEF ReceiverSet
<1>4. \A p \in ReceiverSet, block \in Seq(PieceSet) : [p EXCEPT !.block = block] \in ReceiverSet
  BY DEF ReceiverSet
<1>5. \A k \in 0..Len(data) : Rest(data, k) \in Seq(PieceSet) /\ Collected(k) \in Seq(PieceSet)
  BY LineTypes
<1>6. \A byte \in ControlBytes : Replies(byte) => reply' \in Seq(ControlBytes)
  BY LineTypes
<1>7. <<>> \in Seq(PieceSet)
  OBVIOUS
<1>8. \A block \in Seq(PieceSet) : Waiting(rcv, block) \in ReceiverSet
  BY <1>1, <1>2 DEF Waiting, ReceiverSet
<1>9. \A block \in Seq(PieceSet) : Accepted(block) => rcv' \in ReceiverSet
  <2>1. Waiting(rcv, <<>>) \in ReceiverSet
    BY <1>7, <1>8
  <2>2. \A p \in ReceiverSet : [p EXCEPT !.number = @ + 1] \in ReceiverSet
    BY DEF ReceiverSet
  <2> QED
    BY <2>1, <2>2 DEF Accepted
<1>10. ASSUME NEW k \in 1..Len(data), ReceiverInput(k) PROVE Goal
  <2>1. CASE Overrun(k)
    <3>1. Purging(rcv, "BLOCK") \in ReceiverSet
      BY <1>1, <1>2, ReceiverHelpers
    <3> QED
      BY <1>1, <1>5, <2>1, <3>1 DEF Overrun
  <2>2. CASE Eot(k)
    <3>1. [rcv EXCEPT !.block = <<>>, !.state = "COMPLETE", !.xfer = "END"] \in ReceiverSet
      BY <1>1, <1>2, <1>7 DEF ReceiverSet, Outcomes
    <3>2. [rcv EXCEPT !.block = <<>>, !.state = "TRIM_LOOP"] \in ReceiverSet
      BY <1>1, <1>2, <1>3, <1>4, <1>7
    <3> QED
      BY <1>1, <1>2, <1>5, <1>6, <2>2, <3>1, <3>2 DEF Eot
  <2>3. CASE Partial(k)
    BY <1>1, <1>5, <1>8, <2>3 DEF Partial
  <2>4. CASE GoodBlock(k)
    BY <1>1, <1>2, <1>5, <1>6, <1>9, <2>4 DEF GoodBlock
  <2>5. CASE BadBlock(k)
    <3> DEFINE p == WithError(rcv)
    <3>1. p \in ReceiverSet
      BY <1>1, ReceiverHelpers
    <3>2. [p EXCEPT !.block = <<>>] \in ReceiverSet
      BY <1>4, <1>7, <3>1
    <3> DEFINE q == [p EXCEPT !.block = <<>>]
    <3> HIDE DEF q
    <3>3. Purging(q, "BLOCK") \in ReceiverSet
      BY <1>2, <3>2, ReceiverHelpers DEF q
    <3>4. rcv' = p \/ rcv' = Purging(q, "BLOCK")
      BY <2>5 DEF BadBlock, q
    <3> QED
      BY <1>1, <1>5, <2>5, <3>1, <3>3, <3>4 DEF BadBlock
  <2>6. CASE ReceiverPurge(k)
    BY <1>1, <1>5, <2>6 DEF ReceiverPurge
  <2>7. CASE StreamPartial(k)
    BY <1>1, <1>5, <1>8, <2>7 DEF StreamPartial
  <2>8. CASE StreamBlock(k)
    <3>1. [Aborted(rcv) EXCEPT !.block = <<>>] \in ReceiverSet
      BY <1>1, <1>4, <1>7, ReceiverHelpers
    <3>2. Collected(k) \in Seq(PieceSet) /\ Rest(data, k) \in Seq(PieceSet)
      BY <1>5
    <3>3. Accepted(Collected(k)) \/ rcv' = [Aborted(rcv) EXCEPT !.block = <<>>]
      BY <2>8 DEF StreamBlock
    <3>4. rcv' \in ReceiverSet
      BY <1>9, <3>1, <3>2, <3>3
    <3> QED
      BY <1>1, <2>8, <3>2, <3>4 DEF StreamBlock
  <2> QED
    BY <1>10, <2>1, <2>2, <2>3, <2>4, <2>5, <2>6, <2>7, <2>8 DEF ReceiverInput
<1>11. ASSUME NEW k \in 0..Len(data), ReceiverInit(k) PROVE Goal
  BY <1>1, <1>2, <1>3, <1>5, <1>6, <1>11 DEF ReceiverInit
<1>12. CASE StreamAssert
  BY <1>1, <1>2, <1>3, <1>12 DEF StreamAssert
<1>13. CASE ReceiverNak
  BY <1>1, <1>2, <1>3, <1>6, <1>13 DEF ReceiverNak
<1>14. CASE FirstBlockTimeout
  <2> DEFINE p == WithError([rcv EXCEPT !.timeouts = @ + 1])
  <2>1. [rcv EXCEPT !.timeouts = @ + 1] \in ReceiverSet
    BY <1>1, SMTT(30) DEF ReceiverSet
  <2>2. p \in ReceiverSet
    BY <1>1, <2>1, ReceiverHelpers
  <2> HIDE DEF p
  <2>3. [p EXCEPT !.state = "BLOCK", !.prior = "BLOCK", !.flavor = "X_NORMAL"] \in ReceiverSet
    BY <1>2, <2>2 DEF ReceiverSet, Flavors
  <2>4. rcv' \in ReceiverSet /\ reply' \in Seq(ControlBytes)
    BY <1>1, <1>2, <1>6, <1>14, <2>2, <2>3 DEF FirstBlockTimeout, p
  <2> QED
    BY <1>1, <1>14, <2>4 DEF FirstBlockTimeout
<1>15. CASE BlockTimeout
  <2> DEFINE p == WithTimeout(rcv)
  <2>1. p \in ReceiverSet
    BY <1>1, ReceiverHelpers
  <2> HIDE DEF p
  <2>2. rcv' \in ReceiverSet /\ reply' \in Seq(ControlBytes)
    BY <1>1, <1>2, <1>3, <1>6, <1>15, <2>1 DEF BlockTimeout, p
  <2>3. snd' \in SenderSet
    BY <1>1, <1>15, SenderHelpers DEF BlockTimeout
  <2> QED
    BY <1>1, <1>15, <2>2, <2>3 DEF BlockTimeout
<1> QED
  BY <1>10, <1>11, <1>12, <1>13, <1>14, <1>15 DEF ReceiverGo

\* Every step preserves the types.
LEMMA TypeStep == TypeOK /\ [Next]_vars => TypeOK'
<1> SUFFICES ASSUME TypeOK, [Next]_vars PROVE TypeOK'
  OBVIOUS
<1>1. /\ snd \in SenderSet /\ rcv \in ReceiverSet /\ faults \in 0..MaxFaults
      /\ data \in Seq(PieceSet) /\ reply \in Seq(ControlBytes)
  BY DEF TypeOK
<1>2. CASE SenderEscape
  <2>1. snd' \in SenderSet
    BY <1>1, <1>2 DEF SenderEscape, SenderSet, Outcomes
  <2> QED
    BY <1>2, <2>1 DEF SenderEscape, TypeOK
<1>3. CASE ReceiverEscape
  <2>1. rcv' \in ReceiverSet
    BY <1>1, <1>3 DEF ReceiverEscape, ReceiverSet, Outcomes
  <2> QED
    BY <1>3, <2>1 DEF ReceiverEscape, TypeOK
<1>4. CASE Drain
  <2>1. data' \in Seq(PieceSet) /\ reply' \in Seq(ControlBytes)
    <3>1. <<>> \in Seq(PieceSet) /\ <<>> \in Seq(ControlBytes)
      BY EmptySeq
    <3> QED
      BY <1>1, <1>4, <3>1, Zenon DEF Drain
  <2> QED
    BY <1>1, <1>4, <2>1 DEF Drain, TypeOK
<1>5. CASE Faults
  <2>0. MaxFaults \in Nat
    BY XmodemAssumption
  <2>1. \A kind : LineFault(kind) => /\ faults' \in 0..MaxFaults
                                   /\ UNCHANGED <<src, short, file, snd, rcv>>
    BY <1>1, <2>0 DEF LineFault
  <2>2. ASSUME NEW i \in DOMAIN data, LoseData(i) PROVE TypeOK'
    <3>1. data' \in Seq(PieceSet)
      BY <1>1, <2>2, RemoveAtFacts DEF LoseData
    <3> QED
      BY <2>1, <2>2, <3>1 DEF LoseData, TypeOK
  <2>3. ASSUME NEW i \in DOMAIN data, DamageData(i) PROVE TypeOK'
    <3>1. PICK harm \in {"full", "half"} : data' = [data EXCEPT ![i].harm = harm]
      BY <2>3 DEF DamageData
    <3>2. data[i] \in PieceSet
      BY <1>1
    <3>3. [data[i] EXCEPT !.harm = harm] \in PieceSet
      BY <3>2 DEF PieceSet
    <3>4. data' = [data EXCEPT ![i] = [data[i] EXCEPT !.harm = harm]]
      BY <3>1
    <3>5. data' \in Seq(PieceSet)
      BY <1>1, <3>3, <3>4, ExceptSeq
    <3> QED
      BY <2>1, <2>3, <3>5 DEF DamageData, TypeOK
  <2>4. ASSUME NEW i \in DOMAIN reply, LoseReply(i) PROVE TypeOK'
    <3>1. reply' \in Seq(ControlBytes)
      BY <1>1, <2>4, RemoveAtFacts DEF LoseReply
    <3> QED
      BY <2>1, <2>4, <3>1 DEF LoseReply, TypeOK
  <2>5. ASSUME NEW i \in DOMAIN reply, NoiseInReply(i) PROVE TypeOK'
    <3>1. reply' \in Seq(ControlBytes)
      BY <1>1, <2>5 DEF NoiseInReply, ControlBytes
    <3> QED
      BY <2>1, <2>5, <3>1 DEF NoiseInReply, TypeOK
  <2> QED
    BY <1>5, <2>2, <2>3, <2>4, <2>5 DEF Faults
<1>6. CASE UNCHANGED vars
  BY <1>6 DEF vars, TypeOK
<1> QED
  BY <1>2, <1>3, <1>4, <1>5, <1>6, SenderTypes, ReceiverTypes DEF Next, Timeouts

\* The initial state has the types.
LEMMA TypeInit == Init => TypeOK
<1> SUFFICES ASSUME Init PROVE TypeOK
  OBVIOUS
<1>1. \A flavor \in Flavors : FirstByte(flavor) \in FirstBytes
  BY DEF Flavors, FirstByte, FirstBytes
<1>2. \A flavor \in Flavors : SenderStarted(flavor) \in SenderSet
  BY <1>1 DEF SenderStarted, SenderSet, States, Outcomes
<1>3. \A flavor \in Flavors : ReceiverStarted(flavor) \in ReceiverSet
  BY <1>1 DEF ReceiverStarted, ReceiverSet, States, Outcomes
<1>4. snd \in SenderSet /\ rcv \in ReceiverSet
  BY <1>2, <1>3, XmodemAssumption DEF Init
<1>5. src \in Files /\ short \in BOOLEAN
  BY Zenon, XmodemAssumption DEF Init
<1>6. MaxFaults \in Nat
  BY XmodemAssumption
<1>7. faults \in 0..MaxFaults /\ data \in Seq(PieceSet) /\ reply \in Seq(ControlBytes)
  BY <1>6 DEF Init
<1> QED
  BY <1>4, <1>5, <1>7 DEF TypeOK

\* The static variables of either program keep their ranges for ever.
THEOREM TypeCorrect == Spec => []TypeOK
  BY TypeInit, TypeStep, PTL DEF Spec

-----------------------------------------------------------------------------
(***************************************************************************)
(* Fields the helpers keep.                                                *)
(***************************************************************************)

\* Errors and timeouts of the sender stop the transfer or leave its purpose.
LEMMA SenderErrors ==
  ASSUME NEW p \in SenderSet
  PROVE  /\ WithError(p).number = p.number /\ WithError(p).flavor = p.flavor
         /\ \/ WithError(p).xfer = "ABORT"
            \/ /\ WithError(p).xfer = p.xfer
               /\ WithError(p).state = p.state /\ WithError(p).prior = p.prior
         /\ WithTimeout(p).number = p.number /\ WithTimeout(p).flavor = p.flavor
         /\ \/ WithTimeout(p).xfer = "ABORT"
            \/ /\ WithTimeout(p).xfer = p.xfer
               /\ WithTimeout(p).state = "PURGE_INPUT" /\ WithTimeout(p).prior = p.state
<1>1. \A q \in SenderSet : /\ Aborted(q).number = q.number /\ Aborted(q).flavor = q.flavor
                           /\ Aborted(q).xfer = "ABORT"
  BY DEF Aborted, SenderSet
<1>2. \A q \in SenderSet, s \in States :
        /\ Purging(q, s).number = q.number /\ Purging(q, s).flavor = q.flavor
        /\ Purging(q, s).xfer = q.xfer
        /\ Purging(q, s).state = "PURGE_INPUT" /\ Purging(q, s).prior = s
  BY DEF Purging, SenderSet
<1>3. /\ [p EXCEPT !.errors = @ + 1] \in SenderSet
      /\ [p EXCEPT !.timeouts = @ + 1, !.errors = @ + 1] \in SenderSet
  <2>1. [p EXCEPT !.timeouts = p.timeouts + 1] \in SenderSet
    BY SMTT(30) DEF SenderSet
  <2>2. \A q \in SenderSet : [q EXCEPT !.errors = p.errors + 1] \in SenderSet
    BY DEF SenderSet
  <2> QED
    BY <2>1, <2>2
<1>4. p.state \in States
  BY DEF SenderSet
<1>5. /\ WithError(p).number = p.number /\ WithError(p).flavor = p.flavor
      /\ \/ WithError(p).xfer = "ABORT"
         \/ /\ WithError(p).xfer = p.xfer
            /\ WithError(p).state = p.state /\ WithError(p).prior = p.prior
  <2> DEFINE q == [p EXCEPT !.errors = @ + 1]
  <2>1. /\ q.number = p.number /\ q.flavor = p.flavor /\ q.xfer = p.xfer
        /\ q.state = p.state /\ q.prior = p.prior
    BY DEF SenderSet
  <2>2. WithError(p) = IF q.errors >= ErrorsMax THEN Aborted(q) ELSE q
    BY DEF WithError
  <2>3. q \in SenderSet
    BY <1>3
  <2> HIDE DEF q
  <2> QED
    BY <1>1, <2>1, <2>2, <2>3
<1>6. /\ WithTimeout(p).number = p.number /\ WithTimeout(p).flavor = p.flavor
      /\ \/ WithTimeout(p).xfer = "ABORT"
         \/ /\ WithTimeout(p).xfer = p.xfer
            /\ WithTimeout(p).state = "PURGE_INPUT" /\ WithTimeout(p).prior = p.state
  <2> DEFINE q == [p EXCEPT !.timeouts = @ + 1, !.errors = @ + 1]
  <2>1. q.number = p.number /\ q.flavor = p.flavor /\ q.xfer = p.xfer
    BY DEF SenderSet
  <2>2. WithTimeout(p) = IF q.timeouts >= TimeoutMax THEN Aborted(q) ELSE Purging(q, p.state)
    BY DEF WithTimeout
  <2>3. q \in SenderSet
    BY <1>3
  <2> HIDE DEF q
  <2> QED
    BY <1>1, <1>2, <1>4, <2>1, <2>2, <2>3
<1> QED
  BY <1>5, <1>6

\* Errors and timeouts of the receiver stop the transfer or leave its purpose and its block.
LEMMA ReceiverErrors ==
  ASSUME NEW p \in ReceiverSet
  PROVE  /\ WithError(p).number = p.number /\ WithError(p).flavor = p.flavor
         /\ WithError(p).block = p.block
         /\ \/ WithError(p).xfer = "ABORT" /\ WithError(p).state = "ABORT"
            \/ /\ WithError(p).xfer = p.xfer
               /\ WithError(p).state = p.state /\ WithError(p).prior = p.prior
         /\ WithTimeout(p).number = p.number /\ WithTimeout(p).flavor = p.flavor
         /\ WithTimeout(p).block = p.block
         /\ \/ WithTimeout(p).xfer = "ABORT" /\ WithTimeout(p).state = "ABORT"
            \/ /\ WithTimeout(p).xfer = p.xfer
               /\ WithTimeout(p).state = "PURGE_INPUT" /\ WithTimeout(p).prior = p.state
<1>1. \A q \in ReceiverSet : /\ Aborted(q).number = q.number /\ Aborted(q).flavor = q.flavor
                           /\ Aborted(q).xfer = "ABORT" /\ Aborted(q).block = q.block
                             /\ Aborted(q).state = "ABORT"
  BY DEF Aborted, ReceiverSet
<1>2. \A q \in ReceiverSet, s \in States :
        /\ Purging(q, s).number = q.number /\ Purging(q, s).flavor = q.flavor
        /\ Purging(q, s).xfer = q.xfer /\ Purging(q, s).block = q.block
        /\ Purging(q, s).state = "PURGE_INPUT" /\ Purging(q, s).prior = s
  BY DEF Purging, ReceiverSet
<1>3. /\ [p EXCEPT !.errors = @ + 1] \in ReceiverSet
      /\ [p EXCEPT !.timeouts = @ + 1, !.errors = @ + 1] \in ReceiverSet
  <2>1. [p EXCEPT !.timeouts = p.timeouts + 1] \in ReceiverSet
    BY SMTT(30) DEF ReceiverSet
  <2>2. \A q \in ReceiverSet : [q EXCEPT !.errors = p.errors + 1] \in ReceiverSet
    BY DEF ReceiverSet
  <2> QED
    BY <2>1, <2>2
<1>4. p.state \in States
  BY DEF ReceiverSet
<1>5. /\ WithError(p).number = p.number /\ WithError(p).flavor = p.flavor
      /\ WithError(p).block = p.block
      /\ \/ WithError(p).xfer = "ABORT" /\ WithError(p).state = "ABORT"
         \/ /\ WithError(p).xfer = p.xfer
            /\ WithError(p).state = p.state /\ WithError(p).prior = p.prior
  <2> DEFINE q == [p EXCEPT !.errors = @ + 1]
  <2>1. /\ q.number = p.number /\ q.flavor = p.flavor /\ q.block = p.block /\ q.xfer = p.xfer
        /\ q.state = p.state /\ q.prior = p.prior
    BY DEF ReceiverSet
  <2>2. WithError(p) = IF q.errors >= ErrorsMax THEN Aborted(q) ELSE q
    BY DEF WithError
  <2>3. q \in ReceiverSet
    BY <1>3
  <2> HIDE DEF q
  <2> QED
    BY <1>1, <2>1, <2>2, <2>3
<1>6. /\ WithTimeout(p).number = p.number /\ WithTimeout(p).flavor = p.flavor
      /\ WithTimeout(p).block = p.block
      /\ \/ WithTimeout(p).xfer = "ABORT" /\ WithTimeout(p).state = "ABORT"
         \/ /\ WithTimeout(p).xfer = p.xfer
            /\ WithTimeout(p).state = "PURGE_INPUT" /\ WithTimeout(p).prior = p.state
  <2> DEFINE q == [p EXCEPT !.timeouts = @ + 1, !.errors = @ + 1]
  <2>1. q.number = p.number /\ q.flavor = p.flavor /\ q.block = p.block /\ q.xfer = p.xfer
    BY DEF ReceiverSet
  <2>2. WithTimeout(p) = IF q.timeouts >= TimeoutMax THEN Aborted(q) ELSE Purging(q, p.state)
    BY DEF WithTimeout
  <2>3. q \in ReceiverSet
    BY <1>3
  <2> HIDE DEF q
  <2> QED
    BY <1>1, <1>2, <1>4, <2>1, <2>2, <2>3
<1> QED
  BY <1>5, <1>6

\* A constructed block is the next one, and after the last one the sender
\* waits for its ACK in LAST_BLOCK.
LEMMA ConstructFacts ==
  ASSUME NEW p \in SenderSet, ConstructBlock(p)
  PROVE  /\ snd'.number = p.number + 1
         /\ snd'.flavor = p.flavor /\ snd'.xfer = p.xfer
         /\ snd'.state = IF p.number = Len(src) THEN "LAST_BLOCK" ELSE "BLOCK"
         /\ \E kind \in BlockKinds \cup {"eot"} : Sends(p.number, kind) /\ kind # "eot"
<1> DEFINE q == ResetTimer(p)
           s == IF p.number = Len(src) THEN "LAST_BLOCK" ELSE "BLOCK"
<1>1. /\ q \in SenderSet
      /\ q.number = p.number /\ q.flavor = p.flavor /\ q.xfer = p.xfer
  BY DEF ResetTimer, SenderSet
<1>2. snd' = [q EXCEPT !.number = @ + 1, !.state = s]
  BY DEF ConstructBlock
<1>3. Sends(p.number, KindSent(p.flavor, p.number))
  BY DEF ConstructBlock
<1>4. KindSent(p.flavor, p.number) \in BlockKinds /\ "eot" \notin BlockKinds
  BY KindSentFacts DEF BlockKinds
<1> HIDE DEF q, s
<1>5. /\ snd'.number = q.number + 1 /\ snd'.flavor = q.flavor
      /\ snd'.xfer = q.xfer /\ snd'.state = s
  BY <1>1, <1>2 DEF SenderSet
<1> QED
  BY <1>1, <1>3, <1>4, <1>5 DEF s

-----------------------------------------------------------------------------
(***************************************************************************)
(* The sender's steps preserve the invariant.                              *)
(***************************************************************************)

\* The line holds what it held, and perhaps a block or EOT behind it.
LEMMA DataAfterSender ==
  ASSUME IInv, TypeOK', Running(snd), UNCHANGED <<src, rcv>>,
         snd'.number \in {snd.number, snd.number + 1}, snd'.number <= rcv.number + 1,
         Running(snd') /\ snd.state = "EOT_ACK" => snd'.state = "EOT_ACK",
         \/ UNCHANGED data
         \/ \E kind \in BlockKinds \cup {"eot"} :
              /\ Sends(snd'.number - 1, kind)
              /\ kind = "eot" => /\ Taken = Len(src)
                                 /\ Running(snd') => snd'.state = "EOT_ACK"
  PROVE  DataInv'
<1> DEFINE eotDue == Taken = Len(src) /\ (Running(snd') => snd'.state = "EOT_ACK")
           r == rcv.number
           m == snd'.number - 1
           Fits(p, top) == /\ p.n \in {r - 1, r} /\ p.n <= top
                           /\ p.harm # "half"
                           /\ p.kind = "eot" => eotDue
<1>1. /\ data \in Seq(PieceSet) /\ data' \in Seq(PieceSet)
      /\ snd.number \in Nat \ {0} /\ r \in Nat \ {0} /\ snd'.number \in Nat \ {0}
      /\ \A i \in 1..Len(data) : data[i].n \in Nat
  <2>1. /\ data \in Seq(PieceSet) /\ data' \in Seq(PieceSet)
        /\ snd \in SenderSet /\ rcv \in ReceiverSet /\ snd' \in SenderSet
    BY DEF IInv, TypeOK
  <2>2. snd.number \in Nat \ {0} /\ r \in Nat \ {0} /\ snd'.number \in Nat \ {0}
    BY <2>1 DEF SenderSet, ReceiverSet
  <2>3. \A i \in 1..Len(data) : data[i].n \in Nat
    <3>1. \A p \in PieceSet : p.n \in Nat
      BY DEF PieceSet
    <3>2. \A i \in 1..Len(data) : data[i] \in PieceSet
      BY <2>1
    <3> QED
      BY <3>1, <3>2
  <2> QED
    BY <2>1, <2>2, <2>3
<1>2. r <= snd.number
  BY <1>1 DEF IInv, CountInv, Sent, Taken
<1>3. m \in Nat /\ m \in {r - 1, r} /\ m >= snd.number - 1
  BY <1>1, <1>2
<1>4. /\ \A i \in 1..Len(data) : Fits(data[i], snd.number - 1)
      /\ \A i, j \in 1..Len(data) : i <= j => data[i].n <= data[j].n
  BY <1>1 DEF IInv, DataInv, Sent, Taken
<1>5. \A p : Fits(p, snd.number - 1) /\ p.n \in Nat => Fits(p, m)
  BY <1>1, <1>3
<1>6. /\ \A i \in 1..Len(data') : Fits(data'[i], m)
      /\ \A i, j \in 1..Len(data') : i <= j => data'[i].n <= data'[j].n
      => DataInv'
  <2>1. DOMAIN data' = 1..Len(data')
    BY <1>1
  <2>2. rcv' = rcv /\ src' = src
    OBVIOUS
  <2>3. Taken' = r - 1 /\ Taken' + 1 = r /\ Sent' = m
    BY <1>1, <2>2 DEF Taken, Sent
  <2>4. Taken' = Len(src') <=> Taken = Len(src)
    BY <2>2 DEF Taken
  <2> HIDE DEF r, m
  <2> QED
    BY <2>1, <2>3, <2>4 DEF DataInv
<1>7. CASE UNCHANGED data
  <2>1. \A i \in 1..Len(data) : Fits(data[i], m)
    BY <1>1, <1>4, <1>5
  <2> HIDE DEF Fits
  <2> QED
    BY <1>4, <1>6, <1>7, <2>1
<1>8. ASSUME NEW kind \in BlockKinds \cup {"eot"}, Sends(m, kind), kind = "eot" => eotDue
      PROVE  DataInv'
  <2> DEFINE new == Pieces(m, kind)
  <2>1. /\ new \in Seq(PieceSet)
        /\ \A i \in DOMAIN new : new[i].n = m /\ new[i].kind = kind /\ new[i].harm = "none"
    BY <1>3, PiecesFacts
  <2>2. data' = data \o new
    BY <1>8 DEF Sends
  <2> HIDE DEF m, new, eotDue, r
  <2>3. /\ Len(data') = Len(data) + Len(new)
        /\ \A i \in 1..Len(data') : data'[i] = IF i <= Len(data) THEN data[i] ELSE new[i - Len(data)]
    BY <1>1, <2>1, <2>2, ConcatProperties
  <2>4. \A i \in 1..Len(data') : i > Len(data) => i - Len(data) \in DOMAIN new
    BY <1>1, <2>1, <2>3
  <2>5. \A i \in 1..Len(data') :
          \/ i \in 1..Len(data) /\ data'[i] = data[i]
          \/ i > Len(data) /\ data'[i].n = m /\ data'[i].kind = kind /\ data'[i].harm = "none"
    BY <1>1, <2>1, <2>3, <2>4
  <2>6. \A i \in 1..Len(data') : Fits(data'[i], m)
    <3> TAKE i \in 1..Len(data')
    <3>1. CASE i \in 1..Len(data) /\ data'[i] = data[i]
      BY <1>1, <1>4, <1>5, <3>1
    <3>2. CASE data'[i].n = m /\ data'[i].kind = kind /\ data'[i].harm = "none"
      BY <1>3, <1>8, <3>2
    <3> QED
      BY <2>5, <3>1, <3>2
  <2>7. \A i, j \in 1..Len(data') : i <= j => data'[i].n <= data'[j].n
    <3> TAKE i, j \in 1..Len(data')
    <3> SUFFICES ASSUME i <= j PROVE data'[i].n <= data'[j].n
      OBVIOUS
    <3>1. CASE j \in 1..Len(data) /\ data'[j] = data[j]
      BY <1>1, <1>4, <2>5, <3>1
    <3>2. CASE data'[j].n = m
      BY <1>3, <2>6, <3>2
    <3> QED
      BY <2>5, <3>1, <3>2
  <2> HIDE DEF Fits
  <2> QED
    BY <1>6, <2>6, <2>7
<1> QED
  BY <1>7, <1>8

\* What is left of the control bytes needs no more than what there was.
LEMMA ReplyAfterSender ==
  ASSUME IInv, UNCHANGED rcv, Running(snd),
         NEW k \in 0..Len(reply), UNCHANGED reply \/ reply' = Rest(reply, k),
         Running(snd') => /\ snd'.number = snd.number
                          /\ snd'.state = "EOT_ACK" <=> snd.state = "EOT_ACK"
  PROVE  ReplyInv'
<1>1. reply \in Seq(ControlBytes)
  BY DEF IInv, TypeOK
<1>2. \A i \in DOMAIN reply : reply[i] = "ACK" =>
        /\ \A j \in DOMAIN reply : reply[j] = "ACK" => j = i
        /\ IF snd.state = "EOT_ACK" THEN rcv.xfer = "END" ELSE Sent > 0 /\ Taken = Sent
  BY DEF IInv, ReplyInv
<1>3. CASE UNCHANGED reply
  BY <1>2, <1>3 DEF ReplyInv, Sent, Taken
<1>4. CASE reply' = Rest(reply, k)
  <2>1. /\ reply' \in Seq(ControlBytes)
        /\ \A i \in DOMAIN reply' : i + k \in DOMAIN reply /\ reply'[i] = reply[i + k]
    BY <1>1, <1>4, RestFacts
  <2>2. \A i \in DOMAIN reply' : i \in Int
    BY <2>1
  <2>3. \A i, j \in DOMAIN reply' : reply'[i] = "ACK" /\ reply'[j] = "ACK" => j = i
    BY <1>2, <2>1, <2>2
  <2>4. \A i \in DOMAIN reply' : reply'[i] = "ACK" =>
          IF snd.state = "EOT_ACK" THEN rcv.xfer = "END" ELSE Sent > 0 /\ Taken = Sent
    BY <1>2, <2>1
  <2> QED
    BY <2>3, <2>4 DEF ReplyInv, Sent, Taken
<1> QED
  BY <1>3, <1>4

\* Taking the only ACK leaves none.
LEMMA AckTaken ==
  ASSUME IInv, Running(snd), NEW k \in 1..Len(reply), reply[1] = "ACK",
         reply' = Rest(reply, k)
  PROVE  ReplyInv'
<1>1. reply \in Seq(ControlBytes) /\ 1 \in DOMAIN reply
  BY DEF IInv, TypeOK
<1>2. \A j \in DOMAIN reply : reply[j] = "ACK" => j = 1
  BY <1>1 DEF IInv, ReplyInv
<1>3. /\ reply' \in Seq(ControlBytes)
      /\ \A i \in DOMAIN reply' : i + k \in DOMAIN reply /\ reply'[i] = reply[i + k]
  BY <1>1, RestFacts
<1>4. \A i \in DOMAIN reply' : i \in Nat \ {0}
  BY <1>3
<1>5. \A i \in DOMAIN reply' : reply'[i] # "ACK"
  BY <1>2, <1>3, <1>4
<1> QED
  BY <1>5 DEF ReplyInv

\* Before the first block is constructed no ACK is under way.
LEMMA NoAckTaken ==
  ASSUME IInv, Running(snd), Sent = 0, snd.state # "EOT_ACK",
         NEW k \in 1..Len(reply), reply' = Rest(reply, k)
  PROVE  ReplyInv'
<1>1. reply \in Seq(ControlBytes)
  BY DEF IInv, TypeOK
<1>2. \A j \in DOMAIN reply : reply[j] # "ACK"
  BY DEF IInv, ReplyInv
<1>3. \A i \in DOMAIN reply' : i + k \in DOMAIN reply /\ reply'[i] = reply[i + k]
  BY <1>1, RestFacts
<1> QED
  BY <1>2, <1>3 DEF ReplyInv

\* A step that constructs nothing and keeps the sender's purpose.
LEMMA SenderStays ==
  ASSUME IInv, TypeOK', Running(snd), SenderUnmoved,
         snd'.number = snd.number, snd'.flavor = snd.flavor,
         \/ snd'.xfer = "ABORT"
         \/ /\ Running(snd') /\ Purpose(snd') = Purpose(snd)
            /\ snd'.state = "PURGE_INPUT" => snd'.prior # "EOT_ACK"
            /\ snd'.state = "EOT_ACK" <=> snd.state = "EOT_ACK",
         NEW k \in 0..Len(reply), UNCHANGED reply \/ reply' = Rest(reply, k),
         \/ UNCHANGED data
         \/ \E kind \in BlockKinds \cup {"eot"} :
              Sends(snd.number - 1, kind) /\ (kind = "eot" => snd.state = "EOT_ACK")
  PROVE  IInv'
<1> USE DEF SenderUnmoved
<1>1. /\ snd.number \in Nat \ {0} /\ rcv.number \in Nat \ {0}
      /\ snd.number <= rcv.number + 1
  <2>1. snd.number \in Nat \ {0} /\ rcv.number \in Nat \ {0}
    BY DEF IInv, TypeOK, SenderSet, ReceiverSet
  <2> QED
    BY <2>1 DEF IInv, CountInv, Sent, Taken
<1>2. snd.state = "EOT_ACK" => Taken = Len(src)
  BY DEF IInv, SenderInv, Purpose
<1>3. snd'.xfer = "ABORT" => ~Running(snd')
  BY DEF Running
<1>4. DataInv'
  BY <1>1, <1>2, <1>3, DataAfterSender
<1>5. ReplyInv'
  BY <1>3, ReplyAfterSender
<1>6. FlavorInv' /\ CountInv'
  BY DEF IInv, FlavorInv, CountInv, Sent, Taken
<1>7. ReceiverInv'
  BY DEF IInv, ReceiverInv, Saved, Taken
<1>8. SenderInv'
  <2>1. Sent' = Sent /\ Taken' = Taken /\ Len(src') = Len(src)
    BY DEF Sent, Taken
  <2>2. snd'.xfer # "END"
    BY DEF Running
  <2>3. CASE ~Running(snd')
    BY <2>2, <2>3 DEF SenderInv
  <2>4. CASE Running(snd')
    <3>1. /\ Purpose(snd') = Purpose(snd)
          /\ snd'.state = "PURGE_INPUT" => snd'.prior # "EOT_ACK"
      BY <1>3, <2>4
    <3>2. SenderInv
      BY DEF IInv
    <3> QED
      BY <2>1, <2>2, <3>1, <3>2 DEF SenderInv
  <2> QED
    BY <2>3, <2>4
<1> QED
  BY <1>4, <1>5, <1>6, <1>7, <1>8 DEF IInv

\* A step that constructs the next block, once the last one is on disk.
LEMMA SenderConstructs ==
  ASSUME IInv, TypeOK', Running(snd), SenderUnmoved, ReplyInv',
         NEW p \in SenderSet, ConstructBlock(p),
         p.number = snd.number, p.flavor # "X_1K_G", p.xfer = "TRANSFER",
         Sent = Taken, Sent < Len(src), snd.state # "EOT_ACK"
  PROVE  IInv'
<1> USE DEF SenderUnmoved
<1>1. /\ snd'.number = snd.number + 1
      /\ snd'.flavor = p.flavor /\ snd'.xfer = "TRANSFER"
      /\ snd'.state = IF snd.number = Len(src) THEN "LAST_BLOCK" ELSE "BLOCK"
      /\ \E kind \in BlockKinds \cup {"eot"} : Sends(snd.number, kind) /\ kind # "eot"
  BY ConstructFacts
<1>2. /\ snd.number \in Nat \ {0} /\ rcv.number \in Nat \ {0}
      /\ snd.number = rcv.number /\ snd.number <= Len(src) /\ Len(src) \in Nat
  <2>1. snd.number \in Nat \ {0} /\ rcv.number \in Nat \ {0}
    BY DEF IInv, TypeOK, SenderSet, ReceiverSet
  <2>2. Len(src) \in Nat
    BY XmodemAssumption DEF IInv, TypeOK
  <2> QED
    BY <2>1, <2>2 DEF Sent, Taken
<1>3. DataInv'
  <2>1. snd'.number - 1 = snd.number
    BY <1>1, <1>2
  <2> QED
    BY <1>1, <1>2, <2>1, DataAfterSender
<1>4. FlavorInv' /\ CountInv'
  BY <1>1, <1>2 DEF IInv, FlavorInv, CountInv, Sent, Taken
<1>5. ReceiverInv'
  BY DEF IInv, ReceiverInv, Saved, Taken
<1>6. SenderInv'
  BY <1>1, <1>2 DEF SenderInv, Purpose, Sent, Taken
<1> QED
  BY <1>3, <1>4, <1>5, <1>6 DEF IInv

\* Every step of the sender preserves the invariant.
LEMMA SenderSafe ==
  ASSUME IInv, SenderGo \/ SenderTimeout
  PROVE  IInv'
<1>1. TypeOK'
  BY SenderTypes DEF IInv
<1>2. /\ snd \in SenderSet /\ snd.flavor # "X_1K_G"
      /\ snd.number \in Nat \ {0} /\ rcv.number \in Nat \ {0}
      /\ Len(src) \in Nat \ {0}
      /\ snd.state \in States /\ snd.prior \in States
  <2>1. snd \in SenderSet /\ rcv \in ReceiverSet /\ snd.flavor # "X_1K_G" /\ src \in Files
    BY DEF IInv, TypeOK, FlavorInv
  <2> QED
    BY <2>1, XmodemAssumption DEF SenderSet, ReceiverSet
<1>3. \A p \in SenderSet :
        /\ ResetTimer(p).number = p.number /\ ResetTimer(p).flavor = p.flavor
        /\ ResetTimer(p).xfer = p.xfer /\ ResetTimer(p).state = p.state
        /\ ResetTimer(p).prior = p.prior /\ ResetTimer(p) \in SenderSet
  BY DEF ResetTimer, SenderSet
<1>4. \A p \in SenderSet, s \in States :
        /\ Purging(p, s).number = p.number /\ Purging(p, s).flavor = p.flavor
        /\ Purging(p, s).xfer = p.xfer /\ Purging(p, s) \in SenderSet
        /\ Purging(p, s).state = "PURGE_INPUT" /\ Purging(p, s).prior = s
  BY SenderHelpers DEF Purging, SenderSet
<1>5. \A p \in SenderSet, s \in States :
        /\ Garbage(p, s).number = p.number /\ Garbage(p, s).flavor = p.flavor
        /\ \/ Garbage(p, s).xfer = "ABORT"
           \/ /\ Garbage(p, s).xfer = p.xfer
              /\ Garbage(p, s).state = "PURGE_INPUT" /\ Garbage(p, s).prior = s
  BY <1>4, SenderErrors DEF Garbage
<1>6. Running(snd) =>
        /\ Purpose(snd) \in {"INIT", "BLOCK", "LAST_BLOCK", "EOT_ACK"}
        /\ snd.state = "PURGE_INPUT" => snd.prior # "EOT_ACK"
        /\ snd.state = "INIT" => Sent = 0
        /\ snd.state = "BLOCK" => Sent < Len(src)
        /\ snd.state = "LAST_BLOCK" => Sent = Len(src)
        /\ snd.state = "EOT_ACK" => Sent = Len(src) /\ Taken = Len(src)
  BY DEF IInv, SenderInv, Purpose
<1>7. ASSUME NEW k \in 1..Len(reply), reply[1] = "ACK", Running(snd)
      PROVE  IF snd.state = "EOT_ACK" THEN rcv.xfer = "END" ELSE Sent > 0 /\ Taken = Sent
  <2>1. reply \in Seq(ControlBytes) /\ 1 \in DOMAIN reply
    BY <1>7 DEF IInv, TypeOK
  <2> QED
    BY <1>7, <2>1 DEF IInv, ReplyInv
<1>8. {"INIT", "BLOCK", "LAST_BLOCK", "EOT_ACK"} \subseteq States
  BY DEF States
<1>9. ASSUME NEW k \in 1..Len(reply), SenderCancelled(k) PROVE IInv'
  <2>1. /\ snd'.number = snd.number /\ snd'.flavor = snd.flavor /\ snd'.xfer = "ABORT"
    BY <1>2, <1>9 DEF SenderCancelled, Aborted, SenderSet
  <2> QED
    BY <1>1, <1>9, <2>1, SenderStays DEF SenderCancelled, SenderTurn
<1>10. ASSUME NEW k \in 1..Len(reply), SenderStart(k) PROVE IInv'
  <2> DEFINE p == [Downgraded(snd, reply[1]) EXCEPT !.state = "BLOCK"]
  <2>1. /\ Running(snd) /\ snd.state = "INIT" /\ snd.xfer = "TRANSFER"
        /\ SenderUnmoved /\ reply' = Rest(reply, k)
        /\ \/ ConstructBlock(p)
           \/ snd' = Garbage(p, "BLOCK") /\ UNCHANGED data
    BY <1>10 DEF SenderStart, SenderTurn, Running
  <2>2. /\ Downgraded(snd, reply[1]) \in SenderSet
        /\ Downgraded(snd, reply[1]).number = snd.number
        /\ Downgraded(snd, reply[1]).xfer = snd.xfer
        /\ Downgraded(snd, reply[1]).flavor # "X_1K_G"
    BY <1>2 DEF Downgraded, SenderSet, Flavors
  <2>3. /\ p \in SenderSet /\ p.number = snd.number /\ p.xfer = "TRANSFER"
        /\ p.flavor # "X_1K_G"
    BY <2>1, <2>2 DEF SenderSet, States
  <2> HIDE DEF p
  <2>4. Sent = 0 /\ Taken = 0 /\ snd.number = 1 /\ rcv.number = 1
    BY <1>2, <1>6, <2>1 DEF IInv, CountInv, Sent, Taken
  <2>5. ReplyInv'
    BY <2>1, <2>4, NoAckTaken
  <2>6. CASE ConstructBlock(p)
    BY <1>1, <1>2, <2>1, <2>3, <2>4, <2>5, <2>6, SenderConstructs
  <2>7. CASE snd' = Garbage(p, "BLOCK") /\ UNCHANGED data
    <3>1. /\ snd'.number = snd.number /\ snd'.flavor # "X_1K_G"
          /\ \/ snd'.xfer = "ABORT"
             \/ /\ snd'.xfer = "TRANSFER"
                /\ snd'.state = "PURGE_INPUT" /\ snd'.prior = "BLOCK"
      BY <1>5, <1>8, <2>3, <2>7
    <3>2. DataInv'
      BY <1>1, <1>2, <2>1, <2>4, <2>7, <3>1, DataAfterSender DEF SenderUnmoved
    <3>3. FlavorInv' /\ CountInv'
      BY <2>1, <3>1 DEF IInv, FlavorInv, CountInv, Sent, Taken, SenderUnmoved
    <3>4. ReceiverInv'
      BY <2>1 DEF IInv, ReceiverInv, Saved, Taken, SenderUnmoved
    <3>5. SenderInv'
      BY <1>2, <2>1, <2>4, <3>1 DEF SenderInv, Purpose, Running, Sent, SenderUnmoved
    <3> QED
      BY <1>1, <2>5, <3>2, <3>3, <3>4, <3>5 DEF IInv
  <2> QED
    BY <2>1, <2>6, <2>7
<1>11. ASSUME NEW k \in 1..Len(reply), SenderIgnore(k) PROVE IInv'
  <2>1. /\ snd'.number = snd.number /\ snd'.flavor = snd.flavor /\ snd'.xfer = snd.xfer
        /\ snd'.state = snd.state /\ snd'.prior = snd.prior
    BY <1>2, <1>3, <1>11 DEF SenderIgnore
  <2>2. /\ Running(snd') /\ Purpose(snd') = Purpose(snd)
        /\ snd'.state = "PURGE_INPUT" => snd'.prior # "EOT_ACK"
    BY <1>6, <1>11, <2>1 DEF SenderIgnore, SenderTurn, Running, Purpose
  <2> QED
    BY <1>1, <1>11, <2>1, <2>2, SenderStays DEF SenderIgnore, SenderTurn
<1>12. ASSUME NEW k \in 1..Len(reply), SenderBlock(k) PROVE IInv'
  <2>1. ReplyInv' /\ Sent = Taken /\ Sent < Len(src) /\ snd.xfer = "TRANSFER"
    BY <1>6, <1>7, <1>12, AckTaken DEF SenderBlock, SenderTurn, Running
  <2> QED
    BY <1>1, <1>2, <1>12, <2>1, SenderConstructs DEF SenderBlock, SenderTurn
<1>13. ASSUME NEW k \in 1..Len(reply), SenderNak(k) PROVE IInv'
  <2>1. /\ Running(snd) /\ snd.state \in {"BLOCK", "LAST_BLOCK"}
        /\ snd' = Garbage(snd, snd.state)
        /\ reply' = Rest(reply, k) /\ UNCHANGED data /\ SenderUnmoved
    BY <1>13 DEF SenderNak, SenderTurn
  <2>2. /\ snd'.number = snd.number /\ snd'.flavor = snd.flavor
        /\ \/ snd'.xfer = "ABORT"
           \/ /\ Running(snd') /\ Purpose(snd') = Purpose(snd)
              /\ snd'.state = "PURGE_INPUT" => snd'.prior # "EOT_ACK"
              /\ snd'.state = "EOT_ACK" <=> snd.state = "EOT_ACK"
    BY <1>2, <1>5, <2>1 DEF Running, Purpose
  <2> QED
    BY <1>1, <2>1, <2>2, SenderStays
<1>14. ASSUME NEW k \in 1..Len(reply), SenderDone(k) PROVE IInv'
  <2>1. /\ snd'.number = snd.number /\ snd'.flavor = snd.flavor /\ snd'.xfer = "END"
    BY <1>2, <1>14 DEF SenderDone, SenderSet
  <2>2. ~Running(snd') /\ rcv.xfer = "END"
    BY <1>7, <1>14, <2>1 DEF Running, SenderDone, SenderTurn
  <2>3. DataInv'
    <3>1. snd.number <= rcv.number + 1
      BY <1>2 DEF IInv, CountInv, Sent, Taken
    <3> QED
      BY <1>1, <1>2, <1>14, <2>1, <2>2, <3>1, DataAfterSender
      DEF SenderDone, SenderTurn, SenderUnmoved
  <2>4. FlavorInv' /\ CountInv'
    BY <1>14, <2>1 DEF IInv, FlavorInv, CountInv, Sent, Taken, SenderDone, SenderUnmoved
  <2>5. ReceiverInv'
    BY <1>14 DEF IInv, ReceiverInv, Saved, Taken, SenderDone, SenderUnmoved
  <2>6. SenderInv' /\ ReplyInv'
    BY <1>14, <2>2 DEF SenderInv, ReplyInv, SenderDone, SenderUnmoved
  <2> QED
    BY <1>1, <2>3, <2>4, <2>5, <2>6 DEF IInv
<1>15. ASSUME NEW k \in 0..Len(reply), SenderEot(k) PROVE IInv'
  <2>1. /\ Running(snd) /\ snd.state = "LAST_BLOCK" /\ k = 1 /\ reply[1] = "ACK"
        /\ Sends(snd.number - 1, "eot") /\ reply' = Rest(reply, k) /\ SenderUnmoved
        /\ snd' = [ResetTimer(snd) EXCEPT !.state = "EOT_ACK"]
    BY <1>2, <1>15 DEF SenderEot, SenderTurn
  <2>2. /\ snd'.number = snd.number /\ snd'.flavor = snd.flavor /\ snd'.xfer = snd.xfer
        /\ snd'.state = "EOT_ACK"
    <3> DEFINE q == ResetTimer(snd)
    <3>1. /\ q \in SenderSet /\ q.number = snd.number /\ q.flavor = snd.flavor
          /\ q.xfer = snd.xfer
      BY <1>2, <1>3
    <3> HIDE DEF q
    <3>2. snd' = [q EXCEPT !.state = "EOT_ACK"]
      BY <2>1 DEF q
    <3> QED
      BY <3>1, <3>2 DEF SenderSet
  <2>3. Sent = Len(src) /\ Taken = Len(src)
    BY <1>6, <1>7, <2>1
  <2>4. ReplyInv'
    BY <2>1, AckTaken
  <2>5. DataInv'
    <3>1. snd.number <= rcv.number + 1
      BY <1>2 DEF IInv, CountInv, Sent, Taken
    <3>2. "eot" \in BlockKinds \cup {"eot"}
      OBVIOUS
    <3> QED
      BY <1>1, <1>2, <2>1, <2>2, <2>3, <3>1, <3>2, DataAfterSender DEF SenderUnmoved
  <2>6. FlavorInv' /\ CountInv'
    BY <2>1, <2>2 DEF IInv, FlavorInv, CountInv, Sent, Taken, SenderUnmoved
  <2>7. ReceiverInv'
    BY <2>1 DEF IInv, ReceiverInv, Saved, Taken, SenderUnmoved
  <2>8. SenderInv'
    BY <2>1, <2>2, <2>3 DEF SenderInv, Purpose, Running, Sent, Taken, SenderUnmoved
  <2> QED
    BY <1>1, <2>4, <2>5, <2>6, <2>7, <2>8 DEF IInv
<1>16. CASE SenderResend
  <2>1. /\ Running(snd) /\ snd.state = "PURGE_INPUT"
        /\ snd' = [ResetTimer(snd) EXCEPT !.state = snd.prior]
        /\ UNCHANGED reply /\ SenderUnmoved
        /\ \/ UNCHANGED data
           \/ Sends(snd.number - 1, KindSent(snd.flavor, snd.number - 1))
    BY <1>16 DEF SenderResend, SenderTurn
  <2>2. /\ snd'.number = snd.number /\ snd'.flavor = snd.flavor /\ snd'.xfer = snd.xfer
        /\ snd'.state = snd.prior
    <3> DEFINE q == ResetTimer(snd)
    <3>1. /\ q \in SenderSet /\ q.number = snd.number /\ q.flavor = snd.flavor
          /\ q.xfer = snd.xfer
      BY <1>2, <1>3
    <3> HIDE DEF q
    <3>2. snd' = [q EXCEPT !.state = snd.prior]
      BY <2>1 DEF q
    <3> QED
      BY <3>1, <3>2 DEF SenderSet
  <2>3. snd.prior \in {"INIT", "BLOCK", "LAST_BLOCK"}
    BY <1>6, <2>1 DEF Purpose
  <2>4. /\ Running(snd') /\ Purpose(snd') = Purpose(snd) /\ snd'.state # "PURGE_INPUT"
        /\ snd'.state # "EOT_ACK"
    BY <2>1, <2>2, <2>3 DEF Running, Purpose
  <2>5. \/ UNCHANGED data
        \/ \E kind \in BlockKinds \cup {"eot"} :
             Sends(snd.number - 1, kind) /\ (kind = "eot" => snd.state = "EOT_ACK")
    <3>1. KindSent(snd.flavor, snd.number - 1) \in BlockKinds /\ "eot" \notin BlockKinds
      BY KindSentFacts DEF BlockKinds
    <3> QED
      BY <2>1, <3>1
  <2>6. 0 \in 0..Len(reply)
    <3>1. reply \in Seq(ControlBytes)
      BY DEF IInv, TypeOK
    <3> QED
      BY <3>1
  <2> QED
    BY <1>1, <2>1, <2>2, <2>4, <2>5, <2>6, SenderStays
<1>17. CASE SenderTimeout
  <2> DEFINE q == WithTimeout(snd)
  <2>1. /\ q \in SenderSet /\ q.number = snd.number /\ q.flavor = snd.flavor
        /\ \/ q.xfer = "ABORT"
           \/ q.xfer = snd.xfer /\ q.state = "PURGE_INPUT" /\ q.prior = snd.state
    BY <1>2, SenderErrors, SenderHelpers
  <2> HIDE DEF q
  <2> DEFINE p == ResetTimer(q)
  <2>2. /\ p \in SenderSet /\ p.number = snd.number /\ p.flavor = snd.flavor
        /\ \/ p.xfer = "ABORT"
           \/ p.xfer = snd.xfer /\ p.state = "PURGE_INPUT" /\ p.prior = snd.state
    BY <1>3, <2>1
  <2>3. /\ Running(snd) /\ snd.state \in {"INIT", "BLOCK", "LAST_BLOCK", "EOT_ACK"}
        /\ UNCHANGED reply /\ SenderUnmoved
        /\ IF snd.state = "EOT_ACK"
           THEN /\ Sends(snd.number - 1, "eot")
                /\ snd' = IF Running(p) THEN [p EXCEPT !.state = "EOT_ACK"] ELSE p
           ELSE /\ snd' = IF snd.state = "BLOCK" THEN Purging(p, "BLOCK") ELSE p
                /\ UNCHANGED data
    BY <1>17 DEF SenderTimeout, SenderTurn, q
  <2> HIDE DEF p
  <2>4. /\ snd'.number = snd.number /\ snd'.flavor = snd.flavor
        /\ \/ snd'.xfer = "ABORT"
           \/ /\ Running(snd') /\ Purpose(snd') = Purpose(snd)
              /\ snd'.state = "PURGE_INPUT" => snd'.prior # "EOT_ACK"
              /\ snd'.state = "EOT_ACK" <=> snd.state = "EOT_ACK"
    <3>1. CASE snd.state = "EOT_ACK" /\ Running(p)
      <4>1. snd' = [p EXCEPT !.state = "EOT_ACK"]
        BY <2>3, <3>1
      <4>2. /\ snd'.number = p.number /\ snd'.flavor = p.flavor /\ snd'.xfer = p.xfer
            /\ snd'.state = "EOT_ACK"
        BY <2>2, <4>1 DEF SenderSet
      <4> QED
        BY <2>2, <2>3, <3>1, <4>2 DEF Running, Purpose
    <3>2. CASE snd.state = "BLOCK"
      <4>1. snd' = Purging(p, "BLOCK")
        BY <2>3, <3>2
      <4>2. /\ snd'.number = p.number /\ snd'.flavor = p.flavor /\ snd'.xfer = p.xfer
            /\ snd'.state = "PURGE_INPUT" /\ snd'.prior = "BLOCK"
        BY <2>2, <4>1 DEF Purging, SenderSet, States
      <4> QED
        BY <2>2, <2>3, <3>2, <4>2 DEF Running, Purpose
    <3>3. CASE snd.state # "BLOCK" /\ ~(snd.state = "EOT_ACK" /\ Running(p))
      <4>1. snd' = p
        BY <2>3, <3>3
      <4> QED
        BY <2>2, <2>3, <3>3, <4>1 DEF Running, Purpose
    <3> QED
      BY <3>1, <3>2, <3>3
  <2>5. \/ UNCHANGED data
        \/ \E kind \in BlockKinds \cup {"eot"} :
             Sends(snd.number - 1, kind) /\ (kind = "eot" => snd.state = "EOT_ACK")
    BY <2>3
  <2>6. 0 \in 0..Len(reply)
    <3>1. reply \in Seq(ControlBytes)
      BY DEF IInv, TypeOK
    <3> QED
      BY <3>1
  <2> QED
    BY <1>1, <2>3, <2>4, <2>5, <2>6, SenderStays
<1>18. ASSUME NEW k \in 0..Len(reply), SenderStream(k) PROVE FALSE
  BY <1>2, <1>18 DEF SenderStream
<1> QED
  BY <1>9, <1>10, <1>11, <1>12, <1>13, <1>14, <1>15, <1>16, <1>17, <1>18
  DEF SenderGo, SenderInput

-----------------------------------------------------------------------------
(***************************************************************************)
(* The receiver's steps preserve the invariant.                            *)
(***************************************************************************)

\* Two successive blocks never have the same number on the line.
LEMMA NumbersDiffer ==
  ASSUME NEW r \in Nat
  PROVE  r % SeqCount # (r + 1) % SeqCount
<1> SUFFICES ASSUME r % SeqCount = (r + 1) % SeqCount PROVE FALSE
  OBVIOUS
<1>1. SeqCount \in Nat /\ SeqCount >= 2
  BY XmodemAssumption
<1>2. \A n \in Int : n = SeqCount * (n \div SeqCount) + (n % SeqCount)
  <2> TAKE n \in Int
  <2> QED
    BY <1>1
<1> DEFINE p == r \div SeqCount
           q == (r + 1) \div SeqCount
           m == r % SeqCount
<1>3. p \in Int /\ q \in Int /\ m \in Int
  BY <1>1
<1>4. r = SeqCount * p + m /\ r + 1 = SeqCount * q + m
  BY <1>2
<1> HIDE DEF p, q, m
<1>5. SeqCount * q - SeqCount * p = 1
  BY <1>1, <1>3, <1>4
<1>6. SeqCount * (q - p) = 1
  BY <1>1, <1>3, <1>5
<1>7. q - p >= 1 => SeqCount * (q - p) >= SeqCount
  BY <1>1, <1>3
<1>8. q - p <= 0 => SeqCount * (q - p) <= 0
  BY <1>1, <1>3
<1> QED
  BY <1>1, <1>3, <1>6, <1>7, <1>8

\* What is collected is undamaged in half, and has the head of the line in it.
LEMMA CollectedFacts ==
  ASSUME IInv, NEW k \in 0..Len(data)
  PROVE  /\ Collected(k) \in Seq(PieceSet)
         /\ Len(Collected(k)) = Len(rcv.block) + k
         /\ \A i \in DOMAIN Collected(k) : Collected(k)[i].harm # "half"
         /\ k > 0 => /\ Len(rcv.block) + 1 \in DOMAIN Collected(k)
                     /\ Collected(k)[Len(rcv.block) + 1] = data[1]
<1> DEFINE b == rcv.block
           front == SubSeq(data, 1, k)
<1>1. b \in Seq(PieceSet) /\ data \in Seq(PieceSet)
  BY DEF IInv, TypeOK, ReceiverSet
<1>2. \A i \in DOMAIN b : b[i].harm # "half"
  BY DEF IInv, ReceiverInv
<1>3. \A i \in DOMAIN data : data[i].harm # "half"
  BY DEF IInv, DataInv
<1>4. /\ front \in Seq(PieceSet) /\ Len(front) = k
      /\ \A i \in 1..k : front[i] = data[i]
  BY <1>1, FrontFacts
<1>5. Collected(k) = b \o front
  BY DEF Collected
<1> HIDE DEF b, front
<1>6. /\ b \o front \in Seq(PieceSet)
      /\ Len(b \o front) = Len(b) + k
      /\ \A i \in 1..(Len(b) + k) :
           (b \o front)[i] = IF i <= Len(b) THEN b[i] ELSE front[i - Len(b)]
  BY <1>1, <1>4, ConcatProperties
<1>7. \A i \in 1..(Len(b) + k) : (b \o front)[i].harm # "half"
  <2> TAKE i \in 1..(Len(b) + k)
  <2>1. CASE i <= Len(b)
    <3>1. i \in DOMAIN b
      BY <1>1, <2>1
    <3>2. (b \o front)[i] = b[i]
      BY <1>6, <2>1
    <3> QED
      BY <1>2, <3>1, <3>2
  <2>2. CASE ~(i <= Len(b))
    <3>1. i - Len(b) \in 1..k /\ i - Len(b) \in DOMAIN data
      BY <1>1, <2>2
    <3>2. (b \o front)[i] = data[i - Len(b)]
      BY <1>1, <1>4, <1>6, <2>2, <3>1
    <3> QED
      BY <1>3, <3>1, <3>2
  <2> QED
    BY <2>1, <2>2
<1>8. k > 0 => Len(b) + 1 \in 1..(Len(b) + k) /\ (b \o front)[Len(b) + 1] = data[1]
  BY <1>1, <1>4, <1>6
<1> QED
  BY <1>5, <1>6, <1>7, <1>8 DEF b

\* verify_block() passes only copies of one block, the one expected.
LEMMA VerifiedFacts ==
  ASSUME NEW block, NEW flavor, NEW number, Verified(block, flavor, number)
  PROVE  /\ block[1].n % SeqCount = number % SeqCount
         /\ \A i \in DOMAIN block : /\ block[i].n = block[1].n
                                    /\ block[i].harm = "none" \/ block[i].harm = "half"
  BY DEF Verified, Verdict, SumPasses

\* A step that takes no block and does not end the transfer well.
LEMMA ReceiverStays ==
  ASSUME IInv, TypeOK', ReceiverTurn, UNCHANGED <<src, short, file>>,
         snd'.number = snd.number, snd'.flavor = snd.flavor, snd'.state = snd.state,
         snd'.prior = snd.prior, snd'.xfer = snd.xfer,
         rcv'.number = rcv.number, rcv'.flavor # "X_1K_G",
         rcv'.xfer \in {"TRANSFER", "ABORT"}, rcv'.state \notin {"TRIM_LOOP", "ASSERT"},
         Running(rcv') => rcv'.state \in {"INIT", "FIRST_BLOCK", "BLOCK", "PURGE_INPUT"},
         rcv'.state = "PURGE_INPUT" => rcv'.prior = "BLOCK",
         \A i \in DOMAIN rcv'.block : rcv'.block[i].harm # "half",
         NEW k \in 0..Len(data), UNCHANGED data \/ data' = Rest(data, k),
         \/ UNCHANGED reply
         \/ \E byte \in ControlBytes \ {"ACK"} : Replies(byte)
  PROVE  IInv' /\ UNCHANGED file /\ ~Saved'
<1>1. Sent' = Sent /\ Taken' = Taken /\ (Running(snd') <=> Running(snd))
  BY DEF Sent, Taken, Running
<1>2. data \in Seq(PieceSet) /\ reply \in Seq(ControlBytes)
  BY DEF IInv, TypeOK
<1>3. Purpose(snd') = Purpose(snd)
  BY DEF Purpose
<1>4. FlavorInv' /\ CountInv'
  BY <1>1 DEF IInv, FlavorInv, CountInv
<1>5. rcv.xfer = "TRANSFER" /\ snd.xfer # "END" /\ ~Saved
  BY DEF IInv, SenderInv, ReceiverTurn, Running, Saved
<1>6. SenderInv'
  <2>1. SenderInv
    BY DEF IInv
  <2> QED
    BY <1>1, <1>3, <1>5, <2>1 DEF SenderInv
<1>7. ReceiverInv'
  <2>1. file = SubSeq(src, 1, Taken)
    BY <1>5 DEF IInv, ReceiverInv
  <2>2. ~Saved'
    BY DEF Saved
  <2> QED
    BY <1>1, <2>1, <2>2 DEF ReceiverInv
<1>8. DataInv'
  <2>1. CASE UNCHANGED data
    BY <1>1, <2>1 DEF IInv, DataInv
  <2>2. CASE data' = Rest(data, k)
    <3>1. \A i \in DOMAIN data' : i + k \in DOMAIN data /\ data'[i] = data[i + k] /\ i \in Int
      BY <1>2, <2>2, RestFacts
    <3>2. DataInv
      BY DEF IInv
    <3>3. \A i, j \in DOMAIN data' : i <= j => i + k <= j + k
      BY <3>1
    <3> QED
      BY <1>1, <3>1, <3>2, <3>3 DEF DataInv
  <2> QED
    BY <2>1, <2>2
<1>9. ReplyInv'
  <2>1. \A i \in DOMAIN reply' : reply'[i] = "ACK" => i \in DOMAIN reply /\ reply[i] = "ACK"
    <3>1. CASE UNCHANGED reply
      BY <3>1
    <3>2. ASSUME NEW byte \in ControlBytes \ {"ACK"}, Replies(byte)
          PROVE  \A i \in DOMAIN reply' : reply'[i] = "ACK" => i \in DOMAIN reply /\ reply[i] = "ACK"
      BY <1>2, <3>2, AppendProperties DEF Replies
    <3> QED
      BY <3>1, <3>2
  <2>2. ReplyInv
    BY DEF IInv
  <2> QED
    BY <1>1, <1>5, <2>1, <2>2 DEF ReplyInv
<1>10. ~Saved'
  BY DEF Saved
<1> QED
  BY <1>4, <1>6, <1>7, <1>8, <1>9, <1>10 DEF IInv

\* Taking a block: it is the next one, and its ACK is the only one.
LEMMA GoodBlockSafe ==
  ASSUME IInv, NoHalves, NEW k \in 1..Len(data), GoodBlock(k)
  PROVE  /\ IInv' /\ ~Saved' /\ Running(rcv')
         /\ Len(file) < Len(src) /\ file' = Append(file, src[Len(file) + 1])
<1> DEFINE block == Collected(k)
<1>1. /\ TypeOK' /\ data \in Seq(PieceSet) /\ reply \in Seq(ControlBytes)
      /\ rcv \in ReceiverSet /\ src \in Files
      /\ snd.number \in Nat \ {0} /\ rcv.number \in Nat \ {0}
  <2>1. /\ data \in Seq(PieceSet) /\ reply \in Seq(ControlBytes)
        /\ rcv \in ReceiverSet /\ snd \in SenderSet /\ src \in Files
    BY DEF IInv, TypeOK
  <2>2. TypeOK'
    BY ReceiverTypes DEF IInv, ReceiverGo, ReceiverInput
  <2> QED
    BY <2>1, <2>2 DEF SenderSet, ReceiverSet
<1>2. /\ Running(rcv) /\ rcv.state \notin {"TRIM_LOOP", "ASSERT"} /\ rcv.xfer = "TRANSFER"
      /\ UNCHANGED <<src, short, snd, faults>>
      /\ Verified(block, rcv.flavor, rcv.number) /\ Accepted(block)
      /\ Replies("ACK") /\ data' = Rest(data, k)
  BY DEF GoodBlock, Collecting, ReceiverTurn, ReceiverUnmoved, Running
<1>3. \A i \in DOMAIN block : block[i].harm = "none"
  BY <1>2, CollectedFacts, VerifiedFacts
<1>4. data[1].n = block[1].n /\ data[1].n % SeqCount = rcv.number % SeqCount
  BY <1>2, CollectedFacts, VerifiedFacts
<1> HIDE DEF block
<1>5. 1 \in DOMAIN data /\ data[1].n \in {rcv.number - 1, rcv.number}
      /\ data[1].n <= snd.number - 1
  <2>1. 1 \in DOMAIN data
    BY <1>1
  <2> QED
    BY <1>1, <2>1 DEF IInv, DataInv, Sent, Taken
<1>6. data[1].n = rcv.number
  <2>1. (rcv.number - 1) % SeqCount # rcv.number % SeqCount
    <3>1. rcv.number - 1 \in Nat /\ rcv.number - 1 + 1 = rcv.number
      BY <1>1
    <3> QED
      BY <3>1, NumbersDiffer
  <2> QED
    BY <1>4, <1>5, <2>1
<1>7. /\ rcv.number <= snd.number - 1 /\ snd.number - 1 <= rcv.number
      /\ snd.number - 1 <= Len(src) /\ Len(src) \in Nat
  <2>1. Len(src) \in Nat
    BY <1>1, XmodemAssumption
  <2>2. CountInv
    BY DEF IInv
  <2> QED
    BY <1>1, <1>5, <1>6, <2>1, <2>2 DEF CountInv, Sent, Taken
<1>8. /\ rcv'.number = rcv.number + 1 /\ rcv'.flavor = rcv.flavor /\ rcv'.state = "BLOCK"
      /\ rcv'.xfer = "TRANSFER" /\ rcv'.block = <<>>
  <2> DEFINE q == Waiting(rcv, <<>>)
  <2>1. q = [rcv EXCEPT !.state = "BLOCK", !.block = <<>>]
    BY DEF Waiting
  <2>2. /\ q \in ReceiverSet /\ q.number = rcv.number /\ q.flavor = rcv.flavor
        /\ q.state = "BLOCK" /\ q.xfer = rcv.xfer /\ q.block = <<>>
    <3>1. <<>> \in Seq(PieceSet)
      BY EmptySeq
    <3> QED
      BY <1>1, <2>1, <3>1 DEF ReceiverSet, States
  <2>3. rcv' = [q EXCEPT !.number = @ + 1]
    BY <1>2 DEF Accepted
  <2> HIDE DEF q
  <2> QED
    BY <1>2, <2>2, <2>3 DEF ReceiverSet
<1>9. /\ Sent' = Sent /\ Sent = rcv.number /\ Taken' = rcv.number
      /\ Taken = rcv.number - 1
  BY <1>1, <1>2, <1>7, <1>8 DEF Sent, Taken
<1>10. ~Saved /\ ~Saved' /\ snd.xfer # "END"
  BY <1>2, <1>8 DEF Saved, IInv, SenderInv
<1>11. file' = SubSeq(src, 1, rcv.number)
  <2>1. file = SubSeq(src, 1, rcv.number - 1)
    BY <1>9, <1>10 DEF IInv, ReceiverInv
  <2>2. file' = Append(file, src[rcv.number])
    <3>1. Content(block) = src[rcv.number]
      BY <1>3, <1>4, <1>6 DEF Content
    <3> QED
      BY <1>2, <3>1 DEF Accepted
  <2> DEFINE S == {src[i] : i \in 1..Len(src)}
  <2>3. src \in Seq(S)
    <3>1. src = SubSeq(src, 1, Len(src))
      BY <1>1, XmodemAssumption
    <3>2. \A i \in 1..Len(src) : src[i] \in S
      OBVIOUS
    <3> HIDE DEF S
    <3>3. SubSeq(src, 1, Len(src)) \in Seq(S)
      BY <1>7, <3>2, SubSeqProperties
    <3> QED
      BY <3>1, <3>3
  <2> HIDE DEF S
  <2>4. rcv.number \in 1..Len(src)
    BY <1>1, <1>7
  <2>5. SubSeq(src, 1, rcv.number) = SubSeq(src, 1, rcv.number - 1) \o <<src[rcv.number]>>
    <3>1. 1 \in 1..Len(src)
      BY <1>7, <2>4
    <3>2. \A n \in 1..Len(src) : SubSeq(src, 1, n) = SubSeq(src, 1, n - 1) \o <<src[n]>>
      BY <2>3, <3>1, SubSeqRecursiveSecond, Zenon
    <3> QED
      BY <2>4, <3>2
  <2>6. SubSeq(src, 1, rcv.number - 1) \in Seq(S) /\ src[rcv.number] \in S
    <3>1. rcv.number - 1 \in 0..Len(src)
      BY <1>1, <2>4
    <3>2. SubSeq(src, 1, rcv.number - 1) \in Seq(S)
      BY <2>3, <3>1, FrontFacts
    <3>3. src[rcv.number] \in S
      BY <2>3, <2>4
    <3> QED
      BY <3>2, <3>3
  <2> QED
    BY <2>1, <2>2, <2>5, <2>6, AppendIsConcat
<1>12. ReceiverInv'
  <2>1. /\ file' = SubSeq(src', 1, Taken')
        /\ \A i \in DOMAIN rcv'.block : rcv'.block[i].harm # "half"
    BY <1>2, <1>8, <1>9, <1>11
  <2> QED
    BY <1>8, <1>10, <2>1 DEF ReceiverInv
<1>13. FlavorInv' /\ CountInv'
  BY <1>1, <1>2, <1>7, <1>8, <1>9 DEF IInv, FlavorInv, CountInv
<1>14. \A i \in DOMAIN data : data[i].n >= rcv.number => data[i].n = rcv.number
  BY <1>1, <1>7 DEF IInv, DataInv, Sent, Taken
<1>15. DataInv'
  <2>1. DataInv
    BY DEF IInv
  <2>2. \A i \in DOMAIN data' : i + k \in DOMAIN data /\ data'[i] = data[i + k]
    BY <1>1, <1>2, RestFacts
  <2>3. \A i \in DOMAIN data : data[i].n = rcv.number /\ data[i].kind # "eot" /\ data[i].harm # "half"
    <3> TAKE i \in DOMAIN data
    <3>1. 1 <= i
      BY <1>1
    <3>2. data[1].n <= data[i].n
      BY <1>5, <2>1, <3>1 DEF DataInv
    <3>3. data[i].n = rcv.number
      BY <1>6, <1>14, <3>2
    <3>4. data[i].kind # "eot"
      BY <1>1, <1>7, <1>9, <2>1 DEF DataInv
    <3> QED
      BY <2>1, <3>3, <3>4 DEF DataInv
  <2>4. \A i \in DOMAIN data' :
          data'[i].n = rcv.number /\ data'[i].kind # "eot" /\ data'[i].harm # "half"
    BY <2>2, <2>3
  <2> QED
    BY <1>1, <1>9, <2>4 DEF DataInv
<1>16. Running(snd) => snd.state # "EOT_ACK" /\ \A i \in DOMAIN reply : reply[i] # "ACK"
  <2>1. Running(snd) => snd.state # "EOT_ACK"
    BY <1>1, <1>7, <1>9 DEF IInv, SenderInv, Purpose
  <2> QED
    BY <1>1, <1>9, <2>1 DEF IInv, ReplyInv
<1>17. ReplyInv'
  <2>1. /\ reply' = Append(reply, "ACK")
        /\ \A i \in DOMAIN reply' : (i \in DOMAIN reply /\ reply'[i] = reply[i]) \/ i = Len(reply) + 1
    BY <1>1, <1>2, AppendProperties DEF Replies, ControlBytes
  <2> QED
    BY <1>1, <1>2, <1>9, <1>16, <2>1 DEF ReplyInv
<1>18. SenderInv'
  <2>1. SenderInv
    BY DEF IInv
  <2>2. Running(snd) => Purpose(snd) # "EOT_ACK"
    BY <1>16, <2>1 DEF SenderInv, Purpose
  <2> QED
    BY <1>2, <1>9, <1>10, <2>1, <2>2 DEF SenderInv
<1>19. Len(file) = rcv.number - 1 /\ file' = Append(file, src[rcv.number])
  <2>1. file = SubSeq(src, 1, rcv.number - 1)
    BY <1>9, <1>10 DEF IInv, ReceiverInv
  <2> DEFINE S == {src[i] : i \in 1..(rcv.number - 1)}
  <2>2. \A i \in 1..(rcv.number - 1) : src[i] \in S
    OBVIOUS
  <2> HIDE DEF S
  <2>3. Len(SubSeq(src, 1, rcv.number - 1)) = rcv.number - 1
    BY <1>1, <2>2, SubSeqProperties
  <2>4. Content(block) = src[rcv.number]
    BY <1>3, <1>4, <1>6 DEF Content
  <2> QED
    BY <1>2, <2>1, <2>3, <2>4 DEF Accepted
<1>20. Len(file) < Len(src) /\ file' = Append(file, src[Len(file) + 1])
  BY <1>1, <1>7, <1>19
<1>21. Running(rcv')
  BY <1>8 DEF Running
<1> QED
  BY <1>1, <1>10, <1>12, <1>13, <1>15, <1>17, <1>18, <1>20, <1>21 DEF IInv

\* The EOT comes alone and behind the last block.
LEMMA EotSafe ==
  ASSUME IInv, NEW k \in 1..Len(data), Eot(k)
  PROVE  IInv' /\ file = src /\ file' = Trim(src) /\ Saved' /\ ~Saved
<1> DEFINE block == Collected(k)
<1>1. /\ TypeOK' /\ data \in Seq(PieceSet) /\ reply \in Seq(ControlBytes)
      /\ rcv \in ReceiverSet /\ src \in Files
  BY ReceiverTypes DEF IInv, TypeOK, ReceiverGo, ReceiverInput
<1>2. /\ Running(rcv) /\ rcv.xfer = "TRANSFER" /\ rcv.state \notin {"TRIM_LOOP", "ASSERT"}
      /\ UNCHANGED <<src, short, snd, faults>>
      /\ Len(block) = 1 /\ Header(block) = "EOT"
      /\ data' = Rest(data, k) /\ file' = Trim(file)
  BY DEF Eot, IsEot, Collecting, ReceiverTurn, ReceiverUnmoved, Running
<1>3. block[1] = data[1]
  <2>1. Len(rcv.block) \in Nat /\ Len(block) = Len(rcv.block) + k /\ k \in Nat /\ k > 0
    BY <1>1, CollectedFacts DEF ReceiverSet
  <2>2. Len(rcv.block) + 1 = 1
    <3> DEFINE m == Len(rcv.block)
               n == Len(block)
    <3>1. m \in Nat /\ n = m + k /\ k \in Nat /\ k > 0 /\ n = 1
      BY <1>2, <2>1
    <3> HIDE DEF m, n
    <3>2. m + 1 = 1
      BY <3>1
    <3> QED
      BY <3>2 DEF m
  <2>3. block[Len(rcv.block) + 1] = data[1]
    BY <2>1, CollectedFacts
  <2> QED
    BY <2>2, <2>3
<1>4. block[1].kind = "eot"
  BY <1>2 DEF Header
<1> HIDE DEF block
<1>5. Taken = Len(src) /\ (Running(snd) => snd.state = "EOT_ACK")
  <2>1. 1 \in DOMAIN data /\ data[1].kind = "eot"
    BY <1>1, <1>3, <1>4
  <2> QED
    BY <2>1 DEF IInv, DataInv
<1>6. ~Saved /\ snd.xfer # "END"
  BY <1>2 DEF Saved, IInv, SenderInv
<1>7. file = src /\ file' = Trim(src)
  <2>1. file = SubSeq(src, 1, Len(src))
    BY <1>5, <1>6 DEF IInv, ReceiverInv
  <2>2. src = SubSeq(src, 1, Len(src))
    BY <1>1, XmodemAssumption
  <2> QED
    BY <1>2, <2>1, <2>2
<1>8. /\ rcv'.number = rcv.number /\ rcv'.flavor = rcv.flavor /\ rcv'.block = <<>>
      /\ \/ rcv'.state = "COMPLETE" /\ rcv'.xfer = "END" /\ Replies("ACK")
         \/ rcv'.state = "TRIM_LOOP" /\ rcv'.xfer = "TRANSFER" /\ UNCHANGED reply
  <2>1. /\ [rcv EXCEPT !.block = <<>>, !.state = "COMPLETE", !.xfer = "END"].number = rcv.number
        /\ [rcv EXCEPT !.block = <<>>, !.state = "COMPLETE", !.xfer = "END"].flavor = rcv.flavor
        /\ [rcv EXCEPT !.block = <<>>, !.state = "COMPLETE", !.xfer = "END"].block = <<>>
        /\ [rcv EXCEPT !.block = <<>>, !.state = "COMPLETE", !.xfer = "END"].state = "COMPLETE"
        /\ [rcv EXCEPT !.block = <<>>, !.state = "COMPLETE", !.xfer = "END"].xfer = "END"
    BY <1>1 DEF ReceiverSet
  <2>2. /\ [rcv EXCEPT !.block = <<>>, !.state = "TRIM_LOOP"].number = rcv.number
        /\ [rcv EXCEPT !.block = <<>>, !.state = "TRIM_LOOP"].flavor = rcv.flavor
        /\ [rcv EXCEPT !.block = <<>>, !.state = "TRIM_LOOP"].block = <<>>
        /\ [rcv EXCEPT !.block = <<>>, !.state = "TRIM_LOOP"].state = "TRIM_LOOP"
        /\ [rcv EXCEPT !.block = <<>>, !.state = "TRIM_LOOP"].xfer = rcv.xfer
    BY <1>1 DEF ReceiverSet
  <2>3. \/ /\ rcv' = [rcv EXCEPT !.block = <<>>, !.state = "COMPLETE", !.xfer = "END"]
           /\ Replies("ACK")
        \/ /\ rcv' = [rcv EXCEPT !.block = <<>>, !.state = "TRIM_LOOP"]
           /\ UNCHANGED reply
    BY DEF Eot
  <2> QED
    BY <1>2, <2>1, <2>2, <2>3
<1>9. Saved' /\ Sent' = Sent /\ Taken' = Taken
  BY <1>2, <1>8 DEF Saved, Sent, Taken
<1>10. ReceiverInv'
  <2>1. /\ file' = Trim(src') /\ Taken' = Len(src')
        /\ \A i \in DOMAIN rcv'.block : rcv'.block[i].harm # "half"
    BY <1>2, <1>5, <1>7, <1>8, <1>9
  <2> QED
    BY <1>8, <1>9, <2>1 DEF ReceiverInv, Running
<1>11. FlavorInv' /\ CountInv'
  BY <1>2, <1>8, <1>9 DEF IInv, FlavorInv, CountInv
<1>12. DataInv'
  <2>1. \A i \in DOMAIN data' : i + k \in DOMAIN data /\ data'[i] = data[i + k] /\ i \in Int
    BY <1>1, <1>2, RestFacts
  <2>2. DataInv
    BY DEF IInv
  <2>3. \A i, j \in DOMAIN data' : i <= j => i + k <= j + k
    BY <2>1
  <2> QED
    BY <1>2, <1>9, <2>1, <2>2, <2>3 DEF DataInv
<1>13. SenderInv'
  <2>1. SenderInv
    BY DEF IInv
  <2> QED
    BY <1>2, <1>6, <1>9, <2>1 DEF SenderInv
<1>14. ReplyInv'
  <2>1. CASE ~Running(snd')
    BY <2>1 DEF ReplyInv
  <2>2. CASE Running(snd')
    <3>1. snd.state = "EOT_ACK" /\ Running(snd)
      BY <1>2, <1>5, <2>2
    <3>2. \A i \in DOMAIN reply : reply[i] # "ACK"
      BY <1>2, <3>1 DEF IInv, ReplyInv
    <3>3. CASE Replies("ACK") /\ rcv'.xfer = "END"
      <4>1. \A i \in DOMAIN reply' : (i \in DOMAIN reply /\ reply'[i] = reply[i]) \/ i = Len(reply) + 1
        BY <1>1, <3>3, AppendProperties DEF Replies, ControlBytes
      <4> QED
        BY <1>2, <3>1, <3>2, <3>3, <4>1 DEF ReplyInv
    <3>4. CASE UNCHANGED reply
      BY <3>2, <3>4 DEF ReplyInv
    <3> QED
      BY <1>8, <3>3, <3>4
  <2> QED
    BY <2>1, <2>2
<1> QED
  BY <1>1, <1>6, <1>7, <1>9, <1>10, <1>11, <1>12, <1>13, <1>14 DEF IInv

\* What a step of the receiver does to its file.
ReceiverDid ==
  \/ /\ Len(file) < Len(src) /\ file' = Append(file, src[Len(file) + 1])
     /\ ~Saved' /\ Running(rcv')
  \/ file = src /\ file' = Trim(src) /\ Saved'
  \/ UNCHANGED file /\ ~Saved'

\* Every step of the receiver preserves the invariant.
LEMMA ReceiverSafe ==
  ASSUME IInv, NoHalves, ReceiverGo \/ FirstBlockTimeout \/ BlockTimeout
  PROVE  IInv' /\ ReceiverDid
<1> DEFINE Goal == IInv' /\ UNCHANGED file /\ ~Saved'
<1>1. TypeOK'
  BY ReceiverTypes DEF IInv
<1>2. /\ snd \in SenderSet /\ rcv \in ReceiverSet /\ rcv.flavor # "X_1K_G"
      /\ rcv.state \in States /\ rcv.first \in ControlBytes
      /\ data \in Seq(PieceSet) /\ reply \in Seq(ControlBytes)
  <2>1. /\ snd \in SenderSet /\ rcv \in ReceiverSet /\ rcv.flavor # "X_1K_G"
        /\ data \in Seq(PieceSet) /\ reply \in Seq(ControlBytes)
    BY DEF IInv, TypeOK, FlavorInv
  <2> QED
    BY <2>1 DEF ReceiverSet, ControlBytes
<1>3. /\ rcv.state = "PURGE_INPUT" => rcv.prior = "BLOCK"
      /\ \A i \in DOMAIN rcv.block : rcv.block[i].harm # "half"
      /\ 0 \in 0..Len(data)
  BY <1>2 DEF IInv, ReceiverInv
<1>4. Running(rcv) <=> rcv.xfer = "TRANSFER"
  BY DEF Running
<1>5. \A byte \in {"NAK", "CAN", rcv.first} : byte \in ControlBytes \ {"ACK"}
  BY <1>2 DEF ReceiverSet, FirstBytes, ControlBytes
<1>6. \A p \in ReceiverSet, s \in States :
        /\ Purging(p, s).number = p.number /\ Purging(p, s).flavor = p.flavor
        /\ Purging(p, s).xfer = p.xfer /\ Purging(p, s).block = p.block
        /\ Purging(p, s).state = "PURGE_INPUT" /\ Purging(p, s).prior = s
  BY DEF Purging, ReceiverSet
<1>7. \A block \in Seq(PieceSet) :
        LET q == Waiting(rcv, block)
        IN  /\ q.number = rcv.number /\ q.flavor = rcv.flavor /\ q.xfer = rcv.xfer
            /\ q.block = block /\ q.state = "BLOCK"
  BY <1>2 DEF Waiting, ReceiverSet
<1>8. \A p \in ReceiverSet, s \in States :
        LET q == [p EXCEPT !.state = s]
        IN  /\ q.number = p.number /\ q.flavor = p.flavor /\ q.xfer = p.xfer
            /\ q.block = p.block /\ q.state = s /\ q.prior = p.prior
  BY DEF ReceiverSet
<1>9. {"BLOCK", "FIRST_BLOCK"} \subseteq States
  BY DEF States
<1>10. ASSUME NEW k \in 1..Len(data), Overrun(k) PROVE Goal
  <2>1. /\ ReceiverTurn /\ rcv' = Purging(rcv, "BLOCK") /\ data' = Rest(data, k)
        /\ UNCHANGED <<src, short, file, snd, reply>>
    BY <1>10 DEF Overrun, Collecting, ReceiverUnmoved
  <2>2. /\ rcv'.number = rcv.number /\ rcv'.flavor = rcv.flavor /\ rcv'.xfer = rcv.xfer
        /\ rcv'.block = rcv.block /\ rcv'.state = "PURGE_INPUT" /\ rcv'.prior = "BLOCK"
    BY <1>2, <1>6, <1>9, <2>1
  <2> QED
    BY <1>1, <1>2, <1>3, <1>4, <2>1, <2>2, ReceiverStays DEF ReceiverTurn
<1>11. ASSUME NEW k \in 1..Len(data), Partial(k) PROVE Goal
  <2>1. /\ ReceiverTurn /\ rcv' = Waiting(rcv, Collected(k)) /\ data' = Rest(data, k)
        /\ UNCHANGED <<src, short, file, snd, reply>>
    BY <1>11 DEF Partial, Collecting, ReceiverUnmoved
  <2>2. /\ rcv'.number = rcv.number /\ rcv'.flavor = rcv.flavor /\ rcv'.xfer = rcv.xfer
        /\ rcv'.block = Collected(k) /\ rcv'.state = "BLOCK"
    BY <1>7, <2>1, CollectedFacts
  <2> QED
    BY <1>1, <1>2, <1>4, <2>1, <2>2, CollectedFacts, ReceiverStays DEF ReceiverTurn
<1>12. ASSUME NEW k \in 1..Len(data), BadBlock(k) PROVE Goal
  <2> DEFINE p == WithError(rcv)
             q == [p EXCEPT !.block = <<>>]
  <2>1. /\ ReceiverTurn /\ data' = Rest(data, k)
        /\ rcv' = IF Running(p) THEN Purging(q, "BLOCK") ELSE p
        /\ UNCHANGED <<src, short, file, snd, reply>>
    BY <1>12 DEF BadBlock, Collecting, ReceiverUnmoved
  <2>2. /\ p \in ReceiverSet /\ p.number = rcv.number /\ p.flavor = rcv.flavor
        /\ p.block = rcv.block
        /\ (p.xfer = "ABORT" /\ p.state = "ABORT") \/ p.xfer = rcv.xfer
    BY <1>2, ReceiverHelpers, ReceiverErrors
  <2> HIDE DEF p
  <2>3. /\ q \in ReceiverSet /\ q.number = p.number /\ q.flavor = p.flavor
        /\ q.block = <<>> /\ q.xfer = p.xfer
    <3>1. <<>> \in Seq(PieceSet)
      BY EmptySeq
    <3> QED
      BY <2>2, <3>1 DEF ReceiverSet
  <2> HIDE DEF q
  <2>4. CASE Running(p)
    <3>1. /\ rcv'.number = rcv.number /\ rcv'.flavor = rcv.flavor /\ rcv'.xfer = p.xfer
          /\ rcv'.block = <<>> /\ rcv'.state = "PURGE_INPUT" /\ rcv'.prior = "BLOCK"
      BY <1>6, <1>9, <2>1, <2>2, <2>3, <2>4
    <3>2. rcv'.xfer = "TRANSFER" /\ \A i \in DOMAIN rcv'.block : rcv'.block[i].harm # "half"
      BY <2>4, <3>1 DEF Running
    <3> QED
      BY <1>1, <1>2, <2>1, <3>1, <3>2, ReceiverStays
  <2>5. CASE ~Running(p)
    <3>1. rcv' = p /\ p.xfer = "ABORT" /\ p.state = "ABORT" /\ ~Running(rcv')
      BY <1>4, <2>1, <2>2, <2>5 DEF Running, ReceiverTurn
    <3> QED
      BY <1>1, <1>2, <1>3, <2>1, <2>2, <3>1, ReceiverStays
  <2> QED
    BY <2>4, <2>5
<1>13. ASSUME NEW k \in 1..Len(data), ReceiverPurge(k) PROVE Goal
  <2>1. /\ ReceiverTurn /\ rcv.state = "PURGE_INPUT" /\ data' = Rest(data, k)
        /\ UNCHANGED <<src, short, file, snd, rcv, reply>>
    BY <1>13 DEF ReceiverPurge, ReceiverUnmoved
  <2> QED
    BY <1>1, <1>2, <1>3, <1>4, <2>1, ReceiverStays DEF ReceiverTurn
<1>14. ASSUME NEW k \in 0..Len(data), ReceiverInit(k) PROVE Goal
  <2>1. /\ ReceiverTurn /\ data' = Rest(data, k) /\ Replies(rcv.first)
        /\ \E s \in {"BLOCK", "FIRST_BLOCK"} : rcv' = [rcv EXCEPT !.state = s]
        /\ UNCHANGED <<src, short, file, snd>>
    BY <1>14 DEF ReceiverInit, ReceiverUnmoved
  <2>2. /\ rcv'.number = rcv.number /\ rcv'.flavor = rcv.flavor /\ rcv'.xfer = rcv.xfer
        /\ rcv'.block = rcv.block /\ rcv'.state \in {"BLOCK", "FIRST_BLOCK"}
    BY <1>2, <1>8, <1>9, <2>1
  <2> QED
    BY <1>1, <1>2, <1>3, <1>4, <1>5, <2>1, <2>2, ReceiverStays DEF ReceiverTurn
<1>15. ASSUME ReceiverNak PROVE Goal
  <2>1. /\ ReceiverTurn /\ rcv.state = "PURGE_INPUT" /\ UNCHANGED data /\ Replies("NAK")
        /\ rcv' = [rcv EXCEPT !.state = "BLOCK"]
        /\ UNCHANGED <<src, short, file, snd>>
    BY <1>3, <1>15 DEF ReceiverNak, ReceiverUnmoved
  <2>2. /\ rcv'.number = rcv.number /\ rcv'.flavor = rcv.flavor /\ rcv'.xfer = rcv.xfer
        /\ rcv'.block = rcv.block /\ rcv'.state = "BLOCK"
    BY <1>2, <1>8, <1>9, <2>1
  <2> QED
    BY <1>1, <1>2, <1>3, <1>4, <1>5, <2>1, <2>2, ReceiverStays DEF ReceiverTurn
<1>16. ASSUME FirstBlockTimeout PROVE Goal
  <2> DEFINE o == [rcv EXCEPT !.timeouts = @ + 1]
             p == WithError(o)
  <2>1. /\ ReceiverTurn /\ rcv.state = "FIRST_BLOCK" /\ UNCHANGED data
        /\ \/ rcv' = p /\ Replies(rcv.first)
           \/ /\ rcv' = [p EXCEPT !.state = "BLOCK", !.prior = "BLOCK", !.flavor = "X_NORMAL"]
              /\ Replies("NAK")
        /\ UNCHANGED <<src, short, file, snd>>
    BY <1>16 DEF FirstBlockTimeout, ReceiverUnmoved
  <2>2. /\ o \in ReceiverSet /\ o.number = rcv.number /\ o.flavor = rcv.flavor
        /\ o.block = rcv.block /\ o.xfer = rcv.xfer /\ o.state = rcv.state
    BY <1>2, SMTT(30) DEF ReceiverSet
  <2> HIDE DEF o
  <2>3. /\ p \in ReceiverSet /\ p.number = rcv.number /\ p.flavor = rcv.flavor
        /\ p.block = rcv.block
        /\ \/ p.xfer = "ABORT" /\ p.state = "ABORT"
           \/ p.xfer = rcv.xfer /\ p.state = rcv.state
    BY <1>2, <2>2, ReceiverHelpers, ReceiverErrors
  <2> HIDE DEF p
  <2>4. CASE rcv' = p /\ Replies(rcv.first)
    <3>1. p.xfer = "ABORT" => ~Running(rcv')
      BY <2>4 DEF Running
    <3> QED
      BY <1>1, <1>2, <1>3, <1>4, <1>5, <2>1, <2>3, <2>4, <3>1, ReceiverStays
      DEF ReceiverTurn
  <2>5. CASE /\ rcv' = [p EXCEPT !.state = "BLOCK", !.prior = "BLOCK", !.flavor = "X_NORMAL"]
             /\ Replies("NAK")
    <3>1. /\ rcv'.number = p.number /\ rcv'.flavor = "X_NORMAL" /\ rcv'.xfer = p.xfer
          /\ rcv'.block = p.block /\ rcv'.state = "BLOCK"
      BY <2>3, <2>5 DEF ReceiverSet
    <3> QED
      BY <1>1, <1>2, <1>3, <1>4, <1>5, <2>1, <2>3, <2>5, <3>1, ReceiverStays
      DEF ReceiverTurn
  <2> QED
    BY <2>1, <2>4, <2>5
<1>17. ASSUME BlockTimeout PROVE Goal
  <2> DEFINE p == WithTimeout(rcv)
  <2>1. /\ ReceiverTurn /\ rcv.state = "BLOCK" /\ UNCHANGED data /\ snd' = Lapse(snd)
        /\ \/ Running(p) /\ rcv' = [p EXCEPT !.state = "BLOCK"]
           \/ ~Running(p) /\ rcv' = p
        /\ \E byte \in {"NAK", "CAN", rcv.first} : Replies(byte)
        /\ UNCHANGED <<src, short, file>>
    BY <1>17 DEF BlockTimeout
  <2>2. /\ p \in ReceiverSet /\ p.number = rcv.number /\ p.flavor = rcv.flavor
        /\ p.block = rcv.block
        /\ (p.xfer = "ABORT" /\ p.state = "ABORT") \/ p.xfer = rcv.xfer
    BY <1>2, ReceiverHelpers, ReceiverErrors
  <2> HIDE DEF p
  <2>3. /\ snd'.number = snd.number /\ snd'.flavor = snd.flavor /\ snd'.state = snd.state
        /\ snd'.prior = snd.prior /\ snd'.xfer = snd.xfer
    BY <1>2, <2>1 DEF Lapse, SenderSet
  <2>4. CASE Running(p) /\ rcv' = [p EXCEPT !.state = "BLOCK"]
    <3>1. /\ rcv'.number = p.number /\ rcv'.flavor = p.flavor /\ rcv'.xfer = p.xfer
          /\ rcv'.block = p.block /\ rcv'.state = "BLOCK" /\ p.xfer = "TRANSFER"
      BY <1>8, <1>9, <2>2, <2>4 DEF Running
    <3> QED
      BY <1>1, <1>2, <1>3, <1>5, <2>1, <2>2, <2>3, <3>1, ReceiverStays
  <2>5. CASE ~Running(p) /\ rcv' = p
    <3>1. p.xfer = "ABORT" /\ p.state = "ABORT" /\ ~Running(rcv')
      BY <1>4, <2>1, <2>2, <2>5 DEF Running, ReceiverTurn
    <3> QED
      BY <1>1, <1>2, <1>3, <1>5, <2>1, <2>2, <2>3, <2>5, <3>1, ReceiverStays
  <2> QED
    BY <2>1, <2>4, <2>5
<1>18. ASSUME NEW k \in 1..Len(data), StreamPartial(k) \/ StreamBlock(k) PROVE FALSE
  BY <1>2, <1>18 DEF StreamPartial, StreamBlock, Streaming
<1>19. ~StreamAssert
  BY <1>2 DEF StreamAssert, Streaming
<1> QED
  BY <1>10, <1>11, <1>12, <1>13, <1>14, <1>15, <1>16, <1>17, <1>18, <1>19,
     GoodBlockSafe, EotSafe
  DEF ReceiverGo, ReceiverInput, ReceiverDid

-----------------------------------------------------------------------------
(***************************************************************************)
(* The steps of the users and of the line preserve the invariant.          *)
(***************************************************************************)

\* A step that leaves both programs alone need only respect the lines.
LEMMA LineStep ==
  ASSUME IInv, TypeOK', UNCHANGED <<src, short, file, snd, rcv>>, DataInv', ReplyInv'
  PROVE  IInv'
<1>1. FlavorInv' /\ CountInv'
  BY DEF IInv, FlavorInv, CountInv, Sent, Taken
<1>2. SenderInv'
  BY DEF IInv, SenderInv, Sent, Taken
<1>3. ReceiverInv'
  BY DEF IInv, ReceiverInv, Saved, Taken
<1> QED
  BY <1>1, <1>2, <1>3 DEF IInv

LEMMA EnvironmentSafe ==
  ASSUME IInv, NoHalves, SenderEscape \/ ReceiverEscape \/ Drain \/ Faults
  PROVE  IInv'
<1>1. TypeOK'
  <2>1. [Next]_vars
    BY DEF Next
  <2> QED
    BY <2>1, TypeStep DEF IInv
<1>2. /\ snd \in SenderSet /\ rcv \in ReceiverSet
      /\ data \in Seq(PieceSet) /\ reply \in Seq(ControlBytes)
      /\ 0 \in 0..Len(reply) /\ 0 \in 0..Len(data)
  <2>1. /\ snd \in SenderSet /\ rcv \in ReceiverSet
        /\ data \in Seq(PieceSet) /\ reply \in Seq(ControlBytes)
    BY DEF IInv, TypeOK
  <2> QED
    BY <2>1
<1>3. DataInv /\ ReplyInv
  BY DEF IInv
<1>4. UNCHANGED <<src, snd, rcv, data>> => DataInv'
  BY <1>3 DEF DataInv, Sent, Taken
<1>5. UNCHANGED <<snd, rcv, reply>> => ReplyInv'
  BY <1>3 DEF ReplyInv, Sent, Taken
<1>6. CASE SenderEscape
  <2>1. /\ snd'.number = snd.number /\ snd'.flavor = snd.flavor /\ snd'.xfer = "ABORT"
    BY <1>2, <1>6 DEF SenderEscape, SenderSet
  <2> QED
    BY <1>1, <1>2, <1>6, <2>1, SenderStays DEF SenderEscape, SenderUnmoved
<1>7. CASE ReceiverEscape
  <2>1. /\ ReceiverTurn /\ UNCHANGED <<src, short, file, snd, data, reply>>
        /\ rcv' = [rcv EXCEPT !.xfer = "ABORT"]
    BY <1>7 DEF ReceiverEscape
  <2>2. /\ rcv'.number = rcv.number /\ rcv'.flavor = rcv.flavor /\ rcv'.xfer = "ABORT"
        /\ rcv'.state = rcv.state /\ rcv'.prior = rcv.prior /\ rcv'.block = rcv.block
    BY <1>2, <2>1 DEF ReceiverSet
  <2>3. /\ rcv.state = "PURGE_INPUT" => rcv.prior = "BLOCK"
        /\ \A i \in DOMAIN rcv.block : rcv.block[i].harm # "half"
        /\ rcv.flavor # "X_1K_G" /\ ~Running(rcv')
        /\ rcv.state \notin {"TRIM_LOOP", "ASSERT"}
    BY <2>1, <2>2 DEF IInv, ReceiverInv, FlavorInv, Running, ReceiverTurn
  <2> QED
    BY <1>1, <1>2, <2>1, <2>2, <2>3, ReceiverStays
<1>8. CASE Drain
  <2>1. UNCHANGED <<src, short, file, snd, rcv>>
    BY <1>8 DEF Drain
  <2>2. CASE ~Running(snd) /\ UNCHANGED data
    <3>1. ReplyInv'
      BY <2>1, <2>2 DEF ReplyInv
    <3> QED
      BY <1>1, <1>4, <2>1, <2>2, <3>1, LineStep
  <2>3. CASE data' = <<>> /\ UNCHANGED reply
    <3>1. DataInv'
      BY <2>3 DEF DataInv
    <3> QED
      BY <1>1, <1>5, <2>1, <2>3, <3>1, LineStep
  <2> QED
    BY <1>8, <2>2, <2>3 DEF Drain
<1>9. ASSUME NEW i \in DOMAIN data, LoseData(i) PROVE IInv'
  <2>1. UNCHANGED <<src, short, file, snd, rcv, reply>> /\ data' = RemoveAt(data, i)
    BY <1>9 DEF LoseData, LineFault
  <2> DEFINE At(h) == IF h < i THEN h ELSE h + 1
  <2>2. /\ i \in 1..Len(data) /\ data' \in Seq(PieceSet) /\ Len(data') = Len(data) - 1
        /\ \A h \in DOMAIN data' : data'[h] = data[At(h)]
    BY <1>2, <2>1, RemoveAtFacts
  <2>3. \A h \in DOMAIN data' : At(h) \in DOMAIN data /\ h \in Int
    BY <1>2, <2>2
  <2>4. \A g, h \in DOMAIN data' : g <= h => At(g) <= At(h)
    BY <2>2, <2>3
  <2> HIDE DEF At
  <2>5. Taken' = Taken /\ Sent' = Sent /\ src' = src /\ snd' = snd
    BY <2>1 DEF Taken, Sent
  <2>6. DataInv'
    BY <1>3, <2>2, <2>3, <2>4, <2>5 DEF DataInv
  <2> QED
    BY <1>1, <1>5, <2>1, <2>6, LineStep
<1>10. ASSUME NEW i \in DOMAIN data, DamageData(i) PROVE IInv'
  <2>1. PICK harm \in {"full", "half"} :
          /\ LineFault(IF harm = "half" THEN "half damage"
                       ELSE IF data[i].kind = "eot" THEN "damage eot" ELSE "damage")
          /\ data' = [data EXCEPT ![i].harm = harm] /\ UNCHANGED reply
    BY <1>10 DEF DamageData
  <2>2. harm = "full" /\ UNCHANGED <<src, short, file, snd, rcv>>
    <3>1. harm # "half"
      BY <2>1 DEF LineFault, NoHalves
    <3> QED
      BY <2>1, <3>1 DEF LineFault
  <2>3. /\ DOMAIN data' = DOMAIN data
        /\ \A h \in DOMAIN data : /\ data'[h].n = data[h].n /\ data'[h].kind = data[h].kind
                                  /\ data'[h].harm \in {data[h].harm, "full"}
    <3>1. \A h \in DOMAIN data : data[h] \in PieceSet
      BY <1>2
    <3>2. data' = [data EXCEPT ![i] = [data[i] EXCEPT !.harm = harm]]
      BY <2>1
    <3>3. /\ DOMAIN data' = DOMAIN data /\ data'[i] = [data[i] EXCEPT !.harm = harm]
          /\ \A h \in DOMAIN data : h # i => data'[h] = data[h]
      BY <1>2, <3>2
    <3>4. data'[i].n = data[i].n /\ data'[i].kind = data[i].kind /\ data'[i].harm = "full"
      BY <2>2, <3>1, <3>3 DEF PieceSet
    <3> QED
      BY <3>3, <3>4
  <2>4. Taken' = Taken /\ Sent' = Sent /\ src' = src /\ snd' = snd
    BY <2>2 DEF Taken, Sent
  <2>5. DataInv'
    BY <1>3, <2>3, <2>4 DEF DataInv
  <2> QED
    BY <1>1, <1>5, <2>1, <2>2, <2>5, LineStep
<1>11. ASSUME NEW i \in DOMAIN reply, LoseReply(i) PROVE IInv'
  <2>1. UNCHANGED <<src, short, file, snd, rcv, data>> /\ reply' = RemoveAt(reply, i)
    BY <1>11 DEF LoseReply, LineFault
  <2> DEFINE At(h) == IF h < i THEN h ELSE h + 1
  <2>2. /\ i \in 1..Len(reply) /\ reply' \in Seq(ControlBytes) /\ Len(reply') = Len(reply) - 1
        /\ \A h \in DOMAIN reply' : reply'[h] = reply[At(h)]
    BY <1>2, <2>1, RemoveAtFacts
  <2>3. \A h \in DOMAIN reply' : At(h) \in DOMAIN reply /\ h \in Int
    BY <1>2, <2>2
  <2>4. \A g, h \in DOMAIN reply' : At(g) = At(h) => g = h
    BY <2>2, <2>3
  <2> HIDE DEF At
  <2>5. Taken' = Taken /\ Sent' = Sent /\ snd' = snd /\ rcv' = rcv
    BY <2>1 DEF Taken, Sent
  <2>6. ReplyInv'
    BY <1>3, <2>2, <2>3, <2>4, <2>5 DEF ReplyInv
  <2> QED
    BY <1>1, <1>4, <2>1, <2>6, LineStep
<1>12. ASSUME NEW i \in DOMAIN reply, NoiseInReply(i) PROVE IInv'
  <2>1. /\ UNCHANGED <<src, short, file, snd, rcv, data>>
        /\ reply' = [reply EXCEPT ![i] = "noise"]
    BY <1>12 DEF NoiseInReply, LineFault
  <2>2. DOMAIN reply' = DOMAIN reply
        /\ \A h \in DOMAIN reply : reply'[h] = "ACK" => reply[h] = "ACK"
    BY <1>2, <2>1
  <2>3. Taken' = Taken /\ Sent' = Sent /\ snd' = snd /\ rcv' = rcv
    BY <2>1 DEF Taken, Sent
  <2>4. ReplyInv'
    BY <1>3, <2>2, <2>3 DEF ReplyInv
  <2> QED
    BY <1>1, <1>4, <2>1, <2>4, LineStep
<1> QED
  BY <1>6, <1>7, <1>8, <1>9, <1>10, <1>11, <1>12 DEF Faults

-----------------------------------------------------------------------------
(***************************************************************************)
(* The inductive invariant and what follows from it.                       *)
(***************************************************************************)

LEMMA Initially == NoStream /\ Init => IInv
<1> SUFFICES ASSUME NoStream, Init PROVE IInv
  OBVIOUS
<1>1. TypeOK
  BY TypeInit
<1>2. PICK pick \in FlavorPairs : /\ snd = SenderStarted(pick[1])
                                  /\ rcv = ReceiverStarted(pick[2])
  BY DEF Init
<1>3. /\ snd.number = 1 /\ snd.flavor = pick[1] /\ snd.state = "INIT" /\ snd.xfer = "TRANSFER"
      /\ rcv.number = 1 /\ rcv.flavor = pick[2] /\ rcv.state = "INIT" /\ rcv.xfer = "TRANSFER"
      /\ rcv.block = <<>>
  BY <1>2 DEF SenderStarted, ReceiverStarted
<1>4. Sent = 0 /\ Taken = 0 /\ ~Saved /\ Len(src) \in Nat
  <2>1. src \in Files
    BY DEF Init
  <2>2. Len(src) \in Nat
    BY <2>1, XmodemAssumption
  <2> QED
    BY <1>3, <2>2 DEF Sent, Taken, Saved
<1>5. FlavorInv /\ CountInv
  BY <1>3, <1>4 DEF FlavorInv, CountInv, NoStream
<1>6. SenderInv
  BY <1>3, <1>4 DEF SenderInv, Purpose
<1>7. ReceiverInv
  <2>1. file = SubSeq(src, 1, Taken)
    BY <1>4, SubSeqEmpty DEF Init
  <2> QED
    BY <1>3, <1>4, <2>1 DEF ReceiverInv
<1>8. DataInv /\ ReplyInv
  BY DEF DataInv, ReplyInv, Init
<1> QED
  BY <1>1, <1>5, <1>6, <1>7, <1>8 DEF IInv

LEMMA Inductive == NoHalves /\ IInv /\ [Next]_vars => IInv'
<1> SUFFICES ASSUME NoHalves, IInv, [Next]_vars PROVE IInv'
  OBVIOUS
<1>1. CASE UNCHANGED vars
  <2>1. TypeOK'
    BY TypeStep DEF IInv
  <2>2. DataInv' /\ ReplyInv'
    BY <1>1 DEF IInv, DataInv, ReplyInv, Sent, Taken, vars
  <2> QED
    BY <1>1, <2>1, <2>2, LineStep DEF vars
<1> QED
  BY <1>1, SenderSafe, ReceiverSafe, EnvironmentSafe DEF Next, Timeouts

\* The strengthening is an invariant, if nobody picked X_1K_G and no damage
\* slips past the CRC test.
THEOREM InductiveInvariant ==
  ASSUME NoStream, NoHalves
  PROVE  Spec => []IInv
<1>1. Init => IInv
  BY Initially
<1>2. IInv /\ [Next]_vars => IInv'
  BY Inductive
<1> QED
  BY <1>1, <1>2, PTL DEF Spec

-----------------------------------------------------------------------------
\* The receiver's file is always the beginning of the sender's.
THEOREM PrefixSafety ==
  ASSUME NoStream, NoHalves
  PROVE  Spec => []FileIsPrefix
<1>1. IInv => FileIsPrefix
  <2> SUFFICES ASSUME IInv PROVE FileIsPrefix
    OBVIOUS
  <2>1. src \in Files /\ Len(src) \in Nat
    BY XmodemAssumption DEF IInv, TypeOK
  <2>2. CASE Saved
    BY <2>1, <2>2, TrimFacts DEF IInv, ReceiverInv, FileIsPrefix
  <2>3. CASE ~Saved
    <3>1. file = SubSeq(src, 1, Taken) /\ Taken \in Nat /\ Taken <= Len(src)
      BY <2>1, <2>3 DEF IInv, TypeOK, SenderSet, ReceiverSet, ReceiverInv, CountInv, Sent, Taken
    <3> DEFINE S == {src[i] : i \in 1..Len(src)}
    <3>2. \A i \in 1..Taken : src[i] \in S
      BY <2>1, <3>1
    <3> HIDE DEF S
    <3>3. Len(SubSeq(src, 1, Taken)) = Taken
      BY <3>1, <3>2, SubSeqProperties
    <3> QED
      BY <3>1, <3>3 DEF FileIsPrefix
  <2> QED
    BY <2>2, <2>3
<1> QED
  BY <1>1, InductiveInvariant, PTL

\* SUCCESS at the sender means a complete file and SUCCESS at the receiver.
THEOREM SuccessSafety ==
  ASSUME NoStream, NoHalves
  PROVE  Spec => []NoFalseSuccess
<1>1. IInv => NoFalseSuccess
  BY DEF IInv, SenderInv, ReceiverInv, Saved, NoFalseSuccess
<1> QED
  BY <1>1, InductiveInvariant, PTL

\* The sender is never more than one block ahead.
THEOREM LockStepSafety ==
  ASSUME NoStream, NoHalves
  PROVE  Spec => []LockStep
<1>1. IInv => LockStep
  <2> SUFFICES ASSUME IInv PROVE LockStep
    OBVIOUS
  <2>1. snd.number \in Nat /\ rcv.number \in Nat
    BY DEF IInv, TypeOK, SenderSet, ReceiverSet
  <2> QED
    BY <2>1 DEF IInv, CountInv, Sent, Taken, LockStep
<1> QED
  BY <1>1, InductiveInvariant, PTL

-----------------------------------------------------------------------------
(***************************************************************************)
(* The transfer implements FileTransfer.                                   *)
(***************************************************************************)

\* A step of the sending program is invisible or ends its transfer.
LEMMA SenderRefines ==
  ASSUME IInv, IInv', Running(snd), UNCHANGED <<src, file, rcv>>
  PROVE  [FT!Next]_(FT!vars)
<1>1. SenderTold = "busy"
  BY DEF SenderTold, Running
<1>2. UNCHANGED <<src, file, ReceiverTold>>
  BY DEF ReceiverTold
<1>3. snd'.xfer \in {"TRANSFER", "END", "ABORT"}
  BY DEF IInv, TypeOK, SenderSet, Outcomes
<1>4. CASE snd'.xfer = "TRANSFER"
  <2>1. SenderTold' = "busy"
    BY <1>4 DEF SenderTold
  <2> QED
    BY <1>1, <1>2, <2>1 DEF FT!vars
<1>5. CASE snd'.xfer = "END"
  <2>1. SenderTold' = "ok"
    BY <1>5 DEF SenderTold
  <2>2. rcv'.xfer = "END"
    BY <1>5 DEF IInv, SenderInv
  <2>3. ReceiverTold = "saved"
    BY <2>2 DEF ReceiverTold, IInv, ReceiverInv
  <2> QED
    BY <1>1, <1>2, <2>1, <2>3 DEF FT!Next, FT!Succeed
<1>6. CASE snd'.xfer = "ABORT"
  <2>1. SenderTold' = "failed"
    BY <1>6 DEF SenderTold
  <2> QED
    BY <1>1, <1>2, <2>1 DEF FT!Next, FT!SenderGivesUp
<1> QED
  BY <1>3, <1>4, <1>5, <1>6

\* A step of the receiving program writes a block, saves the file, gives up
\* or is invisible.
LEMMA ReceiverRefines ==
  ASSUME IInv, IInv', ReceiverTurn, UNCHANGED src, snd'.xfer = snd.xfer, ReceiverDid
  PROVE  [FT!Next]_(FT!vars)
<1>1. ReceiverTold = "busy"
  BY DEF ReceiverTurn, ReceiverTold, Running
<1>2. UNCHANGED <<src, SenderTold>>
  BY DEF SenderTold
<1>3. CASE /\ Len(file) < Len(src) /\ file' = Append(file, src[Len(file) + 1])
           /\ ~Saved' /\ Running(rcv')
  <2>1. ReceiverTold' = "busy"
    BY <1>3 DEF ReceiverTold, Running, Saved, IInv, ReceiverInv
  <2> QED
    BY <1>1, <1>2, <1>3, <2>1 DEF FT!Next, FT!Deliver
<1>4. CASE file = src /\ file' = Trim(src) /\ Saved'
  <2>1. ReceiverTold' = "saved"
    BY <1>4 DEF ReceiverTold, Saved, IInv, ReceiverInv, Running
  <2> QED
    BY <1>1, <1>2, <1>4, <2>1 DEF FT!Next, FT!Save, FT!Trim, FT!LastData, Trim, LastData
<1>5. CASE UNCHANGED file /\ ~Saved'
  <2>1. ReceiverTold' \in {"busy", "failed"}
    BY <1>5 DEF ReceiverTold, Saved
  <2> QED
    BY <1>1, <1>2, <1>5, <2>1 DEF FT!Next, FT!ReceiverGivesUp, FT!vars
<1> QED
  BY <1>3, <1>4, <1>5 DEF ReceiverDid

\* Whatever the line does, the user of either program sees what FileTransfer
\* promises: blocks are delivered in order and once, the file is saved when
\* it is whole, and the sender succeeds only after that.
THEOREM Refinement ==
  ASSUME NoStream, NoHalves
  PROVE  Spec => RefinesFileTransfer
<1>1. Init => FT!Init
  BY DEF Init, FT!Init, SenderTold, ReceiverTold, SenderStarted, ReceiverStarted
<1>2. IInv /\ IInv' /\ [Next]_vars => [FT!Next]_(FT!vars)
  <2> SUFFICES ASSUME IInv, IInv', [Next]_vars PROVE [FT!Next]_(FT!vars)
    OBVIOUS
  <2>1. CASE SenderGo \/ SenderTimeout \/ SenderEscape
    <3>1. Running(snd) /\ UNCHANGED <<src, file, rcv>>
      BY <2>1 DEF SenderGo, SenderInput, SenderCancelled, SenderStart, SenderIgnore,
         SenderBlock, SenderStream, SenderNak, SenderResend, SenderEot, SenderDone,
         SenderTimeout, SenderEscape, SenderTurn, SenderUnmoved
    <3> QED
      BY <3>1, SenderRefines
  <2>2. CASE ReceiverGo \/ FirstBlockTimeout \/ BlockTimeout
    <3>1. ReceiverDid
      BY <2>2, ReceiverSafe
    <3>2. ReceiverTurn /\ UNCHANGED src
      BY <2>2 DEF ReceiverGo, ReceiverInput, ReceiverInit, FirstBlockTimeout, BlockTimeout,
         Overrun, Eot, Partial, GoodBlock, BadBlock, ReceiverPurge, ReceiverNak,
         StreamAssert, StreamPartial, StreamBlock, Streaming, Collecting, ReceiverUnmoved
    <3>3. snd' = snd \/ snd' = Lapse(snd)
      BY <2>2 DEF ReceiverGo, ReceiverInput, ReceiverInit, FirstBlockTimeout, BlockTimeout,
         Overrun, Eot, Partial, GoodBlock, BadBlock, ReceiverPurge, ReceiverNak,
         StreamAssert, StreamPartial, StreamBlock, Streaming, Collecting, ReceiverUnmoved
    <3>4. snd'.xfer = snd.xfer
      BY <3>3 DEF Lapse, IInv, TypeOK, SenderSet
    <3> QED
      BY <3>1, <3>2, <3>4, ReceiverRefines
  <2>3. CASE ReceiverEscape
    <3>1. /\ ReceiverTurn /\ UNCHANGED <<src, file, snd>>
          /\ rcv' = [rcv EXCEPT !.xfer = "ABORT"]
      BY <2>3 DEF ReceiverEscape
    <3>2. ~Saved'
      BY <3>1 DEF ReceiverTurn, Saved, IInv, TypeOK, ReceiverSet
    <3> QED
      BY <3>1, <3>2, ReceiverRefines DEF ReceiverDid
  <2>4. CASE Drain \/ Faults \/ UNCHANGED vars
    <3>1. UNCHANGED <<src, file, snd, rcv>>
      BY <2>4 DEF Drain, Faults, LoseData, DamageData, LoseReply, NoiseInReply, LineFault, vars
    <3> QED
      BY <3>1 DEF FT!vars, SenderTold, ReceiverTold
  <2> QED
    BY <2>1, <2>2, <2>3, <2>4 DEF Next, Timeouts
<1> QED
  BY <1>1, <1>2, InductiveInvariant, PTL DEF Spec, FT!Spec, RefinesFileTransfer

-----------------------------------------------------------------------------
(***************************************************************************)
(* Falling back to checksums, for all flavors and all damage: which kinds  *)
(* of pieces there are on the line and in current_block.                   *)
(***************************************************************************)
Kinds(line) == {line[i].kind : i \in DOMAIN line}

\* Whoever made these blocks had agreed, or had not, on vanilla Xmodem.
Speaks(kinds, flavor) ==
  \A kind \in kinds : kind # "eot" => (kind = "checksum" <=> flavor = "X_NORMAL")

Silent(kinds) == \A kind \in kinds : kind = "eot"

Heard == Kinds(data) \cup Kinds(rcv.block)

\* All blocks under way are of the sender's flavor; while that can still
\* change there are none.  The receiver's can change until it takes one.
AgreeInv ==
  /\ TypeOK
  /\ Speaks(Heard, snd.flavor)
  /\ snd.number = 1 => Silent(Heard) /\ rcv.number = 1
  /\ Running(snd) /\ Purpose(snd) = "INIT" => snd.number = 1
  /\ rcv.state \in {"INIT", "FIRST_BLOCK"} => rcv.number = 1
  /\ rcv.state = "PURGE_INPUT" => rcv.prior = "BLOCK"
  /\ FlavorsAgree

\* What is left of a line and what was taken off it are pieces of it.
LEMMA KindsOfRest ==
  ASSUME TypeOK, NEW k \in 0..Len(data)
  PROVE  Kinds(Rest(data, k)) \subseteq Kinds(data)
<1>1. data \in Seq(PieceSet)
  BY DEF TypeOK
<1>2. \A i \in DOMAIN Rest(data, k) :
        i + k \in DOMAIN data /\ Rest(data, k)[i] = data[i + k]
  BY <1>1, RestFacts
<1>3. QED
  BY <1>2 DEF Kinds

\* Of two lines joined.
LEMMA KindsOfConcat ==
  ASSUME NEW S, NEW s \in Seq(S), NEW t \in Seq(S)
  PROVE  Kinds(s \o t) \subseteq Kinds(s) \cup Kinds(t)
<1>1. /\ s \o t \in Seq(S) /\ Len(s \o t) = Len(s) + Len(t)
      /\ \A i \in 1..(Len(s) + Len(t)) :
           (s \o t)[i] = IF i <= Len(s) THEN s[i] ELSE t[i - Len(s)]
  BY ConcatProperties
<1> SUFFICES ASSUME NEW i \in 1..(Len(s) + Len(t))
             PROVE  (s \o t)[i].kind \in Kinds(s) \cup Kinds(t)
  BY <1>1 DEF Kinds
<1>2. CASE i <= Len(s)
  <2>1. i \in DOMAIN s /\ (s \o t)[i] = s[i]
    BY <1>1, <1>2
  <2>2. QED
    BY <2>1 DEF Kinds
<1>3. CASE ~(i <= Len(s))
  <2>1. i - Len(s) \in DOMAIN t /\ (s \o t)[i] = t[i - Len(s)]
    BY <1>1, <1>3
  <2>2. QED
    BY <2>1 DEF Kinds
<1>4. QED
  BY <1>2, <1>3

\* Of what the receiver has collected.
LEMMA KindsCollected ==
  ASSUME TypeOK, NEW k \in 0..Len(data)
  PROVE  Kinds(Collected(k)) \subseteq Heard /\ Collected(k) \in Seq(PieceSet)
<1> DEFINE front == SubSeq(data, 1, k)
<1>1. rcv.block \in Seq(PieceSet) /\ data \in Seq(PieceSet)
  BY DEF TypeOK, ReceiverSet
<1>2. front \in Seq(PieceSet) /\ Len(front) = k /\ \A i \in 1..k : front[i] = data[i]
  BY <1>1, FrontFacts
<1>3. Kinds(front) \subseteq Kinds(data)
  <2>1. \A i \in DOMAIN front : i \in DOMAIN data /\ front[i] = data[i]
    BY <1>1, <1>2
  <2> HIDE DEF front
  <2>2. QED
    BY <2>1 DEF Kinds
<1>4. Collected(k) = rcv.block \o front
  BY DEF Collected
<1> HIDE DEF front
<1>5. Kinds(rcv.block \o front) \subseteq Kinds(rcv.block) \cup Kinds(front)
  BY <1>1, <1>2, KindsOfConcat
<1>6. rcv.block \o front \in Seq(PieceSet)
  BY <1>1, <1>2, ConcatProperties
<1>7. QED
  BY <1>3, <1>4, <1>5, <1>6 DEF Heard

\* Of a line on which a block is sent.
LEMMA KindsSent ==
  ASSUME TypeOK, NEW n \in Nat, NEW kind \in BlockKinds \cup {"eot"}, Sends(n, kind)
  PROVE  Kinds(data') \subseteq Kinds(data) \cup {kind}
<1>1. Pieces(n, kind) \in Seq(PieceSet) /\ data \in Seq(PieceSet)
  BY PiecesFacts DEF TypeOK
<1>2. Kinds(Pieces(n, kind)) \subseteq {kind}
  BY PiecesFacts DEF Kinds
<1>3. Kinds(data \o Pieces(n, kind)) \subseteq Kinds(data) \cup Kinds(Pieces(n, kind))
  BY <1>1, KindsOfConcat
<1>4. QED
  BY <1>2, <1>3 DEF Sends

\* A sender that sends what its flavor makes, and changes it only before the
\* first block.
KeepsTune ==
  /\ snd'.flavor = snd.flavor \/ snd.number = 1
  /\ snd'.number \in {snd.number, snd.number + 1}
  /\ Running(snd') /\ Purpose(snd') = "INIT" =>
       Running(snd) /\ Purpose(snd) = "INIT" /\ snd'.number = snd.number
  /\ \A kind \in Kinds(data') \ Kinds(data) :
       \/ kind = "eot"
       \/ snd'.number > 1 /\ (kind = "checksum" <=> snd'.flavor = "X_NORMAL")

\* That is enough at the sender.
LEMMA KeepsAgreed ==
  ASSUME AgreeInv, TypeOK', KeepsTune, UNCHANGED rcv
  PROVE  AgreeInv'
<1>1. /\ snd.number \in Nat \ {0} /\ snd'.number \in Nat \ {0}
      /\ Heard' = Kinds(data') \cup Kinds(rcv.block)
  BY DEF AgreeInv, TypeOK, SenderSet, Heard
<1>2. snd'.number = 1 => snd.number = 1
  BY <1>1 DEF KeepsTune
<1>3. \A kind \in Heard' : \/ kind \in Heard \/ kind = "eot"
                           \/ snd'.number > 1 /\ (kind = "checksum" <=> snd'.flavor = "X_NORMAL")
  BY <1>1 DEF KeepsTune, Heard
<1>4. Speaks(Heard, snd'.flavor)
  BY DEF AgreeInv, Speaks, Silent, KeepsTune
<1>5. Speaks(Heard', snd'.flavor)
  BY <1>3, <1>4 DEF Speaks
<1>6. snd'.number = 1 => Silent(Heard') /\ rcv'.number = 1
  BY <1>2, <1>3 DEF AgreeInv, Silent
<1>7. Running(snd') /\ Purpose(snd') = "INIT" => snd'.number = 1
  BY DEF AgreeInv, KeepsTune
<1>8. FlavorsAgree'
  BY <1>1 DEF AgreeInv, KeepsTune, FlavorsAgree
<1>9. QED
  BY <1>5, <1>6, <1>7, <1>8 DEF AgreeInv

\* A block that is constructed, with the flavor the sender now has.
LEMMA ConstructsInTune ==
  ASSUME TypeOK, NEW p \in SenderSet, ConstructBlock(p), p.number = snd.number,
         p.flavor = snd.flavor \/ snd.number = 1
  PROVE  KeepsTune
<1>1. p.number \in Nat \ {0} /\ KindSent(p.flavor, p.number) \in BlockKinds
  BY KindSentFacts DEF SenderSet
<1>2. Kinds(data') \subseteq Kinds(data) \cup {KindSent(p.flavor, p.number)}
  BY <1>1, KindsSent DEF ConstructBlock
<1>3. /\ snd'.flavor = p.flavor /\ snd'.number = p.number + 1
      /\ snd'.state \in {"BLOCK", "LAST_BLOCK"}
  BY DEF ConstructBlock, ResetTimer, SenderSet
<1>4. KindSent(p.flavor, p.number) = "checksum" <=> p.flavor = "X_NORMAL"
  BY DEF KindSent
<1>5. QED
  BY <1>1, <1>2, <1>3, <1>4 DEF KeepsTune, Purpose

\* A step that sends nothing and counts no block.
LEMMA StaysInTune ==
  ASSUME UNCHANGED data, snd'.number = snd.number,
         snd'.flavor = snd.flavor \/ snd.number = 1,
         Running(snd') => Purpose(snd') # "INIT" \/ (Running(snd) /\ Purpose(snd) = "INIT")
  PROVE  KeepsTune
BY DEF KeepsTune

\* The block that goes out again is of the sender's flavor.
LEMMA ResendInTune ==
  ASSUME TypeOK, SenderResend
  PROVE  KeepsTune
<1> DEFINE n == snd.number - 1
           kind == KindSent(snd.flavor, n)
<1>1. /\ snd \in SenderSet /\ snd.number \in Nat \ {0} /\ snd.state = "PURGE_INPUT"
      /\ Running(snd)
  BY DEF TypeOK, SenderSet, SenderResend, SenderTurn
<1>2. /\ snd'.flavor = snd.flavor /\ snd'.number = snd.number /\ snd'.state = snd.prior
      /\ snd'.prior = snd.prior
  BY <1>1 DEF SenderResend, ResetTimer, SenderSet
<1>3. Purpose(snd') = Purpose(snd)
  BY <1>1, <1>2 DEF Purpose
<1>4. CASE UNCHANGED data
  BY <1>1, <1>2, <1>3, <1>4, StaysInTune
<1>5. CASE snd.number > 1 /\ Sends(n, kind)
  <2>1. n \in Nat /\ kind \in BlockKinds
    BY <1>1, <1>5, KindSentFacts
  <2>4. kind = "checksum" <=> snd.flavor = "X_NORMAL"
    BY DEF KindSent
  <2> HIDE DEF n, kind
  <2>2. Kinds(data') \subseteq Kinds(data) \cup {kind}
    BY <1>5, <2>1, KindsSent
  <2>3. QED
    BY <1>1, <1>2, <1>3, <1>5, <2>1, <2>2, <2>4 DEF KeepsTune
<1>6. QED
  BY <1>4, <1>5 DEF SenderResend

\* The EOT is no block.
LEMMA EotInTune ==
  ASSUME TypeOK, Sends(snd.number - 1, "eot"), snd'.number = snd.number,
         snd'.flavor = snd.flavor, Running(snd') => Purpose(snd') # "INIT"
  PROVE  KeepsTune
<1>1. snd.number - 1 \in Nat
  BY DEF TypeOK, SenderSet
<1>2. Kinds(data') \subseteq Kinds(data) \cup {"eot"}
  BY <1>1, KindsSent
<1>3. QED
  BY <1>2 DEF KeepsTune

\* Every step of the sender.
LEMMA SenderInTune ==
  ASSUME AgreeInv, SenderGo \/ SenderTimeout
  PROVE  KeepsTune /\ UNCHANGED rcv
<1>1. /\ TypeOK /\ snd \in SenderSet /\ snd.state \in States
      /\ Running(snd) /\ snd.state = "INIT" => snd.number = 1
  BY DEF AgreeInv, TypeOK, Purpose, SenderSet
<1>2. UNCHANGED rcv
  BY DEF SenderGo, SenderInput, SenderCancelled, SenderStart, SenderIgnore,
     SenderBlock, SenderStream, SenderNak, SenderResend, SenderEot, SenderDone,
     SenderTimeout, SenderUnmoved
<1> SUFFICES KeepsTune
  BY <1>2
<1>3. \A p \in SenderSet :
        /\ ResetTimer(p).number = p.number /\ ResetTimer(p).flavor = p.flavor
        /\ ResetTimer(p).xfer = p.xfer /\ ResetTimer(p).state = p.state
        /\ ResetTimer(p).prior = p.prior /\ ResetTimer(p) \in SenderSet
  BY DEF ResetTimer, SenderSet
<1>4. \A p \in SenderSet, s \in States :
        /\ Purging(p, s).number = p.number /\ Purging(p, s).flavor = p.flavor
        /\ Purging(p, s).xfer = p.xfer /\ Purging(p, s) \in SenderSet
        /\ Purging(p, s).state = "PURGE_INPUT" /\ Purging(p, s).prior = s
  BY SenderHelpers DEF Purging, SenderSet
<1>5. \A p \in SenderSet, s \in States :
        /\ Garbage(p, s).number = p.number /\ Garbage(p, s).flavor = p.flavor
        /\ Running(Garbage(p, s)) => Purpose(Garbage(p, s)) = s
  BY <1>4, SenderErrors DEF Garbage, Purpose, Running
<1>6. {"INIT", "BLOCK", "LAST_BLOCK", "EOT_ACK"} \subseteq States
  BY DEF States
<1>7. ASSUME NEW k \in 1..Len(reply), SenderInput(k) PROVE KeepsTune
  <2>1. CASE SenderCancelled(k)
    <3>1. snd'.number = snd.number /\ snd'.flavor = snd.flavor /\ ~Running(snd')
      BY <1>1, <2>1 DEF SenderCancelled, Aborted, SenderSet, Running
    <3>2. QED
      BY <2>1, <3>1, StaysInTune DEF SenderCancelled
  <2>2. CASE SenderStart(k)
    <3> DEFINE p == [Downgraded(snd, reply[1]) EXCEPT !.state = "BLOCK"]
    <3>1. p \in SenderSet /\ p.number = snd.number
      BY <1>1, <1>6 DEF Downgraded, SenderSet, Flavors
    <3>2. snd.number = 1
      BY <1>1, <2>2 DEF SenderStart, SenderTurn
    <3>3. ConstructBlock(p) \/ (snd' = Garbage(p, "BLOCK") /\ UNCHANGED data)
      BY <2>2 DEF SenderStart
    <3> HIDE DEF p
    <3>4. QED
      BY <1>1, <1>5, <1>6, <3>1, <3>2, <3>3, ConstructsInTune, StaysInTune
  <2>3. CASE SenderIgnore(k)
    <3>1. snd' = snd \/ snd' = ResetTimer(snd)
      BY <2>3 DEF SenderIgnore
    <3>2. Purpose(snd') = Purpose(snd) /\ snd'.number = snd.number
          /\ snd'.flavor = snd.flavor /\ Running(snd)
      BY <1>1, <1>3, <2>3, <3>1 DEF Purpose, SenderIgnore, SenderTurn
    <3>3. QED
      BY <2>3, <3>2, StaysInTune DEF SenderIgnore
  <2>4. CASE SenderBlock(k)
    BY <1>1, <2>4, ConstructsInTune DEF SenderBlock
  <2>5. CASE SenderNak(k)
    <3>1. snd' = Garbage(snd, snd.state) /\ snd.state \in {"BLOCK", "LAST_BLOCK"}
          /\ UNCHANGED data
      BY <2>5 DEF SenderNak
    <3>2. QED
      BY <1>1, <1>5, <1>6, <3>1, StaysInTune
  <2>6. CASE SenderDone(k)
    <3>1. snd'.number = snd.number /\ snd'.flavor = snd.flavor /\ ~Running(snd')
      BY <1>1, <2>6 DEF SenderDone, SenderSet, Running
    <3>2. QED
      BY <2>6, <3>1, StaysInTune DEF SenderDone
  <2>7. QED
    BY <1>7, <2>1, <2>2, <2>3, <2>4, <2>5, <2>6 DEF SenderInput
<1>8. ASSUME NEW k \in 0..Len(reply), SenderStream(k) PROVE KeepsTune
  BY <1>1, <1>8, ConstructsInTune DEF SenderStream
<1>9. ASSUME NEW k \in 0..Len(reply), SenderEot(k) PROVE KeepsTune
  <2>1. snd' = [ResetTimer(snd) EXCEPT !.state = "EOT_ACK"]
    BY <1>9 DEF SenderEot
  <2>2. snd'.number = snd.number /\ snd'.flavor = snd.flavor /\ Purpose(snd') = "EOT_ACK"
    BY <1>1, <1>3, <2>1 DEF SenderSet, Purpose
  <2>3. QED
    BY <1>1, <1>9, <2>2, EotInTune DEF SenderEot
<1>10. CASE SenderResend
  BY <1>1, <1>10, ResendInTune
<1>11. CASE SenderTimeout
  <2> DEFINE w == WithTimeout(snd)
             p == ResetTimer(w)
  <2>1. /\ w \in SenderSet /\ p \in SenderSet
        /\ p.number = snd.number /\ p.flavor = snd.flavor
        /\ Running(p) => p.state = "PURGE_INPUT" /\ p.prior = snd.state
    <3>1. /\ w \in SenderSet /\ w.number = snd.number /\ w.flavor = snd.flavor
          /\ w.xfer = "ABORT" \/ (w.state = "PURGE_INPUT" /\ w.prior = snd.state)
      BY <1>1, SenderErrors, SenderHelpers
    <3> HIDE DEF w
    <3>2. /\ p \in SenderSet /\ p.number = w.number /\ p.flavor = w.flavor
          /\ p.xfer = w.xfer /\ p.state = w.state /\ p.prior = w.prior
      BY <1>3, <3>1
    <3> HIDE DEF p
    <3>3. QED
      BY <3>1, <3>2 DEF Running
  <2>2. Running(snd) /\ snd.state \in {"INIT", "BLOCK", "LAST_BLOCK", "EOT_ACK"}
    BY <1>11 DEF SenderTimeout, SenderTurn
  <2>3. CASE snd.state = "EOT_ACK"
    <3>1. Sends(snd.number - 1, "eot")
          /\ snd' = IF Running(p) THEN [p EXCEPT !.state = "EOT_ACK"] ELSE p
      BY <1>11, <2>3 DEF SenderTimeout
    <3> HIDE DEF p
    <3>2. /\ snd'.number = snd.number /\ snd'.flavor = snd.flavor
          /\ Running(snd') => Purpose(snd') = "EOT_ACK"
      BY <2>1, <3>1 DEF SenderSet, Running, Purpose
    <3>3. QED
      BY <1>1, <3>1, <3>2, EotInTune
  <2>4. CASE snd.state # "EOT_ACK"
    <3>1. /\ snd' = IF snd.state = "BLOCK" THEN Purging(p, "BLOCK") ELSE p
          /\ UNCHANGED data
      BY <1>11, <2>4 DEF SenderTimeout
    <3> HIDE DEF p
    <3>2. snd'.number = snd.number /\ snd'.flavor = snd.flavor
      BY <1>4, <1>6, <2>1, <3>1
    <3>3. Running(snd') => Purpose(snd') = snd.state
      BY <1>4, <1>6, <2>1, <3>1 DEF Purpose
    <3>4. Purpose(snd) = snd.state
      BY <2>2 DEF Purpose
    <3>5. QED
      BY <2>2, <3>1, <3>2, <3>3, <3>4, StaysInTune
  <2>5. QED
    BY <2>3, <2>4
<1>12. QED
  BY <1>2, <1>7, <1>8, <1>9, <1>10, <1>11 DEF SenderGo

\* A receiver that takes at most one block, of its own flavor, and changes
\* the flavor only before the first.
TakesTune ==
  /\ snd' = snd \/ snd' = Lapse(snd)
  /\ Heard' \subseteq Heard
  /\ rcv'.state \in {"INIT", "FIRST_BLOCK"} => rcv'.number = 1
  /\ rcv'.state = "PURGE_INPUT" => rcv'.prior = "BLOCK"
  /\ \/ rcv'.number = rcv.number /\ (rcv'.flavor = rcv.flavor \/ rcv.number = 1)
     \/ /\ rcv'.flavor = rcv.flavor
        /\ \E kind \in Heard : kind # "eot" /\ (kind = "checksum" <=> rcv.flavor = "X_NORMAL")

\* That is enough at the receiver.
LEMMA TakesAgreed ==
  ASSUME AgreeInv, TypeOK', TakesTune
  PROVE  AgreeInv'
<1>1. /\ snd'.number = snd.number /\ snd'.flavor = snd.flavor /\ snd'.xfer = snd.xfer
      /\ snd'.state = snd.state /\ snd'.prior = snd.prior
  BY DEF TakesTune, Lapse, AgreeInv, TypeOK, SenderSet
<1>2. Speaks(Heard', snd'.flavor)
  BY <1>1 DEF AgreeInv, TakesTune, Speaks
<1>3. snd'.number = 1 => Silent(Heard') /\ rcv'.number = 1
  BY <1>1 DEF AgreeInv, TakesTune, Silent
<1>4. Running(snd') /\ Purpose(snd') = "INIT" => snd'.number = 1
  BY <1>1 DEF AgreeInv, Running, Purpose
<1>5. FlavorsAgree'
  BY <1>1 DEF AgreeInv, TakesTune, FlavorsAgree, Speaks
<1>6. QED
  BY <1>2, <1>3, <1>4, <1>5 DEF AgreeInv, TakesTune

\* Nothing comes in but what was on the line.
LEMMA HeardOnly ==
  ASSUME TypeOK, NEW k \in 0..Len(data), data' \in {data, Rest(data, k)},
         rcv'.block \in {rcv.block, <<>>, Collected(k)}
  PROVE  Heard' \subseteq Heard
<1>1. Kinds(data') \subseteq Kinds(data)
  BY KindsOfRest
<1>2. Kinds(<<>>) = {}
  BY DEF Kinds
<1>3. Kinds(rcv'.block) \subseteq Heard
  BY <1>2, KindsCollected DEF Heard
<1>4. QED
  BY <1>1, <1>3 DEF Heard

\* verify_block() passes only blocks that are made the way this flavor's are.
LEMMA VerifiedInTune ==
  ASSUME TypeOK, NEW k \in 0..Len(data),
         Verified(Collected(k), rcv.flavor, rcv.number)
  PROVE  \E kind \in Heard : kind # "eot" /\ (kind = "checksum" <=> rcv.flavor = "X_NORMAL")
<1> DEFINE block == Collected(k)
           kind == KindExpected(rcv.flavor, block)
<1>1. block \in Seq(PieceSet) /\ Kinds(block) \subseteq Heard
  BY KindsCollected
<1>2. kind \in BlockKinds /\ (kind = "checksum" <=> rcv.flavor = "X_NORMAL")
  <2>1. CASE rcv.flavor = "X_NORMAL"
    BY <2>1 DEF KindExpected, OneK, BlockKinds
  <2>2. CASE rcv.flavor # "X_NORMAL"
    <3>1. kind = IF OneK(rcv.flavor) /\ Header(block) = "STX" THEN "1k" ELSE "crc"
      BY <2>2 DEF KindExpected
    <3>2. QED
      BY <2>2, <3>1 DEF BlockKinds
  <2>3. QED
    BY <2>1, <2>2
<1>3. kind = KindExpected(rcv.flavor, block) /\ Verified(block, rcv.flavor, rcv.number)
  OBVIOUS
<1> HIDE DEF block, kind
<1>8. Len(block) = Len(Cuts(kind))
  BY <1>3 DEF Verified, Verdict
<1>9. \A i \in DOMAIN block : block[i].kind = kind
  BY <1>3 DEF Verified, Verdict
<1>4. Len(Cuts(kind)) >= 1
  BY <1>2 DEF Cuts, BlockKinds
<1>5. 1 \in DOMAIN block /\ block[1].kind = kind
  BY <1>1, <1>4, <1>8, <1>9
<1>6. kind \in Heard /\ kind # "eot"
  BY <1>1, <1>2, <1>5 DEF Kinds, BlockKinds
<1>7. QED
  BY <1>2, <1>6

\* Every step of the receiver.
LEMMA ReceiverInTune ==
  ASSUME AgreeInv, ReceiverGo \/ FirstBlockTimeout \/ BlockTimeout
  PROVE  TakesTune
<1>1. /\ TypeOK /\ rcv \in ReceiverSet /\ rcv.number \in Nat
      /\ rcv.state \in {"INIT", "FIRST_BLOCK"} => rcv.number = 1
      /\ rcv.state = "PURGE_INPUT" => rcv.prior = "BLOCK"
      /\ 0 \in 0..Len(data)
      /\ rcv.state \in States
  BY DEF AgreeInv, TypeOK, ReceiverSet
<1>2. ASSUME NEW k \in 0..Len(data), data' \in {data, Rest(data, k)},
             rcv'.block \in {rcv.block, <<>>, Collected(k)},
             rcv'.state \in {"INIT", "FIRST_BLOCK"} => rcv.number = 1,
             rcv'.state = "PURGE_INPUT" => rcv'.prior = "BLOCK",
             rcv'.number = rcv.number, rcv'.flavor = rcv.flavor \/ rcv.number = 1,
             snd' = snd \/ snd' = Lapse(snd)
      PROVE  TakesTune
  <2>1. Heard' \subseteq Heard
    BY <1>1, <1>2, HeardOnly
  <2>2. QED
    BY <1>2, <2>1 DEF TakesTune
<1>3. ASSUME NEW k \in 0..Len(data), Accepted(Collected(k)), data' = Rest(data, k),
             Verified(Collected(k), rcv.flavor, rcv.number), UNCHANGED snd
      PROVE  TakesTune
  <2>1. rcv'.block = <<>> /\ rcv'.state = "BLOCK" /\ rcv'.flavor = rcv.flavor
    BY <1>1, <1>3 DEF Accepted, Waiting, ReceiverSet
  <2>2. Heard' \subseteq Heard
    BY <1>1, <1>3, <2>1, HeardOnly
  <2>3. QED
    BY <1>1, <1>3, <2>1, <2>2, VerifiedInTune DEF TakesTune
<1>4. ASSUME NEW k \in 1..Len(data), ReceiverInput(k) PROVE TakesTune
  <2>1. UNCHANGED snd /\ data' = Rest(data, k) /\ k \in 0..Len(data)
    BY <1>4 DEF ReceiverInput, Overrun, Eot, Partial, GoodBlock, BadBlock, ReceiverPurge,
       StreamPartial, StreamBlock, ReceiverUnmoved
  <2>2. CASE Overrun(k)
    <3>1. /\ rcv'.block = rcv.block /\ rcv'.state = "PURGE_INPUT" /\ rcv'.prior = "BLOCK"
          /\ rcv'.number = rcv.number /\ rcv'.flavor = rcv.flavor
      BY <1>1, <2>2 DEF Overrun, Purging, ReceiverSet
    <3>2. QED
      BY <1>2, <2>1, <3>1
  <2>3. CASE Eot(k)
    <3>1. /\ rcv'.block = <<>> /\ rcv'.state \in {"COMPLETE", "TRIM_LOOP"}
          /\ rcv'.number = rcv.number /\ rcv'.flavor = rcv.flavor
      BY <1>1, <2>3 DEF Eot, ReceiverSet
    <3>2. QED
      BY <1>2, <2>1, <3>1
  <2>4. CASE Partial(k) \/ StreamPartial(k)
    <3>1. /\ rcv'.block = Collected(k) /\ rcv'.state = "BLOCK"
          /\ rcv'.number = rcv.number /\ rcv'.flavor = rcv.flavor
      BY <1>1, <2>4 DEF Partial, StreamPartial, Waiting, ReceiverSet
    <3>2. QED
      BY <1>2, <2>1, <3>1
  <2>5. CASE GoodBlock(k)
    BY <1>3, <2>1, <2>5 DEF GoodBlock
  <2>6. CASE BadBlock(k)
    <3> DEFINE p == WithError(rcv)
    <3>1. rcv' = IF Running(p) THEN Purging([p EXCEPT !.block = <<>>], "BLOCK") ELSE p
      BY <2>6 DEF BadBlock
    <3>2. /\ p \in ReceiverSet /\ p.number = rcv.number /\ p.flavor = rcv.flavor
          /\ p.block = rcv.block
          /\ p.xfer = rcv.xfer \/ p.state = "ABORT"
      BY <1>1, ReceiverErrors, ReceiverHelpers
    <3>3. Running(rcv)
      BY <2>6 DEF BadBlock, Collecting, ReceiverTurn
    <3> HIDE DEF p
    <3>4. CASE Running(p)
      <4>1. /\ rcv'.block = <<>> /\ rcv'.state = "PURGE_INPUT" /\ rcv'.prior = "BLOCK"
            /\ rcv'.number = rcv.number /\ rcv'.flavor = rcv.flavor
        BY <3>1, <3>2, <3>4 DEF Purging, ReceiverSet
      <4>2. QED
        BY <1>2, <2>1, <4>1
    <3>5. CASE ~Running(p)
      <4>1. rcv' = p /\ p.state = "ABORT"
        BY <3>1, <3>2, <3>3, <3>5 DEF Running
      <4>2. QED
        BY <1>1, <1>2, <2>1, <3>2, <4>1
    <3>6. QED
      BY <3>4, <3>5
  <2>7. CASE ReceiverPurge(k)
    BY <1>1, <1>2, <2>1, <2>7 DEF ReceiverPurge
  <2>8. CASE StreamBlock(k)
    <3>1. CASE Verified(Collected(k), rcv.flavor, rcv.number)
      BY <1>3, <2>1, <2>8, <3>1 DEF StreamBlock
    <3>2. CASE ~Verified(Collected(k), rcv.flavor, rcv.number)
      <4>1. /\ rcv'.block = <<>> /\ rcv'.state = "ABORT"
            /\ rcv'.number = rcv.number /\ rcv'.flavor = rcv.flavor
        BY <1>1, <2>8, <3>2 DEF StreamBlock, Aborted, ReceiverSet
      <4>2. QED
        BY <1>2, <2>1, <4>1
    <3>3. QED
      BY <3>1, <3>2
  <2>9. QED
    BY <1>4, <2>2, <2>3, <2>4, <2>5, <2>6, <2>7, <2>8 DEF ReceiverInput
<1>5. ASSUME NEW k \in 0..Len(data), ReceiverInit(k) PROVE TakesTune
  <2>1. /\ rcv'.block = rcv.block /\ rcv'.state \in {"BLOCK", "FIRST_BLOCK"}
        /\ rcv'.number = rcv.number /\ rcv'.flavor = rcv.flavor /\ rcv.number = 1
        /\ data' = Rest(data, k) /\ UNCHANGED snd
    BY <1>1, <1>5 DEF ReceiverInit, ReceiverSet, ReceiverUnmoved
  <2>2. QED
    BY <1>2, <2>1
<1>6. CASE StreamAssert \/ ReceiverNak
  <2>1. /\ rcv'.block = rcv.block /\ rcv'.state \in {"ASSERT", "BLOCK"}
        /\ rcv'.number = rcv.number /\ rcv'.flavor = rcv.flavor
        /\ UNCHANGED <<snd, data>>
    BY <1>1, <1>6 DEF StreamAssert, ReceiverNak, ReceiverSet, ReceiverUnmoved
  <2>2. QED
    BY <1>1, <1>2, <2>1
<1>7. CASE FirstBlockTimeout
  <2> DEFINE q == [rcv EXCEPT !.timeouts = @ + 1]
             p == WithError(q)
  <2>1. /\ q \in ReceiverSet /\ q.number = rcv.number /\ q.flavor = rcv.flavor
        /\ q.block = rcv.block /\ q.state = rcv.state /\ rcv.state = "FIRST_BLOCK"
    BY <1>1, <1>7, SMTT(30) DEF ReceiverSet, FirstBlockTimeout
  <2>2. /\ UNCHANGED <<data, snd>>
        /\ \/ rcv' = p
           \/ rcv' = [p EXCEPT !.state = "BLOCK", !.prior = "BLOCK",
                               !.flavor = "X_NORMAL"]
    BY <1>7 DEF FirstBlockTimeout, ReceiverUnmoved
  <2> HIDE DEF q
  <2>3. /\ p \in ReceiverSet /\ p.number = rcv.number /\ p.flavor = rcv.flavor
        /\ p.block = rcv.block /\ p.state \in {"FIRST_BLOCK", "ABORT"}
    BY <1>1, <2>1, ReceiverErrors, ReceiverHelpers
  <2> HIDE DEF p
  <2>4. /\ rcv'.number = rcv.number /\ rcv'.block = rcv.block
        /\ rcv'.state \in {"FIRST_BLOCK", "ABORT", "BLOCK"}
    BY <2>2, <2>3 DEF ReceiverSet
  <2>5. QED
    BY <1>1, <1>2, <2>1, <2>2, <2>4
<1>8. CASE BlockTimeout
  <2> DEFINE p == WithTimeout(rcv)
  <2>1. rcv.state = "BLOCK" /\ (rcv' = p \/ rcv' = [p EXCEPT !.state = "BLOCK"])
        /\ UNCHANGED data /\ snd' = Lapse(snd)
    BY <1>8 DEF BlockTimeout
  <2>2. /\ p \in ReceiverSet /\ p.number = rcv.number /\ p.flavor = rcv.flavor
        /\ p.block = rcv.block
        /\ p.state = "ABORT" \/ (p.state = "PURGE_INPUT" /\ p.prior = "BLOCK")
    BY <1>1, <2>1, ReceiverErrors, ReceiverHelpers
  <2> HIDE DEF p
  <2>3. /\ rcv'.number = rcv.number /\ rcv'.block = rcv.block /\ rcv'.flavor = rcv.flavor
        /\ rcv'.state \in {"ABORT", "BLOCK"} \/ (rcv'.state = "PURGE_INPUT" /\ rcv'.prior = "BLOCK")
    BY <2>1, <2>2 DEF ReceiverSet
  <2>4. QED
    BY <1>1, <1>2, <2>1, <2>3
<1>9. QED
  BY <1>4, <1>5, <1>6, <1>7, <1>8 DEF ReceiverGo

\* Losing a piece, damaging one or draining the line makes no new kinds.
LEMMA LineInTune ==
  ASSUME AgreeInv, Drain \/ Faults
  PROVE  TakesTune
<1>1. data \in Seq(PieceSet) /\ UNCHANGED <<snd, rcv>>
  BY DEF AgreeInv, TypeOK, Drain, Faults, LoseData, DamageData, LoseReply, NoiseInReply,
     LineFault
<1>2. Kinds(data') \subseteq Kinds(data)
  <2>1. CASE data' \in {data, <<>>}
    BY <2>1 DEF Kinds
  <2>2. ASSUME NEW i \in DOMAIN data, LoseData(i) PROVE Kinds(data') \subseteq Kinds(data)
    <3>1. /\ Len(RemoveAt(data, i)) = Len(data) - 1 /\ RemoveAt(data, i) \in Seq(PieceSet)
          /\ \A j \in DOMAIN RemoveAt(data, i) :
               RemoveAt(data, i)[j] = data[IF j < i THEN j ELSE j + 1]
      BY <1>1, RemoveAtFacts
    <3>2. \A j \in DOMAIN RemoveAt(data, i) : (IF j < i THEN j ELSE j + 1) \in DOMAIN data
      BY <1>1, <3>1
    <3>3. data' = RemoveAt(data, i)
      BY <2>2 DEF LoseData
    <3>4. QED
      BY <3>1, <3>2, <3>3, Zenon DEF Kinds
  <2>3. ASSUME NEW i \in DOMAIN data, DamageData(i) PROVE Kinds(data') \subseteq Kinds(data)
    <3>1. PICK harm : data' = [data EXCEPT ![i].harm = harm]
      BY <2>3 DEF DamageData
    <3>2. \A j \in DOMAIN data : data[j] \in PieceSet
      BY <1>1
    <3>3. DOMAIN data' = DOMAIN data /\ \A j \in DOMAIN data : data'[j].kind = data[j].kind
      BY <3>1, <3>2 DEF PieceSet
    <3>4. QED
      BY <3>3 DEF Kinds
  <2>4. QED
    BY <2>1, <2>2, <2>3 DEF Drain, Faults, LoseReply, NoiseInReply
<1>3. QED
  BY <1>1, <1>2 DEF TakesTune, AgreeInv, Heard

\* Every step keeps the flavors together.
LEMMA AgreeStep == AgreeInv /\ [Next]_vars => AgreeInv'
<1> SUFFICES ASSUME AgreeInv, [Next]_vars PROVE AgreeInv'
  OBVIOUS
<1>1. TypeOK'
  BY TypeStep DEF AgreeInv
<1>2. CASE SenderGo \/ SenderTimeout
  BY <1>1, <1>2, SenderInTune, KeepsAgreed
<1>3. CASE ReceiverGo \/ FirstBlockTimeout \/ BlockTimeout
  BY <1>1, <1>3, ReceiverInTune, TakesAgreed
<1>4. CASE Drain \/ Faults
  BY <1>1, <1>4, LineInTune, TakesAgreed
<1>5. CASE SenderEscape
  <2>1. /\ UNCHANGED <<rcv, data>> /\ ~Running(snd') /\ snd'.number = snd.number
        /\ snd'.flavor = snd.flavor
    BY <1>5 DEF SenderEscape, Running, AgreeInv, TypeOK, SenderSet
  <2>2. QED
    BY <1>1, <2>1, StaysInTune, KeepsAgreed
<1>6. CASE ReceiverEscape
  <2>1. /\ UNCHANGED <<snd, data>> /\ rcv'.block = rcv.block /\ rcv'.state = rcv.state
        /\ rcv'.number = rcv.number /\ rcv'.flavor = rcv.flavor /\ rcv'.prior = rcv.prior
    BY <1>6 DEF ReceiverEscape, AgreeInv, TypeOK, ReceiverSet
  <2>2. TakesTune
    BY <2>1 DEF TakesTune, AgreeInv, Heard
  <2>3. QED
    BY <1>1, <2>2, TakesAgreed
<1>7. CASE UNCHANGED vars
  <2>1. TakesTune
    BY <1>7 DEF vars, TakesTune, AgreeInv, Heard
  <2>2. QED
    BY <1>1, <2>1, TakesAgreed
<1>8. QED
  BY <1>2, <1>3, <1>4, <1>5, <1>6, <1>7 DEF Next, Timeouts

\* When the first block has been written, either both programs make and expect
\* checksums or neither does: for every pair of flavors, X_1K_G included, and
\* every damage to the line.
THEOREM Agreement == Spec => []FlavorsAgree
<1>1. Init => AgreeInv
  <2> SUFFICES ASSUME Init PROVE AgreeInv
    OBVIOUS
  <2>1. /\ data = <<>> /\ rcv.block = <<>> /\ snd.number = 1 /\ rcv.number = 1
        /\ rcv.state = "INIT"
    BY DEF Init, SenderStarted, ReceiverStarted
  <2>2. Heard = {}
    BY <2>1 DEF Heard, Kinds
  <2>3. QED
    BY <2>1, <2>2, TypeInit DEF AgreeInv, Speaks, Silent, FlavorsAgree
<1>2. AgreeInv /\ [Next]_vars => AgreeInv'
  BY AgreeStep
<1>3. AgreeInv => FlavorsAgree
  BY DEF AgreeInv
<1>4. QED
  BY <1>1, <1>2, <1>3, PTL DEF Spec
=============================================================================
