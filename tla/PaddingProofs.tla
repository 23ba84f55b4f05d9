---------------------------- MODULE PaddingProofs ----------------------------
(***************************************************************************)
(* What cutting off the padding leaves of a file of any length.            *)
(***************************************************************************)
EXTENDS Padding, SequenceTheorems, WellFoundedInduction, TLAPS

\* Every file has a last element that is not padding, or none.
LEMMA LastDataFacts ==
  ASSUME NEW f, Len(f) \in Nat
  PROVE  /\ LastData(f) \in 0..Len(f)
         /\ LastData(f) = 0 \/ f[LastData(f)] # Sub
         /\ \A i \in (LastData(f) + 1)..Len(f) : f[i] = Sub
<1> DEFINE T == {m \in 0..Len(f) : \A i \in (m + 1)..Len(f) : f[i] = Sub}
<1>1. T \subseteq Nat /\ Len(f) \in T
  OBVIOUS
<1>2. PICK m \in T : \A n \in T : <<n, m>> \notin OpToRel(<, Nat)
  BY <1>1, NatLessThanWellFounded, WFMin
<1>3. m \in Nat /\ \A n \in T : ~(n < m)
  BY <1>1, <1>2 DEF OpToRel
<1>4. m = 0 \/ f[m] # Sub
  <2> SUFFICES ASSUME m # 0, f[m] = Sub PROVE FALSE
    OBVIOUS
  <2>1. m - 1 \in T
    <3>1. m - 1 \in 0..Len(f)
      BY <1>3
    <3>2. \A i \in m..Len(f) : i = m \/ i \in (m + 1)..Len(f)
      BY <1>3
    <3>3. \A i \in m..Len(f) : f[i] = Sub
      BY <3>2
    <3>4. m - 1 + 1 = m
      BY <1>3
    <3>5. \A i \in (m - 1 + 1)..Len(f) : f[i] = Sub
      BY <3>3, <3>4
    <3> QED
      BY <3>1, <3>5
  <2>2. m - 1 < m
    BY <1>3
  <2> QED
    BY <1>3, <2>1, <2>2, Zenon
<1> QED
  BY <1>4 DEF LastData

\* What is left of a file without its padding is the beginning of the file.
LEMMA TrimFacts ==
  ASSUME NEW f, Len(f) \in Nat
  PROVE  /\ Len(Trim(f)) = LastData(f)
         /\ Trim(f) = SubSeq(f, 1, Len(Trim(f)))
<1> DEFINE m == LastData(f)
<1>1. m \in 0..Len(f)
  BY LastDataFacts
<1>2. Trim(f) = SubSeq(f, 1, m)
  BY DEF Trim
<1> HIDE DEF m
<1>3. Len(SubSeq(f, 1, m)) = m
  <2> DEFINE S == {f[i] : i \in 1..m}
  <2>1. \A i \in 1..m : f[i] \in S
    OBVIOUS
  <2> HIDE DEF S
  <2> QED
    BY <1>1, <2>1, SubSeqProperties
<1> QED
  BY <1>2, <1>3 DEF m
=============================================================================
