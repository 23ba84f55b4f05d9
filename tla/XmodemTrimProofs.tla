-------------------------- MODULE XmodemTrimProofs --------------------------
(***************************************************************************)
(* The loop that cuts the padding off a download cuts off all of it and    *)
(* nothing else, for files of any length.                                  *)
(***************************************************************************)
EXTENDS XmodemTrim, PaddingProofs, SequenceTheorems, TLAPS

\* The beginning of a file, as long as it says.
LEMMA BeginningFacts ==
  ASSUME NEW f \in Seq(Bytes), NEW n \in 0..Len(f)
  PROVE  /\ SubSeq(f, 1, n) \in Seq(Bytes) /\ Len(SubSeq(f, 1, n)) = n
         /\ \A i \in 1..n : SubSeq(f, 1, n)[i] = f[i]
<1>1. \A i \in 1..n : f[i] \in Bytes
  OBVIOUS
<1> QED
  BY <1>1, SubSeqProperties

\* The beginning of a beginning is a beginning.
LEMMA BeginningOfBeginning ==
  ASSUME NEW f \in Seq(Bytes), NEW n \in 0..Len(f), NEW m \in 0..n
  PROVE  SubSeq(SubSeq(f, 1, n), 1, m) = SubSeq(f, 1, m)
<1> DEFINE g == SubSeq(f, 1, n)
<1>1. g \in Seq(Bytes) /\ Len(g) = n /\ \A i \in 1..n : g[i] = f[i]
  BY BeginningFacts
<1> HIDE DEF g
<1>2. m \in 0..Len(g) /\ m \in 0..Len(f)
  BY <1>1
<1>3. /\ SubSeq(g, 1, m) \in Seq(Bytes) /\ Len(SubSeq(g, 1, m)) = m
      /\ \A i \in 1..m : SubSeq(g, 1, m)[i] = g[i]
  BY <1>1, <1>2, BeginningFacts
<1>4. /\ SubSeq(f, 1, m) \in Seq(Bytes) /\ Len(SubSeq(f, 1, m)) = m
      /\ \A i \in 1..m : SubSeq(f, 1, m)[i] = f[i]
  BY <1>2, BeginningFacts
<1>5. \A i \in 1..m : SubSeq(g, 1, m)[i] = SubSeq(f, 1, m)[i]
  <2>1. \A i \in 1..m : i \in 1..n
    OBVIOUS
  <2> QED
    BY <1>1, <1>3, <1>4, <2>1
<1> DEFINE x == SubSeq(g, 1, m)
           y == SubSeq(f, 1, m)
<1>6. x \in Seq(Bytes) /\ y \in Seq(Bytes) /\ Len(x) = Len(y) /\ \A i \in 1..Len(x) : x[i] = y[i]
  BY <1>3, <1>4, <1>5
<1> HIDE DEF x, y
<1>7. x = y
  BY <1>6, SeqEqual
<1> QED
  BY <1>7 DEF g, x, y

LEMMA TrimInit == Init => TrimInv
<1> SUFFICES ASSUME Init PROVE TrimInv
  OBVIOUS
<1>1. /\ received \in Seq(Bytes) /\ received \in Downloads /\ disk = received
      /\ position = Len(received) /\ last_byte \in Bytes /\ complete = FALSE
      /\ Len(received) \in Nat
  BY TrimAssumption DEF Init
<1>2. disk = SubSeq(received, 1, Size)
  BY <1>1, SubSeqFull DEF Size
<1>3. LastData(received) <= Size
  BY <1>1, LastDataFacts DEF Size
<1> QED
  <2>1. TypeOK
    BY <1>1 DEF TypeOK
  <2>2. Size <= Len(received) /\ position \in {Size, Size + 1} /\ CompleteIsTrimmed
    BY <1>1 DEF Size, CompleteIsTrimmed
  <2> QED
    BY <1>2, <1>3, <2>1, <2>2 DEF TrimInv

LEMMA TrimStep == TrimInv /\ [Next]_vars => TrimInv'
<1> SUFFICES ASSUME TrimInv, [Next]_vars PROVE TrimInv'
  OBVIOUS
<1>1. /\ received \in Downloads /\ received \in Seq(Bytes) /\ disk \in Seq(Bytes)
      /\ last_byte \in Bytes /\ complete \in BOOLEAN
      /\ Size \in Nat /\ Len(received) \in Nat /\ Size <= Len(received)
      /\ position \in {Size, Size + 1} /\ Sub \in Bytes
      /\ disk = SubSeq(received, 1, Size)
  <2>1. TypeOK /\ Size <= Len(received) /\ position \in {Size, Size + 1}
        /\ disk = SubSeq(received, 1, Size)
    BY DEF TrimInv
  <2>2. received \in Seq(Bytes) /\ disk \in Seq(Bytes)
    BY <2>1, TrimAssumption DEF TypeOK
  <2>3. Size \in Nat /\ Len(received) \in Nat
    BY <2>2 DEF Size
  <2> QED
    BY <2>1, <2>2, <2>3, TrimAssumption DEF TypeOK
<1>2. /\ LastData(received) \in 0..Size
      /\ LastData(received) = 0 \/ received[LastData(received)] # Sub
      /\ \A i \in (LastData(received) + 1)..Len(received) : received[i] = Sub
  BY <1>1, LastDataFacts DEF TrimInv
<1>3. Size > 0 => disk[Size] = received[Size] /\ Size \in 1..Len(received)
  BY <1>1, BeginningFacts
<1>4. ByteRead \in Bytes
  BY <1>1 DEF ByteRead, Size
<1>5. CASE UNCHANGED vars
  BY <1>5 DEF vars, TrimInv, TypeOK, CompleteIsTrimmed, Size
<1>6. CASE CutSub
  <2>1. /\ received' = received /\ complete' = complete /\ ~complete /\ ByteRead = Sub
        /\ last_byte' = ByteRead
        /\ position' = IF Size = 0 THEN position ELSE Size
        /\ disk' = IF position = 0 THEN disk ELSE SubSeq(disk, 1, position - 1)
    BY <1>6 DEF CutSub, ReadLastByte, Truncate
  <2>2. Size > 0 => LastData(received) < Size
    BY <1>2, <1>3, <2>1 DEF ByteRead
  <2>3. PICK n \in 0..Size : /\ disk' = SubSeq(disk, 1, n) /\ LastData(received) <= n
                             /\ position' \in {n, n + 1}
    <3>1. CASE position = 0
      <4>1. Size = 0 /\ disk' = disk /\ position' = 0
        BY <1>1, <2>1, <3>1
      <4>2. disk = SubSeq(disk, 1, 0)
        BY <1>1, <4>1, BeginningOfBeginning
      <4> QED
        BY <1>2, <4>1, <4>2
    <3>2. CASE position > 0
      <4>1. position - 1 \in 0..Size /\ disk' = SubSeq(disk, 1, position - 1)
        BY <1>1, <2>1, <3>2
      <4>2. LastData(received) <= position - 1
        <5> DEFINE m == LastData(received)
        <5>1. m \in 0..Size /\ (Size > 0 => m < Size)
          BY <1>2, <2>2
        <5> HIDE DEF m
        <5>2. m <= position - 1
          BY <1>1, <3>2, <5>1
        <5> QED
          BY <5>2 DEF m
      <4>3. position' \in {position - 1, position - 1 + 1}
        BY <1>1, <2>1, <3>2
      <4> QED
        BY <4>1, <4>2, <4>3
    <3> QED
      BY <1>1, <3>1, <3>2
  <2>4. disk' = SubSeq(received, 1, n)
    BY <1>1, <2>3, BeginningOfBeginning
  <2>5. disk' \in Seq(Bytes) /\ Len(disk') = n
    BY <1>1, <2>4, BeginningFacts
  <2>6. position' \in Nat
    BY <1>1, <2>1
  <2>7. TypeOK'
    BY <1>1, <1>4, <2>1, <2>5, <2>6 DEF TypeOK
  <2>8. Size' = n /\ Size' <= Len(received') /\ position' \in {Size', Size' + 1}
    <3>1. n \in Nat /\ n <= Len(received) /\ received' = received
      BY <1>1, <2>1
    <3>2. Size' = n
      BY <2>5 DEF Size
    <3> QED
      BY <2>3, <3>1, <3>2
  <2>9. CompleteIsTrimmed'
    BY <2>1 DEF CompleteIsTrimmed
  <2>10. disk' = SubSeq(received', 1, Size') /\ LastData(received') <= Size'
    BY <2>1, <2>3, <2>4, <2>8
  <2> QED
    BY <2>7, <2>8, <2>9, <2>10 DEF TrimInv
<1>7. CASE Finish
  <2>1. /\ UNCHANGED <<received, disk>> /\ complete' = TRUE /\ ByteRead # Sub
        /\ last_byte' = ByteRead
        /\ position' = IF Size = 0 THEN position ELSE Size
    BY <1>7 DEF Finish, ReadLastByte
  <2>2. LastData(received) = Size
    <3>1. CASE Size = 0
      BY <1>2, <3>1
    <3>2. CASE Size > 0
      <4>1. received[Size] # Sub /\ Size \in 1..Len(received)
        BY <1>3, <2>1, <3>2 DEF ByteRead
      <4>2. ~(Size \in (LastData(received) + 1)..Len(received))
        BY <1>2, <4>1
      <4> QED
        BY <1>1, <1>2, <4>1, <4>2
    <3> QED
      BY <1>1, <3>1, <3>2
  <2>3. disk = Trim(received)
    BY <1>1, <2>2 DEF Trim
  <2> QED
    BY <1>1, <1>2, <1>4, <2>1, <2>3 DEF TrimInv, TypeOK, CompleteIsTrimmed, Size
<1> QED
  BY <1>5, <1>6, <1>7 DEF Next

\* The loop keeps its invariant.
THEOREM TrimInvariant == Spec => []TrimInv
  BY TrimInit, TrimStep, PTL DEF Spec

\* A file that is reported complete has lost its padding and nothing else.
THEOREM TrimmedSafety == Spec => []CompleteIsTrimmed
<1>1. TrimInv => CompleteIsTrimmed
  BY DEF TrimInv
<1> QED
  BY <1>1, TrimInvariant, PTL

\* While the loop runs, and after a crash in the middle of it, the disk holds
\* the beginning of what was received with every byte of data in it.
THEOREM DataSafety == Spec => []KeepsData
<1>1. TrimInv => KeepsData
  <2> SUFFICES ASSUME TrimInv PROVE KeepsData
    OBVIOUS
  <2> DEFINE m == LastData(received)
             l == LastData(disk)
  <2>1. /\ received \in Seq(Bytes) /\ disk \in Seq(Bytes) /\ Size \in 0..Len(received)
        /\ Len(received) \in Nat /\ Len(disk) = Size /\ disk = SubSeq(received, 1, Size)
    <3>1. received \in Seq(Bytes) /\ disk \in Seq(Bytes) /\ Size <= Len(received)
      BY TrimAssumption DEF TrimInv, TypeOK
    <3>2. Size \in Nat /\ Len(received) \in Nat /\ Len(disk) = Size
      BY <3>1 DEF Size
    <3>3. disk = SubSeq(received, 1, Size)
      BY DEF TrimInv
    <3> QED
      BY <3>1, <3>2, <3>3
  <2>0. Size \in Nat /\ Size <= Len(received) /\ Len(received) \in Nat /\ Len(disk) = Size
    BY <2>1
  <2>2. \A i \in 1..Size : disk[i] = received[i]
    BY <2>1, BeginningFacts
  <2>3. /\ m \in 0..Len(received) /\ m <= Size
        /\ m = 0 \/ received[m] # Sub
        /\ \A i \in (m + 1)..Len(received) : received[i] = Sub
    <3>1. m <= Size
      BY DEF TrimInv
    <3> QED
      BY <2>0, <3>1, LastDataFacts
  <2>4. /\ l \in 0..Len(disk)
        /\ l = 0 \/ disk[l] # Sub
        /\ \A i \in (l + 1)..Len(disk) : disk[i] = Sub
    <3>1. Len(disk) \in Nat
      BY <2>0
    <3> QED
      BY <3>1, LastDataFacts
  <2> HIDE DEF m, l
  <2>5. l = m
    <3>1. CASE l < m
      <4>1. m \in (l + 1)..Len(disk) /\ m \in 1..Size /\ m # 0
        BY <2>0, <2>3, <2>4, <3>1
      <4>2. disk[m] = Sub /\ disk[m] = received[m]
        BY <2>2, <2>4, <4>1
      <4> QED
        BY <2>3, <4>1, <4>2
    <3>2. CASE m < l
      <4>1. l \in (m + 1)..Len(received) /\ l \in 1..Size /\ l # 0
        BY <2>0, <2>3, <2>4, <3>2
      <4>2. received[l] = Sub /\ disk[l] = received[l]
        BY <2>2, <2>3, <4>1
      <4> QED
        BY <2>4, <4>1, <4>2
    <3> QED
      BY <2>0, <2>3, <2>4, <3>1, <3>2
  <2>6. SubSeq(disk, 1, m) = SubSeq(received, 1, m)
    <3>1. Size \in Nat /\ m \in Nat /\ m <= Size
      BY <2>0, <2>3
    <3>2. m \in 0..Size
      BY <3>1
    <3> QED
      BY <2>1, <3>2, BeginningOfBeginning
  <2>7. Trim(disk) = Trim(received)
    BY <2>5, <2>6 DEF Trim, m, l
  <2> QED
    BY <2>1, <2>7 DEF KeepsData
<1> QED
  BY <1>1, TrimInvariant, PTL
=============================================================================
