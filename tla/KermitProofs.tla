----------------------------- MODULE KermitProofs ----------------------------
(***************************************************************************)
(* Theorems about Kermit, for all batches, windows, sequence numbers,      *)
(* limits and faults.  First type correctness: the rings and windows fit   *)
(* into their arrays, and what is written is written to a file of the      *)
(* batch.  Then the streams: what the two programs know of each other, and *)
(* what of the files is on disk.                                           *)
(***************************************************************************)
EXTENDS Kermit, FiniteSetTheorems, SequenceTheorems, WellFoundedInduction, TLAPS

-----------------------------------------------------------------------------
(* Numbers *)

\* A set of naturals with a bound has a least element.
LEMMA LeastExists ==
  ASSUME NEW k \in Nat, NEW S, S \subseteq 0 .. k, S # {}
  PROVE  \E x \in S : \A y \in S : x <= y
<1> DEFINE below(x) == S \cap (0 .. x)
           T == {below(x) : x \in S}
<1>1. IsFiniteSet(0 .. k)
  BY FS_Interval
<1>2. IsFiniteSet(S)
  BY <1>1, FS_Subset
<1>3. FiniteSubsetsOf(S) = SUBSET S
  BY <1>2, FS_FiniteSubsetsOfFinite
<1>4. IsWellFoundedOn(StrictSubsetOrdering(S), SUBSET S)
  BY <1>3, FS_StrictSubsetOrderingWellFounded
<1>5. T \subseteq SUBSET S /\ T # {}
  OBVIOUS
<1> HIDE DEF T
<1>6. PICK U \in T : \A V \in T : <<V, U>> \notin StrictSubsetOrdering(S)
  BY <1>4, <1>5, WFMin
<1>7. PICK x \in S : U = below(x)
  BY DEF T
<1>8. SUFFICES ASSUME NEW y \in S, y < x PROVE FALSE
  BY <1>7
<1>9. below(y) \in T
  BY DEF T
<1>10. below(y) \subseteq below(x) /\ x \in below(x) /\ x \notin below(y)
  BY <1>8
<1>11. <<below(y), below(x)>> \in StrictSubsetOrdering(S)
  BY <1>10 DEF StrictSubsetOrdering
<1>12. QED
  BY <1>6, <1>7, <1>9, <1>11

LEMMA MinFacts ==
  ASSUME NEW k \in Nat, NEW S, S \subseteq 0 .. k, S # {}
  PROVE  Min(S) \in S /\ \A y \in S : Min(S) <= y
BY LeastExists DEF Min

LEMMA ModFacts ==
  ASSUME NEW a \in Int, NEW n \in Nat \ {0}
  PROVE  a % n \in 0 .. n - 1 /\ a % n \in Nat
OBVIOUS

\* Among finitely many naturals there is a first, a second, and so on.
LEMMA RankExists ==
  ASSUME NEW k \in Nat, NEW S, S \subseteq 0 .. k, NEW i \in 1 .. Cardinality(S)
  PROVE  \E j \in S : Cardinality({h \in S : h <= j}) = i
<1> DEFINE upTo(j) == {h \in S : h <= j}
           Bad == {m \in 0 .. Cardinality(S) :
                     m >= 1 /\ ~\E j \in S : Cardinality(upTo(j)) = m}
<1>1. IsFiniteSet(S) /\ Cardinality(S) \in Nat
  <2>1. IsFiniteSet(0 .. k)
    BY FS_Interval
  <2>2. QED
    BY <2>1, FS_Subset, FS_CardinalityType
<1>2. SUFFICES Bad = {}
  BY <1>1
<1>3. SUFFICES ASSUME Bad # {} PROVE FALSE
  OBVIOUS
<1>4. PICK m \in Bad : \A y \in Bad : m <= y
  <2>1. Bad \subseteq 0 .. Cardinality(S)
    OBVIOUS
  <2> HIDE DEF Bad
  <2>2. QED
    BY <1>1, <1>3, <2>1, LeastExists
<1>5. m \in Nat /\ 1 <= m /\ m <= Cardinality(S)
  BY <1>1, <1>4
<1>6. \A j \in S : Cardinality(upTo(j)) # m
  BY <1>4
<1>7. \E P \in SUBSET S : /\ Cardinality(P) = m - 1
                          /\ \A h \in S, p \in P : h <= p => h \in P
  <2>1. CASE m = 1
    BY <2>1, FS_EmptySet
  <2>2. CASE m # 1
    <3>1. m - 1 \in 0 .. Cardinality(S) /\ m - 1 >= 1 /\ m - 1 \notin Bad
      BY <1>1, <1>4, <1>5, <2>2
    <3>2. PICK j \in S : Cardinality(upTo(j)) = m - 1
      BY <3>1
    <3>3. \A h \in S, p \in upTo(j) : h <= p => h \in upTo(j)
      OBVIOUS
    <3>4. QED
      BY <3>2, <3>3
  <2>3. QED
    BY <2>1, <2>2
<1>8. PICK P \in SUBSET S : /\ Cardinality(P) = m - 1
                            /\ \A h \in S, p \in P : h <= p => h \in P
  BY <1>7
<1>9. S \ P # {}
  <2>1. SUFFICES ASSUME S \ P = {} PROVE FALSE
    OBVIOUS
  <2>2. S = P
    BY <2>1
  <2>3. QED
    BY <1>1, <1>5, <1>8, <2>2
<1>10. PICK j \in S \ P : \A y \in S \ P : j <= y
  BY <1>9, LeastExists
<1>11. upTo(j) = P \cup {j}
  <2>1. ASSUME NEW h \in S PROVE h <= j <=> h \in P \/ h = j
    <3>1. h \in Nat /\ j \in Nat
      BY <1>10
    <3>2. CASE h \in P
      <4>1. ~(j <= h)
        BY <1>8, <1>10, <3>2
      <4>2. QED
        BY <3>1, <3>2, <4>1
    <3>3. CASE h \notin P
      <4>1. j <= h
        BY <1>10, <3>3
      <4>2. QED
        BY <3>1, <3>3, <4>1
    <3>4. QED
      BY <3>2, <3>3
  <2>2. QED
    BY <1>10, <2>1
<1>12. Cardinality(P \cup {j}) = m
  <2>1. IsFiniteSet(P)
    BY <1>1, FS_Subset
  <2>2. Cardinality(P \cup {j}) = Cardinality(P) + 1
    BY <1>10, <2>1, FS_AddElement
  <2>3. m \in Nat
    BY <1>5
  <2>4. QED
    BY <1>8, <2>2, <2>3
<1>13. QED
  BY <1>6, <1>10, <1>11, <1>12

-----------------------------------------------------------------------------
(***************************************************************************)
(* The inductive type invariant: TypeOK with the types of all fields, the  *)
(* files that FILE packets and the programs' positions refer to, and the   *)
(* timeouts that a program that goes on still has.                         *)
(***************************************************************************)
PacketSet == {p \in Packets : p.type = "FILE" => p.n \in Files}

SlotSet == [type : Types \cup {"none"}, seq : Nat, acked : BOOLEAN, n : Nat]

RcvFields ==
  [state : States, seq : Nat, mode : {"streaming", "opening", "windows"},
   begin : Nat, count : Nat, slots : [0 .. WindowSize - 1 -> SlotSet],
   last : Seq(PacketSet), open : BOOLEAN, file : Files, disk : [Files -> Seq(Nat)],
   closed : SUBSET Files, skip : BOOLEAN, timeouts : 0 .. TimeoutMax]

RcvSet == {r \in RcvFields : r.begin \in 0 .. Slots(r) - 1 /\ r.count \in 0 .. Slots(r)}

SndFields ==
  [state : States, seq : Nat, mode : {"streaming", "opening", "bare", "windows"},
   pos : Nat, file : 1 .. Len(Batch) + 1,
   window : Seq([packet : PacketSet, acked : BOOLEAN]), skip : BOOLEAN,
   timeouts : 0 .. TimeoutMax]

SndSet ==
  {s \in SndFields :
     /\ Len(s.window) <= Slots(s)
     /\ s.state \in {"OFF", "S", "SF", "SA", "SDW", "SZ"} => s.file \in Files
     /\ s.state \in {"OFF", "S"} => s.mode # "windows"
     /\ s.state = "OFF" => s.window = <<>>
     /\ Streaming(s) => \A k \in DOMAIN s.window : s.window[k].acked}

\* A program that has not ended may time out once more.
Patient(x) == x.timeouts < TimeoutMax \/ Ended(x)

Typed ==
  /\ scenario \in Scenarios /\ faults \in 0 .. scenario.most
  /\ snd \in SndSet /\ Patient(snd)
  /\ rcv \in RcvSet /\ Patient(rcv)
  /\ rcv.mode = "streaming" <=> scenario.streaming
  /\ down \in Seq(PacketSet) /\ up \in Seq(PacketSet)

-----------------------------------------------------------------------------
(* Constants and packets *)

LEMMA ConstantFacts ==
  /\ WindowSize \in Nat \ {0, 1} /\ SeqCount \in Nat \ {0} /\ TimeoutMax \in Nat \ {0}
  /\ Len(Batch) \in Nat \ {0} /\ Files = 1 .. Len(Batch)
  /\ \A f \in Files : Batch[f] \in Seq(Nat \ {0})
BY KermitAssumption DEF KermitAssumption, Files

LEMMA PacketType ==
  ASSUME NEW type \in Types, NEW seq \in Nat,
         NEW note \in {"", "init", "name", "pos", "skip"}, NEW n \in Nat,
         type = "FILE" => n \in Files
  PROVE  Packet(type, seq, note, n) \in PacketSet
BY DEF Packet, PacketSet, Packets

LEMMA PlainType ==
  ASSUME NEW type \in Types \ {"FILE"}, NEW seq \in Nat
  PROVE  Plain(type, seq) \in PacketSet
BY PacketType DEF Plain

LEMMA ErrorType ==
  ASSUME NEW x, x.seq \in Nat
  PROVE  Error(x) \in PacketSet
<1>1. x.seq % SeqCount \in Nat
  BY ConstantFacts
<1>2. QED
  BY <1>1, PlainType DEF Error, Types

LEMMA PacketFields ==
  ASSUME NEW p \in PacketSet
  PROVE  /\ p.type \in Types /\ p.seq \in Nat /\ p.n \in Nat
         /\ p.type = "FILE" => p.n \in Files
BY DEF PacketSet, Packets

-----------------------------------------------------------------------------
(* The ring *)

LEMMA SlotsType ==
  ASSUME NEW x
  PROVE  Slots(x) \in 1 .. WindowSize
BY ConstantFacts DEF Slots

LEMMA AtType ==
  ASSUME NEW r \in RcvSet, NEW k \in Nat
  PROVE  At(r, k) \in 0 .. Slots(r) - 1 /\ At(r, k) \in 0 .. WindowSize - 1
<1>1. Slots(r) \in 1 .. WindowSize
  BY SlotsType
<1>2. r.begin + k \in Nat
  BY DEF RcvSet, RcvFields
<1>3. (r.begin + k) % Slots(r) \in 0 .. Slots(r) - 1
  BY <1>1, <1>2, ConstantFacts
<1>4. QED
  BY <1>1, <1>3, ConstantFacts DEF At

LEMMA RingFacts ==
  ASSUME NEW r \in RcvSet
  PROVE  /\ End(r) \in 0 .. Slots(r) - 1
         /\ End(r) \in 0 .. WindowSize - 1
         /\ Newest(r) \in 0 .. WindowSize - 1
         /\ r.begin \in 0 .. WindowSize - 1
         /\ r.count \in 0 .. WindowSize /\ r.count \in 0 .. Slots(r)
         /\ Missing(r) \subseteq 0 .. WindowSize
         /\ Missing(r) \subseteq 0 .. r.count - 1
         /\ Missing(r) # {} => Min(Missing(r)) \in Missing(r)
         /\ \A i \in 0 .. WindowSize - 1 : r.slots[i] \in SlotSet
<1>1. Slots(r) \in 1 .. WindowSize /\ WindowSize \in Nat
  BY SlotsType, ConstantFacts
<1>2. /\ r.begin \in 0 .. Slots(r) - 1 /\ r.count \in 0 .. Slots(r)
      /\ r.slots \in [0 .. WindowSize - 1 -> SlotSet]
  BY DEF RcvSet, RcvFields
<1>3. End(r) \in 0 .. Slots(r) - 1 /\ End(r) \in 0 .. WindowSize - 1
  <2>1. r.count \in Nat
    BY <1>1, <1>2
  <2>2. QED
    BY <2>1, AtType DEF End
<1>4. Newest(r) \in 0 .. WindowSize - 1
  BY <1>1, <1>3 DEF Newest
<1>5. Missing(r) \subseteq 0 .. WindowSize /\ Missing(r) \subseteq 0 .. r.count - 1
  BY <1>1, <1>2 DEF Missing
<1>6. Missing(r) # {} => Min(Missing(r)) \in Missing(r)
  BY <1>1, <1>5, MinFacts
<1>7. QED
  BY <1>1, <1>2, <1>3, <1>4, <1>5, <1>6

-----------------------------------------------------------------------------
(* What is written *)

LEMMA UnitsType ==
  ASSUME NEW r \in RcvSet, NEW k \in 0 .. r.count
  PROVE  Units(r, k) \in Seq(Nat)
<1> DEFINE Slot(j) == r.slots[At(r, j)]
           held == {j \in 0 .. k - 1 : Slot(j).acked /\ Slot(j).type = "DATA" /\ Slot(j).n # 0}
           Place(i) == CHOOSE j \in held : Cardinality({h \in held : h <= j}) = i
<1>1. r.count \in Nat /\ k \in Nat
  BY RingFacts, ConstantFacts
<1>2. held \subseteq 0 .. k /\ held \subseteq Nat
  BY <1>1
<1>3. Cardinality(held) \in Nat
  <2>1. IsFiniteSet(0 .. k)
    BY <1>1, FS_Interval
  <2>2. QED
    BY <1>2, <2>1, FS_Subset, FS_CardinalityType
<1>4. \A j \in Nat : Slot(j) \in SlotSet
  BY AtType, RingFacts
<1>5. ASSUME NEW i \in 1 .. Cardinality(held) PROVE Slot(Place(i)).n \in Nat
  <2> HIDE DEF held, Slot
  <2>1. \E j \in held : Cardinality({h \in held : h <= j}) = i
    <3>1. k \in Nat /\ held \subseteq 0 .. k
      BY <1>1, <1>2
    <3>2. \A S : S \subseteq 0 .. k =>
            \A m \in 1 .. Cardinality(S) :
              \E j \in S : Cardinality({h \in S : h <= j}) = m
      BY <3>1, RankExists
    <3>3. QED
      BY Zenon, <3>1, <3>2
  <2>2. Place(i) \in held
    BY <2>1
  <2> HIDE DEF Place
  <2>3. Slot(Place(i)) \in SlotSet
    BY <1>2, <1>4, <2>2
  <2>4. QED
    BY <2>3 DEF SlotSet
<1>6. Units(r, k) = [i \in 1 .. Cardinality(held) |-> Slot(Place(i)).n]
  BY DEF Units
<1> HIDE DEF held, Slot, Place
<1>7. QED
  BY <1>3, <1>5, <1>6

\* What moving, filling and writing the ring changes, and what it does not.
RingStep(r, s) ==
  /\ s \in RcvSet
  /\ s.mode = r.mode /\ s.timeouts = r.timeouts
  /\ s.state \in {r.state, "CRASH"}

LEMMA RingStepIf ==
  ASSUME NEW r \in RcvSet, NEW s \in RcvFields,
         s.mode = r.mode, s.timeouts = r.timeouts, s.state \in {r.state, "CRASH"},
         s.begin \in 0 .. Slots(r) - 1, s.count \in 0 .. Slots(r)
  PROVE  RingStep(r, s)
<1>1. Slots(s) = Slots(r)
  BY DEF Slots
<1>2. QED
  BY <1>1 DEF RingStep, RcvSet

LEMMA WrittenStep ==
  ASSUME NEW r \in RcvSet, NEW units \in Seq(Nat)
  PROVE  /\ RingStep(r, Written(r, units))
         /\ Written(r, units).slots = r.slots
         /\ Written(r, units).begin = r.begin
         /\ Written(r, units).count = r.count
<1>1. CASE units = <<>>
  BY <1>1 DEF Written, RingStep
<1>2. CASE units # <<>> /\ r.open
  <2>1. r.disk \in [Files -> Seq(Nat)] /\ r.file \in Files
    BY DEF RcvSet, RcvFields
  <2> DEFINE after == [r.disk EXCEPT ![r.file] = @ \o units]
  <2>2. r.disk[r.file] \o units \in Seq(Nat)
    BY <2>1
  <2>3. after \in [Files -> Seq(Nat)]
    BY <2>1, <2>2
  <2>4. Written(r, units) = [r EXCEPT !.disk = after]
    BY <1>2 DEF Written, RcvSet, RcvFields
  <2> HIDE DEF after
  <2>5. QED
    BY <2>3, <2>4 DEF RingStep, RcvSet, RcvFields, Slots
<1>3. CASE units # <<>> /\ ~r.open
  BY <1>3 DEF Written, RingStep, RcvSet, RcvFields, Slots, States
<1>4. QED
  BY <1>1, <1>2, <1>3

LEMMA GapType ==
  ASSUME NEW seq \in Nat
  PROVE  Gap(seq) \in SlotSet
BY DEF Gap, Blank, SlotSet

LEMMA HeldType ==
  ASSUME NEW p \in PacketSet
  PROVE  Held(p) \in SlotSet
BY PacketFields DEF Held, SlotSet

LEMMA RolledOffStep ==
  ASSUME NEW r \in RcvSet, NEW k \in 0 .. r.count
  PROVE  /\ RingStep(r, RolledOff(r, k))
         /\ RolledOff(r, k).count = r.count - k
<1> DEFINE w == Written(r, Units(r, k))
           freed == {At(r, j) : j \in 0 .. k - 1}
           slots == [i \in DOMAIN r.slots |->
                       IF i \in freed THEN Gap(r.slots[i].seq) ELSE r.slots[i]]
<1>1. r.count \in Nat /\ k \in Nat /\ r.count - k \in Nat /\ r.count <= Slots(r)
  BY RingFacts, SlotsType, ConstantFacts
<1>2. /\ RingStep(r, w) /\ w.slots = r.slots /\ w.begin = r.begin /\ w.count = r.count
  BY UnitsType, WrittenStep
<1>3. slots \in [0 .. WindowSize - 1 -> SlotSet]
  <2>1. r.slots \in [0 .. WindowSize - 1 -> SlotSet]
    BY DEF RcvSet, RcvFields
  <2>2. \A i \in 0 .. WindowSize - 1 : Gap(r.slots[i].seq) \in SlotSet
    BY <2>1, GapType DEF SlotSet
  <2>3. QED
    BY <2>1, <2>2
<1>4. At(r, k) \in 0 .. Slots(r) - 1
  BY <1>1, AtType
<1>5. RolledOff(r, k) =
        [w EXCEPT !.begin = At(r, k), !.count = r.count - k, !.slots = slots]
  BY <1>2 DEF RolledOff, RingStep, RcvSet, RcvFields
<1>6. Slots(w) = Slots(r) /\ Slots(r) \in Nat
  BY <1>2, SlotsType, ConstantFacts DEF Slots, RingStep
<1>7. w \in RcvFields
  BY <1>2 DEF RingStep, RcvSet
<1>8. /\ At(r, k) \in Nat /\ At(r, k) \in 0 .. Slots(r) - 1
      /\ r.count - k \in 0 .. Slots(r)
  BY <1>1, <1>4, <1>6
<1> HIDE DEF w, slots
<1> DEFINE s == RolledOff(r, k)
<1>9. /\ s \in RcvFields /\ s.begin = At(r, k) /\ s.count = r.count - k
      /\ s.mode = w.mode /\ s.timeouts = w.timeouts /\ s.state = w.state
  BY <1>1, <1>3, <1>5, <1>7, <1>8 DEF RcvFields
<1> HIDE DEF s
<1>10. RingStep(r, s)
  BY <1>2, <1>8, <1>9, RingStepIf DEF RingStep
<1>11. QED
  BY <1>9, <1>10 DEF s

LEMMA AddedStep ==
  ASSUME NEW r \in RcvSet, NEW slot \in SlotSet, ~Full(r)
  PROVE  RingStep(r, Added(r, slot))
<1>1. r.count \in Nat /\ r.count + 1 \in 0 .. Slots(r)
  BY RingFacts, SlotsType, ConstantFacts DEF Full
<1> DEFINE slots == [r.slots EXCEPT ![End(r)] = slot]
<1>2. slots \in [0 .. WindowSize - 1 -> SlotSet]
  BY RingFacts DEF RcvSet, RcvFields
<1>3. Added(r, slot) = [r EXCEPT !.slots = slots, !.count = r.count + 1]
  BY DEF Added, RcvSet, RcvFields
<1> HIDE DEF slots
<1> DEFINE s == Added(r, slot)
<1>4. r \in RcvFields /\ r.count + 1 \in Nat
  BY <1>1 DEF RcvSet
<1>5. /\ s \in RcvFields /\ s.begin = r.begin /\ s.count = r.count + 1
      /\ s.mode = r.mode /\ s.timeouts = r.timeouts /\ s.state = r.state
  BY <1>4, <1>2, <1>3 DEF RcvFields
<1> HIDE DEF s
<1>6. r.begin \in 0 .. Slots(r) - 1
  BY DEF RcvSet
<1>7. RingStep(r, s)
  BY <1>1, <1>5, <1>6, RingStepIf
<1>8. QED
  BY <1>7 DEF s

LEMMA SavedAllStep ==
  ASSUME NEW r \in RcvSet
  PROVE  RingStep(r, SavedAll(r))
<1>1. (IF Missing(r) = {} THEN r.count ELSE Min(Missing(r))) \in 0 .. r.count
  BY RingFacts, ConstantFacts
<1>2. QED
  BY <1>1, RolledOffStep DEF SavedAll

LEMMA RingStepTransitive ==
  ASSUME NEW r \in RcvSet, NEW s, NEW t, RingStep(r, s), RingStep(s, t)
  PROVE  RingStep(r, t)
BY DEF RingStep

LEMMA WantedType ==
  ASSUME NEW r \in RcvSet
  PROVE  Wanted(r) \in Nat
<1>1. r.seq \in Nat /\ r.count \in Nat /\ WindowSize \in Nat
  BY ConstantFacts DEF RcvSet, RcvFields
<1>2. \A i \in 0 .. WindowSize - 1 : r.slots[i].seq \in Nat
  BY RingFacts DEF SlotSet
<1>3. CASE Missing(r) # {}
  <2>1. Min(Missing(r)) \in Nat
    BY <1>1, <1>3, RingFacts
  <2>2. At(r, Min(Missing(r))) \in 0 .. WindowSize - 1
    BY <2>1, AtType
  <2>3. QED
    BY <1>2, <1>3, <2>2 DEF Wanted
<1>4. CASE Missing(r) = {} /\ r.count = 0
  BY <1>1, <1>4 DEF Wanted
<1>5. CASE Missing(r) = {} /\ r.count # 0
  <2> DEFINE i == IF End(r) = 0 THEN r.count - 1 ELSE End(r) - 1
  <2>1. i \in 0 .. WindowSize - 1
    BY <1>1, <1>5, RingFacts
  <2>2. Wanted(r) = r.slots[i].seq + 1
    BY <1>5 DEF Wanted
  <2> HIDE DEF i
  <2>3. QED
    BY <1>2, <2>1, <2>2
<1>6. QED
  BY <1>3, <1>4, <1>5

LEMMA NakStep ==
  ASSUME NEW r \in RcvSet, NEW seq \in Nat
  PROVE  RingStep(r, Nak(r, seq).r) /\ Nak(r, seq).out \in Seq(PacketSet)
<1> DEFINE nak == <<Plain("NAK", IF r.seq = 0 /\ seq = 0 THEN 0 ELSE Wanted(r))>>
           rolled == RolledOff(r, 1)
<1>1. nak \in Seq(PacketSet) /\ <<>> \in Seq(PacketSet)
  <2>1. Plain("NAK", IF r.seq = 0 /\ seq = 0 THEN 0 ELSE Wanted(r)) \in PacketSet
    BY WantedType, PlainType DEF Types
  <2>2. QED
    BY <2>1
<1>2. RingStep(r, r)
  BY DEF RingStep
<1>3. ASSUME Full(r) PROVE RingStep(r, Added(rolled, Gap(seq)))
  <2>1. 1 \in 0 .. r.count /\ r.count = Slots(r) /\ Slots(r) \in Nat
    BY <1>3, SlotsType, ConstantFacts DEF Full
  <2>2. RingStep(r, rolled) /\ rolled.count = r.count - 1
    BY <2>1, RolledOffStep
  <2> HIDE DEF rolled
  <2>3. rolled \in RcvSet /\ ~Full(rolled)
    BY <2>1, <2>2 DEF RingStep, Full, Slots
  <2>4. RingStep(rolled, Added(rolled, Gap(seq)))
    BY <2>3, AddedStep, GapType
  <2>5. QED
    BY <2>2, <2>4, RingStepTransitive
<1> HIDE DEF nak, rolled
<1>4. \/ Nak(r, seq) = [r |-> r, out |-> nak]
      \/ Full(r) /\ Nak(r, seq) = [r |-> Added(rolled, Gap(seq)), out |-> nak]
      \/ Nak(r, seq) = [r |-> r, out |-> <<>>]
  BY DEF Nak, nak, rolled
<1>5. CASE Nak(r, seq) = [r |-> r, out |-> nak]
  BY <1>1, <1>2, <1>5
<1>6. CASE Full(r) /\ Nak(r, seq) = [r |-> Added(rolled, Gap(seq)), out |-> nak]
  BY <1>1, <1>3, <1>6
<1>7. CASE Nak(r, seq) = [r |-> r, out |-> <<>>]
  BY <1>1, <1>2, <1>7
<1>8. QED
  BY <1>4, <1>5, <1>6, <1>7

-----------------------------------------------------------------------------
(* save_input_packet() *)

LEMMA StoredStep ==
  ASSUME NEW r \in RcvSet, NEW i \in 0 .. WindowSize - 1, NEW p \in PacketSet
  PROVE  RingStep(r, Stored(r, i, p))
<1> DEFINE slots == [r.slots EXCEPT ![i] = Held(p)]
           kept == [r EXCEPT !.slots = slots]
           s == Stored(r, i, p)
           count == IF Full(r) THEN r.count ELSE r.count + 1
<1>1. slots \in [0 .. WindowSize - 1 -> SlotSet]
  BY HeldType DEF RcvSet, RcvFields
<1>2. r \in RcvFields /\ r.count \in Nat /\ r.seq \in Nat
  BY DEF RcvSet, RcvFields
<1>3. count \in 0 .. Slots(r) /\ count \in Nat
  BY RingFacts, SlotsType, ConstantFacts DEF Full
<1> HIDE DEF slots
<1>4. /\ kept \in RcvFields /\ kept.begin = r.begin /\ kept.count = r.count
      /\ kept.mode = r.mode /\ kept.timeouts = r.timeouts /\ kept.state = r.state
      /\ kept.seq = r.seq
  BY <1>1, <1>2 DEF RcvFields
<1>5. s = IF i # End(r) THEN kept ELSE [kept EXCEPT !.seq = r.seq + 1, !.count = count]
  BY <1>2, <1>4 DEF Stored, slots, Full, Slots, RcvFields
<1> HIDE DEF kept, s, count
<1>6. /\ s \in RcvFields /\ s.begin = r.begin /\ s.count \in {r.count, count}
      /\ s.mode = r.mode /\ s.timeouts = r.timeouts /\ s.state = r.state
  <2>1. CASE i # End(r)
    BY <1>4, <1>5, <2>1
  <2>2. CASE i = End(r)
    <3>1. s = [kept EXCEPT !.seq = r.seq + 1, !.count = count] /\ r.seq + 1 \in Nat
      BY <1>2, <1>5, <2>2
    <3>2. QED
      BY <1>3, <1>4, <3>1 DEF RcvFields
  <2>3. QED
    BY <2>1, <2>2
<1>7. r.begin \in 0 .. Slots(r) - 1 /\ r.count \in 0 .. Slots(r)
  BY DEF RcvSet
<1>8. RingStep(r, s)
  BY <1>3, <1>6, <1>7, RingStepIf
<1>9. QED
  BY <1>8 DEF s

LEMMA StoredNextStep ==
  ASSUME NEW r \in RcvSet, NEW p \in PacketSet, r.count # 0
  PROVE  RingStep(r, StoredNext(r, p))
<1> DEFINE rolled == IF Oldest(r).acked /\ Full(r) THEN RolledOff(r, 1)
                     ELSE IF Oldest(r).acked THEN Written(r, Units(r, 1)) ELSE r
<1>1. 1 \in 0 .. r.count
  BY RingFacts, ConstantFacts
<1>2. RingStep(r, RolledOff(r, 1)) /\ RingStep(r, Written(r, Units(r, 1)))
  BY <1>1, RolledOffStep, UnitsType, WrittenStep
<1>3. RingStep(r, rolled)
  BY <1>2 DEF RingStep
<1> HIDE DEF rolled
<1>4. rolled \in RcvSet
  BY <1>3 DEF RingStep
<1>5. RingStep(rolled, Stored(rolled, End(r), p))
  BY <1>4, RingFacts, StoredStep
<1>6. StoredNext(r, p) = Stored(rolled, End(r), p)
  BY DEF StoredNext, rolled
<1>7. QED
  BY <1>3, <1>5, <1>6, RingStepTransitive

LEMMA MinOfTwo ==
  ASSUME NEW a \in Nat, NEW b \in Nat
  PROVE  Min({a, b}) \in {a, b} /\ Min({a, b}) <= a /\ Min({a, b}) <= b
<1>1. \E x \in {a, b} : \A y \in {a, b} : x <= y
  <2>1. a <= b \/ b <= a
    OBVIOUS
  <2>2. QED
    BY <2>1
<1>2. QED
  BY <1>1 DEF Min

LEMMA WithGapsStep ==
  ASSUME NEW r \in RcvSet, NEW seq \in Nat
  PROVE  RingStep(r, WithGaps(r, seq))
<1> DEFINE last == r.slots[Newest(r)].seq
           gaps == Min({Slots(r) - r.count, (seq - last - 1) % SeqCount})
           slots == [i \in DOMAIN r.slots |->
                       LET k == (i - End(r)) % Slots(r)
                       IN IF i < Slots(r) /\ k < gaps
                          THEN Gap((last + 1 + k) % SeqCount) ELSE r.slots[i]]
           s == WithGaps(r, seq)
<1>1. /\ r \in RcvFields /\ r.begin \in 0 .. Slots(r) - 1
      /\ r.slots \in [0 .. WindowSize - 1 -> SlotSet]
  BY DEF RcvSet, RcvFields
<1>2. last \in Nat
  BY RingFacts DEF SlotSet
<1> HIDE DEF last
<1>3. /\ Slots(r) \in Nat \ {0} /\ r.count \in Nat /\ r.count <= Slots(r)
      /\ End(r) \in Nat /\ SeqCount \in Nat \ {0} /\ WindowSize \in Nat
  BY SlotsType, RingFacts, ConstantFacts
<1>4. Slots(r) - r.count \in Nat /\ (seq - last - 1) % SeqCount \in Nat
  BY <1>2, <1>3
<1>5. gaps \in Nat /\ gaps <= Slots(r) - r.count
  BY <1>4, MinOfTwo
<1> HIDE DEF gaps
<1>6. ASSUME NEW i \in 0 .. WindowSize - 1 PROVE slots[i] \in SlotSet
  <2> DEFINE k == (i - End(r)) % Slots(r)
  <2>1. k \in Nat
    BY <1>3
  <2> HIDE DEF k
  <2>2. (last + 1 + k) % SeqCount \in Nat
    BY <1>2, <1>3, <2>1
  <2>3. Gap((last + 1 + k) % SeqCount) \in SlotSet
    BY <2>2, GapType
  <2>4. slots[i] = IF i < Slots(r) /\ k < gaps
                   THEN Gap((last + 1 + k) % SeqCount) ELSE r.slots[i]
    BY <1>1 DEF k
  <2>5. QED
    BY <1>1, <2>3, <2>4
<1>7. slots \in [0 .. WindowSize - 1 -> SlotSet]
  BY <1>1, <1>6
<1>8. s = [r EXCEPT !.slots = slots, !.count = r.count + gaps]
  BY <1>1 DEF WithGaps, gaps, last, RcvFields
<1>9. r.count + gaps \in Nat /\ r.count + gaps \in 0 .. Slots(r)
  BY <1>3, <1>5
<1> HIDE DEF slots, s
<1>10. /\ s \in RcvFields /\ s.begin = r.begin /\ s.count = r.count + gaps
       /\ s.mode = r.mode /\ s.timeouts = r.timeouts /\ s.state = r.state
  BY <1>1, <1>7, <1>8, <1>9 DEF RcvFields
<1>11. RingStep(r, s)
  BY <1>1, <1>9, <1>10, RingStepIf
<1>12. QED
  BY <1>11 DEF s

LEMMA StoredAheadStep ==
  ASSUME NEW r \in RcvSet, NEW p \in PacketSet
  PROVE  /\ RingStep(r, StoredAhead(r, p).r)
         /\ StoredAhead(r, p).out \in Seq(PacketSet)
<1> DEFINE nak == Nak(r, After(r.slots[Newest(r)].seq))
           all == SavedAll(nak.r)
           s == WithGaps(all, p.seq)
<1>1. After(r.slots[Newest(r)].seq) \in Nat
  <2>1. r.slots[Newest(r)].seq \in Nat
    BY RingFacts DEF SlotSet
  <2>2. QED
    BY <2>1, ConstantFacts DEF After
<1>2. RingStep(r, nak.r) /\ nak.out \in Seq(PacketSet)
  BY <1>1, NakStep
<1> HIDE DEF nak
<1>3. RingStep(nak.r, all)
  BY <1>2, SavedAllStep DEF RingStep
<1> HIDE DEF all
<1>4. RingStep(all, s)
  BY <1>3, PacketFields, WithGapsStep DEF RingStep
<1>5. RingStep(r, s)
  BY <1>2, <1>3, <1>4 DEF RingStep
<1> HIDE DEF s
<1>6. ~Full(s) => RingStep(s, Added(s, Held(p)))
  BY <1>5, AddedStep, HeldType DEF RingStep
<1>7. StoredAhead(r, p) = [r |-> IF Full(s) THEN s ELSE Added(s, Held(p)), out |-> nak.out]
  BY DEF StoredAhead, s, all, nak
<1>8. RingStep(r, IF Full(s) THEN s ELSE Added(s, Held(p)))
  BY <1>5, <1>6 DEF RingStep
<1>9. QED
  BY <1>2, <1>7, <1>8

LEMMA SaveStep ==
  ASSUME NEW r \in RcvSet, NEW p \in PacketSet
  PROVE  RingStep(r, Save(r, p).r) /\ Save(r, p).out \in Seq(PacketSet)
<1>1. RingStep(r, Stored(r, End(r), p)) /\ RingStep(r, r)
  BY RingFacts, StoredStep DEF RingStep
<1>2. <<>> \in Seq(PacketSet)
  OBVIOUS
<1>3. CASE r.count = 0
  <2>1. Save(r, p) = [r |-> Stored(r, End(r), p), out |-> <<>>, taken |-> TRUE]
    BY <1>3 DEF Save
  <2>2. QED
    BY <1>1, <1>2, <2>1
<1>4. CASE r.count > 0 /\ IsNext(r, p.seq)
  <2>1. r.count # 0
    BY <1>4, RingFacts, ConstantFacts
  <2>2. Save(r, p) = [r |-> StoredNext(r, p), out |-> <<>>, taken |-> TRUE]
    BY <1>4, <2>1 DEF Save
  <2>3. QED
    BY <1>2, <2>1, <2>2, StoredNextStep
<1>5. CASE r.count > 0 /\ ~IsNext(r, p.seq) /\ IsAhead(r, p.seq)
  <2>1. r.count # 0
    BY <1>5, RingFacts, ConstantFacts
  <2>2. Save(r, p) =
          [r |-> StoredAhead(r, p).r, out |-> StoredAhead(r, p).out, taken |-> FALSE]
    BY <1>5, <2>1 DEF Save
  <2>3. QED
    BY <2>2, StoredAheadStep
<1>6. CASE r.count > 0 /\ ~IsNext(r, p.seq) /\ ~IsAhead(r, p.seq)
  <2>1. r.count # 0
    BY <1>6, RingFacts, ConstantFacts
  <2>2. CASE PlacesOf(r, p.seq) = {}
    <3>1. Save(r, p) = [r |-> r, out |-> <<>>, taken |-> FALSE]
      BY <1>6, <2>1, <2>2 DEF Save
    <3>2. QED
      BY <1>1, <1>2, <3>1
  <2>3. CASE PlacesOf(r, p.seq) # {}
    <3> DEFINE i == At(r, Min(PlacesOf(r, p.seq)))
    <3>1. PlacesOf(r, p.seq) \subseteq 0 .. r.count /\ r.count \in Nat
      BY RingFacts, ConstantFacts DEF PlacesOf
    <3>2. Min(PlacesOf(r, p.seq)) \in Nat
      BY <2>3, <3>1, MinFacts
    <3>3. i \in 0 .. WindowSize - 1
      BY <3>2, AtType
    <3>4. Save(r, p) = [r |-> Stored(r, i, p), out |-> <<>>, taken |-> TRUE]
      BY <1>6, <2>1, <2>3 DEF Save
    <3> HIDE DEF i
    <3>5. QED
      BY <1>2, <3>3, <3>4, StoredStep
  <2>4. QED
    BY <2>2, <2>3
<1>7. r.count = 0 \/ r.count > 0
  BY RingFacts, ConstantFacts
<1>8. QED
  BY <1>3, <1>4, <1>5, <1>6, <1>7

-----------------------------------------------------------------------------
(* The receiver's handlers *)

\* What a round of the receiver's loop makes of it, and what it sends.
RoundOf(r, c) ==
  /\ c.r \in RcvSet /\ c.out \in Seq(PacketSet)
  /\ c.r.timeouts = r.timeouts
  /\ c.r.mode = "streaming" <=> r.mode = "streaming"

\* Only the fields that no ring depends on differ.
Alike(r, s) ==
  /\ s \in RcvFields
  /\ s.mode = r.mode /\ s.begin = r.begin /\ s.count = r.count /\ s.timeouts = r.timeouts

LEMMA AlikeType ==
  ASSUME NEW r \in RcvSet, NEW s, Alike(r, s)
  PROVE  s \in RcvSet /\ RoundOf(r, Silent(s))
<1>1. Slots(s) = Slots(r)
  BY DEF Alike, Slots
<1>2. s \in RcvSet
  BY <1>1 DEF Alike, RcvSet
<1>3. QED
  BY <1>2 DEF RoundOf, Silent, Alike

LEMMA RepliesRound ==
  ASSUME NEW r \in RcvSet, NEW s \in RcvSet, RoundOf(r, Silent(s)), NEW reply \in PacketSet
  PROVE  RoundOf(r, Replies(s, reply))
<1> DEFINE t == [s EXCEPT !.last = <<reply>>]
<1>1. <<reply>> \in Seq(PacketSet)
  OBVIOUS
<1>2. s \in RcvFields
  BY DEF RcvSet
<1>3. Alike(s, t)
  BY <1>1, <1>2 DEF Alike, RcvFields
<1>4. t \in RcvSet /\ t.timeouts = s.timeouts /\ t.mode = s.mode
  BY <1>3, AlikeType DEF Alike
<1>5. Replies(s, reply) = [r |-> t, out |-> <<reply>>]
  BY DEF Replies
<1> HIDE DEF t
<1>6. QED
  BY <1>1, <1>4, <1>5 DEF RoundOf, Silent

LEMMA AbortedAlike ==
  ASSUME NEW r \in RcvSet
  PROVE  Alike(r, Aborted(r)) /\ Aborted(r).state = "ABORT" /\ Aborted(r).seq = r.seq
<1>1. r \in RcvFields
  BY DEF RcvSet
<1>2. QED
  BY <1>1 DEF Alike, Aborted, RcvFields, States

LEMMA WrongPacketRound ==
  ASSUME NEW r \in RcvSet
  PROVE  RoundOf(r, WrongPacket(r))
<1>1. Error(r) \in PacketSet
  BY ErrorType DEF RcvSet, RcvFields
<1>2. Aborted(r) \in RcvSet /\ RoundOf(r, Silent(Aborted(r)))
  BY AbortedAlike, AlikeType
<1>3. QED
  BY <1>1, <1>2, RepliesRound DEF WrongPacket

LEMMA AcksRound ==
  ASSUME NEW r \in RcvSet, NEW s \in RcvSet, RoundOf(r, Silent(s)), NEW p \in PacketSet,
         NEW really \in BOOLEAN
  PROVE  RoundOf(r, Acks(s, p, really))
<1> DEFINE t == [s EXCEPT !.skip = FALSE]
<1>1. s \in RcvFields
  BY DEF RcvSet
<1>2. Alike(s, t)
  BY <1>1 DEF Alike, RcvFields
<1>3. t \in RcvSet /\ RoundOf(r, Silent(t))
  BY <1>2, AlikeType DEF RoundOf, Silent, Alike
<1> HIDE DEF t
<1>4. Packet("ACK", p.seq, "skip", 0) \in PacketSet /\ Plain("ACK", p.seq) \in PacketSet
  BY PacketFields, PacketType, PlainType DEF Types
<1>5. /\ RoundOf(r, Replies(t, Packet("ACK", p.seq, "skip", 0)))
      /\ RoundOf(r, Replies(s, Plain("ACK", p.seq)))
  BY <1>3, <1>4, RepliesRound
<1>6. QED
  BY <1>5 DEF Acks, t

LEMMA ReceiveRRound ==
  ASSUME NEW r \in RcvSet, NEW p \in PacketSet,
         scenario.streaming \in BOOLEAN, r.mode = "streaming" <=> scenario.streaming
  PROVE  RoundOf(r, ReceiveR(r, p))
<1> DEFINE s == [r EXCEPT !.state = "RF", !.seq = 0, !.mode = NegotiatedMode(scenario)]
           t == [s EXCEPT !.begin = 0, !.count = 0,
                          !.slots = [i \in DOMAIN s.slots |-> Blank]]
           reply == Packet("ACK", 0, "init", 0)
<1>1. r \in RcvFields
  BY DEF RcvSet
<1>2. /\ s \in RcvFields /\ s.begin = r.begin /\ s.count = r.count
      /\ s.timeouts = r.timeouts /\ s.mode = NegotiatedMode(scenario)
  BY <1>1 DEF RcvFields, States, NegotiatedMode
<1>3. s.mode = "streaming" <=> r.mode = "streaming"
  BY <1>2 DEF NegotiatedMode
<1> HIDE DEF s
<1>4. reply \in PacketSet
  BY PacketType DEF Types
<1>5. CASE p.type # "SINIT"
  BY <1>5, WrongPacketRound DEF ReceiveR
<1>6. CASE p.type = "SINIT" /\ Streaming(s)
  <2>1. s \in RcvSet /\ RoundOf(r, Silent(s))
    BY <1>2, <1>3, <1>6, AlikeType DEF Alike, Streaming
  <2>2. ReceiveR(r, p) = Replies(s, reply)
    BY <1>6 DEF ReceiveR, s
  <2>3. QED
    BY <1>4, <2>1, <2>2, RepliesRound
<1>7. CASE p.type = "SINIT" /\ ~Streaming(s)
  <2>1. Blank \in SlotSet
    BY DEF Blank, SlotSet
  <2>2. [i \in DOMAIN s.slots |-> Blank] \in [0 .. WindowSize - 1 -> SlotSet]
    BY <1>2, <2>1 DEF RcvFields
  <2>3. /\ t \in RcvFields /\ t.begin = 0 /\ t.count = 0
        /\ t.timeouts = s.timeouts /\ t.mode = s.mode
    BY <1>2, <2>2 DEF RcvFields
  <2> HIDE DEF t
  <2>4. Slots(t) \in Nat \ {0}
    BY SlotsType, ConstantFacts
  <2>5. t \in RcvSet
    BY <2>3, <2>4 DEF RcvSet
  <2>6. RoundOf(r, Silent(t))
    BY <1>2, <1>3, <2>3, <2>5 DEF RoundOf, Silent
  <2>7. ReceiveR(r, p) = Replies(t, reply)
    BY <1>7 DEF ReceiveR, s, t
  <2>8. QED
    BY <1>4, <2>5, <2>6, <2>7, RepliesRound
<1>8. QED
  BY <1>5, <1>6, <1>7

LEMMA ReceiveRFRound ==
  ASSUME NEW r \in RcvSet, NEW p \in PacketSet
  PROVE  RoundOf(r, ReceiveRF(r, p))
<1>1. r \in RcvFields
  BY DEF RcvSet
<1>2. CASE p.type = "FILE"
  <2> DEFINE s == [r EXCEPT !.state = "RDW", !.file = p.n]
  <2>1. Alike(r, s)
    BY <1>1, <1>2, PacketFields DEF Alike, RcvFields, States
  <2>2. s \in RcvSet /\ RoundOf(r, Silent(s))
    BY <2>1, AlikeType
  <2>3. Packet("ACK", p.seq, "name", p.n) \in PacketSet
    BY PacketFields, PacketType DEF Types
  <2>4. ReceiveRF(r, p) = Replies(s, Packet("ACK", p.seq, "name", p.n))
    BY <1>2 DEF ReceiveRF
  <2> HIDE DEF s
  <2>5. QED
    BY <2>2, <2>3, <2>4, RepliesRound
<1>3. CASE p.type = "BREAK"
  <2> DEFINE s == [r EXCEPT !.state = "COMPLETE"]
  <2>1. Alike(r, s)
    BY <1>1 DEF Alike, RcvFields, States
  <2>2. s \in RcvSet /\ RoundOf(r, Silent(s))
    BY <2>1, AlikeType
  <2>3. ReceiveRF(r, p) = Acks(s, p, TRUE)
    BY <1>3 DEF ReceiveRF
  <2> HIDE DEF s
  <2>4. QED
    BY <2>2, <2>3, AcksRound
<1>4. CASE p.type \notin {"FILE", "BREAK"}
  BY <1>4, WrongPacketRound DEF ReceiveRF
<1>5. QED
  BY <1>2, <1>3, <1>4

LEMMA ReceiveEofRound ==
  ASSUME NEW r \in RcvSet, NEW p \in PacketSet
  PROVE  RoundOf(r, ReceiveEof(r, p))
<1> DEFINE Closed(x) == [x EXCEPT !.state = IF x.open THEN "RF" ELSE "CRASH", !.open = FALSE]
           Complete(x) == Closed([x EXCEPT !.closed = @ \cup {x.file}])
           s == SavedAll(r)
<1>1. ASSUME NEW x \in RcvSet, RoundOf(r, Silent(x))
      PROVE  /\ Closed(x) \in RcvSet /\ RoundOf(r, Silent(Closed(x)))
             /\ Complete(x) \in RcvSet /\ RoundOf(r, Silent(Complete(x)))
  <2> DEFINE y == [x EXCEPT !.closed = @ \cup {x.file}]
  <2>1. x \in RcvFields
    BY DEF RcvSet
  <2>2. Alike(x, Closed(x))
    BY <2>1 DEF Alike, RcvFields, States
  <2>3. x.closed \cup {x.file} \in SUBSET Files
    BY <2>1 DEF RcvFields
  <2>4. /\ y \in RcvFields /\ y.open = x.open /\ y.mode = x.mode /\ y.begin = x.begin
        /\ y.count = x.count /\ y.timeouts = x.timeouts
    BY <2>1, <2>3 DEF RcvFields
  <2>5. Complete(x) = [y EXCEPT !.state = IF y.open THEN "RF" ELSE "CRASH", !.open = FALSE]
    OBVIOUS
  <2> HIDE DEF y
  <2>6. Alike(x, Complete(x))
    BY <2>4, <2>5 DEF Alike, RcvFields, States
  <2> HIDE DEF Closed, Complete
  <2>7. QED
    BY <1>1, <2>2, <2>6, AlikeType DEF RoundOf, Silent, Alike
<1>2. RingStep(r, s)
  BY SavedAllStep
<1>3. s \in RcvSet /\ RoundOf(r, Silent(s)) /\ RoundOf(r, Silent(r))
  BY <1>2 DEF RingStep, RoundOf, Silent
<1>4. RoundOf(r, Nak(s, p.seq))
  BY <1>2, <1>3, NakStep, PacketFields DEF RingStep, RoundOf
<1>5. ReceiveEof(r, p) \in
        {Acks(Closed(r), p, TRUE), Acks(Complete(r), p, TRUE), Acks(Complete(s), p, TRUE),
         Nak(s, p.seq)}
  BY DEF ReceiveEof
<1> HIDE DEF Closed, Complete, s
<1>6. /\ RoundOf(r, Acks(Closed(r), p, TRUE)) /\ RoundOf(r, Acks(Complete(r), p, TRUE))
      /\ RoundOf(r, Acks(Complete(s), p, TRUE))
  BY <1>1, <1>3, AcksRound
<1>7. QED
  BY <1>4, <1>5, <1>6

LEMMA ReceiveRDWRound ==
  ASSUME NEW r \in RcvSet, NEW p \in PacketSet
  PROVE  RoundOf(r, ReceiveRDW(r, p))
<1>1. r \in RcvFields
  BY DEF RcvSet
<1>2. RoundOf(r, Silent(r))
  BY DEF RoundOf, Silent
<1>3. RoundOf(r, Acks(r, p, FALSE))
  BY <1>2, AcksRound
<1>4. RoundOf(r, ReceiveAttributes(r, p))
  <2> DEFINE s == [r EXCEPT !.open = TRUE]
             reply == Packet("ACK", p.seq, "pos", Len(r.disk[r.file]))
  <2>1. Alike(r, s)
    BY <1>1 DEF Alike, RcvFields
  <2>2. s \in RcvSet /\ RoundOf(r, Silent(s))
    BY <2>1, AlikeType
  <2>3. Len(r.disk[r.file]) \in Nat
    BY <1>1 DEF RcvFields
  <2>4. reply \in PacketSet
    BY <2>3, PacketFields, PacketType DEF Types
  <2>5. RoundOf(r, Replies(s, reply))
    BY <2>2, <2>4, RepliesRound
  <2>6. QED
    BY <1>2, <2>5 DEF ReceiveAttributes
<1>5. ReceiveRDW(r, p) \in
        {ReceiveEof(r, p), Acks(r, p, FALSE), ReceiveAttributes(r, p), WrongPacket(r)}
  BY DEF ReceiveRDW
<1>6. QED
  BY <1>3, <1>4, <1>5, ReceiveEofRound, WrongPacketRound

LEMMA ReceivedRound ==
  ASSUME NEW r \in RcvSet, NEW p \in PacketSet,
         scenario.streaming \in BOOLEAN, r.mode = "streaming" <=> scenario.streaming
  PROVE  RoundOf(r, Received(r, p))
<1> DEFINE s == IF p.type = "ERROR" THEN Aborted(r) ELSE r
           saved == Save(s, p)
<1>1. s \in RcvSet /\ s.timeouts = r.timeouts /\ s.mode = r.mode
  BY AbortedAlike, AlikeType DEF Alike
<1> HIDE DEF s
<1>2. s.last \in Seq(PacketSet)
  BY <1>1 DEF RcvSet, RcvFields
<1>3. RoundOf(r, [r |-> s, out |-> s.last])
  BY <1>1, <1>2 DEF RoundOf
<1>4. RingStep(s, saved.r) /\ saved.out \in Seq(PacketSet)
  BY <1>1, SaveStep
<1>5. RoundOf(r, [r |-> saved.r, out |-> saved.out])
  BY <1>1, <1>4 DEF RoundOf, RingStep
<1>6. RoundOf(r, Handled(saved.r, p))
  <2> DEFINE x == saved.r
  <2>1. x \in RcvSet /\ x.timeouts = r.timeouts /\ x.mode = r.mode
    BY <1>1, <1>4 DEF RingStep
  <2> HIDE DEF x
  <2>2. RoundOf(x, Silent(x))
    BY <2>1 DEF RoundOf, Silent
  <2>3. Handled(x, p) \in {ReceiveR(x, p), ReceiveRF(x, p), ReceiveRDW(x, p), Silent(x)}
    BY DEF Handled
  <2>4. RoundOf(x, Handled(x, p))
    BY <2>1, <2>2, <2>3, ReceiveRRound, ReceiveRFRound, ReceiveRDWRound
  <2>5. QED
    BY <2>1, <2>4 DEF RoundOf, x
<1>7. Received(r, p) \in
        {[r |-> s, out |-> s.last], Handled(saved.r, p), [r |-> saved.r, out |-> saved.out]}
  BY DEF Received, s
<1>8. QED
  BY <1>3, <1>5, <1>6, <1>7

LEMMA ReceiverTimedOutRound ==
  ASSUME NEW r \in RcvSet, r.timeouts < TimeoutMax, NEW seq \in Nat
  PROVE  LET c == ReceiverTimedOut(r, seq)
         IN /\ c.r \in RcvSet /\ c.out \in Seq(PacketSet) /\ Patient(c.r)
            /\ c.r.mode = r.mode
<1> DEFINE t == [r EXCEPT !.timeouts = @ + 1]
           u == IF IsLastTimeout(r) THEN Aborted(t) ELSE t
<1>1. r \in RcvFields /\ r.timeouts + 1 \in 0 .. TimeoutMax
  BY ConstantFacts DEF RcvSet, RcvFields
<1>2. /\ t \in RcvFields /\ t.timeouts = r.timeouts + 1 /\ t.mode = r.mode
      /\ t.begin = r.begin /\ t.count = r.count
  BY <1>1 DEF RcvFields
<1> HIDE DEF t
<1>3. t \in RcvSet
  <2>1. Slots(t) = Slots(r)
    BY <1>2 DEF Slots
  <2>2. QED
    BY <1>2, <2>1 DEF RcvSet
<1>4. /\ u \in RcvSet /\ u.mode = r.mode /\ u.timeouts = r.timeouts + 1
      /\ IsLastTimeout(r) => u.state = "ABORT"
  BY <1>2, <1>3, AbortedAlike, AlikeType DEF Alike
<1> HIDE DEF u
<1>5. RingStep(u, Nak(u, seq).r) /\ Nak(u, seq).out \in Seq(PacketSet)
  BY <1>4, NakStep
<1>6. Patient(Nak(u, seq).r)
  BY <1>1, <1>4, <1>5, ConstantFacts DEF Patient, RingStep, IsLastTimeout, Ended
<1>7. ReceiverTimedOut(r, seq) = Nak(u, seq)
  BY DEF ReceiverTimedOut, t, u
<1>8. QED
  BY <1>4, <1>5, <1>6, <1>7 DEF RingStep

LEMMA TimeoutSeqsType ==
  ASSUME NEW r \in RcvSet
  PROVE  TimeoutSeqs(r) \subseteq Nat
<1>1. r.seq \in Nat /\ \A i \in 0 .. WindowSize - 1 : r.slots[i].seq \in Nat
  BY RingFacts DEF SlotSet, RcvSet, RcvFields
<1>2. r.slots[Newest(r)].seq \in Nat /\ After(r.slots[Newest(r)].seq) \in Nat
  BY <1>1, RingFacts, ConstantFacts DEF After
<1>3. Missing(r) # {} => r.slots[At(r, Min(Missing(r)))].seq \in Nat
  <2>1. SUFFICES ASSUME Missing(r) # {} PROVE At(r, Min(Missing(r))) \in 0 .. WindowSize - 1
    BY <1>1
  <2>2. Min(Missing(r)) \in Nat
    BY <2>1, RingFacts, ConstantFacts
  <2>3. QED
    BY <2>2, AtType
<1>4. CASE r.count = 0
  BY <1>1, <1>4 DEF TimeoutSeqs
<1>5. CASE r.count > 0 /\ Missing(r) # {}
  BY <1>3, <1>5, RingFacts, ConstantFacts DEF TimeoutSeqs
<1>6. CASE ~(r.count = 0) /\ ~(r.count > 0 /\ Missing(r) # {})
  BY <1>2, <1>6 DEF TimeoutSeqs
<1>7. QED
  BY <1>4, <1>5, <1>6

-----------------------------------------------------------------------------
(* The sender's window *)

Entries == [packet : PacketSet, acked : BOOLEAN]

LEMMA SndFacts ==
  ASSUME NEW s \in SndSet
  PROVE  /\ s \in SndFields /\ s.window \in Seq(Entries) /\ Len(s.window) \in Nat
         /\ \A k \in DOMAIN s.window : s.window[k] \in Entries
         /\ DOMAIN s.window = 1 .. Len(s.window)
<1>1. s \in SndFields
  BY DEF SndSet
<1>2. s.window \in Seq(Entries)
  BY <1>1 DEF SndFields, Entries
<1>3. QED
  BY <1>1, <1>2

\* The same fields but for the window, which a handler does not look at.
LEMMA OtherWindow ==
  ASSUME NEW s \in SndSet, NEW w \in Seq(Entries), Len(w) <= Len(s.window),
         Streaming(s) => \A k \in DOMAIN w : w[k].acked
  PROVE  [s EXCEPT !.window = w] \in SndSet
<1> DEFINE t == [s EXCEPT !.window = w]
<1>1. s \in SndFields
  BY DEF SndSet
<1>2. /\ t \in SndFields /\ t.window = w /\ t.mode = s.mode /\ t.state = s.state
      /\ t.file = s.file
  BY <1>1 DEF SndFields, Entries
<1> HIDE DEF t
<1>3. Slots(t) = Slots(s) /\ (Streaming(t) <=> Streaming(s)) /\ Slots(s) \in Nat
  BY <1>2, SlotsType, ConstantFacts DEF Slots, Streaming
<1>4. Len(w) <= Slots(s)
  <2>1. Len(w) \in Nat /\ Len(s.window) \in Nat /\ Len(s.window) <= Slots(s)
    BY SndFacts DEF SndSet
  <2>2. QED
    BY <1>3, <2>1
<1>5. s.state = "OFF" => w = <<>>
  <2>1. s.state = "OFF" => Len(s.window) = 0
    BY DEF SndSet
  <2>2. s.state = "OFF" => Len(w) = 0
    BY <2>1
  <2>3. QED
    BY <2>2
<1>6. t \in SndSet
  BY <1>2, <1>3, <1>4, <1>5 DEF SndSet
<1>7. QED
  BY <1>6 DEF t

LEMMA MovedFacts ==
  ASSUME NEW s \in SndSet
  PROVE  /\ Moved(s) \in SndSet
         /\ Moved(s) = [s EXCEPT !.window = Moved(s).window]
         /\ Moved(s).mode = s.mode /\ Moved(s).timeouts = s.timeouts
         /\ Moved(s).state = s.state
         /\ Streaming(s) => Moved(s).window = <<>>
<1> DEFINE open == {k \in DOMAIN s.window : ~s.window[k].acked}
           w == IF open = {} THEN <<>> ELSE SubSeq(s.window, Min(open), Len(s.window))
<1>1. s \in SndFields /\ s.window \in Seq(Entries) /\ Len(s.window) \in Nat
  BY SndFacts
<1>2. /\ w \in Seq(Entries) /\ Len(w) <= Len(s.window)
      /\ Streaming(s) => w = <<>>
  <2>1. Streaming(s) => open = {}
    BY DEF SndSet
  <2>2. CASE open = {}
    BY <1>1, <2>2
  <2>3. CASE open # {}
    <3>1. open \subseteq 0 .. Len(s.window)
      BY <1>1
    <3> HIDE DEF open
    <3>2. Min(open) \in open
      BY <1>1, <2>3, <3>1, MinFacts
    <3>3. Min(open) \in 1 .. Len(s.window)
      BY <1>1, <3>2 DEF open
    <3> DEFINE m == Min(open)
    <3> HIDE DEF m
    <3>4. /\ SubSeq(s.window, m, Len(s.window)) \in Seq(Entries)
          /\ Len(SubSeq(s.window, m, Len(s.window))) <= Len(s.window)
      BY <1>1, <3>3, SubSeqProperties DEF m
    <3>5. QED
      BY <2>1, <2>3, <3>4 DEF m
  <2>4. QED
    BY <2>2, <2>3
<1>3. Moved(s) = [s EXCEPT !.window = w]
  BY DEF Moved
<1> HIDE DEF w
<1>4. Streaming(s) => \A k \in DOMAIN w : w[k].acked
  BY <1>2
<1>5. [s EXCEPT !.window = w] \in SndSet
  BY <1>2, <1>4, OtherWindow
<1>6. /\ [s EXCEPT !.window = w].window = w /\ [s EXCEPT !.window = w].mode = s.mode
      /\ [s EXCEPT !.window = w].timeouts = s.timeouts
      /\ [s EXCEPT !.window = w].state = s.state
  BY <1>1 DEF SndFields
<1>7. QED
  BY <1>2, <1>3, <1>5, <1>6

\* What a handler may make of a sender that has moved its window and has room in it.
HandledBy(t, c) ==
  /\ c.s \in SndFields /\ c.out \in Seq(PacketSet) /\ Len(c.out) <= 1
  /\ c.s.window = t.window /\ c.s.timeouts = t.timeouts
  /\ c.s.state \in {"OFF", "S", "SF", "SA", "SDW", "SZ"} => c.s.file \in Files
  /\ c.s.state \in {"OFF", "S"} => c.s.mode # "windows"
  /\ c.s.mode = t.mode \/ t.mode # "windows"
  /\ c.s.state = "OFF" => t.state = "OFF" /\ c.out = <<>>

LEMMA ConcatType ==
  ASSUME NEW S, NEW v \in Seq(S), NEW w \in Seq(S)
  PROVE  v \o w \in Seq(S) /\ Len(v \o w) = Len(v) + Len(w)
BY ConcatProperties

LEMMA SentType ==
  ASSUME NEW t \in SndSet, Len(t.window) < Slots(t), Streaming(t) => t.window = <<>>,
         NEW c, HandledBy(t, c)
  PROVE  /\ Sent(c).s \in SndSet /\ Sent(c).s.timeouts = t.timeouts
         /\ Sent(c).out \in Seq(PacketSet)
<1> DEFINE more == [k \in DOMAIN c.out |-> [packet |-> c.out[k], acked |-> Streaming(c.s)]]
           w == t.window \o more
           u == [c.s EXCEPT !.window = w]
<1>1. /\ t.window \in Seq(Entries) /\ Len(t.window) \in Nat
      /\ Slots(t) \in Nat /\ Slots(t) = (IF t.mode = "windows" THEN WindowSize ELSE 1)
  BY SndFacts, SlotsType, ConstantFacts DEF Slots
<1>2. more \in Seq(Entries) /\ Len(more) = Len(c.out) /\ Len(c.out) \in Nat
  <2>1. c.out \in Seq(PacketSet) /\ DOMAIN c.out = 1 .. Len(c.out) /\ Len(c.out) \in Nat
    BY DEF HandledBy
  <2>2. Streaming(c.s) \in BOOLEAN
    BY DEF Streaming
  <2>3. \A k \in DOMAIN c.out : [packet |-> c.out[k], acked |-> Streaming(c.s)] \in Entries
    BY <2>1, <2>2 DEF Entries
  <2> HIDE DEF Entries
  <2>4. more \in [1 .. Len(c.out) -> Entries]
    BY Zenon, <2>1, <2>3
  <2> HIDE DEF more
  <2>5. QED
    BY <2>1, <2>4
<1> HIDE DEF more
<1>3. w \in Seq(Entries) /\ Len(w) = Len(t.window) + Len(c.out)
  <2>1. t.window \in Seq(Entries) /\ more \in Seq(Entries)
    BY <1>1, <1>2
  <2>2. w \in Seq(Entries) /\ Len(w) = Len(t.window) + Len(more)
    BY Zenon, <2>1, ConcatType
  <2>3. QED
    BY <1>2, <2>2
<1>4. Len(w) <= Slots(c.s)
  <2> DEFINE a == Len(t.window)
             b == Len(c.out)
             m == Slots(t)
             n == Slots(c.s)
  <2>1. a \in Nat /\ b \in Nat /\ m \in Nat /\ n \in Nat
    BY <1>1, <1>2, SlotsType, ConstantFacts
  <2>2. n >= m
    BY SlotsType, ConstantFacts DEF Slots, HandledBy
  <2>3. b <= 1
    BY DEF HandledBy
  <2>4. a < m
    OBVIOUS
  <2>5. Len(w) = a + b
    BY <1>3
  <2> HIDE DEF a, b, m, n, w
  <2>6. a + b <= n
    BY <2>1, <2>2, <2>3, <2>4
  <2>7. QED
    BY <2>5, <2>6 DEF n
<1>5. Streaming(c.s) => \A k \in DOMAIN w : w[k].acked
  <2>1. SUFFICES ASSUME Streaming(c.s) PROVE \A k \in DOMAIN w : w[k].acked
    OBVIOUS
  <2>2. t.window = <<>>
    <3>1. CASE Streaming(t)
      BY <3>1
    <3>2. CASE ~Streaming(t)
      <4>1. t.mode # "windows"
        BY <2>1, <3>2 DEF HandledBy, Streaming
      <4>2. Len(t.window) = 0
        BY <1>1, <4>1
      <4>3. QED
        BY <1>1, <4>2
    <3>3. QED
      BY <3>1, <3>2
  <2>3. w = more
    BY <1>2, <2>2
  <2>4. \A k \in DOMAIN more : more[k].acked
    BY <2>1 DEF more
  <2>5. QED
    BY <2>3, <2>4
<1>6. c.s \in SndFields
  BY DEF HandledBy
<1> HIDE DEF w
<1>7. /\ u \in SndFields /\ u.window = w /\ u.mode = c.s.mode /\ u.state = c.s.state
      /\ u.file = c.s.file /\ u.timeouts = c.s.timeouts
  BY <1>3, <1>6 DEF SndFields, Entries
<1>8. Sent(c).s = u /\ Sent(c).out = c.out
  <2>1. c.s.window = t.window
    BY DEF HandledBy
  <2>2. QED
    BY <2>1 DEF Sent, w, more
<1> HIDE DEF u
<1>9. Slots(u) = Slots(c.s) /\ (Streaming(u) <=> Streaming(c.s))
  BY <1>7 DEF Slots, Streaming
<1>10. u.state = "OFF" => w = <<>>
  <2>1. SUFFICES ASSUME u.state = "OFF" PROVE w = <<>>
    OBVIOUS
  <2>2. t.window = <<>> /\ c.out = <<>>
    BY <1>7, <2>1 DEF HandledBy, SndSet
  <2>3. Len(w) = 0
    BY <1>3, <2>2
  <2>4. QED
    BY <1>3, <2>3
<1>11. u \in SndSet
  BY <1>4, <1>5, <1>7, <1>9, <1>10 DEF SndSet, HandledBy
<1>12. QED
  BY <1>7, <1>8, <1>11 DEF HandledBy

-----------------------------------------------------------------------------
(* The sender's handlers *)

LEMMA WaitsHandled ==
  ASSUME NEW t \in SndSet
  PROVE  HandledBy(t, Waits(t))
<1>1. <<>> \in Seq(PacketSet) /\ Len(<<>>) = 0
  OBVIOUS
<1>2. QED
  BY <1>1 DEF HandledBy, Waits, SndSet

\* A sender with another state, position, number or file, and a packet.
LEMMA SendsHandled ==
  ASSUME NEW t \in SndSet, NEW s \in SndFields, NEW q \in PacketSet,
         s.window = t.window, s.timeouts = t.timeouts,
         s.state \in {"OFF", "S", "SF", "SA", "SDW", "SZ"} => s.file \in Files,
         s.state \in {"OFF", "S"} => s.mode # "windows",
         s.mode = t.mode \/ t.mode # "windows", s.state # "OFF"
  PROVE  HandledBy(t, Sends(s, q))
<1>1. <<q>> \in Seq(PacketSet) /\ Len(<<q>>) = 1
  OBVIOUS
<1>2. QED
  BY <1>1 DEF HandledBy, Sends

LEMMA SequenceErrorHandled ==
  ASSUME NEW t \in SndSet
  PROVE  HandledBy(t, SequenceError(t))
<1>1. t \in SndFields
  BY DEF SndSet
<1> DEFINE s == [t EXCEPT !.state = "ABORT"]
<1>2. /\ s \in SndFields /\ s.state = "ABORT" /\ s.mode = t.mode
      /\ s.window = t.window /\ s.timeouts = t.timeouts
  BY <1>1 DEF SndFields, States
<1>3. Error(t) \in PacketSet
  BY <1>1, ErrorType DEF SndFields
<1>4. SequenceError(t) = Sends(s, Error(t))
  BY DEF SequenceError
<1> HIDE DEF s
<1>5. QED
  BY <1>2, <1>3, <1>4, SendsHandled

LEMMA SeqType ==
  ASSUME NEW n \in Nat
  PROVE  n % SeqCount \in Nat /\ n + 1 \in Nat
BY ConstantFacts

LEMMA SendFileHeaderHandled ==
  ASSUME NEW t \in SndSet, NEW s \in SndFields, s.file \in Files,
         s.window = t.window, s.timeouts = t.timeouts, s.mode = t.mode \/ t.mode # "windows"
  PROVE  HandledBy(t, SendFileHeader(s))
<1> DEFINE u == [s EXCEPT !.state = "SF", !.pos = 0]
           q == Packet("FILE", s.seq % SeqCount, "", s.file)
<1>0. s.seq \in Nat /\ s.seq % SeqCount \in Nat /\ s.file \in Nat
  BY SeqType, ConstantFacts DEF SndFields
<1>1. /\ u \in SndFields /\ u.state = "SF" /\ u.mode = s.mode /\ u.file = s.file
      /\ u.window = s.window /\ u.timeouts = s.timeouts
  BY DEF SndFields, States
<1>2. q \in PacketSet
  BY <1>0, PacketType DEF Types
<1>3. SendFileHeader(s) = Sends(u, q)
  BY DEF SendFileHeader
<1> HIDE DEF u, q
<1>4. QED
  BY <1>1, <1>2, <1>3, SendsHandled

LEMMA SendNextHandled ==
  ASSUME NEW t \in SndSet, NEW s \in SndFields, s.file \in Files, s.state = "SDW",
         s.window = t.window, s.timeouts = t.timeouts, s.mode = t.mode
  PROVE  HandledBy(t, SendNext(s))
<1> DEFINE u == [s EXCEPT !.seq = @ + 1]
           seq == u.seq % SeqCount
           size == Len(Batch[s.file])
           q1 == Packet("EOF", seq, IF s.skip THEN "skip" ELSE "", 0)
           q2 == Packet("DATA", seq, "", Batch[s.file][s.pos + 1])
           q3 == Packet("DATA", seq, "", 0)
           u1 == [u EXCEPT !.state = "SZ", !.skip = FALSE]
           u2 == [u EXCEPT !.pos = @ + 1]
           u3 == [u EXCEPT !.pos = size]
<1>1. s.seq + 1 \in Nat /\ s.pos \in Nat /\ s.pos + 1 \in Nat /\ size \in Nat
  BY ConstantFacts DEF SndFields
<1>2. /\ u \in SndFields /\ u.seq = s.seq + 1 /\ u.pos = s.pos /\ u.state = s.state
      /\ u.mode = s.mode /\ u.file = s.file
      /\ u.window = s.window /\ u.timeouts = s.timeouts
  BY <1>1 DEF SndFields
<1> HIDE DEF u
<1>3. seq \in Nat
  BY <1>1, <1>2, SeqType
<1> HIDE DEF seq
<1>4. q1 \in PacketSet /\ q3 \in PacketSet
  BY <1>3, PacketType DEF Types
<1>5. s.pos < size => q2 \in PacketSet
  <2>1. s.pos < size => s.pos + 1 \in 1 .. Len(Batch[s.file])
    BY <1>1
  <2>2. s.pos < size => Batch[s.file][s.pos + 1] \in Nat
    BY <2>1, ConstantFacts
  <2>3. QED
    BY <1>3, <2>2, PacketType DEF Types
<1> DEFINE Fits(v) ==
             /\ v \in SndFields /\ v.state \in {"SDW", "SZ"} /\ v.mode = t.mode
             /\ v.file \in Files /\ v.window = t.window /\ v.timeouts = t.timeouts
<1>6. Fits(u1) /\ Fits(u2) /\ Fits(u3)
  BY <1>1, <1>2 DEF SndFields, States
<1>7. \/ SendNext(s) = Sends(u1, q1)
      \/ s.pos < size /\ SendNext(s) = Sends(u2, q2)
      \/ SendNext(s) = Sends(u3, q3)
  <2> DEFINE g == s.skip \/ s.pos = size
             h == ~s.skip /\ s.pos < size
  <2>1. SendNext(s) = CASE g -> Sends(u1, q1) [] h -> Sends(u2, q2) [] OTHER -> Sends(u3, q3)
    BY Zenon DEF SendNext, u, seq
  <2>2. g => ~h
    BY <1>1
  <2>3. h => s.pos < size
    OBVIOUS
  <2> HIDE DEF g, h, u1, u2, u3, q1, q2, q3
  <2>4. QED
    BY <2>1, <2>2, <2>3
<1> HIDE DEF u1, u2, u3, q1, q2, q3
<1>8. HandledBy(t, Sends(u1, q1)) /\ HandledBy(t, Sends(u3, q3))
  BY <1>4, <1>6, SendsHandled
<1>9. s.pos < size => HandledBy(t, Sends(u2, q2))
  BY <1>5, <1>6, SendsHandled
<1>10. QED
  BY <1>7, <1>8, <1>9

LEMMA SendSHandled ==
  ASSUME NEW t \in SndSet, t.state = "S", NEW p \in PacketSet
  PROVE  HandledBy(t, SendS(t, p))
<1>1. t \in SndFields /\ t.file \in Files /\ t.mode # "windows"
  BY DEF SndSet
<1>2. CASE p.type = "NAK"
  <2> DEFINE u == [t EXCEPT !.state = "S", !.seq = 0]
  <2>1. /\ u \in SndFields /\ u.state = "S" /\ u.mode = t.mode /\ u.file = t.file
        /\ u.window = t.window /\ u.timeouts = t.timeouts
    BY <1>1 DEF SndFields, States
  <2>2. Plain("SINIT", 0) \in PacketSet
    BY PlainType DEF Types
  <2>3. SendS(t, p) = Sends(u, Plain("SINIT", 0))
    BY <1>2 DEF SendS, SendInit
  <2> HIDE DEF u
  <2>4. QED
    BY <1>1, <2>1, <2>2, <2>3, SendsHandled
<1>3. CASE p.type = "ACK"
  <2> DEFINE m == IF p.note = "" THEN "bare" ELSE NegotiatedMode(scenario)
             u == [t EXCEPT !.seq = @ + 1, !.mode = m]
  <2>1. m \in {"streaming", "opening", "bare", "windows"}
    BY DEF NegotiatedMode
  <2>2. t.seq + 1 \in Nat
    BY <1>1 DEF SndFields
  <2>3. SendS(t, p) = SendFileHeader(u)
    BY <1>3 DEF SendS
  <2> HIDE DEF m
  <2>4. /\ u \in SndFields /\ u.file = t.file
        /\ u.window = t.window /\ u.timeouts = t.timeouts
    BY <1>1, <2>1, <2>2 DEF SndFields
  <2> HIDE DEF u
  <2>5. QED
    BY <1>1, <2>3, <2>4, SendFileHeaderHandled
<1>4. CASE p.type \notin {"NAK", "ACK"}
  BY <1>4, SequenceErrorHandled DEF SendS
<1>5. QED
  BY <1>2, <1>3, <1>4

LEMMA SendSFHandled ==
  ASSUME NEW t \in SndSet, t.state = "SF", NEW p \in PacketSet
  PROVE  HandledBy(t, SendSF(t, p))
<1> DEFINE u == [t EXCEPT !.state = "SA", !.seq = @ + 1]
           v == [t EXCEPT !.state = "SDW"]
           q == Plain("ATTRIBUTES", u.seq % SeqCount)
<1>1. t \in SndFields /\ t.file \in Files /\ t.seq + 1 \in Nat
  BY DEF SndSet, SndFields
<1>2. /\ u \in SndFields /\ u.state = "SA" /\ u.mode = t.mode /\ u.file = t.file
      /\ u.window = t.window /\ u.timeouts = t.timeouts /\ u.seq \in Nat
  BY <1>1 DEF SndFields, States
<1>3. /\ v \in SndFields /\ v.state = "SDW" /\ v.mode = t.mode /\ v.file = t.file
      /\ v.window = t.window /\ v.timeouts = t.timeouts
  BY <1>1 DEF SndFields, States
<1>4. SendSF(t, p) \in {SequenceError(t), SendNext(v), Sends(u, q)}
  BY DEF SendSF
<1> HIDE DEF u, v
<1>5. q \in PacketSet
  BY <1>2, SeqType, PlainType DEF Types
<1> HIDE DEF q
<1>6. HandledBy(t, Sends(u, q))
  BY <1>1, <1>2, <1>5, SendsHandled
<1>7. HandledBy(t, SendNext(v))
  BY <1>1, <1>3, SendNextHandled
<1>8. QED
  BY <1>4, <1>6, <1>7, SequenceErrorHandled

LEMMA SendSAHandled ==
  ASSUME NEW t \in SndSet, t.state = "SA", NEW p \in PacketSet
  PROVE  HandledBy(t, SendSA(t, p))
<1> DEFINE n == IF p.note = "pos" THEN p.n ELSE t.pos
           v == [t EXCEPT !.state = "SDW", !.pos = n]
<1>1. t \in SndFields /\ t.file \in Files /\ t.pos \in Nat
  BY DEF SndSet, SndFields
<1>2. n \in Nat
  BY <1>1, PacketFields
<1>3. SendSA(t, p) \in {SequenceError(t), SendNext(v)}
  BY DEF SendSA
<1> HIDE DEF n
<1>4. /\ v \in SndFields /\ v.state = "SDW" /\ v.mode = t.mode /\ v.file = t.file
      /\ v.window = t.window /\ v.timeouts = t.timeouts
  BY <1>1, <1>2 DEF SndFields, States
<1> HIDE DEF v
<1>5. HandledBy(t, SendNext(v))
  BY <1>1, <1>4, SendNextHandled
<1>6. QED
  BY <1>3, <1>5, SequenceErrorHandled

LEMMA SendSDWHandled ==
  ASSUME NEW t \in SndSet, t.state = "SDW", NEW p \in PacketSet
  PROVE  HandledBy(t, SendSDW(t, p)) /\ HandledBy(t, SendNext(t))
<1> DEFINE v == [t EXCEPT !.skip = TRUE]
<1>1. t \in SndFields /\ t.file \in Files
  BY DEF SndSet
<1>2. /\ v \in SndFields /\ v.state = "SDW" /\ v.mode = t.mode /\ v.file = t.file
      /\ v.window = t.window /\ v.timeouts = t.timeouts
  BY <1>1 DEF SndFields
<1>3. SendSDW(t, p) \in {SequenceError(t), SendNext(v), SendNext(t)}
  BY DEF SendSDW
<1> HIDE DEF v
<1>4. HandledBy(t, SendNext(v)) /\ HandledBy(t, SendNext(t))
  BY <1>1, <1>2, SendNextHandled
<1>5. QED
  BY <1>3, <1>4, SequenceErrorHandled

LEMMA SendSZHandled ==
  ASSUME NEW t \in SndSet, t.state = "SZ", NEW p \in PacketSet
  PROVE  HandledBy(t, SendSZ(t, p))
<1> DEFINE u == [t EXCEPT !.seq = @ + 1, !.file = @ + 1]
           v == [u EXCEPT !.state = "SB"]
           q == Plain("BREAK", u.seq % SeqCount)
<1>1. t \in SndFields /\ t.file \in Files /\ t.seq + 1 \in Nat /\ t.file + 1 \in 1 .. Len(Batch) + 1
  BY ConstantFacts DEF SndSet, SndFields
<1>2. /\ u \in SndFields /\ u.mode = t.mode /\ u.seq \in Nat
      /\ u.window = t.window /\ u.timeouts = t.timeouts
  BY <1>1 DEF SndFields
<1>3. \/ SendSZ(t, p) \in {SequenceError(t), Waits(t), Sends(v, q)}
      \/ u.file \in Files /\ SendSZ(t, p) = SendFileHeader(u)
  BY DEF SendSZ
<1> HIDE DEF u
<1>4. /\ v \in SndFields /\ v.state = "SB" /\ v.mode = t.mode
      /\ v.window = t.window /\ v.timeouts = t.timeouts
  BY <1>2 DEF SndFields, States
<1>5. q \in PacketSet
  BY <1>2, SeqType, PlainType DEF Types
<1> HIDE DEF v, q
<1>6. HandledBy(t, Sends(v, q))
  BY <1>4, <1>5, SendsHandled
<1>7. u.file \in Files => HandledBy(t, SendFileHeader(u))
  BY <1>2, SendFileHeaderHandled
<1>8. QED
  BY <1>3, <1>6, <1>7, SequenceErrorHandled, WaitsHandled

LEMMA SendSBHandled ==
  ASSUME NEW t \in SndSet, NEW p \in PacketSet
  PROVE  HandledBy(t, SendSB(t, p))
<1> DEFINE v == [t EXCEPT !.state = "COMPLETE"]
<1>1. t \in SndFields
  BY DEF SndSet
<1>2. /\ v \in SndFields /\ v.state = "COMPLETE" /\ v.mode = t.mode
      /\ v.window = t.window /\ v.timeouts = t.timeouts
  BY <1>1 DEF SndFields, States
<1>3. SendSB(t, p) \in {SequenceError(t), Waits(v)}
  BY DEF SendSB
<1> HIDE DEF v
<1>4. <<>> \in Seq(PacketSet) /\ Len(<<>>) = 0
  OBVIOUS
<1>5. HandledBy(t, Waits(v))
  BY <1>2, <1>4 DEF HandledBy, Waits
<1>6. QED
  BY <1>3, <1>5, SequenceErrorHandled

LEMMA ContinuedHandled ==
  ASSUME NEW t \in SndSet, NEW p \in PacketSet
  PROVE  HandledBy(t, Continued(t, p)) /\ HandledBy(t, Unasked(t))
<1>1. \/ t.state = "S" /\ Continued(t, p) = SendS(t, p)
      \/ t.state = "SF" /\ Continued(t, p) = SendSF(t, p)
      \/ t.state = "SA" /\ Continued(t, p) = SendSA(t, p)
      \/ t.state = "SDW" /\ Continued(t, p) = SendSDW(t, p)
      \/ t.state = "SZ" /\ Continued(t, p) = SendSZ(t, p)
      \/ t.state = "SB" /\ Continued(t, p) = SendSB(t, p)
      \/ Continued(t, p) = Waits(t)
  BY DEF Continued
<1>2. (t.state = "SDW" /\ Unasked(t) = SendNext(t)) \/ Unasked(t) = Waits(t)
  BY DEF Unasked
<1>3. QED
  BY <1>1, <1>2, SendSHandled, SendSFHandled, SendSAHandled, SendSDWHandled, SendSZHandled,
     SendSBHandled, WaitsHandled

-----------------------------------------------------------------------------
(* Rounds of the sender's loop *)

\* What a round of the sender's loop makes of it, and what it sends.
TurnOf(s, c) ==
  c.s \in SndSet /\ c.s.timeouts = s.timeouts /\ c.out \in Seq(PacketSet)

LEMMA RestTurn ==
  ASSUME NEW s \in SndSet, NEW left \in Seq(PacketSet)
  PROVE  TurnOf(s, Rest(s, left))
<1> DEFINE t == Moved(s)
           c == IF left = <<>> THEN Unasked(t) ELSE Continued(t, left[1])
<1>1. /\ t \in SndSet /\ t.timeouts = s.timeouts /\ t.mode = s.mode
      /\ Streaming(t) => t.window = <<>>
  BY MovedFacts DEF Streaming
<1> HIDE DEF t
<1>2. CASE ~HasRoom(t)
  <2>1. Rest(s, left) = Waits(t)
    BY <1>2 DEF Rest, t
  <2>2. <<>> \in Seq(PacketSet)
    OBVIOUS
  <2>3. QED
    BY <1>1, <2>1, <2>2 DEF TurnOf, Waits
<1>3. CASE HasRoom(t)
  <2>1. Rest(s, left) = Sent(c)
    BY <1>3 DEF Rest, t
  <2>2. HandledBy(t, c)
    <3>1. CASE left = <<>>
      <4>1. Plain("ACK", 0) \in PacketSet
        BY PlainType DEF Types
      <4>2. QED
        BY <1>1, <3>1, <4>1, ContinuedHandled
    <3>2. CASE left # <<>>
      <4>1. left[1] \in PacketSet
        BY <3>2
      <4>2. QED
        BY <1>1, <3>2, <4>1, ContinuedHandled
    <3>3. QED
      BY <3>1, <3>2
  <2>3. Len(t.window) < Slots(t)
    <3>1. CASE Streaming(t)
      <4>1. Len(t.window) = 0
        BY <1>1, <3>1
      <4>2. QED
        BY <4>1, SlotsType, ConstantFacts
    <3>2. CASE ~Streaming(t)
      BY <1>3, <3>2 DEF HasRoom
    <3>3. QED
      BY <3>1, <3>2
  <2> HIDE DEF c
  <2>4. TurnOf(t, Sent(c))
    BY <1>1, <2>2, <2>3, SentType DEF TurnOf
  <2>5. QED
    BY <1>1, <2>1, <2>4 DEF TurnOf
<1>4. QED
  BY <1>2, <1>3

LEMMA ExaminedType ==
  ASSUME NEW s \in SndSet, NEW p \in PacketSet
  PROVE  LET e == Examined(s, p)
         IN TurnOf(s, e) /\ e.left \in Seq(PacketSet)
<1> DEFINE slots == SlotsOf(s, p)
           t == IF p.type = "ERROR" THEN [s EXCEPT !.state = "ABORT"] ELSE s
           a == [s EXCEPT !.state = "ABORT"]
           w == [s EXCEPT !.window = <<>>]
           k == Min(slots)
           m == [s EXCEPT !.window[k].acked = TRUE]
           ack == Plain("ACK", s.seq % SeqCount)
           r == s.window[k].packet
<1>1. s \in SndFields /\ s.seq \in Nat
  BY DEF SndSet, SndFields
<1>2. /\ <<>> \in Seq(PacketSet) /\ <<p>> \in Seq(PacketSet)
      /\ \A q \in PacketSet : <<q>> \in Seq(PacketSet)
  OBVIOUS
<1>3. a \in SndSet /\ a.timeouts = s.timeouts
  <2>1. /\ a \in SndFields /\ a.state = "ABORT" /\ a.mode = s.mode /\ a.window = s.window
        /\ a.timeouts = s.timeouts
    BY <1>1 DEF SndFields, States
  <2> HIDE DEF a
  <2>2. Slots(a) = Slots(s) /\ (Streaming(a) <=> Streaming(s))
    BY <2>1 DEF Slots, Streaming
  <2>3. QED
    BY <2>1, <2>2 DEF SndSet
<1>4. t \in SndSet /\ t.timeouts = s.timeouts
  BY <1>3
<1>5. w \in SndSet /\ w.timeouts = s.timeouts
  <2>1. <<>> \in Seq(Entries) /\ Len(<<>>) = 0 /\ DOMAIN <<>> = {}
    OBVIOUS
  <2>2. Len(<<>>) <= Len(s.window)
    BY <2>1, SndFacts
  <2>3. w \in SndSet
    BY <2>1, <2>2, OtherWindow
  <2>4. QED
    BY <1>1, <2>3 DEF SndFields
<1>6. slots # {} => /\ r \in PacketSet
                    /\ m \in SndSet /\ m.timeouts = s.timeouts
  <2>1. SUFFICES ASSUME slots # {}
                 PROVE  r \in PacketSet /\ m \in SndSet /\ m.timeouts = s.timeouts
    OBVIOUS
  <2>2. slots \subseteq DOMAIN s.window /\ slots \subseteq 0 .. Len(s.window)
    BY SndFacts DEF SlotsOf
  <2> HIDE DEF slots
  <2>3. k \in DOMAIN s.window
    BY <2>1, <2>2, SndFacts, MinFacts
  <2> HIDE DEF k
  <2>4. s.window[k] \in Entries
    BY <2>3, SndFacts
  <2> DEFINE entry == [s.window[k] EXCEPT !.acked = TRUE]
             v == [s.window EXCEPT ![k] = entry]
  <2>5. entry \in Entries /\ entry.acked = TRUE
    BY <2>4 DEF Entries
  <2> HIDE DEF entry
  <2>6. v \in Seq(Entries) /\ Len(v) = Len(s.window) /\ DOMAIN v = DOMAIN s.window
    BY <2>3, <2>5, SndFacts, ExceptSeq
  <2>7. \A i \in DOMAIN v : v[i] = IF i = k THEN entry ELSE s.window[i]
    BY <2>3, SndFacts
  <2>8. m = [s EXCEPT !.window = v]
    BY <2>3, <1>1 DEF entry, SndFields
  <2> HIDE DEF v
  <2>9. Streaming(s) => \A i \in DOMAIN v : v[i].acked
    BY <2>5, <2>6, <2>7 DEF SndSet
  <2>10. Len(v) <= Len(s.window)
    BY <2>6, SndFacts
  <2>11. [s EXCEPT !.window = v] \in SndSet
    BY <2>6, <2>9, <2>10, OtherWindow
  <2>12. QED
    BY <1>1, <2>4, <2>8, <2>11 DEF SndFields, Entries
<1>7. ack \in PacketSet /\ Error(s) \in PacketSet
  BY <1>1, SeqType, PlainType, ErrorType DEF Types
<1> DEFINE e == Examined(s, p)
<1>8. \/ e = [s |-> a, out |-> <<Error(s)>>, left |-> <<>>]
      \/ e = [s |-> t, out |-> <<>>, left |-> <<p>>]
      \/ e = [s |-> w, out |-> <<>>, left |-> <<ack>>]
      \/ slots # {} /\ e = [s |-> s, out |-> <<r>>, left |-> <<>>]
      \/ slots # {} /\ e = [s |-> m, out |-> <<>>, left |-> <<p>>]
  BY DEF Examined, IsAskedAgain
<1> HIDE DEF a, t, w, m, k, r, ack, slots, e
<1>9. ASSUME NEW x \in SndSet, x.timeouts = s.timeouts,
             NEW out \in Seq(PacketSet), NEW left \in Seq(PacketSet),
             e = [s |-> x, out |-> out, left |-> left]
      PROVE  TurnOf(s, e) /\ e.left \in Seq(PacketSet)
  BY <1>9 DEF TurnOf
<1>10. /\ <<Error(s)>> \in Seq(PacketSet) /\ <<ack>> \in Seq(PacketSet)
       /\ slots # {} => <<r>> \in Seq(PacketSet)
  BY <1>2, <1>6, <1>7
<1>11. TurnOf(s, e) /\ e.left \in Seq(PacketSet)
  BY Zenon, <1>2, <1>3, <1>4, <1>5, <1>6, <1>8, <1>9, <1>10
<1>12. QED
  BY <1>11 DEF e

LEMMA AnsweredTurn ==
  ASSUME NEW s \in SndSet, NEW p \in PacketSet
  PROVE  TurnOf(s, Answered(s, p)) /\ TurnOf(s, Unanswered(s))
<1> DEFINE e == Examined(s, p)
           c == Rest(e.s, e.left)
<1>1. TurnOf(s, e) /\ e.left \in Seq(PacketSet)
  BY ExaminedType
<1> HIDE DEF e
<1>2. TurnOf(e.s, c)
  BY <1>1, RestTurn DEF TurnOf
<1> HIDE DEF c
<1>3. e.out \o c.out \in Seq(PacketSet)
  BY <1>1, <1>2, ConcatType DEF TurnOf
<1>4. Answered(s, p) = [s |-> c.s, out |-> e.out \o c.out]
  BY DEF Answered, c, e
<1>5. TurnOf(s, Answered(s, p))
  BY <1>1, <1>2, <1>3, <1>4 DEF TurnOf
<1>6. <<>> \in Seq(PacketSet)
  OBVIOUS
<1>7. TurnOf(s, Unanswered(s))
  BY <1>6, RestTurn DEF Unanswered
<1>8. QED
  BY <1>5, <1>7

\* The first call of the sender.
LEMMA SenderStartTurn ==
  ASSUME NEW s \in SndSet, s.state = "OFF"
  PROVE  TurnOf(s, Sent(SendInit(s)))
<1> DEFINE u == [s EXCEPT !.state = "S", !.seq = 0]
<1>1. s \in SndFields /\ s.file \in Files /\ s.mode # "windows"
  BY DEF SndSet
<1>2. /\ u \in SndFields /\ u.state = "S" /\ u.mode = s.mode /\ u.file = s.file
      /\ u.window = s.window /\ u.timeouts = s.timeouts
  BY <1>1 DEF SndFields, States
<1>3. Plain("SINIT", 0) \in PacketSet
  BY PlainType DEF Types
<1>4. SendInit(s) = Sends(u, Plain("SINIT", 0))
  BY DEF SendInit
<1> HIDE DEF u
<1>5. HandledBy(s, SendInit(s))
  BY <1>1, <1>2, <1>3, <1>4, SendsHandled
<1>6. s.window = <<>> /\ Len(s.window) < Slots(s)
  BY SlotsType, ConstantFacts DEF SndSet
<1>7. QED
  BY <1>5, <1>6, SentType DEF TurnOf

LEMMA SenderTimedOutType ==
  ASSUME NEW s \in SndSet, s.timeouts < TimeoutMax
  PROVE  LET c == SenderTimedOut(s)
         IN c.s \in SndSet /\ Patient(c.s) /\ c.out \in Seq(PacketSet)
<1> DEFINE t == [s EXCEPT !.timeouts = @ + 1, !.state = IF IsLastTimeout(s) THEN "ABORT" ELSE @]
           again == IF Windowing(s) /\ s.window # <<>> THEN <<s.window[1].packet>> ELSE <<>>
           error == IF IsLastTimeout(s) /\ HasRoom(s) THEN <<Error(s)>> ELSE <<>>
<1>1. s \in SndFields /\ s.timeouts + 1 \in 0 .. TimeoutMax
  BY ConstantFacts DEF SndSet, SndFields
<1>2. /\ t \in SndFields /\ t.window = s.window /\ t.mode = s.mode /\ t.file = s.file
      /\ t.timeouts = s.timeouts + 1
      /\ t.state = IF IsLastTimeout(s) THEN "ABORT" ELSE s.state
  BY <1>1 DEF SndFields, States
<1>3. again \in Seq(PacketSet)
  <2>1. s.window # <<>> => s.window[1] \in Entries
    BY SndFacts
  <2>2. QED
    BY <2>1 DEF Entries
<1>4. error \in Seq(PacketSet)
  BY <1>1, ErrorType DEF SndFields
<1>5. SenderTimedOut(s) = [s |-> t, out |-> again \o error]
  BY DEF SenderTimedOut
<1> HIDE DEF t, again, error
<1>6. Slots(t) = Slots(s) /\ (Streaming(t) <=> Streaming(s))
  BY <1>2 DEF Slots, Streaming
<1>7. t \in SndSet
  BY <1>2, <1>6 DEF SndSet
<1>8. Patient(t)
  BY <1>1, <1>2, ConstantFacts DEF Patient, IsLastTimeout, Ended
<1>9. again \o error \in Seq(PacketSet)
  BY <1>3, <1>4, ConcatType
<1>10. QED
  BY <1>5, <1>7, <1>8, <1>9

-----------------------------------------------------------------------------
(* Steps *)

LEMMA ScenarioFacts ==
  ASSUME scenario \in Scenarios
  PROVE  /\ scenario.streaming \in BOOLEAN /\ scenario.disk \in [Files -> Seq(Nat)]
         /\ scenario.most \in Nat
<1>1. ScenarioOK(scenario)
  BY KermitAssumption DEF KermitAssumption
<1>2. MaxFaults \in Nat
  BY KermitAssumption DEF KermitAssumption
<1>3. QED
  BY <1>1, <1>2 DEF ScenarioOK

LEMMA LineType ==
  ASSUME NEW x, NEW line \in Seq(PacketSet)
  PROVE  Line(x, line) \in Seq(PacketSet)
BY DEF Line

LEMMA WithoutType ==
  ASSUME NEW line \in Seq(PacketSet), NEW k \in Nat
  PROVE  Without(line, k) \in Seq(PacketSet)
<1>1. k + 1 \in Int /\ Len(line) \in Int
  OBVIOUS
<1>2. \A i \in k + 1 .. Len(line) : line[i] \in PacketSet
  OBVIOUS
<1>3. SubSeq(line, k + 1, Len(line)) \in Seq(PacketSet)
  BY <1>1, <1>2, SubSeqProperties
<1>4. QED
  BY <1>3 DEF Without

LEMMA TailType ==
  ASSUME NEW line \in Seq(PacketSet), line # <<>>
  PROVE  Tail(line) \in Seq(PacketSet) /\ Head(line) \in PacketSet
OBVIOUS

LEMMA SenderStepsTyped ==
  ASSUME Typed, NEW c, c.s \in SndSet, Patient(c.s), c.out \in Seq(PacketSet),
         NEW left \in Seq(PacketSet), SenderSteps(c, left), faults' \in 0 .. scenario.most
  PROVE  Typed'
<1>1. /\ scenario \in Scenarios /\ rcv \in RcvSet /\ Patient(rcv)
      /\ rcv.mode = "streaming" <=> scenario.streaming
      /\ down \in Seq(PacketSet)
  BY DEF Typed
<1>2. scenario' = scenario /\ rcv' = rcv
  BY DEF SenderSteps
<1>3. snd' \in SndSet /\ Patient(snd')
  <2>1. snd' \in {c.s, Moved(c.s)}
    BY DEF SenderSteps, Called
  <2>2. /\ Moved(c.s) \in SndSet /\ Moved(c.s).timeouts = c.s.timeouts
        /\ Moved(c.s).state = c.s.state
    BY MovedFacts
  <2>3. QED
    BY <2>1, <2>2 DEF Patient, Ended
<1>4. down' \in Seq(PacketSet) /\ up' \in Seq(PacketSet)
  <2>1. down \o c.out \in Seq(PacketSet)
    BY <1>1, ConcatType
  <2>2. QED
    BY <2>1, LineType DEF SenderSteps
<1>5. (rcv \in RcvSet)' /\ Patient(rcv)' /\ (scenario \in Scenarios)'
      /\ (rcv.mode = "streaming" <=> scenario.streaming)' /\ (faults \in 0 .. scenario.most)'
  BY <1>1, <1>2 DEF Patient, Ended
<1>6. QED
  BY <1>3, <1>4, <1>5 DEF Typed

LEMMA ReceiverStepsTyped ==
  ASSUME Typed, NEW c, c.r \in RcvSet, Patient(c.r), c.out \in Seq(PacketSet),
         c.r.mode = "streaming" <=> rcv.mode = "streaming",
         NEW left \in Seq(PacketSet), ReceiverSteps(c, left), faults' \in 0 .. scenario.most
  PROVE  Typed'
<1>1. /\ scenario \in Scenarios /\ snd \in SndSet /\ Patient(snd)
      /\ rcv.mode = "streaming" <=> scenario.streaming
      /\ up \in Seq(PacketSet)
  BY DEF Typed
<1>2. scenario' = scenario /\ snd' = snd /\ rcv' = c.r
  BY DEF ReceiverSteps
<1>3. down' \in Seq(PacketSet) /\ up' \in Seq(PacketSet)
  <2>1. up \o c.out \in Seq(PacketSet)
    BY <1>1, ConcatType
  <2>2. QED
    BY <2>1, LineType DEF ReceiverSteps
<1>4. /\ (snd \in SndSet)' /\ Patient(snd)' /\ (rcv \in RcvSet)' /\ Patient(rcv)'
      /\ (scenario \in Scenarios)' /\ (faults \in 0 .. scenario.most)'
      /\ (rcv.mode = "streaming" <=> scenario.streaming)'
  BY <1>1, <1>2 DEF Patient, Ended
<1>5. QED
  BY <1>3, <1>4 DEF Typed

\* What a round makes of a program that may still time out.
LEMMA SenderTurnTyped ==
  ASSUME Typed, ~Ended(snd), NEW c, TurnOf(snd, c), NEW left \in Seq(PacketSet),
         SenderSteps(c, left), faults' \in 0 .. scenario.most
  PROVE  Typed'
<1>1. c.s \in SndSet /\ Patient(c.s) /\ c.out \in Seq(PacketSet)
  BY DEF Typed, Patient, TurnOf
<1>2. QED
  BY <1>1, SenderStepsTyped

LEMMA ReceiverRoundTyped ==
  ASSUME Typed, ~Ended(rcv), NEW c, RoundOf(rcv, c), NEW left \in Seq(PacketSet),
         ReceiverSteps(c, left), faults' \in 0 .. scenario.most
  PROVE  Typed'
<1>1. c.r \in RcvSet /\ Patient(c.r) /\ c.out \in Seq(PacketSet)
      /\ (c.r.mode = "streaming" <=> rcv.mode = "streaming")
  BY DEF Typed, Patient, RoundOf
<1>2. QED
  BY <1>1, ReceiverStepsTyped

LEMMA NakRound ==
  ASSUME NEW r \in RcvSet, NEW s \in RcvSet, Alike(r, s), NEW seq \in Nat
  PROVE  RoundOf(r, Nak(s, seq))
<1>1. RingStep(s, Nak(s, seq).r) /\ Nak(s, seq).out \in Seq(PacketSet)
  BY NakStep
<1>2. QED
  BY <1>1 DEF RingStep, RoundOf, Alike

-----------------------------------------------------------------------------

LEMMA InitTyped ==
  ASSUME Init
  PROVE  Typed
<1>1. scenario \in Scenarios /\ down \in Seq(PacketSet) /\ up \in Seq(PacketSet)
  BY DEF Init
<1>2. /\ scenario.streaming \in BOOLEAN /\ scenario.disk \in [Files -> Seq(Nat)]
      /\ scenario.most \in Nat
  BY <1>1, ScenarioFacts
<1>3. faults \in 0 .. scenario.most
  BY <1>2 DEF Init
<1>4. 1 \in Files /\ 1 \in 1 .. Len(Batch) + 1 /\ 0 \in 0 .. TimeoutMax /\ 0 < TimeoutMax
  BY ConstantFacts
<1>5. OpeningMode(scenario) \in {"streaming", "opening"}
      /\ (OpeningMode(scenario) = "streaming" <=> scenario.streaming)
  BY DEF OpeningMode
<1>6. snd \in SndSet /\ Patient(snd)
  <2>1. /\ snd \in SndFields /\ snd.window = <<>> /\ snd.file \in Files
        /\ snd.mode # "windows" /\ snd.timeouts = 0
    BY <1>4, <1>5 DEF Init, SndFields, States
  <2>2. Len(snd.window) <= Slots(snd) /\ DOMAIN snd.window = {}
    BY <2>1, SlotsType, ConstantFacts
  <2>3. QED
    BY <1>4, <2>1, <2>2 DEF SndSet, Patient
<1>7. rcv \in RcvSet /\ Patient(rcv) /\ (rcv.mode = "streaming" <=> scenario.streaming)
  <2>1. Blank \in SlotSet
    BY DEF Blank, SlotSet
  <2>2. [i \in 0 .. WindowSize - 1 |-> Blank] \in [0 .. WindowSize - 1 -> SlotSet]
    BY <2>1
  <2>3. <<>> \in Seq(PacketSet) /\ {} \in SUBSET Files
    OBVIOUS
  <2>4. /\ rcv \in RcvFields /\ rcv.begin = 0 /\ rcv.count = 0 /\ rcv.timeouts = 0
        /\ rcv.mode = OpeningMode(scenario)
    BY <1>2, <1>4, <1>5, <2>2, <2>3 DEF Init, RcvFields, States
  <2>5. 0 \in 0 .. Slots(rcv) - 1 /\ 0 \in 0 .. Slots(rcv)
    BY SlotsType, ConstantFacts
  <2>6. QED
    BY <1>4, <1>5, <2>4, <2>5 DEF RcvSet, Patient
<1>8. QED
  BY <1>1, <1>3, <1>6, <1>7 DEF Typed

LEMMA NextTyped ==
  ASSUME Typed, Next
  PROVE  Typed'
<1>1. /\ scenario \in Scenarios /\ scenario.streaming \in BOOLEAN /\ scenario.most \in Nat
      /\ faults \in 0 .. scenario.most
      /\ snd \in SndSet /\ Patient(snd) /\ rcv \in RcvSet /\ Patient(rcv)
      /\ (rcv.mode = "streaming" <=> scenario.streaming)
      /\ down \in Seq(PacketSet) /\ up \in Seq(PacketSet)
  BY ScenarioFacts DEF Typed
<1>2. ASSUME NEW kind, Goes(kind) PROVE faults' \in 0 .. scenario.most
  BY <1>1, <1>2 DEF Goes
<1>3. UNCHANGED faults => faults' \in 0 .. scenario.most
  BY <1>1
<1>4. ASSUME Running(snd) PROVE ~Ended(snd) /\ snd.timeouts < TimeoutMax
  BY <1>1, <1>4 DEF Running, Patient
<1>5. ASSUME Running(rcv) PROVE ~Ended(rcv) /\ rcv.timeouts < TimeoutMax
  BY <1>1, <1>5 DEF Running, Patient
<1>6. CASE SenderStart
  <2>1. PICK k \in Tossed(up) : SenderSteps(Sent(SendInit(snd)), Without(up, k))
    BY <1>6 DEF SenderStart
  <2>2. k \in Nat
    BY <1>1 DEF Tossed
  <2>3. snd.state = "OFF" /\ ~Ended(snd)
    BY <1>6 DEF SenderStart, Ended
  <2>4. TurnOf(snd, Sent(SendInit(snd)))
    BY <1>1, <2>3, SenderStartTurn
  <2>5. QED
    BY <1>3, <1>6, <2>1, <2>2, <2>3, <2>4, <1>1, WithoutType, SenderTurnTyped DEF SenderStart
<1>7. CASE ReceiverStart
  <2> DEFINE r == [rcv EXCEPT !.state = "R"]
  <2>1. PICK k \in Tossed(down) : ReceiverSteps(Nak(r, 0), Without(down, k))
    BY <1>7 DEF ReceiverStart
  <2>2. k \in Nat
    BY <1>1 DEF Tossed
  <2>3. ~Ended(rcv)
    BY <1>7 DEF ReceiverStart, Ended
  <2>4. Alike(rcv, r)
    BY <1>1 DEF Alike, RcvSet, RcvFields, States
  <2> HIDE DEF r
  <2>5. RoundOf(rcv, Nak(r, 0))
    <3>1. r \in RcvSet
      BY <1>1, <2>4, AlikeType
    <3>2. QED
      BY <1>1, <2>4, <3>1, NakRound
  <2>6. Without(down, k) \in Seq(PacketSet)
    BY <1>1, <2>2, WithoutType
  <2>7. QED
    BY <1>3, <1>7, <2>1, <2>3, <2>5, <2>6, ReceiverRoundTyped DEF ReceiverStart
<1>8. CASE SenderReads
  <2>1. SenderSteps(Answered(snd, Head(up)), Tail(up)) /\ ~Ended(snd) /\ up # <<>>
    BY <1>4, <1>8 DEF SenderReads
  <2>2. TurnOf(snd, Answered(snd, Head(up))) /\ Tail(up) \in Seq(PacketSet)
    BY <1>1, <2>1, TailType, AnsweredTurn
  <2>3. QED
    BY <1>3, <1>8, <2>1, <2>2, SenderTurnTyped DEF SenderReads
<1>9. ASSUME NEW k \in DOMAIN up, Running(snd), SenderSteps(Unanswered(snd), Without(up, k)),
             faults' \in 0 .. scenario.most
      PROVE  Typed'
  <2>1. k \in Nat /\ up[k] \in PacketSet
    BY <1>1
  <2>2. TurnOf(snd, Unanswered(snd)) /\ Without(up, k) \in Seq(PacketSet)
    BY <1>1, <2>1, WithoutType, AnsweredTurn
  <2>3. QED
    BY <1>4, <1>9, <2>2, SenderTurnTyped
<1>10. CASE SenderRefuses
  BY <1>3, <1>9, <1>10 DEF SenderRefuses
<1>11. CASE SenderSendsMore
  <2>1. SenderSteps(Unanswered(snd), up) /\ ~Ended(snd)
    BY <1>11 DEF SenderSendsMore, CanSendMore, Ended
  <2>2. Plain("ACK", 0) \in PacketSet
    BY PlainType DEF Types
  <2>3. TurnOf(snd, Unanswered(snd))
    BY <1>1, <2>2, AnsweredTurn
  <2>4. QED
    BY <1>1, <1>3, <1>11, <2>1, <2>3, SenderTurnTyped DEF SenderSendsMore
<1>12. ASSUME TimesOut(snd), SenderSteps(SenderTimedOut(snd), up),
              faults' \in 0 .. scenario.most
       PROVE  Typed'
  <2>1. snd.timeouts < TimeoutMax
    BY <1>4, <1>12 DEF TimesOut
  <2>2. QED
    BY <1>1, <1>12, <2>1, SenderTimedOutType, SenderStepsTyped
<1>13. CASE SenderTimeout
  BY <1>3, <1>12, <1>13 DEF SenderTimeout
<1>14. CASE ReceiverReads
  <2>1. ReceiverSteps(Received(rcv, Head(down)), Tail(down)) /\ ~Ended(rcv) /\ down # <<>>
    BY <1>5, <1>14 DEF ReceiverReads
  <2>2. RoundOf(rcv, Received(rcv, Head(down))) /\ Tail(down) \in Seq(PacketSet)
    BY <1>1, <2>1, TailType, ReceivedRound
  <2>3. QED
    BY <1>3, <1>14, <2>1, <2>2, ReceiverRoundTyped DEF ReceiverReads
<1>15. ASSUME TimesOut(rcv), NEW seq \in TimeoutSeqs(rcv),
              ReceiverSteps(ReceiverTimedOut(rcv, seq), down), faults' \in 0 .. scenario.most
       PROVE  Typed'
  <2>1. rcv.timeouts < TimeoutMax /\ seq \in Nat
    BY <1>1, <1>5, <1>15, TimeoutSeqsType DEF TimesOut
  <2> DEFINE c == ReceiverTimedOut(rcv, seq)
  <2>2. c.r \in RcvSet /\ c.out \in Seq(PacketSet) /\ Patient(c.r) /\ c.r.mode = rcv.mode
    BY <1>1, <2>1, ReceiverTimedOutRound
  <2> HIDE DEF c
  <2>3. QED
    BY <1>1, <1>15, <2>2, ReceiverStepsTyped DEF c
<1>16. CASE ReceiverTimeout
  BY <1>3, <1>15, <1>16 DEF ReceiverTimeout
<1>17. CASE Lose
  <2>1. /\ UNCHANGED <<scenario, snd, rcv>> /\ faults' \in 0 .. scenario.most
    BY <1>2, <1>17 DEF Lose
  <2>2. down' \in Seq(PacketSet) /\ up' \in Seq(PacketSet)
    BY <1>1, <1>17, TailType DEF Lose
  <2>3. QED
    BY <1>1, <2>1, <2>2 DEF Typed, Patient, Ended
<1>18. CASE SenderDamaged
  BY <1>2, <1>9, <1>18 DEF SenderDamaged
<1>19. CASE ReceiverDamaged
  <2>1. PICK k \in DOMAIN down, seq \in {0, Head(down).seq} :
          ReceiverSteps(Nak(rcv, seq), Without(down, k))
    BY <1>19 DEF ReceiverDamaged
  <2>2. k \in Nat /\ seq \in Nat /\ ~Ended(rcv) /\ faults' \in 0 .. scenario.most
    BY <1>1, <1>2, <1>5, <1>19, TailType, PacketFields DEF ReceiverDamaged
  <2>3. Alike(rcv, rcv)
    BY <1>1 DEF Alike, RcvSet
  <2>4. RoundOf(rcv, Nak(rcv, seq)) /\ Without(down, k) \in Seq(PacketSet)
    BY <1>1, <2>2, <2>3, NakRound, WithoutType
  <2>5. QED
    BY <2>1, <2>2, <2>4, ReceiverRoundTyped
<1>20. CASE SenderLate
  BY <1>2, <1>12, <1>20 DEF SenderLate
<1>21. CASE ReceiverLate
  BY <1>2, <1>15, <1>21 DEF ReceiverLate
<1>22. CASE Skip
  <2>1. UNCHANGED <<scenario, down, up>> /\ faults' \in 0 .. scenario.most
    BY <1>2, <1>22 DEF Skip
  <2>2. snd' \in SndSet /\ Patient(snd')
    <3> DEFINE t == [snd EXCEPT !.skip = TRUE]
    <3>1. snd \in SndFields
      BY <1>1 DEF SndSet
    <3>2. /\ t \in SndFields /\ t.window = snd.window /\ t.mode = snd.mode
          /\ t.state = snd.state /\ t.file = snd.file /\ t.timeouts = snd.timeouts
      BY <3>1 DEF SndFields
    <3>3. snd' = snd \/ snd' = t
      BY <1>22 DEF Skip
    <3> HIDE DEF t
    <3>4. Slots(t) = Slots(snd) /\ (Streaming(t) <=> Streaming(snd))
      BY <3>2 DEF Slots, Streaming
    <3>5. t \in SndSet /\ Patient(t)
      BY <1>1, <3>2, <3>4 DEF SndSet, Patient, Ended
    <3>6. QED
      BY <1>1, <3>3, <3>5
  <2>3. rcv' \in RcvSet /\ Patient(rcv') /\ (rcv'.mode = "streaming" <=> scenario.streaming)
    <3> DEFINE r == [rcv EXCEPT !.skip = TRUE]
    <3>1. Alike(rcv, r) /\ r.state = rcv.state
      BY <1>1 DEF Alike, RcvSet, RcvFields
    <3>2. rcv' = rcv \/ rcv' = r
      BY <1>22 DEF Skip
    <3> HIDE DEF r
    <3>3. r \in RcvSet /\ Patient(r) /\ r.mode = rcv.mode
      BY <1>1, <3>1, AlikeType DEF Alike, Patient, Ended
    <3>4. QED
      BY <1>1, <3>2, <3>3
  <2>4. QED
    BY <1>1, <2>1, <2>2, <2>3 DEF Typed, Patient, Ended
<1>23. CASE UNCHANGED vars
  BY <1>23 DEF vars, Typed, Patient, Ended
<1>24. QED
  BY <1>6, <1>7, <1>8, <1>10, <1>11, <1>13, <1>14, <1>16, <1>17, <1>18, <1>19, <1>20, <1>21,
     <1>22, <1>23 DEF Next, Works, Fails, Done

LEMMA TypedIsTypeOK ==
  ASSUME Typed
  PROVE  TypeOK
<1>1. snd \in SndFields /\ Len(snd.window) <= Slots(snd)
  BY DEF Typed, SndSet
<1>2. rcv \in RcvFields /\ rcv.begin \in 0 .. Slots(rcv) - 1 /\ rcv.count \in 0 .. Slots(rcv)
  BY DEF Typed, RcvSet
<1>3. PacketSet \subseteq Packets
  BY DEF PacketSet
<1>4. down \in Seq(Packets) /\ up \in Seq(Packets)
  BY <1>3 DEF Typed
<1>5. QED
  BY <1>1, <1>2, <1>4 DEF Typed, TypeOK, SndFields, RcvFields

\* Type correctness: whatever batch, windows, timeouts and faults, the states and packets
\* of kermit.c are those of their types, and no window outgrows its array.
THEOREM TypeCorrect == Spec => []TypeOK
<1>1. Init => Typed
  BY InitTyped
<1>2. Typed /\ [Next]_vars => Typed'
  <2>1. Typed /\ UNCHANGED vars => Typed'
    BY DEF vars, Typed, Patient, Ended
  <2>2. QED
    BY <2>1, NextTyped
<1>3. Typed => TypeOK
  BY TypedIsTypeOK
<1>4. QED
  BY <1>1, <1>2, <1>3, PTL DEF Spec
-----------------------------------------------------------------------------
(***************************************************************************)
(* Streams.  With one slot in the receiver's ring and an answer to every   *)
(* packet but data, the programs go through the phases below one packet at *)
(* a time, until the data flow.                                            *)
(***************************************************************************)

\* A stream whose programs find nothing on the line when they start, whose timers are not
\* early, and whose users skip no file.  Packets may be lost and damaged.
Straight(c) == c.streaming /\ c.prompt /\ "late" \notin c.faults /\ "skip" \notin c.faults

\* At most one packet is on its way: p to the receiver, or one of A to the sender.
Single(D, U, p, A) ==
  \/ D = <<>> /\ U = <<>>
  \/ D = <<p>> /\ U = <<>>
  \/ D = <<>> /\ \E a \in A : U = <<a>>

\* The slot of a receiver of streams, which has a packet in it.
Cell(r) == r.slots[0]
Has(r, seq) == r.count = 1 /\ Cell(r).acked /\ Cell(r).seq = seq

Fresh(r) == r.count = 0 /\ r.seq = 0 /\ r.last = <<>> /\ ~r.open

\* What a sender that waits for an answer has sent.
Pending(s) ==
  CASE s.state = "S" -> Plain("SINIT", 0)
    [] s.state = "SF" -> Packet("FILE", s.seq % SeqCount, "", s.file)
    [] s.state = "SA" -> Plain("ATTRIBUTES", s.seq % SeqCount)
    [] s.state = "SDW" -> Packet("DATA", s.seq % SeqCount, "", Batch[s.file][1])
    [] s.state = "SZ" -> Packet("EOF", s.seq % SeqCount, "", 0)
    [] OTHER -> Plain("BREAK", s.seq % SeqCount)

Remembers(s) ==
  IF s.mode = "bare" THEN s.window = <<[packet |-> Pending(s), acked |-> FALSE]>>
  ELSE s.window = <<>> \/ s.window = <<[packet |-> Pending(s), acked |-> TRUE]>>

\* One packet at a time: all states of a stream but those with data, and of a sender whose
\* Send-Init was answered with nothing but a NAK of the next packet.
InStep(s) ==
  \/ s.mode = "streaming" /\ s.state \in {"SF", "SA", "SB"}
  \/ /\ s.mode = "bare" /\ s.state \in {"SF", "SDW", "SZ"} /\ s.file = 1
     /\ s.state = "SDW" => Batch[1] # <<>>
     /\ s.state = "SZ" => Batch[1] = <<>>

Greeting == Packet("ACK", 0, "init", 0)
NaksBut(seq) == {p \in PacketSet : p.type = "NAK" /\ p.seq # seq}

\* The phases of a transfer, as long as both programs go on.
NotBegun(s, r, D, U) ==
  /\ s.state = "OFF" /\ s.seq = 0 /\ s.file = 1 /\ s.mode = "streaming"
  /\ D = <<>> /\ Fresh(r)
  /\ \/ r.state = "OFF" /\ U = <<>>
     \/ r.state = "R" /\ (U = <<>> \/ U = <<Plain("NAK", 0)>>)

Opening(s, r, D, U) ==
  /\ s.state = "S" /\ s.seq = 0 /\ s.file = 1 /\ s.mode = "streaming" /\ Remembers(s)
  /\ \/ r.state = "OFF" /\ Fresh(r) /\ Single(D, U, Plain("SINIT", 0), {})
     \/ r.state = "R" /\ Fresh(r) /\ Single(D, U, Plain("SINIT", 0), {Plain("NAK", 0)})
     \/ /\ r.state = "RF" /\ Has(r, 0) /\ Cell(r).type # "DATA" /\ r.seq = 0
        /\ r.last = <<Greeting>> /\ ~r.open
        /\ Single(D, U, Plain("SINIT", 0), {Greeting, Plain("NAK", 0), Plain("NAK", 1)})

\* The receiver has not got what the sender waits for the answer to.
Asked(s, r, D, U) ==
  /\ InStep(s) /\ s.seq >= 1 /\ Remembers(s)
  /\ Has(r, (s.seq - 1) % SeqCount) /\ Cell(r).type # "DATA" /\ ~r.open
  /\ IF s.state \in {"SF", "SB"}
     THEN r.state = "RF" /\ r.last # <<>> /\ r.last[1].seq = Cell(r).seq
     ELSE r.state = "RDW" /\ r.file = s.file
  /\ r.seq = 0 => s.seq = 1
  /\ Single(D, U, Pending(s), NaksBut((s.seq + 1) % SeqCount))

\* The receiver has it.
Got(s, r, D, U) ==
  /\ InStep(s) /\ s.seq >= 1 /\ Remembers(s) /\ s.state \in {"SF", "SA", "SDW"}
  /\ Has(r, s.seq % SeqCount) /\ (r.open <=> s.state = "SA")
  /\ s.state # "SDW" => Cell(r).type # "DATA"
  /\ r.state = "RDW" /\ r.file = s.file /\ r.seq >= 1
  /\ D = <<>>
  /\ \/ U = <<>>
     \/ s.state = "SF" /\ U = <<Packet("ACK", s.seq % SeqCount, "name", s.file)>>
     \/ s.state = "SA" /\ \E n \in Nat : U = <<Packet("ACK", s.seq % SeqCount, "pos", n)>>

\* Data are on their way, and then the EOF.
Flowing(s, r, D, U) ==
  /\ s.mode = "streaming" /\ s.state \in {"SDW", "SZ"} /\ s.seq >= 1
  /\ r.state = "RDW" /\ r.open /\ r.file = s.file /\ r.count = 1 /\ r.seq >= 1
  /\ Cell(r).seq < SeqCount
  /\ \A i \in DOMAIN U : U[i].type = "NAK"
  /\ \A i \in DOMAIN D :
       /\ D[i].seq < SeqCount
       /\ \/ D[i].type = "DATA"
          \/ i = Len(D) /\ s.state = "SZ" /\ D[i] = Packet("EOF", s.seq % SeqCount, "", 0)

\* The receiver has closed the file.
Shut(s, r, D, U) ==
  /\ s.mode = "streaming" /\ s.state = "SZ" /\ s.seq >= 1
  /\ r.state = "RF" /\ ~r.open /\ Has(r, s.seq % SeqCount) /\ Cell(r).type # "DATA"
  /\ r.seq >= 1 /\ r.last # <<>> /\ r.last[1].seq = Cell(r).seq
  /\ s.file \in r.closed
  /\ D = <<>>
  /\ \A i \in DOMAIN U : U[i].type = "NAK" \/ (i = Len(U) /\ U[i].type = "ACK")

\* The receiver has ended, the sender has not.
Alone(s, r, D, U) ==
  /\ s.state # "OFF" /\ D = <<>> /\ Len(U) <= 1
  /\ s.state = "SDW" => U = <<>>
  /\ \A i \in DOMAIN U : U[i].type \in {"ACK", "NAK"}
  /\ s.state = "SZ" /\ U # <<>> =>
       s.file \in r.closed \/ (s.mode = "streaming" /\ U[1].type = "NAK")

Phase(s, r, D, U) ==
  \/ NotBegun(s, r, D, U) \/ Opening(s, r, D, U) \/ Asked(s, r, D, U) \/ Got(s, r, D, U)
  \/ Flowing(s, r, D, U) \/ Shut(s, r, D, U)

\* What the sender has behind it is closed.
Behind(s, r) ==
  /\ ~s.skip /\ s.mode \in {"streaming", "bare"}
  /\ s.state = "SF" => s.pos = 0
  /\ \A f \in Files : f < s.file => f \in r.closed
  /\ s.state \in {"SB", "COMPLETE"} => s.file = Len(Batch) + 1

Course(s, r, D, U) ==
  /\ Behind(s, r) /\ ~r.skip
  /\ ~Ended(s) /\ Ended(r) => Alone(s, r, D, U)
  /\ ~Ended(s) /\ ~Ended(r) => Phase(s, r, D, U)
-----------------------------------------------------------------------------
(* The data of a stream *)

\* d is the first n units of q.
Begins(d, q, n) == n \in 0 .. Len(q) /\ Len(d) = n /\ \A i \in 1 .. n : d[i] = q[i]

\* The files of the receiver are beginnings of the sender's.
Ours(c) == \A f \in Files : \E n \in Nat : Begins(c.disk[f], Batch[f], n)

Short == \A f \in Files : Len(Batch[f]) + 1 < SeqCount

\* p carries unit i of file f where unit 0 would have had the number b; the EOF is the
\* unit after the last.
Carries(p, f, b, i) ==
  \/ /\ i \in 1 .. Len(Batch[f])
     /\ p = Packet("DATA", (b + i) % SeqCount, "", Batch[f][i])
  \/ i = Len(Batch[f]) + 1 /\ p = Packet("EOF", (b + i) % SeqCount, "", 0)

\* Unit j is the last that the receiver has taken, all before it are on disk.
Through(r, b, j) ==
  /\ j \in Nat /\ Has(r, (b + j) % SeqCount)
  /\ \/ Cell(r).type # "DATA" /\ Begins(r.disk[r.file], Batch[r.file], j)
     \/ /\ Cell(r).type = "DATA" /\ j \in 1 .. Len(Batch[r.file])
        /\ Cell(r).n = Batch[r.file][j]
        /\ Begins(r.disk[r.file], Batch[r.file], j - 1)

\* Unit g was lost, and so was perhaps the one after it.
Stuck(r, b, g) == g \in Nat /\ r.count = 1 /\ ~Cell(r).acked /\ Cell(r).seq = (b + g) % SeqCount

\* What is on its way is of increasing units after unit j, up to unit "top", and then an
\* ERROR; all of them if nothing is lost.
Stream(D, f, b, j, top, all) ==
  /\ j <= top
  /\ \E u \in [DOMAIN D -> Nat] :
       /\ \A k \in DOMAIN D : u[k] >= j + 1
       /\ \A k, l \in DOMAIN D : k < l => u[k] < u[l]
       /\ \A k \in DOMAIN D : (u[k] <= top /\ Carries(D[k], f, b, u[k])) \/ D[k].type = "ERROR"
       /\ all => (Len(D) >= top - j /\ \A k \in DOMAIN D : u[k] = j + k)

Flow(c, r, D, b, top) ==
  \/ \E j \in Nat : Through(r, b, j) /\ Stream(D, r.file, b, j, top, c.faults = {})
  \/ \E g \in Nat : c.faults # {} /\ Stuck(r, b, g) /\ Stream(D, r.file, b, g + 1, top, FALSE)

\* The receiver will find nothing but the file's units, in their order.
Whole(c, r, D) == \E b \in Int, top \in 0 .. Len(Batch[r.file]) + 1 : Flow(c, r, D, b, top)

OnlyErrors(D) == \A i \in DOMAIN D : D[i].type = "ERROR"

\* The last unit that has been sent.
Top(s) == IF s.state = "SZ" THEN s.pos + 1 ELSE s.pos

\* What the receiver has closed is complete, and what it has not opened is as it was.
Kept(c, s, r) ==
  /\ \A f \in r.closed : r.disk[f] = Batch[f]
  /\ ~Ended(r) => \A f \in Files : f \in r.closed \/ (r.open /\ f = r.file) \/ r.disk[f] = c.disk[f]
  /\ r.open => r.state = "RDW" /\ r.file \notin r.closed
  /\ ~Ended(s) /\ ~Ended(r) =>
       \A f \in r.closed : f < s.file \/ (f = s.file /\ s.state = "SZ" /\ r.state = "RF")

\* What is on its way belongs to the file that is open.
Due(c, s, r, D, U) ==
  /\ ~Ended(s) /\ s.state = "SA" /\ r.open =>
       /\ r.disk[r.file] = c.disk[r.file]
       /\ U # <<>> => U[1].n = Len(r.disk[r.file])
  /\ ~Ended(s) /\ s.mode = "streaming" /\ s.state \in {"SDW", "SZ"} /\ r.open =>
       /\ s.pos \in 0 .. Len(Batch[s.file]) /\ (s.state = "SZ" => s.pos = Len(Batch[s.file]))
       /\ \A i \in DOMAIN D : D[i].type # "ERROR"
       /\ Flow(c, r, D, s.seq - Top(s), Top(s))
  /\ Ended(s) /\ r.open => Whole(c, r, D)
  /\ Ended(s) /\ ~Ended(r) /\ ~r.open => OnlyErrors(D)

Disk(c, s, r, D, U) == Kept(c, s, r) /\ Due(c, s, r, D, U)
-----------------------------------------------------------------------------
(* Sequence numbers *)

\* A number is in one row of SeqCount numbers, at one place.
LEMMA RemainderIs ==
  ASSUME NEW a \in Int, NEW q \in Int, NEW m \in 0 .. SeqCount - 1, a = SeqCount * q + m
  PROVE  a % SeqCount = m
<1>1. SeqCount \in Nat \ {0}
  BY ConstantFacts
<1> DEFINE p == a \div SeqCount
           k == a % SeqCount
<1>2. p \in Int /\ k \in 0 .. SeqCount - 1 /\ a = SeqCount * p + k
  BY <1>1
<1> HIDE DEF p, k
<1>3. SeqCount * (p - q) = m - k
  <2>1. SeqCount * (p - q) = SeqCount * p - SeqCount * q
    BY <1>1, <1>2
  <2>2. SeqCount * p \in Int /\ SeqCount * q \in Int
    BY <1>1, <1>2
  <2>3. QED
    BY <1>1, <1>2, <2>1, <2>2
<1>4. m - k < SeqCount /\ k - m < SeqCount
  BY <1>1, <1>2
<1>5. p - q >= 1 => SeqCount * (p - q) >= SeqCount
  BY <1>1, <1>2
<1>6. p - q <= -1 => SeqCount * (p - q) <= -SeqCount
  BY <1>1, <1>2
<1>7. p - q = 0
  BY <1>1, <1>2, <1>3, <1>4, <1>5, <1>6
<1>8. SeqCount * (p - q) = 0
  BY <1>1, <1>7
<1>9. QED
  BY <1>1, <1>2, <1>3, <1>8 DEF k

LEMMA NumberFacts ==
  ASSUME NEW a \in Int
  PROVE  /\ SeqCount \in Nat /\ SeqCount >= 4
         /\ a % SeqCount \in 0 .. SeqCount - 1
         /\ \E q \in Int : a = SeqCount * q + (a % SeqCount)
<1>1. SeqCount \in Nat /\ SeqCount >= 4
  BY KermitAssumption DEF KermitAssumption
<1>2. a % SeqCount \in 0 .. SeqCount - 1
  BY <1>1
<1>3. /\ a \div SeqCount \in Int
      /\ a = SeqCount * (a \div SeqCount) + (a % SeqCount)
  BY <1>1
<1>4. QED
  BY <1>1, <1>2, <1>3

\* Numbers that are less than a row apart differ on the line.
LEMMA NumbersApart ==
  ASSUME NEW a \in Int, NEW d \in 1 .. SeqCount - 1
  PROVE  (a + d) % SeqCount # a % SeqCount
<1> DEFINE m == a % SeqCount
<1>1. SeqCount \in Nat /\ SeqCount >= 4 /\ m \in 0 .. SeqCount - 1
  BY NumberFacts
<1>2. PICK q \in Int : a = SeqCount * q + m
  BY NumberFacts
<1> HIDE DEF m
<1>3. CASE m + d < SeqCount
  <2>1. (a + d) % SeqCount = m + d
    <3>1. m + d \in 0 .. SeqCount - 1 /\ a + d \in Int
      BY <1>1, <1>3
    <3>2. a + d = SeqCount * q + (m + d)
      <4>1. SeqCount * q \in Int
        BY <1>1
      <4>2. QED
        BY <1>1, <1>2, <4>1
    <3>3. QED
      BY <3>1, <3>2, RemainderIs
  <2>2. QED
    BY <1>1, <2>1 DEF m
<1>4. CASE m + d >= SeqCount
  <2>1. (a + d) % SeqCount = m + d - SeqCount
    <3>1. m + d - SeqCount \in 0 .. SeqCount - 1 /\ a + d \in Int /\ q + 1 \in Int
      BY <1>1, <1>4
    <3>2. a + d = SeqCount * (q + 1) + (m + d - SeqCount)
      <4>1. SeqCount * q \in Int /\ SeqCount * (q + 1) = SeqCount * q + SeqCount
        BY <1>1
      <4>2. QED
        BY <1>1, <1>2, <4>1
    <3>3. QED
      BY <3>1, <3>2, RemainderIs
  <2>2. QED
    BY <1>1, <2>1 DEF m
<1>5. QED
  BY <1>1, <1>3, <1>4

LEMMA SmallNumber ==
  ASSUME NEW a \in 0 .. SeqCount - 1
  PROVE  a % SeqCount = a
<1>1. SeqCount \in Nat /\ a \in Int /\ a = SeqCount * 0 + a
  BY ConstantFacts
<1>2. QED
  BY <1>1, RemainderIs

\* The number after that of a is that of a + 1.
LEMMA NextNumber ==
  ASSUME NEW a \in Int
  PROVE  After(a % SeqCount) = (a + 1) % SeqCount
<1> DEFINE m == a % SeqCount
<1>1. SeqCount \in Nat /\ SeqCount >= 4 /\ m \in 0 .. SeqCount - 1
  BY NumberFacts
<1>2. PICK q \in Int : a = SeqCount * q + m
  BY NumberFacts
<1>3. After(m) = (m + 1) % SeqCount
  BY DEF After
<1> HIDE DEF m
<1>4. SeqCount * q \in Int /\ SeqCount * (q + 1) = SeqCount * q + SeqCount
      /\ SeqCount * 1 = SeqCount
  BY <1>1
<1>5. CASE m + 1 < SeqCount
  <2>1. m + 1 \in 0 .. SeqCount - 1 /\ a + 1 \in Int /\ a + 1 = SeqCount * q + (m + 1)
    BY <1>1, <1>2, <1>4, <1>5
  <2>2. (a + 1) % SeqCount = m + 1 /\ (m + 1) % SeqCount = m + 1
    BY <2>1, RemainderIs, SmallNumber
  <2>3. QED
    BY <1>3, <2>2 DEF m
<1>6. CASE m + 1 = SeqCount
  <2>1. /\ 0 \in 0 .. SeqCount - 1 /\ a + 1 \in Int /\ a + 1 = SeqCount * (q + 1) + 0
        /\ m + 1 \in Int /\ m + 1 = SeqCount * 1 + 0 /\ q + 1 \in Int
    BY <1>1, <1>2, <1>4, <1>6
  <2>2. (a + 1) % SeqCount = 0
    BY <2>1, RemainderIs
  <2>3. (m + 1) % SeqCount = 0
    BY <2>1, RemainderIs
  <2>4. QED
    BY <1>3, <2>2, <2>3 DEF m
<1>7. QED
  BY <1>1, <1>5, <1>6

\* What the programs need to know of the number of a packet and those around it.
LEMMA Neighbours ==
  ASSUME NEW a \in Nat, a >= 1
  PROVE  /\ After((a - 1) % SeqCount) = a % SeqCount
         /\ (a - 1) % SeqCount # a % SeqCount
         /\ a % SeqCount # (a + 1) % SeqCount
         /\ ((a - 1) % SeqCount) + 1 # (a + 1) % SeqCount
         /\ a = 1 => (a + 1) % SeqCount # 0
         /\ (a + 1 - 1) % SeqCount = a % SeqCount
         /\ (a - 1) % SeqCount \in 0 .. SeqCount - 1 /\ a % SeqCount \in 0 .. SeqCount - 1
<1>1. SeqCount \in Nat /\ SeqCount >= 4 /\ 1 \in 1 .. SeqCount - 1 /\ 2 \in 1 .. SeqCount - 1
      /\ 2 \in 0 .. SeqCount - 1
  BY NumberFacts
<1>2. a - 1 \in Int /\ a \in Int /\ a + 1 \in Int /\ a - 1 + 1 = a /\ a + 1 - 1 = a
  OBVIOUS
<1>3. After((a - 1) % SeqCount) = a % SeqCount
  BY <1>2, NextNumber
<1>4. (a - 1 + 1) % SeqCount # (a - 1) % SeqCount /\ (a + 1) % SeqCount # a % SeqCount
  BY <1>1, <1>2, NumbersApart
<1>5. (a - 1) % SeqCount \in 0 .. SeqCount - 1 /\ a % SeqCount \in 0 .. SeqCount - 1
      /\ (a + 1) % SeqCount \in 0 .. SeqCount - 1
  BY <1>2, NumberFacts
<1>6. ((a - 1) % SeqCount) + 1 # (a + 1) % SeqCount
  <2> DEFINE m == (a - 1) % SeqCount
  <2>1. m \in 0 .. SeqCount - 1 /\ After(m) = a % SeqCount /\ After(m) = (m + 1) % SeqCount
    BY <1>3, <1>5 DEF After
  <2> HIDE DEF m
  <2>2. CASE m + 1 < SeqCount
    <3>1. m + 1 \in 0 .. SeqCount - 1
      BY <1>1, <2>1, <2>2
    <3>2. (m + 1) % SeqCount = m + 1
      BY <3>1, SmallNumber
    <3>3. QED
      BY <1>4, <2>1, <3>2 DEF m
  <2>3. CASE m + 1 >= SeqCount
    <3>1. m + 1 # (a + 1) % SeqCount
      BY <1>1, <1>5, <2>3, <2>1
    <3>2. QED
      BY <3>1 DEF m
  <2>4. QED
    BY <1>1, <2>1, <2>2, <2>3
<1>7. 2 % SeqCount = 2
  BY <1>1, SmallNumber
<1>8. a = 1 => (a + 1) % SeqCount # 0
  BY <1>7
<1>9. QED
  BY <1>2, <1>3, <1>4, <1>5, <1>6, <1>8
-----------------------------------------------------------------------------
(* The ring of a receiver of streams *)

LEMMA OneSlot ==
  ASSUME NEW r \in RcvSet, r.mode = "streaming"
  PROVE  /\ Slots(r) = 1 /\ r.begin = 0 /\ r.count \in {0, 1}
         /\ End(r) = 0 /\ Newest(r) = 0 /\ (Full(r) <=> r.count = 1)
         /\ \A k \in Nat : At(r, k) = 0
         /\ Oldest(r) = Cell(r) /\ Cell(r) \in SlotSet /\ Cell(r).seq \in Nat
         /\ ~Windowing(r) /\ Streaming(r)
         /\ Missing(r) = IF r.count = 1 /\ ~Cell(r).acked THEN {0} ELSE {}
         /\ 0 \in 0 .. WindowSize - 1 /\ r.slots \in [0 .. WindowSize - 1 -> SlotSet]
<1>1. Slots(r) = 1 /\ WindowSize \in Nat \ {0, 1}
  BY ConstantFacts DEF Slots
<1>2. r.begin = 0 /\ r.count \in {0, 1} /\ r.slots \in [0 .. WindowSize - 1 -> SlotSet]
  BY <1>1 DEF RcvSet, RcvFields
<1>3. \A k \in Nat : k % 1 = 0
  OBVIOUS
<1>4. \A k \in Nat : At(r, k) = 0
  BY <1>1, <1>2, <1>3 DEF At
<1>5. End(r) = 0
  BY <1>2, <1>4 DEF End
<1>6. Newest(r) = 0 /\ (Full(r) <=> r.count = 1)
  BY <1>1, <1>5 DEF Newest, Full
<1>7. Oldest(r) = Cell(r) /\ Cell(r) \in SlotSet /\ Cell(r).seq \in Nat
  BY <1>1, <1>2 DEF Oldest, Cell, SlotSet
<1>8. Missing(r) = IF r.count = 1 /\ ~Cell(r).acked THEN {0} ELSE {}
  <2>1. CASE r.count = 0
    BY <2>1 DEF Missing
  <2>2. CASE r.count = 1
    <3>1. 0 .. r.count - 1 = {0}
      BY <2>2
    <3>2. At(r, 0) = 0
      BY <1>4
    <3>3. QED
      BY <2>2, <3>1, <3>2 DEF Missing, Cell
  <2>3. QED
    BY <1>2, <2>1, <2>2
<1>9. QED
  BY <1>1, <1>2, <1>4, <1>5, <1>6, <1>7, <1>8 DEF Windowing, Streaming

LEMMA MinOfOne ==
  Min({0}) = 0
BY DEF Min

\* nak_packet() leaves the slot alone.
LEMMA NakOfStream ==
  ASSUME NEW r \in RcvSet, r.mode = "streaming", NEW seq \in Nat
  PROVE  /\ Nak(r, seq).r = r
         /\ r.seq = 0 /\ seq = 0 => Nak(r, seq).out = <<Plain("NAK", 0)>>
         /\ ~(r.seq = 0 /\ seq = 0) /\ r.count = 1 /\ Cell(r).acked =>
              Nak(r, seq).out = <<Plain("NAK", Cell(r).seq + 1)>>
         /\ \E n \in Nat : Nak(r, seq).out = <<Plain("NAK", n)>>
<1>1. Nak(r, seq) =
        [r |-> r, out |-> <<Plain("NAK", IF r.seq = 0 /\ seq = 0 THEN 0 ELSE Wanted(r))>>]
  BY OneSlot DEF Nak
<1>2. r.count = 1 /\ Cell(r).acked => Wanted(r) = Cell(r).seq + 1
  <2>1. r.count = 1 /\ Cell(r).acked => Missing(r) = {} /\ r.count # 0 /\ r.count - 1 = 0
    BY OneSlot
  <2>2. End(r) = 0
    BY OneSlot
  <2>3. QED
    BY <2>1, <2>2 DEF Wanted, Cell
<1>3. Wanted(r) \in Nat
  BY WantedType
<1>4. QED
  BY <1>1, <1>2, <1>3

\* What is in the slot goes to the file when the slot is used again.
Flushed(r) ==
  IF Cell(r).acked /\ Cell(r).type = "DATA" /\ Cell(r).n # 0
  THEN [r.disk EXCEPT ![r.file] = @ \o <<Cell(r).n>>] ELSE r.disk

\* It can: there is a file for it.
Sound(r) == r.open \/ Cell(r).type # "DATA"

\* s is r with another slot.
Put(r, s, slot, seq) ==
  /\ s \in RcvSet /\ s.mode = r.mode /\ s.state = r.state /\ s.count = 1
  /\ Cell(s) = slot /\ s.seq = seq
  /\ s.last = r.last /\ s.open = r.open /\ s.file = r.file /\ s.closed = r.closed
  /\ s.skip = r.skip /\ s.timeouts = r.timeouts

LEMMA UnitsOfStream ==
  ASSUME NEW r \in RcvSet, r.mode = "streaming"
  PROVE  /\ Units(r, 0) = <<>>
         /\ Units(r, 1) = IF Cell(r).acked /\ Cell(r).type = "DATA" /\ Cell(r).n # 0
                          THEN <<Cell(r).n>> ELSE <<>>
<1> DEFINE slot(j) == r.slots[At(r, j)]
           held(k) == {j \in 0 .. k - 1 : slot(j).acked /\ slot(j).type = "DATA" /\ slot(j).n # 0}
           place(k, i) == CHOOSE j \in held(k) : Cardinality({h \in held(k) : h <= j}) = i
<1>1. \A k : Units(r, k) = [i \in 1 .. Cardinality(held(k)) |-> slot(place(k, i)).n]
  BY DEF Units
<1>2. slot(0) = Cell(r)
  BY OneSlot DEF Cell
<1>3. 0 .. 0 - 1 = {} /\ 0 .. 1 - 1 = {0}
  OBVIOUS
<1>4. held(0) = {}
  BY <1>3
<1>5. held(1) = IF Cell(r).acked /\ Cell(r).type = "DATA" /\ Cell(r).n # 0 THEN {0} ELSE {}
  BY <1>2, <1>3
<1>6. ASSUME NEW k, held(k) = {} PROVE Units(r, k) = <<>>
  <2>1. Cardinality(held(k)) = 0
    BY <1>6, FS_EmptySet
  <2> HIDE DEF held
  <2>2. QED
    BY <1>1, <2>1
<1>7. ASSUME held(1) = {0} PROVE Units(r, 1) = <<Cell(r).n>>
  <2>1. Cardinality({0}) = 1
    BY FS_Singleton
  <2>2. {h \in held(1) : h <= 0} = {0}
    BY <1>7
  <2>3. place(1, 1) = 0
    BY <1>7, <2>1, <2>2
  <2>4. Cardinality(held(1)) = 1
    BY <1>7, <2>1
  <2> HIDE DEF held, place, slot
  <2>5. \A i \in 1 .. 1 : slot(place(1, i)).n = Cell(r).n
    BY <1>2, <2>3
  <2>6. [i \in 1 .. 1 |-> slot(place(1, i)).n] = <<Cell(r).n>>
    BY <2>5
  <2>7. QED
    BY <1>1, <2>4, <2>6
<1>8. QED
  BY <1>4, <1>5, <1>6, <1>7

LEMMA FlushedIs ==
  ASSUME NEW r \in RcvSet, r.mode = "streaming", r.count = 1, Sound(r)
  PROVE  LET w == Written(r, Units(r, 1))
         IN w = [r EXCEPT !.disk = Flushed(r)] /\ w.disk = Flushed(r) /\ w \in RcvSet
<1>1. r \in RcvFields /\ r.disk \in [Files -> Seq(Nat)] /\ r.file \in Files
  BY DEF RcvSet, RcvFields
<1>2. CASE Cell(r).acked /\ Cell(r).type = "DATA" /\ Cell(r).n # 0
  <2>1. Units(r, 1) = <<Cell(r).n>> /\ <<Cell(r).n>> # <<>> /\ r.open
    BY <1>2, UnitsOfStream DEF Sound
  <2>2. Written(r, Units(r, 1)) = [r EXCEPT !.disk[r.file] = @ \o <<Cell(r).n>>]
    BY <2>1 DEF Written
  <2>3. Flushed(r) = [r.disk EXCEPT ![r.file] = @ \o <<Cell(r).n>>]
    BY <1>2 DEF Flushed
  <2>4. Written(r, Units(r, 1)) = [r EXCEPT !.disk = Flushed(r)]
    BY <1>1, <2>2, <2>3 DEF RcvFields
  <2>5. RingStep(r, Written(r, Units(r, 1)))
    <3>1. 1 \in 0 .. r.count
      OBVIOUS
    <3>2. QED
      BY <3>1, UnitsType, WrittenStep
  <2>6. QED
    BY <1>1, <2>4, <2>5 DEF RcvFields, RingStep
<1>3. CASE ~(Cell(r).acked /\ Cell(r).type = "DATA" /\ Cell(r).n # 0)
  <2>1. Units(r, 1) = <<>> /\ Flushed(r) = r.disk
    BY <1>3, UnitsOfStream DEF Flushed
  <2>2. Written(r, Units(r, 1)) = r
    BY <2>1 DEF Written
  <2>3. QED
    BY <1>1, <2>1, <2>2 DEF RcvFields
<1>4. QED
  BY <1>2, <1>3

LEMMA RolledOffStream ==
  ASSUME NEW r \in RcvSet, r.mode = "streaming", r.count = 1, Sound(r)
  PROVE  LET s == RolledOff(r, 1)
         IN /\ s \in RcvSet /\ s.mode = r.mode /\ s.state = r.state /\ s.count = 0
            /\ Cell(s) = Gap(Cell(r).seq) /\ s.seq = r.seq /\ s.disk = Flushed(r)
            /\ s.last = r.last /\ s.open = r.open /\ s.file = r.file /\ s.closed = r.closed
            /\ s.skip = r.skip /\ s.timeouts = r.timeouts
<1> DEFINE w == Written(r, Units(r, 1))
           freed == {At(r, j) : j \in 0 .. 1 - 1}
           slots == [i \in DOMAIN r.slots |->
                       IF i \in freed THEN Gap(r.slots[i].seq) ELSE r.slots[i]]
           s == RolledOff(r, 1)
<1>1. w = [r EXCEPT !.disk = Flushed(r)] /\ w \in RcvSet
  BY FlushedIs
<1>2. 0 .. 1 - 1 = {0} /\ At(r, 0) = 0 /\ At(r, 1) = 0
  BY OneSlot
<1>3. freed = {0}
  BY <1>2
<1>4. slots[0] = Gap(Cell(r).seq)
  BY <1>3, OneSlot DEF Cell
<1>5. RingStep(r, s) /\ s.count = 0
  BY RolledOffStep
<1>6. r \in RcvFields /\ w.slots = r.slots
  BY <1>1 DEF RcvSet, RcvFields
<1>7. s = [w EXCEPT !.begin = At(r, 1), !.count = @ - 1, !.slots = slots]
  BY <1>6 DEF RolledOff
<1> HIDE DEF slots, freed
<1>8. /\ s.slots = slots /\ s.seq = w.seq /\ s.disk = w.disk /\ s.last = w.last
      /\ s.open = w.open /\ s.file = w.file /\ s.closed = w.closed /\ s.skip = w.skip
      /\ s.timeouts = w.timeouts /\ s.mode = w.mode /\ s.state = w.state
  <2>1. w \in RcvFields
    BY <1>1 DEF RcvSet
  <2> HIDE DEF w
  <2>2. QED
    BY <2>1, <1>7 DEF RcvFields
<1>9. /\ w.seq = r.seq /\ w.disk = Flushed(r) /\ w.last = r.last
      /\ w.open = r.open /\ w.file = r.file /\ w.closed = r.closed /\ w.skip = r.skip
      /\ w.timeouts = r.timeouts /\ w.mode = r.mode /\ w.state = r.state
  BY <1>1, <1>6 DEF RcvFields
<1>10. QED
  BY <1>4, <1>5, <1>8, <1>9 DEF Cell, RingStep

LEMMA StoredInStream ==
  ASSUME NEW r \in RcvSet, r.mode = "streaming", NEW p \in PacketSet
  PROVE  /\ Put(r, Stored(r, 0, p), Held(p), r.seq + 1)
         /\ Stored(r, 0, p).disk = r.disk
<1> DEFINE s == Stored(r, 0, p)
           slots == [r.slots EXCEPT ![0] = Held(p)]
           count == IF Full(r) THEN r.count ELSE r.count + 1
           kept == [r EXCEPT !.slots = slots]
<1>1. 0 \in 0 .. WindowSize - 1 /\ End(r) = 0 /\ r.slots \in [0 .. WindowSize - 1 -> SlotSet]
  BY OneSlot
<1>2. RingStep(r, s)
  BY <1>1, StoredStep
<1>3. r \in RcvFields
  BY DEF RcvSet
<1>4. count = 1
  BY OneSlot
<1>5. /\ kept \in [DOMAIN r -> UNION {{kept[x]} : x \in DOMAIN r}]
      /\ kept.seq = r.seq /\ kept.count = r.count /\ kept.mode = r.mode
      /\ kept.slots = slots
  BY <1>3 DEF RcvFields
<1>6. s = [kept EXCEPT !.seq = r.seq + 1, !.count = count]
  BY <1>1, <1>3, <1>5 DEF Stored, Full, Slots, RcvFields
<1>7. slots[0] = Held(p)
  BY <1>1
<1> HIDE DEF slots, count
<1>8. /\ s.slots = slots /\ s.seq = r.seq + 1 /\ s.count = count /\ s.disk = r.disk
      /\ s.last = r.last /\ s.open = r.open /\ s.file = r.file /\ s.closed = r.closed
      /\ s.skip = r.skip /\ s.timeouts = r.timeouts /\ s.mode = r.mode /\ s.state = r.state
  BY <1>3, <1>6 DEF RcvFields
<1>9. QED
  BY <1>2, <1>4, <1>7, <1>8 DEF Put, Cell, RingStep

\* The first packet is taken.
LEMMA FirstSaved ==
  ASSUME NEW r \in RcvSet, r.mode = "streaming", r.count = 0, NEW p \in PacketSet
  PROVE  LET c == Save(r, p)
         IN c.taken /\ Put(r, c.r, Held(p), r.seq + 1) /\ c.r.disk = r.disk
<1>1. End(r) = 0
  BY OneSlot
<1>2. Save(r, p) = [r |-> Stored(r, End(r), p), out |-> <<>>, taken |-> TRUE]
  BY DEF Save
<1>3. QED
  BY <1>1, <1>2, StoredInStream

\* The next packet is taken, and the slot's goes to the file.
LEMMA NextSaved ==
  ASSUME NEW r \in RcvSet, r.mode = "streaming", r.count = 1, Sound(r),
         NEW p \in PacketSet, p.seq = After(Cell(r).seq)
  PROVE  LET c == Save(r, p)
         IN c.taken /\ Put(r, c.r, Held(p), r.seq + 1) /\ c.r.disk = Flushed(r)
<1> DEFINE rolled == RolledOff(r, 1)
           t == IF Cell(r).acked THEN rolled ELSE r
<1>1. IsNext(r, p.seq) /\ r.count # 0 /\ r.count > 0
  BY OneSlot DEF IsNext, Cell
<1>2. Save(r, p) = [r |-> StoredNext(r, p), out |-> <<>>, taken |-> TRUE]
  BY <1>1 DEF Save
<1>3. StoredNext(r, p) = Stored(t, 0, p)
  <2>1. Oldest(r) = Cell(r) /\ Full(r) /\ End(r) = 0
    BY OneSlot
  <2> HIDE DEF rolled
  <2>2. QED
    BY <2>1 DEF StoredNext, rolled
<1>4. /\ t \in RcvSet /\ t.mode = r.mode /\ t.state = r.state
      /\ t.seq = r.seq /\ t.disk = Flushed(r)
      /\ t.last = r.last /\ t.open = r.open /\ t.file = r.file /\ t.closed = r.closed
      /\ t.skip = r.skip /\ t.timeouts = r.timeouts
  <2>1. CASE Cell(r).acked
    BY <2>1, RolledOffStream
  <2>2. CASE ~Cell(r).acked
    BY <2>2 DEF Flushed
  <2>3. QED
    BY <2>1, <2>2
<1> HIDE DEF t
<1>5. Put(t, Stored(t, 0, p), Held(p), t.seq + 1) /\ Stored(t, 0, p).disk = t.disk
  BY <1>4, StoredInStream
<1>6. QED
  BY <1>2, <1>3, <1>4, <1>5 DEF Put

\* The packet in the slot is taken again, and does not go to the file.
LEMMA SameSaved ==
  ASSUME NEW r \in RcvSet, r.mode = "streaming", r.count = 1, NEW p \in PacketSet,
         p.seq # After(Cell(r).seq), ~IsAhead(r, p.seq), Cell(r).seq = p.seq
  PROVE  LET c == Save(r, p)
         IN c.taken /\ Put(r, c.r, Held(p), r.seq + 1) /\ c.r.disk = r.disk
<1>1. ~IsNext(r, p.seq) /\ r.count # 0 /\ r.count > 0
  BY OneSlot DEF IsNext, Cell
<1>2. PlacesOf(r, p.seq) = {0}
  <2>1. 0 .. r.count - 1 = {0} /\ At(r, 0) = 0
    BY OneSlot
  <2>2. QED
    BY <2>1 DEF PlacesOf, Cell
<1>3. At(r, Min(PlacesOf(r, p.seq))) = 0
  BY <1>2, MinOfOne, OneSlot
<1>4. Save(r, p) = [r |-> Stored(r, 0, p), out |-> <<>>, taken |-> TRUE]
  BY <1>1, <1>2, <1>3 DEF Save
<1>5. QED
  BY <1>4, StoredInStream

\* Any other packet that is not ahead is passed over.
LEMMA OtherSaved ==
  ASSUME NEW r \in RcvSet, r.mode = "streaming", r.count = 1, NEW p \in PacketSet,
         p.seq # After(Cell(r).seq), ~IsAhead(r, p.seq), Cell(r).seq # p.seq
  PROVE  Save(r, p) = [r |-> r, out |-> <<>>, taken |-> FALSE]
<1>1. ~IsNext(r, p.seq) /\ r.count # 0 /\ r.count > 0
  BY OneSlot DEF IsNext, Cell
<1>2. PlacesOf(r, p.seq) = {}
  <2>1. 0 .. r.count - 1 = {0} /\ At(r, 0) = 0
    BY OneSlot
  <2>2. QED
    BY <2>1 DEF PlacesOf, Cell
<1>3. QED
  BY <1>1, <1>2 DEF Save

LEMMA RolledNone ==
  ASSUME NEW r \in RcvSet, r.mode = "streaming"
  PROVE  RolledOff(r, 0) = r
<1> DEFINE freed == {At(r, j) : j \in 0 .. 0 - 1}
           slots == [i \in DOMAIN r.slots |->
                       IF i \in freed THEN Gap(r.slots[i].seq) ELSE r.slots[i]]
<1>1. Written(r, Units(r, 0)) = r
  BY UnitsOfStream DEF Written
<1>2. 0 .. 0 - 1 = {}
  OBVIOUS
<1>3. freed = {}
  BY <1>2
<1>4. r.slots \in [0 .. WindowSize - 1 -> SlotSet]
  BY OneSlot
<1>5. slots = r.slots
  BY <1>3, <1>4
<1> DEFINE w == Written(r, Units(r, 0))
<1>6. RolledOff(r, 0) = [r EXCEPT !.begin = At(r, 0), !.count = @ - 0, !.slots = slots]
  <2>1. w.slots = r.slots
    BY <1>1
  <2>2. RolledOff(r, 0) = [w EXCEPT !.begin = At(r, 0), !.count = @ - 0, !.slots = slots]
    BY <2>1 DEF RolledOff
  <2>3. QED
    BY <1>1, <2>2
<1>7. At(r, 0) = r.begin /\ r.count - 0 = r.count
  BY OneSlot
<1> HIDE DEF slots
<1> HIDE DEF w
<1>8. r \in RcvFields /\ r.begin \in Nat /\ r.count \in Nat
  BY DEF RcvSet, RcvFields
<1>9. RolledOff(r, 0) = [r EXCEPT !.begin = r.begin, !.count = r.count, !.slots = r.slots]
  BY <1>5, <1>6, <1>7, <1>8 DEF RcvFields
<1>10. QED
  BY <1>8, <1>9 DEF RcvFields

LEMMA GapsOfStream ==
  ASSUME NEW r \in RcvSet, r.mode = "streaming", NEW seq \in Nat
  PROVE  /\ r.count = 1 => WithGaps(r, seq) = r
         /\ r.count = 0 /\ (seq - Cell(r).seq - 1) % SeqCount # 0 =>
              /\ Put(r, WithGaps(r, seq), Gap(After(Cell(r).seq)), r.seq)
              /\ WithGaps(r, seq).disk = r.disk
<1> DEFINE last == Cell(r).seq
           far == (seq - last - 1) % SeqCount
           gaps == Min({1 - r.count, far})
           slots == [i \in DOMAIN r.slots |->
                       LET k == (i - 0) % 1
                       IN IF i < 1 /\ k < gaps
                          THEN Gap((last + 1 + k) % SeqCount) ELSE r.slots[i]]
           s == WithGaps(r, seq)
<1>1. /\ Slots(r) = 1 /\ End(r) = 0 /\ r.slots[Newest(r)].seq = last /\ last \in Nat
      /\ r.slots \in [0 .. WindowSize - 1 -> SlotSet]
      /\ r.count \in {0, 1}
  BY OneSlot DEF Cell
<1>2. s = [r EXCEPT !.slots = slots, !.count = @ + gaps]
  BY <1>1 DEF WithGaps
<1>3. SeqCount \in Nat \ {0} /\ WindowSize \in Nat \ {0, 1}
  BY ConstantFacts
<1>4. far \in Nat
  <2> HIDE DEF last
  <2>1. seq - last - 1 \in Int
    BY <1>1
  <2>2. QED
    BY <1>3, <2>1
<1>5. r \in RcvFields /\ RingStep(r, s)
  BY WithGapsStep DEF RcvSet
<1>6. \A i \in 0 .. WindowSize - 1 : i < 1 <=> i = 0
  BY <1>3
<1>7. (0 - 0) % 1 = 0
  OBVIOUS
<1> HIDE DEF far, last
<1>8. CASE r.count = 1
  <2>1. Min({0, far}) = 0
    BY <1>4, MinOfTwo
  <2>2. gaps = 0 /\ r.count + gaps = r.count
    BY <1>8, <2>1
  <2> HIDE DEF gaps
  <2>3. \A i \in 0 .. WindowSize - 1 : ~(i < 1 /\ (i - 0) % 1 < 0)
    BY <1>3
  <2>4. slots = r.slots
    BY <1>1, <2>2, <2>3
  <2> HIDE DEF slots
  <2>6. s = [r EXCEPT !.slots = r.slots, !.count = r.count]
    BY <1>2, <1>5, <2>2, <2>4 DEF RcvFields
  <2>7. s = r
    BY <1>5, <2>6 DEF RcvFields
  <2>8. QED
    BY <1>8, <2>7
<1>9. CASE r.count = 0 /\ far # 0
  <2>1. Min({1, far}) = 1
    BY <1>4, <1>9, MinOfTwo
  <2>2. gaps = 1 /\ r.count + gaps = 1
    BY <1>9, <2>1
  <2> HIDE DEF gaps
  <2>3. slots[0] = Gap((last + 1 + 0) % SeqCount)
    BY <1>1, <1>3, <1>7, <2>2
  <2>4. slots[0] = Gap(After(last))
    BY <1>1, <2>3 DEF After
  <2> HIDE DEF slots
  <2>5. /\ s.slots = slots /\ s.seq = r.seq /\ s.count = 1 /\ s.disk = r.disk
        /\ s.last = r.last /\ s.open = r.open /\ s.file = r.file /\ s.closed = r.closed
        /\ s.skip = r.skip /\ s.timeouts = r.timeouts /\ s.mode = r.mode /\ s.state = r.state
    BY <1>2, <1>5, <2>2 DEF RcvFields
  <2>6. QED
    BY <1>5, <1>9, <2>4, <2>5 DEF Put, Cell, RingStep, last
<1>10. QED
  BY <1>1, <1>8, <1>9 DEF far, last

\* A packet that is ahead is lost, and so is the slot's place: it becomes a gap, for good.
LEMMA AheadSaved ==
  ASSUME NEW r \in RcvSet, r.mode = "streaming", r.count = 1, Sound(r),
         Cell(r).seq < SeqCount, NEW p \in PacketSet, p.seq < SeqCount,
         p.seq # After(Cell(r).seq), IsAhead(r, p.seq)
  PROVE  LET c == Save(r, p)
         IN /\ ~c.taken /\ \E n \in Nat : c.out = <<Plain("NAK", n)>>
            /\ Cell(r).acked => /\ Put(r, c.r, Gap(After(Cell(r).seq)), r.seq)
                                /\ c.r.disk = Flushed(r)
            /\ ~Cell(r).acked => c.r = r
<1> DEFINE last == Cell(r).seq
           nak == Nak(r, After(last))
           all == SavedAll(r)
           s == WithGaps(all, p.seq)
<1>1. /\ r.slots[Newest(r)].seq = last /\ last \in Nat /\ r.count > 0
      /\ ~IsNext(r, p.seq) /\ r.count # 0
  BY OneSlot DEF Cell, IsNext
<1>2. Save(r, p) =
        [r |-> StoredAhead(r, p).r, out |-> StoredAhead(r, p).out, taken |-> FALSE]
  BY <1>1 DEF Save
<1>3. After(last) \in Nat /\ p.seq \in Nat
  BY <1>1, ConstantFacts, PacketFields DEF After
<1>4. nak.r = r /\ \E n \in Nat : nak.out = <<Plain("NAK", n)>>
  BY <1>3, NakOfStream
<1>5. StoredAhead(r, p) = [r |-> IF Full(s) THEN s ELSE Added(s, Held(p)), out |-> nak.out]
  BY <1>1, <1>4 DEF StoredAhead
<1> HIDE DEF s
<1>6. /\ Full(s) => Save(r, p).r = s
      /\ Save(r, p).out = nak.out /\ ~Save(r, p).taken
  BY <1>2, <1>5
<1>7. CASE Cell(r).acked
  <2>1. Missing(r) = {}
    BY <1>7, OneSlot
  <2>2. all = RolledOff(r, 1)
    BY <2>1 DEF SavedAll
  <2>3. /\ all \in RcvSet /\ all.mode = r.mode /\ all.state = r.state /\ all.count = 0
        /\ Cell(all) = Gap(last) /\ all.seq = r.seq /\ all.disk = Flushed(r)
        /\ all.last = r.last /\ all.open = r.open /\ all.file = r.file
        /\ all.closed = r.closed /\ all.skip = r.skip /\ all.timeouts = r.timeouts
    BY <2>2, RolledOffStream
  <2>4. Cell(all).seq = last
    BY <2>3 DEF Gap, Blank
  <2> HIDE DEF all
  <2>5. (p.seq - last - 1) % SeqCount # 0
    <3> DEFINE d == p.seq - last - 1
    <3>1. SUFFICES ASSUME d % SeqCount = 0 PROVE FALSE
      OBVIOUS
    <3>2. d \in Int
      BY <1>1, <1>3
    <3>3. PICK q \in Int : d = SeqCount * q + (d % SeqCount)
      BY <3>2, NumberFacts
    <3>4. d = SeqCount * q /\ SeqCount \in Nat /\ SeqCount * q \in Int
          /\ SeqCount * (-q) = -(SeqCount * q)
      BY <3>1, <3>3, ConstantFacts
    <3>5. last + 1 = SeqCount * (-q) + p.seq
      BY <1>1, <1>3, <3>4
    <3>6. -q \in Int /\ last + 1 \in Int /\ p.seq \in 0 .. SeqCount - 1
      BY <1>1, <1>3, <3>4
    <3>7. (last + 1) % SeqCount = p.seq
      BY <3>5, <3>6, RemainderIs
    <3>8. QED
      BY <3>7 DEF After
  <2>6. Put(all, s, Gap(After(last)), all.seq) /\ s.disk = all.disk
    BY <1>3, <2>3, <2>4, <2>5, GapsOfStream DEF s
  <2>7. Full(s)
    BY <2>3, <2>6, OneSlot DEF Put
  <2>8. QED
    BY <1>4, <1>6, <1>7, <2>3, <2>6, <2>7 DEF Put
<1>8. CASE ~Cell(r).acked
  <2>1. Missing(r) = {0}
    BY <1>8, OneSlot
  <2>2. all = RolledOff(r, 0)
    BY <2>1, MinOfOne DEF SavedAll
  <2>3. all = r
    BY <2>2, RolledNone
  <2>4. s = r
    BY <1>3, <2>3, GapsOfStream DEF s
  <2>5. Full(s)
    BY <2>4, OneSlot
  <2>6. QED
    BY <1>4, <1>6, <1>8, <2>4, <2>5
<1>9. QED
  BY <1>7, <1>8

\* What is ahead: any number, if the ring does not end with the last number.
LEMMA AheadInStream ==
  ASSUME NEW r \in RcvSet, r.mode = "streaming", NEW seq \in Nat,
         Cell(r).seq < SeqCount, seq < SeqCount, seq # After(Cell(r).seq)
  PROVE  IsAhead(r, seq) <=> Cell(r).seq + 1 < SeqCount
<1> DEFINE last == Cell(r).seq
           most == (last + 1) % SeqCount
<1>1. r.slots[Newest(r)].seq = last /\ last \in Nat /\ Slots(r) = 1
  BY OneSlot DEF Cell
<1>2. IsAhead(r, seq) <=>
        \/ most > last + 2 /\ seq \in last + 2 .. most
        \/ most < last + 2 /\ (seq >= last + 2 \/ seq <= most)
  BY <1>1 DEF IsAhead
<1>3. most # seq
  BY DEF After
<1>4. SeqCount \in Nat /\ SeqCount >= 4
  BY NumberFacts
<1>5. CASE last + 1 < SeqCount
  <2>1. last + 1 \in 0 .. SeqCount - 1
    BY <1>1, <1>4, <1>5
  <2>2. most = last + 1
    BY <2>1, SmallNumber
  <2> HIDE DEF last, most
  <2>3. QED
    BY <1>1, <1>2, <1>3, <1>4, <1>5, <2>2 DEF last
<1>6. CASE last + 1 = SeqCount
  <2>1. last + 1 \in Int /\ 0 \in 0 .. SeqCount - 1 /\ last + 1 = SeqCount * 1 + 0
    BY <1>1, <1>4, <1>6
  <2>2. most = 0
    BY <2>1, RemainderIs
  <2> HIDE DEF last, most
  <2>3. QED
    BY <1>1, <1>2, <1>3, <1>4, <1>6, <2>2 DEF last
<1>7. last + 1 < SeqCount \/ last + 1 = SeqCount
  BY <1>1, <1>4
<1>8. QED
  BY <1>5, <1>6, <1>7

-----------------------------------------------------------------------------
(* What no round of the receiver undoes *)

\* Closed files stay closed, no file is skipped unless the user says so, and nothing is
\* written to a file that is not open.
Keeps(r, s) ==
  /\ s.closed = r.closed /\ s.skip = r.skip /\ s.open = r.open
  /\ r.open \/ s.disk = r.disk

LEMMA WrittenKeeps ==
  ASSUME NEW r \in RcvFields, NEW units
  PROVE  Keeps(r, Written(r, units))
BY DEF Keeps, Written, RcvFields

LEMMA RolledOffKeeps ==
  ASSUME NEW r \in RcvSet, NEW k \in 0 .. r.count
  PROVE  Keeps(r, RolledOff(r, k))
<1> DEFINE w == Written(r, Units(r, k))
<1>1. w \in RcvFields /\ Keeps(r, w)
  BY UnitsType, WrittenStep, WrittenKeeps DEF RingStep, RcvSet
<1> HIDE DEF w
<1>2. Keeps(w, RolledOff(r, k))
  BY <1>1 DEF RolledOff, Keeps, RcvFields, w
<1>3. QED
  BY <1>1, <1>2 DEF Keeps

LEMMA AddedKeeps ==
  ASSUME NEW r \in RcvFields, NEW slot
  PROVE  Keeps(r, Added(r, slot))
BY DEF Keeps, Added, RcvFields

LEMMA StoredKeeps ==
  ASSUME NEW r \in RcvFields, NEW i, NEW p
  PROVE  Keeps(r, Stored(r, i, p))
<1> DEFINE kept == [r EXCEPT !.slots[i] = Held(p)]
<1>1. Keeps(r, kept)
  BY DEF Keeps, RcvFields
<1>2. kept \in [DOMAIN r -> {kept[x] : x \in DOMAIN r}] /\ DOMAIN kept = DOMAIN r
  OBVIOUS
<1>3. {"closed", "skip", "open", "disk"} \subseteq DOMAIN r
  BY DEF RcvFields
<1> HIDE DEF kept
<1>4. Keeps(kept, [kept EXCEPT !.seq = @ + 1, !.count = IF Full(r) THEN @ ELSE @ + 1])
  BY <1>2, <1>3 DEF Keeps
<1>5. Keeps(kept, kept)
  BY DEF Keeps
<1>6. Keeps(kept, Stored(r, i, p))
  BY <1>4, <1>5 DEF Stored, kept
<1>7. QED
  BY <1>1, <1>6 DEF Keeps

LEMMA NakKeeps ==
  ASSUME NEW r \in RcvSet, r.mode = "streaming", NEW seq \in Nat
  PROVE  Keeps(r, Nak(r, seq).r)
BY NakOfStream DEF Keeps

LEMMA SaveKeeps ==
  ASSUME NEW r \in RcvSet, r.mode = "streaming", NEW p \in PacketSet
  PROVE  Keeps(r, Save(r, p).r)
<1> DEFINE last == r.slots[Newest(r)].seq
           nak == Nak(r, After(last))
           all == SavedAll(r)
           s == WithGaps(all, p.seq)
           w == Written(r, Units(r, 1))
           rolled == IF Oldest(r).acked /\ Full(r) THEN RolledOff(r, 1)
                     ELSE IF Oldest(r).acked THEN w ELSE r
<1>1. r \in RcvFields /\ r.count \in {0, 1} /\ Keeps(r, r)
  BY OneSlot DEF RcvSet, Keeps
<1>2. ASSUME NEW i PROVE Keeps(r, Stored(r, i, p))
  BY <1>1, StoredKeeps
<1>3. r.count = 1 => Keeps(r, StoredNext(r, p))
  <2>1. SUFFICES ASSUME r.count = 1 PROVE Keeps(r, StoredNext(r, p))
    OBVIOUS
  <2>2. 1 \in 0 .. r.count
    BY <2>1
  <2>3. RolledOff(r, 1) \in RcvFields /\ Keeps(r, RolledOff(r, 1))
    BY <2>2, RolledOffStep, RolledOffKeeps DEF RingStep, RcvSet
  <2>4. w \in RcvFields /\ Keeps(r, w)
    BY <1>1, <2>2, UnitsType, WrittenStep, WrittenKeeps DEF RingStep, RcvSet
  <2> HIDE DEF w
  <2>5. rolled \in RcvFields /\ Keeps(r, rolled)
    BY <1>1, <2>3, <2>4
  <2>6. StoredNext(r, p) = Stored(rolled, End(r), p)
    BY DEF StoredNext, w
  <2> HIDE DEF rolled
  <2>7. Keeps(rolled, Stored(rolled, End(r), p))
    BY <2>5, StoredKeeps
  <2>8. QED
    BY <2>5, <2>6, <2>7 DEF Keeps
<1>4. Keeps(r, StoredAhead(r, p).r)
  <2>1. After(last) \in Nat
    <3>1. last \in Nat
      BY OneSlot DEF Cell
    <3>2. QED
      BY <3>1, ConstantFacts DEF After
  <2>2. nak.r = r
    BY <2>1, NakOfStream
  <2>3. StoredAhead(r, p).r = IF Full(s) THEN s ELSE Added(s, Held(p))
    BY <2>2 DEF StoredAhead
  <2>4. all \in RcvSet /\ Keeps(r, all)
    <3>1. (IF Missing(r) = {} THEN r.count ELSE Min(Missing(r))) \in 0 .. r.count
      BY RingFacts, ConstantFacts
    <3>2. QED
      BY <3>1, RolledOffKeeps, SavedAllStep DEF SavedAll, RingStep
  <2> HIDE DEF all
  <2>5. s \in RcvSet
    BY <2>4, PacketFields, WithGapsStep DEF RingStep
  <2>6. Keeps(all, s)
    BY <2>4 DEF WithGaps, Keeps, RcvSet, RcvFields
  <2> HIDE DEF s
  <2>7. Keeps(s, Added(s, Held(p)))
    BY <2>5, AddedKeeps DEF RcvSet
  <2>8. QED
    BY <2>3, <2>4, <2>6, <2>7 DEF Keeps
<1>5. \/ \E i : Save(r, p).r = Stored(r, i, p)
      \/ r.count = 1 /\ Save(r, p).r = StoredNext(r, p)
      \/ Save(r, p).r = StoredAhead(r, p).r
      \/ Save(r, p).r = r
  <2>1. CASE r.count = 0
    BY <2>1 DEF Save
  <2>2. CASE r.count = 1 /\ IsNext(r, p.seq)
    <3>1. Save(r, p) = [r |-> StoredNext(r, p), out |-> <<>>, taken |-> TRUE]
      BY <2>2 DEF Save
    <3>2. QED
      BY <2>2, <3>1
  <2>3. CASE r.count = 1 /\ ~IsNext(r, p.seq) /\ IsAhead(r, p.seq)
    <3>1. Save(r, p) =
            [r |-> StoredAhead(r, p).r, out |-> StoredAhead(r, p).out, taken |-> FALSE]
      BY <2>3 DEF Save
    <3>2. QED
      BY <3>1
  <2>4. CASE r.count = 1 /\ ~IsNext(r, p.seq) /\ ~IsAhead(r, p.seq)
    <3> DEFINE i == At(r, Min(PlacesOf(r, p.seq)))
    <3>1. Save(r, p) \in {[r |-> r, out |-> <<>>, taken |-> FALSE],
                          [r |-> Stored(r, i, p), out |-> <<>>, taken |-> TRUE]}
      BY <2>4 DEF Save
    <3> HIDE DEF i
    <3>2. QED
      BY <3>1
  <2>5. QED
    BY <1>1, <2>1, <2>2, <2>3, <2>4
<1>6. QED
  BY <1>1, <1>2, <1>3, <1>4, <1>5

\* A round of the receiver closes files, and skips none.
Grows(r, s) == r.closed \subseteq s.closed /\ ~s.skip

LEMMA HandledGrows ==
  ASSUME NEW r \in RcvSet, r.mode = "streaming", ~r.skip, NEW p \in PacketSet
  PROVE  Grows(r, Handled(r, p).r)
<1>1. r \in RcvFields
  BY DEF RcvSet
<1>2. Grows(r, r)
  BY DEF Grows
<1>3. ASSUME NEW s \in RcvFields, Grows(r, s), NEW reply
      PROVE  Grows(r, Replies(s, reply).r)
  BY <1>3 DEF Grows, Replies, RcvFields
<1>4. ASSUME NEW s \in RcvFields, Grows(r, s), NEW really
      PROVE  Grows(r, Acks(s, p, really).r)
  <2>1. ~s.skip
    BY <1>4 DEF Grows
  <2>2. QED
    BY <1>3, <1>4, <2>1 DEF Acks, Silent
<1>5. Grows(r, WrongPacket(r).r)
  <2>1. Aborted(r) \in RcvFields
    BY AbortedAlike DEF Alike
  <2>2. Grows(r, Aborted(r))
    BY <1>1, <1>2 DEF Aborted, Grows, RcvFields
  <2>3. QED
    BY <1>3, <2>1, <2>2 DEF WrongPacket
<1>6. Grows(r, ReceiveR(r, p).r)
  <2> DEFINE s == [r EXCEPT !.state = "RF", !.seq = 0, !.mode = NegotiatedMode(scenario)]
             t == [s EXCEPT !.begin = 0, !.count = 0,
                            !.slots = [i \in DOMAIN s.slots |-> Blank]]
             reply == Packet("ACK", 0, "init", 0)
  <2>1. s \in RcvFields /\ Grows(r, s)
    BY <1>1, <1>2 DEF RcvFields, States, NegotiatedMode, Grows
  <2> HIDE DEF s
  <2>2. Blank \in SlotSet
    BY DEF Blank, SlotSet
  <2>3. [i \in DOMAIN s.slots |-> Blank] \in [0 .. WindowSize - 1 -> SlotSet]
    BY <2>1, <2>2 DEF RcvFields
  <2>4. t \in RcvFields /\ Grows(r, t)
    BY <2>1, <2>3 DEF RcvFields, Grows
  <2> HIDE DEF t
  <2>5. ReceiveR(r, p) \in {WrongPacket(r), Replies(s, reply), Replies(t, reply)}
    BY DEF ReceiveR, s, t
  <2>6. QED
    BY <1>3, <1>5, <2>1, <2>4, <2>5
<1>7. Grows(r, ReceiveRF(r, p).r)
  <2> DEFINE s == [r EXCEPT !.state = "RDW", !.file = p.n]
             t == [r EXCEPT !.state = "COMPLETE"]
  <2>1. p.type = "FILE" => s \in RcvFields
    BY <1>1, PacketFields DEF RcvFields, States
  <2>2. t \in RcvFields /\ Grows(r, s) /\ Grows(r, t)
    BY <1>1, <1>2 DEF RcvFields, States, Grows
  <2> HIDE DEF s, t
  <2>3. \/ p.type = "FILE" /\ ReceiveRF(r, p) = Replies(s, Packet("ACK", p.seq, "name", p.n))
        \/ ReceiveRF(r, p) = Acks(t, p, TRUE)
        \/ ReceiveRF(r, p) = WrongPacket(r)
    BY DEF ReceiveRF, s, t
  <2>4. QED
    BY <1>3, <1>4, <1>5, <2>1, <2>2, <2>3
<1>8. Grows(r, ReceiveEof(r, p).r)
  <2> DEFINE complete == [r EXCEPT !.closed = @ \cup {r.file}]
             s == [r EXCEPT !.state = IF r.open THEN "RF" ELSE "CRASH", !.open = FALSE]
             t == [complete EXCEPT !.state = IF complete.open THEN "RF" ELSE "CRASH",
                                   !.open = FALSE]
  <2>1. complete \in RcvFields /\ Grows(r, complete)
    <3>1. r.closed \cup {r.file} \in SUBSET Files
      BY <1>1 DEF RcvFields
    <3>2. QED
      BY <1>1, <1>2, <3>1 DEF RcvFields, Grows
  <2> HIDE DEF complete
  <2>2. s \in RcvFields /\ Grows(r, s)
    BY <1>1, <1>2 DEF RcvFields, States, Grows
  <2>3. t \in RcvFields /\ Grows(r, t)
    BY <2>1 DEF RcvFields, States, Grows
  <2>4. ~Windowing(r)
    BY OneSlot
  <2>5. ReceiveEof(r, p) \in {Acks(s, p, TRUE), Acks(t, p, TRUE)}
    BY <2>4 DEF ReceiveEof, complete
  <2> HIDE DEF s, t
  <2>6. QED
    BY <1>4, <2>2, <2>3, <2>5
<1>9. Grows(r, ReceiveRDW(r, p).r)
  <2> DEFINE s == [r EXCEPT !.open = TRUE]
  <2>1. s \in RcvFields /\ Grows(r, s)
    BY <1>1, <1>2 DEF RcvFields, Grows
  <2> HIDE DEF s
  <2>2. Grows(r, ReceiveAttributes(r, p).r)
    BY <1>2, <1>3, <2>1 DEF ReceiveAttributes, Silent, s
  <2>3. ReceiveRDW(r, p) \in
          {ReceiveEof(r, p), Acks(r, p, FALSE), ReceiveAttributes(r, p), WrongPacket(r)}
    BY DEF ReceiveRDW
  <2>4. QED
    BY <1>1, <1>2, <1>4, <1>5, <1>8, <2>2, <2>3
<1>10. Handled(r, p) \in {ReceiveR(r, p), ReceiveRF(r, p), ReceiveRDW(r, p), Silent(r)}
  BY DEF Handled
<1>11. QED
  BY <1>2, <1>6, <1>7, <1>9, <1>10 DEF Silent

LEMMA ReceivedGrows ==
  ASSUME NEW r \in RcvSet, r.mode = "streaming", ~r.skip, NEW p \in PacketSet
  PROVE  Grows(r, Received(r, p).r)
<1> DEFINE s == IF p.type = "ERROR" THEN Aborted(r) ELSE r
           saved == Save(s, p)
<1>1. s \in RcvSet /\ s.mode = r.mode
  BY AbortedAlike, AlikeType DEF Alike
<1>2. s.closed = r.closed /\ s.skip = r.skip
  BY DEF Aborted, RcvSet, RcvFields
<1> HIDE DEF s
<1>3. saved.r \in RcvSet /\ saved.r.mode = r.mode /\ Keeps(s, saved.r)
  BY <1>1, SaveStep, SaveKeeps DEF RingStep
<1>4. Grows(saved.r, Handled(saved.r, p).r)
  BY <1>1, <1>2, <1>3, HandledGrows DEF Keeps
<1>5. Received(r, p) \in
        {[r |-> s, out |-> s.last], Handled(saved.r, p), [r |-> saved.r, out |-> saved.out]}
  BY DEF Received, s
<1> HIDE DEF saved
<1>6. QED
  BY <1>2, <1>3, <1>4, <1>5 DEF Grows, Keeps

-----------------------------------------------------------------------------
(* What the receiver's handlers make of the packets of a stream *)

\* Neither the ring nor the disk is touched.
Apart(r, s) ==
  /\ s.mode = r.mode /\ s.seq = r.seq /\ s.count = r.count /\ Cell(s) = Cell(r)
  /\ s.disk = r.disk /\ s.skip = r.skip

LEMMA RepliesFields ==
  ASSUME NEW s \in RcvFields, NEW reply
  PROVE  LET c == Replies(s, reply)
         IN /\ c.out = <<reply>> /\ c.r.last = <<reply>>
            /\ c.r.state = s.state /\ c.r.open = s.open /\ c.r.closed = s.closed
            /\ c.r.file = s.file /\ Apart(s, c.r)
BY DEF Replies, Apart, Cell, RcvFields

LEMMA InitHandled ==
  ASSUME NEW r \in RcvSet, r.mode = "streaming", r.state = "R", scenario.streaming,
         NEW p \in PacketSet, p.type = "SINIT"
  PROVE  LET c == Handled(r, p)
         IN /\ c.out = <<Greeting>> /\ c.r.last = <<Greeting>>
            /\ c.r.state = "RF" /\ c.r.seq = 0 /\ c.r.mode = "streaming"
            /\ c.r.count = r.count /\ Cell(c.r) = Cell(r) /\ c.r.disk = r.disk
            /\ c.r.open = r.open /\ c.r.closed = r.closed /\ c.r.file = r.file
<1> DEFINE s == [r EXCEPT !.state = "RF", !.seq = 0, !.mode = NegotiatedMode(scenario)]
<1>1. r \in RcvFields
  BY DEF RcvSet
<1>2. /\ s.state = "RF" /\ s.seq = 0 /\ s.mode = "streaming"
      /\ s.count = r.count /\ s.slots = r.slots /\ s.disk = r.disk
      /\ s.open = r.open /\ s.closed = r.closed /\ s.file = r.file
      /\ s \in RcvFields
  BY <1>1 DEF RcvFields, States, NegotiatedMode
<1> HIDE DEF s
<1>3. Streaming(s)
  BY <1>2 DEF Streaming
<1>4. Handled(r, p) = Replies(s, Greeting)
  BY <1>3 DEF Handled, ReceiveR, Greeting, s
<1>5. QED
  BY <1>2, <1>4, RepliesFields DEF Apart, Cell

LEMMA FileHandled ==
  ASSUME NEW r \in RcvSet, r.mode = "streaming", r.state = "RF",
         NEW p \in PacketSet, p.type = "FILE"
  PROVE  LET c == Handled(r, p)
             reply == <<Packet("ACK", p.seq, "name", p.n)>>
         IN /\ c.out = reply /\ c.r.last = reply /\ Apart(r, c.r)
            /\ c.r.state = "RDW" /\ c.r.file = p.n
            /\ c.r.open = r.open /\ c.r.closed = r.closed
<1> DEFINE s == [r EXCEPT !.state = "RDW", !.file = p.n]
           reply == Packet("ACK", p.seq, "name", p.n)
<1>1. r \in RcvFields
  BY DEF RcvSet
<1>2. Handled(r, p) = Replies(s, reply)
  BY DEF Handled, ReceiveRF
<1>3. /\ s.state = "RDW" /\ s.file = p.n /\ s.seq = r.seq /\ s.mode = r.mode
      /\ s.count = r.count /\ s.slots = r.slots /\ s.disk = r.disk /\ s.skip = r.skip
      /\ s.open = r.open /\ s.closed = r.closed /\ s \in RcvFields
  BY <1>1, PacketFields DEF RcvFields, States
<1> HIDE DEF s, reply
<1>4. QED
  BY <1>2, <1>3, RepliesFields DEF Apart, Cell, reply

LEMMA BreakHandled ==
  ASSUME NEW r \in RcvSet, r.mode = "streaming", ~r.skip, r.state = "RF",
         NEW p \in PacketSet, p.type = "BREAK"
  PROVE  LET c == Handled(r, p)
         IN /\ c.out = <<Plain("ACK", p.seq)>> /\ Apart(r, c.r)
            /\ c.r.state = "COMPLETE" /\ c.r.open = r.open /\ c.r.closed = r.closed
            /\ c.r.file = r.file
<1> DEFINE s == [r EXCEPT !.state = "COMPLETE"]
<1>1. r \in RcvFields
  BY DEF RcvSet
<1>2. /\ s.state = "COMPLETE" /\ s.file = r.file /\ s.seq = r.seq /\ s.mode = r.mode
      /\ s.count = r.count /\ s.slots = r.slots /\ s.disk = r.disk /\ s.skip = r.skip
      /\ s.open = r.open /\ s.closed = r.closed /\ s \in RcvFields
  BY <1>1, PacketFields DEF RcvFields, States
<1>3. Handled(r, p) = Acks(s, p, TRUE)
  BY DEF Handled, ReceiveRF
<1> HIDE DEF s
<1>4. Handled(r, p) = Replies(s, Plain("ACK", p.seq))
  BY <1>2, <1>3 DEF Acks
<1>5. QED
  BY <1>2, <1>4, RepliesFields DEF Apart, Cell

LEMMA AttributesHandled ==
  ASSUME NEW r \in RcvSet, r.mode = "streaming", r.state = "RDW", ~r.open,
         NEW p \in PacketSet, p.type = "ATTRIBUTES"
  PROVE  LET c == Handled(r, p)
         IN /\ c.out = <<Packet("ACK", p.seq, "pos", Len(r.disk[r.file]))>> /\ Apart(r, c.r)
            /\ c.r.state = "RDW" /\ c.r.open /\ c.r.closed = r.closed /\ c.r.file = r.file
<1> DEFINE s == [r EXCEPT !.open = TRUE]
           reply == Packet("ACK", p.seq, "pos", Len(r.disk[r.file]))
<1>1. r \in RcvFields
  BY DEF RcvSet
<1>2. /\ s.state = "RDW" /\ s.file = r.file /\ s.seq = r.seq /\ s.mode = r.mode
      /\ s.count = r.count /\ s.slots = r.slots /\ s.disk = r.disk /\ s.skip = r.skip
      /\ s.open /\ s.closed = r.closed /\ s \in RcvFields
  BY <1>1, PacketFields DEF RcvFields, States
<1>3. Handled(r, p) = Replies(s, reply)
  BY DEF Handled, ReceiveRDW, ReceiveAttributes
<1> HIDE DEF s, reply
<1>4. QED
  BY <1>2, <1>3, RepliesFields DEF Apart, Cell, reply

LEMMA DataHandled ==
  ASSUME NEW r \in RcvSet, r.mode = "streaming", ~r.skip, r.state = "RDW",
         NEW p \in PacketSet, p.type = "DATA"
  PROVE  Handled(r, p) = [r |-> r, out |-> <<>>]
<1>1. Handled(r, p) = Acks(r, p, FALSE)
  BY DEF Handled, ReceiveRDW
<1>2. QED
  BY <1>1 DEF Acks, Streaming, Silent

LEMMA EofHandled ==
  ASSUME NEW r \in RcvSet, r.mode = "streaming", ~r.skip, r.state = "RDW",
         NEW p \in PacketSet, p.type = "EOF", p.note # "skip"
  PROVE  LET c == Handled(r, p)
             reply == <<Plain("ACK", p.seq)>>
         IN /\ c.out = reply /\ c.r.last = reply /\ Apart(r, c.r)
            /\ c.r.state = (IF r.open THEN "RF" ELSE "CRASH")
            /\ ~c.r.open /\ c.r.closed = r.closed \cup {r.file} /\ c.r.file = r.file
<1> DEFINE x == [r EXCEPT !.closed = @ \cup {r.file}]
           s == [x EXCEPT !.state = IF x.open THEN "RF" ELSE "CRASH", !.open = FALSE]
           reply == Plain("ACK", p.seq)
<1>1. r \in RcvFields
  BY DEF RcvSet
<1>2. /\ x.closed = r.closed \cup {r.file} /\ x.open = r.open /\ x.file = r.file
      /\ x.seq = r.seq /\ x.mode = r.mode
      /\ x.count = r.count /\ x.slots = r.slots /\ x.disk = r.disk /\ x.skip = r.skip
      /\ x \in RcvFields
  <2>1. r.closed \cup {r.file} \in SUBSET Files
    BY <1>1 DEF RcvFields
  <2>2. QED
    BY <1>1, <2>1 DEF RcvFields
<1>3. Handled(r, p) = ReceiveEof(r, p)
  BY DEF Handled, ReceiveRDW
<1>4. ReceiveEof(r, p) = Acks(s, p, TRUE)
  BY OneSlot DEF ReceiveEof
<1> HIDE DEF x
<1>5. /\ s.state = (IF r.open THEN "RF" ELSE "CRASH") /\ s.open = FALSE
      /\ s.closed = x.closed /\ s.file = r.file /\ s.seq = r.seq /\ s.mode = r.mode
      /\ s.count = r.count /\ s.slots = r.slots /\ s.disk = r.disk /\ s.skip = r.skip
      /\ s \in RcvFields
  BY <1>1, <1>2 DEF RcvFields, States
<1> HIDE DEF s
<1>6. Handled(r, p) = Replies(s, reply)
  BY <1>3, <1>4, <1>5 DEF Acks
<1> HIDE DEF reply
<1> DEFINE c == Handled(r, p)
<1>7. /\ c.out = <<reply>> /\ c.r.last = <<reply>>
      /\ c.r.state = s.state /\ c.r.open = s.open /\ c.r.closed = s.closed
      /\ c.r.file = s.file /\ Apart(s, c.r)
  <2> DEFINE d == Replies(s, reply)
  <2>1. /\ d.out = <<reply>> /\ d.r.last = <<reply>>
        /\ d.r.state = s.state /\ d.r.open = s.open /\ d.r.closed = s.closed
        /\ d.r.file = s.file /\ Apart(s, d.r)
    BY <1>5, RepliesFields
  <2>2. QED
    BY <1>6, <2>1
<1> HIDE DEF c
<1>8. Apart(r, c.r)
  BY <1>5, <1>7 DEF Apart, Cell
<1>9. QED
  BY <1>2, <1>5, <1>7, <1>8 DEF reply, c

-----------------------------------------------------------------------------
(* One round of the receiver *)

LEMMA TakenRound ==
  ASSUME NEW r, NEW p, p.type # "ERROR", ~IsRepeat(r, p), Save(r, p).taken
  PROVE  Received(r, p) = Handled(Save(r, p).r, p)
BY DEF Received

LEMMA PassedRound ==
  ASSUME NEW r, NEW p, p.type # "ERROR", ~IsRepeat(r, p), ~Save(r, p).taken
  PROVE  Received(r, p).r = Save(r, p).r /\ Received(r, p).out = Save(r, p).out
BY DEF Received

LEMMA RepeatRound ==
  ASSUME NEW r, NEW p, p.type # "ERROR", IsRepeat(r, p)
  PROVE  Received(r, p) = [r |-> r, out |-> r.last]
BY DEF Received

-----------------------------------------------------------------------------
(* The receiver reads *)

LEMMA OneOnLine ==
  ASSUME NEW p
  PROVE  /\ Head(<<p>>) = p /\ Tail(<<p>>) = <<>> /\ <<>> \o <<p>> = <<p>> /\ <<p>> # <<>>
         /\ <<p>> \o <<>> = <<p>> /\ <<p>>[1] = p /\ Len(<<p>>) = 1 /\ DOMAIN <<p>> = {1}
OBVIOUS

LEMMA NoneOnLine ==
  <<>> \o <<>> = <<>> /\ Len(<<>>) = 0 /\ DOMAIN <<>> = {}
OBVIOUS

\* What changes the receiver and the line between two programs that go on.
LEMMA ReceiverCourse ==
  ASSUME NEW s, NEW r, NEW D, NEW U, NEW r2, NEW D2, NEW U2,
         Course(s, r, D, U), Grows(r, r2),
         \/ Ended(s)
         \/ Ended(r2) /\ Alone(s, r2, D2, U2)
         \/ ~Ended(r2) /\ Phase(s, r2, D2, U2)
  PROVE  Course(s, r2, D2, U2)
<1>1. Behind(s, r2) /\ ~r2.skip
  BY DEF Course, Behind, Grows
<1>2. /\ ~Ended(s) /\ Ended(r2) => Alone(s, r2, D2, U2)
      /\ ~Ended(s) /\ ~Ended(r2) => Phase(s, r2, D2, U2)
  OBVIOUS
<1>3. QED
  BY <1>1, <1>2 DEF Course

LEMMA AloneWith ==
  ASSUME NEW s, NEW r, NEW p, p.type \in {"ACK", "NAK"}, s.state \notin {"OFF", "SDW"},
         s.state = "SZ" => s.file \in r.closed
  PROVE  Alone(s, r, <<>>, <<p>>)
<1>1. Len(<<p>>) = 1 /\ DOMAIN <<p>> = {1} /\ <<p>>[1] = p
  OBVIOUS
<1>2. QED
  BY <1>1 DEF Alone

LEMMA OpeningRead ==
  ASSUME NEW s \in SndSet, NEW r \in RcvSet, r.mode = "streaming", scenario.streaming,
         NEW D \in Seq(PacketSet), NEW U, D # <<>>, r.state # "OFF", Opening(s, r, D, U)
  PROVE  LET c == Received(r, Head(D))
         IN ~Ended(c.r) /\ Opening(s, c.r, Tail(D), U \o c.out)
<1> DEFINE p == Plain("SINIT", 0)
           c == Received(r, p)
           x == Save(r, p).r
<1>1. D = <<p>> /\ U = <<>>
  BY DEF Opening, Single
<1>2. p \in PacketSet /\ p.type = "SINIT" /\ p.seq = 0
  BY PlainType DEF Types, Plain, Packet
<1>3. Head(D) = p /\ Tail(D) = <<>> /\ <<>> \o <<Greeting>> = <<Greeting>>
  BY <1>1, OneOnLine
<1> HIDE DEF p
<1>4. CASE r.state = "R"
  <2>1. Fresh(r)
    BY <1>4 DEF Opening
  <2>2. ~IsRepeat(r, p)
    BY <2>1 DEF IsRepeat, Fresh
  <2>3. Save(r, p).taken /\ Put(r, x, Held(p), r.seq + 1)
    BY <1>2, <2>1, FirstSaved DEF Fresh
  <2>4. c = Handled(x, p)
    BY <1>2, <2>2, <2>3, TakenRound
  <2>5. x \in RcvSet /\ x.mode = "streaming" /\ x.state = "R" /\ x.count = 1 /\ ~x.open
        /\ Cell(x) = Held(p)
    BY <1>4, <2>1, <2>3 DEF Put, Fresh
  <2> HIDE DEF c, x
  <2>6. /\ c.out = <<Greeting>> /\ c.r.last = <<Greeting>> /\ c.r.state = "RF"
        /\ c.r.seq = 0 /\ c.r.count = 1 /\ Cell(c.r) = Held(p) /\ ~c.r.open
    BY <1>2, <2>4, <2>5, InitHandled
  <2>7. Has(c.r, 0) /\ Cell(c.r).type # "DATA"
    BY <1>2, <2>6 DEF Has, Held
  <2>8. Single(<<>>, <<Greeting>>, p, {Greeting, Plain("NAK", 0), Plain("NAK", 1)})
    BY DEF Single
  <2>9. Opening(s, c.r, <<>>, <<Greeting>>) /\ ~Ended(c.r)
    BY <2>6, <2>7, <2>8 DEF Opening, Ended, p
  <2>10. QED
    BY <1>1, <1>3, <2>6, <2>9 DEF c
<1>5. CASE r.state = "RF"
  <2>1. /\ Has(r, 0) /\ Cell(r).type # "DATA" /\ r.seq = 0 /\ r.last = <<Greeting>> /\ ~r.open
    BY <1>5 DEF Opening
  <2>2. r.last[1].seq = 0 /\ r.last # <<>>
    BY <2>1 DEF Greeting, Packet
  <2>3. IsRepeat(r, p)
    BY <1>2, <1>5, <2>2 DEF IsRepeat
  <2>4. c = [r |-> r, out |-> <<Greeting>>]
    BY <1>2, <2>1, <2>3, RepeatRound
  <2>5. Single(<<>>, <<Greeting>>, p, {Greeting, Plain("NAK", 0), Plain("NAK", 1)})
    BY DEF Single
  <2>6. Opening(s, r, <<>>, <<Greeting>>) /\ ~Ended(r)
    BY <1>5, <2>1, <2>5 DEF Opening, Ended, p
  <2>7. QED
    BY <1>1, <1>3, <2>4, <2>6
<1>6. QED
  BY <1>4, <1>5 DEF Opening

LEMMA PendingFields ==
  ASSUME NEW s, InStep(s)
  PROVE  /\ Pending(s).seq = s.seq % SeqCount /\ Pending(s).note # "skip"
         /\ s.state = "SF" => Pending(s).type = "FILE" /\ Pending(s).n = s.file
         /\ s.state = "SA" => Pending(s).type = "ATTRIBUTES"
         /\ s.state = "SDW" => Pending(s).type = "DATA" /\ Pending(s).n = Batch[s.file][1]
         /\ s.state = "SZ" => Pending(s).type = "EOF"
         /\ s.state = "SB" => Pending(s).type = "BREAK"
<1>1. s.state \in {"SF", "SA", "SDW", "SZ", "SB"}
  BY DEF InStep
<1>2. CASE s.state = "SF"
  BY <1>2 DEF Pending, Packet, Plain
<1>3. CASE s.state = "SA"
  BY <1>3 DEF Pending, Packet, Plain
<1>4. CASE s.state = "SDW"
  BY <1>4 DEF Pending, Packet, Plain
<1>5. CASE s.state = "SZ"
  BY <1>5 DEF Pending, Packet, Plain
<1>6. CASE s.state = "SB"
  BY <1>6 DEF Pending, Packet, Plain
<1>7. QED
  BY <1>1, <1>2, <1>3, <1>4, <1>5, <1>6

\* The packet is the next one, and goes to the handler.
LEMMA AskedTaken ==
  ASSUME NEW s \in SndSet, NEW r \in RcvSet, r.mode = "streaming",
         NEW D \in Seq(PacketSet), NEW U, D # <<>>, Asked(s, r, D, U)
  PROVE  LET p == Pending(s)
             x == Save(r, p).r
         IN /\ D = <<p>> /\ U = <<>> /\ p \in PacketSet
            /\ Received(r, p) = Handled(x, p)
            /\ Put(r, x, Held(p), r.seq + 1) /\ x.disk = r.disk
<1> DEFINE p == Pending(s)
           x == Save(r, p).r
<1>1. D = <<p>> /\ U = <<>>
  BY DEF Asked, Single
<1>2. p \in PacketSet
  <2>1. D[1] \in PacketSet
    BY TailType
  <2>2. QED
    BY <1>1, <2>1
<1>3. /\ s.seq \in Nat /\ s.seq >= 1 /\ Has(r, (s.seq - 1) % SeqCount) /\ Cell(r).type # "DATA"
      /\ InStep(s)
  BY SndFacts DEF Asked, SndFields
<1>4. p.seq = s.seq % SeqCount /\ p.type # "ERROR"
  BY <1>3, PendingFields DEF InStep
<1> HIDE DEF p
<1>5. p.seq = After(Cell(r).seq) /\ p.seq # Cell(r).seq
  <2>1. Cell(r).seq = (s.seq - 1) % SeqCount
    BY <1>3 DEF Has
  <2>2. /\ After((s.seq - 1) % SeqCount) = s.seq % SeqCount
        /\ (s.seq - 1) % SeqCount # s.seq % SeqCount
    BY <1>3, Neighbours
  <2>3. QED
    BY <1>4, <2>1, <2>2
<1>6. ~IsRepeat(r, p)
  <2>1. CASE s.state \in {"SF", "SB"}
    BY <1>5, <2>1 DEF Asked, IsRepeat
  <2>2. CASE s.state \notin {"SF", "SB"}
    BY <2>2, OneSlot DEF Asked, IsRepeat
  <2>3. QED
    BY <2>1, <2>2
<1>7. Save(r, p).taken /\ Put(r, x, Held(p), r.seq + 1) /\ x.disk = Flushed(r)
  BY <1>2, <1>3, <1>5, NextSaved DEF Has, Sound
<1>8. Flushed(r) = r.disk
  BY <1>3 DEF Flushed
<1>9. Received(r, p) = Handled(x, p)
  BY <1>4, <1>6, <1>7, TakenRound
<1>10. QED
  BY <1>1, <1>2, <1>7, <1>8, <1>9 DEF p

LEMMA AskedRead ==
  ASSUME NEW s \in SndSet, NEW r \in RcvSet, r.mode = "streaming", ~r.skip,
         NEW D \in Seq(PacketSet), NEW U, D # <<>>, Asked(s, r, D, U)
  PROVE  LET c == Received(r, Head(D))
         IN \/ ~Ended(c.r) /\ Got(s, c.r, Tail(D), U \o c.out)
            \/ Ended(c.r) /\ Alone(s, c.r, <<>>, U \o c.out)
<1> DEFINE p == Pending(s)
           x == Save(r, p).r
           c == Received(r, p)
<1>1. D = <<p>> /\ U = <<>> /\ p \in PacketSet /\ c = Handled(x, p)
      /\ Put(r, x, Held(p), r.seq + 1) /\ x.disk = r.disk
  BY AskedTaken
<1>2. Head(D) = p /\ Tail(D) = <<>>
  BY <1>1, OneOnLine
<1>3. /\ InStep(s) /\ s.seq \in Nat /\ s.seq >= 1 /\ Remembers(s) /\ ~r.open
  BY SndFacts DEF Asked, SndFields
<1>4. /\ p.seq = s.seq % SeqCount /\ p.note # "skip"
      /\ s.state = "SF" => p.type = "FILE" /\ p.n = s.file
      /\ s.state = "SA" => p.type = "ATTRIBUTES"
      /\ s.state = "SDW" => p.type = "DATA"
      /\ s.state = "SZ" => p.type = "EOF"
      /\ s.state = "SB" => p.type = "BREAK"
  BY <1>3, PendingFields
<1>5. /\ x \in RcvSet /\ x.mode = "streaming" /\ ~x.skip /\ ~x.open
      /\ x.state = r.state /\ x.file = r.file /\ x.closed = r.closed
      /\ x.count = 1 /\ Cell(x) = Held(p) /\ x.seq >= 1
  BY <1>1, <1>3, OneSlot DEF Put, RcvSet, RcvFields
<1> HIDE DEF c, x, p
<1>6. SUFFICES \/ ~Ended(c.r) /\ Got(s, c.r, <<>>, <<>> \o c.out)
               \/ Ended(c.r) /\ Alone(s, c.r, <<>>, <<>> \o c.out)
  BY <1>1, <1>2 DEF c
<1>7. Held(p).acked /\ Held(p).seq = s.seq % SeqCount /\ Held(p).type = p.type
  BY <1>4 DEF Held
<1>8. CASE s.state = "SF"
  <2>1. r.state = "RF"
    BY <1>8 DEF Asked
  <2> DEFINE reply == Packet("ACK", s.seq % SeqCount, "name", s.file)
  <2>2. /\ c.out = <<reply>> /\ Apart(x, c.r) /\ c.r.state = "RDW" /\ c.r.file = s.file
        /\ c.r.open = x.open
    BY <1>1, <1>4, <1>5, <1>8, <2>1, FileHandled
  <2>3. <<>> \o c.out = <<reply>>
    BY <2>2, OneOnLine
  <2> HIDE DEF reply
  <2>4. Has(c.r, s.seq % SeqCount) /\ Cell(c.r).type # "DATA" /\ c.r.seq >= 1
    BY <1>4, <1>5, <1>7, <1>8, <2>2 DEF Apart, Has
  <2>5. Got(s, c.r, <<>>, <<reply>>)
    BY <1>3, <1>5, <1>8, <2>2, <2>4 DEF Got, reply
  <2>6. QED
    BY <2>2, <2>3, <2>5 DEF Ended
<1>9. CASE s.state = "SA"
  <2>1. r.state = "RDW" /\ r.file = s.file
    BY <1>9 DEF Asked
  <2> DEFINE n == Len(x.disk[x.file])
             reply == Packet("ACK", s.seq % SeqCount, "pos", n)
  <2>2. /\ c.out = <<reply>> /\ Apart(x, c.r) /\ c.r.state = "RDW" /\ c.r.file = x.file
        /\ c.r.open
    BY <1>1, <1>4, <1>5, <1>9, <2>1, AttributesHandled
  <2>3. <<>> \o c.out = <<reply>>
    BY <2>2, OneOnLine
  <2>4. n \in Nat
    BY <1>5 DEF RcvSet, RcvFields
  <2> HIDE DEF n
  <2>5. \E m \in Nat : <<reply>> = <<Packet("ACK", s.seq % SeqCount, "pos", m)>>
    BY <2>4
  <2> HIDE DEF reply
  <2>6. Has(c.r, s.seq % SeqCount) /\ Cell(c.r).type # "DATA" /\ c.r.seq >= 1
    BY <1>4, <1>5, <1>7, <1>9, <2>2 DEF Apart, Has
  <2>7. Got(s, c.r, <<>>, <<reply>>)
    BY <1>3, <1>5, <1>9, <2>1, <2>2, <2>5, <2>6 DEF Got
  <2>8. QED
    BY <2>2, <2>3, <2>7 DEF Ended
<1>10. CASE s.state = "SDW"
  <2>1. r.state = "RDW" /\ r.file = s.file
    BY <1>10 DEF Asked
  <2>2. c = [r |-> x, out |-> <<>>]
    BY <1>1, <1>4, <1>5, <1>10, <2>1, DataHandled
  <2>3. Has(x, s.seq % SeqCount)
    BY <1>5, <1>7 DEF Has
  <2>4. Got(s, x, <<>>, <<>>)
    BY <1>3, <1>5, <1>10, <2>1, <2>3 DEF Got
  <2>5. QED
    BY <1>5, <2>1, <2>2, <2>4, NoneOnLine DEF Ended
<1>11. CASE s.state = "SZ"
  <2>1. r.state = "RDW" /\ r.file = s.file
    BY <1>11 DEF Asked
  <2>2. /\ c.out = <<Plain("ACK", s.seq % SeqCount)>> /\ c.r.state = "CRASH"
        /\ c.r.closed = x.closed \cup {x.file}
    BY <1>1, <1>4, <1>5, <1>11, <2>1, EofHandled
  <2>3. <<>> \o c.out = <<Plain("ACK", s.seq % SeqCount)>>
    BY <2>2, OneOnLine
  <2> DEFINE reply == Plain("ACK", s.seq % SeqCount)
  <2>4. reply.type = "ACK"
    BY DEF Plain, Packet
  <2> HIDE DEF reply
  <2>5. Alone(s, c.r, <<>>, <<reply>>)
    BY <1>5, <1>11, <2>1, <2>2, <2>4, AloneWith
  <2>6. Alone(s, c.r, <<>>, <<Plain("ACK", s.seq % SeqCount)>>)
    BY <2>5 DEF reply
  <2>7. QED
    BY <2>2, <2>3, <2>6 DEF Ended
<1>12. CASE s.state = "SB"
  <2>1. r.state = "RF"
    BY <1>12 DEF Asked
  <2>2. c.out = <<Plain("ACK", s.seq % SeqCount)>> /\ c.r.state = "COMPLETE"
    BY <1>1, <1>4, <1>5, <1>12, <2>1, BreakHandled
  <2>3. <<>> \o c.out = <<Plain("ACK", s.seq % SeqCount)>>
    BY <2>2, OneOnLine
  <2> DEFINE reply == Plain("ACK", s.seq % SeqCount)
  <2>4. reply.type = "ACK"
    BY DEF Plain, Packet
  <2> HIDE DEF reply
  <2>5. Alone(s, c.r, <<>>, <<reply>>)
    BY <1>12, <2>4, AloneWith
  <2>6. Alone(s, c.r, <<>>, <<Plain("ACK", s.seq % SeqCount)>>)
    BY <2>5 DEF reply
  <2>7. QED
    BY <2>2, <2>3, <2>6 DEF Ended
<1>13. QED
  BY <1>3, <1>8, <1>9, <1>10, <1>11, <1>12 DEF InStep

LEMMA TailFacts ==
  ASSUME NEW S, NEW D \in Seq(S), D # <<>>
  PROVE  /\ Head(D) = D[1] /\ D[1] \in S /\ Tail(D) \in Seq(S)
         /\ Len(D) \in Nat /\ Len(D) >= 1 /\ Len(Tail(D)) = Len(D) - 1
         /\ DOMAIN D = 1 .. Len(D) /\ DOMAIN Tail(D) = 1 .. Len(D) - 1
         /\ \A i \in DOMAIN Tail(D) : i + 1 \in DOMAIN D /\ Tail(D)[i] = D[i + 1]
OBVIOUS

LEMMA NoLength ==
  ASSUME NEW S, NEW D \in Seq(S), Len(D) = 0
  PROVE  D = <<>>
OBVIOUS

LEMMA BehindFacts ==
  ASSUME NEW S, NEW U \in Seq(S), NEW p
  PROVE  LET V == U \o <<p>>
         IN /\ Len(V) = Len(U) + 1 /\ DOMAIN V = 1 .. Len(U) + 1 /\ Len(U) \in Nat
            /\ V[Len(U) + 1] = p /\ \A i \in 1 .. Len(U) : V[i] = U[i]
            /\ DOMAIN U = 1 .. Len(U)
<1>1. U \in Seq(S \cup {p}) /\ <<p>> \in Seq(S \cup {p})
  OBVIOUS
<1>2. QED
  BY <1>1

\* What can become of a packet with data, or of an EOF, while a file is open.
LEMMA FlowRound ==
  ASSUME NEW r \in RcvSet, r.mode = "streaming", r.state = "RDW", r.open, r.count = 1,
         Cell(r).seq < SeqCount, NEW p \in PacketSet, p.type \in {"DATA", "EOF"},
         p.seq < SeqCount
  PROVE  LET c == Received(r, p)
             x == Save(r, p).r
             next == p.seq = After(Cell(r).seq)
         IN \/ /\ Put(r, x, Held(p), r.seq + 1) /\ c = Handled(x, p)
               /\ \/ next /\ x.disk = Flushed(r)
                  \/ ~next /\ ~IsAhead(r, p.seq) /\ Cell(r).seq = p.seq /\ x.disk = r.disk
            \/ /\ ~next /\ IsAhead(r, p.seq) /\ \E n \in Nat : c.out = <<Plain("NAK", n)>>
               /\ Cell(r).acked => /\ Put(r, c.r, Gap(After(Cell(r).seq)), r.seq)
                                   /\ c.r.disk = Flushed(r)
               /\ ~Cell(r).acked => c.r = r
            \/ ~next /\ ~IsAhead(r, p.seq) /\ c.r = r /\ c.out = <<>>
<1> DEFINE c == Received(r, p)
           x == Save(r, p).r
           next == p.seq = After(Cell(r).seq)
<1>1. ~IsRepeat(r, p) /\ p.type # "ERROR" /\ Sound(r)
  BY OneSlot DEF IsRepeat, Sound
<1>2. CASE next
  BY <1>1, <1>2, NextSaved, TakenRound
<1>3. CASE ~next /\ IsAhead(r, p.seq)
  <2>1. /\ ~Save(r, p).taken /\ \E n \in Nat : Save(r, p).out = <<Plain("NAK", n)>>
        /\ Cell(r).acked => /\ Put(r, x, Gap(After(Cell(r).seq)), r.seq)
                            /\ x.disk = Flushed(r)
        /\ ~Cell(r).acked => x = r
    BY <1>1, <1>3, AheadSaved
  <2>2. c.r = x /\ c.out = Save(r, p).out
    BY <1>1, <2>1, PassedRound
  <2>3. QED
    BY <1>3, <2>1, <2>2
<1>4. CASE ~next /\ ~IsAhead(r, p.seq) /\ Cell(r).seq = p.seq
  BY <1>1, <1>4, SameSaved, TakenRound
<1>5. CASE ~next /\ ~IsAhead(r, p.seq) /\ Cell(r).seq # p.seq
  <2>1. Save(r, p) = [r |-> r, out |-> <<>>, taken |-> FALSE]
    BY <1>5, OtherSaved
  <2>2. c.r = r /\ c.out = <<>>
    BY <1>1, <2>1, PassedRound
  <2>3. QED
    BY <1>5, <2>2
<1>6. QED
  BY <1>2, <1>3, <1>4, <1>5

LEMMA FlowingRead ==
  ASSUME NEW s \in SndSet, NEW r \in RcvSet, r.mode = "streaming", ~r.skip,
         NEW D \in Seq(PacketSet), NEW U \in Seq(PacketSet), D # <<>>, Flowing(s, r, D, U)
  PROVE  LET c == Received(r, Head(D))
         IN /\ ~Ended(c.r)
            /\ \/ Flowing(s, c.r, Tail(D), U \o c.out)
               \/ Shut(s, c.r, Tail(D), U \o c.out)
<1> DEFINE p == D[1]
           c == Received(r, p)
           x == Save(r, p).r
<1>1. /\ Head(D) = p /\ p \in PacketSet /\ Tail(D) \in Seq(PacketSet) /\ 1 \in DOMAIN D
      /\ Len(D) \in Nat /\ Len(D) >= 1 /\ Len(Tail(D)) = Len(D) - 1
      /\ DOMAIN Tail(D) = 1 .. Len(D) - 1
      /\ \A i \in DOMAIN Tail(D) : i + 1 \in DOMAIN D /\ Tail(D)[i] = D[i + 1]
  BY TailFacts
<1>2. /\ s.mode = "streaming" /\ s.state \in {"SDW", "SZ"} /\ s.seq >= 1 /\ s.seq \in Nat
      /\ r.state = "RDW" /\ r.open /\ r.file = s.file /\ r.count = 1 /\ r.seq >= 1
      /\ r.seq \in Nat /\ Cell(r).seq < SeqCount
      /\ \A i \in DOMAIN U : U[i].type = "NAK"
  BY SndFacts DEF Flowing, RcvSet, RcvFields, SndFields
<1>3. \A i \in DOMAIN D :
       /\ D[i].seq < SeqCount
       /\ \/ D[i].type = "DATA"
          \/ i = Len(D) /\ s.state = "SZ" /\ D[i] = Packet("EOF", s.seq % SeqCount, "", 0)
  BY DEF Flowing
<1>4. /\ p.seq < SeqCount
      /\ \/ p.type = "DATA"
         \/ Len(D) = 1 /\ s.state = "SZ" /\ p = Packet("EOF", s.seq % SeqCount, "", 0)
  BY <1>1, <1>3
<1>5. p.type = "DATA" \/ (p.type = "EOF" /\ p.seq = s.seq % SeqCount /\ p.note # "skip"
                          /\ Len(D) = 1 /\ s.state = "SZ")
  <2> DEFINE n == s.seq % SeqCount
  <2> HIDE DEF p, n
  <2>1. \/ p.type = "DATA"
        \/ Len(D) = 1 /\ s.state = "SZ" /\ p = Packet("EOF", n, "", 0)
    BY <1>4 DEF n
  <2>2. ASSUME p = Packet("EOF", n, "", 0)
        PROVE  p.type = "EOF" /\ p.seq = n /\ p.note # "skip"
    BY <2>2 DEF Packet
  <2>3. QED
    BY <2>1, <2>2 DEF n
<1>6. \A i \in DOMAIN Tail(D) :
       /\ Tail(D)[i].seq < SeqCount
       /\ \/ Tail(D)[i].type = "DATA"
          \/ i = Len(Tail(D)) /\ s.state = "SZ"
             /\ Tail(D)[i] = Packet("EOF", s.seq % SeqCount, "", 0)
  <2> TAKE i \in DOMAIN Tail(D)
  <2>1. i + 1 \in DOMAIN D /\ Tail(D)[i] = D[i + 1] /\ (i + 1 = Len(D) => i = Len(Tail(D)))
    BY <1>1
  <2>2. QED
    BY <1>3, <2>1
<1> HIDE DEF c, x, p
<1>7. SUFFICES /\ ~Ended(c.r)
               /\ \/ Flowing(s, c.r, Tail(D), U \o c.out)
                  \/ Shut(s, c.r, Tail(D), U \o c.out)
  BY <1>1 DEF c
<1>8. ASSUME NEW r2, r2.state = "RDW", r2.open, r2.file = r.file, r2.count = 1, r2.seq >= 1,
             Cell(r2).seq < SeqCount,
             NEW out, out = <<>> \/ \E n \in Nat : out = <<Plain("NAK", n)>>
      PROVE  ~Ended(r2) /\ Flowing(s, r2, Tail(D), U \o out)
  <2>1. \A i \in DOMAIN (U \o out) : (U \o out)[i].type = "NAK"
    <3>1. CASE out = <<>>
      <4>1. U \o out = U
        BY <3>1
      <4>2. QED
        BY <1>2, <4>1
    <3>2. ASSUME NEW n \in Nat, out = <<Plain("NAK", n)>>
          PROVE \A i \in DOMAIN (U \o out) : (U \o out)[i].type = "NAK"
      <4> DEFINE q == Plain("NAK", n)
                 V == U \o <<q>>
      <4>1. q.type = "NAK"
        BY DEF Plain, Packet
      <4> HIDE DEF q
      <4>2. /\ DOMAIN V = 1 .. Len(U) + 1 /\ Len(U) \in Nat /\ DOMAIN U = 1 .. Len(U)
            /\ V[Len(U) + 1] = q /\ \A i \in 1 .. Len(U) : V[i] = U[i]
        BY BehindFacts
      <4> HIDE DEF V
      <4>3. \A i \in DOMAIN V : V[i].type = "NAK"
        BY <1>2, <4>1, <4>2
      <4>4. QED
        BY <3>2, <4>3 DEF V, q
    <3>3. QED
      BY <1>8, <3>1, <3>2
  <2>2. QED
    BY <1>2, <1>6, <1>8, <2>1 DEF Flowing, Ended
<1>9. CASE Put(r, x, Held(p), r.seq + 1) /\ c = Handled(x, p)
  <2>1. /\ x \in RcvSet /\ x.mode = "streaming" /\ ~x.skip /\ x.state = "RDW" /\ x.open
        /\ x.file = r.file /\ x.count = 1 /\ x.seq >= 1 /\ Cell(x) = Held(p)
        /\ x.closed = r.closed
    BY <1>2, <1>9 DEF Put
  <2>2. Held(p).seq = p.seq /\ Held(p).acked /\ Held(p).type = p.type
    BY DEF Held
  <2>3. CASE p.type = "DATA"
    <3>1. c = [r |-> x, out |-> <<>>]
      BY <1>1, <1>9, <2>1, <2>3, DataHandled
    <3>2. ~Ended(x) /\ Flowing(s, x, Tail(D), U \o <<>>)
      BY <1>4, <1>8, <2>1, <2>2
    <3>3. QED
      BY <3>1, <3>2
  <2>4. CASE p.type = "EOF"
    <3> DEFINE reply == Plain("ACK", p.seq)
               V == U \o <<reply>>
    <3>1. p.seq = s.seq % SeqCount /\ p.note # "skip" /\ Len(D) = 1 /\ s.state = "SZ"
      BY <1>5, <2>4
    <3>2. /\ c.out = <<reply>> /\ c.r.last = <<reply>> /\ Apart(x, c.r)
          /\ c.r.state = "RF" /\ ~c.r.open /\ c.r.closed = x.closed \cup {x.file}
      BY <1>1, <1>9, <2>1, <2>4, <3>1, EofHandled
    <3>3. reply.type = "ACK" /\ reply.seq = p.seq
      BY DEF Plain, Packet
    <3> HIDE DEF reply
    <3>4. /\ DOMAIN V = 1 .. Len(U) + 1 /\ Len(U) \in Nat /\ DOMAIN U = 1 .. Len(U)
          /\ Len(V) = Len(U) + 1
          /\ V[Len(U) + 1] = reply /\ \A i \in 1 .. Len(U) : V[i] = U[i]
      BY BehindFacts
    <3> HIDE DEF V
    <3>5. \A i \in DOMAIN V : V[i].type = "NAK" \/ (i = Len(V) /\ V[i].type = "ACK")
      BY <1>2, <3>3, <3>4
    <3>6. Tail(D) = <<>>
      <4> DEFINE t == Tail(D)
      <4>1. Len(t) = Len(D) - 1 /\ t \in Seq(PacketSet)
        BY <1>1
      <4> HIDE DEF t
      <4>2. Len(D) = 1
        BY <3>1
      <4>5. Len(t) = 0
        BY <4>1, <4>2
      <4>3. t = <<>>
        BY <4>1, <4>5, NoLength
      <4>4. QED
        BY <4>3 DEF t
    <3>7. Has(c.r, s.seq % SeqCount) /\ Cell(c.r).type # "DATA" /\ c.r.seq >= 1
          /\ Cell(c.r).seq = p.seq
      BY <2>1, <2>2, <2>4, <3>1, <3>2 DEF Has, Apart
    <3>8. c.r.last # <<>> /\ c.r.last[1].seq = p.seq
      BY <3>2, <3>3, OneOnLine
    <3>9. Shut(s, c.r, <<>>, V)
      BY <1>2, <2>1, <3>1, <3>2, <3>5, <3>7, <3>8 DEF Shut
    <3>10. QED
      BY <3>2, <3>6, <3>9 DEF Ended, V
  <2>5. QED
    BY <1>5, <2>3, <2>4
<1>10. CASE \E n \in Nat : c.out = <<Plain("NAK", n)>>
            /\ (Cell(r).acked => Put(r, c.r, Gap(After(Cell(r).seq)), r.seq))
            /\ (~Cell(r).acked => c.r = r)
  <2>1. After(Cell(r).seq) < SeqCount /\ Gap(After(Cell(r).seq)).seq = After(Cell(r).seq)
    <3>1. Cell(r).seq \in Nat /\ Cell(r).seq + 1 \in Int
      BY OneSlot
    <3>2. (Cell(r).seq + 1) % SeqCount \in 0 .. SeqCount - 1
      BY <3>1, NumberFacts
    <3>3. QED
      BY <3>1, <3>2, ConstantFacts DEF After, Gap, Blank
  <2>2. /\ c.r.state = "RDW" /\ c.r.open /\ c.r.file = r.file /\ c.r.count = 1
        /\ c.r.seq >= 1 /\ Cell(c.r).seq < SeqCount
    BY <1>2, <1>10, <2>1 DEF Put
  <2>3. QED
    BY <1>8, <1>10, <2>2
<1>11. CASE c.r = r /\ c.out = <<>>
  BY <1>2, <1>8, <1>11
<1>12. p.type \in {"DATA", "EOF"}
  BY <1>5
<1>13. \/ Put(r, x, Held(p), r.seq + 1) /\ c = Handled(x, p)
       \/ \E n \in Nat : c.out = <<Plain("NAK", n)>>
            /\ (Cell(r).acked => Put(r, c.r, Gap(After(Cell(r).seq)), r.seq))
            /\ (~Cell(r).acked => c.r = r)
       \/ c.r = r /\ c.out = <<>>
  BY <1>1, <1>2, <1>4, <1>12, FlowRound DEF c, x
<1>14. QED
  BY <1>9, <1>10, <1>11, <1>13

\* What a round of the receiver leaves on the two lines.
LEMMA ReceiverGoesOn ==
  ASSUME NEW s, NEW r, NEW D, NEW U, NEW c, NEW left,
         Course(s, r, D, U), Grows(r, c.r),
         \/ Ended(s)
         \/ Ended(c.r) /\ Alone(s, c.r, <<>>, U \o c.out)
         \/ ~Ended(c.r) /\ Phase(s, c.r, left, U \o c.out)
  PROVE  Course(s, c.r, Line(c.r, left), Line(s, U \o c.out))
<1>1. CASE Ended(s)
  BY <1>1, ReceiverCourse
<1>2. CASE ~Ended(s)
  <2>1. Line(s, U \o c.out) = U \o c.out
    BY <1>2 DEF Line
  <2>2. Line(c.r, left) = IF Ended(c.r) THEN <<>> ELSE left
    BY DEF Line
  <2>3. QED
    BY <1>2, <2>1, <2>2, ReceiverCourse
<1>3. QED
  BY <1>1, <1>2

LEMMA ReadCourse ==
  ASSUME scenario.streaming, NEW s \in SndSet, NEW r \in RcvSet, r.mode = "streaming",
         NEW D \in Seq(PacketSet), NEW U \in Seq(PacketSet), Course(s, r, D, U),
         Running(r), D # <<>>
  PROVE  LET c == Received(r, Head(D))
         IN Course(s, c.r, Line(c.r, Tail(D)), Line(s, U \o c.out))
<1> DEFINE c == Received(r, Head(D))
<1>1. Head(D) \in PacketSet /\ ~r.skip /\ r.state # "OFF" /\ ~Ended(r)
  BY TailType DEF Running, Course
<1>2. Grows(r, c.r)
  BY <1>1, ReceivedGrows
<1>3. ASSUME ~Ended(s)
      PROVE  \/ Ended(c.r) /\ Alone(s, c.r, <<>>, U \o c.out)
             \/ ~Ended(c.r) /\ Phase(s, c.r, Tail(D), U \o c.out)
  <2>1. Phase(s, r, D, U)
    BY <1>1, <1>3 DEF Course
  <2>2. Opening(s, r, D, U) \/ Asked(s, r, D, U) \/ Flowing(s, r, D, U)
    BY <2>1 DEF Phase, NotBegun, Got, Shut
  <2>3. CASE Opening(s, r, D, U)
    BY <1>1, <2>3, OpeningRead DEF Phase
  <2>4. CASE Asked(s, r, D, U)
    BY <1>1, <2>4, AskedRead DEF Phase
  <2>5. CASE Flowing(s, r, D, U)
    BY <1>1, <2>5, FlowingRead DEF Phase
  <2>6. QED
    BY <2>2, <2>3, <2>4, <2>5
<1> HIDE DEF c
<1>4. Course(s, c.r, Line(c.r, Tail(D)), Line(s, U \o c.out))
  BY <1>2, <1>3, ReceiverGoesOn
<1>5. QED
  BY <1>4 DEF c

-----------------------------------------------------------------------------
(* The receiver asks *)

\* Nothing that a phase depends on.
LEMMA PhaseAlike ==
  ASSUME NEW s, NEW r, NEW r2, NEW D, NEW U, Phase(s, r, D, U), Apart(r, r2),
         r2.state = r.state, r2.last = r.last, r2.open = r.open, r2.file = r.file,
         r2.closed = r.closed
  PROVE  Phase(s, r2, D, U)
<1>1. /\ r2.count = r.count /\ r2.seq = r.seq /\ Cell(r2) = Cell(r)
      /\ (Fresh(r2) <=> Fresh(r)) /\ \A n : Has(r2, n) <=> Has(r, n)
  BY DEF Apart, Fresh, Has
<1>2. NotBegun(s, r, D, U) => NotBegun(s, r2, D, U)
  BY <1>1 DEF NotBegun
<1>3. Opening(s, r, D, U) => Opening(s, r2, D, U)
  BY <1>1 DEF Opening
<1>4. Asked(s, r, D, U) => Asked(s, r2, D, U)
  BY <1>1 DEF Asked
<1>5. Got(s, r, D, U) => Got(s, r2, D, U)
  BY <1>1 DEF Got
<1>6. Flowing(s, r, D, U) => Flowing(s, r2, D, U)
  BY <1>1 DEF Flowing
<1>7. Shut(s, r, D, U) => Shut(s, r2, D, U)
  BY <1>1 DEF Shut
<1>8. QED
  BY <1>2, <1>3, <1>4, <1>5, <1>6, <1>7 DEF Phase

\* What a NAK of the receiver leads to when nothing else is on its way.
LEMMA PhaseAsks ==
  ASSUME NEW s \in SndSet, NEW r \in RcvSet, r.mode = "streaming",
         NEW D, NEW U, Phase(s, r, D, U), ~Flowing(s, r, D, U), ~Got(s, r, D, U),
         s.state # "OFF", r.state # "OFF", D # <<>> \/ U = <<>>,
         NEW seq \in Nat, r.state = "R" => seq = 0
  PROVE  Phase(s, r, <<>>, Nak(r, seq).out)
<1>1. PICK n \in Nat : Nak(r, seq).out = <<Plain("NAK", n)>>
  BY NakOfStream
<1> DEFINE p == Plain("NAK", n)
<1>2. p \in PacketSet /\ p.type = "NAK" /\ p.seq = n
  BY PlainType DEF Types, Plain, Packet
<1>3. <<p>> # <<>> /\ DOMAIN <<p>> = {1} /\ Len(<<p>>) = 1 /\ <<p>>[1] = p
  BY OneOnLine
<1>4. \A m \in Nat : Nak(r, seq).out = <<Plain("NAK", m)>> => n = m
  <2> TAKE m \in Nat
  <2>1. Plain("NAK", m).seq = m /\ <<Plain("NAK", m)>>[1] = Plain("NAK", m)
    BY DEF Plain, Packet
  <2>2. QED
    BY <1>1, <1>2, <1>3, <2>1
<1>5. CASE Opening(s, r, D, U)
  <2>1. s.state = "S"
    BY <1>5 DEF Opening
  <2>2. CASE r.state = "R"
    <3>1. Fresh(r) /\ seq = 0
      BY <1>5, <2>2 DEF Opening
    <3>2. n = 0
      BY <1>4, <3>1, NakOfStream DEF Fresh
    <3>3. Single(<<>>, <<p>>, Plain("SINIT", 0), {Plain("NAK", 0)})
      BY <3>2 DEF Single
    <3>4. QED
      BY <1>1, <1>5, <2>1, <2>2, <3>1, <3>3 DEF Opening, Phase
  <2>3. CASE r.state = "RF"
    <3>1. Has(r, 0) /\ r.seq = 0
      BY <1>5, <2>3 DEF Opening
    <3>2. n \in {0, 1}
      <4>1. CASE seq = 0
        BY <1>4, <3>1, <4>1, NakOfStream
      <4>2. CASE seq # 0
        <5>1. Nak(r, seq).out = <<Plain("NAK", Cell(r).seq + 1)>>
          BY <3>1, <4>2, NakOfStream DEF Has
        <5>2. Cell(r).seq + 1 = 1
          BY <3>1 DEF Has
        <5>3. QED
          BY <1>4, <5>1, <5>2
      <4>3. QED
        BY <4>1, <4>2
    <3>3. p \in {Greeting, Plain("NAK", 0), Plain("NAK", 1)}
      BY <3>2
    <3> HIDE DEF p
    <3>4. Single(<<>>, <<p>>, Plain("SINIT", 0), {Greeting, Plain("NAK", 0), Plain("NAK", 1)})
      BY <3>3 DEF Single
    <3>5. QED
      BY <1>1, <1>5, <2>1, <2>3, <3>4 DEF Opening, Phase, p
  <2>4. QED
    BY <1>5, <2>2, <2>3 DEF Opening
<1>6. CASE Asked(s, r, D, U)
  <2>1. /\ s.seq \in Nat /\ s.seq >= 1 /\ Has(r, (s.seq - 1) % SeqCount) /\ InStep(s)
        /\ r.seq = 0 => s.seq = 1
    BY <1>6, SndFacts DEF Asked, SndFields
  <2>2. /\ ((s.seq - 1) % SeqCount) + 1 # (s.seq + 1) % SeqCount
        /\ s.seq = 1 => (s.seq + 1) % SeqCount # 0
    BY <2>1, Neighbours
  <2>3. n # (s.seq + 1) % SeqCount
    <3>1. CASE r.seq = 0 /\ seq = 0
      <4>1. n = 0
        BY <1>4, <3>1, NakOfStream
      <4>2. QED
        BY <2>1, <2>2, <3>1, <4>1
    <3>2. CASE ~(r.seq = 0 /\ seq = 0)
      <4>1. r.count = 1 /\ Cell(r).acked /\ Cell(r).seq = (s.seq - 1) % SeqCount
        BY <2>1 DEF Has
      <4>2. Nak(r, seq).out = <<Plain("NAK", Cell(r).seq + 1)>>
        BY <3>2, <4>1, NakOfStream
      <4>3. Cell(r).seq + 1 \in Nat
        BY OneSlot
      <4>4. n = Cell(r).seq + 1
        BY <1>4, <4>2, <4>3
      <4>5. QED
        BY <2>2, <4>1, <4>4
    <3>3. QED
      BY <3>1, <3>2
  <2>4. p \in NaksBut((s.seq + 1) % SeqCount)
    BY <1>2, <2>3 DEF NaksBut
  <2> HIDE DEF p
  <2>5. Single(<<>>, <<p>>, Pending(s), NaksBut((s.seq + 1) % SeqCount))
    BY <2>4 DEF Single
  <2>6. Asked(s, r, <<>>, <<p>>)
    BY <1>6, <2>5 DEF Asked
  <2>7. QED
    BY <1>1, <2>1, <2>6 DEF Phase, p, InStep
<1>7. CASE Shut(s, r, D, U)
  <2> HIDE DEF p
  <2>1. Shut(s, r, <<>>, <<p>>)
    BY <1>2, <1>3, <1>7 DEF Shut
  <2>2. QED
    BY <1>1, <1>7, <2>1 DEF Phase, p, Shut
<1>8. QED
  BY <1>5, <1>6, <1>7 DEF Phase, NotBegun

-----------------------------------------------------------------------------
(* What is lost *)

\* D without its first k packets.
Rests(D, k, E) ==
  /\ k \in 1 .. Len(D) /\ E \in Seq(PacketSet)
  /\ Len(E) = Len(D) - k /\ \A i \in DOMAIN E : i + k \in DOMAIN D /\ E[i] = D[i + k]

LEMMA RestsTail ==
  ASSUME NEW D \in Seq(PacketSet), D # <<>>
  PROVE  Rests(D, 1, Tail(D))
<1> DEFINE t == Tail(D)
<1>1. /\ t \in Seq(PacketSet) /\ Len(D) \in Nat /\ Len(D) >= 1 /\ Len(t) = Len(D) - 1
      /\ \A i \in DOMAIN t : i + 1 \in DOMAIN D /\ t[i] = D[i + 1]
  BY TailFacts
<1> HIDE DEF t
<1>2. Rests(D, 1, t)
  BY <1>1 DEF Rests
<1>3. QED
  BY <1>2 DEF t

LEMMA RestsWithout ==
  ASSUME NEW D \in Seq(PacketSet), NEW k \in DOMAIN D
  PROVE  Rests(D, k, Without(D, k))
<1> DEFINE t == Without(D, k)
<1>1. /\ Len(D) \in Nat /\ DOMAIN D = 1 .. Len(D) /\ k \in Nat /\ k >= 1 /\ k <= Len(D)
      /\ \A i \in 1 .. Len(D) : D[i] \in PacketSet
  OBVIOUS
<1>2. k + 1 \in Int /\ Len(D) \in Int /\ \A i \in k + 1 .. Len(D) : D[i] \in PacketSet
  BY <1>1
<1>3. /\ t \in Seq(PacketSet)
      /\ Len(t) = IF k + 1 <= Len(D) THEN Len(D) - (k + 1) + 1 ELSE 0
      /\ \A i \in 1 .. Len(D) - (k + 1) + 1 : t[i] = D[(k + 1) + i - 1]
  BY <1>2, SubSeqProperties DEF Without
<1>4. DOMAIN t = 1 .. Len(t)
  BY <1>3
<1> HIDE DEF t
<1>5. Len(t) = Len(D) - k
  BY <1>1, <1>3
<1>6. \A i \in DOMAIN t : i + k \in DOMAIN D /\ t[i] = D[i + k]
  <2> TAKE i \in DOMAIN t
  <2>1. i \in 1 .. Len(D) - k
    BY <1>4, <1>5
  <2>2. i \in 1 .. Len(D) - (k + 1) + 1 /\ (k + 1) + i - 1 = i + k /\ i + k \in 1 .. Len(D)
    BY <1>1, <2>1
  <2>3. QED
    BY <1>1, <1>3, <2>2
<1>7. Rests(D, k, t)
  BY <1>1, <1>3, <1>5, <1>6 DEF Rests
<1>8. QED
  BY <1>7 DEF t

LEMMA RestsOfOne ==
  ASSUME NEW D \in Seq(PacketSet), NEW k, NEW E, Rests(D, k, E), Len(D) <= 1
  PROVE  E = <<>>
<1>1. Len(D) \in Nat /\ k \in 1 .. Len(D) /\ E \in Seq(PacketSet) /\ Len(E) = Len(D) - k
  BY DEF Rests
<1>2. Len(E) = 0
  BY <1>1
<1>3. QED
  BY <1>1, <1>2, NoLength

LEMMA SingleFacts ==
  ASSUME NEW D, NEW U, NEW p, NEW A, Single(D, U, p, A)
  PROVE  /\ Len(D) <= 1 /\ Len(U) <= 1 /\ Single(<<>>, <<>>, p, A)
         /\ D # <<>> => U = <<>>
<1>1. Single(<<>>, <<>>, p, A) /\ Len(<<>>) = 0
  BY DEF Single
<1>2. ASSUME NEW q, NEW V, V = <<q>> PROVE Len(V) <= 1
  BY <1>2
<1>3. \/ D = <<>> /\ U = <<>>
      \/ D = <<p>> /\ U = <<>>
      \/ D = <<>> /\ \E a \in A : U = <<a>>
  BY DEF Single
<1>4. ASSUME NEW V, V = <<>> PROVE Len(V) <= 1
  BY <1>4
<1>5. Len(D) <= 1 /\ Len(U) <= 1
  BY <1>2, <1>3, <1>4
<1>6. QED
  BY <1>1, <1>3, <1>5

LEMMA PhaseLessDown ==
  ASSUME NEW s, NEW r, NEW D \in Seq(PacketSet), NEW U, NEW k, NEW E,
         Rests(D, k, E), Phase(s, r, D, U)
  PROVE  Phase(s, r, E, U)
<1>1. k \in 1 .. Len(D) /\ Len(D) \in Nat
  BY DEF Rests
<1>2. D # <<>>
  BY <1>1, NoneOnLine
<1>3. CASE Opening(s, r, D, U)
  <2>1. \E A : Single(D, U, Plain("SINIT", 0), A)
    BY <1>3 DEF Opening
  <2>2. E = <<>> /\ U = <<>>
    BY <1>2, <2>1, SingleFacts, RestsOfOne
  <2>3. \A A : Single(E, U, Plain("SINIT", 0), A)
    BY <2>2 DEF Single
  <2>4. Opening(s, r, E, U)
    BY <1>3, <2>3 DEF Opening
  <2>5. QED
    BY <2>4 DEF Phase
<1>4. CASE Asked(s, r, D, U)
  <2>1. \E A : Single(D, U, Pending(s), A)
    BY <1>4 DEF Asked
  <2>2. E = <<>> /\ U = <<>>
    BY <1>2, <2>1, SingleFacts, RestsOfOne
  <2>3. \A A : Single(E, U, Pending(s), A)
    BY <2>2 DEF Single
  <2>4. Asked(s, r, E, U)
    BY <1>4, <2>3 DEF Asked
  <2>5. QED
    BY <2>4 DEF Phase
<1>5. CASE Flowing(s, r, D, U)
  <2>1. \A i \in DOMAIN E :
          /\ E[i].seq < SeqCount
          /\ \/ E[i].type = "DATA"
             \/ i = Len(E) /\ s.state = "SZ" /\ E[i] = Packet("EOF", s.seq % SeqCount, "", 0)
    <3> TAKE i \in DOMAIN E
    <3>1. i + k \in DOMAIN D /\ E[i] = D[i + k] /\ i \in Nat /\ k \in Nat
          /\ Len(E) = Len(D) - k /\ Len(E) \in Nat
      BY <1>1 DEF Rests
    <3>2. i + k = Len(D) => i = Len(E)
      BY <1>1, <3>1
    <3>3. QED
      BY <1>5, <3>1, <3>2 DEF Flowing
  <2>2. Flowing(s, r, E, U)
    BY <1>5, <2>1 DEF Flowing
  <2>3. QED
    BY <2>2 DEF Phase
<1>6. QED
  BY <1>2, <1>3, <1>4, <1>5 DEF Phase, NotBegun, Got, Shut

LEMMA PhaseLessUp ==
  ASSUME NEW s, NEW r, NEW D, NEW U \in Seq(PacketSet), NEW k, NEW E,
         Rests(U, k, E), Phase(s, r, D, U)
  PROVE  Phase(s, r, D, E)
<1>1. k \in 1 .. Len(U) /\ Len(U) \in Nat
  BY DEF Rests
<1>2. U # <<>>
  BY <1>1, NoneOnLine
<1>3. CASE NotBegun(s, r, D, U)
  <2>1. \E p : U = <<p>>
    BY <1>2, <1>3 DEF NotBegun
  <2>2. E = <<>>
    <3>1. PICK p : U = <<p>>
      BY <2>1
    <3>2. Len(U) <= 1
      BY <3>1
    <3>3. QED
      BY <3>2, RestsOfOne
  <2>3. NotBegun(s, r, D, E)
    BY <1>2, <1>3, <2>2 DEF NotBegun
  <2>4. QED
    BY <2>3 DEF Phase
<1>4. CASE Opening(s, r, D, U)
  <2>1. \E A : Single(D, U, Plain("SINIT", 0), A)
    BY <1>4 DEF Opening
  <2>2. E = <<>> /\ D = <<>>
    BY <1>2, <2>1, SingleFacts, RestsOfOne
  <2>3. \A A : Single(D, E, Plain("SINIT", 0), A)
    BY <2>2 DEF Single
  <2>4. Opening(s, r, D, E)
    BY <1>4, <2>3 DEF Opening
  <2>5. QED
    BY <2>4 DEF Phase
<1>5. CASE Asked(s, r, D, U)
  <2>1. \E A : Single(D, U, Pending(s), A)
    BY <1>5 DEF Asked
  <2>2. E = <<>> /\ D = <<>>
    BY <1>2, <2>1, SingleFacts, RestsOfOne
  <2>3. \A A : Single(D, E, Pending(s), A)
    BY <2>2 DEF Single
  <2>4. Asked(s, r, D, E)
    BY <1>5, <2>3 DEF Asked
  <2>5. QED
    BY <2>4 DEF Phase
<1>6. CASE Got(s, r, D, U)
  <2>1. \E p : U = <<p>>
    BY <1>2, <1>6 DEF Got
  <2>2. E = <<>>
    <3>1. PICK p : U = <<p>>
      BY <2>1
    <3>2. Len(U) <= 1
      BY <3>1
    <3>3. QED
      BY <3>2, RestsOfOne
  <2>3. Got(s, r, D, E)
    BY <1>6, <2>2 DEF Got
  <2>4. QED
    BY <2>3 DEF Phase
<1>7. ASSUME NEW i \in DOMAIN E
      PROVE  i + k \in DOMAIN U /\ E[i] = U[i + k] /\ (i + k = Len(U) => i = Len(E))
  <2>1. i + k \in DOMAIN U /\ E[i] = U[i + k] /\ i \in Nat /\ k \in Nat
        /\ Len(E) = Len(U) - k /\ Len(E) \in Nat
    BY <1>1 DEF Rests
  <2>2. QED
    BY <1>1, <2>1
<1>8. CASE Flowing(s, r, D, U)
  <2>1. \A i \in DOMAIN E : E[i].type = "NAK"
    BY <1>7, <1>8 DEF Flowing
  <2>2. Flowing(s, r, D, E)
    BY <1>8, <2>1 DEF Flowing
  <2>3. QED
    BY <2>2 DEF Phase
<1>9. CASE Shut(s, r, D, U)
  <2>1. \A i \in DOMAIN E : E[i].type = "NAK" \/ (i = Len(E) /\ E[i].type = "ACK")
    BY <1>7, <1>9 DEF Shut
  <2>2. Shut(s, r, D, E)
    BY <1>9, <2>1 DEF Shut
  <2>3. QED
    BY <2>2 DEF Phase
<1>10. QED
  BY <1>3, <1>4, <1>5, <1>6, <1>8, <1>9 DEF Phase

LEMMA AloneLess ==
  ASSUME NEW s, NEW r, NEW D, NEW U, Alone(s, r, D, U)
  PROVE  Alone(s, r, <<>>, <<>>) /\ D = <<>> /\ Len(U) <= 1
BY NoneOnLine DEF Alone

LEMMA LessCourse ==
  ASSUME NEW s, NEW r, NEW D \in Seq(PacketSet), NEW U \in Seq(PacketSet),
         Course(s, r, D, U), NEW k, NEW E
  PROVE  /\ Rests(D, k, E) => Course(s, r, E, U)
         /\ Rests(U, k, E) => Course(s, r, D, E)
<1>1. CASE Ended(s)
  BY <1>1 DEF Course
<1>2. CASE ~Ended(s) /\ Ended(r)
  <2>1. Alone(s, r, <<>>, <<>>) /\ D = <<>> /\ Len(U) <= 1
    BY <1>2, AloneLess DEF Course
  <2>2. ~Rests(D, k, E)
    BY <2>1, NoneOnLine DEF Rests
  <2>3. Rests(U, k, E) => E = <<>>
    BY <2>1, RestsOfOne
  <2>4. QED
    BY <1>2, <2>1, <2>2, <2>3 DEF Course
<1>3. CASE ~Ended(s) /\ ~Ended(r)
  <2>1. Phase(s, r, D, U)
    BY <1>3 DEF Course
  <2>2. Rests(D, k, E) => Phase(s, r, E, U)
    BY <2>1, PhaseLessDown
  <2>3. Rests(U, k, E) => Phase(s, r, D, E)
    BY <2>1, PhaseLessUp
  <2>4. QED
    BY <1>3, <2>2, <2>3 DEF Course
<1>4. QED
  BY <1>1, <1>2, <1>3

-----------------------------------------------------------------------------
(* The receiver starts, has got a packet that is damaged, or times out *)

LEMMA BehindNothing ==
  ASSUME NEW U \in Seq(PacketSet)
  PROVE  <<>> \o U = U /\ U \o <<>> = U
OBVIOUS

\* In a phase with one packet at a time there is nothing else on the lines.
LEMMA OnePacket ==
  ASSUME NEW s, NEW r, NEW D, NEW U, Phase(s, r, D, U), ~Flowing(s, r, D, U), D # <<>>
  PROVE  /\ Opening(s, r, D, U) \/ Asked(s, r, D, U)
         /\ Len(D) <= 1 /\ U = <<>> /\ ~Got(s, r, D, U) /\ s.state # "OFF"
         /\ r.state = "R" => D = <<Plain("SINIT", 0)>>
<1>1. Opening(s, r, D, U) \/ Asked(s, r, D, U)
  BY DEF Phase, NotBegun, Got, Shut
<1>2. CASE Opening(s, r, D, U)
  <2>1. \E A : Single(D, U, Plain("SINIT", 0), A)
    BY <1>2 DEF Opening
  <2>2. Len(D) <= 1 /\ U = <<>>
    BY <2>1, SingleFacts
  <2>3. D = <<Plain("SINIT", 0)>>
    BY <2>1 DEF Single
  <2>4. QED
    BY <1>2, <2>2, <2>3 DEF Opening, Got
<1>3. CASE Asked(s, r, D, U)
  <2>1. \E A : Single(D, U, Pending(s), A)
    BY <1>3 DEF Asked
  <2>2. Len(D) <= 1 /\ U = <<>>
    BY <2>1, SingleFacts
  <2>3. s.state # "OFF" /\ r.state # "R"
    BY <1>3 DEF Asked, InStep
  <2>4. QED
    BY <1>3, <2>2, <2>3 DEF Got
<1>4. QED
  BY <1>1, <1>2, <1>3

LEMMA AskCourse ==
  ASSUME NEW s \in SndSet, NEW r \in RcvSet, r.mode = "streaming",
         NEW D \in Seq(PacketSet), NEW U \in Seq(PacketSet), Course(s, r, D, U),
         Running(r), NEW k \in DOMAIN D, NEW seq \in {0, Head(D).seq}
  PROVE  LET c == Nak(r, seq)
         IN Course(s, c.r, Line(c.r, Without(D, k)), Line(s, U \o c.out))
<1> DEFINE c == Nak(r, seq)
           E == Without(D, k)
<1>1. /\ D # <<>> /\ ~Ended(r) /\ ~r.skip /\ r.state # "OFF" /\ Rests(D, k, E)
  BY RestsWithout DEF Running, Course
<1>2. Head(D) \in PacketSet /\ Head(D) = D[1] /\ seq \in Nat
  BY <1>1, TailFacts, PacketFields
<1>3. c.r = r /\ Grows(r, c.r)
  BY <1>1, <1>2, NakOfStream DEF Grows
<1> HIDE DEF E
<1>4. ASSUME ~Ended(s)
      PROVE  Phase(s, c.r, E, U \o c.out)
  <2>1. Phase(s, r, D, U)
    BY <1>1, <1>4 DEF Course
  <2>2. CASE Flowing(s, r, D, U)
    <3>1. PICK n \in Nat : c.out = <<Plain("NAK", n)>>
      BY <1>2, NakOfStream
    <3> DEFINE p == Plain("NAK", n)
               V == U \o <<p>>
    <3>2. p \in PacketSet /\ p.type = "NAK"
      BY PlainType DEF Types, Plain, Packet
    <3> HIDE DEF p
    <3>3. /\ DOMAIN V = 1 .. Len(U) + 1 /\ V[Len(U) + 1] = p /\ Len(U) \in Nat
          /\ \A i \in 1 .. Len(U) : V[i] = U[i]
          /\ DOMAIN U = 1 .. Len(U)
      BY BehindFacts
    <3> HIDE DEF V
    <3>4. \A i \in DOMAIN U : U[i].type = "NAK"
      BY <2>2 DEF Flowing
    <3>5. \A i \in DOMAIN V : V[i].type = "NAK"
      BY <3>2, <3>3, <3>4
    <3>6. Flowing(s, r, D, V)
      BY <2>2, <3>5 DEF Flowing
    <3>7. Phase(s, r, E, V)
      BY <1>1, <3>6, PhaseLessDown DEF Phase
    <3>8. QED
      BY <1>3, <3>1, <3>7 DEF V, p
  <2>3. CASE ~Flowing(s, r, D, U)
    <3>1. /\ Len(D) <= 1 /\ U = <<>> /\ ~Got(s, r, D, U) /\ s.state # "OFF"
          /\ r.state = "R" => D = <<Plain("SINIT", 0)>>
      BY <1>1, <2>1, <2>3, OnePacket
    <3>2. E = <<>>
      BY <1>1, <3>1, RestsOfOne
    <3>3. r.state = "R" => seq = 0
      <4>1. <<Plain("SINIT", 0)>>[1].seq = 0
        BY DEF Plain, Packet
      <4>2. QED
        BY <1>2, <3>1, <4>1
    <3>4. Phase(s, r, <<>>, c.out)
      BY <1>1, <1>2, <2>1, <2>3, <3>1, <3>3, PhaseAsks
    <3>5. c.out \in Seq(PacketSet)
      BY <1>2, NakStep
    <3>6. U \o c.out = c.out
      BY <3>1, <3>5, BehindNothing
    <3>7. QED
      BY <1>3, <3>2, <3>4, <3>6
  <2>4. QED
    BY <2>2, <2>3
<1> HIDE DEF c
<1>5. Course(s, c.r, Line(c.r, E), Line(s, U \o c.out))
  BY <1>1, <1>3, <1>4, ReceiverGoesOn
<1>6. QED
  BY <1>5 DEF c, E

LEMMA ReceiverStartCourse ==
  ASSUME NEW s \in SndSet, NEW r \in RcvSet, r.mode = "streaming", r.state = "OFF",
         NEW D \in Seq(PacketSet), NEW U \in Seq(PacketSet), Course(s, r, D, U)
  PROVE  LET c == Nak([r EXCEPT !.state = "R"], 0)
         IN Course(s, c.r, Line(c.r, <<>>), Line(s, U \o c.out))
<1> DEFINE x == [r EXCEPT !.state = "R"]
           c == Nak(x, 0)
           p == Plain("NAK", 0)
<1>1. r \in RcvFields /\ ~Ended(r) /\ ~r.skip
  BY DEF RcvSet, Ended, Course
<1>2. /\ x.state = "R" /\ x.closed = r.closed /\ x.open = r.open /\ x.last = r.last
      /\ x.file = r.file /\ Apart(r, x) /\ Alike(r, x)
  BY <1>1 DEF RcvFields, States, Apart, Cell, Alike
<1> HIDE DEF x
<1>3. x \in RcvSet /\ x.mode = "streaming" /\ ~x.skip /\ ~Ended(x)
  BY <1>1, <1>2, AlikeType DEF Apart, Ended
<1>4. c.r = x
  BY <1>3, NakOfStream
<1>5. Grows(r, c.r)
  BY <1>2, <1>3, <1>4 DEF Grows
<1>6. ASSUME ~Ended(s)
      PROVE  Phase(s, c.r, <<>>, U \o c.out)
  <2>1. Phase(s, r, D, U)
    BY <1>1, <1>6 DEF Course
  <2>2. NotBegun(s, r, D, U) \/ Opening(s, r, D, U)
    BY <2>1 DEF Phase, Asked, Got, Flowing, Shut
  <2>3. Fresh(r) /\ U = <<>>
    <3>1. CASE NotBegun(s, r, D, U)
      BY <3>1 DEF NotBegun
    <3>2. CASE Opening(s, r, D, U)
      <4>1. Fresh(r) /\ Single(D, U, Plain("SINIT", 0), {})
        BY <3>2 DEF Opening
      <4>2. QED
        BY <4>1 DEF Single
    <3>3. QED
      BY <2>2, <3>1, <3>2
  <2>4. Fresh(x) /\ x.seq = 0
    BY <1>2, <2>3 DEF Fresh, Apart
  <2>5. c.out = <<p>>
    BY <1>3, <2>4, NakOfStream
  <2>6. U \o c.out = <<p>>
    BY <2>3, <2>5, OneOnLine
  <2>7. Single(<<>>, <<p>>, Plain("SINIT", 0), {p})
    BY DEF Single
  <2> HIDE DEF c
  <2>8. CASE NotBegun(s, r, D, U)
    <3>1. NotBegun(s, x, <<>>, <<p>>)
      BY <1>2, <2>4, <2>8 DEF NotBegun
    <3>2. QED
      BY <1>4, <2>6, <3>1 DEF Phase
  <2>9. CASE Opening(s, r, D, U)
    <3>1. Opening(s, x, <<>>, <<p>>)
      BY <1>2, <2>4, <2>7, <2>9 DEF Opening
    <3>2. QED
      BY <1>4, <2>6, <3>1 DEF Phase
  <2>10. QED
    BY <2>2, <2>8, <2>9
<1> HIDE DEF c
<1>7. ~Ended(c.r)
  BY <1>3, <1>4
<1>8. Course(s, c.r, Line(c.r, <<>>), Line(s, U \o c.out))
  BY <1>5, <1>6, <1>7, ReceiverGoesOn
<1>9. QED
  BY <1>8 DEF c, x

LEMMA ReceiverTimeoutCourse ==
  ASSUME NEW s \in SndSet, NEW r \in RcvSet, r.mode = "streaming", s.state # "OFF",
         TimesOut(r), Course(s, r, <<>>, <<>>), NEW seq \in TimeoutSeqs(r)
  PROVE  LET c == ReceiverTimedOut(r, seq)
         IN Course(s, c.r, Line(c.r, <<>>), Line(s, <<>> \o c.out))
<1> DEFINE t == [r EXCEPT !.timeouts = @ + 1]
           x == IF IsLastTimeout(r) THEN Aborted(t) ELSE t
           c == Nak(x, seq)
<1>1. /\ r \in RcvFields /\ ~Ended(r) /\ ~r.skip /\ r.state # "OFF" /\ r.state # "RDW"
      /\ seq \in Nat
  BY TimeoutSeqsType, OneSlot DEF RcvSet, TimesOut, Running, Course
<1>2. /\ x.closed = r.closed /\ x.last = r.last /\ x.file = r.file /\ Apart(r, x)
      /\ x.state = (IF IsLastTimeout(r) THEN "ABORT" ELSE r.state)
      /\ ~IsLastTimeout(r) => x.open = r.open
      /\ x.begin = r.begin /\ x.slots = r.slots
  BY <1>1 DEF RcvFields, Apart, Cell, Aborted
<1>3. c = ReceiverTimedOut(r, seq)
  BY DEF ReceiverTimedOut
<1> HIDE DEF x
<1>4. Nak(x, seq).r = x /\ Nak(x, seq).out = Nak(r, seq).out
  <2>1. End(r) = 0 /\ ~Windowing(r) /\ ~Windowing(x)
    BY <1>2, OneSlot DEF Apart, Windowing
  <2>2. Missing(x) = Missing(r) /\ End(x) = End(r) /\ Slots(x) = Slots(r)
    BY <1>2 DEF Missing, End, At, Slots, Apart
  <2>3. Wanted(x) = Wanted(r)
    BY <1>2, <2>2 DEF Wanted, At, Apart
  <2>4. QED
    BY <1>2, <2>1, <2>3 DEF Nak, Apart
<1>5. Grows(r, c.r)
  BY <1>1, <1>2, <1>4 DEF Grows, Apart
<1>6. ASSUME ~Ended(s)
      PROVE  \/ Ended(c.r) /\ Alone(s, c.r, <<>>, c.out)
             \/ ~Ended(c.r) /\ Phase(s, c.r, <<>>, c.out)
  <2>1. Phase(s, r, <<>>, <<>>)
    BY <1>1, <1>6 DEF Course
  <2>2. ~Flowing(s, r, <<>>, <<>>) /\ ~Got(s, r, <<>>, <<>>)
    BY <1>1 DEF Flowing, Got
  <2>3. r.state = "R" => seq = 0
    <3>1. SUFFICES ASSUME r.state = "R" PROVE seq = 0
      OBVIOUS
    <3>2. Fresh(r)
      BY <2>1, <3>1 DEF Phase, NotBegun, Opening, Asked, Got, Flowing, Shut
    <3>3. TimeoutSeqs(r) = {0}
      BY <3>2 DEF TimeoutSeqs, Fresh
    <3>4. QED
      BY <3>3
  <2>4. Phase(s, r, <<>>, Nak(r, seq).out)
    BY <1>1, <2>1, <2>2, <2>3, PhaseAsks
  <2>5. CASE IsLastTimeout(r)
    <3>1. PICK n \in Nat : Nak(r, seq).out = <<Plain("NAK", n)>>
      BY <1>1, NakOfStream
    <3> DEFINE p == Plain("NAK", n)
    <3>2. p.type = "NAK"
      BY DEF Plain, Packet
    <3>3. /\ s.state \in {"S", "SF", "SA", "SB", "SZ"}
          /\ s.state = "SZ" => s.file \in r.closed
      BY <1>1, <2>1, <2>2 DEF Phase, NotBegun, Opening, Asked, InStep, Shut
    <3> HIDE DEF p
    <3>4. Alone(s, x, <<>>, <<p>>)
      BY <1>2, <3>2, <3>3, AloneWith
    <3>5. QED
      BY <1>2, <1>4, <2>5, <3>1, <3>4 DEF Ended, p
  <2>6. CASE ~IsLastTimeout(r)
    <3>1. Phase(s, x, <<>>, Nak(r, seq).out)
      BY <1>2, <2>4, <2>6, PhaseAlike
    <3>2. QED
      BY <1>1, <1>2, <1>4, <2>6, <3>1 DEF Ended
  <2>7. QED
    BY <2>5, <2>6
<1>7. <<>> \o c.out = c.out
  <2>1. Nak(r, seq).out \in Seq(PacketSet)
    BY <1>1, NakStep
  <2>2. QED
    BY <1>4, <2>1, BehindNothing
<1> HIDE DEF c
<1>8. Course(s, c.r, Line(c.r, <<>>), Line(s, <<>> \o c.out))
  BY <1>5, <1>6, <1>7, ReceiverGoesOn
<1>9. QED
  BY <1>3, <1>8

-----------------------------------------------------------------------------
(* The sender: what it remembers of what it has sent *)

\* The same but for the window and the timeouts.
Steady(s, t) ==
  /\ t.state = s.state /\ t.seq = s.seq /\ t.mode = s.mode /\ t.pos = s.pos
  /\ t.file = s.file /\ t.skip = s.skip

LEMMA WindowSteady ==
  ASSUME NEW s \in SndFields, NEW w
  PROVE  Steady(s, [s EXCEPT !.window = w]) /\ [s EXCEPT !.window = w].window = w
BY DEF Steady, SndFields

LEMMA SteadyPending ==
  ASSUME NEW s, NEW t, Steady(s, t)
  PROVE  /\ Pending(t) = Pending(s) /\ (InStep(t) <=> InStep(s))
         /\ (Ended(t) <=> Ended(s)) /\ (Streaming(t) <=> Streaming(s))
         /\ \A r : Behind(s, r) => Behind(t, r)
BY DEF Steady, Pending, InStep, Ended, Streaming, Behind

LEMMA SteadyCourse ==
  ASSUME NEW s, NEW t, Steady(s, t), Remembers(s) => Remembers(t),
         NEW r, NEW D, NEW U, Course(s, r, D, U)
  PROVE  Course(t, r, D, U)
<1>1. /\ Pending(t) = Pending(s) /\ (InStep(t) <=> InStep(s)) /\ (Ended(t) <=> Ended(s))
      /\ Behind(t, r)
  BY SteadyPending DEF Course
<1>2. t.state = s.state /\ t.seq = s.seq /\ t.mode = s.mode /\ t.file = s.file
  BY DEF Steady
<1>3. Alone(s, r, D, U) => Alone(t, r, D, U)
  BY <1>2 DEF Alone
<1>4. NotBegun(s, r, D, U) => NotBegun(t, r, D, U)
  BY <1>2 DEF NotBegun
<1>5. Opening(s, r, D, U) => Opening(t, r, D, U)
  BY <1>2 DEF Opening
<1>6. Asked(s, r, D, U) => Asked(t, r, D, U)
  BY <1>1, <1>2 DEF Asked
<1>7. Got(s, r, D, U) => Got(t, r, D, U)
  BY <1>1, <1>2 DEF Got
<1>8. Flowing(s, r, D, U) => Flowing(t, r, D, U)
  BY <1>2 DEF Flowing
<1>9. Shut(s, r, D, U) => Shut(t, r, D, U)
  BY <1>2 DEF Shut
<1>10. QED
  BY <1>1, <1>3, <1>4, <1>5, <1>6, <1>7, <1>8, <1>9 DEF Course, Phase

LEMMA MovedSteady ==
  ASSUME NEW s \in SndSet
  PROVE  /\ Steady(s, Moved(s)) /\ Moved(s) \in SndSet
         /\ Streaming(s) => Moved(s).window = <<>> /\ HasRoom(Moved(s))
<1> DEFINE t == Moved(s)
           w == t.window
<1>1. t \in SndSet /\ t = [s EXCEPT !.window = w] /\ (Streaming(s) => w = <<>>)
  BY MovedFacts
<1> HIDE DEF w
<1>2. Steady(s, [s EXCEPT !.window = w])
  BY SndFacts, WindowSteady
<1> HIDE DEF t
<1>3. Steady(s, t)
  BY <1>1, <1>2
<1>4. QED
  BY <1>1, <1>3 DEF HasRoom, Steady, Streaming, w, t

\* The window of a sender that has not got an answer stays as it is, and is full.
LEMMA MovedUnanswered ==
  ASSUME NEW s \in SndSet, NEW q, s.window = <<[packet |-> q, acked |-> FALSE]>>
  PROVE  /\ Moved(s).window = s.window
         /\ s.mode = "bare" => ~HasRoom(Moved(s))
<1> DEFINE open == {k \in DOMAIN s.window : ~s.window[k].acked}
           e == [packet |-> q, acked |-> FALSE]
           w == s.window
<1>1. s \in SndFields /\ Moved(s) = [s EXCEPT !.window = Moved(s).window]
  BY SndFacts, MovedFacts
<1>2. ~e.acked
  OBVIOUS
<1>3. w = <<e>>
  OBVIOUS
<1> HIDE DEF e
<1>4. w[1] = e /\ Len(w) = 1 /\ DOMAIN w = {1} /\ SubSeq(w, 1, 1) = w
  <2>1. w \in Seq({e}) /\ Len(w) = 1 /\ w[1] = e /\ DOMAIN w = {1}
    BY <1>3
  <2> HIDE DEF w
  <2>2. SubSeq(w, 1, Len(w)) = w
    BY <2>1, SubSeqFull
  <2>3. QED
    BY <2>1, <2>2
<1> HIDE DEF w
<1>5. open = {1}
  BY <1>2, <1>4 DEF w
<1> HIDE DEF open
<1>6. Min({1}) = 1
  <2>1. Min({1}) \in {1}
    BY MinFacts
  <2>2. QED
    BY <2>1
<1>7. Moved(s) = [s EXCEPT !.window = SubSeq(@, Min(open), Len(@))]
  BY <1>5 DEF Moved, open
<1>8. Moved(s).window = SubSeq(s.window, Min(open), Len(s.window))
  BY <1>1, <1>7 DEF SndFields
<1>9. Moved(s).window = s.window
  BY <1>4, <1>5, <1>6, <1>8 DEF w
<1>10. Moved(s).mode = s.mode
  BY MovedFacts
<1>11. s.mode = "bare" => ~HasRoom(Moved(s))
  BY <1>4, <1>9, <1>10 DEF HasRoom, Slots, Streaming, w
<1>12. QED
  BY <1>9, <1>11

LEMMA MovedAnswered ==
  ASSUME NEW s, s.window = <<>> \/ \E q : s.window = <<[packet |-> q, acked |-> TRUE]>>,
         s \in SndSet
  PROVE  Moved(s).window = <<>> /\ HasRoom(Moved(s))
<1> DEFINE open == {k \in DOMAIN s.window : ~s.window[k].acked}
<1>1. s \in SndFields /\ Moved(s).mode = s.mode
  BY SndFacts, MovedFacts
<1>2. open = {}
  <2>1. CASE s.window = <<>>
    BY <2>1
  <2>2. ASSUME NEW q, s.window = <<[packet |-> q, acked |-> TRUE]>>
        PROVE  open = {}
    <3> DEFINE e == [packet |-> q, acked |-> TRUE]
    <3>1. e.acked
      OBVIOUS
    <3> HIDE DEF e
    <3>2. DOMAIN <<e>> = {1} /\ <<e>>[1] = e
      OBVIOUS
    <3>3. s.window = <<e>>
      BY <2>2 DEF e
    <3>4. QED
      BY <3>1, <3>2, <3>3
  <2>3. QED
    BY <2>1, <2>2
<1>3. Moved(s) = [s EXCEPT !.window = <<>>]
  BY <1>2 DEF Moved
<1>4. Moved(s).window = <<>>
  BY <1>1, <1>3 DEF SndFields
<1>5. Len(<<>>) < Slots(Moved(s))
  <2>1. Slots(Moved(s)) \in 1 .. WindowSize /\ Len(<<>>) = 0 /\ WindowSize \in Nat
    BY SlotsType, ConstantFacts
  <2>2. QED
    BY <2>1
<1>6. QED
  BY <1>4, <1>5 DEF HasRoom

\* What is remembered of a stream is as good as forgotten.
LEMMA MovedRemembers ==
  ASSUME NEW s \in SndSet, Remembers(s)
  PROVE  Remembers(Moved(s))
<1>1. Steady(s, Moved(s)) /\ Moved(s).mode = s.mode /\ Pending(Moved(s)) = Pending(s)
  BY MovedSteady, SteadyPending DEF Steady
<1>2. CASE s.mode = "bare"
  <2>1. s.window = <<[packet |-> Pending(s), acked |-> FALSE]>>
    BY <1>2 DEF Remembers
  <2>2. Moved(s).window = s.window
    BY <2>1, MovedUnanswered
  <2>3. QED
    BY <1>1, <1>2, <2>1, <2>2 DEF Remembers
<1>3. CASE s.mode # "bare"
  <2>1. s.window = <<>> \/ \E q : s.window = <<[packet |-> q, acked |-> TRUE]>>
    BY <1>3 DEF Remembers
  <2>2. Moved(s).window = <<>>
    BY <2>1, MovedAnswered
  <2>3. QED
    BY <1>1, <1>3, <2>2 DEF Remembers
<1>4. QED
  BY <1>2, <1>3

LEMMA CalledCourse ==
  ASSUME NEW c, c.s \in SndSet, NEW left, NEW s \in Called(c.s, left),
         NEW r, NEW D, NEW U, Course(c.s, r, D, U)
  PROVE  Course(s, r, D, U)
<1>1. s \in {c.s, Moved(c.s)}
  BY DEF Called
<1>2. Course(Moved(c.s), r, D, U)
  BY MovedSteady, MovedRemembers, SteadyCourse
<1>3. QED
  BY <1>1, <1>2

\* What a round of the sender leaves on the two lines.
LEMMA SenderGoesOn ==
  ASSUME NEW r, ~r.skip, NEW s, Behind(s, r), NEW D, NEW U,
         \/ Ended(s)
         \/ Ended(r) /\ Alone(s, r, <<>>, U)
         \/ ~Ended(r) /\ Phase(s, r, D, U)
  PROVE  Course(s, r, Line(r, D), Line(s, U))
<1>1. CASE Ended(s)
  BY <1>1 DEF Course
<1>2. CASE ~Ended(s) /\ Ended(r)
  BY <1>2 DEF Course, Line
<1>3. CASE ~Ended(s) /\ ~Ended(r)
  BY <1>3 DEF Course, Line
<1>4. QED
  BY <1>1, <1>2, <1>3

-----------------------------------------------------------------------------
(* The sender: what is behind it *)

LEMMA SentSteady ==
  ASSUME NEW c, c.s \in SndFields
  PROVE  Steady(c.s, Sent(c).s) /\ Sent(c).out = c.out
BY DEF Steady, Sent, SndFields

\* What goes on from a file that is being sent.
LEMMA NextBehind ==
  ASSUME NEW s \in SndFields, s.state = "SDW", NEW r, Behind(s, r)
  PROVE  LET c == SendNext(s)
         IN /\ Behind(c.s, r) /\ c.s.state \in {"SDW", "SZ"} /\ c.s.seq = s.seq + 1
            /\ c.s.mode = s.mode /\ c.s.file = s.file /\ c.s.window = s.window
<1> DEFINE t == [s EXCEPT !.seq = @ + 1]
           size == Len(Batch[s.file])
           x == [t EXCEPT !.state = "SZ", !.skip = FALSE]
           y == [t EXCEPT !.pos = @ + 1]
           z == [t EXCEPT !.pos = size]
<1>1. /\ t.state = "SDW" /\ t.seq = s.seq + 1 /\ t.mode = s.mode /\ t.file = s.file
      /\ t.window = s.window /\ t.skip = s.skip /\ t \in [DOMAIN s -> {t[i] : i \in DOMAIN s}]
      /\ DOMAIN t = DOMAIN s
  BY DEF SndFields
<1>2. DOMAIN s = {"state", "seq", "mode", "pos", "file", "window", "skip", "timeouts"}
  BY DEF SndFields
<1> HIDE DEF t
<1>3. \A u \in {x, y, z} :
        /\ u.state \in {"SDW", "SZ"} /\ u.seq = s.seq + 1 /\ u.mode = s.mode
        /\ u.file = s.file /\ u.window = s.window /\ ~u.skip
  BY <1>1, <1>2 DEF Behind
<1>4. \E q : SendNext(s) \in {Sends(x, q), Sends(y, q), Sends(z, q)}
  <2> DEFINE g == s.skip \/ s.pos = size
             h == ~s.skip /\ s.pos < size
             seq == t.seq % SeqCount
             q1 == Packet("EOF", seq, IF s.skip THEN "skip" ELSE "", 0)
             q2 == Packet("DATA", seq, "", Batch[s.file][s.pos + 1])
             q3 == Packet("DATA", seq, "", 0)
  <2>1. SendNext(s) = CASE g -> Sends(x, q1) [] h -> Sends(y, q2) [] OTHER -> Sends(z, q3)
    BY Zenon DEF SendNext, t
  <2> HIDE DEF g, h, x, y, z, q1, q2, q3
  <2>2. QED
    BY <2>1
<1> HIDE DEF x, y, z
<1>5. PICK u \in {x, y, z} : \E q : SendNext(s) = Sends(u, q)
  BY <1>4
<1>6. SendNext(s).s = u
  BY <1>5 DEF Sends
<1>7. Behind(u, r)
  BY <1>3 DEF Behind
<1>8. QED
  BY <1>3, <1>6, <1>7

LEMMA HeaderBehind ==
  ASSUME NEW s \in SndFields, NEW r, ~s.skip, s.mode \in {"streaming", "bare"},
         \A f \in Files : f < s.file => f \in r.closed
  PROVE  LET c == SendFileHeader(s)
         IN /\ Behind(c.s, r) /\ c.s.state = "SF" /\ c.s.seq = s.seq /\ c.s.mode = s.mode
            /\ c.s.file = s.file /\ c.s.window = s.window
            /\ c.out = <<Packet("FILE", s.seq % SeqCount, "", s.file)>>
BY DEF SendFileHeader, Sends, Behind, SndFields

LEMMA AbortBehind ==
  ASSUME NEW s \in SndFields, NEW r, Behind(s, r)
  PROVE  LET a == [s EXCEPT !.state = "ABORT"]
         IN Behind(a, r) /\ a.state = "ABORT" /\ SequenceError(s).s = a
            /\ SequenceError(s).out = <<Error(a)>>
BY DEF SequenceError, Sends, Behind, Error, SndFields

\* An ACK of data does not come, one of an EOF comes when the file is closed.
Fits(s, r, left) ==
  left # <<>> /\ left[1].type = "ACK" =>
    s.state # "SDW" /\ (s.state = "SZ" => s.file \in r.closed)

LEMMA ContinuedBehind ==
  ASSUME scenario.streaming, NEW s \in SndSet, s.state # "OFF", NEW r, Behind(s, r),
         NEW p \in PacketSet, Fits(s, r, <<p>>)
  PROVE  LET c == Continued(s, p)
         IN Behind(c.s, r) /\ c.s.state # "OFF"
<1>1. s \in SndFields /\ s.seq \in Nat /\ s.mode \in {"streaming", "bare"} /\ ~s.skip
      /\ \A f \in Files : f < s.file => f \in r.closed
  BY SndFacts DEF SndFields, Behind
<1>2. p.type = "ACK" => s.state # "SDW" /\ (s.state = "SZ" => s.file \in r.closed)
  <2>1. <<p>> # <<>> /\ <<p>>[1] = p
    BY OneOnLine
  <2>2. QED
    BY <2>1 DEF Fits
<1>3. Behind(SequenceError(s).s, r) /\ SequenceError(s).s.state # "OFF"
  BY <1>1, AbortBehind
<1>4. Behind(Waits(s).s, r) /\ Waits(s).s.state # "OFF"
  BY DEF Waits
<1>5. CASE s.state = "S"
  <2>1. Behind(SendInit(s).s, r) /\ SendInit(s).s.state # "OFF"
    BY <1>1 DEF SendInit, Sends, Behind, SndFields
  <2> DEFINE mode == IF p.note = "" THEN "bare" ELSE NegotiatedMode(scenario)
             t == [s EXCEPT !.seq = @ + 1, !.mode = mode]
  <2>2. mode \in {"streaming", "bare"}
    BY DEF NegotiatedMode
  <2> HIDE DEF mode
  <2>3. t \in SndFields /\ ~t.skip /\ t.mode = mode /\ t.file = s.file
    <3>1. s.seq + 1 \in Nat /\ mode \in {"streaming", "opening", "bare", "windows"}
      BY <1>1, <2>2
    <3>2. t.mode = mode /\ t.file = s.file /\ t.skip = s.skip
      BY <1>1 DEF SndFields
    <3>3. t \in SndFields
      BY <1>1, <3>1 DEF SndFields
    <3>4. QED
      BY <1>1, <3>2, <3>3
  <2>4. SendS(s, p) \in {SendInit(s), SendFileHeader(t), SequenceError(s)}
    BY DEF SendS, mode
  <2> HIDE DEF t
  <2>5. Behind(SendFileHeader(t).s, r) /\ SendFileHeader(t).s.state # "OFF"
    BY <1>1, <2>2, <2>3, HeaderBehind
  <2>6. Continued(s, p) = SendS(s, p)
    BY <1>5 DEF Continued
  <2>7. QED
    BY <1>3, <2>1, <2>4, <2>5, <2>6
<1>6. CASE s.state = "SF"
  <2> DEFINE t == [s EXCEPT !.state = "SA", !.seq = @ + 1]
             u == [s EXCEPT !.state = "SDW"]
  <2>1. t.state = "SA" /\ Behind(t, r)
    BY <1>1 DEF Behind, SndFields
  <2>2. u \in SndFields /\ u.state = "SDW" /\ Behind(u, r)
    BY <1>1 DEF Behind, SndFields, States
  <2>3. SendSF(s, p) \in {SequenceError(s), SendNext(u),
                          Sends(t, Plain("ATTRIBUTES", t.seq % SeqCount))}
    BY DEF SendSF
  <2> HIDE DEF t, u
  <2>4. Behind(SendNext(u).s, r) /\ SendNext(u).s.state # "OFF"
    BY <2>2, NextBehind
  <2>5. Continued(s, p) = SendSF(s, p)
    BY <1>6 DEF Continued
  <2>6. QED
    BY <1>3, <2>1, <2>3, <2>4, <2>5 DEF Sends
<1>7. CASE s.state = "SA"
  <2> DEFINE u == [s EXCEPT !.state = "SDW", !.pos = IF p.note = "pos" THEN p.n ELSE @]
  <2>1. u \in SndFields /\ u.state = "SDW" /\ Behind(u, r)
    BY <1>1, PacketFields DEF Behind, SndFields, States
  <2>2. SendSA(s, p) \in {SequenceError(s), SendNext(u)}
    BY DEF SendSA
  <2> HIDE DEF u
  <2>3. Behind(SendNext(u).s, r) /\ SendNext(u).s.state # "OFF"
    BY <2>1, NextBehind
  <2>4. Continued(s, p) = SendSA(s, p)
    BY <1>7 DEF Continued
  <2>5. QED
    BY <1>3, <2>2, <2>3, <2>4
<1>8. CASE s.state = "SDW"
  <2>1. Continued(s, p) = SequenceError(s)
    BY <1>2, <1>8 DEF Continued, SendSDW
  <2>2. QED
    BY <1>3, <2>1
<1>9. CASE s.state = "SZ"
  <2> DEFINE t == [s EXCEPT !.seq = @ + 1, !.file = @ + 1]
             b == [t EXCEPT !.state = "SB"]
  <2>1. CASE p.type # "ACK"
    BY <1>3, <1>9, <2>1 DEF Continued, SendSZ
  <2>2. CASE p.type = "ACK"
    <3>1. s.file \in Files /\ s.file \in r.closed /\ s.file \in Nat
      BY <1>2, <1>9, <2>2, ConstantFacts DEF SndSet
    <3>2. /\ t \in SndFields /\ ~t.skip /\ t.mode \in {"streaming", "bare"}
          /\ t.file = s.file + 1
      <4>1. s.file + 1 \in 1 .. Len(Batch) + 1 /\ s.seq + 1 \in Nat
        BY <1>1, <3>1, ConstantFacts
      <4>2. QED
        BY <1>1, <4>1 DEF SndFields
    <3>3. \A f \in Files : f < t.file => f \in r.closed
      <4> TAKE f \in Files
      <4>1. f \in Nat /\ (f < t.file => f < s.file \/ f = s.file)
        BY <3>1, <3>2, ConstantFacts
      <4>2. QED
        BY <1>1, <3>1, <4>1
    <3>4. Continued(s, p) =
            IF t.file \in Files THEN SendFileHeader(t)
            ELSE Sends(b, Plain("BREAK", t.seq % SeqCount))
      BY <1>1, <1>9, <2>2 DEF Continued, SendSZ, Windowing
    <3> HIDE DEF t
    <3>5. Behind(SendFileHeader(t).s, r) /\ SendFileHeader(t).s.state # "OFF"
      BY <3>2, <3>3, HeaderBehind
    <3>6. b.state = "SB" /\ ~b.skip /\ b.mode = t.mode /\ b.file = t.file
      BY <3>2 DEF SndFields
    <3> HIDE DEF b
    <3>7. CASE t.file \in Files
      BY <3>4, <3>5, <3>7
    <3>8. CASE t.file \notin Files
      <4>1. t.file = Len(Batch) + 1
        BY <3>1, <3>2, <3>8, ConstantFacts DEF SndFields
      <4>2. Behind(b, r)
        BY <3>2, <3>3, <3>6, <4>1 DEF Behind
      <4>3. QED
        BY <3>4, <3>6, <3>8, <4>2 DEF Sends
    <3>9. QED
      BY <3>7, <3>8
  <2>3. QED
    BY <2>1, <2>2
<1>10. CASE s.state = "SB"
  <2> DEFINE t == [s EXCEPT !.state = "COMPLETE"]
  <2>1. t.state = "COMPLETE" /\ Behind(t, r)
    BY <1>1, <1>10 DEF Behind, SndFields
  <2>2. SendSB(s, p) \in {SequenceError(s), Waits(t)}
    BY DEF SendSB
  <2>3. Continued(s, p) = SendSB(s, p)
    BY <1>10 DEF Continued
  <2> HIDE DEF t
  <2>4. QED
    BY <1>3, <2>1, <2>2, <2>3 DEF Waits
<1>11. CASE s.state \notin {"S", "SF", "SA", "SDW", "SZ", "SB"}
  BY <1>4, <1>11 DEF Continued
<1>12. QED
  BY <1>5, <1>6, <1>7, <1>8, <1>9, <1>10, <1>11

LEMMA RestBehind ==
  ASSUME scenario.streaming, NEW s \in SndSet, s.state # "OFF", NEW r, Behind(s, r),
         NEW left \in Seq(PacketSet), Fits(s, r, left)
  PROVE  Behind(Rest(s, left).s, r) /\ Rest(s, left).s.state # "OFF"
<1> DEFINE t == Moved(s)
           c == IF left = <<>> THEN Unasked(t) ELSE Continued(t, left[1])
<1>1. t \in SndSet /\ Steady(s, t)
  BY MovedSteady
<1> HIDE DEF t
<1>2. Behind(t, r) /\ t.state # "OFF"
  BY <1>1, SteadyPending DEF Steady
<1>3. c.s \in SndFields /\ Behind(c.s, r) /\ c.s.state # "OFF"
  <2>1. CASE left = <<>>
    <3>1. Plain("ACK", 0) \in PacketSet
      BY PlainType DEF Types
    <3>2. HandledBy(t, Unasked(t))
      BY <1>1, <3>1, ContinuedHandled
    <3>3. t \in SndFields
      BY <1>1, SndFacts
    <3>4. t.state = "SDW" => Behind(SendNext(t).s, r) /\ SendNext(t).s.state # "OFF"
      BY <1>2, <3>3, NextBehind
    <3>5. Behind(Unasked(t).s, r) /\ Unasked(t).s.state # "OFF"
      BY <1>2, <3>4 DEF Unasked, Waits
    <3>6. QED
      BY <2>1, <3>2, <3>5 DEF HandledBy
  <2>2. CASE left # <<>>
    <3> DEFINE p == left[1]
    <3>1. p \in PacketSet
      BY <2>2
    <3>2. Fits(t, r, <<p>>)
      <4>1. <<p>> # <<>> /\ <<p>>[1] = p
        BY OneOnLine
      <4>2. QED
        BY <1>1, <2>2, <4>1 DEF Fits, Steady
    <3> HIDE DEF p
    <3>3. HandledBy(t, Continued(t, p))
      BY <1>1, <3>1, ContinuedHandled
    <3>4. Behind(Continued(t, p).s, r) /\ Continued(t, p).s.state # "OFF"
      BY <1>1, <1>2, <3>1, <3>2, ContinuedBehind
    <3>5. QED
      BY <2>2, <3>3, <3>4 DEF HandledBy, p
  <2>3. QED
    BY <2>1, <2>2
<1> HIDE DEF c
<1>4. Steady(c.s, Sent(c).s)
  BY <1>3, SentSteady
<1>5. Behind(Sent(c).s, r) /\ Sent(c).s.state # "OFF"
  BY <1>3, <1>4, SteadyPending DEF Steady
<1>6. Rest(s, left) = IF ~HasRoom(t) THEN Waits(t) ELSE Sent(c)
  BY DEF Rest, t, c
<1>7. QED
  BY <1>2, <1>5, <1>6 DEF Waits

LEMMA EntryAnswered ==
  ASSUME NEW a \in Entries
  PROVE  [a EXCEPT !.acked = TRUE] = [packet |-> a.packet, acked |-> TRUE]
<1> DEFINE b == [a EXCEPT !.acked = TRUE]
<1>1. b \in Entries /\ b.packet = a.packet /\ b.acked = TRUE
  BY DEF Entries
<1> HIDE DEF b
<1>2. b = [packet |-> a.packet, acked |-> TRUE]
  BY <1>1 DEF Entries
<1>3. QED
  BY <1>2 DEF b

LEMMA ExaminedAck ==
  ASSUME NEW s \in SndSet, NEW p \in PacketSet, p.type = "ACK"
  PROVE  LET e == Examined(s, p)
         IN /\ e.out = <<>> /\ e.left = <<p>> /\ e.s \in SndSet /\ Steady(s, e.s)
            /\ \A q : p.seq = q.seq /\ s.window = <<[packet |-> q, acked |-> FALSE]>> /\ s.mode = "bare"
                 => e.s.window = <<[packet |-> q, acked |-> TRUE]>>
<1> DEFINE slots == SlotsOf(s, p)
           k == Min(slots)
           m == [s EXCEPT !.window[k].acked = TRUE]
           e == Examined(s, p)
<1>1. s \in SndFields /\ e.s \in SndSet
  BY SndFacts, ExaminedType DEF TurnOf
<1>2. Steady(s, m) /\ Steady(s, s)
  BY <1>1 DEF Steady, SndFields
<1>3. e = [s |-> s, out |-> <<>>, left |-> <<p>>] \/ e = [s |-> m, out |-> <<>>, left |-> <<p>>]
  BY DEF Examined, IsNakOfNext, IsAskedAgain
<1>4. ASSUME NEW q, p.seq = q.seq, s.window = <<[packet |-> q, acked |-> FALSE]>>,
             s.mode = "bare"
      PROVE  e.s.window = <<[packet |-> q, acked |-> TRUE]>>
  <2>1. slots = {1}
    BY <1>4 DEF SlotsOf
  <2>2. k = 1
    <3>1. Min({1}) \in {1}
      BY MinFacts
    <3>2. QED
      BY <2>1, <3>1
  <2>3. ~Streaming(s)
    BY <1>4 DEF Streaming
  <2>4. e = [s |-> m, out |-> <<>>, left |-> <<p>>]
    BY <2>1, <2>3 DEF Examined, IsNakOfNext, IsAskedAgain
  <2> HIDE DEF k
  <2>5. m.window = [s.window EXCEPT ![1].acked = TRUE]
    BY <1>1, <2>2 DEF SndFields
  <2> DEFINE a == [packet |-> q, acked |-> FALSE]
             b == [packet |-> q, acked |-> TRUE]
  <2>6. [a EXCEPT !.acked = TRUE] = b
    <3>1. a \in Entries
      <4>1. s.window[1] \in Entries /\ s.window[1] = a
        BY <1>4, SndFacts
      <4>2. QED
        BY <4>1
    <3>2. a.packet = q
      OBVIOUS
    <3> HIDE DEF a
    <3>3. QED
      BY <3>1, <3>2, EntryAnswered
  <2> HIDE DEF a, b
  <2>7. [<<a>> EXCEPT ![1].acked = TRUE] = <<b>>
    <3>1. <<a>>[1] = a /\ DOMAIN <<a>> = {1} /\ <<b>>[1] = b /\ DOMAIN <<b>> = {1}
      OBVIOUS
    <3>2. [<<a>> EXCEPT ![1].acked = TRUE] = [<<a>> EXCEPT ![1] = b]
      BY <2>6, <3>1
    <3>3. [<<a>> EXCEPT ![1] = b] = <<b>>
      BY <3>1
    <3>4. QED
      BY <3>2, <3>3
  <2>8. m.window = <<b>>
    BY <1>4, <2>5, <2>7 DEF a
  <2> HIDE DEF m
  <2>9. e.s = m
    BY <2>4
  <2>10. QED
    BY <2>8, <2>9 DEF b
<1> HIDE DEF m
<1>5. QED
  BY <1>1, <1>2, <1>3, <1>4

\* What becomes of a NAK: the end of a stream of data, an answer, a repeat, or a packet
\* that the handler does not expect.
LEMMA ExaminedNak ==
  ASSUME NEW s \in SndSet, NEW p \in PacketSet, p.type = "NAK"
  PROVE  LET e == Examined(s, p)
         IN IF Streaming(s) /\ s.state \in {"SDW", "SZ"}
            THEN e = [s |-> [s EXCEPT !.state = "ABORT"], out |-> <<Error(s)>>, left |-> <<>>]
            ELSE IF SlotsOf(s, p) # {}
            THEN e = [s |-> s, out |-> <<s.window[Min(SlotsOf(s, p))].packet>>, left |-> <<>>]
            ELSE IF p.seq = (s.seq + 1) % SeqCount
            THEN e = [s |-> [s EXCEPT !.window = <<>>], out |-> <<>>,
                      left |-> <<Plain("ACK", s.seq % SeqCount)>>]
            ELSE e = [s |-> s, out |-> <<>>, left |-> <<p>>]
<1>1. CASE Streaming(s) /\ s.state \in {"SDW", "SZ"}
  BY <1>1 DEF Examined
<1>2. CASE ~(Streaming(s) /\ s.state \in {"SDW", "SZ"})
  BY <1>2 DEF Examined, IsNakOfNext, IsAskedAgain
<1>3. QED
  BY <1>1, <1>2

\* What the sender takes for an ACK.
IsAck(s, p) == p.type = "ACK" \/ (s.mode # "streaming" /\ p.seq = (s.seq + 1) % SeqCount)

LEMMA AnsweredBehind ==
  ASSUME scenario.streaming, NEW s \in SndSet, s.state # "OFF", NEW r, Behind(s, r),
         NEW p \in PacketSet, p.type \in {"ACK", "NAK"},
         IsAck(s, p) => s.state # "SDW" /\ (s.state = "SZ" => s.file \in r.closed)
  PROVE  Behind(Answered(s, p).s, r) /\ Answered(s, p).s.state # "OFF"
<1> DEFINE e == Examined(s, p)
<1>1. /\ e.s \in SndSet /\ e.left \in Seq(PacketSet)
      /\ Behind(e.s, r) /\ e.s.state # "OFF" /\ Fits(e.s, r, e.left)
  <2>1. e.s \in SndSet /\ e.left \in Seq(PacketSet)
    BY ExaminedType DEF TurnOf
  <2>2. CASE p.type = "ACK"
    <3>1. e.left = <<p>> /\ Steady(s, e.s)
      BY <2>2, ExaminedAck
    <3>2. Behind(e.s, r) /\ e.s.state = s.state /\ e.s.file = s.file
      BY <3>1, SteadyPending DEF Steady
    <3>3. QED
      BY <2>1, <2>2, <3>1, <3>2 DEF Fits, IsAck
  <2>3. CASE p.type = "NAK"
    <3>1. s \in SndFields
      BY SndFacts
    <3>2. CASE Streaming(s) /\ s.state \in {"SDW", "SZ"}
      <4>1. e.s = [s EXCEPT !.state = "ABORT"] /\ e.left = <<>>
        BY <2>3, <3>2, ExaminedNak
      <4>2. QED
        BY <2>1, <3>1, <4>1, AbortBehind DEF Fits
    <3>3. CASE SlotsOf(s, p) # {} /\ ~(Streaming(s) /\ s.state \in {"SDW", "SZ"})
      <4>1. e.s = s /\ e.left = <<>>
        BY <2>3, <3>3, ExaminedNak
      <4>2. QED
        BY <2>1, <4>1 DEF Fits
    <3>4. CASE /\ SlotsOf(s, p) = {} /\ ~(Streaming(s) /\ s.state \in {"SDW", "SZ"})
               /\ p.seq = (s.seq + 1) % SeqCount
      <4> DEFINE w == [s EXCEPT !.window = <<>>]
                 ack == Plain("ACK", s.seq % SeqCount)
      <4>1. e.s = w /\ e.left = <<ack>>
        BY <2>3, <3>4, ExaminedNak
      <4>2. Steady(s, w)
        BY <3>1, WindowSteady
      <4> HIDE DEF w, ack
      <4>3. Behind(w, r) /\ w.state = s.state /\ w.file = s.file
        BY <4>2, SteadyPending DEF Steady
      <4>4. s.state # "SDW" /\ (s.state = "SZ" => s.file \in r.closed)
        <5>1. CASE s.mode = "streaming"
          BY <3>4, <5>1 DEF Streaming
        <5>2. CASE s.mode # "streaming"
          BY <3>4, <5>2 DEF IsAck
        <5>3. QED
          BY <5>1, <5>2
      <4>5. QED
        BY <2>1, <4>1, <4>3, <4>4 DEF Fits
    <3>5. CASE /\ SlotsOf(s, p) = {} /\ ~(Streaming(s) /\ s.state \in {"SDW", "SZ"})
               /\ p.seq # (s.seq + 1) % SeqCount
      <4>1. e.s = s /\ e.left = <<p>>
        BY <2>3, <3>5, ExaminedNak
      <4>2. <<p>>[1] = p
        OBVIOUS
      <4>3. QED
        BY <2>1, <2>3, <4>1, <4>2 DEF Fits
    <3>6. QED
      BY <3>2, <3>3, <3>4, <3>5
  <2>4. QED
    BY <2>2, <2>3
<1> HIDE DEF e
<1>2. Behind(Rest(e.s, e.left).s, r) /\ Rest(e.s, e.left).s.state # "OFF"
  BY <1>1, RestBehind
<1>3. Answered(s, p).s = Rest(e.s, e.left).s
  BY DEF Answered, e
<1>4. QED
  BY <1>2, <1>3

-----------------------------------------------------------------------------
(* The sender's handlers: what they send *)

\* What is sent is remembered until it is answered.
LEMMA SentRemembers ==
  ASSUME NEW c, c.s \in SndFields, c.s.window = <<>>, c.s.mode \in {"streaming", "bare"},
         c.out = <<Pending(c.s)>>
  PROVE  LET t == Sent(c).s
         IN /\ Remembers(t) /\ Steady(c.s, t) /\ Sent(c).out = <<Pending(t)>>
            /\ Pending(t) = Pending(c.s) /\ t.mode = c.s.mode
<1> DEFINE q == Pending(c.s)
           kept == [k \in DOMAIN c.out |-> [packet |-> c.out[k], acked |-> Streaming(c.s)]]
           t == Sent(c).s
<1>1. Steady(c.s, t) /\ Sent(c).out = c.out
  BY SentSteady
<1>2. t.window = c.s.window \o kept
  BY DEF Sent, SndFields
<1>3. Pending(t) = q /\ t.mode = c.s.mode
  BY <1>1, SteadyPending DEF Steady
<1> HIDE DEF t, q
<1>4. kept = <<[packet |-> q, acked |-> Streaming(c.s)]>>
  <2> DEFINE e == [packet |-> q, acked |-> Streaming(c.s)]
  <2>1. c.out = <<q>>
    BY DEF q
  <2>2. DOMAIN c.out = {1} /\ c.out[1] = q
    BY <2>1
  <2>3. kept = [k \in {1} |-> e]
    BY <2>2
  <2> HIDE DEF e, kept
  <2>4. <<e>> = [k \in {1} |-> e]
    OBVIOUS
  <2>5. QED
    BY <2>3, <2>4 DEF e
<1>5. t.window = <<[packet |-> q, acked |-> Streaming(c.s)]>>
  <2> DEFINE e == [packet |-> q, acked |-> Streaming(c.s)]
  <2>1. kept = <<e>>
    BY <1>4
  <2> HIDE DEF kept, e
  <2>2. <<>> \o <<e>> = <<e>>
    BY OneOnLine
  <2>3. QED
    BY <1>2, <2>1, <2>2 DEF e
<1>6. Remembers(t)
  <2>1. CASE c.s.mode = "streaming"
    <3>1. Streaming(c.s) = TRUE
      BY <2>1 DEF Streaming
    <3>2. QED
      BY <1>3, <1>5, <2>1, <3>1 DEF Remembers
  <2>2. CASE c.s.mode = "bare"
    <3>1. Streaming(c.s) = FALSE
      BY <2>2 DEF Streaming
    <3>2. QED
      BY <1>3, <1>5, <2>2, <3>1 DEF Remembers
  <2>3. QED
    BY <2>1, <2>2
<1>7. QED
  BY <1>1, <1>3, <1>6 DEF t, q

LEMMA SentNothing ==
  ASSUME NEW t \in SndSet
  PROVE  LET c == Sent(Waits(t))
         IN c.out = <<>> /\ Steady(t, c.s) /\ c.s.window = t.window
<1> DEFINE c == Waits(t)
           kept == [k \in DOMAIN c.out |-> [packet |-> c.out[k], acked |-> Streaming(c.s)]]
<1>1. c.s = t /\ c.out = <<>>
  BY DEF Waits
<1> HIDE DEF c
<1>2. t \in SndFields /\ t.window \in Seq(Entries)
  BY SndFacts
<1>3. Steady(t, Sent(c).s) /\ Sent(c).out = <<>>
  BY <1>1, <1>2, SentSteady
<1>4. Sent(c).s.window = t.window \o kept
  BY <1>1, <1>2 DEF Sent, SndFields
<1>5. kept = <<>>
  BY <1>1
<1> HIDE DEF kept
<1>6. t.window \o <<>> = t.window
  BY <1>2
<1>7. QED
  BY <1>3, <1>4, <1>5, <1>6 DEF c

\* What send_SD_next_packet() sends.
LEMMA NextSent ==
  ASSUME NEW s \in SndFields, ~s.skip, s.file \in Files
  PROVE  LET c == SendNext(s)
             size == Len(Batch[s.file])
             seq == (s.seq + 1) % SeqCount
         IN /\ c.s.seq = s.seq + 1 /\ c.s.mode = s.mode /\ c.s.file = s.file
            /\ c.s.window = s.window /\ ~c.s.skip
            /\ \/ /\ s.pos = size /\ c.s.state = "SZ" /\ c.s.pos = s.pos
                  /\ c.out = <<Packet("EOF", seq, "", 0)>>
               \/ /\ s.pos < size /\ c.s.state = s.state /\ c.s.pos = s.pos + 1
                  /\ c.out = <<Packet("DATA", seq, "", Batch[s.file][s.pos + 1])>>
               \/ /\ s.pos > size /\ c.s.state = s.state /\ c.s.pos = size
                  /\ c.out = <<Packet("DATA", seq, "", 0)>>
<1> DEFINE t == [s EXCEPT !.seq = @ + 1]
           size == Len(Batch[s.file])
           seq == t.seq % SeqCount
           x == [t EXCEPT !.state = "SZ", !.skip = FALSE]
           y == [t EXCEPT !.pos = @ + 1]
           z == [t EXCEPT !.pos = size]
           q1 == Packet("EOF", seq, "", 0)
           q2 == Packet("DATA", seq, "", Batch[s.file][s.pos + 1])
           q3 == Packet("DATA", seq, "", 0)
           c == SendNext(s)
           g == s.pos = size
           h == s.pos < size
<1>1. /\ t.state = s.state /\ t.seq = s.seq + 1 /\ t.mode = s.mode /\ t.file = s.file
      /\ t.window = s.window /\ t.skip = s.skip /\ t.pos = s.pos
      /\ DOMAIN t = {"state", "seq", "mode", "pos", "file", "window", "skip", "timeouts"}
  BY DEF SndFields
<1>2. s.pos \in Nat /\ size \in Nat
  BY ConstantFacts DEF SndFields
<1>3. c = CASE g -> Sends(x, q1) [] h -> Sends(y, q2) [] OTHER -> Sends(z, q3)
  <2> DEFINE note == IF s.skip THEN "skip" ELSE ""
             g0 == s.skip \/ s.pos = size
             h0 == ~s.skip /\ s.pos < size
             q0 == Packet("EOF", seq, note, 0)
  <2>1. c = CASE g0 -> Sends(x, q0) [] h0 -> Sends(y, q2) [] OTHER -> Sends(z, q3)
    BY Zenon DEF SendNext
  <2>2. g0 = g /\ h0 = h /\ q0 = q1
    OBVIOUS
  <2> HIDE DEF c, g, h, g0, h0, q0, q1, q2, q3, x, y, z
  <2>3. QED
    BY <2>1, <2>2
<1> HIDE DEF c, t
<1>4. \A u \in {x, y, z} :
        /\ u.seq = s.seq + 1 /\ u.mode = s.mode /\ u.file = s.file /\ u.window = s.window
        /\ ~u.skip
  BY <1>1
<1>5. x.state = "SZ" /\ x.pos = s.pos
  BY <1>1
<1>6. y.state = s.state /\ y.pos = s.pos + 1
  BY <1>1
<1>7. z.state = s.state /\ z.pos = size
  BY <1>1
<1>8. seq = (s.seq + 1) % SeqCount
  BY <1>1
<1>9. CASE s.pos = size
  <2>1. g /\ ~h
    BY <1>2, <1>9
  <2> HIDE DEF g, h, x, y, z, q1, q2, q3
  <2>2. c = Sends(x, q1)
    BY <1>3, <2>1
  <2>3. c.s = x /\ c.out = <<q1>>
    BY <2>2 DEF Sends
  <2>4. q1 = Packet("EOF", (s.seq + 1) % SeqCount, "", 0)
    BY <1>8 DEF q1
  <2>5. x \in {x, y, z}
    OBVIOUS
  <2>6. /\ c.s.seq = s.seq + 1 /\ c.s.mode = s.mode /\ c.s.file = s.file
        /\ c.s.window = s.window /\ ~c.s.skip
    BY <1>4, <2>3, <2>5
  <2>7. QED
    BY <1>5, <1>9, <2>3, <2>4, <2>6 DEF c
<1>10. CASE s.pos < size
  <2>1. h /\ ~g
    BY <1>2, <1>10
  <2> HIDE DEF g, h, x, y, z, q1, q2, q3
  <2>2. c = Sends(y, q2)
    BY <1>3, <2>1
  <2>3. c.s = y /\ c.out = <<q2>>
    BY <2>2 DEF Sends
  <2>4. q2 = Packet("DATA", (s.seq + 1) % SeqCount, "", Batch[s.file][s.pos + 1])
    BY <1>8 DEF q2
  <2>5. y \in {x, y, z}
    OBVIOUS
  <2>6. /\ c.s.seq = s.seq + 1 /\ c.s.mode = s.mode /\ c.s.file = s.file
        /\ c.s.window = s.window /\ ~c.s.skip
    BY <1>4, <2>3, <2>5
  <2>7. QED
    BY <1>6, <1>10, <2>3, <2>4, <2>6 DEF c
<1>11. CASE s.pos > size
  <2>1. ~h /\ ~g
    BY <1>2, <1>11
  <2> HIDE DEF g, h, x, y, z, q1, q2, q3
  <2>2. c = Sends(z, q3)
    BY <1>3, <2>1
  <2>3. c.s = z /\ c.out = <<q3>>
    BY <2>2 DEF Sends
  <2>4. q3 = Packet("DATA", (s.seq + 1) % SeqCount, "", 0)
    BY <1>8 DEF q3
  <2>5. z \in {x, y, z}
    OBVIOUS
  <2>6. /\ c.s.seq = s.seq + 1 /\ c.s.mode = s.mode /\ c.s.file = s.file
        /\ c.s.window = s.window /\ ~c.s.skip
    BY <1>4, <2>3, <2>5
  <2>7. QED
    BY <1>7, <1>11, <2>3, <2>4, <2>6 DEF c
<1>12. s.pos = size \/ s.pos < size \/ s.pos > size
  BY <1>2
<1>13. QED
  BY Zenon, <1>9, <1>10, <1>11, <1>12

LEMMA RestAnswer ==
  ASSUME NEW s, HasRoom(Moved(s)), NEW p
  PROVE  Rest(s, <<p>>) = Sent(Continued(Moved(s), p))
<1>1. <<p>> # <<>> /\ <<p>>[1] = p
  BY OneOnLine
<1>2. QED
  BY <1>1 DEF Rest

\* What the handlers send when they have got an ACK.
LEMMA InitAcked ==
  ASSUME scenario.streaming, NEW t \in SndFields, t.state = "S", t.seq = 0,
         NEW p, p.type = "ACK"
  PROVE  LET c == Continued(t, p)
         IN /\ c.s.state = "SF" /\ c.s.seq = 1 /\ c.s.file = t.file /\ c.s.window = t.window
            /\ c.s.mode = (IF p.note = "" THEN "bare" ELSE "streaming")
            /\ c.out = <<Pending(c.s)>>
<1> DEFINE mode == IF p.note = "" THEN "bare" ELSE "streaming"
           u == [t EXCEPT !.seq = @ + 1, !.mode = mode]
           c == SendFileHeader(u)
<1>1. Continued(t, p) = c
  <2>1. Continued(t, p) = SendS(t, p)
    BY DEF Continued
  <2>2. NegotiatedMode(scenario) = "streaming"
    BY DEF NegotiatedMode
  <2>3. QED
    BY <2>1, <2>2 DEF SendS
<1>2. mode \in {"bare", "streaming"}
  OBVIOUS
<1> HIDE DEF mode
<1>3. u \in SndFields /\ u.seq = 1 /\ u.mode = mode /\ u.file = t.file /\ u.window = t.window
  <2>1. u = [t EXCEPT !.seq = 1, !.mode = mode]
    <3>1. t.seq + 1 = 1
      OBVIOUS
    <3>2. QED
      BY <3>1
  <2>2. mode \in {"streaming", "opening", "bare", "windows"}
    BY <1>2
  <2> HIDE DEF u
  <2>3. u \in SndFields
    BY <2>1, <2>2 DEF SndFields
  <2>4. u.seq = 1 /\ u.mode = mode /\ u.file = t.file /\ u.window = t.window
    BY <2>1, <2>2 DEF SndFields
  <2>5. QED
    BY <2>3, <2>4
<1> HIDE DEF u
<1>4. /\ c.s.state = "SF" /\ c.s.seq = 1 /\ c.s.file = t.file /\ c.s.window = t.window
      /\ c.s.mode = mode /\ c.out = <<Packet("FILE", u.seq % SeqCount, "", u.file)>>
  BY <1>3 DEF SendFileHeader, Sends, SndFields
<1> HIDE DEF c
<1>5. Pending(c.s) = Packet("FILE", c.s.seq % SeqCount, "", c.s.file)
  BY <1>4 DEF Pending
<1>6. c.out = <<Pending(c.s)>>
  BY <1>3, <1>4, <1>5
<1>7. QED
  BY <1>1, <1>4, <1>6 DEF mode

LEMMA FileAcked ==
  ASSUME NEW t \in SndFields, t.state = "SF", t.mode = "streaming", NEW p, p.type = "ACK"
  PROVE  LET c == Continued(t, p)
         IN /\ c.s.state = "SA" /\ c.s.seq = t.seq + 1 /\ c.s.file = t.file
            /\ c.s.window = t.window /\ c.s.mode = t.mode /\ c.s.pos = t.pos
            /\ c.out = <<Pending(c.s)>>
<1> DEFINE u == [t EXCEPT !.state = "SA", !.seq = @ + 1]
           c == Sends(u, Plain("ATTRIBUTES", u.seq % SeqCount))
<1>1. Continued(t, p) = c
  BY DEF Continued, SendSF
<1>2. /\ u.state = "SA" /\ u.seq = t.seq + 1 /\ u.file = t.file /\ u.window = t.window
      /\ u.mode = t.mode /\ u.pos = t.pos
  BY DEF SndFields
<1> HIDE DEF u
<1>3. c.s = u /\ c.out = <<Plain("ATTRIBUTES", u.seq % SeqCount)>>
  BY DEF Sends
<1>4. Pending(u) = Plain("ATTRIBUTES", u.seq % SeqCount)
  BY <1>2 DEF Pending
<1> HIDE DEF c
<1>5. QED
  BY <1>1, <1>2, <1>3, <1>4

LEMMA FileAckedBare ==
  ASSUME NEW t \in SndFields, t.state = "SF", t.mode = "bare", t.file = 1, t.pos = 0,
         ~t.skip, NEW p, p.type = "ACK"
  PROVE  LET c == Continued(t, p)
         IN /\ c.s.state \in {"SDW", "SZ"} /\ InStep(c.s) /\ c.s.seq = t.seq + 1
            /\ c.s.file = t.file /\ c.s.window = t.window /\ c.s.mode = t.mode
            /\ c.out = <<Pending(c.s)>>
<1> DEFINE u == [t EXCEPT !.state = "SDW"]
           c == SendNext(u)
           size == Len(Batch[1])
<1>1. Continued(t, p) = c
  BY DEF Continued, SendSF
<1>2. /\ u \in SndFields /\ u.state = "SDW" /\ u.seq = t.seq /\ u.file = 1
      /\ u.window = t.window /\ u.mode = "bare" /\ u.pos = 0 /\ ~u.skip
  BY DEF SndFields, States
<1> HIDE DEF u
<1>3. 1 \in Files /\ size \in Nat /\ Batch[1] \in Seq(Nat \ {0})
  BY ConstantFacts
<1>4. /\ c.s.seq = t.seq + 1 /\ c.s.mode = "bare" /\ c.s.file = 1 /\ c.s.window = t.window
      /\ \/ /\ 0 = size /\ c.s.state = "SZ"
            /\ c.out = <<Packet("EOF", (t.seq + 1) % SeqCount, "", 0)>>
         \/ /\ 0 < size /\ c.s.state = "SDW"
            /\ c.out = <<Packet("DATA", (t.seq + 1) % SeqCount, "", Batch[1][1])>>
  <2>1. 0 + 1 = 1 /\ ~(0 > size)
    BY <1>3
  <2>2. /\ c.s.seq = u.seq + 1 /\ c.s.mode = u.mode /\ c.s.file = u.file /\ c.s.window = u.window
        /\ \/ /\ u.pos = Len(Batch[u.file]) /\ c.s.state = "SZ"
              /\ c.out = <<Packet("EOF", (u.seq + 1) % SeqCount, "", 0)>>
           \/ /\ u.pos < Len(Batch[u.file]) /\ c.s.state = u.state
              /\ c.out = <<Packet("DATA", (u.seq + 1) % SeqCount, "", Batch[u.file][u.pos + 1])>>
           \/ u.pos > Len(Batch[u.file])
    BY <1>2, <1>3, NextSent
  <2> HIDE DEF c
  <2>3. QED
    BY <1>2, <2>1, <2>2
<1> HIDE DEF c
<1>5. CASE size = 0
  <2>1. Batch[1] = <<>>
    BY <1>3, <1>5
  <2>2. c.s.state = "SZ" /\ c.out = <<Packet("EOF", (t.seq + 1) % SeqCount, "", 0)>>
    <3>1. ~(0 < size)
      BY <1>5
    <3>2. QED
      BY Zenon, <1>4, <3>1
  <2>3. Pending(c.s) = Packet("EOF", (t.seq + 1) % SeqCount, "", 0) /\ InStep(c.s)
    BY <1>4, <2>1, <2>2 DEF Pending, InStep
  <2>4. QED
    BY <1>1, <1>4, <2>2, <2>3
<1>6. CASE size # 0
  <2>1. Batch[1] # <<>>
    BY <1>3, <1>6
  <2>2. c.s.state = "SDW" /\ c.out = <<Packet("DATA", (t.seq + 1) % SeqCount, "", Batch[1][1])>>
    BY <1>4, <1>6
  <2>3. /\ Pending(c.s) = Packet("DATA", (t.seq + 1) % SeqCount, "", Batch[1][1])
        /\ InStep(c.s)
    BY <1>4, <2>1, <2>2 DEF Pending, InStep
  <2>4. QED
    BY <1>1, <1>4, <2>2, <2>3
<1>7. QED
  BY <1>5, <1>6

LEMMA AttributesAcked ==
  ASSUME NEW t \in SndSet, t.state = "SA", ~t.skip, NEW p \in PacketSet, p.type = "ACK",
         p.note = "pos"
  PROVE  LET c == Continued(t, p)
             size == Len(Batch[t.file])
             seq == (t.seq + 1) % SeqCount
         IN /\ c.s.seq = t.seq + 1 /\ c.s.mode = t.mode /\ c.s.file = t.file
            /\ c.s.window = t.window /\ ~c.s.skip
            /\ \/ /\ p.n = size /\ c.s.state = "SZ" /\ c.s.pos = p.n
                  /\ c.out = <<Packet("EOF", seq, "", 0)>>
               \/ /\ p.n < size /\ c.s.state = "SDW" /\ c.s.pos = p.n + 1
                  /\ c.out = <<Packet("DATA", seq, "", Batch[t.file][p.n + 1])>>
               \/ /\ p.n > size /\ c.s.state = "SDW" /\ c.s.pos = size
                  /\ c.out = <<Packet("DATA", seq, "", 0)>>
<1> DEFINE u == [t EXCEPT !.state = "SDW", !.pos = IF p.note = "pos" THEN p.n ELSE @]
           v == [t EXCEPT !.state = "SDW", !.pos = p.n]
           n == p.n
<1>1. Continued(t, p) = SendNext(v)
  <2>1. Continued(t, p) = SendNext(u)
    BY DEF Continued, SendSA
  <2>2. u = v
    OBVIOUS
  <2> HIDE DEF u, v
  <2>3. QED
    BY <2>1, <2>2
<1>2. n \in Nat /\ t \in SndFields /\ t.file \in Files
  BY PacketFields, SndFacts DEF SndSet
<1> HIDE DEF n
<1>3. v = [t EXCEPT !.state = "SDW", !.pos = n]
  BY DEF n
<1> HIDE DEF v
<1>4. /\ v \in SndFields /\ v.state = "SDW" /\ v.pos = n /\ v.seq = t.seq /\ v.mode = t.mode
      /\ v.file = t.file /\ v.window = t.window /\ ~v.skip
  BY <1>2, <1>3 DEF SndFields, States
<1> DEFINE c == SendNext(v)
<1>5. /\ c.s.seq = v.seq + 1 /\ c.s.mode = v.mode /\ c.s.file = v.file
      /\ c.s.window = v.window /\ ~c.s.skip
      /\ \/ /\ v.pos = Len(Batch[v.file]) /\ c.s.state = "SZ" /\ c.s.pos = v.pos
            /\ c.out = <<Packet("EOF", (v.seq + 1) % SeqCount, "", 0)>>
         \/ /\ v.pos < Len(Batch[v.file]) /\ c.s.state = v.state /\ c.s.pos = v.pos + 1
            /\ c.out = <<Packet("DATA", (v.seq + 1) % SeqCount, "", Batch[v.file][v.pos + 1])>>
         \/ /\ v.pos > Len(Batch[v.file]) /\ c.s.state = v.state /\ c.s.pos = Len(Batch[v.file])
            /\ c.out = <<Packet("DATA", (v.seq + 1) % SeqCount, "", 0)>>
  BY <1>2, <1>4, NextSent
<1> HIDE DEF c
<1>6. QED
  BY Zenon, <1>1, <1>4, <1>5 DEF c, n

LEMMA EofAcked ==
  ASSUME NEW t \in SndFields, t.state = "SZ", t.mode = "streaming", t.file \in Files,
         NEW p, p.type = "ACK"
  PROVE  LET c == Continued(t, p)
         IN /\ c.s.state \in {"SF", "SB"} /\ c.s.seq = t.seq + 1 /\ c.s.file = t.file + 1
            /\ c.s.window = t.window /\ c.s.mode = t.mode
            /\ c.out = <<Pending(c.s)>>
<1> DEFINE u == [t EXCEPT !.seq = @ + 1, !.file = @ + 1]
           a == SendFileHeader(u)
           b == Sends([u EXCEPT !.state = "SB"], Plain("BREAK", u.seq % SeqCount))
<1>1. Continued(t, p) = IF u.file \in Files THEN a ELSE b
  BY DEF Continued, SendSZ, Windowing
<1>2. /\ u.seq = t.seq + 1 /\ u.file = t.file + 1 /\ u.window = t.window /\ u.mode = t.mode
      /\ DOMAIN u = {"state", "seq", "mode", "pos", "file", "window", "skip", "timeouts"}
  BY DEF SndFields
<1> HIDE DEF u
<1>3. /\ a.s.state = "SF" /\ a.s.seq = u.seq /\ a.s.file = u.file /\ a.s.window = u.window
      /\ a.s.mode = u.mode /\ a.out = <<Packet("FILE", u.seq % SeqCount, "", u.file)>>
  BY <1>2 DEF SendFileHeader, Sends
<1>4. /\ b.s.state = "SB" /\ b.s.seq = u.seq /\ b.s.file = u.file /\ b.s.window = u.window
      /\ b.s.mode = u.mode /\ b.out = <<Plain("BREAK", u.seq % SeqCount)>>
  BY <1>2 DEF Sends
<1> HIDE DEF a, b
<1>5. Pending(a.s) = Packet("FILE", u.seq % SeqCount, "", u.file)
  BY <1>3 DEF Pending
<1>6. Pending(b.s) = Plain("BREAK", u.seq % SeqCount)
  BY <1>4 DEF Pending
<1>7. \A c \in {a, b} :
        /\ c.s.state \in {"SF", "SB"} /\ c.s.seq = t.seq + 1 /\ c.s.file = t.file + 1
        /\ c.s.window = t.window /\ c.s.mode = t.mode
        /\ c.out = <<Pending(c.s)>>
  BY <1>2, <1>3, <1>4, <1>5, <1>6
<1> DEFINE d == Continued(t, p)
<1>8. d \in {a, b}
  BY <1>1
<1> HIDE DEF d
<1>9. QED
  BY <1>7, <1>8 DEF d

\* A NAK that is for nothing in the window is an error, but before the first answer.
LEMMA NakRefused ==
  ASSUME NEW t, NEW p, p.type = "NAK", t.state \in {"SF", "SA", "SB"}
  PROVE  Continued(t, p) = SequenceError(t)
BY DEF Continued, SendSF, SendSA, SendSB

LEMMA NakOfInit ==
  ASSUME NEW t \in SndFields, NEW p, p.type = "NAK", t.state = "S"
  PROVE  LET c == Continued(t, p)
         IN /\ c.s.state = "S" /\ c.s.seq = 0 /\ c.s.file = t.file /\ c.s.window = t.window
            /\ c.s.mode = t.mode /\ c.out = <<Pending(c.s)>>
<1> DEFINE c == SendInit(t)
<1>1. Continued(t, p) = c
  BY DEF Continued, SendS
<1>2. /\ c.s.state = "S" /\ c.s.seq = 0 /\ c.s.file = t.file /\ c.s.window = t.window
      /\ c.s.mode = t.mode /\ c.out = <<Plain("SINIT", 0)>>
  BY DEF SendInit, Sends, SndFields
<1> HIDE DEF c
<1>3. Pending(c.s) = Plain("SINIT", 0)
  BY <1>2 DEF Pending
<1>4. QED
  BY <1>1, <1>2, <1>3

-----------------------------------------------------------------------------
(* One round of the sender *)

\* Without a packet it does nothing, but when data are sent.
LEMMA RestQuiet ==
  ASSUME NEW s \in SndSet, ~(s.state = "SDW" /\ s.mode # "bare")
  PROVE  LET c == Rest(s, <<>>)
         IN /\ c.out = <<>> /\ Steady(s, c.s) /\ c.s.window = Moved(s).window
            /\ Remembers(s) => Remembers(c.s)
<1> DEFINE t == Moved(s)
           c == Rest(s, <<>>)
<1>1. t \in SndSet /\ Steady(s, t) /\ t.state = s.state /\ t.mode = s.mode
  BY MovedSteady DEF Steady
<1> HIDE DEF t
<1>2. Unasked(t) = Waits(t)
  BY <1>1 DEF Unasked
<1>3. c = Waits(t) \/ c = Sent(Waits(t))
  BY <1>2 DEF Rest, t
<1> HIDE DEF c
<1>4. c.out = <<>> /\ Steady(t, c.s) /\ c.s.window = t.window
  <2>1. CASE c = Waits(t)
    BY <2>1 DEF Waits, Steady
  <2>2. CASE c = Sent(Waits(t))
    BY <1>1, <2>2, SentNothing
  <2>3. QED
    BY <1>3, <2>1, <2>2
<1>5. Steady(s, c.s)
  BY <1>1, <1>4 DEF Steady
<1>6. Remembers(s) => Remembers(c.s)
  <2>1. SUFFICES ASSUME Remembers(s) PROVE Remembers(c.s)
    OBVIOUS
  <2>2. Remembers(t)
    BY <2>1, MovedRemembers DEF t
  <2>3. Pending(c.s) = Pending(t) /\ c.s.mode = t.mode
    BY <1>4, SteadyPending DEF Steady
  <2>4. QED
    BY <1>4, <2>2, <2>3 DEF Remembers
<1>7. QED
  BY <1>4, <1>5, <1>6 DEF c, t

\* An ACK of what is in the window is for the handler.
LEMMA AnsweredAck ==
  ASSUME NEW s \in SndSet, NEW p \in PacketSet, p.type = "ACK",
         \/ s.mode = "streaming"
         \/ s.mode = "bare" /\ Remembers(s) /\ p.seq = Pending(s).seq
  PROVE  \E t \in SndSet :
           /\ Steady(s, t) /\ t.window = <<>>
           /\ Answered(s, p).s = Sent(Continued(t, p)).s
           /\ Answered(s, p).out = Continued(t, p).out
           /\ HandledBy(t, Continued(t, p))
<1> DEFINE e == Examined(s, p)
           t == Moved(e.s)
           c == Continued(t, p)
<1>1. /\ e.out = <<>> /\ e.left = <<p>> /\ e.s \in SndSet /\ Steady(s, e.s)
      /\ \A q : p.seq = q.seq /\ s.window = <<[packet |-> q, acked |-> FALSE]>> /\ s.mode = "bare"
           => e.s.window = <<[packet |-> q, acked |-> TRUE]>>
  BY ExaminedAck
<1>2. Answered(s, p) = [s |-> Rest(e.s, e.left).s, out |-> e.out \o Rest(e.s, e.left).out]
  BY DEF Answered
<1> HIDE DEF e
<1>3. t \in SndSet /\ Steady(e.s, t)
  BY <1>1, MovedSteady
<1>4. t.window = <<>> /\ HasRoom(t)
  <2>1. CASE s.mode = "streaming"
    <3>1. Streaming(e.s)
      BY <1>1, <2>1 DEF Steady, Streaming
    <3>2. QED
      BY <1>1, <3>1, MovedSteady
  <2>2. CASE s.mode = "bare" /\ Remembers(s) /\ p.seq = Pending(s).seq
    <3>1. s.window = <<[packet |-> Pending(s), acked |-> FALSE]>>
      BY <2>2 DEF Remembers
    <3>2. e.s.window = <<[packet |-> Pending(s), acked |-> TRUE]>>
      BY <1>1, <2>2, <3>1
    <3>3. QED
      BY <1>1, <3>2, MovedAnswered
  <2>3. QED
    BY <2>1, <2>2
<1>5. Rest(e.s, <<p>>) = Sent(c)
  BY <1>4, RestAnswer
<1> HIDE DEF t
<1>6. HandledBy(t, c)
  BY <1>3, ContinuedHandled
<1> HIDE DEF c
<1>7. c.s \in SndFields /\ c.out \in Seq(PacketSet)
  BY <1>6 DEF HandledBy
<1>8. Sent(c).out = c.out /\ <<>> \o c.out = c.out
  BY <1>7, SentSteady, BehindNothing
<1>9. Answered(s, p).s = Sent(c).s /\ Answered(s, p).out = c.out
  BY <1>1, <1>2, <1>5, <1>8
<1>10. Steady(s, t)
  BY <1>1, <1>3 DEF Steady
<1>11. QED
  BY <1>3, <1>4, <1>6, <1>9, <1>10 DEF c

\* What is in the window is what has been sent last.
LEMMA SlotsRemembered ==
  ASSUME NEW s \in SndSet, Remembers(s), NEW p
  PROVE  /\ SlotsOf(s, p) # {} => /\ s.window[Min(SlotsOf(s, p))].packet = Pending(s)
                                  /\ p.seq = Pending(s).seq
         /\ s.mode = "bare" /\ p.seq = Pending(s).seq => SlotsOf(s, p) # {}
<1> DEFINE q == Pending(s)
           slots == SlotsOf(s, p)
<1>1. s.window = <<>> \/ \E b : s.window = <<[packet |-> q, acked |-> b]>>
  BY DEF Remembers
<1>2. CASE s.window = <<>>
  <2>1. slots = {}
    BY <1>2 DEF SlotsOf
  <2>2. s.mode # "bare"
    <3>1. ASSUME NEW b PROVE <<>> # <<b>>
      OBVIOUS
    <3>2. QED
      BY <1>2, <3>1 DEF Remembers
  <2>3. QED
    BY <2>1, <2>2
<1>3. ASSUME NEW b, s.window = <<[packet |-> q, acked |-> b]>>
      PROVE  /\ slots # {} => s.window[Min(slots)].packet = q /\ p.seq = q.seq
             /\ p.seq = q.seq => slots # {}
  <2> DEFINE e == [packet |-> q, acked |-> b]
  <2>1. e.packet = q
    OBVIOUS
  <2> HIDE DEF e, q
  <2>2. DOMAIN <<e>> = {1} /\ <<e>>[1] = e
    OBVIOUS
  <2>3. DOMAIN s.window = {1} /\ s.window[1].packet = q
    BY <1>3, <2>1, <2>2 DEF e
  <2>4. slots = IF p.seq = q.seq THEN {1} ELSE {}
    BY <2>3 DEF SlotsOf
  <2>5. Min({1}) = 1
    <3>1. Min({1}) \in {1}
      BY MinFacts
    <3>2. QED
      BY <3>1
  <2>6. CASE p.seq = q.seq
    BY <2>3, <2>4, <2>5, <2>6
  <2>7. CASE p.seq # q.seq
    BY <2>4, <2>7
  <2>8. QED
    BY <2>6, <2>7
<1>4. QED
  BY <1>1, <1>2, <1>3

\* A NAK is answered with what was asked for, if it is remembered.
LEMMA AnsweredNak ==
  ASSUME NEW s \in SndSet, Remembers(s), NEW p \in PacketSet, p.type = "NAK",
         p.seq # (s.seq + 1) % SeqCount,
         \/ s.mode = "streaming" /\ s.state \in {"S", "SF", "SA", "SB"}
         \/ s.mode = "bare" /\ s.state \in {"SF", "SDW", "SZ"}
  PROVE  LET c == Answered(s, p)
         IN \/ Steady(s, c.s) /\ Remembers(c.s) /\ c.out \in {<<>>, <<Pending(s)>>}
            \/ s.state # "S" /\ c.s.state = "ABORT"
            \/ /\ s.state = "S" /\ c.s.state = "S" /\ c.s.seq = 0 /\ c.s.file = s.file
               /\ c.s.mode = s.mode /\ Remembers(c.s) /\ c.out = <<Plain("SINIT", 0)>>
<1> DEFINE e == Examined(s, p)
           c == Answered(s, p)
           x == Rest(s, <<>>)
           y == Rest(s, <<p>>)
<1>1. ~(Streaming(s) /\ s.state \in {"SDW", "SZ"})
  BY DEF Streaming
<1>2. c = [s |-> Rest(e.s, e.left).s, out |-> e.out \o Rest(e.s, e.left).out]
  BY DEF Answered
<1>3. CASE SlotsOf(s, p) # {}
  <2>1. e = [s |-> s, out |-> <<Pending(s)>>, left |-> <<>>]
    BY <1>1, <1>3, ExaminedNak, SlotsRemembered
  <2>2. x.out = <<>> /\ Steady(s, x.s) /\ Remembers(x.s)
    BY RestQuiet
  <2> DEFINE q == Pending(s)
  <2> HIDE DEF x, e, q
  <2>3. c = [s |-> x.s, out |-> <<q>> \o <<>>]
    BY <1>2, <2>1, <2>2 DEF x, q
  <2>4. <<q>> \o <<>> = <<q>>
    BY OneOnLine
  <2>5. c.s = x.s /\ c.out = <<q>>
    BY <2>3, <2>4
  <2> HIDE DEF c
  <2>6. Steady(s, c.s) /\ Remembers(c.s) /\ c.out \in {<<>>, <<Pending(s)>>}
    BY <2>2, <2>5 DEF q
  <2>7. QED
    BY <2>6 DEF c
<1>4. CASE SlotsOf(s, p) = {}
  <2> DEFINE t == Moved(s)
  <2>1. e = [s |-> s, out |-> <<>>, left |-> <<p>>]
    BY <1>1, <1>4, ExaminedNak
  <2>2. y.out \in Seq(PacketSet)
    <3>1. <<p>> \in Seq(PacketSet)
      OBVIOUS
    <3>2. QED
      BY <3>1, RestTurn DEF TurnOf
  <2> HIDE DEF e, y
  <2>3. c.s = y.s /\ c.out = y.out
    <3>1. c = [s |-> y.s, out |-> <<>> \o y.out]
      BY <1>2, <2>1 DEF y
    <3>2. <<>> \o y.out = y.out
      BY <2>2, BehindNothing
    <3>3. QED
      BY <3>1, <3>2
  <2>4. t \in SndSet /\ Steady(s, t) /\ Remembers(t)
    BY MovedSteady, MovedRemembers
  <2>5. CASE s.mode = "bare"
    <3>1. s.window = <<[packet |-> Pending(s), acked |-> FALSE]>>
      BY <2>5 DEF Remembers
    <3>2. ~HasRoom(t)
      BY <2>5, <3>1, MovedUnanswered
    <3>3. y = Waits(t)
      BY <3>2 DEF Rest, y
    <3>4. c.s = t /\ c.out = <<>>
      BY <2>3, <3>3 DEF Waits
    <3> HIDE DEF c, t
    <3>5. Steady(s, c.s) /\ Remembers(c.s) /\ c.out \in {<<>>, <<Pending(s)>>}
      BY <2>4, <3>4
    <3>6. QED
      BY <3>5 DEF c
  <2>6. CASE s.mode = "streaming"
    <3>1. t.window = <<>> /\ HasRoom(t) /\ t \in SndFields
      BY <2>6, MovedSteady, SndFacts DEF Streaming
    <3>2. y = Sent(Continued(t, p))
      BY <3>1, RestAnswer DEF y
    <3>3. t.state = s.state /\ t.mode = s.mode /\ t.file = s.file
      BY <2>4 DEF Steady
    <3> HIDE DEF t
    <3>4. CASE s.state = "S"
      <4> DEFINE d == Continued(t, p)
      <4>1. /\ d.s.state = "S" /\ d.s.seq = 0 /\ d.s.file = t.file /\ d.s.window = t.window
            /\ d.s.mode = t.mode /\ d.out = <<Pending(d.s)>>
        BY <3>1, <3>3, <3>4, NakOfInit
      <4>2. d.s \in SndFields
        BY <2>4, ContinuedHandled DEF HandledBy
      <4> HIDE DEF d
      <4>3. /\ Remembers(Sent(d).s) /\ Steady(d.s, Sent(d).s)
            /\ Sent(d).out = <<Pending(Sent(d).s)>> /\ Pending(Sent(d).s) = Pending(d.s)
        BY <2>6, <3>1, <3>3, <4>1, <4>2, SentRemembers
      <4>4. Pending(d.s) = Plain("SINIT", 0)
        BY <4>1 DEF Pending
      <4>5. c.s = Sent(d).s /\ c.out = Sent(d).out
        BY <2>3, <3>2 DEF d
      <4> HIDE DEF c
      <4>6. /\ c.s.state = "S" /\ c.s.seq = 0 /\ c.s.file = s.file /\ c.s.mode = s.mode
            /\ Remembers(c.s) /\ c.out = <<Plain("SINIT", 0)>>
        BY <3>3, <4>1, <4>3, <4>4, <4>5 DEF Steady
      <4>7. QED
        BY <3>4, <4>6 DEF c
    <3>5. CASE s.state # "S"
      <4> DEFINE d == SequenceError(t)
      <4>1. Continued(t, p) = d
        BY <2>6, <3>3, <3>5, NakRefused
      <4>2. d.s \in SndFields
        BY <2>4, <4>1, ContinuedHandled DEF HandledBy
      <4>3. d.s.state = "ABORT"
        BY <3>1 DEF SequenceError, Sends, SndFields
      <4> HIDE DEF d
      <4>4. Sent(d).s.state = "ABORT"
        BY <4>2, <4>3, SentSteady DEF Steady
      <4>5. c.s.state = "ABORT"
        BY <2>3, <3>2, <4>1, <4>4
      <4>6. QED
        BY <3>5, <4>5
    <3>6. QED
      BY <3>4, <3>5
  <2>7. QED
    BY <2>5, <2>6
<1>5. QED
  BY <1>3, <1>4

\* A NAK of the packet after the Send-Init is as good as an empty ACK.
LEMMA AnsweredNakNext ==
  ASSUME scenario.streaming, NEW s \in SndSet, Remembers(s), s.state = "S", s.seq = 0,
         s.mode = "streaming", NEW p \in PacketSet, p.type = "NAK", p.seq = 1
  PROVE  LET c == Answered(s, p)
         IN /\ c.s.state = "SF" /\ c.s.seq = 1 /\ c.s.file = s.file /\ c.s.mode = "bare"
            /\ Remembers(c.s) /\ c.out = <<Pending(c.s)>>
<1> DEFINE e == Examined(s, p)
           c == Answered(s, p)
           w == [s EXCEPT !.window = <<>>]
           ack == Plain("ACK", s.seq % SeqCount)
           t == Moved(w)
           d == Continued(t, ack)
<1>1. Pending(s).seq = 0
  BY DEF Pending, Plain, Packet
<1>2. SlotsOf(s, p) = {}
  BY <1>1, SlotsRemembered
<1>3. p.seq = (s.seq + 1) % SeqCount
  BY SmallNumber, ConstantFacts, KermitAssumption DEF KermitAssumption
<1>4. e = [s |-> w, out |-> <<>>, left |-> <<ack>>]
  BY <1>2, <1>3, ExaminedNak DEF Streaming
<1>5. w \in SndSet /\ Steady(s, w)
  <2>1. s \in SndFields
    BY SndFacts
  <2>2. w \in SndSet
    BY <1>4, ExaminedType DEF TurnOf
  <2>3. QED
    BY <2>1, <2>2, WindowSteady
<1>6. c = [s |-> Rest(e.s, e.left).s, out |-> e.out \o Rest(e.s, e.left).out]
  BY DEF Answered
<1>7. ack \in PacketSet /\ ack.type = "ACK" /\ ack.note = ""
  <2>1. s.seq \in Nat
    BY SndFacts DEF SndFields
  <2>2. ack \in PacketSet
    BY <2>1, SeqType, PlainType DEF Types
  <2>3. ack.type = "ACK" /\ ack.note = ""
    BY DEF Plain, Packet
  <2> HIDE DEF ack
  <2>4. QED
    BY <2>2, <2>3
<1> HIDE DEF w, ack, e
<1>8. /\ t \in SndSet /\ Steady(w, t) /\ t.window = <<>> /\ HasRoom(t)
  BY <1>5, MovedSteady DEF Streaming, Steady
<1>9. Rest(w, <<ack>>) = Sent(d)
  BY <1>8, RestAnswer
<1> HIDE DEF t
<1>10. t.state = "S" /\ t.seq = 0 /\ t.file = s.file
  BY <1>5, <1>8 DEF Steady
<1>11. /\ d.s.state = "SF" /\ d.s.seq = 1 /\ d.s.file = t.file /\ d.s.window = t.window
       /\ d.s.mode = (IF ack.note = "" THEN "bare" ELSE "streaming") /\ d.out = <<Pending(d.s)>>
  BY <1>7, <1>8, <1>10, InitAcked, SndFacts
<1>12. d.s \in SndFields
  BY <1>7, <1>8, ContinuedHandled DEF HandledBy
<1> HIDE DEF d
<1>13. /\ Remembers(Sent(d).s) /\ Steady(d.s, Sent(d).s)
       /\ Sent(d).out = <<Pending(Sent(d).s)>>
  BY <1>7, <1>8, <1>11, <1>12, SentRemembers
<1> DEFINE f == Sent(d)
<1> HIDE DEF f
<1>14. c.s = f.s /\ c.out = f.out
  <2> DEFINE q == Pending(f.s)
  <2>1. f.out = <<q>>
    BY <1>13 DEF f
  <2> HIDE DEF q
  <2>2. <<>> \o <<q>> = <<q>>
    BY OneOnLine
  <2>3. c = [s |-> f.s, out |-> <<>> \o f.out]
    BY <1>4, <1>6, <1>9 DEF f
  <2>4. QED
    BY <2>1, <2>2, <2>3
<1> HIDE DEF c
<1>15. c.out = <<Pending(c.s)>> /\ Remembers(c.s) /\ Steady(d.s, c.s)
  BY <1>13, <1>14 DEF f
<1>16. QED
  BY <1>7, <1>10, <1>11, <1>15 DEF Steady, c

-----------------------------------------------------------------------------
(* The sender reads *)

LEMMA SingleAnswer ==
  ASSUME NEW D, NEW U, U # <<>>, NEW p, NEW A, Single(D, U, p, A)
  PROVE  \E a \in A : D = <<>> /\ U = <<a>> /\ Head(U) = a /\ Tail(U) = <<>>
<1>1. PICK a \in A : D = <<>> /\ U = <<a>>
  BY DEF Single
<1>2. QED
  BY <1>1, OneOnLine

LEMMA OneSent ==
  ASSUME NEW p
  PROVE  <<>> \o <<p>> = <<p>> /\ <<>> \o <<>> = <<>>
BY OneOnLine, NoneOnLine

LEMMA OpeningAnswered ==
  ASSUME scenario.streaming, NEW s \in SndSet, NEW r, NEW D, NEW U \in Seq(PacketSet),
         U # <<>>, Opening(s, r, D, U)
  PROVE  LET c == Answered(s, Head(U))
         IN Opening(c.s, r, D \o c.out, Tail(U)) \/ Asked(c.s, r, D \o c.out, Tail(U))
<1> DEFINE p == Head(U)
           c == Answered(s, p)
           init == Plain("SINIT", 0)
           Naks == {Plain("NAK", 0), Plain("NAK", 1)}
<1>1. /\ s.state = "S" /\ s.seq = 0 /\ s.file = 1 /\ s.mode = "streaming" /\ Remembers(s)
      /\ r.state \in {"R", "RF"}
      /\ r.state = "R" => p = Plain("NAK", 0)
      /\ p \in {Greeting} \cup Naks
      /\ D = <<>> /\ Tail(U) = <<>>
  <2> HIDE DEF init
  <2>1. ASSUME NEW A, Single(D, U, init, A)
        PROVE  p \in A /\ D = <<>> /\ Tail(U) = <<>>
    <3>1. \E a \in A : D = <<>> /\ U = <<a>> /\ Head(U) = a /\ Tail(U) = <<>>
      BY Zenon, <2>1, SingleAnswer
    <3>2. QED
      BY <3>1
  <2>2. Single(D, U, init, {Plain("NAK", 0)}) =>
          p = Plain("NAK", 0) /\ D = <<>> /\ Tail(U) = <<>>
    BY <2>1
  <2>3. Single(D, U, init, {Greeting, Plain("NAK", 0), Plain("NAK", 1)}) =>
          p \in {Greeting} \cup Naks /\ D = <<>> /\ Tail(U) = <<>>
    BY <2>1
  <2>4. /\ s.state = "S" /\ s.seq = 0 /\ s.file = 1 /\ s.mode = "streaming" /\ Remembers(s)
        /\ \/ r.state = "OFF" /\ Single(D, U, init, {})
           \/ r.state = "R" /\ Single(D, U, init, {Plain("NAK", 0)})
           \/ r.state = "RF" /\ Single(D, U, init, {Greeting, Plain("NAK", 0), Plain("NAK", 1)})
    BY DEF Opening, init
  <2>6. ~Single(D, U, init, {})
    BY <2>1
  <2> HIDE DEF p
  <2>5. QED
    BY <2>2, <2>3, <2>4, <2>6
<1>2. p \in PacketSet
  BY TailFacts
<1>3. Pending(s) = init
  BY <1>1 DEF Pending
<1> HIDE DEF p, init
<1>4. CASE p = Plain("NAK", 0)
  <2>1. p.type = "NAK" /\ p.seq = 0 /\ 0 # 1
    <3>1. Plain("NAK", 0).type = "NAK" /\ Plain("NAK", 0).seq = 0
      BY DEF Plain, Packet
    <3>2. QED
      BY <1>4, <3>1
  <2>2. (s.seq + 1) % SeqCount = 1
    BY <1>1, SmallNumber, ConstantFacts, KermitAssumption DEF KermitAssumption
  <2>3. \/ Steady(s, c.s) /\ Remembers(c.s) /\ c.out \in {<<>>, <<Pending(s)>>}
        \/ /\ s.state = "S" /\ c.s.state = "S" /\ c.s.seq = 0 /\ c.s.file = s.file
           /\ c.s.mode = s.mode /\ Remembers(c.s) /\ c.out = <<Plain("SINIT", 0)>>
    BY <1>1, <1>2, <2>1, <2>2, AnsweredNak
  <2> HIDE DEF c
  <2>4. /\ c.s.state = "S" /\ c.s.seq = 0 /\ c.s.file = 1 /\ c.s.mode = "streaming"
        /\ Remembers(c.s) /\ c.out \in {<<>>, <<init>>}
    BY <1>1, <1>3, <2>3 DEF Steady, init
  <2>5. D \o c.out = c.out
    BY <1>1, <2>4, OneSent
  <2>6. \A A : Single(c.out, <<>>, init, A)
    BY <2>4 DEF Single
  <2>7. Opening(c.s, r, c.out, <<>>)
    <3>1. \/ r.state = "R" /\ Fresh(r)
          \/ /\ r.state = "RF" /\ Has(r, 0) /\ Cell(r).type # "DATA" /\ r.seq = 0
             /\ r.last = <<Greeting>> /\ ~r.open
      BY <1>1 DEF Opening
    <3>2. QED
      BY <2>4, <2>6, <3>1 DEF Opening, init
  <2>8. QED
    BY <1>1, <2>5, <2>7 DEF c, p
<1>5. ASSUME r.state = "RF", c.s.state = "SF", c.s.seq = 1, c.s.file = 1,
             c.s.mode \in {"streaming", "bare"}, Remembers(c.s), c.out = <<Pending(c.s)>>
      PROVE  Asked(c.s, r, D \o c.out, Tail(U))
  <2> DEFINE q == Pending(c.s)
  <2>1. D \o c.out = <<q>>
    BY <1>1, <1>5, OneSent
  <2> HIDE DEF c
  <2>2. InStep(c.s)
    BY <1>5 DEF InStep
  <2>3. /\ Has(r, 0) /\ Cell(r).type # "DATA" /\ r.seq = 0 /\ r.last = <<Greeting>> /\ ~r.open
    BY <1>5 DEF Opening
  <2>4. (c.s.seq - 1) % SeqCount = 0
    BY <1>5, SmallNumber, ConstantFacts
  <2>5. r.last # <<>> /\ r.last[1].seq = Cell(r).seq
    <3>1. Greeting.seq = 0 /\ Cell(r).seq = 0
      BY <2>3 DEF Greeting, Packet, Has
    <3> DEFINE g == Greeting
    <3> HIDE DEF g
    <3>2. r.last = <<g>> /\ g.seq = 0
      BY <2>3, <3>1 DEF g
    <3>3. r.last # <<>> /\ r.last[1] = g
      BY <3>2, OneOnLine
    <3>4. QED
      BY <3>1, <3>2, <3>3
  <2>6. Single(<<q>>, <<>>, q, NaksBut((c.s.seq + 1) % SeqCount))
    BY DEF Single
  <2>7. Asked(c.s, r, <<q>>, <<>>)
    BY <1>5, <2>2, <2>3, <2>4, <2>5, <2>6 DEF Asked
  <2>8. QED
    BY <1>1, <2>1, <2>7 DEF c
<1>6. CASE p = Plain("NAK", 1)
  <2>1. p.type = "NAK" /\ p.seq = 1 /\ p # Plain("NAK", 0)
    <3>1. /\ Plain("NAK", 1).type = "NAK" /\ Plain("NAK", 1).seq = 1
          /\ Plain("NAK", 0).seq = 0
      BY DEF Plain, Packet
    <3>2. QED
      BY <1>6, <3>1
  <2>2. r.state = "RF"
    BY <1>1, <2>1
  <2>3. /\ c.s.state = "SF" /\ c.s.seq = 1 /\ c.s.file = s.file /\ c.s.mode = "bare"
        /\ Remembers(c.s) /\ c.out = <<Pending(c.s)>>
    BY <1>1, <1>2, <2>1, AnsweredNakNext
  <2> HIDE DEF c
  <2>4. Asked(c.s, r, D \o c.out, Tail(U))
    BY <1>1, <1>5, <2>2, <2>3
  <2>5. QED
    BY <2>4 DEF c, p
<1>7. CASE p = Greeting
  <2>1. p.type = "ACK" /\ p.note = "init" /\ p # Plain("NAK", 0)
    BY <1>7 DEF Plain, Packet, Greeting
  <2>2. r.state = "RF"
    BY <1>1, <2>1
  <2>3. PICK t \in SndSet :
           /\ Steady(s, t) /\ t.window = <<>>
           /\ c.s = Sent(Continued(t, p)).s
           /\ c.out = Continued(t, p).out
           /\ HandledBy(t, Continued(t, p))
    BY <1>1, <1>2, <2>1, AnsweredAck
  <2> DEFINE d == Continued(t, p)
  <2>4. t.state = "S" /\ t.seq = 0 /\ t.file = 1
    BY <1>1, <2>3 DEF Steady
  <2>5. /\ d.s.state = "SF" /\ d.s.seq = 1 /\ d.s.file = t.file /\ d.s.window = t.window
        /\ d.s.mode = (IF p.note = "" THEN "bare" ELSE "streaming")
        /\ d.out = <<Pending(d.s)>>
    BY <2>1, <2>4, InitAcked, SndFacts
  <2>6. d.s \in SndFields
    BY <2>3 DEF HandledBy
  <2>7. c.s = Sent(d).s /\ c.out = d.out
    BY <2>3
  <2> HIDE DEF d, c
  <2>8. d.s.mode = "streaming"
    BY <2>1, <2>5
  <2>9. /\ Remembers(Sent(d).s) /\ Steady(d.s, Sent(d).s)
        /\ Pending(Sent(d).s) = Pending(d.s)
    BY <2>3, <2>5, <2>6, <2>8, SentRemembers
  <2>10. /\ c.s.state = "SF" /\ c.s.seq = 1 /\ c.s.file = 1 /\ c.s.mode = "streaming"
         /\ Remembers(c.s) /\ c.out = <<Pending(c.s)>>
    BY <2>4, <2>5, <2>7, <2>8, <2>9 DEF Steady
  <2>11. Asked(c.s, r, D \o c.out, Tail(U))
    BY <1>5, <2>2, <2>10
  <2>12. QED
    BY <2>11 DEF c, p
<1>8. QED
  BY <1>1, <1>4, <1>6, <1>7

LEMMA AskedAnswered ==
  ASSUME NEW s \in SndSet, NEW r, NEW D, NEW U \in Seq(PacketSet),
         U # <<>>, Asked(s, r, D, U)
  PROVE  LET c == Answered(s, Head(U))
         IN c.s.state = "ABORT" \/ Asked(c.s, r, D \o c.out, Tail(U))
<1> DEFINE p == Head(U)
           c == Answered(s, p)
           A == NaksBut((s.seq + 1) % SeqCount)
           q == Pending(s)
<1>1. p \in A /\ D = <<>> /\ Tail(U) = <<>>
  BY SingleAnswer DEF Asked
<1>2. p \in PacketSet /\ p.type = "NAK" /\ p.seq # (s.seq + 1) % SeqCount
  BY <1>1, TailFacts DEF NaksBut
<1>3. /\ Remembers(s) /\ s.state # "S"
      /\ \/ s.mode = "streaming" /\ s.state \in {"S", "SF", "SA", "SB"}
         \/ s.mode = "bare" /\ s.state \in {"SF", "SDW", "SZ"}
  BY DEF Asked, InStep
<1> HIDE DEF p
<1>4. \/ Steady(s, c.s) /\ Remembers(c.s) /\ c.out \in {<<>>, <<Pending(s)>>}
      \/ c.s.state = "ABORT"
  BY <1>2, <1>3, AnsweredNak
<1> HIDE DEF c
<1>5. CASE Steady(s, c.s) /\ Remembers(c.s) /\ c.out \in {<<>>, <<q>>}
  <2>1. D \o c.out = c.out
    BY <1>1, <1>5, OneSent
  <2>2. Pending(c.s) = q /\ (InStep(c.s) <=> InStep(s))
    BY <1>5, SteadyPending
  <2>3. Single(c.out, <<>>, q, A)
    BY <1>5 DEF Single
  <2> HIDE DEF q
  <2>4. Asked(c.s, r, c.out, <<>>)
    BY <1>5, <2>2, <2>3 DEF Asked, Steady
  <2>5. QED
    BY <1>1, <2>1, <2>4 DEF c, p
<1>6. QED
  BY <1>4, <1>5 DEF c, p

\* What has been asked for next.
LEMMA AskedNext ==
  ASSUME NEW s, s.seq \in Nat, NEW u, InStep(u), Remembers(u), u.seq = s.seq + 1, NEW r,
         Has(r, s.seq % SeqCount), Cell(r).type # "DATA", ~r.open, r.seq >= 1, r.seq \in Nat,
         IF u.state \in {"SF", "SB"}
         THEN r.state = "RF" /\ r.last # <<>> /\ r.last[1].seq = Cell(r).seq
         ELSE r.state = "RDW" /\ r.file = u.file
  PROVE  Asked(u, r, <<Pending(u)>>, <<>>)
<1> DEFINE q == Pending(u)
<1>1. u.seq >= 1 /\ u.seq - 1 = s.seq
  OBVIOUS
<1>2. (u.seq - 1) % SeqCount = s.seq % SeqCount
  BY <1>1
<1>3. Single(<<q>>, <<>>, q, NaksBut((u.seq + 1) % SeqCount))
  BY DEF Single
<1>4. r.seq # 0
  OBVIOUS
<1> HIDE DEF q
<1>5. Asked(u, r, <<q>>, <<>>)
  BY <1>1, <1>2, <1>3, <1>4 DEF Asked, q
<1>6. QED
  BY <1>5 DEF q

LEMMA GotAnswered ==
  ASSUME NEW s \in SndSet, NEW r \in RcvSet, NEW D, NEW U \in Seq(PacketSet),
         U # <<>>, Got(s, r, D, U), Behind(s, r)
  PROVE  LET c == Answered(s, Head(U))
         IN Asked(c.s, r, D \o c.out, Tail(U)) \/ Flowing(c.s, r, D \o c.out, Tail(U))
<1> DEFINE p == Head(U)
           c == Answered(s, p)
           name == Packet("ACK", s.seq % SeqCount, "name", s.file)
           Position(n) == Packet("ACK", s.seq % SeqCount, "pos", n)
<1>1. /\ InStep(s) /\ s.seq >= 1 /\ s.seq \in Nat /\ Remembers(s)
      /\ Has(r, s.seq % SeqCount) /\ (r.open <=> s.state = "SA")
      /\ r.state = "RDW" /\ r.file = s.file /\ r.seq >= 1 /\ r.seq \in Nat
      /\ s.state # "SDW" => Cell(r).type # "DATA"
      /\ D = <<>>
  BY SndFacts DEF Got, SndFields, RcvSet, RcvFields
<1>2. Tail(U) = <<>> /\ p \in PacketSet
  <2>1. \E a : U = <<a>>
    BY DEF Got
  <2>2. QED
    BY <2>1, OneOnLine, TailFacts
<1>3. \/ s.state = "SF" /\ p = name
      \/ s.state = "SA" /\ \E n \in Nat : p = Position(n)
  <2>1. CASE s.state = "SF" /\ U = <<name>>
    <3> HIDE DEF name
    <3>1. Head(<<name>>) = name
      BY OneOnLine
    <3>2. QED
      BY <2>1, <3>1
  <2>2. ASSUME NEW n \in Nat, s.state = "SA", U = <<Position(n)>> PROVE p = Position(n)
    <3> DEFINE q == Position(n)
    <3> HIDE DEF q
    <3>1. Head(<<q>>) = q
      BY OneOnLine
    <3>2. U = <<q>>
      BY <2>2 DEF q
    <3>3. p = q
      BY <3>1, <3>2
    <3>4. QED
      BY <3>3 DEF q
  <2>3. QED
    BY <2>1, <2>2 DEF Got
<1>4. p.type = "ACK" /\ p.seq = s.seq % SeqCount /\ (s.state = "SA" => p.note = "pos")
  <2>1. name.type = "ACK" /\ name.seq = s.seq % SeqCount
    BY DEF Packet
  <2>2. \A n : LET q == Position(n)
               IN q.type = "ACK" /\ q.seq = s.seq % SeqCount /\ q.note = "pos"
    BY DEF Packet
  <2> HIDE DEF name, Position, p
  <2>3. CASE s.state = "SF" /\ p = name
    BY <2>1, <2>3
  <2>4. CASE s.state = "SA" /\ \E n \in Nat : p = Position(n)
    BY <2>2, <2>4
  <2>5. QED
    BY <1>3, <2>3, <2>4
<1> HIDE DEF p
<1>5. s.mode = "streaming" \/ (s.mode = "bare" /\ Remembers(s) /\ p.seq = Pending(s).seq)
  BY <1>1, <1>4, PendingFields DEF InStep
<1>6. PICK t \in SndSet :
         /\ Steady(s, t) /\ t.window = <<>>
         /\ c.s = Sent(Continued(t, p)).s
         /\ c.out = Continued(t, p).out
         /\ HandledBy(t, Continued(t, p))
  BY <1>2, <1>4, <1>5, AnsweredAck
<1> DEFINE d == Continued(t, p)
           u == Sent(d).s
<1>7. c.s = u /\ c.out = d.out /\ d.s \in SndFields /\ t \in SndFields
  BY <1>6, SndFacts DEF HandledBy
<1>8. /\ t.state = s.state /\ t.seq = s.seq /\ t.mode = s.mode /\ t.pos = s.pos
      /\ t.file = s.file /\ t.skip = s.skip
  BY <1>6 DEF Steady
<1>9. CASE s.state = "SF"
  <2>1. /\ InStep(d.s) /\ d.s.seq = t.seq + 1 /\ d.s.file = t.file /\ d.s.window = t.window
        /\ d.s.mode = t.mode /\ d.s.state \notin {"SF", "SB"} /\ d.out = <<Pending(d.s)>>
    <3>1. CASE s.mode = "streaming"
      BY <1>4, <1>7, <1>8, <1>9, <3>1, FileAcked DEF InStep
    <3>2. CASE s.mode = "bare"
      <4>1. t.file = 1 /\ t.pos = 0 /\ ~t.skip
        BY <1>1, <1>8, <1>9, <3>2 DEF InStep, Behind
      <4>2. QED
        BY <1>4, <1>7, <1>8, <1>9, <3>2, <4>1, FileAckedBare
    <3>3. QED
      BY <1>1, <3>1, <3>2 DEF InStep
  <2>2. d.s.mode \in {"streaming", "bare"}
    BY <1>8, <2>1 DEF Behind
  <2> HIDE DEF d
  <2>3. /\ Remembers(u) /\ Steady(d.s, u) /\ Pending(u) = Pending(d.s)
    BY <1>6, <1>7, <2>1, <2>2, SentRemembers
  <2> HIDE DEF u
  <2>4. /\ InStep(u) /\ u.seq = s.seq + 1 /\ u.file = s.file /\ u.state \notin {"SF", "SB"}
    BY <1>8, <2>1, <2>3, SteadyPending DEF Steady
  <2>5. Asked(u, r, <<Pending(u)>>, <<>>)
    BY <1>1, <1>9, <2>3, <2>4, AskedNext
  <2> DEFINE q == Pending(u)
  <2> HIDE DEF q, c
  <2>6. D \o c.out = <<q>>
    <3>1. c.out = <<q>>
      BY <1>7, <2>1, <2>3 DEF q
    <3>2. QED
      BY <1>1, <3>1, OneSent
  <2>7. Asked(c.s, r, D \o c.out, Tail(U))
    BY <1>2, <1>7, <2>5, <2>6 DEF q
  <2>8. QED
    BY <2>7 DEF c, p
<1>10. CASE s.state = "SA"
  <2>1. t.state = "SA" /\ ~t.skip /\ t.mode = "streaming" /\ s.mode = "streaming"
    BY <1>1, <1>8, <1>10 DEF Behind, InStep
  <2> DEFINE size == Len(Batch[t.file])
             seq == (t.seq + 1) % SeqCount
  <2>2. /\ d.s.seq = t.seq + 1 /\ d.s.mode = t.mode /\ d.s.file = t.file
        /\ \/ d.s.state = "SZ" /\ d.out = <<Packet("EOF", seq, "", 0)>>
           \/ \E n : d.s.state = "SDW" /\ d.out = <<Packet("DATA", seq, "", n)>>
    BY <1>2, <1>4, <1>10, <2>1, AttributesAcked
  <2> HIDE DEF d
  <2>3. Steady(d.s, u)
    BY <1>7, SentSteady
  <2> HIDE DEF u
  <2>4. PICK q, n : /\ d.out = <<q>>
                    /\ \/ d.s.state = "SZ" /\ q = Packet("EOF", seq, "", 0)
                       \/ d.s.state = "SDW" /\ q = Packet("DATA", seq, "", n)
    BY <2>2
  <2>5. /\ u.mode = "streaming" /\ u.state \in {"SDW", "SZ"} /\ u.seq = s.seq + 1
        /\ u.file = s.file /\ u.state = d.s.state /\ u.seq >= 1
    <3>1. d.s.state \in {"SDW", "SZ"}
      BY <2>2
    <3>2. d.s.seq = s.seq + 1 /\ d.s.mode = "streaming" /\ d.s.file = s.file
      BY <1>8, <2>1, <2>2
    <3>3. s.seq + 1 >= 1
      BY <1>1
    <3>4. QED
      BY <2>3, <3>1, <3>2, <3>3 DEF Steady
  <2>6. seq < SeqCount /\ seq = u.seq % SeqCount
    <3>1. seq = (s.seq + 1) % SeqCount
      BY <1>8
    <3>2. SeqCount \in Nat /\ (s.seq + 1) % SeqCount \in 0 .. SeqCount - 1
      <4>1. s.seq + 1 \in Int
        BY <1>1
      <4>2. QED
        BY <4>1, NumberFacts
    <3>3. u.seq = s.seq + 1
      BY <2>5
    <3> HIDE DEF seq
    <3>4. seq < SeqCount
      BY <3>1, <3>2
    <3>5. QED
      BY <3>1, <3>3, <3>4
  <2> HIDE DEF seq
  <2>7. q.seq = seq /\ (q.type = "DATA" \/ (d.s.state = "SZ" /\ q = Packet("EOF", seq, "", 0)))
    <3> DEFINE eof == Packet("EOF", seq, "", 0)
               data == Packet("DATA", seq, "", n)
    <3>1. eof.seq = seq /\ data.seq = seq /\ data.type = "DATA"
      BY DEF Packet
    <3>2. (d.s.state = "SZ" /\ q = eof) \/ q = data
      BY <2>4
    <3> HIDE DEF eof, data
    <3>5. q.seq = seq /\ (q.type = "DATA" \/ (d.s.state = "SZ" /\ q = eof))
      BY <3>1, <3>2
    <3>6. QED
      BY <3>5 DEF eof
  <2>8. r.count = 1 /\ Cell(r).seq < SeqCount /\ r.open
    <3>1. r.count = 1 /\ Cell(r).seq = s.seq % SeqCount /\ r.open
      BY <1>1, <1>10 DEF Has
    <3>2. s.seq % SeqCount \in 0 .. SeqCount - 1 /\ SeqCount \in Nat
      <4>1. s.seq \in Int
        BY <1>1
      <4>2. QED
        BY <4>1, NumberFacts
    <3>3. QED
      BY <3>1, <3>2
  <2> HIDE DEF seq
  <2>9. \A i \in DOMAIN <<q>> :
          /\ <<q>>[i].seq < SeqCount
          /\ \/ <<q>>[i].type = "DATA"
             \/ /\ i = Len(<<q>>) /\ u.state = "SZ"
                /\ <<q>>[i] = Packet("EOF", u.seq % SeqCount, "", 0)
    <3> DEFINE eof == Packet("EOF", u.seq % SeqCount, "", 0)
    <3>1. DOMAIN <<q>> = {1} /\ <<q>>[1] = q /\ Len(<<q>>) = 1
      BY OneOnLine
    <3>2. q.seq < SeqCount /\ (q.type = "DATA" \/ (u.state = "SZ" /\ q = eof))
      BY <2>5, <2>6, <2>7
    <3> HIDE DEF eof
    <3>3. \A i \in DOMAIN <<q>> :
            /\ <<q>>[i].seq < SeqCount
            /\ \/ <<q>>[i].type = "DATA"
               \/ i = Len(<<q>>) /\ u.state = "SZ" /\ <<q>>[i] = eof
      BY <3>1, <3>2
    <3>4. QED
      BY <3>3 DEF eof
  <2> DEFINE V == <<q>>
  <2> HIDE DEF V
  <2>10. Flowing(u, r, V, <<>>)
    <3>1. \A i \in DOMAIN <<>> : <<>>[i].type = "NAK"
      OBVIOUS
    <3>2. \A i \in DOMAIN V :
            /\ V[i].seq < SeqCount
            /\ \/ V[i].type = "DATA"
               \/ /\ i = Len(V) /\ u.state = "SZ" /\ V[i] = Packet("EOF", u.seq % SeqCount, "", 0)
      BY <2>9 DEF V
    <3>3. QED
      BY <1>1, <2>5, <2>8, <3>1, <3>2 DEF Flowing
  <2>11. D \o c.out = V
    BY <1>1, <1>7, <2>4, OneSent DEF V
  <2> HIDE DEF c
  <2>12. Flowing(c.s, r, D \o c.out, Tail(U))
    BY <1>2, <1>7, <2>10, <2>11
  <2>13. QED
    BY <2>12 DEF c, p
<1>11. QED
  BY <1>3, <1>9, <1>10

\* A NAK ends a stream of data.
LEMMA DataAnswered ==
  ASSUME NEW s \in SndSet, s.mode = "streaming", s.state \in {"SDW", "SZ"},
         NEW p \in PacketSet, p.type = "NAK"
  PROVE  Answered(s, p).s.state = "ABORT"
<1> DEFINE e == Examined(s, p)
           a == [s EXCEPT !.state = "ABORT"]
           x == Rest(a, <<>>)
<1>1. e = [s |-> a, out |-> <<Error(s)>>, left |-> <<>>]
  BY ExaminedNak DEF Streaming
<1>2. a \in SndSet
  BY <1>1, ExaminedType DEF TurnOf
<1>3. a.state = "ABORT"
  BY SndFacts DEF SndFields
<1>4. Answered(s, p) = [s |-> Rest(e.s, e.left).s, out |-> e.out \o Rest(e.s, e.left).out]
  BY DEF Answered
<1>5. Answered(s, p).s = x.s
  <2> HIDE DEF a
  <2>1. e.s = a /\ e.left = <<>>
    BY <1>1
  <2> HIDE DEF e
  <2>2. QED
    BY <1>4, <2>1
<1> HIDE DEF a
<1>6. Steady(a, x.s)
  BY <1>2, <1>3, RestQuiet
<1>7. QED
  BY <1>3, <1>5, <1>6 DEF Steady

LEMMA ShutAnswered ==
  ASSUME NEW s \in SndSet, NEW r \in RcvSet, NEW D, NEW U \in Seq(PacketSet),
         U # <<>>, Shut(s, r, D, U)
  PROVE  LET c == Answered(s, Head(U))
         IN c.s.state = "ABORT" \/ Asked(c.s, r, D \o c.out, Tail(U))
<1> DEFINE p == Head(U)
           c == Answered(s, p)
<1>1. /\ s.mode = "streaming" /\ s.state = "SZ" /\ s.seq >= 1 /\ s.seq \in Nat
      /\ r.state = "RF" /\ ~r.open /\ Has(r, s.seq % SeqCount) /\ Cell(r).type # "DATA"
      /\ r.seq >= 1 /\ r.seq \in Nat /\ r.last # <<>> /\ r.last[1].seq = Cell(r).seq
      /\ D = <<>> /\ s.file \in Files
  BY SndFacts DEF Shut, SndFields, SndSet, RcvSet, RcvFields
<1>2. p \in PacketSet /\ (p.type = "NAK" \/ (Len(U) = 1 /\ p.type = "ACK"))
  <2>1. /\ p = U[1] /\ p \in PacketSet /\ Len(U) \in Nat /\ Len(U) >= 1
        /\ DOMAIN U = 1 .. Len(U)
    BY TailFacts
  <2>2. \A i \in DOMAIN U : U[i].type = "NAK" \/ (i = Len(U) /\ U[i].type = "ACK")
    BY DEF Shut
  <2> HIDE DEF p
  <2>3. 1 \in DOMAIN U
    BY <2>1
  <2>4. QED
    BY <2>1, <2>2, <2>3
<1>3. CASE p.type = "NAK"
  BY <1>1, <1>2, <1>3, DataAnswered
<1>4. CASE Len(U) = 1 /\ p.type = "ACK"
  <2>1. Tail(U) = <<>>
    BY <1>4, TailFacts, NoLength
  <2> HIDE DEF p
  <2>2. PICK t \in SndSet :
         /\ Steady(s, t) /\ t.window = <<>>
         /\ c.s = Sent(Continued(t, p)).s
         /\ c.out = Continued(t, p).out
         /\ HandledBy(t, Continued(t, p))
    BY <1>1, <1>2, <1>4, AnsweredAck
  <2> DEFINE d == Continued(t, p)
             u == Sent(d).s
  <2>3. c.s = u /\ c.out = d.out /\ d.s \in SndFields /\ t \in SndFields
    BY <2>2, SndFacts DEF HandledBy
  <2>4. t.state = s.state /\ t.seq = s.seq /\ t.mode = s.mode /\ t.file = s.file
    BY <2>2 DEF Steady
  <2>5. /\ d.s.state \in {"SF", "SB"} /\ d.s.seq = t.seq + 1 /\ d.s.window = t.window
        /\ d.s.mode = t.mode /\ d.out = <<Pending(d.s)>>
    BY <1>1, <1>4, <2>3, <2>4, EofAcked
  <2> HIDE DEF d
  <2>6. /\ Remembers(u) /\ Steady(d.s, u) /\ Pending(u) = Pending(d.s)
    BY <1>1, <2>2, <2>3, <2>4, <2>5, SentRemembers
  <2> HIDE DEF u
  <2>7. InStep(u) /\ u.seq = s.seq + 1 /\ u.state \in {"SF", "SB"}
    BY <1>1, <2>4, <2>5, <2>6 DEF Steady, InStep
  <2>8. Asked(u, r, <<Pending(u)>>, <<>>)
    BY <1>1, <2>6, <2>7, AskedNext
  <2> DEFINE q == Pending(u)
  <2> HIDE DEF q, c
  <2>9. D \o c.out = <<q>>
    <3>1. c.out = <<q>>
      BY <2>3, <2>5, <2>6 DEF q
    <3>2. QED
      BY <1>1, <3>1, OneSent
  <2>10. Asked(c.s, r, D \o c.out, Tail(U))
    BY <2>1, <2>3, <2>8, <2>9 DEF q
  <2>11. QED
    BY <2>10 DEF c, p
<1>5. QED
  BY <1>2, <1>3, <1>4

LEMMA AnswersFit ==
  ASSUME NEW s \in SndSet, NEW r, NEW D, NEW U \in Seq(PacketSet), U # <<>>,
         Course(s, r, D, U), Running(s)
  PROVE  LET p == Head(U)
         IN /\ p \in PacketSet /\ p.type \in {"ACK", "NAK"}
            /\ IsAck(s, p) => s.state # "SDW" /\ (s.state = "SZ" => s.file \in r.closed)
<1> DEFINE p == Head(U)
<1>1. p \in PacketSet /\ p = U[1] /\ 1 \in DOMAIN U /\ Len(U) \in Nat
  BY TailFacts
<1>2. s.state # "OFF" /\ ~Ended(s)
  BY DEF Running
<1>3. \/ Alone(s, r, D, U)
      \/ NotBegun(s, r, D, U) \/ Opening(s, r, D, U) \/ Asked(s, r, D, U) \/ Got(s, r, D, U)
      \/ Flowing(s, r, D, U) \/ Shut(s, r, D, U)
  BY <1>2 DEF Course, Phase
<1> HIDE DEF p
<1> DEFINE Goal == /\ p.type \in {"ACK", "NAK"}
                   /\ IsAck(s, p) => s.state # "SDW" /\ (s.state = "SZ" => s.file \in r.closed)
<1> SUFFICES Goal
  BY <1>1 DEF p
<1>4. CASE Alone(s, r, D, U)
  <2>1. p.type \in {"ACK", "NAK"} /\ s.state # "SDW"
    BY <1>1, <1>4 DEF Alone
  <2>2. s.state = "SZ" => s.file \in r.closed \/ (s.mode = "streaming" /\ p.type = "NAK")
    BY <1>1, <1>4 DEF Alone
  <2>3. s.mode = "streaming" /\ p.type = "NAK" => ~IsAck(s, p)
    BY DEF IsAck
  <2>4. QED
    BY <2>1, <2>2, <2>3
<1>5. ~NotBegun(s, r, D, U)
  BY <1>2 DEF NotBegun
<1>6. CASE Opening(s, r, D, U)
  <2> DEFINE init == Plain("SINIT", 0)
             a == Plain("NAK", 0)
             b == Plain("NAK", 1)
  <2>1. /\ s.state = "S"
        /\ \/ Single(D, U, init, {}) \/ Single(D, U, init, {a})
           \/ Single(D, U, init, {Greeting, a, b})
    BY <1>6 DEF Opening
  <2>2. a.type = "NAK" /\ b.type = "NAK" /\ Greeting.type = "ACK"
    BY DEF Plain, Packet, Greeting
  <2> HIDE DEF init, a, b
  <2>3. ASSUME NEW A, Single(D, U, init, A) PROVE p \in A
    <3>1. \E x \in A : D = <<>> /\ U = <<x>> /\ Head(U) = x /\ Tail(U) = <<>>
      BY Zenon, <2>3, SingleAnswer
    <3>2. QED
      BY <3>1 DEF p
  <2>4. p \in {Greeting, a, b}
    BY <2>1, <2>3
  <2>5. QED
    BY <2>1, <2>2, <2>4
<1>7. CASE Asked(s, r, D, U)
  <2> DEFINE A == NaksBut((s.seq + 1) % SeqCount)
  <2>1. Single(D, U, Pending(s), A)
    BY <1>7 DEF Asked
  <2>2. p \in A
    <3> HIDE DEF A
    <3>1. \E x \in A : D = <<>> /\ U = <<x>> /\ Head(U) = x /\ Tail(U) = <<>>
      BY Zenon, <2>1, SingleAnswer
    <3>2. QED
      BY <3>1 DEF p
  <2>3. p.type = "NAK" /\ p.seq # (s.seq + 1) % SeqCount
    BY <2>2 DEF NaksBut
  <2>4. QED
    BY <2>3 DEF IsAck
<1>8. CASE Got(s, r, D, U)
  <2> DEFINE name == Packet("ACK", s.seq % SeqCount, "name", s.file)
             Position(n) == Packet("ACK", s.seq % SeqCount, "pos", n)
  <2>1. s.state \in {"SF", "SA"} /\ (U = <<name>> \/ \E n \in Nat : U = <<Position(n)>>)
    BY <1>8 DEF Got
  <2>2. PICK q : U = <<q>> /\ (q = name \/ \E n \in Nat : q = Position(n))
    BY <2>1
  <2>3. q.type = "ACK"
    BY <2>2 DEF Packet
  <2>4. p.type = "ACK"
    BY <1>1, <2>2, <2>3
  <2>5. QED
    BY <2>1, <2>4
<1>9. CASE Flowing(s, r, D, U)
  <2>1. s.mode = "streaming" /\ p.type = "NAK"
    BY <1>1, <1>9 DEF Flowing
  <2>2. QED
    BY <2>1 DEF IsAck
<1>10. CASE Shut(s, r, D, U)
  BY <1>1, <1>10 DEF Shut
<1>11. QED
  BY <1>3, <1>4, <1>5, <1>6, <1>7, <1>8, <1>9, <1>10

LEMMA SenderReadCourse ==
  ASSUME scenario.streaming, NEW s \in SndSet, NEW r \in RcvSet,
         NEW D \in Seq(PacketSet), NEW U \in Seq(PacketSet), U # <<>>,
         Course(s, r, D, U), Running(s)
  PROVE  LET c == Answered(s, Head(U))
         IN Course(c.s, r, Line(r, D \o c.out), Line(c.s, Tail(U)))
<1> DEFINE p == Head(U)
           c == Answered(s, p)
           E == D \o c.out
           V == Tail(U)
<1>1. /\ p \in PacketSet /\ p.type \in {"ACK", "NAK"}
      /\ IsAck(s, p) => s.state # "SDW" /\ (s.state = "SZ" => s.file \in r.closed)
  BY AnswersFit
<1>2. s.state # "OFF" /\ ~Ended(s) /\ Behind(s, r) /\ ~r.skip
  BY DEF Running, Course
<1>3. Behind(c.s, r) /\ c.s.state # "OFF"
  BY <1>1, <1>2, AnsweredBehind
<1>4. c.s.state = "ABORT" => Ended(c.s)
  BY DEF Ended
<1>5. ASSUME Ended(r) PROVE Alone(c.s, r, <<>>, V)
  <2>1. Alone(s, r, D, U)
    BY <1>2, <1>5 DEF Course
  <2>2. Len(U) <= 1 /\ D = <<>>
    BY <2>1 DEF Alone
  <2>3. V = <<>>
    <3>1. Len(U) \in Nat /\ Len(U) >= 1 /\ V \in Seq(PacketSet) /\ Len(V) = Len(U) - 1
      BY TailFacts
    <3> HIDE DEF V
    <3>2. Len(V) = 0
      BY <2>2, <3>1
    <3>3. QED
      BY <3>1, <3>2, NoLength
  <2> HIDE DEF c, V
  <2>4. Alone(c.s, r, <<>>, <<>>)
    BY <1>3, NoneOnLine DEF Alone
  <2>5. QED
    BY <2>3, <2>4
<1>6. ASSUME ~Ended(r) PROVE Ended(c.s) \/ Phase(c.s, r, E, V)
  <2>1. Phase(s, r, D, U) /\ ~NotBegun(s, r, D, U)
    BY <1>2, <1>6 DEF Course, NotBegun
  <2>2. CASE Opening(s, r, D, U)
    <3>1. Opening(c.s, r, E, V) \/ Asked(c.s, r, E, V)
      BY <2>2, OpeningAnswered
    <3>2. QED
      BY <3>1 DEF Phase
  <2>3. CASE Asked(s, r, D, U)
    <3>1. c.s.state = "ABORT" \/ Asked(c.s, r, E, V)
      BY <2>3, AskedAnswered
    <3>2. QED
      BY <1>4, <3>1 DEF Phase
  <2>4. CASE Got(s, r, D, U)
    <3>1. Asked(c.s, r, E, V) \/ Flowing(c.s, r, E, V)
      BY <1>2, <2>4, GotAnswered
    <3>2. QED
      BY <3>1 DEF Phase
  <2>5. CASE Flowing(s, r, D, U)
    <3>1. s.mode = "streaming" /\ s.state \in {"SDW", "SZ"} /\ p.type = "NAK"
      <4>1. p = U[1] /\ 1 \in DOMAIN U
        BY TailFacts
      <4> HIDE DEF p
      <4>2. QED
        BY <2>5, <4>1 DEF Flowing
    <3> HIDE DEF p
    <3>2. c.s.state = "ABORT"
      BY <1>1, <3>1, DataAnswered
    <3>3. QED
      BY <1>4, <3>2
  <2>6. CASE Shut(s, r, D, U)
    <3>1. c.s.state = "ABORT" \/ Asked(c.s, r, E, V)
      BY <2>6, ShutAnswered
    <3>2. QED
      BY <1>4, <3>1 DEF Phase
  <2>7. QED
    BY <2>1, <2>2, <2>3, <2>4, <2>5, <2>6 DEF Phase
<1> DEFINE x == c.s
<1>7. /\ Behind(x, r) /\ ~r.skip
      /\ \/ Ended(x)
         \/ Ended(r) /\ Alone(x, r, <<>>, V)
         \/ ~Ended(r) /\ Phase(x, r, E, V)
  BY <1>2, <1>3, <1>5, <1>6
<1> HIDE DEF x, E, V
<1>8. Course(x, r, Line(r, E), Line(x, V))
  BY <1>7, SenderGoesOn
<1>9. QED
  BY <1>8 DEF x, E, V

-----------------------------------------------------------------------------
(* The sender starts, goes on without an answer, or times out *)

LEMMA LineCourse ==
  ASSUME NEW s, NEW r, NEW D, NEW U, Course(s, r, D, U)
  PROVE  Course(s, r, Line(r, D), Line(s, U))
<1>1. Behind(s, r) /\ ~r.skip
  BY DEF Course
<1>2. CASE Ended(s)
  BY <1>1, <1>2, SenderGoesOn
<1>3. CASE ~Ended(s) /\ Ended(r)
  <2>1. Alone(s, r, <<>>, U)
    BY <1>3, AloneLess DEF Course
  <2>2. QED
    BY <1>1, <1>3, <2>1, SenderGoesOn
<1>4. CASE ~Ended(s) /\ ~Ended(r)
  <2>1. Phase(s, r, D, U)
    BY <1>4 DEF Course
  <2>2. QED
    BY <1>1, <1>4, <2>1, SenderGoesOn
<1>5. QED
  BY <1>2, <1>3, <1>4

\* What is sent of a file while it flows.
LEMMA StreamSent ==
  ASSUME NEW s \in SndSet, s.state = "SDW", s.mode = "streaming", ~s.skip
  PROVE  LET c == Unanswered(s)
             size == Len(Batch[s.file])
             seq == (s.seq + 1) % SeqCount
         IN /\ c.s.seq = s.seq + 1 /\ c.s.mode = s.mode /\ c.s.file = s.file /\ ~c.s.skip
            /\ \/ /\ s.pos = size /\ c.s.state = "SZ" /\ c.s.pos = s.pos
                  /\ c.out = <<Packet("EOF", seq, "", 0)>>
               \/ /\ s.pos < size /\ c.s.state = "SDW" /\ c.s.pos = s.pos + 1
                  /\ c.out = <<Packet("DATA", seq, "", Batch[s.file][s.pos + 1])>>
               \/ /\ s.pos > size /\ c.s.state = "SDW" /\ c.s.pos = size
                  /\ c.out = <<Packet("DATA", seq, "", 0)>>
<1> DEFINE t == Moved(s)
           d == SendNext(t)
           c == Unanswered(s)
<1>1. t \in SndSet /\ Steady(s, t) /\ HasRoom(t)
  BY MovedSteady DEF Streaming
<1>2. /\ t.state = "SDW" /\ t.seq = s.seq /\ t.mode = "streaming" /\ t.pos = s.pos
      /\ t.file = s.file /\ ~t.skip
  BY <1>1 DEF Steady
<1>3. c = Sent(d)
  BY <1>1, <1>2 DEF Unanswered, Rest, Unasked
<1>4. t \in SndFields /\ t.file \in Files
  BY <1>1, <1>2, SndFacts DEF SndSet
<1> HIDE DEF t
<1>5. /\ d.s.seq = t.seq + 1 /\ d.s.mode = t.mode /\ d.s.file = t.file
      /\ d.s.window = t.window /\ ~d.s.skip
      /\ \/ /\ t.pos = Len(Batch[t.file]) /\ d.s.state = "SZ" /\ d.s.pos = t.pos
            /\ d.out = <<Packet("EOF", (t.seq + 1) % SeqCount, "", 0)>>
         \/ /\ t.pos < Len(Batch[t.file]) /\ d.s.state = t.state /\ d.s.pos = t.pos + 1
            /\ d.out = <<Packet("DATA", (t.seq + 1) % SeqCount, "", Batch[t.file][t.pos + 1])>>
         \/ /\ t.pos > Len(Batch[t.file]) /\ d.s.state = t.state /\ d.s.pos = Len(Batch[t.file])
            /\ d.out = <<Packet("DATA", (t.seq + 1) % SeqCount, "", 0)>>
  BY <1>2, <1>4, NextSent
<1>6. d.s \in SndFields
  <2>1. Plain("ACK", 0) \in PacketSet
    BY PlainType DEF Types
  <2>2. Unasked(t) = d
    BY <1>2 DEF Unasked
  <2>3. QED
    BY <1>1, <2>1, <2>2, ContinuedHandled DEF HandledBy
<1> HIDE DEF d
<1>7. Steady(d.s, c.s) /\ c.out = d.out
  BY <1>3, <1>6, SentSteady
<1> HIDE DEF c
<1>8. /\ c.s.seq = d.s.seq /\ c.s.mode = d.s.mode /\ c.s.file = d.s.file /\ c.s.skip = d.s.skip
      /\ c.s.state = d.s.state /\ c.s.pos = d.s.pos /\ c.out = d.out
  BY <1>7 DEF Steady
<1>9. QED
  BY Zenon, <1>2, <1>5, <1>8 DEF c

LEMMA UnansweredCourse ==
  ASSUME scenario.streaming, NEW s \in SndSet, NEW r,
         NEW D \in Seq(PacketSet), NEW U \in Seq(PacketSet), Course(s, r, D, U), Running(s)
  PROVE  LET c == Unanswered(s)
         IN Course(c.s, r, Line(r, D \o c.out), Line(c.s, U))
<1> DEFINE c == Unanswered(s)
<1>1. s.state # "OFF" /\ ~Ended(s) /\ Behind(s, r) /\ ~r.skip /\ s.seq \in Nat
  BY SndFacts DEF Running, Course, SndFields
<1>2. CASE ~(s.state = "SDW" /\ s.mode # "bare")
  <2>1. c.out = <<>> /\ Steady(s, c.s) /\ (Remembers(s) => Remembers(c.s))
    BY <1>2, RestQuiet DEF Unanswered
  <2> HIDE DEF c
  <2>2. Course(c.s, r, D, U)
    BY <2>1, SteadyCourse
  <2>3. D \o c.out = D
    BY <2>1, BehindNothing
  <2>4. Course(c.s, r, Line(r, D \o c.out), Line(c.s, U))
    BY <2>2, <2>3, LineCourse
  <2>5. QED
    BY <2>4 DEF c
<1>3. CASE s.state = "SDW" /\ s.mode # "bare"
  <2>1. s.mode = "streaming" /\ ~s.skip /\ s.file \in Files
    BY <1>1, <1>3 DEF Behind, SndSet
  <2> DEFINE size == Len(Batch[s.file])
             seq == (s.seq + 1) % SeqCount
  <2>2. /\ c.s.seq = s.seq + 1 /\ c.s.mode = s.mode /\ c.s.file = s.file /\ ~c.s.skip
        /\ \E n : \/ c.s.state = "SZ" /\ c.out = <<Packet("EOF", seq, "", 0)>>
                  \/ c.s.state = "SDW" /\ c.out = <<Packet("DATA", seq, "", n)>>
    BY <1>3, <2>1, StreamSent
  <2> HIDE DEF c
  <2>2a. c.s.seq = s.seq + 1 /\ c.s.mode = s.mode /\ c.s.file = s.file
    BY Zenon, <2>2
  <2>3. PICK n : \/ c.s.state = "SZ" /\ c.out = <<Packet("EOF", seq, "", 0)>>
                 \/ c.s.state = "SDW" /\ c.out = <<Packet("DATA", seq, "", n)>>
    BY <2>2
  <2> DEFINE eof == Packet("EOF", seq, "", 0)
             data == Packet("DATA", seq, "", n)
  <2>4. eof.seq = seq /\ data.seq = seq /\ data.type = "DATA"
    BY DEF Packet
  <2>5. seq < SeqCount /\ seq = c.s.seq % SeqCount
    <3>1. s.seq + 1 \in Int
      BY <1>1
    <3>2. (s.seq + 1) % SeqCount \in 0 .. SeqCount - 1 /\ SeqCount \in Nat
      BY <3>1, NumberFacts
    <3>3. seq = c.s.seq % SeqCount
      BY <2>2
    <3>4. seq < SeqCount
      BY <3>2
    <3>5. QED
      BY <3>3, <3>4
  <2>6. Behind(c.s, r)
    BY <1>1, <2>2, <2>3, <1>3 DEF Behind
  <2>7. PICK q : /\ c.out = <<q>> /\ q.seq < SeqCount
                 /\ q.type = "DATA" \/ (c.s.state = "SZ" /\ q = eof)
    <3> HIDE DEF eof, data
    <3>1. CASE c.s.state = "SZ" /\ c.out = <<eof>>
      BY <2>4, <2>5, <3>1
    <3>2. CASE c.s.state = "SDW" /\ c.out = <<data>>
      BY <2>4, <2>5, <3>2
    <3>3. QED
      BY <2>3, <3>1, <3>2 DEF eof, data
  <2>8. eof = Packet("EOF", c.s.seq % SeqCount, "", 0)
    BY <2>5
  <2>9. c.s.state \in {"SDW", "SZ"}
    BY <2>3
  <2> HIDE DEF eof, data, seq
  <2>10. ASSUME Ended(r) PROVE Alone(c.s, r, <<>>, U)
    <3>1. U = <<>>
      BY <1>1, <1>3, <2>10 DEF Course, Alone
    <3>2. Alone(c.s, r, <<>>, <<>>)
      BY <2>9, NoneOnLine DEF Alone
    <3>3. QED
      BY <3>1, <3>2
  <2> DEFINE E == D \o <<q>>
  <2>11. ASSUME ~Ended(r) PROVE Phase(c.s, r, E, U)
    <3>1. Flowing(s, r, D, U)
      <4>1. Phase(s, r, D, U)
        BY <1>1, <2>11 DEF Course
      <4>2. ~InStep(s)
        BY <1>3, <2>1 DEF InStep
      <4>3. QED
        BY <1>3, <4>1, <4>2 DEF Phase, NotBegun, Opening, Asked, Got, Shut
    <3>2. /\ Len(E) = Len(D) + 1 /\ DOMAIN E = 1 .. Len(D) + 1 /\ Len(D) \in Nat
          /\ E[Len(D) + 1] = q /\ \A i \in 1 .. Len(D) : E[i] = D[i]
          /\ DOMAIN D = 1 .. Len(D)
      BY BehindFacts
    <3>3. \A i \in DOMAIN D : D[i].seq < SeqCount /\ D[i].type = "DATA"
      BY <1>3, <3>1 DEF Flowing
    <3> HIDE DEF E
    <3>4. \A i \in DOMAIN E :
            /\ E[i].seq < SeqCount
            /\ E[i].type = "DATA" \/ (i = Len(E) /\ c.s.state = "SZ" /\ E[i] = eof)
      <4> TAKE i \in DOMAIN E
      <4>1. CASE i = Len(D) + 1
        BY <2>7, <3>2, <4>1
      <4>2. CASE i # Len(D) + 1
        <5>1. i \in 1 .. Len(D)
          BY <3>2, <4>2
        <5>2. QED
          BY <3>2, <3>3, <5>1
      <4>3. QED
        BY <4>1, <4>2
    <3>5. /\ c.s.mode = "streaming" /\ c.s.seq >= 1 /\ c.s.file = s.file
      BY <1>1, <2>1, <2>2a
    <3>6. /\ r.state = "RDW" /\ r.open /\ r.file = c.s.file /\ r.count = 1 /\ r.seq >= 1
          /\ Cell(r).seq < SeqCount
          /\ \A i \in DOMAIN U : U[i].type = "NAK"
      BY <3>1, <3>5 DEF Flowing
    <3>7. Flowing(c.s, r, E, U)
      BY <2>8, <2>9, <3>4, <3>5, <3>6 DEF Flowing
    <3>8. QED
      BY <3>7 DEF Phase
  <2>12. D \o c.out = E
    BY <2>7
  <2> HIDE DEF E
  <2>13. Course(c.s, r, Line(r, E), Line(c.s, U))
    BY <1>1, <2>6, <2>10, <2>11, SenderGoesOn
  <2>14. QED
    BY <2>12, <2>13 DEF c
<1>4. QED
  BY <1>2, <1>3

LEMMA SenderTimeoutCourse ==
  ASSUME NEW s \in SndSet, NEW r, Course(s, r, <<>>, <<>>), TimesOut(s)
  PROVE  LET c == SenderTimedOut(s)
         IN Course(c.s, r, Line(r, <<>> \o c.out), Line(c.s, <<>>))
<1> DEFINE last == IsLastTimeout(s)
           t == [s EXCEPT !.timeouts = @ + 1, !.state = IF last THEN "ABORT" ELSE @]
           again == IF Windowing(s) /\ s.window # <<>> THEN <<s.window[1].packet>> ELSE <<>>
           error == IF last /\ HasRoom(s) THEN <<Error(s)>> ELSE <<>>
           c == SenderTimedOut(s)
<1>1. Behind(s, r) /\ ~r.skip /\ s \in SndFields
  BY DEF Course, SndSet
<1>2. c.s = t /\ c.out = again \o error
  BY DEF SenderTimedOut
<1>3. ~Windowing(s)
  BY <1>1 DEF Behind, Windowing
<1>4. again = <<>>
  BY <1>3
<1>5. /\ t.seq = s.seq /\ t.mode = s.mode /\ t.pos = s.pos /\ t.file = s.file
      /\ t.skip = s.skip /\ t.window = s.window
      /\ t.state = IF last THEN "ABORT" ELSE s.state
  BY <1>1 DEF SndFields
<1> HIDE DEF t, again, c
<1>6. CASE last
  <2>1. t.state = "ABORT"
    BY <1>5, <1>6
  <2>2. Behind(t, r) /\ Ended(t)
    BY <1>1, <1>5, <2>1 DEF Behind, Ended
  <2>3. Behind(c.s, r) /\ Ended(c.s)
    BY <1>2, <2>2
  <2>4. Course(c.s, r, Line(r, <<>> \o c.out), Line(c.s, <<>>))
    BY <1>1, <2>3, SenderGoesOn
  <2>5. QED
    BY <2>4 DEF c
<1>7. CASE ~last
  <2>1. error = <<>>
    BY <1>7
  <2> HIDE DEF error, last
  <2>2. <<>> \o c.out = <<>>
    BY <1>2, <1>4, <2>1, NoneOnLine
  <2>3. Steady(s, t) /\ (Remembers(s) => Remembers(t))
    <3>1. Steady(s, t)
      BY <1>5, <1>7 DEF Steady
    <3>2. Pending(t) = Pending(s)
      BY <3>1, SteadyPending
    <3>3. QED
      BY <1>5, <3>1, <3>2 DEF Remembers
  <2>4. Course(t, r, <<>>, <<>>)
    BY <2>3, SteadyCourse
  <2>5. Course(t, r, Line(r, <<>>), Line(t, <<>>))
    BY <2>4, LineCourse
  <2>6. QED
    BY <1>2, <2>2, <2>5 DEF c
<1>8. QED
  BY <1>6, <1>7

LEMMA SenderStartCourse ==
  ASSUME NEW s \in SndSet, s.state = "OFF", NEW r, NEW D, NEW U, Course(s, r, D, U)
  PROVE  LET c == Sent(SendInit(s))
         IN Course(c.s, r, Line(r, D \o c.out), Line(c.s, <<>>))
<1> DEFINE u == [s EXCEPT !.state = "S", !.seq = 0]
           init == Plain("SINIT", 0)
           d == SendInit(s)
           c == Sent(d)
<1>1. Behind(s, r) /\ ~r.skip /\ s \in SndFields /\ s.window = <<>> /\ ~Ended(s)
  BY DEF Course, SndSet, Ended
<1>2. ~Ended(r) /\ NotBegun(s, r, D, U)
  BY <1>1 DEF Course, Alone, Phase, Opening, Asked, Got, Flowing, Shut, InStep
<1>3. d = Sends(u, init)
  BY DEF SendInit
<1>4. /\ u \in SndFields /\ u.state = "S" /\ u.seq = 0 /\ u.mode = "streaming" /\ u.file = 1
      /\ u.skip = s.skip /\ u.window = <<>> /\ u.pos = s.pos
  BY <1>1, <1>2 DEF SndFields, States, NotBegun
<1>5. Pending(u) = init
  BY <1>4 DEF Pending
<1> HIDE DEF u, init
<1>6. d.s = u /\ d.out = <<init>>
  BY <1>3 DEF Sends
<1> HIDE DEF d
<1>7. Remembers(c.s) /\ Steady(u, c.s) /\ c.out = <<init>>
  BY Zenon, <1>4, <1>5, <1>6, SentRemembers, SentSteady
<1> HIDE DEF c
<1>8. /\ c.s.state = "S" /\ c.s.seq = 0 /\ c.s.file = 1 /\ c.s.mode = "streaming"
      /\ c.s.skip = s.skip
  BY <1>4, <1>7 DEF Steady
<1>9. Behind(c.s, r)
  BY <1>1, <1>2, <1>8 DEF Behind, NotBegun
<1>10. D \o c.out = <<init>>
  BY <1>2, <1>7, OneOnLine DEF NotBegun
<1>11. \A A : Single(<<init>>, <<>>, init, A)
  BY DEF Single
<1>12. Opening(c.s, r, <<init>>, <<>>)
  BY <1>2, <1>7, <1>8, <1>11 DEF Opening, NotBegun, init
<1>13. Phase(c.s, r, <<init>>, <<>>)
  BY <1>12 DEF Phase
<1>14. Course(c.s, r, Line(r, <<init>>), Line(c.s, <<>>))
  BY <1>1, <1>2, <1>9, <1>13, SenderGoesOn
<1>15. QED
  BY <1>10, <1>14 DEF c, d

-----------------------------------------------------------------------------

LEMMA CourseInit ==
  ASSUME Init, Straight(scenario)
  PROVE  Course(snd, rcv, down, up)
<1>1. /\ snd.state = "OFF" /\ snd.seq = 0 /\ snd.mode = "streaming" /\ snd.pos = 0
      /\ snd.file = 1 /\ snd.skip = FALSE
  BY DEF Init, Straight, OpeningMode
<1>2. /\ rcv.state = "OFF" /\ rcv.seq = 0 /\ rcv.count = 0 /\ rcv.last = <<>>
      /\ rcv.open = FALSE /\ rcv.skip = FALSE
  BY DEF Init
<1>3. down = <<>> /\ up = <<>>
  BY DEF Init
<1>4. \A f \in Files : ~(f < 1)
  BY ConstantFacts DEF Files
<1>5. Behind(snd, rcv)
  BY <1>1, <1>4 DEF Behind
<1>6. NotBegun(snd, rcv, down, up)
  BY <1>1, <1>2, <1>3 DEF NotBegun, Fresh
<1>7. QED
  BY <1>1, <1>2, <1>5, <1>6 DEF Course, Phase, Ended

LEMMA SenderStepsCourse ==
  ASSUME NEW c, c.s \in SndSet, NEW left, SenderSteps(c, left),
         Course(c.s, rcv, Line(rcv, down \o c.out), Line(c.s, left))
  PROVE  Course(snd, rcv, down, up)'
<1>1. /\ snd' \in Called(c.s, left) /\ rcv' = rcv
      /\ down' = Line(rcv, down \o c.out) /\ up' = Line(c.s, left)
  BY DEF SenderSteps
<1>2. Course(snd', rcv, down', up')
  BY <1>1, CalledCourse
<1>3. QED
  BY <1>1, <1>2

LEMMA ReceiverStepsCourse ==
  ASSUME NEW c, NEW left, ReceiverSteps(c, left),
         Course(snd, c.r, Line(c.r, left), Line(snd, up \o c.out))
  PROVE  Course(snd, rcv, down, up)'
BY DEF ReceiverSteps

\* What a round of the sender without a packet leaves.
LEMMA SenderUnaskedCourse ==
  ASSUME scenario.streaming, snd \in SndSet, down \in Seq(PacketSet),
         NEW left \in Seq(PacketSet), Course(snd, rcv, down, left), Running(snd),
         SenderSteps(Unanswered(snd), left)
  PROVE  Course(snd, rcv, down, up)'
<1> DEFINE c == Unanswered(snd)
<1>1. Course(c.s, rcv, Line(rcv, down \o c.out), Line(c.s, left))
  BY UnansweredCourse
<1>2. c.s \in SndSet
  <2>1. Plain("ACK", 0) \in PacketSet
    BY PlainType DEF Types
  <2>2. QED
    BY <2>1, AnsweredTurn DEF TurnOf, Running
<1> HIDE DEF c
<1>3. SenderSteps(c, left)
  BY DEF c
<1>4. QED
  BY <1>1, <1>2, <1>3, SenderStepsCourse

LEMMA CourseNext ==
  ASSUME Typed, Straight(scenario), Course(snd, rcv, down, up), Next
  PROVE  Course(snd, rcv, down, up)'
<1>1. /\ scenario.streaming /\ scenario.prompt
      /\ "late" \notin scenario.faults /\ "skip" \notin scenario.faults
      /\ snd \in SndSet /\ rcv \in RcvSet /\ rcv.mode = "streaming"
      /\ down \in Seq(PacketSet) /\ up \in Seq(PacketSet)
  BY DEF Typed, Straight
<1>2. CASE SenderStart
  <2> DEFINE c == Sent(SendInit(snd))
  <2>1. snd.state = "OFF" /\ SenderSteps(c, Without(up, Len(up)))
    BY <1>1, <1>2 DEF SenderStart, Tossed
  <2>2. Without(up, Len(up)) = <<>>
    BY <1>1 DEF Without
  <2>3. Course(c.s, rcv, Line(rcv, down \o c.out), Line(c.s, <<>>))
    BY <1>1, <2>1, SenderStartCourse
  <2>4. c.s \in SndSet
    BY <1>1, <2>1, SenderStartTurn DEF TurnOf
  <2> HIDE DEF c
  <2>5. QED
    BY <2>1, <2>2, <2>3, <2>4, SenderStepsCourse
<1>3. CASE ReceiverStart
  <2> DEFINE c == Nak([rcv EXCEPT !.state = "R"], 0)
  <2>1. rcv.state = "OFF" /\ ReceiverSteps(c, Without(down, Len(down)))
    BY <1>1, <1>3 DEF ReceiverStart, Tossed
  <2>2. Without(down, Len(down)) = <<>>
    BY <1>1 DEF Without
  <2>3. Course(snd, c.r, Line(c.r, <<>>), Line(snd, up \o c.out))
    BY <1>1, <2>1, ReceiverStartCourse
  <2> HIDE DEF c
  <2>4. QED
    BY <2>1, <2>2, <2>3, ReceiverStepsCourse
<1>4. CASE SenderReads
  <2> DEFINE c == Answered(snd, Head(up))
  <2>1. Running(snd) /\ up # <<>> /\ SenderSteps(c, Tail(up))
    BY <1>4 DEF SenderReads
  <2>2. Course(c.s, rcv, Line(rcv, down \o c.out), Line(c.s, Tail(up)))
    BY <1>1, <2>1, SenderReadCourse
  <2>3. c.s \in SndSet
    <3>1. Head(up) \in PacketSet
      BY <1>1, <2>1
    <3>2. QED
      BY <1>1, <2>1, <3>1, AnsweredTurn DEF TurnOf, Running
  <2> HIDE DEF c
  <2>4. QED
    BY <2>1, <2>2, <2>3, SenderStepsCourse
<1>5. ASSUME NEW k \in DOMAIN up, Running(snd), SenderSteps(Unanswered(snd), Without(up, k))
      PROVE  Course(snd, rcv, down, up)'
  <2>1. Course(snd, rcv, down, Without(up, k))
    BY <1>1, <1>5, RestsWithout, LessCourse
  <2>2. Without(up, k) \in Seq(PacketSet)
    BY <1>1, WithoutType
  <2>3. QED
    BY <1>1, <1>5, <2>1, <2>2, SenderUnaskedCourse
<1>6. CASE SenderRefuses
  BY <1>5, <1>6 DEF SenderRefuses
<1>7. CASE SenderDamaged
  BY <1>5, <1>7 DEF SenderDamaged
<1>8. CASE SenderSendsMore
  <2>1. SenderSteps(Unanswered(snd), up) /\ Running(snd)
    BY <1>8 DEF SenderSendsMore, CanSendMore, Running, Ended
  <2>2. QED
    BY <1>1, <2>1, SenderUnaskedCourse
<1>9. CASE SenderTimeout
  <2> DEFINE c == SenderTimedOut(snd)
  <2>1. TimesOut(snd) /\ SenderSteps(c, up) /\ down = <<>> /\ up = <<>>
    BY <1>9 DEF SenderTimeout, Quiet
  <2>2. Course(c.s, rcv, Line(rcv, <<>> \o c.out), Line(c.s, <<>>))
    BY <1>1, <2>1, SenderTimeoutCourse
  <2>3. c.s \in SndSet
    <3>1. snd.timeouts < TimeoutMax
      BY <2>1 DEF Typed, TimesOut, Running, Patient
    <3>2. QED
      BY <1>1, <3>1, SenderTimedOutType
  <2> HIDE DEF c
  <2>4. QED
    BY <2>1, <2>2, <2>3, SenderStepsCourse
<1>10. CASE ReceiverReads
  <2> DEFINE c == Received(rcv, Head(down))
  <2>1. Running(rcv) /\ down # <<>> /\ ReceiverSteps(c, Tail(down))
    BY <1>10 DEF ReceiverReads
  <2>2. Course(snd, c.r, Line(c.r, Tail(down)), Line(snd, up \o c.out))
    BY <1>1, <2>1, ReadCourse
  <2> HIDE DEF c
  <2>3. QED
    BY <2>1, <2>2, ReceiverStepsCourse
<1>11. CASE ReceiverTimeout
  <2>1. PICK seq \in TimeoutSeqs(rcv) : ReceiverSteps(ReceiverTimedOut(rcv, seq), down)
    BY <1>11 DEF ReceiverTimeout
  <2> DEFINE c == ReceiverTimedOut(rcv, seq)
  <2>2. TimesOut(rcv) /\ down = <<>> /\ up = <<>> /\ snd.state # "OFF"
    BY <1>11 DEF ReceiverTimeout, Quiet
  <2>3. Course(snd, c.r, Line(c.r, <<>>), Line(snd, <<>> \o c.out))
    BY <1>1, <2>2, ReceiverTimeoutCourse
  <2>4. ReceiverSteps(c, down)
    BY <2>1
  <2> HIDE DEF c
  <2>5. QED
    BY <2>2, <2>3, <2>4, ReceiverStepsCourse
<1>12. CASE ReceiverDamaged
  <2>1. PICK k \in DOMAIN down, seq \in {0, Head(down).seq} :
          ReceiverSteps(Nak(rcv, seq), Without(down, k))
    BY <1>12 DEF ReceiverDamaged
  <2> DEFINE c == Nak(rcv, seq)
  <2>2. Running(rcv)
    BY <1>12 DEF ReceiverDamaged
  <2>3. Course(snd, c.r, Line(c.r, Without(down, k)), Line(snd, up \o c.out))
    BY <1>1, <2>2, AskCourse
  <2>4. ReceiverSteps(c, Without(down, k))
    BY <2>1
  <2> HIDE DEF c
  <2>5. QED
    BY <2>3, <2>4, ReceiverStepsCourse
<1>13. CASE Lose
  <2>1. snd' = snd /\ rcv' = rcv
    BY <1>13 DEF Lose
  <2>2. \/ down # <<>> /\ down' = Tail(down) /\ up' = up
        \/ up # <<>> /\ up' = Tail(up) /\ down' = down
    BY <1>13 DEF Lose
  <2>3. Course(snd, rcv, down', up')
    BY <1>1, <2>2, RestsTail, LessCourse
  <2>4. QED
    BY <2>1, <2>3
<1>14. CASE SenderLate \/ ReceiverLate \/ Skip
  BY <1>1, <1>14 DEF SenderLate, ReceiverLate, Skip, Goes
<1>15. CASE Done
  BY <1>15 DEF Done, vars
<1>16. QED
  BY <1>2, <1>3, <1>4, <1>6, <1>7, <1>8, <1>9, <1>10, <1>11, <1>12, <1>13, <1>14, <1>15
     DEF Next, Works, Fails

\* A sender of a stream that reports success has had every file closed by the receiver:
\* whatever is lost, damaged or answered twice, an ACK is never taken for that of another
\* packet (check_for_repeat(), kermit_send() and the handlers of kermit.c).
THEOREM StreamSuccess == Spec /\ Straight(scenario) => []NoFalseSuccess
<1> DEFINE Inv == Typed /\ Straight(scenario) /\ Course(snd, rcv, down, up)
<1>1. Init /\ Straight(scenario) => Inv
  BY InitTyped, CourseInit
<1>2. Inv /\ [Next]_vars => Inv'
  <2>1. ASSUME Inv, Next PROVE Inv'
    <3>1. Typed'
      BY <2>1, NextTyped
    <3>2. Course(snd, rcv, down, up)'
      BY <2>1, CourseNext
    <3>3. scenario' = scenario
      BY <2>1 DEF Next, Works, Fails, SenderStart, ReceiverStart, SenderReads, SenderRefuses,
           SenderSendsMore, SenderTimeout, ReceiverReads, ReceiverTimeout, Lose, SenderDamaged,
           ReceiverDamaged, SenderLate, ReceiverLate, Skip, SenderSteps, ReceiverSteps, Done,
           vars
    <3>4. Straight(scenario)'
      BY <2>1, <3>3
    <3>5. QED
      BY <3>1, <3>2, <3>4
  <2>2. ASSUME Inv, UNCHANGED vars PROVE Inv'
    <3>1. Typed'
      BY <2>2 DEF vars, Typed, Patient, Ended
    <3>2. QED
      BY <2>2, <3>1 DEF vars
  <2>3. QED
    BY <2>1, <2>2
<1>3. Inv => NoFalseSuccess
  <2> SUFFICES ASSUME Inv, snd.state = "COMPLETE", NEW f \in Files PROVE f \in rcv.closed
    BY DEF NoFalseSuccess
  <2>1. snd.file = Len(Batch) + 1
    BY DEF Course, Behind
  <2>2. f < snd.file
    BY <2>1, ConstantFacts DEF Files
  <2>3. QED
    BY <2>2 DEF Course, Behind
<1>4. QED
  BY <1>1, <1>2, <1>3, PTL DEF Spec

-----------------------------------------------------------------------------
(* What the receiver reads while no file is open *)

LEMMA KeptShut ==
  ASSUME NEW c, NEW s, NEW r, NEW q, Kept(c, s, r), ~r.open, ~q.open, q.disk = r.disk,
         q.closed = r.closed, Ended(r) => Ended(q),
         Ended(s) \/ Ended(q) \/ s.state # "SZ" \/ q.state = r.state
  PROVE  Kept(c, s, q)
BY DEF Kept

LEMMA DueShut ==
  ASSUME NEW c, NEW s, NEW r, NEW D, NEW U, ~r.open
  PROVE  Due(c, s, r, D, U) <=> (Ended(s) /\ ~Ended(r) => OnlyErrors(D))
BY DEF Due

\* An ERROR ends the transfer, and nothing more is written.
LEMMA ErrorRead ==
  ASSUME NEW r \in RcvSet, r.mode = "streaming", NEW p \in PacketSet, p.type = "ERROR"
  PROVE  LET q == Received(r, p).r
         IN Ended(q) /\ ~q.open /\ q.disk = r.disk /\ q.closed = r.closed
<1> DEFINE t == Aborted(r)
           saved == Save(t, p)
           q == Received(r, p).r
<1>1. t \in RcvSet /\ t.mode = "streaming" /\ t.state = "ABORT"
  BY AbortedAlike, AlikeType DEF Alike
<1>2. ~t.open /\ t.disk = r.disk /\ t.closed = r.closed
  BY DEF Aborted, RcvSet, RcvFields
<1> HIDE DEF t
<1>3. saved.r \in RcvSet /\ saved.r.state \in {"ABORT", "CRASH"} /\ Keeps(t, saved.r)
  BY <1>1, SaveStep, SaveKeeps DEF RingStep
<1>4. ~saved.r.open /\ saved.r.disk = r.disk /\ saved.r.closed = r.closed
  BY <1>2, <1>3 DEF Keeps
<1>5. Handled(saved.r, p).r = saved.r
  BY <1>3 DEF Handled, Silent
<1>6. q \in {t, Handled(saved.r, p).r, saved.r}
  BY DEF Received, t
<1> HIDE DEF saved, q
<1>7. q \in {t, saved.r}
  BY <1>5, <1>6
<1>8. Ended(q) /\ ~q.open /\ q.disk = r.disk /\ q.closed = r.closed
  BY <1>1, <1>2, <1>3, <1>4, <1>7 DEF Ended
<1>9. QED
  BY <1>8 DEF q

LEMMA OpeningKept ==
  ASSUME NEW s \in SndSet, NEW r \in RcvSet, r.mode = "streaming", scenario.streaming,
         NEW D \in Seq(PacketSet), NEW U, D # <<>>, r.state # "OFF", Opening(s, r, D, U)
  PROVE  LET q == Received(r, Head(D)).r
         IN ~q.open /\ q.disk = r.disk /\ q.closed = r.closed
<1> DEFINE p == Plain("SINIT", 0)
           c == Received(r, p)
           x == Save(r, p).r
<1>1. D = <<p>>
  BY DEF Opening, Single
<1>2. p \in PacketSet /\ p.type = "SINIT" /\ p.seq = 0
  BY PlainType DEF Types, Plain, Packet
<1>3. Head(D) = p
  BY <1>1, OneOnLine
<1> HIDE DEF p
<1>4. CASE r.state = "R"
  <2>1. Fresh(r)
    BY <1>4 DEF Opening
  <2>2. ~IsRepeat(r, p)
    BY <2>1 DEF IsRepeat, Fresh
  <2>3. Save(r, p).taken /\ Put(r, x, Held(p), r.seq + 1) /\ x.disk = r.disk
    BY <1>2, <2>1, FirstSaved DEF Fresh
  <2>4. c = Handled(x, p)
    BY <1>2, <2>2, <2>3, TakenRound
  <2>5. x \in RcvSet /\ x.mode = "streaming" /\ x.state = "R" /\ x.open = r.open
        /\ x.closed = r.closed /\ ~r.open
    BY <1>4, <2>1, <2>3 DEF Put, Fresh
  <2> HIDE DEF c, x
  <2>6. c.r.disk = x.disk /\ c.r.open = x.open /\ c.r.closed = x.closed
    BY <1>2, <2>4, <2>5, InitHandled
  <2>7. ~c.r.open /\ c.r.disk = r.disk /\ c.r.closed = r.closed
    BY <2>3, <2>5, <2>6
  <2>8. QED
    BY <1>3, <2>7 DEF c
<1>5. CASE r.state = "RF"
  <2>1. r.last = <<Greeting>> /\ ~r.open
    BY <1>5 DEF Opening
  <2>2. r.last[1].seq = 0 /\ r.last # <<>>
    BY <2>1 DEF Greeting, Packet
  <2>3. IsRepeat(r, p)
    BY <1>2, <1>5, <2>2 DEF IsRepeat
  <2>4. c.r = r
    BY <1>2, <2>3, RepeatRound
  <2>5. QED
    BY <1>3, <2>1, <2>4
<1>6. QED
  BY <1>4, <1>5 DEF Opening

LEMMA BeginsNothing ==
  ASSUME NEW d \in Seq(Nat), NEW n, Begins(d, <<>>, n)
  PROVE  d = <<>>
<1>1. Len(<<>>) = 0
  OBVIOUS
<1>2. n = 0
  BY <1>1 DEF Begins
<1>3. Len(d) = 0
  BY <1>2 DEF Begins
<1>4. QED
  BY <1>3

LEMMA BeginsWhole ==
  ASSUME NEW d \in Seq(Nat), NEW e \in Seq(Nat), Begins(d, e, Len(e))
  PROVE  d = e
BY DEF Begins

\* A file is opened where it ends; one without attributes is not opened at all.
LEMMA AskedKept ==
  ASSUME NEW sc, Ours(sc), sc.disk \in [Files -> Seq(Nat)],
         NEW s \in SndSet, NEW r \in RcvSet, r.mode = "streaming", ~r.skip,
         NEW D \in Seq(PacketSet), NEW U \in Seq(PacketSet), D # <<>>, Asked(s, r, D, U),
         Kept(sc, s, r), ~Ended(r), ~Ended(s)
  PROVE  LET c == Received(r, Head(D))
         IN /\ Kept(sc, s, c.r)
            /\ c.r.open => /\ s.state = "SA" /\ c.r.disk[c.r.file] = sc.disk[c.r.file]
                           /\ c.out # <<>> /\ (U \o c.out)[1].n = Len(c.r.disk[c.r.file])
<1> DEFINE p == Pending(s)
           x == Save(r, p).r
           c == Received(r, p)
<1>1. D = <<p>> /\ U = <<>> /\ p \in PacketSet /\ c = Handled(x, p)
      /\ Put(r, x, Held(p), r.seq + 1) /\ x.disk = r.disk
  BY AskedTaken
<1>2. Head(D) = p
  BY <1>1, OneOnLine
<1>3. InStep(s) /\ ~r.open
  BY DEF Asked
<1>4. /\ p.seq = s.seq % SeqCount /\ p.note # "skip"
      /\ s.state = "SF" => p.type = "FILE" /\ p.n = s.file
      /\ s.state = "SA" => p.type = "ATTRIBUTES"
      /\ s.state = "SDW" => p.type = "DATA"
      /\ s.state = "SZ" => p.type = "EOF"
      /\ s.state = "SB" => p.type = "BREAK"
  BY <1>3, PendingFields
<1>5. /\ x \in RcvSet /\ x.mode = "streaming" /\ ~x.skip /\ ~x.open
      /\ x.state = r.state /\ x.file = r.file /\ x.closed = r.closed
  BY <1>1, <1>3 DEF Put
<1> HIDE DEF c, x, p
<1>6. SUFFICES /\ Kept(sc, s, c.r)
               /\ c.r.open => /\ s.state = "SA" /\ c.r.disk[c.r.file] = sc.disk[c.r.file]
                              /\ c.out # <<>> /\ (U \o c.out)[1].n = Len(c.r.disk[c.r.file])
  BY <1>2 DEF c
<1>7. CASE s.state = "SF"
  <2>1. r.state = "RF"
    BY <1>7 DEF Asked
  <2>2. Apart(x, c.r) /\ c.r.state = "RDW" /\ c.r.open = x.open /\ c.r.closed = x.closed
    BY <1>1, <1>4, <1>5, <1>7, <2>1, FileHandled
  <2>3. ~c.r.open /\ c.r.disk = r.disk /\ c.r.closed = r.closed
    BY <1>1, <1>5, <2>2 DEF Apart
  <2>4. QED
    BY <1>3, <1>7, <2>3, KeptShut
<1>8. CASE s.state = "SA"
  <2>1. r.state = "RDW" /\ r.file = s.file
    BY <1>8 DEF Asked
  <2> DEFINE n == Len(x.disk[x.file])
             reply == Packet("ACK", p.seq, "pos", n)
  <2>2. /\ c.out = <<reply>> /\ Apart(x, c.r) /\ c.r.state = "RDW" /\ c.r.file = x.file
        /\ c.r.open /\ c.r.closed = x.closed
    BY <1>1, <1>4, <1>5, <1>8, <2>1, AttributesHandled
  <2>3. reply.n = n
    BY DEF Packet
  <2> HIDE DEF reply, n
  <2>4. /\ c.r.disk = r.disk /\ c.r.closed = r.closed /\ c.r.file = r.file
    BY <1>1, <1>5, <2>2 DEF Apart
  <2>5. r.file \notin r.closed
    <3>1. \A f \in r.closed : f < s.file
      BY <1>8 DEF Kept
    <3>2. s.file \in Nat
      BY <1>8, ConstantFacts DEF SndSet
    <3>3. QED
      BY <2>1, <3>1, <3>2
  <2>6. r.file \in Files /\ r.disk[r.file] = sc.disk[r.file]
    BY <1>3, <2>5 DEF Kept, RcvSet, RcvFields
  <2>7. Kept(sc, s, c.r)
    BY <1>3, <1>8, <2>2, <2>4, <2>5 DEF Kept, Ended
  <2>8. c.out # <<>> /\ (U \o c.out)[1] = reply
    BY <1>1, <2>2, OneOnLine
  <2>9. n = Len(c.r.disk[c.r.file])
    BY <1>1, <1>5, <2>4 DEF n
  <2>10. QED
    BY <1>8, <2>3, <2>4, <2>6, <2>7, <2>8, <2>9
<1>9. CASE s.state = "SDW"
  <2>1. r.state = "RDW"
    BY <1>9 DEF Asked
  <2>2. c = [r |-> x, out |-> <<>>]
    BY <1>1, <1>4, <1>5, <1>9, <2>1, DataHandled
  <2>3. Kept(sc, s, x)
    BY <1>1, <1>3, <1>5, KeptShut DEF Ended
  <2>4. QED
    BY <1>5, <2>2, <2>3
<1>10. CASE s.state = "SZ"
  <2>1. r.state = "RDW" /\ r.file = s.file /\ s.file = 1 /\ Batch[1] = <<>>
    BY <1>3, <1>10 DEF Asked, InStep
  <2>2. /\ Apart(x, c.r) /\ c.r.state = "CRASH" /\ ~c.r.open
        /\ c.r.closed = x.closed \cup {x.file}
    BY <1>1, <1>4, <1>5, <1>10, <2>1, EofHandled
  <2>3. c.r.disk = r.disk /\ c.r.closed = r.closed \cup {1}
    BY <1>1, <1>5, <2>1, <2>2 DEF Apart
  <2>4. 1 \in Files /\ r.file \in Files
    BY <2>1 DEF RcvSet, RcvFields
  <2>5. r.disk[1] = Batch[1]
    <3>1. CASE 1 \in r.closed
      BY <3>1 DEF Kept
    <3>2. CASE 1 \notin r.closed
      <4>1. r.disk[1] = sc.disk[1]
        BY <1>3, <2>4, <3>2 DEF Kept
      <4>2. PICK n : Begins(sc.disk[1], Batch[1], n)
        BY <2>4 DEF Ours
      <4>3. sc.disk[1] \in Seq(Nat)
        BY <2>4
      <4>4. QED
        BY <2>1, <4>1, <4>2, <4>3, BeginsNothing
    <3>3. QED
      BY <3>1, <3>2
  <2>6. Kept(sc, s, c.r)
    BY <2>2, <2>3, <2>5 DEF Kept, Ended
  <2>7. QED
    BY <2>2, <2>6
<1>11. CASE s.state = "SB"
  <2>1. r.state = "RF"
    BY <1>11 DEF Asked
  <2>2. Apart(x, c.r) /\ c.r.state = "COMPLETE" /\ c.r.open = x.open /\ c.r.closed = x.closed
    BY <1>1, <1>4, <1>5, <1>11, <2>1, BreakHandled
  <2>3. ~c.r.open /\ c.r.disk = r.disk /\ c.r.closed = r.closed /\ Ended(c.r)
    BY <1>1, <1>5, <2>2 DEF Apart, Ended
  <2>4. QED
    BY <1>3, <2>3, KeptShut
<1>12. QED
  BY <1>3, <1>7, <1>8, <1>9, <1>10, <1>11 DEF InStep

-----------------------------------------------------------------------------
(* What the receiver reads of an open file *)

LEMMA CarriesFacts ==
  ASSUME NEW p, NEW f, NEW b, NEW i, Carries(p, f, b, i)
  PROVE  /\ p.seq = (b + i) % SeqCount
         /\ \/ i \in 1 .. Len(Batch[f]) /\ p.type = "DATA" /\ p.n = Batch[f][i]
            \/ i = Len(Batch[f]) + 1 /\ p.type = "EOF" /\ p.note # "skip"
<1> DEFINE m == (b + i) % SeqCount
           n == Batch[f][i]
           size == Len(Batch[f])
           inside == i \in 1 .. size
           last == i = size + 1
           none == ""
<1>1. (inside /\ p = Packet("DATA", m, none, n)) \/ (last /\ p = Packet("EOF", m, none, 0))
  BY Zenon DEF Carries
<1>6. none # "skip"
  BY Zenon
<1> HIDE DEF m, n, size, inside, last, none
<1>2. p = Packet("DATA", m, none, n) => p.seq = m /\ p.type = "DATA" /\ p.n = n
  BY DEF Packet
<1>3. p = Packet("EOF", m, none, 0) => p.seq = m /\ p.type = "EOF" /\ p.note # "skip"
  BY <1>6 DEF Packet
<1>4. /\ p.seq = m
      /\ \/ inside /\ p.type = "DATA" /\ p.n = n
         \/ last /\ p.type = "EOF" /\ p.note # "skip"
  BY Zenon, <1>1, <1>2, <1>3
<1>5. QED
  BY Zenon, <1>4 DEF m, n, size, inside, last

LEMMA StreamHead ==
  ASSUME NEW D \in Seq(PacketSet), D # <<>>, NEW f, NEW b, NEW j \in Nat, NEW top \in Nat,
         NEW all, Stream(D, f, b, j, top, all), D[1].type # "ERROR"
  PROVE  \E i \in Nat :
           /\ i >= j + 1 /\ i <= top /\ Carries(D[1], f, b, i)
           /\ all => i = j + 1
           /\ Stream(Tail(D), f, b, i, top, all)
           /\ i = top => OnlyErrors(Tail(D))
<1> DEFINE E == Tail(D)
<1>1. /\ Len(D) \in Nat /\ Len(D) >= 1 /\ Len(E) = Len(D) - 1
      /\ DOMAIN D = 1 .. Len(D) /\ DOMAIN E = 1 .. Len(D) - 1
      /\ \A k \in DOMAIN E : k + 1 \in DOMAIN D /\ E[k] = D[k + 1]
  BY TailFacts
<1> HIDE DEF E
<1>2. PICK u \in [DOMAIN D -> Nat] :
        /\ \A k \in DOMAIN D : u[k] >= j + 1
        /\ \A k, l \in DOMAIN D : k < l => u[k] < u[l]
        /\ \A k \in DOMAIN D : (u[k] <= top /\ Carries(D[k], f, b, u[k])) \/ D[k].type = "ERROR"
        /\ all => (Len(D) >= top - j /\ \A k \in DOMAIN D : u[k] = j + k)
  BY DEF Stream
<1> DEFINE i == u[1]
           v == [k \in DOMAIN E |-> u[k + 1]]
<1>3. 1 \in DOMAIN D /\ i \in Nat /\ i >= j + 1 /\ i <= top /\ Carries(D[1], f, b, i)
  BY <1>1, <1>2
<1>4. all => i = j + 1
  BY <1>2, <1>3
<1>5. v \in [DOMAIN E -> Nat] /\ \A k \in DOMAIN E : v[k] = u[k + 1]
  BY <1>1
<1> HIDE DEF v
<1>6. \A k \in DOMAIN E : v[k] >= i + 1
  <2> TAKE k \in DOMAIN E
  <2>1. k \in Nat /\ k + 1 \in DOMAIN D /\ 1 < k + 1
    BY <1>1
  <2>2. u[1] < u[k + 1] /\ u[k + 1] \in Nat
    BY <1>2, <1>3, <2>1
  <2>3. QED
    BY <1>3, <1>5, <2>2
<1>7. \A k, l \in DOMAIN E : k < l => v[k] < v[l]
  <2> TAKE k, l \in DOMAIN E
  <2>1. k \in Int /\ l \in Int /\ k + 1 \in DOMAIN D /\ l + 1 \in DOMAIN D
    BY <1>1
  <2>2. k < l => k + 1 < l + 1
    BY <2>1
  <2>3. k + 1 < l + 1 => u[k + 1] < u[l + 1]
    BY <1>2, <2>1
  <2>4. QED
    BY <1>5, <2>2, <2>3
<1>8. \A k \in DOMAIN E : (v[k] <= top /\ Carries(E[k], f, b, v[k])) \/ E[k].type = "ERROR"
  BY <1>1, <1>2, <1>5
<1>9. all => (Len(E) >= top - i /\ \A k \in DOMAIN E : v[k] = i + k)
  <2> SUFFICES ASSUME all PROVE Len(E) >= top - i /\ \A k \in DOMAIN E : v[k] = i + k
    OBVIOUS
  <2>1. i = j + 1 /\ Len(D) >= top - j
    BY <1>2, <1>4
  <2>2. Len(E) >= top - i
    BY <1>1, <2>1
  <2>3. ASSUME NEW k \in DOMAIN E PROVE v[k] = i + k
    <3>1. u[k + 1] = j + (k + 1) /\ k \in Int
      BY <1>1, <1>2
    <3>2. QED
      BY <1>5, <2>1, <3>1
  <2>4. QED
    BY <2>2, <2>3
<1>10. Stream(E, f, b, i, top, all)
  BY <1>3, <1>5, <1>6, <1>7, <1>8, <1>9 DEF Stream
<1>11. i = top => OnlyErrors(E)
  <2> SUFFICES ASSUME i = top, NEW k \in DOMAIN E PROVE E[k].type = "ERROR"
    BY DEF OnlyErrors
  <2>1. v[k] >= top + 1 /\ v[k] \in Nat
    BY <1>5, <1>6
  <2>2. ~(v[k] <= top)
    BY <2>1
  <2>3. QED
    BY <1>8, <2>2
<1>12. QED
  BY <1>3, <1>4, <1>10, <1>11 DEF E

\* What comes later comes later than anything before it.
LEMMA StreamFrom ==
  ASSUME NEW D \in Seq(PacketSet), NEW f, NEW b, NEW i \in Nat, NEW top \in Nat, NEW all,
         Stream(D, f, b, i, top, all), NEW j \in 0 .. i
  PROVE  Stream(D, f, b, j, top, FALSE)
<1>1. PICK u \in [DOMAIN D -> Nat] :
        /\ \A k \in DOMAIN D : u[k] >= i + 1
        /\ \A k, l \in DOMAIN D : k < l => u[k] < u[l]
        /\ \A k \in DOMAIN D : (u[k] <= top /\ Carries(D[k], f, b, u[k])) \/ D[k].type = "ERROR"
  BY DEF Stream
<1>2. \A k \in DOMAIN D : u[k] >= j + 1
  BY <1>1
<1>3. j <= top
  BY DEF Stream
<1>4. QED
  BY <1>1, <1>2, <1>3 DEF Stream

\* What is in the slot completes what is on disk.
LEMMA FlushedBegins ==
  ASSUME NEW r \in RcvSet, NEW b, NEW j, Through(r, b, j)
  PROVE  /\ Flushed(r) \in [Files -> Seq(Nat)]
         /\ Begins(Flushed(r)[r.file], Batch[r.file], j)
         /\ \A f \in Files : f # r.file => Flushed(r)[f] = r.disk[f]
<1>1. r.file \in Files /\ r.disk \in [Files -> Seq(Nat)]
  BY DEF RcvSet, RcvFields
<1>2. Batch[r.file] \in Seq(Nat \ {0})
  BY <1>1, ConstantFacts, KermitAssumption DEF Files
<1>3. CASE Cell(r).type # "DATA"
  BY <1>1, <1>3 DEF Through, Flushed
<1>4. CASE Cell(r).type = "DATA"
  <2> DEFINE e == Batch[r.file]
             d == r.disk[r.file]
             n == Cell(r).n
  <2>1. j \in 1 .. Len(e) /\ n = e[j] /\ Begins(d, e, j - 1)
    BY <1>4 DEF Through
  <2>2. n \in Nat \ {0} /\ d \in Seq(Nat)
    BY <1>1, <1>2, <2>1
  <2>3. Cell(r).acked
    BY DEF Through, Has
  <2>4. Flushed(r) = [r.disk EXCEPT ![r.file] = d \o <<n>>]
    BY <1>4, <2>2, <2>3 DEF Flushed
  <2> HIDE DEF e, n
  <2>5. Begins(d \o <<n>>, e, j)
    <3> DEFINE g == d \o <<n>>
    <3> HIDE DEF d
    <3>1. /\ Len(g) = Len(d) + 1 /\ g[Len(d) + 1] = n /\ \A i \in 1 .. Len(d) : g[i] = d[i]
      BY <2>2, BehindFacts
    <3>2. Len(d) = j - 1 /\ \A i \in 1 .. j - 1 : d[i] = e[i]
      BY <2>1 DEF Begins
    <3>3. j \in Nat /\ j >= 1 /\ j \in 0 .. Len(e)
      <4>1. Len(e) \in Nat
        BY <1>2 DEF e
      <4>2. QED
        BY <2>1, <4>1
    <3> HIDE DEF g
    <3>4. Len(g) = j
      BY <3>1, <3>2, <3>3
    <3>5. \A i \in 1 .. j : g[i] = e[i]
      <4> TAKE i \in 1 .. j
      <4>1. CASE i = j
        BY <2>1, <3>1, <3>2, <3>3, <4>1
      <4>2. CASE i # j
        <5>1. i \in 1 .. j - 1
          BY <3>3, <4>2
        <5>2. QED
          BY <3>1, <3>2, <5>1
      <4>3. QED
        BY <4>1, <4>2
    <3>6. QED
      BY <3>3, <3>4, <3>5 DEF Begins, g
  <2>6. d \o <<n>> \in Seq(Nat)
    BY <2>2
  <2>7. QED
    BY <1>1, <2>4, <2>5, <2>6 DEF e
<1>5. QED
  BY <1>3, <1>4

\* A unit that is the next one is taken, the end of the file closes it; after a loss
\* nothing more is.
LEMMA FlowRead ==
  ASSUME NEW c, Short \/ c.faults = {}, NEW r \in RcvSet, r.mode = "streaming", ~r.skip,
         r.state = "RDW", r.open, NEW D \in Seq(PacketSet), D # <<>>, D[1].type # "ERROR",
         NEW b \in Int, NEW top \in 0 .. Len(Batch[r.file]) + 1, Flow(c, r, D, b, top)
  PROVE  LET q == Received(r, Head(D)).r
         IN /\ \A f \in Files : f # r.file => q.disk[f] = r.disk[f]
            /\ \/ /\ q.open /\ q.state = "RDW" /\ q.file = r.file /\ q.closed = r.closed
                  /\ Flow(c, q, Tail(D), b, top)
               \/ /\ ~q.open /\ q.state = "RF" /\ q.closed = r.closed \cup {r.file}
                  /\ q.disk[r.file] = Batch[r.file] /\ OnlyErrors(Tail(D))
<1> DEFINE p == D[1]
           e == Received(r, p)
           q == e.r
           x == Save(r, p).r
           E == Tail(D)
           file == r.file
           size == Len(Batch[file])
           all == c.faults = {}
           Inside(i) == i \in 1 .. size /\ p.type = "DATA" /\ p.n = Batch[file][i]
           Final(i) == i = size + 1 /\ p.type = "EOF" /\ p.note # "skip"
           next == p.seq = After(Cell(r).seq)
           Same == \A f \in Files : f # file => q.disk[f] = r.disk[f]
           Open == /\ q.open /\ q.state = "RDW" /\ q.file = file /\ q.closed = r.closed
                   /\ Flow(c, q, E, b, top)
           Shuts == /\ ~q.open /\ q.state = "RF" /\ q.closed = r.closed \cup {file}
                    /\ q.disk[file] = Batch[file] /\ OnlyErrors(E)
<1>1. Head(D) = p /\ p \in PacketSet /\ E \in Seq(PacketSet)
  BY TailFacts
<1>2. SUFFICES Same /\ (Open \/ Shuts)
  BY <1>1
<1>3. file \in Files /\ Batch[file] \in Seq(Nat \ {0}) /\ r.disk \in [Files -> Seq(Nat)]
  BY KermitAssumption, ConstantFacts DEF RcvSet, RcvFields, Files
<1>4. size \in Nat /\ top \in Nat /\ top <= size + 1
  BY <1>3
<1>5. SeqCount \in Nat /\ SeqCount >= 4
  BY NumberFacts
<1>6. ~all => size + 1 < SeqCount
  BY <1>3 DEF Short
<1>7. ASSUME NEW i, Carries(p, file, b, i)
      PROVE  p.seq = (b + i) % SeqCount /\ (Inside(i) \/ Final(i))
  <2> HIDE DEF p, size
  <2>1. /\ p.seq = (b + i) % SeqCount
        /\ \/ i \in 1 .. Len(Batch[file]) /\ p.type = "DATA" /\ p.n = Batch[file][i]
           \/ i = Len(Batch[file]) + 1 /\ p.type = "EOF" /\ p.note # "skip"
    BY <1>7, CarriesFacts
  <2>2. QED
    BY <2>1 DEF size
<1>8. ASSUME NEW i \in Int, NEW k \in Int, k < i, i <= k + size + 1, ~all
      PROVE  (b + i) % SeqCount # (b + k) % SeqCount
  <2>1. i - k \in 1 .. SeqCount - 1 /\ b + k \in Int
    BY <1>4, <1>5, <1>6, <1>8
  <2>2. ((b + k) + (i - k)) % SeqCount # (b + k) % SeqCount
    BY <2>1, NumbersApart
  <2>3. (b + k) + (i - k) = b + i
    BY <1>8
  <2>4. QED
    BY <2>2, <2>3
<1>9. ASSUME NEW k \in Int
      PROVE  /\ (b + k) % SeqCount < SeqCount
             /\ After((b + k) % SeqCount) = (b + (k + 1)) % SeqCount
  <2>1. b + k \in Int /\ (b + k) + 1 = b + (k + 1)
    BY <1>9
  <2>2. (b + k) % SeqCount \in 0 .. SeqCount - 1
        /\ After((b + k) % SeqCount) = ((b + k) + 1) % SeqCount
    BY <2>1, NumberFacts, NextNumber
  <2>3. QED
    BY <1>5, <2>1, <2>2
<1>10. ASSUME r.count = 1, Cell(r).seq < SeqCount, p.seq < SeqCount, p.type \in {"DATA", "EOF"}
       PROVE  \/ /\ Put(r, x, Held(p), r.seq + 1) /\ e = Handled(x, p)
                 /\ \/ next /\ x.disk = Flushed(r)
                    \/ ~next /\ Cell(r).seq = p.seq
              \/ /\ ~next
                 /\ Cell(r).acked => /\ Put(r, q, Gap(After(Cell(r).seq)), r.seq)
                                     /\ q.disk = Flushed(r)
                 /\ ~Cell(r).acked => q = r
              \/ ~next /\ q = r
  BY <1>1, <1>10, FlowRound
<1> HIDE DEF p, e, x, E, size, all, next
<1>20. ASSUME NEW j \in Nat, NEW i \in Nat, i >= j + 2, i <= top, ~all
       PROVE  /\ (b + i) % SeqCount # (b + (j + 1)) % SeqCount
              /\ i <= j + size + 1 => (b + i) % SeqCount # (b + j) % SeqCount
  <2>1. i \in Int /\ j \in Int /\ j + 1 \in Int /\ j + 1 < i /\ j < i /\ i <= (j + 1) + size + 1
    BY <1>4, <1>20
  <2>2. (b + i) % SeqCount # (b + (j + 1)) % SeqCount
    BY <1>8, <1>20, <2>1
  <2>3. i <= j + size + 1 => (b + i) % SeqCount # (b + j) % SeqCount
    BY <1>8, <1>20, <2>1
  <2>4. QED
    BY <2>2, <2>3
<1>11. ASSUME NEW j \in Nat, Through(r, b, j), Stream(D, file, b, j, top, all)
       PROVE  Same /\ (Open \/ Shuts)
  <2>1. PICK i \in Nat :
          /\ i >= j + 1 /\ i <= top /\ Carries(p, file, b, i) /\ (all => i = j + 1)
          /\ Stream(E, file, b, i, top, all) /\ (i = top => OnlyErrors(E))
    BY <1>4, <1>11, StreamHead DEF p, E
  <2>2. p.seq = (b + i) % SeqCount /\ (Inside(i) \/ Final(i))
    BY <1>7, <2>1
  <2>10. p.type \in {"DATA", "EOF"}
    BY <2>2
  <2>3. r.count = 1 /\ Cell(r).acked /\ Cell(r).seq = (b + j) % SeqCount
    BY <1>11 DEF Through, Has
  <2>4. /\ Cell(r).seq < SeqCount /\ p.seq < SeqCount
        /\ After(Cell(r).seq) = (b + (j + 1)) % SeqCount
    <3>1. j \in Int /\ i \in Int
      BY <1>11, <2>1
    <3>2. /\ (b + j) % SeqCount < SeqCount /\ (b + i) % SeqCount < SeqCount
          /\ After((b + j) % SeqCount) = (b + (j + 1)) % SeqCount
      BY <1>9, <3>1
    <3>3. QED
      BY <2>2, <2>3, <3>2
  <2>5. /\ Flushed(r) \in [Files -> Seq(Nat)]
        /\ Begins(Flushed(r)[file], Batch[file], j)
        /\ \A f \in Files : f # file => Flushed(r)[f] = r.disk[f]
    BY <1>11, FlushedBegins
  <2>6. /\ p.type = "DATA" => Inside(i)
        /\ p.type = "EOF" => Final(i)
    BY <2>2
  <2>7. CASE i = j + 1
    <3>1. next
      BY <2>2, <2>4, <2>7 DEF next
    <3>2. Put(r, x, Held(p), r.seq + 1) /\ e = Handled(x, p) /\ x.disk = Flushed(r)
      BY <1>10, <2>3, <2>4, <2>10, <3>1
    <3>3. /\ x \in RcvSet /\ x.mode = "streaming" /\ ~x.skip /\ x.state = "RDW" /\ x.open
          /\ x.file = file /\ x.closed = r.closed /\ x.count = 1 /\ Cell(x) = Held(p)
      BY <3>2 DEF Put
    <3>4. CASE p.type = "DATA"
      <4>1. e = [r |-> x, out |-> <<>>]
        BY <1>1, <3>2, <3>3, <3>4, DataHandled
      <4>2. q = x
        BY <4>1
      <4>3. i \in 1 .. size /\ p.n = Batch[file][i] /\ i - 1 = j
        BY <2>1, <2>6, <2>7, <3>4
      <4>4. Has(x, (b + i) % SeqCount) /\ Cell(x).type = "DATA" /\ Cell(x).n = p.n
        BY <2>2, <3>3, <3>4 DEF Has, Held
      <4>5. Through(x, b, i)
        BY <2>1, <2>5, <3>2, <3>3, <4>3, <4>4 DEF Through, size
      <4>6. Flow(c, x, E, b, top)
        BY <2>1, <3>3, <4>5 DEF Flow, all
      <4>7. QED
        BY <2>5, <3>2, <3>3, <4>2, <4>6
    <3>5. CASE p.type = "EOF"
      <4>1. i = size + 1 /\ p.note # "skip"
        BY <2>6, <3>5
      <4>2. /\ Apart(x, e.r) /\ e.r.state = "RF" /\ ~e.r.open
            /\ e.r.closed = x.closed \cup {x.file}
        <5>1. LET f == Handled(x, p)
                  reply == <<Plain("ACK", p.seq)>>
              IN /\ f.out = reply /\ f.r.last = reply /\ Apart(x, f.r)
                 /\ f.r.state = (IF x.open THEN "RF" ELSE "CRASH")
                 /\ ~f.r.open /\ f.r.closed = x.closed \cup {x.file} /\ f.r.file = x.file
          BY <1>1, <3>3, <3>5, <4>1, EofHandled
        <5>2. QED
          BY <3>2, <3>3, <5>1
      <4>3. q.disk = Flushed(r)
        BY <3>2, <4>2 DEF Apart
      <4>4. i = top /\ j = size
        BY <1>4, <2>1, <2>7, <4>1
      <4>5. OnlyErrors(E)
        BY <2>1, <4>4
      <4>6. Flushed(r)[file] = Batch[file]
        <5>1. Flushed(r)[file] \in Seq(Nat) /\ Batch[file] \in Seq(Nat)
          BY <1>3, <2>5
        <5>2. Begins(Flushed(r)[file], Batch[file], Len(Batch[file]))
          BY <2>5, <4>4 DEF size
        <5>3. QED
          BY <5>1, <5>2, BeginsWhole
      <4>7. Same
        BY <2>5, <4>3
      <4>8. Shuts
        BY <3>3, <4>2, <4>3, <4>5, <4>6
      <4>9. QED
        BY <4>7, <4>8
    <3>6. QED
      BY <2>10, <3>4, <3>5
  <2>8. CASE i # j + 1
    <3>1. ~all /\ i >= j + 2 /\ i <= size + 1
      BY <1>4, <2>1, <2>8
    <3>2. ~next /\ Cell(r).seq # p.seq
      <4>1. i <= j + size + 1
        BY <1>4, <1>11, <2>1, <3>1
      <4>2. /\ (b + i) % SeqCount # (b + (j + 1)) % SeqCount
            /\ (b + i) % SeqCount # (b + j) % SeqCount
        BY <1>20, <2>1, <3>1, <4>1
      <4>3. QED
        BY <2>2, <2>3, <2>4, <4>1, <4>2 DEF next
    <3>3. Stream(E, file, b, j + 2, top, FALSE) /\ Stream(E, file, b, j, top, FALSE)
      <4>1. j + 2 \in 0 .. i /\ j \in 0 .. i
        BY <1>11, <2>1, <3>1
      <4>2. QED
        BY <1>1, <1>4, <2>1, <4>1, StreamFrom
    <3>4. \/ Put(r, q, Gap(After(Cell(r).seq)), r.seq) /\ q.disk = Flushed(r)
          \/ q = r
      BY <1>10, <2>3, <2>4, <2>10, <3>2
    <3>5. CASE Put(r, q, Gap(After(Cell(r).seq)), r.seq) /\ q.disk = Flushed(r)
      <4>1. /\ q.open /\ q.state = "RDW" /\ q.file = file /\ q.closed = r.closed
            /\ q.count = 1 /\ Cell(q) = Gap(After(Cell(r).seq))
        BY <3>5 DEF Put
      <4>2. ~Cell(q).acked /\ Cell(q).seq = (b + (j + 1)) % SeqCount
        BY <2>4, <4>1 DEF Gap, Blank
      <4>3. Stuck(q, b, j + 1)
        BY <4>1, <4>2 DEF Stuck
      <4>4. (j + 1) + 1 = j + 2 /\ j + 1 \in Nat
        OBVIOUS
      <4>5. Flow(c, q, E, b, top)
        BY <3>1, <3>3, <4>1, <4>3, <4>4 DEF Flow, all
      <4>6. QED
        BY <2>5, <3>5, <4>1, <4>5
    <3>6. CASE q = r
      <4>1. Flow(c, r, E, b, top)
        BY <1>11, <3>1, <3>3 DEF Flow, all
      <4>2. QED
        BY <3>6, <4>1
    <3>7. QED
      BY <3>4, <3>5, <3>6
  <2>9. QED
    BY <2>7, <2>8
<1>12. ASSUME NEW g \in Nat, ~all, Stuck(r, b, g), Stream(D, file, b, g + 1, top, FALSE)
       PROVE  Same /\ (Open \/ Shuts)
  <2> DEFINE h == g + 1
  <2>11. h \in Nat
    BY <1>12
  <2>10. h \in Nat /\ Stream(D, file, b, h, top, FALSE)
    BY Zenon, <1>12, <2>11
  <2>1. PICK i \in Nat :
          /\ i >= h + 1 /\ i <= top /\ Carries(p, file, b, i)
          /\ Stream(E, file, b, i, top, FALSE)
    <3> HIDE DEF h
    <3>1. QED
      BY <1>4, <2>10, StreamHead DEF p, E
  <2>2. p.seq = (b + i) % SeqCount /\ p.type \in {"DATA", "EOF"}
    BY <1>7, <2>1
  <2>3. r.count = 1 /\ ~Cell(r).acked /\ Cell(r).seq = (b + g) % SeqCount
    BY <1>12 DEF Stuck
  <2>4. /\ Cell(r).seq < SeqCount /\ p.seq < SeqCount
        /\ After(Cell(r).seq) = (b + (g + 1)) % SeqCount
    <3>1. g \in Int /\ i \in Int
      BY <1>12, <2>1
    <3>2. /\ (b + g) % SeqCount < SeqCount /\ (b + i) % SeqCount < SeqCount
          /\ After((b + g) % SeqCount) = (b + (g + 1)) % SeqCount
      BY <1>9, <3>1
    <3>3. QED
      BY <2>2, <2>3, <3>2
  <2>5. ~next /\ Cell(r).seq # p.seq
    <3>1. i >= g + 2 /\ i <= g + size + 1
      BY <1>4, <1>12, <2>1
    <3>2. /\ (b + i) % SeqCount # (b + (g + 1)) % SeqCount
          /\ (b + i) % SeqCount # (b + g) % SeqCount
      BY <1>12, <1>20, <2>1, <3>1
    <3>3. QED
      BY <2>2, <2>3, <2>4, <3>2 DEF next
  <2>6. q = r
    BY <1>10, <2>2, <2>3, <2>4, <2>5
  <2>7. Stream(E, file, b, h, top, FALSE)
    <3>1. h \in 0 .. i
      BY <1>12, <2>1
    <3>2. QED
      BY <1>1, <1>4, <2>1, <3>1, StreamFrom
  <2>8. Flow(c, r, E, b, top)
    BY <1>12, <2>7 DEF Flow, all
  <2>9. QED
    BY <2>6, <2>8
<1>13. \/ \E j \in Nat : Through(r, b, j) /\ Stream(D, file, b, j, top, all)
       \/ \E g \in Nat : ~all /\ Stuck(r, b, g) /\ Stream(D, file, b, g + 1, top, FALSE)
  BY DEF Flow, all
<1>14. QED
  BY <1>11, <1>12, <1>13

-----------------------------------------------------------------------------
(* Each round of the receiver keeps what is on disk *)

LEMMA KeptEnded ==
  ASSUME NEW c, NEW s, NEW r, NEW q, Kept(c, s, r), Ended(q), ~q.open, q.disk = r.disk,
         q.closed = r.closed
  PROVE  Kept(c, s, q)
BY DEF Kept

\* What goes to a program that has ended does not matter.
LEMMA DiskLine ==
  ASSUME NEW c, NEW s, NEW q, NEW E, NEW V, Kept(c, s, q), ~Ended(q) => Due(c, s, q, E, V)
  PROVE  Disk(c, s, q, Line(q, E), Line(s, V))
<1>1. CASE Ended(q)
  <2>1. ~q.open
    BY <1>1 DEF Kept, Ended
  <2>2. QED
    BY <1>1, <2>1 DEF Disk, Due
<1>2. CASE ~Ended(q)
  <2>1. Line(q, E) = E /\ Due(c, s, q, E, V) /\ (~Ended(s) => Line(s, V) = V)
    BY <1>2 DEF Line
  <2>2. CASE Ended(s)
    BY <1>2, <2>1, <2>2 DEF Disk, Due
  <2>3. CASE ~Ended(s)
    BY <2>1, <2>3 DEF Disk
  <2>4. QED
    BY <2>2, <2>3
<1>3. QED
  BY <1>1, <1>2

\* What FlowRead says.
LEMMA FlowKept ==
  ASSUME NEW c, NEW s, NEW r \in RcvSet, NEW q, Kept(c, s, r), r.open, ~Ended(r),
         \A f \in Files : f # r.file => q.disk[f] = r.disk[f],
         \/ q.open /\ q.state = "RDW" /\ q.file = r.file /\ q.closed = r.closed
         \/ /\ ~q.open /\ q.state = "RF" /\ q.closed = r.closed \cup {r.file}
            /\ q.disk[r.file] = Batch[r.file]
            /\ ~Ended(s) => r.file = s.file /\ s.state = "SZ"
  PROVE  Kept(c, s, q)
<1>1. r.state = "RDW" /\ r.file \notin r.closed /\ r.file \in Files /\ r.closed \subseteq Files
  BY DEF Kept, RcvSet, RcvFields
<1>2. CASE q.open /\ q.state = "RDW" /\ q.file = r.file /\ q.closed = r.closed
  BY <1>1, <1>2 DEF Kept, Ended
<1>3. CASE /\ ~q.open /\ q.state = "RF" /\ q.closed = r.closed \cup {r.file}
           /\ q.disk[r.file] = Batch[r.file]
           /\ ~Ended(s) => r.file = s.file /\ s.state = "SZ"
  BY <1>1, <1>3 DEF Kept, Ended
<1>4. QED
  BY <1>2, <1>3

LEMMA ReadDisk ==
  ASSUME scenario.streaming, NEW c, Ours(c), c.disk \in [Files -> Seq(Nat)],
         Short \/ c.faults = {}, NEW s \in SndSet, NEW r \in RcvSet, r.mode = "streaming",
         NEW D \in Seq(PacketSet), NEW U \in Seq(PacketSet), Running(r), D # <<>>,
         Course(s, r, D, U), Disk(c, s, r, D, U)
  PROVE  LET e == Received(r, Head(D))
         IN Disk(c, s, e.r, Line(e.r, Tail(D)), Line(s, U \o e.out))
<1> DEFINE p == Head(D)
           e == Received(r, p)
           q == e.r
           E == Tail(D)
           V == U \o e.out
<1>1. /\ ~Ended(r) /\ r.state # "OFF" /\ ~r.skip /\ Kept(c, s, r) /\ Due(c, s, r, D, U)
      /\ p \in PacketSet /\ p = D[1] /\ 1 \in DOMAIN D
      /\ DOMAIN D = 1 .. Len(D) /\ \A i \in DOMAIN E : i + 1 \in DOMAIN D /\ E[i] = D[i + 1]
  <2>1. /\ Len(D) \in Nat /\ Len(D) >= 1 /\ DOMAIN D = 1 .. Len(D) /\ p = D[1]
        /\ p \in PacketSet /\ \A i \in DOMAIN E : i + 1 \in DOMAIN D /\ E[i] = D[i + 1]
    BY TailFacts
  <2>2. 1 \in DOMAIN D
    BY <2>1
  <2>3. QED
    BY <2>1, <2>2 DEF Running, Course, Disk
<1>2. r.open => r.state = "RDW" /\ r.file \in Files
  BY <1>1 DEF Kept, RcvSet, RcvFields
<1> HIDE DEF p, e, E
<1>3. CASE p.type = "ERROR"
  <2>1. Ended(q) /\ ~q.open /\ q.disk = r.disk /\ q.closed = r.closed
    BY <1>1, <1>3, ErrorRead DEF e
  <2>2. Kept(c, s, q)
    BY <1>1, <2>1, KeptEnded
  <2>3. Disk(c, s, q, Line(q, E), Line(s, V))
    BY <2>1, <2>2, DiskLine
  <2>4. QED
    BY <2>3 DEF e, E, p
<1>4. ASSUME p.type # "ERROR", r.open, NEW b \in Int, NEW top \in 0 .. Len(Batch[r.file]) + 1,
             Flow(c, r, D, b, top)
      PROVE  /\ \A f \in Files : f # r.file => q.disk[f] = r.disk[f]
             /\ \/ /\ q.open /\ q.state = "RDW" /\ q.file = r.file /\ q.closed = r.closed
                   /\ Flow(c, q, E, b, top)
                \/ /\ ~q.open /\ q.state = "RF" /\ q.closed = r.closed \cup {r.file}
                   /\ q.disk[r.file] = Batch[r.file] /\ OnlyErrors(E)
  <2>1. D[1].type # "ERROR" /\ r.state = "RDW" /\ ~r.skip
    BY <1>1, <1>2, <1>4
  <2>2. LET w == Received(r, Head(D)).r
        IN /\ \A f \in Files : f # r.file => w.disk[f] = r.disk[f]
           /\ \/ /\ w.open /\ w.state = "RDW" /\ w.file = r.file /\ w.closed = r.closed
                 /\ Flow(c, w, Tail(D), b, top)
              \/ /\ ~w.open /\ w.state = "RF" /\ w.closed = r.closed \cup {r.file}
                 /\ w.disk[r.file] = Batch[r.file] /\ OnlyErrors(Tail(D))
    BY <1>4, <2>1, FlowRead
  <2>3. QED
    BY <2>2 DEF p, e, E
<1>5. CASE p.type # "ERROR" /\ ~Ended(s)
  <2>1. Phase(s, r, D, U)
    BY <1>1, <1>5 DEF Course
  <2>2. Opening(s, r, D, U) \/ Asked(s, r, D, U) \/ Flowing(s, r, D, U)
    BY <2>1 DEF Phase, NotBegun, Got, Shut
  <2>3. SUFFICES Kept(c, s, q) /\ Due(c, s, q, E, V)
    <3>1. Disk(c, s, q, Line(q, E), Line(s, V))
      BY <2>3, DiskLine
    <3>2. QED
      BY <3>1 DEF e, E, p
  <2>4. CASE Opening(s, r, D, U)
    <3>1. ~q.open /\ q.disk = r.disk /\ q.closed = r.closed
      BY <1>1, <2>4, OpeningKept DEF e, p
    <3>2. ~r.open /\ s.state = "S"
      BY <2>4 DEF Opening, Fresh
    <3>3. Kept(c, s, q)
      BY <1>1, <3>1, <3>2, KeptShut
    <3>4. Due(c, s, q, E, V)
      BY <1>5, <3>1, DueShut
    <3>5. QED
      BY <3>3, <3>4
  <2>5. CASE Asked(s, r, D, U)
    <3>1. /\ Kept(c, s, q)
          /\ q.open => /\ s.state = "SA" /\ q.disk[q.file] = c.disk[q.file]
                       /\ V[1].n = Len(q.disk[q.file])
      <4>1. ~r.skip /\ ~Ended(r) /\ ~Ended(s) /\ Kept(c, s, r)
        BY <1>1, <1>5
      <4>2. LET w == Received(r, Head(D))
            IN /\ Kept(c, s, w.r)
               /\ w.r.open => /\ s.state = "SA" /\ w.r.disk[w.r.file] = c.disk[w.r.file]
                              /\ w.out # <<>> /\ (U \o w.out)[1].n = Len(w.r.disk[w.r.file])
        BY <2>5, <4>1, AskedKept
      <4>3. QED
        BY <4>2 DEF e, p
    <3>2. Due(c, s, q, E, V)
      BY <1>5, <3>1 DEF Due
    <3>3. QED
      BY <3>1, <3>2
  <2>6. CASE Flowing(s, r, D, U)
    <3> DEFINE top == Top(s)
               b == s.seq - Top(s)
    <3>1. r.open /\ r.file = s.file /\ s.mode = "streaming" /\ s.state \in {"SDW", "SZ"}
      BY <2>6 DEF Flowing
    <3>2. /\ s.pos \in 0 .. Len(Batch[s.file]) /\ (s.state = "SZ" => s.pos = Len(Batch[s.file]))
          /\ \A i \in DOMAIN D : D[i].type # "ERROR"
          /\ Flow(c, r, D, b, top)
      BY <1>1, <1>5, <3>1 DEF Due
    <3>3. s.seq \in Nat /\ Len(Batch[r.file]) \in Nat
      BY <1>2, <3>1, SndFacts, ConstantFacts, KermitAssumption DEF SndFields, Files
    <3>4. top \in 0 .. Len(Batch[r.file]) + 1 /\ b \in Int
      BY <3>1, <3>2, <3>3 DEF Top
    <3> HIDE DEF top, b
    <3>5. /\ \A f \in Files : f # r.file => q.disk[f] = r.disk[f]
          /\ \/ /\ q.open /\ q.state = "RDW" /\ q.file = r.file /\ q.closed = r.closed
                /\ Flow(c, q, E, b, top)
             \/ /\ ~q.open /\ q.state = "RF" /\ q.closed = r.closed \cup {r.file}
                /\ q.disk[r.file] = Batch[r.file] /\ OnlyErrors(E)
      BY <1>4, <1>5, <3>1, <3>2, <3>4
    <3>6. Flowing(s, q, E, V) \/ Shut(s, q, E, V)
      BY <1>1, <2>6, FlowingRead DEF e, p, E
    <3>7. q.state = "RF" => s.state = "SZ"
      BY <3>6 DEF Flowing, Shut
    <3>8. Kept(c, s, q)
      BY <1>1, <3>1, <3>5, <3>7, FlowKept
    <3>9. \A i \in DOMAIN E : E[i].type # "ERROR"
      BY <1>1, <3>2
    <3>10. Due(c, s, q, E, V)
      <4>1. CASE q.open /\ Flow(c, q, E, b, top)
        BY <1>5, <3>1, <3>2, <3>9, <4>1 DEF Due, b, top
      <4>2. CASE ~q.open
        BY <1>5, <4>2, DueShut
      <4>3. QED
        BY <3>5, <4>1, <4>2
    <3>11. QED
      BY <3>8, <3>10
  <2>7. QED
    BY <2>2, <2>4, <2>5, <2>6
<1>6. CASE p.type # "ERROR" /\ Ended(s)
  <2>1. r.open
    BY <1>1, <1>6 DEF Due, OnlyErrors
  <2>2. PICK b \in Int, top \in 0 .. Len(Batch[r.file]) + 1 : Flow(c, r, D, b, top)
    BY <1>1, <1>6, <2>1 DEF Due, Whole
  <2>3. /\ \A f \in Files : f # r.file => q.disk[f] = r.disk[f]
        /\ \/ /\ q.open /\ q.state = "RDW" /\ q.file = r.file /\ q.closed = r.closed
              /\ Flow(c, q, E, b, top)
           \/ /\ ~q.open /\ q.state = "RF" /\ q.closed = r.closed \cup {r.file}
              /\ q.disk[r.file] = Batch[r.file] /\ OnlyErrors(E)
    BY <1>4, <1>6, <2>1, <2>2
  <2>4. Kept(c, s, q)
    BY <1>1, <1>6, <2>1, <2>3, FlowKept
  <2>5. Due(c, s, q, E, V)
    <3>1. CASE q.open /\ q.file = r.file /\ Flow(c, q, E, b, top)
      <4>1. Whole(c, q, E)
        BY <2>2, <3>1 DEF Whole
      <4>2. QED
        BY <1>6, <3>1, <4>1 DEF Due
    <3>2. CASE ~q.open /\ OnlyErrors(E)
      BY <3>2, DueShut
    <3>3. QED
      BY <2>3, <3>1, <3>2
  <2>6. Disk(c, s, q, Line(q, E), Line(s, V))
    BY <2>4, <2>5, DiskLine
  <2>7. QED
    BY <2>6 DEF e, E, p
<1>7. QED
  BY <1>3, <1>5, <1>6

\* The answers count only when the receiver has just opened the file.
LEMMA DueUp ==
  ASSUME NEW c, NEW s, NEW r, NEW D, NEW U, Due(c, s, r, D, U), NEW V,
         (~Ended(s) /\ s.state = "SA" /\ r.open) => V = <<>>
  PROVE  Due(c, s, r, D, V)
BY DEF Due

LEMMA OpenAnswer ==
  ASSUME NEW c, NEW s, NEW r, NEW D, NEW U, Course(s, r, D, U), Kept(c, s, r), ~Ended(s),
         s.state = "SA", r.open
  PROVE  D = <<>> /\ Len(U) <= 1
<1>1. Phase(s, r, D, U)
  BY DEF Course, Kept, Ended
<1>2. Got(s, r, D, U)
  BY <1>1 DEF Phase, NotBegun, Opening, Asked, Flowing, Shut
<1>3. D = <<>>
  BY <1>2 DEF Got
<1>4. CASE U = <<>>
  BY <1>3, <1>4, NoneOnLine
<1>5. CASE U # <<>>
  <2>1. PICK a : U = <<a>>
    BY <1>2, <1>5 DEF Got
  <2>2. QED
    BY <1>3, <2>1, OneOnLine
<1>6. QED
  BY <1>4, <1>5

\* A stream from which something is missing at its beginning.
LEMMA StreamLess ==
  ASSUME NEW D \in Seq(PacketSet), NEW k, NEW E, Rests(D, k, E), NEW f, NEW b, NEW j \in Nat,
         NEW top \in Nat, Stream(D, f, b, j, top, FALSE)
  PROVE  Stream(E, f, b, j, top, FALSE)
<1>1. PICK u \in [DOMAIN D -> Nat] :
        /\ \A i \in DOMAIN D : u[i] >= j + 1
        /\ \A i, l \in DOMAIN D : i < l => u[i] < u[l]
        /\ \A i \in DOMAIN D : (u[i] <= top /\ Carries(D[i], f, b, u[i])) \/ D[i].type = "ERROR"
  BY DEF Stream
<1>2. /\ k \in Nat /\ \A i \in DOMAIN E : i + k \in DOMAIN D /\ E[i] = D[i + k] /\ i \in Int
  BY DEF Rests
<1> DEFINE v == [i \in DOMAIN E |-> u[i + k]]
<1>3. v \in [DOMAIN E -> Nat] /\ \A i \in DOMAIN E : v[i] = u[i + k]
  BY <1>2
<1> HIDE DEF v
<1>4. \A i \in DOMAIN E : v[i] >= j + 1
  BY <1>1, <1>2, <1>3
<1>5. \A i, l \in DOMAIN E : i < l => v[i] < v[l]
  <2> TAKE i, l \in DOMAIN E
  <2>1. i < l => i + k < l + k
    BY <1>2
  <2>2. i + k < l + k => u[i + k] < u[l + k]
    BY <1>1, <1>2
  <2>3. QED
    BY <1>3, <2>1, <2>2
<1>6. \A i \in DOMAIN E : (v[i] <= top /\ Carries(E[i], f, b, v[i])) \/ E[i].type = "ERROR"
  BY <1>1, <1>2, <1>3
<1>7. j <= top
  BY DEF Stream
<1>8. QED
  BY <1>3, <1>4, <1>5, <1>6, <1>7 DEF Stream

LEMMA FlowLess ==
  ASSUME NEW c, c.faults # {}, NEW r, NEW D \in Seq(PacketSet), NEW k, NEW E, Rests(D, k, E),
         NEW b, NEW top \in Nat, Flow(c, r, D, b, top)
  PROVE  Flow(c, r, E, b, top)
<1>1. CASE \E j \in Nat : Through(r, b, j) /\ Stream(D, r.file, b, j, top, c.faults = {})
  <2>1. PICK j \in Nat : Through(r, b, j) /\ Stream(D, r.file, b, j, top, c.faults = {})
    BY <1>1
  <2>2. (c.faults = {}) = FALSE
    OBVIOUS
  <2>3. Stream(E, r.file, b, j, top, c.faults = {})
    BY <2>1, <2>2, StreamLess
  <2>4. QED
    BY <2>1, <2>3 DEF Flow
<1>2. CASE \E g \in Nat : Stuck(r, b, g) /\ Stream(D, r.file, b, g + 1, top, FALSE)
  <2>1. PICK g \in Nat : Stuck(r, b, g) /\ Stream(D, r.file, b, g + 1, top, FALSE)
    BY <1>2
  <2> DEFINE h == g + 1
  <2>2. h \in Nat
    BY <2>1
  <2>3. Stream(D, r.file, b, h, top, FALSE)
    BY <2>1
  <2> HIDE DEF h
  <2>4. Stream(E, r.file, b, h, top, FALSE)
    BY <2>2, <2>3, StreamLess
  <2>5. QED
    BY <2>1, <2>4 DEF Flow, h
<1>3. QED
  BY <1>1, <1>2 DEF Flow

LEMMA DiskLessDown ==
  ASSUME NEW c, c.faults # {}, NEW s \in SndSet, NEW r \in RcvSet, NEW D \in Seq(PacketSet),
         NEW U, Disk(c, s, r, D, U), NEW k, NEW E, Rests(D, k, E)
  PROVE  Disk(c, s, r, E, U)
<1>1. Kept(c, s, r) /\ Due(c, s, r, D, U)
  BY DEF Disk
<1>2. \A i \in DOMAIN E : i + k \in DOMAIN D /\ E[i] = D[i + k]
  BY DEF Rests
<1>3. OnlyErrors(D) => OnlyErrors(E)
  BY <1>2 DEF OnlyErrors
<1>4. \A b, top \in Nat : Flow(c, r, D, b, top) => Flow(c, r, E, b, top)
  BY FlowLess
<1>5. \A b, top : top \in Nat /\ Flow(c, r, D, b, top) => Flow(c, r, E, b, top)
  BY FlowLess
<1>6. r.file \in Files => Len(Batch[r.file]) \in Nat
  BY KermitAssumption, ConstantFacts DEF Files
<1>7. r.file \in Files
  BY DEF RcvSet, RcvFields
<1>8. Whole(c, r, D) => Whole(c, r, E)
  <2> SUFFICES ASSUME Whole(c, r, D) PROVE Whole(c, r, E)
    OBVIOUS
  <2>1. PICK b \in Int, top \in 0 .. Len(Batch[r.file]) + 1 : Flow(c, r, D, b, top)
    BY DEF Whole
  <2>2. top \in Nat
    BY <1>6, <1>7
  <2>3. Flow(c, r, E, b, top)
    BY <1>5, <2>1, <2>2
  <2>4. QED
    BY <2>1, <2>3 DEF Whole
<1>9. ASSUME ~Ended(s), s.mode = "streaming", s.state \in {"SDW", "SZ"}, r.open
      PROVE  /\ s.pos \in 0 .. Len(Batch[s.file]) /\ (s.state = "SZ" => s.pos = Len(Batch[s.file]))
             /\ \A i \in DOMAIN E : E[i].type # "ERROR"
             /\ Flow(c, r, E, s.seq - Top(s), Top(s))
  <2>1. /\ s.pos \in 0 .. Len(Batch[s.file]) /\ (s.state = "SZ" => s.pos = Len(Batch[s.file]))
        /\ \A i \in DOMAIN D : D[i].type # "ERROR"
        /\ Flow(c, r, D, s.seq - Top(s), Top(s))
    BY <1>1, <1>9 DEF Due
  <2>2. Top(s) \in Nat
    <3>1. s.pos \in Nat
      BY SndFacts DEF SndFields
    <3>2. QED
      BY <3>1 DEF Top
  <2>3. Flow(c, r, E, s.seq - Top(s), Top(s))
    BY <1>5, <2>1, <2>2
  <2>4. QED
    BY <1>2, <2>1, <2>3
<1>10. Due(c, s, r, E, U)
  BY <1>1, <1>3, <1>8, <1>9 DEF Due
<1>11. QED
  BY <1>1, <1>10 DEF Disk

LEMMA DiskLessUp ==
  ASSUME NEW c, NEW s, NEW r, NEW D, NEW U \in Seq(PacketSet), Course(s, r, D, U),
         Disk(c, s, r, D, U), NEW k, NEW E, Rests(U, k, E)
  PROVE  Disk(c, s, r, D, E)
<1>1. Kept(c, s, r) /\ Due(c, s, r, D, U)
  BY DEF Disk
<1>2. (~Ended(s) /\ s.state = "SA" /\ r.open) => E = <<>>
  BY <1>1, OpenAnswer, RestsOfOne
<1>3. QED
  BY <1>1, <1>2, DueUp DEF Disk

\* The receiver has got a packet that is damaged.
LEMMA AskDisk ==
  ASSUME NEW c, c.faults # {}, NEW s \in SndSet, NEW r \in RcvSet, r.mode = "streaming",
         NEW D \in Seq(PacketSet), NEW U \in Seq(PacketSet), Course(s, r, D, U),
         Disk(c, s, r, D, U), NEW k \in DOMAIN D, NEW seq \in {0, Head(D).seq}
  PROVE  LET e == Nak(r, seq)
         IN Disk(c, s, e.r, Line(e.r, Without(D, k)), Line(s, U \o e.out))
<1> DEFINE e == Nak(r, seq)
           E == Without(D, k)
           V == U \o e.out
<1>1. D # <<>> /\ Rests(D, k, E)
  BY RestsWithout
<1>2. Head(D) \in PacketSet /\ Head(D) = D[1] /\ seq \in Nat
  BY <1>1, TailFacts, PacketFields
<1>3. e.r = r
  BY <1>2, NakOfStream
<1> HIDE DEF e, E
<1>4. Disk(c, s, r, E, U)
  BY <1>1, DiskLessDown
<1>5. Kept(c, s, r) /\ Due(c, s, r, E, U)
  BY <1>4 DEF Disk
<1>6. ~(~Ended(s) /\ s.state = "SA" /\ r.open)
  BY <1>1, <1>5, OpenAnswer
<1>7. Due(c, s, r, E, V)
  BY <1>5, <1>6, DueUp
<1>8. Disk(c, s, r, Line(r, E), Line(s, V))
  BY <1>5, <1>7, DiskLine
<1>9. QED
  BY <1>3, <1>8 DEF e, E

LEMMA ReceiverStartDisk ==
  ASSUME NEW c, NEW s, NEW r \in RcvSet, r.mode = "streaming", r.state = "OFF",
         NEW D, NEW U, Course(s, r, D, U), Disk(c, s, r, D, U)
  PROVE  LET e == Nak([r EXCEPT !.state = "R"], 0)
         IN Disk(c, s, e.r, Line(e.r, <<>>), Line(s, U \o e.out))
<1> DEFINE x == [r EXCEPT !.state = "R"]
           e == Nak(x, 0)
           V == U \o e.out
<1>1. r \in RcvFields /\ ~Ended(r) /\ Kept(c, s, r)
  BY DEF RcvSet, Ended, Disk
<1>2. ~r.open
  BY <1>1 DEF Kept
<1>3. x.closed = r.closed /\ x.open = r.open /\ x.disk = r.disk /\ x.mode = r.mode /\ Alike(r, x)
  BY <1>1 DEF RcvFields, States, Alike
<1> HIDE DEF x
<1>4. x \in RcvSet
  BY <1>1, <1>3, AlikeType
<1>5. e.r = x
  BY <1>3, <1>4, NakOfStream
<1>6. Ended(s) \/ s.state # "SZ"
  <2>1. SUFFICES ASSUME ~Ended(s) PROVE s.state # "SZ"
    OBVIOUS
  <2>2. Phase(s, r, D, U)
    BY <1>1, <2>1 DEF Course
  <2>3. QED
    BY <2>2 DEF Phase, NotBegun, Opening, Asked, Got, Flowing, Shut
<1>7. Kept(c, s, x)
  BY <1>1, <1>2, <1>3, <1>6, KeptShut
<1>8. OnlyErrors(<<>>)
  BY NoneOnLine DEF OnlyErrors
<1> HIDE DEF e
<1>9. Due(c, s, x, <<>>, V)
  BY <1>2, <1>3, <1>8, DueShut
<1>10. Disk(c, s, x, Line(x, <<>>), Line(s, V))
  BY <1>7, <1>9, DiskLine
<1>11. QED
  BY <1>5, <1>10 DEF e, x

LEMMA ReceiverTimeoutDisk ==
  ASSUME NEW c, NEW s, NEW r \in RcvSet, r.mode = "streaming", TimesOut(r),
         Disk(c, s, r, <<>>, <<>>), NEW seq \in TimeoutSeqs(r)
  PROVE  LET e == ReceiverTimedOut(r, seq)
         IN Disk(c, s, e.r, Line(e.r, <<>>), Line(s, <<>> \o e.out))
<1> DEFINE t == [r EXCEPT !.timeouts = @ + 1]
           x == IF IsLastTimeout(r) THEN Aborted(t) ELSE t
           e == ReceiverTimedOut(r, seq)
           V == <<>> \o e.out
<1>1. r \in RcvFields /\ ~Ended(r) /\ r.state # "RDW" /\ Kept(c, s, r)
  BY OneSlot DEF RcvSet, TimesOut, Running, Disk
<1>2. ~r.open
  BY <1>1 DEF Kept
<1>3. /\ x.closed = r.closed /\ x.disk = r.disk /\ ~x.open /\ x.mode = r.mode
      /\ x.state = (IF IsLastTimeout(r) THEN "ABORT" ELSE r.state)
  BY <1>1, <1>2 DEF RcvFields, Aborted
<1>4. e.r = x
  <2>1. e = Nak(x, seq)
    BY DEF ReceiverTimedOut
  <2> HIDE DEF x
  <2>2. ~Windowing(x)
    BY <1>3 DEF Windowing
  <2>3. QED
    BY <2>1, <2>2 DEF Nak
<1> HIDE DEF x, e
<1>5. Ended(x) \/ x.state = r.state
  BY <1>3 DEF Ended
<1>6. Kept(c, s, x)
  BY <1>1, <1>2, <1>3, <1>5, KeptShut
<1>7. OnlyErrors(<<>>)
  BY NoneOnLine DEF OnlyErrors
<1>8. Due(c, s, x, <<>>, V)
  BY <1>3, <1>7, DueShut
<1>9. Disk(c, s, x, Line(x, <<>>), Line(s, V))
  BY <1>6, <1>8, DiskLine
<1>10. QED
  BY <1>4, <1>9 DEF e

-----------------------------------------------------------------------------
(* The sender goes on *)

\* It does not go back to a file, and leaves one only after its EOF.
Onward(s, t) ==
  /\ t.file >= s.file
  /\ t.state = "ABORT" \/ t.file > s.file \/ (s.state = "SZ" => t.state = "SZ")

\* What a sender that ends has sent last is an ERROR, or nothing.
Parts(c) == Ended(c.s) => OnlyErrors(c.out)

LEMMA OneError ==
  ASSUME NEW p, p.type = "ERROR"
  PROVE  OnlyErrors(<<p>>) /\ OnlyErrors(<<>>)
<1>1. DOMAIN <<p>> = {1} /\ <<p>>[1] = p
  BY OneOnLine
<1>2. QED
  BY <1>1, NoneOnLine DEF OnlyErrors

LEMMA ErrorSent ==
  ASSUME NEW s \in SndFields
  PROVE  LET c == SequenceError(s)
         IN Onward(s, c.s) /\ Parts(c) /\ c.s.state = "ABORT"
<1> DEFINE a == [s EXCEPT !.state = "ABORT"]
           e == Error(s)
<1>1. a.state = "ABORT" /\ a.file = s.file
  BY DEF SndFields
<1>2. e.type = "ERROR"
  BY DEF Error, Plain, Packet
<1>3. SequenceError(s).s = a /\ SequenceError(s).out = <<e>>
  BY DEF SequenceError, Sends
<1>4. s.file \in Nat
  BY ConstantFacts DEF SndFields
<1> HIDE DEF a, e
<1>5. QED
  BY <1>1, <1>2, <1>3, <1>4, OneError DEF Onward, Parts

\* What is next of a file.
LEMMA NextOnward ==
  ASSUME NEW s \in SndFields, s.state = "SDW"
  PROVE  SendNext(s).s.state \in {"SDW", "SZ"} /\ SendNext(s).s.file = s.file
<1> DEFINE t == [s EXCEPT !.seq = @ + 1]
           size == Len(Batch[s.file])
           x == [t EXCEPT !.state = "SZ", !.skip = FALSE]
           y == [t EXCEPT !.pos = @ + 1]
           z == [t EXCEPT !.pos = size]
           g == s.skip \/ s.pos = size
           h == ~s.skip /\ s.pos < size
           seq == t.seq % SeqCount
           q1 == Packet("EOF", seq, IF s.skip THEN "skip" ELSE "", 0)
           q2 == Packet("DATA", seq, "", Batch[s.file][s.pos + 1])
           q3 == Packet("DATA", seq, "", 0)
<1>1. SendNext(s) = CASE g -> Sends(x, q1) [] h -> Sends(y, q2) [] OTHER -> Sends(z, q3)
  BY Zenon DEF SendNext
<1>2. \A u \in {x, y, z} : u.state \in {"SDW", "SZ"} /\ u.file = s.file
  BY DEF SndFields
<1> HIDE DEF g, h, x, y, z, q1, q2, q3
<1>3. SendNext(s) \in {Sends(x, q1), Sends(y, q2), Sends(z, q3)}
  BY <1>1
<1>4. Sends(x, q1).s = x /\ Sends(y, q2).s = y /\ Sends(z, q3).s = z
  BY DEF Sends
<1>5. QED
  BY <1>2, <1>3, <1>4

LEMMA ContinuedOnward ==
  ASSUME scenario.streaming, NEW s \in SndSet, ~Ended(s), NEW r, Behind(s, r),
         NEW p \in PacketSet
  PROVE  LET c == Continued(s, p)
         IN Onward(s, c.s) /\ Parts(c)
<1>15. s \in SndFields
  BY SndFacts
<1>16. s.seq \in Nat /\ s.file \in Nat
  BY <1>15, ConstantFacts DEF SndFields
<1>1. s \in SndFields /\ s.seq \in Nat /\ s.file \in Nat /\ ~s.skip
      /\ \A f \in Files : f < s.file => f \in r.closed
  BY <1>15, <1>16 DEF Behind
<1>2. Onward(s, SequenceError(s).s) /\ Parts(SequenceError(s))
  BY <1>1, ErrorSent
<1>3. Waits(s).s = s /\ Waits(s).out = <<>>
  BY DEF Waits
<1>4. Onward(s, s)
  BY <1>1 DEF Onward
<1>5. \A d : d.s.file = s.file /\ s.state # "SZ" /\ ~Ended(d.s) => Onward(s, d.s) /\ Parts(d)
  BY <1>1 DEF Onward, Parts
<1>6. CASE s.state = "S"
  <2> DEFINE mode == IF p.note = "" THEN "bare" ELSE NegotiatedMode(scenario)
             t == [s EXCEPT !.seq = @ + 1, !.mode = mode]
             w == [s EXCEPT !.state = "S", !.seq = 0]
             x == [t EXCEPT !.state = "SF", !.pos = 0]
  <2>1. w.state = "S" /\ w.file = s.file
    BY <1>1 DEF SndFields
  <2>2. SendInit(s).s = w
    BY DEF SendInit, Sends
  <2> HIDE DEF mode
  <2>3. x.state = "SF" /\ x.file = s.file
    BY <1>1 DEF SndFields
  <2>4. SendFileHeader(t).s = x
    BY DEF SendFileHeader, Sends
  <2>5. SendS(s, p) \in {SendInit(s), SendFileHeader(t), SequenceError(s)}
    BY DEF SendS, mode
  <2>6. Continued(s, p) = SendS(s, p)
    BY <1>6 DEF Continued
  <2> HIDE DEF t, w, x
  <2>7. Onward(s, SendInit(s).s) /\ Parts(SendInit(s))
    BY <1>5, <1>6, <2>1, <2>2 DEF Ended
  <2>8. Onward(s, SendFileHeader(t).s) /\ Parts(SendFileHeader(t))
    BY <1>5, <1>6, <2>3, <2>4 DEF Ended
  <2>9. QED
    BY <1>2, <2>5, <2>6, <2>7, <2>8
<1>7. ASSUME NEW u \in SndFields, u.state = "SDW", Behind(u, r), u.file = s.file, s.state # "SZ"
      PROVE  Onward(s, SendNext(u).s) /\ Parts(SendNext(u))
  <2>1. SendNext(u).s.state \in {"SDW", "SZ"} /\ SendNext(u).s.file = u.file
    BY <1>7, NextBehind
  <2>2. QED
    BY <1>5, <1>7, <2>1 DEF Ended
<1>8. CASE s.state = "SF"
  <2> DEFINE t == [s EXCEPT !.state = "SA", !.seq = @ + 1]
             u == [s EXCEPT !.state = "SDW"]
             x == Sends(t, Plain("ATTRIBUTES", t.seq % SeqCount))
  <2>1. t.state = "SA" /\ t.file = s.file
    BY <1>1 DEF SndFields
  <2>2. u \in SndFields /\ u.state = "SDW" /\ Behind(u, r) /\ u.file = s.file
    BY <1>1 DEF Behind, SndFields, States
  <2>3. SendSF(s, p) \in {SequenceError(s), SendNext(u), x}
    BY DEF SendSF
  <2> HIDE DEF t, u
  <2>4. x.s = t
    BY DEF Sends
  <2>5. Continued(s, p) = SendSF(s, p)
    BY <1>8 DEF Continued
  <2> HIDE DEF x
  <2>6. Onward(s, SendNext(u).s) /\ Parts(SendNext(u))
    BY <1>7, <1>8, <2>2
  <2>7. Onward(s, x.s) /\ Parts(x)
    BY <1>5, <1>8, <2>1, <2>4 DEF Ended
  <2>8. QED
    BY <1>2, <2>3, <2>5, <2>6, <2>7
<1>9. CASE s.state = "SA"
  <2> DEFINE u == [s EXCEPT !.state = "SDW", !.pos = IF p.note = "pos" THEN p.n ELSE @]
  <2>1. u \in SndFields /\ u.state = "SDW" /\ Behind(u, r) /\ u.file = s.file
    BY <1>1, PacketFields DEF Behind, SndFields, States
  <2>2. SendSA(s, p) \in {SequenceError(s), SendNext(u)}
    BY DEF SendSA
  <2>3. Continued(s, p) = SendSA(s, p)
    BY <1>9 DEF Continued
  <2> HIDE DEF u
  <2>4. Onward(s, SendNext(u).s) /\ Parts(SendNext(u))
    BY <1>7, <1>9, <2>1
  <2>5. QED
    BY <1>2, <2>2, <2>3, <2>4
<1>10. CASE s.state = "SDW"
  <2> DEFINE u == IF p.note = "skip" THEN [s EXCEPT !.skip = TRUE] ELSE s
  <2>1. SendSDW(s, p) \in {SequenceError(s), SendNext(u)}
    BY DEF SendSDW
  <2>2. Continued(s, p) = SendSDW(s, p)
    BY <1>10 DEF Continued
  <2>3. u \in SndFields /\ u.state = "SDW" /\ u.file = s.file
    BY <1>1, <1>10 DEF SndFields
  <2> HIDE DEF u
  <2>4. SendNext(u).s.state \in {"SDW", "SZ"} /\ SendNext(u).s.file = u.file
    BY <2>3, NextOnward
  <2>5. Onward(s, SendNext(u).s) /\ Parts(SendNext(u))
    BY <1>5, <1>10, <2>3, <2>4 DEF Ended
  <2>6. QED
    BY <1>2, <2>1, <2>2, <2>5
<1>11. CASE s.state = "SZ"
  <2> DEFINE t == [s EXCEPT !.seq = @ + 1, !.file = @ + 1]
             b == [t EXCEPT !.state = "SB"]
             x == [t EXCEPT !.state = "SF", !.pos = 0]
             y == Sends(b, Plain("BREAK", t.seq % SeqCount))
  <2>1. SendSZ(s, p) \in {SequenceError(s), Waits(s), SendFileHeader(t), y}
    BY DEF SendSZ
  <2>2. Continued(s, p) = SendSZ(s, p)
    BY <1>11 DEF Continued
  <2>3. x.state = "SF" /\ x.file = s.file + 1 /\ b.state = "SB" /\ b.file = s.file + 1
    BY <1>1 DEF SndFields
  <2>4. SendFileHeader(t).s = x /\ y.s = b
    BY DEF SendFileHeader, Sends
  <2> HIDE DEF t, x, y, b
  <2>5. \A d : d.s.file = s.file + 1 /\ ~Ended(d.s) => Onward(s, d.s) /\ Parts(d)
    BY <1>1 DEF Onward, Parts
  <2>6. Onward(s, SendFileHeader(t).s) /\ Parts(SendFileHeader(t))
    BY <2>3, <2>4, <2>5 DEF Ended
  <2>7. Onward(s, y.s) /\ Parts(y)
    BY <2>3, <2>4, <2>5 DEF Ended
  <2>8. Onward(s, Waits(s).s) /\ Parts(Waits(s))
    BY <1>3, <1>4 DEF Parts
  <2>9. QED
    BY <1>2, <2>1, <2>2, <2>6, <2>7, <2>8
<1>12. CASE s.state = "SB"
  <2> DEFINE t == [s EXCEPT !.state = "COMPLETE"]
  <2>1. SendSB(s, p) \in {SequenceError(s), Waits(t)}
    BY DEF SendSB
  <2>2. Continued(s, p) = SendSB(s, p)
    BY <1>12 DEF Continued
  <2>3. t.file = s.file /\ Waits(t).s = t /\ Waits(t).out = <<>>
    BY <1>1 DEF SndFields, Waits
  <2> HIDE DEF t
  <2>4. Onward(s, Waits(t).s)
    BY <1>1, <1>12, <2>3 DEF Onward
  <2>5. Parts(Waits(t))
    BY <2>3, NoneOnLine DEF Parts, OnlyErrors
  <2>6. QED
    BY <1>2, <2>1, <2>2, <2>4, <2>5
<1>13. CASE s.state \notin {"S", "SF", "SA", "SDW", "SZ", "SB"}
  <2>1. Continued(s, p) = Waits(s)
    BY <1>13 DEF Continued
  <2>2. QED
    BY <1>3, <1>4, <2>1 DEF Parts
<1>14. QED
  BY <1>6, <1>8, <1>9, <1>10, <1>11, <1>12, <1>13

LEMMA SteadyOnward ==
  ASSUME NEW s \in SndFields, NEW t, Steady(s, t)
  PROVE  /\ Onward(s, t)
         /\ \A x : Onward(t, x) => Onward(s, x)
         /\ \A x : Onward(x, s) => Onward(x, t)
<1>1. s.file \in Nat
  BY ConstantFacts DEF SndFields
<1>2. QED
  BY <1>1 DEF Steady, Onward

LEMMA RestOnward ==
  ASSUME scenario.streaming, NEW s \in SndSet, NEW r, Behind(s, r),
         NEW left \in Seq(PacketSet), Ended(s) => left = <<>>
  PROVE  LET c == Rest(s, left)
         IN Onward(s, c.s) /\ Parts(c) /\ (left = <<>> /\ s.state # "SDW" => c.out = <<>>)
<1> DEFINE c == Rest(s, left)
           t == Moved(s)
           d == Continued(t, left[1])
<1>1. s \in SndFields /\ t \in SndSet /\ Steady(s, t)
  BY SndFacts, MovedSteady
<1> HIDE DEF t
<1>2. t.state = s.state /\ (Ended(t) <=> Ended(s)) /\ Behind(t, r)
  BY <1>1, SteadyPending DEF Steady
<1>3. c = IF ~HasRoom(t) THEN Waits(t)
          ELSE Sent(IF left = <<>> THEN Unasked(t) ELSE d)
  BY DEF Rest, t, d
<1>4. Waits(t).s = t /\ Waits(t).out = <<>> /\ OnlyErrors(<<>>)
  BY NoneOnLine DEF Waits, OnlyErrors
<1> HIDE DEF c, d
<1> DEFINE Goal == Onward(s, c.s) /\ Parts(c) /\ (left = <<>> /\ s.state # "SDW" => c.out = <<>>)
<1> SUFFICES Goal
  BY DEF c
<1>5. ASSUME NEW e, e.s \in SndFields, Onward(t, e.s), Parts(e)
      PROVE  Onward(s, Sent(e).s) /\ Parts(Sent(e)) /\ Sent(e).out = e.out
  <2>1. Steady(e.s, Sent(e).s) /\ Sent(e).out = e.out
    BY <1>5, SentSteady
  <2>2. Onward(t, Sent(e).s)
    BY <1>5, <2>1, SteadyOnward
  <2>3. Onward(s, Sent(e).s)
    BY <1>1, <2>2, SteadyOnward
  <2>4. Ended(Sent(e).s) <=> Ended(e.s)
    BY <2>1, SteadyPending
  <2>5. QED
    BY <1>5, <2>1, <2>3, <2>4 DEF Parts
<1>6. Onward(t, t) /\ t \in SndFields
  BY <1>1, SndFacts, SteadyOnward DEF Steady
<1>7. CASE ~HasRoom(t)
  <2>1. c = Waits(t)
    BY <1>3, <1>7
  <2>2. Onward(s, t)
    BY <1>1, SteadyOnward
  <2>3. QED
    BY <1>4, <2>1, <2>2 DEF Parts
<1>8. CASE HasRoom(t) /\ left = <<>>
  <2>1. c = Sent(Unasked(t))
    BY <1>3, <1>8
  <2>2. CASE t.state = "SDW"
    <3>1. Unasked(t) \in {SendNext(t), Waits(t)}
      BY DEF Unasked
    <3>2. Plain("ACK", 0) \in PacketSet
      BY PlainType DEF Types
    <3>3. Unasked(t).s \in SndFields
      BY <1>1, <3>2, ContinuedHandled DEF HandledBy
    <3>4. SendNext(t).s.state \in {"SDW", "SZ"} /\ SendNext(t).s.file = t.file
      BY <1>6, <2>2, NextOnward
    <3>5. Onward(t, SendNext(t).s) /\ Parts(SendNext(t))
      <4>1. t.file \in Nat
        BY <1>6, ConstantFacts DEF SndFields
      <4>2. QED
        BY <2>2, <3>4, <4>1 DEF Onward, Parts, Ended
    <3>6. Onward(t, Waits(t).s) /\ Parts(Waits(t))
      BY <1>4, <1>6 DEF Parts
    <3>7. Onward(t, Unasked(t).s) /\ Parts(Unasked(t))
      BY <3>1, <3>5, <3>6
    <3>8. QED
      BY <1>2, <1>5, <2>1, <2>2, <3>3, <3>7
  <2>3. CASE t.state # "SDW"
    <3>1. Unasked(t) = Waits(t)
      BY <2>3 DEF Unasked
    <3>2. Unasked(t).s = t /\ Unasked(t).out = <<>>
      BY <1>4, <3>1
    <3>3. Parts(Unasked(t))
      BY <1>4, <3>2 DEF Parts
    <3>4. QED
      BY <1>5, <1>6, <2>1, <3>2, <3>3
  <2>4. QED
    BY <2>2, <2>3
<1>9. CASE HasRoom(t) /\ left # <<>>
  <2> DEFINE p == left[1]
  <2>1. c = Sent(d) /\ ~Ended(t) /\ p \in PacketSet
    BY <1>2, <1>3, <1>9
  <2> HIDE DEF p
  <2>2. d = Continued(t, p)
    BY DEF d, p
  <2>3. d.s \in SndFields
    BY <1>1, <2>1, <2>2, ContinuedHandled DEF HandledBy
  <2>4. Onward(t, d.s) /\ Parts(d)
    BY <1>1, <1>2, <2>1, <2>2, ContinuedOnward
  <2>5. QED
    BY <1>5, <1>9, <2>1, <2>3, <2>4
<1>10. QED
  BY <1>7, <1>8, <1>9

\* A program that has ended says so, and nothing else.
LEMMA AnsweredOnward ==
  ASSUME scenario.streaming, NEW s \in SndSet, ~Ended(s), NEW r, Behind(s, r),
         NEW p \in PacketSet, p.type \in {"ACK", "NAK"}
  PROVE  LET c == Answered(s, p)
         IN Onward(s, c.s) /\ Parts(c)
<1> DEFINE e == Examined(s, p)
           d == Rest(e.s, e.left)
           c == Answered(s, p)
<1>1. s \in SndFields /\ e.s \in SndSet /\ e.left \in Seq(PacketSet) /\ e.out \in Seq(PacketSet)
  BY SndFacts, ExaminedType DEF TurnOf
<1>2. c = [s |-> d.s, out |-> e.out \o d.out]
  BY DEF Answered
<1>3. d.out \in Seq(PacketSet)
  BY <1>1, RestTurn DEF TurnOf
<1> HIDE DEF c, d
<1> DEFINE Goal == Onward(s, c.s) /\ Parts(c)
<1> SUFFICES Goal
  BY DEF c
<1>4. ASSUME Steady(s, e.s), e.out = <<>> PROVE Goal
  <2>1. ~Ended(e.s) /\ Behind(e.s, r)
    BY <1>4, SteadyPending
  <2>2. Onward(e.s, d.s) /\ Parts(d)
    <3> HIDE DEF e
    <3>1. LET f == Rest(e.s, e.left)
          IN Onward(e.s, f.s) /\ Parts(f) /\ (e.left = <<>> /\ e.s.state # "SDW" => f.out = <<>>)
      BY <1>1, <2>1, RestOnward
    <3>2. QED
      BY <3>1 DEF d
  <2>3. Onward(s, d.s)
    BY <1>1, <1>4, <2>2, SteadyOnward
  <2>4. c.s = d.s /\ c.out = d.out
    <3>1. <<>> \o d.out = d.out
      BY <1>3
    <3>2. QED
      BY <1>2, <1>4, <3>1
  <2>5. QED
    BY <2>2, <2>3, <2>4 DEF Parts
<1>5. Steady(s, s)
  BY DEF Steady
<1>6. CASE p.type = "ACK"
  BY <1>4, <1>6, ExaminedAck
<1>7. CASE p.type = "NAK"
  <2>1. CASE Streaming(s) /\ s.state \in {"SDW", "SZ"}
    <3> DEFINE a == [s EXCEPT !.state = "ABORT"]
               x == Error(s)
    <3>1. e = [s |-> a, out |-> <<x>>, left |-> <<>>]
      BY <1>7, <2>1, ExaminedNak
    <3>2. Behind(a, r) /\ a.state = "ABORT" /\ a.file = s.file
      BY <1>1, AbortBehind DEF SndFields
    <3>3. x.type = "ERROR"
      BY DEF Error, Plain, Packet
    <3> HIDE DEF a, x
    <3>4. e.s = a /\ e.out = <<x>> /\ e.left = <<>>
      BY <3>1
    <3> HIDE DEF e
    <3>5. a \in SndSet /\ Ended(a)
      BY <1>1, <3>2, <3>4 DEF Ended
    <3>6. d.s.file = s.file /\ d.s.state = "ABORT" /\ d.out = <<>>
      <4>1. LET f == Rest(a, <<>>)
            IN f.out = <<>> /\ Steady(a, f.s) /\ f.s.window = Moved(a).window
               /\ (Remembers(a) => Remembers(f.s))
        BY <3>2, <3>5, RestQuiet
      <4>2. QED
        BY <3>2, <3>4, <4>1 DEF d, Steady
    <3>7. c.s = d.s /\ c.out = <<x>>
      BY <1>2, <3>4, <3>6, OneOnLine
    <3>8. Onward(s, c.s)
      <4>1. s.file \in Nat
        BY <1>1, ConstantFacts DEF SndFields
      <4>2. QED
        BY <3>6, <3>7, <4>1 DEF Onward
    <3>9. Parts(c)
      BY <3>3, <3>7, OneError DEF Parts
    <3>10. QED
      BY <3>8, <3>9
  <2>2. CASE ~(Streaming(s) /\ s.state \in {"SDW", "SZ"}) /\ SlotsOf(s, p) # {}
    <3>1. e.s = s /\ e.left = <<>>
      BY <1>7, <2>2, ExaminedNak
    <3> HIDE DEF e
    <3>2. Onward(s, d.s) /\ ~Ended(d.s)
      <4>1. LET f == Rest(s, <<>>)
            IN Onward(s, f.s) /\ Parts(f) /\ (<<>> = <<>> /\ s.state # "SDW" => f.out = <<>>)
        <5> DEFINE none == <<>>
        <5>1. none \in Seq(PacketSet) /\ none = <<>>
          OBVIOUS
        <5> HIDE DEF none
        <5>2. LET f == Rest(s, none)
              IN Onward(s, f.s) /\ Parts(f) /\ (none = <<>> /\ s.state # "SDW" => f.out = <<>>)
          BY <5>1, RestOnward
        <5>3. QED
          BY <5>1, <5>2
      <4>2. s.mode = "bare" \/ s.state # "SDW"
        BY <2>2 DEF Streaming, Behind
      <4>3. LET f == Rest(s, <<>>)
            IN f.out = <<>> /\ Steady(s, f.s) /\ f.s.window = Moved(s).window
               /\ (Remembers(s) => Remembers(f.s))
        BY <4>2, RestQuiet
      <4>4. Ended(d.s) <=> Ended(s)
        BY <3>1, <4>3, SteadyPending DEF d
      <4>5. QED
        BY <3>1, <4>1, <4>4 DEF d
    <3>3. QED
      BY <1>2, <3>2 DEF Parts
  <2>3. CASE /\ ~(Streaming(s) /\ s.state \in {"SDW", "SZ"}) /\ SlotsOf(s, p) = {}
             /\ p.seq = (s.seq + 1) % SeqCount
    <3>1. e.s = [s EXCEPT !.window = <<>>] /\ e.out = <<>>
      BY <1>7, <2>3, ExaminedNak
    <3>2. Steady(s, e.s)
      BY <1>1, <3>1, WindowSteady
    <3>3. QED
      BY <1>4, <3>1, <3>2
  <2>4. CASE /\ ~(Streaming(s) /\ s.state \in {"SDW", "SZ"}) /\ SlotsOf(s, p) = {}
             /\ p.seq # (s.seq + 1) % SeqCount
    <3>1. e.s = s /\ e.out = <<>>
      BY <1>7, <2>4, ExaminedNak
    <3>2. QED
      BY <1>4, <1>5, <3>1
  <2>5. QED
    BY <2>1, <2>2, <2>3, <2>4
<1>8. QED
  BY <1>6, <1>7

-----------------------------------------------------------------------------
(* What the sender sends of a file *)

LEMMA DiskSteady ==
  ASSUME NEW c, NEW s, NEW t, Steady(s, t), NEW r, NEW D, NEW U, Disk(c, s, r, D, U)
  PROVE  Disk(c, t, r, D, U)
<1>1. /\ t.state = s.state /\ t.seq = s.seq /\ t.mode = s.mode /\ t.pos = s.pos
      /\ t.file = s.file /\ (Ended(t) <=> Ended(s)) /\ Top(t) = Top(s)
  BY DEF Steady, Ended, Top
<1>2. Kept(c, t, r)
  BY <1>1 DEF Disk, Kept
<1>3. Due(c, t, r, D, U)
  BY <1>1 DEF Disk, Due
<1>4. QED
  BY <1>2, <1>3 DEF Disk

LEMMA KeptOnward ==
  ASSUME NEW c, NEW s \in SndFields, ~Ended(s), NEW r \in RcvSet, Kept(c, s, r),
         NEW t, t.file \in Int, Onward(s, t)
  PROVE  Kept(c, t, r)
<1>1. s.file \in Nat /\ \A f \in r.closed : f \in Nat
  BY ConstantFacts DEF SndFields, RcvSet, RcvFields
<1>2. ASSUME ~Ended(t), ~Ended(r), NEW f \in r.closed
      PROVE  f < t.file \/ (f = t.file /\ t.state = "SZ" /\ r.state = "RF")
  <2>1. t.state # "ABORT"
    BY <1>2 DEF Ended
  <2>2. f < s.file \/ (f = s.file /\ s.state = "SZ" /\ r.state = "RF")
    BY <1>2 DEF Kept
  <2>3. QED
    BY <1>1, <2>1, <2>2 DEF Onward
<1>3. QED
  BY <1>2 DEF Kept

\* A packet more of the file.
LEMMA StreamMore ==
  ASSUME NEW D \in Seq(PacketSet), \A i \in DOMAIN D : D[i].type # "ERROR",
         NEW f, NEW b, NEW j \in Nat, NEW top \in Nat, NEW all \in BOOLEAN,
         Stream(D, f, b, j, top, all), NEW q, Carries(q, f, b, top + 1)
  PROVE  Stream(D \o <<q>>, f, b, j, top + 1, all)
<1> DEFINE E == D \o <<q>>
           n == Len(D) + 1
           more == top + 1
<1>1. /\ Len(E) = n /\ DOMAIN E = 1 .. n /\ Len(D) \in Nat
      /\ E[n] = q /\ \A i \in 1 .. Len(D) : E[i] = D[i]
      /\ DOMAIN D = 1 .. Len(D)
  BY BehindFacts
<1> HIDE DEF E
<1>2. PICK u \in [DOMAIN D -> Nat] :
        /\ \A k \in DOMAIN D : u[k] >= j + 1
        /\ \A k, l \in DOMAIN D : k < l => u[k] < u[l]
        /\ \A k \in DOMAIN D : (u[k] <= top /\ Carries(D[k], f, b, u[k])) \/ D[k].type = "ERROR"
        /\ all => (Len(D) >= top - j /\ \A k \in DOMAIN D : u[k] = j + k)
  BY DEF Stream
<1>3. j <= top /\ more \in Nat /\ top < more
  BY DEF Stream
<1>4. \A k \in DOMAIN D : u[k] \in Nat /\ u[k] <= top /\ Carries(D[k], f, b, u[k])
  BY <1>2
<1> DEFINE v == [k \in DOMAIN E |-> IF k = n THEN more ELSE u[k]]
<1>5. /\ v \in [DOMAIN E -> Nat] /\ v[n] = more /\ n \in DOMAIN E
      /\ \A k \in DOMAIN D : v[k] = u[k] /\ k \in DOMAIN E /\ k \in Nat /\ k < n
      /\ \A k \in DOMAIN E : k \in DOMAIN D \/ k = n
  <2>1. n \in DOMAIN E /\ \A k \in DOMAIN D : k \in DOMAIN E /\ k \in Nat /\ k < n /\ k # n
    BY <1>1
  <2>2. \A k \in DOMAIN E : k \in DOMAIN D \/ k = n
    BY <1>1
  <2>3. v \in [DOMAIN E -> Nat]
    <3> HIDE DEF n, more
    <3>1. ASSUME NEW k \in DOMAIN E PROVE (IF k = n THEN more ELSE u[k]) \in Nat
      BY <1>3, <1>4, <2>2
    <3>2. QED
      BY <3>1
  <2> HIDE DEF n, more
  <2>4. QED
    BY <2>1, <2>2, <2>3 DEF v
<1> HIDE DEF v, more
<1>6. \A k \in DOMAIN E : v[k] >= j + 1
  BY <1>2, <1>3, <1>5 DEF more
<1>7. \A k, l \in DOMAIN E : k < l => v[k] < v[l]
  <2> TAKE k, l \in DOMAIN E
  <2> SUFFICES ASSUME k < l PROVE v[k] < v[l]
    OBVIOUS
  <2>1. k # n
    BY <1>1, <1>5
  <2>2. k \in DOMAIN D /\ v[k] = u[k] /\ u[k] \in Nat /\ u[k] <= top
    BY <1>4, <1>5, <2>1
  <2>3. CASE l = n
    BY <1>3, <1>5, <2>2, <2>3
  <2>4. CASE l # n
    BY <1>2, <1>5, <2>2, <2>4
  <2>5. QED
    BY <2>3, <2>4
<1>8. \A k \in DOMAIN E : (v[k] <= more /\ Carries(E[k], f, b, v[k])) \/ E[k].type = "ERROR"
  <2> TAKE k \in DOMAIN E
  <2>1. CASE k = n
    BY <1>1, <1>3, <1>5, <2>1 DEF more
  <2>2. CASE k # n
    <3>1. k \in DOMAIN D /\ v[k] = u[k] /\ u[k] \in Nat /\ u[k] <= top /\ Carries(D[k], f, b, u[k])
      BY <1>4, <1>5, <2>2
    <3>2. E[k] = D[k] /\ v[k] <= more
      BY <1>1, <1>3, <3>1
    <3>3. QED
      BY <3>1, <3>2
  <2>3. QED
    BY <2>1, <2>2
<1>9. ASSUME all PROVE Len(E) >= more - j /\ \A k \in DOMAIN E : v[k] = j + k
  <2>1. Len(D) >= top - j /\ \A k \in DOMAIN D : u[k] = j + k
    BY <1>2, <1>9
  <2>2. Len(D) = top - j
    <3>1. CASE Len(D) = 0
      BY <1>3, <2>1, <3>1
    <3>2. CASE Len(D) # 0
      <4>1. Len(D) \in DOMAIN D
        BY <1>1, <3>2
      <4>2. u[Len(D)] = j + Len(D) /\ u[Len(D)] <= top
        BY <1>4, <2>1, <4>1
      <4>3. QED
        BY <1>1, <2>1, <4>2
    <3>3. QED
      BY <3>1, <3>2
  <2>3. n = more - j /\ n \in Int /\ more = j + n
    BY <1>1, <1>3, <2>2 DEF more
  <2>4. ASSUME NEW k \in DOMAIN E PROVE v[k] = j + k
    <3>1. CASE k = n
      BY <1>5, <2>3, <3>1
    <3>2. CASE k # n
      BY <1>5, <2>1, <3>2
    <3>3. QED
      BY <3>1, <3>2
  <2>5. Len(E) >= more - j
    BY <1>1, <2>3
  <2>6. QED
    BY <2>4, <2>5
<1>10. j <= more
  BY <1>3
<1>11. Stream(E, f, b, j, more, all)
  BY <1>5, <1>6, <1>7, <1>8, <1>9, <1>10 DEF Stream
<1>12. QED
  BY <1>11 DEF E, more

LEMMA FlowMore ==
  ASSUME NEW c, NEW r, NEW D \in Seq(PacketSet), \A i \in DOMAIN D : D[i].type # "ERROR",
         NEW b, NEW top \in Nat, Flow(c, r, D, b, top), NEW q, Carries(q, r.file, b, top + 1)
  PROVE  Flow(c, r, D \o <<q>>, b, top + 1)
<1> DEFINE all == c.faults = {}
           E == D \o <<q>>
<1>1. all \in BOOLEAN
  OBVIOUS
<1> HIDE DEF all, E
<1>2. CASE \E j \in Nat : Through(r, b, j) /\ Stream(D, r.file, b, j, top, all)
  <2>1. PICK j \in Nat : Through(r, b, j) /\ Stream(D, r.file, b, j, top, all)
    BY <1>2
  <2>2. Stream(E, r.file, b, j, top + 1, all)
    BY <1>1, <2>1, StreamMore DEF E
  <2>3. QED
    BY <2>1, <2>2 DEF Flow, all, E
<1>3. CASE \E g \in Nat : ~all /\ Stuck(r, b, g) /\ Stream(D, r.file, b, g + 1, top, FALSE)
  <2>1. PICK g \in Nat : ~all /\ Stuck(r, b, g) /\ Stream(D, r.file, b, g + 1, top, FALSE)
    BY <1>3
  <2> DEFINE h == g + 1
  <2>2. h \in Nat /\ Stream(D, r.file, b, h, top, FALSE)
    <3>1. h \in Nat
      BY <2>1
    <3>2. QED
      BY Zenon, <2>1, <3>1
  <2> HIDE DEF h
  <2>3. Stream(E, r.file, b, h, top + 1, FALSE)
    BY <2>2, StreamMore DEF E
  <2>4. QED
    BY <2>1, <2>3 DEF Flow, all, h, E
<1>4. QED
  BY <1>2, <1>3 DEF Flow, all

LEMMA JoinFacts ==
  ASSUME NEW S, NEW D \in Seq(S), NEW X \in Seq(S)
  PROVE  LET E == D \o X
         IN /\ Len(E) = Len(D) + Len(X) /\ DOMAIN E = 1 .. Len(D) + Len(X)
            /\ Len(D) \in Nat /\ Len(X) \in Nat /\ DOMAIN D = 1 .. Len(D)
            /\ DOMAIN X = 1 .. Len(X)
            /\ \A i \in 1 .. Len(D) : E[i] = D[i]
            /\ \A i \in 1 .. Len(D) + Len(X) : i > Len(D) => E[i] = X[i - Len(D)]
OBVIOUS

\* What comes after the data when the sender ends.
LEMMA StreamErrors ==
  ASSUME NEW D \in Seq(PacketSet), NEW X \in Seq(PacketSet), OnlyErrors(X),
         NEW f, NEW b, NEW j \in Nat, NEW top \in Nat, NEW all \in BOOLEAN,
         Stream(D, f, b, j, top, all)
  PROVE  Stream(D \o X, f, b, j, top, all)
<1> DEFINE E == D \o X
           n == Len(D)
<1>1. /\ Len(E) = n + Len(X) /\ DOMAIN E = 1 .. n + Len(X)
      /\ n \in Nat /\ Len(X) \in Nat /\ DOMAIN D = 1 .. n /\ DOMAIN X = 1 .. Len(X)
      /\ \A i \in 1 .. n : E[i] = D[i]
      /\ \A i \in 1 .. n + Len(X) : i > n => E[i] = X[i - n]
  BY JoinFacts
<1> HIDE DEF E, n
<1>2. PICK u \in [DOMAIN D -> Nat] :
        /\ \A k \in DOMAIN D : u[k] >= j + 1
        /\ \A k, l \in DOMAIN D : k < l => u[k] < u[l]
        /\ \A k \in DOMAIN D : (u[k] <= top /\ Carries(D[k], f, b, u[k])) \/ D[k].type = "ERROR"
        /\ all => (n >= top - j /\ \A k \in DOMAIN D : u[k] = j + k)
  BY DEF Stream, n
<1>3. j <= top
  BY DEF Stream
<1> DEFINE most == IF n = 0 THEN j ELSE u[n]
<1>4. /\ most \in Nat /\ most >= j /\ (all => most = j + n)
      /\ \A k \in DOMAIN D : u[k] <= most
  <2>1. CASE n = 0
    BY <1>1, <2>1
  <2>2. CASE n # 0
    <3>3. n \in DOMAIN D /\ most = u[n]
      BY <1>1, <2>2
    <3> HIDE DEF most
    <3>1. n \in DOMAIN D /\ most = u[n] /\ u[n] \in Nat /\ u[n] >= j + 1 /\ (all => u[n] = j + n)
      BY <1>2, <3>3
    <3>2. ASSUME NEW k \in DOMAIN D PROVE u[k] <= u[n]
      <4>1. u[k] \in Nat /\ (k = n \/ k < n)
        BY <1>1, <1>2
      <4>2. k < n => u[k] < u[n]
        BY <1>2, <3>1
      <4>3. QED
        BY <3>1, <4>1, <4>2
    <3>4. QED
      BY <3>1, <3>2
  <2>3. QED
    BY <2>1, <2>2
<1> HIDE DEF most
<1> DEFINE v == [k \in DOMAIN E |-> IF k <= n THEN u[k] ELSE most + (k - n)]
<1>5. \A k \in DOMAIN E : k \in Nat /\ (k \in DOMAIN D <=> k <= n) /\ k - n \in Int
                          /\ (~(k <= n) => k - n >= 1)
  BY <1>1
<1>6. /\ \A k \in DOMAIN E : k \in DOMAIN D => v[k] = u[k] /\ u[k] \in Nat
      /\ \A k \in DOMAIN E : k \notin DOMAIN D =>
           v[k] = most + (k - n) /\ v[k] \in Nat /\ v[k] >= most + 1
  <2>1. \A k \in DOMAIN E : k \in DOMAIN D => v[k] = u[k] /\ u[k] \in Nat
    BY <1>5
  <2>2. ASSUME NEW k \in DOMAIN E, k \notin DOMAIN D
        PROVE  v[k] = most + (k - n) /\ v[k] \in Nat /\ v[k] >= most + 1
    <3>1. v[k] = most + (k - n)
      BY <1>5, <2>2
    <3> HIDE DEF v
    <3>2. k - n \in Int /\ k - n >= 1
      BY <1>5, <2>2
    <3>3. QED
      BY <1>4, <3>1, <3>2
  <2>3. QED
    BY <2>1, <2>2
<1>7. v \in [DOMAIN E -> Nat]
  <2>1. \A k \in DOMAIN E : v[k] \in Nat
    BY <1>6
  <2>2. v = [k \in DOMAIN E |-> v[k]]
    OBVIOUS
  <2> HIDE DEF v
  <2>3. QED
    BY <2>1, <2>2
<1> HIDE DEF v
<1>8. \A k \in DOMAIN E : v[k] >= j + 1
  BY <1>2, <1>4, <1>6
<1>9. \A k, l \in DOMAIN E : k < l => v[k] < v[l]
  <2> TAKE k, l \in DOMAIN E
  <2> SUFFICES ASSUME k < l PROVE v[k] < v[l]
    OBVIOUS
  <2>1. k \in Nat /\ l \in Nat /\ n \in Nat
    BY <1>1, <1>5
  <2>2. CASE l \in DOMAIN D
    <3>1. k \in DOMAIN D
      BY <1>5, <2>1, <2>2
    <3>2. QED
      BY <1>2, <1>6, <2>2, <3>1
  <2>3. CASE l \notin DOMAIN D /\ k \in DOMAIN D
    <3>1. v[k] = u[k] /\ u[k] <= most /\ u[k] \in Nat /\ v[l] \in Nat /\ v[l] >= most + 1
      BY <1>4, <1>6, <2>3
    <3>2. QED
      BY <1>4, <3>1
  <2>4. CASE l \notin DOMAIN D /\ k \notin DOMAIN D
    <3>1. v[k] = most + (k - n) /\ v[l] = most + (l - n)
      BY <1>6, <2>4
    <3>2. QED
      BY <1>4, <2>1, <3>1
  <2>5. QED
    BY <2>2, <2>3, <2>4
<1>10. \A k \in DOMAIN E : (v[k] <= top /\ Carries(E[k], f, b, v[k])) \/ E[k].type = "ERROR"
  <2> TAKE k \in DOMAIN E
  <2>1. CASE k \in DOMAIN D
    BY <1>1, <1>2, <1>6, <2>1
  <2>2. CASE k \notin DOMAIN D
    <3>1. k > n /\ k - n \in DOMAIN X
      BY <1>1, <1>5, <2>2
    <3>2. E[k] = X[k - n]
      BY <1>1, <3>1
    <3>3. QED
      BY <3>1, <3>2 DEF OnlyErrors
  <2>3. QED
    BY <2>1, <2>2
<1>11. ASSUME all PROVE Len(E) >= top - j /\ \A k \in DOMAIN E : v[k] = j + k
  <2>1. n >= top - j /\ \A k \in DOMAIN D : u[k] = j + k
    BY <1>2, <1>11
  <2>2. Len(E) >= top - j
    BY <1>1, <2>1
  <2>3. ASSUME NEW k \in DOMAIN E PROVE v[k] = j + k
    <3>1. CASE k \in DOMAIN D
      BY <1>6, <2>1, <3>1
    <3>2. CASE k \notin DOMAIN D
      <4>1. v[k] = most + (k - n) /\ most = j + n /\ k \in Nat
        BY <1>4, <1>5, <1>6, <1>11, <3>2
      <4>2. QED
        BY <1>1, <4>1
    <3>3. QED
      BY <3>1, <3>2
  <2>4. QED
    BY <2>2, <2>3
<1>12. Stream(E, f, b, j, top, all)
  BY <1>3, <1>7, <1>8, <1>9, <1>10, <1>11 DEF Stream
<1>13. QED
  BY <1>12 DEF E

LEMMA FlowErrors ==
  ASSUME NEW c, NEW r, NEW D \in Seq(PacketSet), NEW X \in Seq(PacketSet), OnlyErrors(X),
         NEW b, NEW top \in Nat, Flow(c, r, D, b, top)
  PROVE  Flow(c, r, D \o X, b, top)
<1> DEFINE all == c.faults = {}
           E == D \o X
<1>1. all \in BOOLEAN
  OBVIOUS
<1> HIDE DEF all, E
<1>2. CASE \E j \in Nat : Through(r, b, j) /\ Stream(D, r.file, b, j, top, all)
  <2>1. PICK j \in Nat : Through(r, b, j) /\ Stream(D, r.file, b, j, top, all)
    BY <1>2
  <2>2. Stream(E, r.file, b, j, top, all)
    BY <1>1, <2>1, StreamErrors DEF E
  <2>3. QED
    BY <2>1, <2>2 DEF Flow, all, E
<1>3. CASE \E g \in Nat : ~all /\ Stuck(r, b, g) /\ Stream(D, r.file, b, g + 1, top, FALSE)
  <2>1. PICK g \in Nat : ~all /\ Stuck(r, b, g) /\ Stream(D, r.file, b, g + 1, top, FALSE)
    BY <1>3
  <2> DEFINE h == g + 1
  <2>2. h \in Nat /\ Stream(D, r.file, b, h, top, FALSE)
    <3>1. h \in Nat
      BY <2>1
    <3>2. QED
      BY Zenon, <2>1, <3>1
  <2> HIDE DEF h
  <2>3. Stream(E, r.file, b, h, top, FALSE)
    BY <2>2, StreamErrors DEF E
  <2>4. QED
    BY <2>1, <2>3 DEF Flow, all, h, E
<1>4. QED
  BY <1>2, <1>3 DEF Flow, all

LEMMA BeginsLength ==
  ASSUME NEW d, NEW q, NEW n, Begins(d, q, n)
  PROVE  Begins(d, q, Len(d)) /\ Len(d) = n
BY DEF Begins

\* A file that has been opened and not been written to.
LEMMA OpenThrough ==
  ASSUME NEW c, Ours(c), NEW s \in SndSet, NEW r \in RcvSet, NEW D, NEW U, Got(s, r, D, U),
         s.state = "SA", ~Ended(s), Due(c, s, r, D, U)
  PROVE  LET n == Len(r.disk[r.file])
         IN /\ r.open /\ r.file = s.file /\ n \in 0 .. Len(Batch[r.file]) /\ n \in Nat
            /\ Len(Batch[r.file]) \in Nat /\ s.seq \in Nat
            /\ Flow(c, r, <<>>, s.seq - n, n)
            /\ U # <<>> => U[1].n = n
<1> DEFINE file == r.file
           size == Len(Batch[file])
           n == Len(r.disk[file])
           b == s.seq - n
           all == c.faults = {}
           none == <<>>
<1>1. r.open /\ r.file = s.file /\ Has(r, s.seq % SeqCount) /\ Cell(r).type # "DATA"
  BY DEF Got
<1>2. file \in Files /\ size \in Nat
  BY KermitAssumption, ConstantFacts DEF RcvSet, RcvFields, Files
<1>3. s.seq \in Nat
  BY SndFacts DEF SndFields
<1>4. r.disk[file] = c.disk[file] /\ (U # <<>> => U[1].n = n)
  BY <1>1 DEF Due
<1>5. PICK m \in Nat : Begins(r.disk[file], Batch[file], m)
  BY <1>2, <1>4 DEF Ours
<1>6. Begins(r.disk[file], Batch[file], n) /\ n = m
  BY <1>5, BeginsLength
<1>7. n \in 0 .. size /\ n \in Nat
  BY <1>5, <1>6 DEF Begins
<1> HIDE DEF n, size, file
<1>8. b + n = s.seq /\ n <= n /\ n - n = 0
  BY <1>3, <1>7
<1> HIDE DEF b
<1>9. Through(r, b, n)
  BY <1>1, <1>6, <1>7, <1>8 DEF Through, file
<1>10. DOMAIN none = {} /\ Len(none) = 0
  BY NoneOnLine
<1> HIDE DEF none, all
<1>11. Stream(none, file, b, n, n, all)
  <2> DEFINE u == [k \in DOMAIN none |-> n]
  <2>1. u \in [DOMAIN none -> Nat]
    BY <1>7
  <2>2. Len(none) >= n - n
    BY <1>8, <1>10
  <2> HIDE DEF u
  <2>3. QED
    BY <1>8, <1>10, <2>1, <2>2 DEF Stream
<1>12. Flow(c, r, none, b, n)
  BY <1>7, <1>9, <1>11 DEF Flow, all, file
<1>13. QED
  BY <1>1, <1>2, <1>3, <1>4, <1>7, <1>12 DEF b, n, size, file, none

\* The first packet of a file that is taken up where the receiver's ends.
LEMMA OpenAnswered ==
  ASSUME NEW c, Ours(c), NEW s \in SndSet, NEW r \in RcvSet, NEW D, NEW U \in Seq(PacketSet),
         U # <<>>, Got(s, r, D, U), s.state = "SA", Behind(s, r), ~Ended(s), Due(c, s, r, D, U)
  PROVE  LET e == Answered(s, Head(U))
         IN Due(c, e.s, r, D \o e.out, Tail(U))
<1> DEFINE p == Head(U)
           e == Answered(s, p)
           x == e.s
           V == Tail(U)
           file == r.file
           size == Len(Batch[file])
           n == Len(r.disk[file])
           b == s.seq - n
           seq == (s.seq + 1) % SeqCount
           q1 == Packet("EOF", seq, "", 0)
           q2 == Packet("DATA", seq, "", Batch[file][n + 1])
           first == n + 1
<1>1. p \in PacketSet /\ p = U[1]
  BY TailFacts
<1>2. /\ r.open /\ file = s.file /\ n \in 0 .. size /\ n \in Nat /\ size \in Nat
      /\ s.seq \in Nat /\ Flow(c, r, <<>>, b, n) /\ p.n = n
  BY <1>1, OpenThrough
<1>3. p.type = "ACK" /\ p.note = "pos" /\ D = <<>>
  <2>1. D = <<>> /\ \E m \in Nat : U = <<Packet("ACK", s.seq % SeqCount, "pos", m)>>
    BY DEF Got
  <2>2. PICK m \in Nat : U = <<Packet("ACK", s.seq % SeqCount, "pos", m)>>
    BY <2>1
  <2> DEFINE w == Packet("ACK", s.seq % SeqCount, "pos", m)
  <2>3. w.type = "ACK" /\ w.note = "pos"
    BY DEF Packet
  <2> HIDE DEF w
  <2>4. p = w
    BY <2>2, OneOnLine DEF w
  <2>5. QED
    BY <2>1, <2>3, <2>4
<1>4. s.mode = "streaming" /\ ~s.skip
  BY DEF Got, InStep, Behind
<1> HIDE DEF p
<1>5. PICK t \in SndSet :
        /\ Steady(s, t) /\ e.s = Sent(Continued(t, p)).s /\ e.out = Continued(t, p).out
        /\ HandledBy(t, Continued(t, p))
  BY <1>1, <1>3, <1>4, AnsweredAck
<1> HIDE DEF e
<1> DEFINE d == Continued(t, p)
<1>6. t.state = "SA" /\ ~t.skip /\ t.file = s.file /\ t.seq = s.seq /\ t.mode = "streaming"
  BY <1>4, <1>5 DEF Steady
<1>7. LET f == Continued(t, p)
          z == Len(Batch[t.file])
          w == (t.seq + 1) % SeqCount
      IN /\ f.s.seq = t.seq + 1 /\ f.s.mode = t.mode /\ f.s.file = t.file
         /\ f.s.window = t.window /\ ~f.s.skip
         /\ \/ /\ p.n = z /\ f.s.state = "SZ" /\ f.s.pos = p.n
               /\ f.out = <<Packet("EOF", w, "", 0)>>
            \/ /\ p.n < z /\ f.s.state = "SDW" /\ f.s.pos = p.n + 1
               /\ f.out = <<Packet("DATA", w, "", Batch[t.file][p.n + 1])>>
            \/ /\ p.n > z /\ f.s.state = "SDW" /\ f.s.pos = z
               /\ f.out = <<Packet("DATA", w, "", 0)>>
  BY Zenon, <1>1, <1>3, <1>6, AttributesAcked
<1>8. d.s \in SndFields
  BY <1>5 DEF HandledBy
<1>9. Steady(d.s, Sent(d).s)
  BY <1>8, SentSteady
<1>10. ~(n > size) /\ ~(n < size /\ n = size)
  BY <1>2
<1>11. /\ d.s.seq = s.seq + 1 /\ d.s.mode = "streaming" /\ d.s.file = file
       /\ \/ n = size /\ d.s.state = "SZ" /\ d.s.pos = n /\ d.out = <<q1>>
          \/ n < size /\ d.s.state = "SDW" /\ d.s.pos = first /\ d.out = <<q2>>
  <2> HIDE DEF n
  <2>1. QED
    BY Zenon, <1>2, <1>6, <1>7, <1>10
<1> HIDE DEF d, q1, q2, seq, size, b
<1>12. /\ x.seq = s.seq + 1 /\ x.mode = "streaming" /\ x.file = file
       /\ \/ n = size /\ x.state = "SZ" /\ x.pos = n /\ e.out = <<q1>>
          \/ n < size /\ x.state = "SDW" /\ x.pos = first /\ e.out = <<q2>>
  BY <1>5, <1>9, <1>11 DEF Steady, d
<1> HIDE DEF n
<1>13. first \in Nat /\ Top(x) = first
  BY <1>2, <1>12 DEF Top
<1>14. x.seq - first = b /\ seq = (b + first) % SeqCount
  <2>1. s.seq + 1 = b + first
    BY <1>2 DEF b
  <2>2. b \in Int
    BY <1>2 DEF b
  <2>3. QED
    BY <1>2, <1>12, <1>13, <2>1, <2>2 DEF seq
<1>15. ASSUME NEW q, Carries(q, file, b, first), q.type # "ERROR", e.out = <<q>>
       PROVE  Due(c, x, r, D \o e.out, V)
  <2>1. <<>> \in Seq(PacketSet) /\ \A i \in DOMAIN <<>> : <<>>[i].type # "ERROR"
    BY NoneOnLine
  <2>2. Flow(c, r, <<>> \o <<q>>, b, first)
    <3> DEFINE none == <<>>
    <3>1. none \in Seq(PacketSet) /\ (\A i \in DOMAIN none : none[i].type # "ERROR")
          /\ Flow(c, r, none, b, n)
      BY Zenon, <1>2, <2>1
    <3> HIDE DEF none
    <3>2. Flow(c, r, none \o <<q>>, b, n + 1)
      BY <1>2, <1>15, <3>1, FlowMore DEF file
    <3>3. QED
      BY <3>2 DEF none
  <2>3. D \o e.out = <<q>> /\ <<>> \o <<q>> = <<q>> /\ DOMAIN <<q>> = {1} /\ <<q>>[1] = q
    BY <1>3, <1>15, OneOnLine
  <2>4. x.pos \in 0 .. size /\ (x.state = "SZ" => x.pos = size)
    BY <1>2, <1>12
  <2>5. ~Ended(x) /\ x.state \in {"SDW", "SZ"}
    BY <1>12 DEF Ended
  <2>6. x.pos \in 0 .. Len(Batch[x.file]) /\ (x.state = "SZ" => x.pos = Len(Batch[x.file]))
    BY <1>12, <2>4 DEF size
  <2>7. Flow(c, r, D \o e.out, x.seq - Top(x), Top(x))
    BY <1>13, <1>14, <2>2, <2>3
  <2>8. \A i \in DOMAIN (D \o e.out) : (D \o e.out)[i].type # "ERROR"
    BY <1>15, <2>3
  <2>9. QED
    BY <2>5, <2>6, <2>7, <2>8 DEF Due
<1>16. CASE n = size /\ e.out = <<q1>>
  <2>1. q1.type = "EOF"
    BY DEF q1, Packet
  <2>2. Carries(q1, file, b, first)
    BY Zenon, <1>14, <1>16 DEF Carries, q1, size
  <2>3. Due(c, x, r, D \o e.out, V)
    BY <1>15, <1>16, <2>1, <2>2
  <2>4. QED
    BY <2>3 DEF e, p
<1>17. CASE n < size /\ e.out = <<q2>>
  <2>1. q2.type = "DATA"
    BY DEF q2, Packet
  <2>2. first \in 1 .. size
    BY <1>2, <1>17
  <2>3. Carries(q2, file, b, first)
    BY Zenon, <1>14, <2>2 DEF Carries, q2, size
  <2>4. Due(c, x, r, D \o e.out, V)
    BY <1>15, <1>17, <2>1, <2>3
  <2>5. QED
    BY <2>4 DEF e, p
<1>18. QED
  BY <1>12, <1>16, <1>17

\* The sender of a stream has ended.
LEMMA PartsDisk ==
  ASSUME NEW c, Ours(c), NEW s \in SndSet, ~Ended(s), NEW r \in RcvSet,
         NEW D \in Seq(PacketSet), NEW U \in Seq(PacketSet), Phase(s, r, D, U), ~Ended(r),
         Due(c, s, r, D, U), ~Flowing(s, r, D, U) => D = <<>>,
         NEW t, Ended(t), NEW X \in Seq(PacketSet), OnlyErrors(X), NEW V
  PROVE  Due(c, t, r, D \o X, V)
<1> DEFINE E == D \o X
           size == Len(Batch[r.file])
<1>1. D = <<>> => E = X
  BY BehindNothing
<1> HIDE DEF E
<1>2. r.file \in Files /\ size \in Nat
  BY KermitAssumption, ConstantFacts DEF RcvSet, RcvFields, Files
<1>3. CASE ~r.open
  <2>1. ~Flowing(s, r, D, U)
    BY <1>3 DEF Flowing
  <2>2. OnlyErrors(E)
    BY <1>1, <2>1
  <2>3. Due(c, t, r, E, V)
    BY <1>3, <2>2, DueShut
  <2>4. QED
    BY <2>3 DEF E
<1>4. CASE r.open
  <2>1. Flowing(s, r, D, U) \/ (Got(s, r, D, U) /\ s.state = "SA")
    BY <1>4 DEF Phase, NotBegun, Opening, Fresh, Asked, Got, Shut
  <2>2. \E b \in Int, top \in 0 .. size + 1 : Flow(c, r, D, b, top)
    <3>1. CASE Flowing(s, r, D, U)
      <4> DEFINE b == s.seq - Top(s)
                 top == Top(s)
      <4>1. s.mode = "streaming" /\ s.state \in {"SDW", "SZ"} /\ r.file = s.file
        BY <3>1 DEF Flowing
      <4>2. s.pos \in 0 .. size /\ Flow(c, r, D, b, top)
        BY <1>4, <4>1 DEF Due
      <4>3. s.seq \in Nat
        BY SndFacts DEF SndFields
      <4>4. b \in Int /\ top \in 0 .. size + 1
        BY <1>2, <4>2, <4>3 DEF Top
      <4>5. QED
        BY <4>2, <4>4
    <3>2. CASE Got(s, r, D, U) /\ s.state = "SA"
      <4> DEFINE n == Len(r.disk[r.file])
                 b == s.seq - n
      <4>1. n \in 0 .. size /\ s.seq \in Nat /\ Flow(c, r, <<>>, b, n)
        BY <3>2, OpenThrough
      <4>2. D = <<>>
        BY <3>2 DEF Got
      <4>4. Flow(c, r, D, b, n)
        BY <4>1, <4>2
      <4> HIDE DEF n, size
      <4>3. n \in 0 .. size + 1 /\ b \in Int
        BY <1>2, <4>1
      <4> HIDE DEF b
      <4>5. QED
        BY <4>3, <4>4
    <3>3. QED
      BY <2>1, <3>1, <3>2
  <2>3. PICK b \in Int, top \in 0 .. size + 1 : Flow(c, r, D, b, top)
    BY <2>2
  <2>4. top \in Nat
    BY <1>2
  <2>5. Flow(c, r, E, b, top)
    BY <2>3, <2>4, FlowErrors DEF E
  <2>6. Whole(c, r, E)
    BY <2>3, <2>5 DEF Whole
  <2>7. Due(c, t, r, E, V)
    BY <1>4, <2>6 DEF Due
  <2>8. QED
    BY <2>7 DEF E
<1>5. QED
  BY <1>3, <1>4

LEMMA AnsweredDisk ==
  ASSUME scenario.streaming, NEW c, Ours(c), NEW s \in SndSet, NEW r \in RcvSet,
         NEW D \in Seq(PacketSet), NEW U \in Seq(PacketSet), U # <<>>,
         Course(s, r, D, U), Running(s), Disk(c, s, r, D, U)
  PROVE  LET e == Answered(s, Head(U))
         IN Disk(c, e.s, r, Line(r, D \o e.out), Line(e.s, Tail(U)))
<1> DEFINE p == Head(U)
           e == Answered(s, p)
           x == e.s
           E == D \o e.out
           V == Tail(U)
<1>1. p \in PacketSet /\ p.type \in {"ACK", "NAK"}
  BY AnswersFit
<1>2. s \in SndFields /\ ~Ended(s) /\ s.state # "OFF" /\ Behind(s, r)
      /\ Kept(c, s, r) /\ Due(c, s, r, D, U)
  BY SndFacts DEF Running, Course, Disk
<1>3. x \in SndSet /\ e.out \in Seq(PacketSet)
  BY <1>1, AnsweredTurn DEF TurnOf
<1>4. Onward(s, x) /\ Parts(e)
  BY <1>1, <1>2, AnsweredOnward
<1>5. Kept(c, x, r)
  <2>1. x.file \in Int
    BY <1>3, SndFacts, ConstantFacts DEF SndFields
  <2> HIDE DEF e
  <2>2. QED
    BY <1>2, <1>4, <2>1, KeptOnward
<1>6. ASSUME ~Ended(r) PROVE Due(c, x, r, E, V)
  <2>1. Phase(s, r, D, U) /\ ~NotBegun(s, r, D, U)
    BY <1>2, <1>6 DEF Course, NotBegun
  <2>2. ASSUME Ended(x), ~Flowing(s, r, D, U) => D = <<>> PROVE Due(c, x, r, E, V)
    <3>1. OnlyErrors(e.out)
      BY <1>4, <2>2 DEF Parts
    <3> HIDE DEF e, V
    <3>2. Due(c, x, r, D \o e.out, V)
      BY <1>2, <1>3, <1>6, <2>1, <2>2, <3>1, PartsDisk
    <3>3. QED
      BY <3>2
  <2>3. x.state = "ABORT" => Ended(x)
    BY DEF Ended
  <2>4. CASE Opening(s, r, D, U)
    <3>1. Opening(x, r, E, V) \/ Asked(x, r, E, V)
      BY <2>4, OpeningAnswered
    <3> HIDE DEF x, E, V
    <3>2. ~Ended(x) /\ ~r.open
      BY <3>1 DEF Opening, Asked, InStep, Ended, Fresh
    <3>3. QED
      BY <3>2, DueShut
  <2>5. CASE Asked(s, r, D, U)
    <3>1. x.state = "ABORT" \/ Asked(x, r, E, V)
      BY <2>5, AskedAnswered
    <3>2. D = <<>>
      <4> DEFINE A == NaksBut((s.seq + 1) % SeqCount)
      <4>1. Single(D, U, Pending(s), A)
        BY <2>5 DEF Asked
      <4> HIDE DEF A
      <4>2. \E y \in A : D = <<>> /\ U = <<y>> /\ Head(U) = y /\ Tail(U) = <<>>
        BY Zenon, <4>1, SingleAnswer
      <4>3. QED
        BY <4>2
    <3>3. ~r.open
      BY <2>5 DEF Asked
    <3>4. Asked(x, r, E, V) => ~Ended(x)
      BY DEF Asked, InStep, Ended
    <3> HIDE DEF x, E, V
    <3>5. CASE Ended(x)
      BY <2>2, <3>2, <3>5
    <3>6. CASE ~Ended(x)
      BY <3>3, <3>6, DueShut
    <3>7. QED
      BY <3>5, <3>6
  <2>6. CASE Got(s, r, D, U)
    <3>1. CASE s.state = "SA"
      <4>1. Due(c, e.s, r, D \o e.out, Tail(U))
        BY <1>2, <2>6, <3>1, OpenAnswered
      <4>2. QED
        BY <4>1
    <3>2. CASE s.state # "SA"
      <4>1. Asked(x, r, E, V) \/ Flowing(x, r, E, V)
        BY <1>2, <2>6, GotAnswered
      <4>2. ~r.open
        BY <2>6, <3>2 DEF Got
      <4> HIDE DEF x, E, V
      <4>3. ~Ended(x)
        BY <4>1, <4>2 DEF Asked, Flowing, InStep, Ended
      <4>4. QED
        BY <4>2, <4>3, DueShut
    <3>3. QED
      BY <3>1, <3>2
  <2>7. CASE Flowing(s, r, D, U)
    <3>1. s.mode = "streaming" /\ s.state \in {"SDW", "SZ"} /\ p.type = "NAK"
      <4>1. p = U[1] /\ 1 \in DOMAIN U
        BY TailFacts
      <4> HIDE DEF p
      <4>2. QED
        BY <2>7, <4>1 DEF Flowing
    <3> HIDE DEF p
    <3>2. x.state = "ABORT"
      BY <1>1, <3>1, DataAnswered
    <3>3. QED
      BY <2>2, <2>3, <2>7, <3>2
  <2>8. CASE Shut(s, r, D, U)
    <3>1. x.state = "ABORT" \/ Asked(x, r, E, V)
      BY <2>8, ShutAnswered
    <3>2. D = <<>> /\ ~r.open
      BY <2>8 DEF Shut
    <3>3. Asked(x, r, E, V) => ~Ended(x)
      BY DEF Asked, InStep, Ended
    <3> HIDE DEF x, E, V
    <3>4. CASE Ended(x)
      BY <2>2, <3>2, <3>4
    <3>5. CASE ~Ended(x)
      BY <3>2, <3>5, DueShut
    <3>6. QED
      BY <3>4, <3>5
  <2>9. QED
    BY <2>1, <2>4, <2>5, <2>6, <2>7, <2>8 DEF Phase
<1> HIDE DEF x, E, V
<1>7. Disk(c, x, r, Line(r, E), Line(x, V))
  BY <1>5, <1>6, DiskLine
<1>8. QED
  BY <1>7 DEF x, E, V

LEMMA UnansweredDisk ==
  ASSUME scenario.streaming, NEW c, NEW s \in SndSet, NEW r \in RcvSet,
         NEW D \in Seq(PacketSet), NEW U \in Seq(PacketSet), Course(s, r, D, U), Running(s),
         Disk(c, s, r, D, U)
  PROVE  LET e == Unanswered(s)
         IN Disk(c, e.s, r, Line(r, D \o e.out), Line(e.s, U))
<1> DEFINE e == Unanswered(s)
           x == e.s
           E == D \o e.out
<1>1. s \in SndFields /\ ~Ended(s) /\ s.state # "OFF" /\ Behind(s, r)
      /\ Kept(c, s, r) /\ Due(c, s, r, D, U)
  BY SndFacts DEF Running, Course, Disk
<1>2. CASE ~(s.state = "SDW" /\ s.mode # "bare")
  <2>1. e.out = <<>> /\ Steady(s, x)
    <3>1. LET f == Rest(s, <<>>)
          IN f.out = <<>> /\ Steady(s, f.s) /\ f.s.window = Moved(s).window
             /\ (Remembers(s) => Remembers(f.s))
      BY <1>2, RestQuiet
    <3>2. QED
      BY <3>1 DEF Unanswered
  <2>2. E = D
    BY <2>1, BehindNothing
  <2> HIDE DEF x, E
  <2>3. Disk(c, x, r, E, U)
    BY <2>1, <2>2, DiskSteady
  <2>4. Kept(c, x, r) /\ Due(c, x, r, E, U)
    BY <2>3 DEF Disk
  <2>5. Disk(c, x, r, Line(r, E), Line(x, U))
    BY <2>4, DiskLine
  <2>6. QED
    BY <2>5 DEF x, E
<1>3. CASE s.state = "SDW" /\ s.mode # "bare"
  <2> DEFINE size == Len(Batch[s.file])
             seq == (s.seq + 1) % SeqCount
             more == s.pos + 1
             b == s.seq - s.pos
             q1 == Packet("EOF", seq, "", 0)
             q2 == Packet("DATA", seq, "", Batch[s.file][more])
             q3 == Packet("DATA", seq, "", 0)
  <2>1. s.mode = "streaming" /\ ~s.skip
    BY <1>1, <1>3 DEF Behind
  <2>2. /\ x.seq = s.seq + 1 /\ x.mode = s.mode /\ x.file = s.file /\ ~x.skip
        /\ \/ s.pos = size /\ x.state = "SZ" /\ x.pos = s.pos /\ e.out = <<q1>>
           \/ s.pos < size /\ x.state = "SDW" /\ x.pos = more /\ e.out = <<q2>>
           \/ s.pos > size /\ x.state = "SDW" /\ x.pos = size /\ e.out = <<q3>>
    BY Zenon, <1>3, <2>1, StreamSent
  <2> HIDE DEF e, q1, q2, q3
  <2>3. s.file \in Nat /\ s.seq \in Nat /\ s.pos \in Nat /\ s.file \in Files /\ size \in Nat
    BY <1>1, <1>3, ConstantFacts, KermitAssumption DEF SndFields, SndSet, Files
  <2>4. x.state \in {"SDW", "SZ"} /\ ~Ended(x)
    BY <2>2 DEF Ended
  <2>5. Kept(c, x, r)
    <3>1. Onward(s, x) /\ x.file \in Int
      BY <1>3, <2>2, <2>3 DEF Onward
    <3>2. QED
      BY <1>1, <3>1, KeptOnward
  <2> HIDE DEF size, b
  <2>6. ASSUME ~Ended(r) PROVE Due(c, x, r, E, U)
    <3>1. Phase(s, r, D, U)
      BY <1>1, <2>6 DEF Course
    <3>2. Flowing(s, r, D, U)
      <4>1. ~InStep(s)
        BY <1>3, <2>1 DEF InStep
      <4>2. QED
        BY <1>3, <3>1, <4>1 DEF Phase, NotBegun, Opening, Asked, Got, Shut
    <3>3. r.open /\ r.file = s.file
      BY <3>2 DEF Flowing
    <3>4. /\ s.pos \in 0 .. size
          /\ \A i \in DOMAIN D : D[i].type # "ERROR"
          /\ Flow(c, r, D, b, s.pos)
      <4>1. Top(s) = s.pos
        BY <1>3 DEF Top
      <4>2. QED
        BY <1>1, <1>3, <2>1, <3>3, <4>1 DEF Due, size, b
    <3>5. more \in Nat /\ Top(x) = more /\ ~(s.pos > size)
      BY <2>2, <2>3, <3>4 DEF Top
    <3>6. x.seq - more = b /\ seq = (b + more) % SeqCount
      <4>1. s.seq + 1 = b + more
        BY <2>3 DEF b
      <4>2. b \in Int
        BY <2>3 DEF b
      <4>3. QED
        BY <2>2, <2>3, <4>1, <4>2
    <3> HIDE DEF more, seq
    <3>7. ASSUME NEW q, Carries(q, r.file, b, more), q.type # "ERROR", e.out = <<q>>
          PROVE  Due(c, x, r, E, U)
      <4>1. Flow(c, r, D \o <<q>>, b, more)
        <5>1. Carries(q, r.file, b, s.pos + 1)
          BY <3>7 DEF more
        <5>2. Flow(c, r, D \o <<q>>, b, s.pos + 1)
          BY <2>3, <3>4, <5>1, FlowMore
        <5>3. QED
          BY <5>2 DEF more
      <4>2. E = D \o <<q>>
        BY <3>7
      <4>3. \A i \in DOMAIN E : E[i].type # "ERROR"
        <5>1. /\ Len(E) = Len(D) + 1 /\ DOMAIN E = 1 .. Len(D) + 1 /\ Len(D) \in Nat
              /\ E[Len(D) + 1] = q /\ \A i \in 1 .. Len(D) : E[i] = D[i]
              /\ DOMAIN D = 1 .. Len(D)
          BY <4>2, BehindFacts
        <5> HIDE DEF E
        <5> TAKE i \in DOMAIN E
        <5>2. CASE i = Len(D) + 1
          BY <3>7, <5>1, <5>2
        <5>3. CASE i # Len(D) + 1
          <6>1. i \in DOMAIN D
            BY <5>1, <5>3
          <6>2. QED
            BY <3>4, <5>1, <6>1
        <5>4. QED
          BY <5>2, <5>3
      <4> HIDE DEF E
      <4>4. x.pos \in 0 .. size /\ (x.state = "SZ" => x.pos = size)
        BY <2>2, <2>3, <3>4, <3>5 DEF more
      <4>5. x.pos \in 0 .. Len(Batch[x.file]) /\ (x.state = "SZ" => x.pos = Len(Batch[x.file]))
        BY <2>2, <4>4 DEF size
      <4>6. Flow(c, r, E, x.seq - Top(x), Top(x))
        BY <3>5, <3>6, <4>1, <4>2
      <4>7. x.state # "SA"
        BY <2>4
      <4>8. QED
        BY <2>4, <4>3, <4>5, <4>6, <4>7 DEF Due
    <3>8. CASE s.pos = size /\ e.out = <<q1>>
      <4>1. q1.type = "EOF"
        BY DEF q1, Packet
      <4>2. more = Len(Batch[r.file]) + 1
        BY <3>3, <3>8 DEF more, size
      <4>3. Carries(q1, r.file, b, more)
        BY Zenon, <3>6, <4>2 DEF Carries, q1
      <4>4. QED
        BY <3>7, <3>8, <4>1, <4>3
    <3>9. CASE s.pos < size /\ e.out = <<q2>>
      <4>1. q2.type = "DATA"
        BY DEF q2, Packet
      <4>2. more \in 1 .. Len(Batch[r.file])
        BY <2>3, <3>3, <3>9 DEF more, size
      <4>3. Carries(q2, r.file, b, more)
        BY Zenon, <3>3, <3>6, <4>2 DEF Carries, q2
      <4>4. QED
        BY <3>7, <3>9, <4>1, <4>3
    <3>10. QED
      BY <2>2, <3>5, <3>8, <3>9
  <2> HIDE DEF x, E
  <2>7. Disk(c, x, r, Line(r, E), Line(x, U))
    BY <2>5, <2>6, DiskLine
  <2>8. QED
    BY <2>7 DEF x, E, e
<1>4. QED
  BY <1>2, <1>3

LEMMA SenderTimeoutDisk ==
  ASSUME NEW c, Ours(c), NEW s \in SndSet, NEW r \in RcvSet, Course(s, r, <<>>, <<>>),
         TimesOut(s), Disk(c, s, r, <<>>, <<>>)
  PROVE  LET e == SenderTimedOut(s)
         IN Disk(c, e.s, r, Line(r, <<>> \o e.out), Line(e.s, <<>>))
<1> DEFINE last == IsLastTimeout(s)
           t == [s EXCEPT !.timeouts = @ + 1, !.state = IF last THEN "ABORT" ELSE @]
           again == IF Windowing(s) /\ s.window # <<>> THEN <<s.window[1].packet>> ELSE <<>>
           x == Error(s)
           error == IF last /\ HasRoom(s) THEN <<x>> ELSE <<>>
           e == SenderTimedOut(s)
           none == <<>>
<1>1. /\ Behind(s, r) /\ s \in SndFields /\ ~Ended(s)
      /\ Kept(c, s, r) /\ Due(c, s, r, none, none)
  BY DEF Course, SndSet, TimesOut, Running, Disk
<1>2. e.s = t /\ e.out = again \o error
  BY DEF SenderTimedOut
<1>3. again = <<>>
  BY <1>1 DEF Behind, Windowing
<1>4. /\ t.seq = s.seq /\ t.mode = s.mode /\ t.pos = s.pos /\ t.file = s.file
      /\ t.skip = s.skip /\ t.state = IF last THEN "ABORT" ELSE s.state
  BY <1>1 DEF SndFields
<1>5. x \in PacketSet /\ x.type = "ERROR"
  <2>1. s.seq \in Nat
    BY <1>1 DEF SndFields
  <2>2. s.seq % SeqCount \in Nat
    BY <2>1, ConstantFacts
  <2>3. x \in PacketSet
    BY <2>2, PlainType DEF Error, Types
  <2>4. QED
    BY <2>3 DEF Error, Plain, Packet
<1> HIDE DEF t, again, e, x
<1>6. none \in Seq(PacketSet) /\ error \in Seq(PacketSet) /\ OnlyErrors(error)
  BY <1>5, OneError
<1> HIDE DEF error
<1>7. <<>> \o e.out = none \o error
  BY <1>2, <1>3, <1>6, BehindNothing
<1>8. CASE last
  <2>1. t.state = "ABORT" /\ Ended(t)
    BY <1>4, <1>8 DEF Ended
  <2>2. s.file \in Nat
    BY <1>1, ConstantFacts DEF SndFields
  <2>3. Onward(s, t) /\ t.file \in Int
    BY <1>4, <2>1, <2>2 DEF Onward
  <2>4. Kept(c, t, r)
    BY <1>1, <2>3, KeptOnward
  <2>5. ASSUME ~Ended(r) PROVE Due(c, t, r, none \o error, none)
    <3>1. Phase(s, r, none, none)
      BY <1>1, <2>5 DEF Course
    <3>2. none = <<>>
      OBVIOUS
    <3> HIDE DEF none
    <3>3. QED
      BY <1>1, <1>6, <2>1, <2>5, <3>1, <3>2, PartsDisk
  <2>6. Disk(c, t, r, Line(r, none \o error), Line(t, none))
    <3> HIDE DEF none
    <3>1. QED
      BY <2>4, <2>5, DiskLine
  <2>7. QED
    BY <1>2, <1>7, <2>6 DEF e
<1>9. CASE ~last
  <2>1. Steady(s, t)
    BY <1>4, <1>9 DEF Steady
  <2>2. none \o error = none
    BY <1>9, NoneOnLine DEF error
  <2>3. Disk(c, t, r, none, none)
    BY <2>1, DiskSteady
  <2>4. Kept(c, t, r) /\ Due(c, t, r, none, none)
    BY <2>3 DEF Disk
  <2>5. Disk(c, t, r, Line(r, none), Line(t, none))
    BY <2>4, DiskLine
  <2>6. QED
    BY <1>2, <1>7, <2>2, <2>5 DEF e
<1>10. QED
  BY <1>8, <1>9

LEMMA SenderStartDisk ==
  ASSUME NEW c, NEW s \in SndSet, s.state = "OFF", NEW r \in RcvSet, NEW D, NEW U,
         Course(s, r, D, U), Disk(c, s, r, D, U)
  PROVE  LET e == Sent(SendInit(s))
         IN Disk(c, e.s, r, Line(r, D \o e.out), Line(e.s, <<>>))
<1> DEFINE u == [s EXCEPT !.state = "S", !.seq = 0]
           d == SendInit(s)
           e == Sent(d)
           x == e.s
           E == D \o e.out
<1>1. s \in SndFields /\ ~Ended(s) /\ Kept(c, s, r)
  BY DEF SndSet, Ended, Disk
<1>2. ~Ended(r) /\ NotBegun(s, r, D, U)
  BY <1>1 DEF Course, Alone, Phase, Opening, Asked, Got, Flowing, Shut, InStep
<1>3. d.s = u
  BY DEF SendInit, Sends
<1>4. u \in SndFields /\ u.state = "S" /\ u.file = s.file
  BY <1>1 DEF SndFields, States
<1> HIDE DEF u, d
<1>5. Steady(u, x)
  BY <1>3, <1>4, SentSteady
<1>6. x.state = "S" /\ x.file = s.file /\ ~Ended(x) /\ s.file \in Nat
  BY <1>1, <1>4, <1>5, ConstantFacts DEF Steady, Ended, SndFields
<1> HIDE DEF e
<1>7. Kept(c, x, r)
  <2>1. Onward(s, x) /\ x.file \in Int
    BY <1>6 DEF Onward
  <2>2. QED
    BY <1>1, <2>1, KeptOnward
<1>8. Due(c, x, r, E, <<>>)
  <2>1. ~r.open
    BY <1>2 DEF NotBegun, Fresh
  <2>2. QED
    BY <1>6, <2>1, DueShut
<1>9. Disk(c, x, r, Line(r, E), Line(x, <<>>))
  BY <1>7, <1>8, DiskLine
<1>10. QED
  BY <1>9 DEF e, d

-----------------------------------------------------------------------------

LEMMA DiskInit ==
  ASSUME Init
  PROVE  Disk(scenario, snd, rcv, down, up)
<1>1. snd.state = "OFF" /\ rcv.open = FALSE /\ rcv.closed = {} /\ rcv.disk = scenario.disk
  BY DEF Init
<1>2. ~Ended(snd)
  BY <1>1 DEF Ended
<1>3. Kept(scenario, snd, rcv)
  BY <1>1 DEF Kept
<1>4. Due(scenario, snd, rcv, down, up)
  BY <1>1, <1>2, DueShut
<1>5. QED
  BY <1>3, <1>4 DEF Disk

LEMMA SenderStepsDisk ==
  ASSUME NEW c, c.s \in SndSet, NEW left, SenderSteps(c, left),
         Disk(scenario, c.s, rcv, Line(rcv, down \o c.out), Line(c.s, left))
  PROVE  Disk(scenario, snd, rcv, down, up)'
<1>1. /\ snd' \in Called(c.s, left) /\ rcv' = rcv /\ scenario' = scenario
      /\ down' = Line(rcv, down \o c.out) /\ up' = Line(c.s, left)
  BY DEF SenderSteps
<1>2. Steady(c.s, snd')
  <2>1. snd' \in {c.s, Moved(c.s)}
    BY <1>1 DEF Called
  <2>2. QED
    BY <2>1, MovedSteady DEF Steady
<1>3. Disk(scenario, snd', rcv, down', up')
  BY <1>1, <1>2, DiskSteady
<1>4. QED
  BY <1>1, <1>3

LEMMA ReceiverStepsDisk ==
  ASSUME NEW c, NEW left, ReceiverSteps(c, left),
         Disk(scenario, snd, c.r, Line(c.r, left), Line(snd, up \o c.out))
  PROVE  Disk(scenario, snd, rcv, down, up)'
BY DEF ReceiverSteps

LEMMA SenderUnaskedDisk ==
  ASSUME scenario.streaming, snd \in SndSet, rcv \in RcvSet, down \in Seq(PacketSet),
         NEW left \in Seq(PacketSet), Course(snd, rcv, down, left), Running(snd),
         Disk(scenario, snd, rcv, down, left), SenderSteps(Unanswered(snd), left)
  PROVE  Disk(scenario, snd, rcv, down, up)'
<1> DEFINE c == Unanswered(snd)
<1>1. Disk(scenario, c.s, rcv, Line(rcv, down \o c.out), Line(c.s, left))
  BY UnansweredDisk
<1>2. c.s \in SndSet
  <2>1. Plain("ACK", 0) \in PacketSet
    BY PlainType DEF Types
  <2>2. QED
    BY <2>1, AnsweredTurn DEF TurnOf, Running
<1> HIDE DEF c
<1>3. SenderSteps(c, left)
  BY DEF c
<1>4. QED
  BY <1>1, <1>2, <1>3, SenderStepsDisk

LEMMA DiskNext ==
  ASSUME Typed, Straight(scenario), Ours(scenario), Short \/ scenario.faults = {},
         Course(snd, rcv, down, up), Disk(scenario, snd, rcv, down, up), Next
  PROVE  Disk(scenario, snd, rcv, down, up)'
<1>1. /\ scenario.streaming /\ scenario.prompt
      /\ "late" \notin scenario.faults /\ "skip" \notin scenario.faults
      /\ snd \in SndSet /\ rcv \in RcvSet /\ rcv.mode = "streaming"
      /\ down \in Seq(PacketSet) /\ up \in Seq(PacketSet)
      /\ scenario.disk \in [Files -> Seq(Nat)]
  BY KermitAssumption DEF Typed, Straight, KermitAssumption, ScenarioOK
<1>2. CASE SenderStart
  <2> DEFINE c == Sent(SendInit(snd))
  <2>1. snd.state = "OFF" /\ SenderSteps(c, Without(up, Len(up)))
    BY <1>1, <1>2 DEF SenderStart, Tossed
  <2>2. Without(up, Len(up)) = <<>>
    BY <1>1 DEF Without
  <2>3. Disk(scenario, c.s, rcv, Line(rcv, down \o c.out), Line(c.s, <<>>))
    BY <1>1, <2>1, SenderStartDisk
  <2>4. c.s \in SndSet
    BY <1>1, <2>1, SenderStartTurn DEF TurnOf
  <2> HIDE DEF c
  <2>5. QED
    BY <2>1, <2>2, <2>3, <2>4, SenderStepsDisk
<1>3. CASE ReceiverStart
  <2> DEFINE c == Nak([rcv EXCEPT !.state = "R"], 0)
  <2>1. rcv.state = "OFF" /\ ReceiverSteps(c, Without(down, Len(down)))
    BY <1>1, <1>3 DEF ReceiverStart, Tossed
  <2>2. Without(down, Len(down)) = <<>>
    BY <1>1 DEF Without
  <2>3. Disk(scenario, snd, c.r, Line(c.r, <<>>), Line(snd, up \o c.out))
    BY <1>1, <2>1, ReceiverStartDisk
  <2> HIDE DEF c
  <2>4. QED
    BY <2>1, <2>2, <2>3, ReceiverStepsDisk
<1>4. CASE SenderReads
  <2> DEFINE c == Answered(snd, Head(up))
  <2>1. Running(snd) /\ up # <<>> /\ SenderSteps(c, Tail(up))
    BY <1>4 DEF SenderReads
  <2>2. Disk(scenario, c.s, rcv, Line(rcv, down \o c.out), Line(c.s, Tail(up)))
    BY <1>1, <2>1, AnsweredDisk
  <2>3. c.s \in SndSet
    <3>1. Head(up) \in PacketSet
      BY <1>1, <2>1
    <3>2. QED
      BY <1>1, <2>1, <3>1, AnsweredTurn DEF TurnOf, Running
  <2> HIDE DEF c
  <2>4. QED
    BY <2>1, <2>2, <2>3, SenderStepsDisk
<1>5. ASSUME NEW k \in DOMAIN up, Running(snd), SenderSteps(Unanswered(snd), Without(up, k))
      PROVE  Disk(scenario, snd, rcv, down, up)'
  <2>1. Course(snd, rcv, down, Without(up, k)) /\ Disk(scenario, snd, rcv, down, Without(up, k))
    BY <1>1, <1>5, RestsWithout, LessCourse, DiskLessUp
  <2>2. Without(up, k) \in Seq(PacketSet)
    BY <1>1, WithoutType
  <2>3. QED
    BY <1>1, <1>5, <2>1, <2>2, SenderUnaskedDisk
<1>6. CASE SenderRefuses
  BY <1>5, <1>6 DEF SenderRefuses
<1>7. CASE SenderDamaged
  BY <1>5, <1>7 DEF SenderDamaged
<1>8. CASE SenderSendsMore
  <2>1. SenderSteps(Unanswered(snd), up) /\ Running(snd)
    BY <1>8 DEF SenderSendsMore, CanSendMore, Running, Ended
  <2>2. QED
    BY <1>1, <2>1, SenderUnaskedDisk
<1>9. CASE SenderTimeout
  <2> DEFINE c == SenderTimedOut(snd)
  <2>1. TimesOut(snd) /\ SenderSteps(c, up) /\ down = <<>> /\ up = <<>>
    BY <1>9 DEF SenderTimeout, Quiet
  <2>2. Disk(scenario, c.s, rcv, Line(rcv, <<>> \o c.out), Line(c.s, <<>>))
    BY <1>1, <2>1, SenderTimeoutDisk
  <2>3. c.s \in SndSet
    <3>1. snd.timeouts < TimeoutMax
      BY <2>1 DEF Typed, TimesOut, Running, Patient
    <3>2. QED
      BY <1>1, <3>1, SenderTimedOutType
  <2> HIDE DEF c
  <2>4. QED
    BY <2>1, <2>2, <2>3, SenderStepsDisk
<1>10. CASE ReceiverReads
  <2> DEFINE c == Received(rcv, Head(down))
  <2>1. Running(rcv) /\ down # <<>> /\ ReceiverSteps(c, Tail(down))
    BY <1>10 DEF ReceiverReads
  <2>2. Disk(scenario, snd, c.r, Line(c.r, Tail(down)), Line(snd, up \o c.out))
    BY <1>1, <2>1, ReadDisk
  <2> HIDE DEF c
  <2>3. QED
    BY <2>1, <2>2, ReceiverStepsDisk
<1>11. CASE ReceiverTimeout
  <2>1. PICK seq \in TimeoutSeqs(rcv) : ReceiverSteps(ReceiverTimedOut(rcv, seq), down)
    BY <1>11 DEF ReceiverTimeout
  <2> DEFINE c == ReceiverTimedOut(rcv, seq)
  <2>2. TimesOut(rcv) /\ down = <<>> /\ up = <<>>
    BY <1>11 DEF ReceiverTimeout, Quiet
  <2>3. Disk(scenario, snd, c.r, Line(c.r, <<>>), Line(snd, <<>> \o c.out))
    BY <1>1, <2>2, ReceiverTimeoutDisk
  <2>4. ReceiverSteps(c, down)
    BY <2>1
  <2> HIDE DEF c
  <2>5. QED
    BY <2>2, <2>3, <2>4, ReceiverStepsDisk
<1>12. CASE ReceiverDamaged
  <2>1. PICK k \in DOMAIN down, seq \in {0, Head(down).seq} :
          ReceiverSteps(Nak(rcv, seq), Without(down, k))
    BY <1>12 DEF ReceiverDamaged
  <2> DEFINE c == Nak(rcv, seq)
  <2>2. scenario.faults # {}
    BY <1>12 DEF ReceiverDamaged, Goes
  <2>3. Disk(scenario, snd, c.r, Line(c.r, Without(down, k)), Line(snd, up \o c.out))
    BY <1>1, <2>2, AskDisk
  <2>4. ReceiverSteps(c, Without(down, k))
    BY <2>1
  <2> HIDE DEF c
  <2>5. QED
    BY <2>3, <2>4, ReceiverStepsDisk
<1>13. CASE Lose
  <2>1. snd' = snd /\ rcv' = rcv /\ scenario' = scenario
    BY <1>13 DEF Lose
  <2>2. /\ scenario.faults # {}
        /\ \/ down # <<>> /\ down' = Tail(down) /\ up' = up
           \/ up # <<>> /\ up' = Tail(up) /\ down' = down
    BY <1>13 DEF Lose, Goes
  <2>3. Disk(scenario, snd, rcv, down', up')
    <3>1. CASE down # <<>> /\ down' = Tail(down) /\ up' = up
      BY <1>1, <2>2, <3>1, RestsTail, DiskLessDown
    <3>2. CASE up # <<>> /\ up' = Tail(up) /\ down' = down
      BY <1>1, <3>2, RestsTail, DiskLessUp
    <3>3. QED
      BY <2>2, <3>1, <3>2
  <2>4. QED
    BY <2>1, <2>3
<1>14. CASE SenderLate \/ ReceiverLate \/ Skip
  BY <1>1, <1>14 DEF SenderLate, ReceiverLate, Skip, Goes
<1>15. CASE Done
  BY <1>15 DEF Done, vars
<1>16. QED
  BY <1>2, <1>3, <1>4, <1>6, <1>7, <1>8, <1>9, <1>10, <1>11, <1>12, <1>13, <1>14, <1>15
     DEF Next, Works, Fails

\* A file that the receiver of a stream has closed as complete is the sender's file, unit
\* for unit: what is lost is never taken over by what comes later, what was there before
\* is continued where it ends, and a sender that gives up leaves no file that looks
\* complete (save_input_packet(), the RESEND of open_receive_file(), send_SD_next_packet()
\* and the handlers of EOF and ERROR in kermit.c).
THEOREM StreamComplete ==
  Spec /\ Straight(scenario) /\ Ours(scenario) => []OnDiskOnceIfKept
<1> DEFINE Flows == Short \/ scenario.faults = {}
           Inv == /\ Typed /\ Straight(scenario) /\ Ours(scenario)
                  /\ Course(snd, rcv, down, up)
                  /\ Flows => Disk(scenario, snd, rcv, down, up)
<1>1. Init /\ Straight(scenario) /\ Ours(scenario) => Inv
  BY InitTyped, CourseInit, DiskInit
<1>2. Inv /\ [Next]_vars => Inv'
  <2>1. ASSUME Inv, Next PROVE Inv'
    <3>1. Typed'
      BY <2>1, NextTyped
    <3>2. Course(snd, rcv, down, up)'
      BY <2>1, CourseNext
    <3>3. scenario' = scenario
      BY <2>1 DEF Next, Works, Fails, SenderStart, ReceiverStart, SenderReads, SenderRefuses,
           SenderSendsMore, SenderTimeout, ReceiverReads, ReceiverTimeout, Lose, SenderDamaged,
           ReceiverDamaged, SenderLate, ReceiverLate, Skip, SenderSteps, ReceiverSteps, Done,
           vars
    <3>4. Straight(scenario)' /\ Ours(scenario)'
      BY <2>1, <3>3
    <3>5. Flows' => Flows
      BY <3>3
    <3>6. Flows => Disk(scenario, snd, rcv, down, up)'
      BY <2>1, DiskNext
    <3> HIDE DEF Flows
    <3>7. QED
      BY <3>1, <3>2, <3>4, <3>5, <3>6
  <2>2. ASSUME Inv, UNCHANGED vars PROVE Inv'
    <3>1. Typed'
      BY <2>2 DEF vars, Typed, Patient, Ended
    <3>2. QED
      BY <2>2, <3>1 DEF vars
  <2>3. QED
    BY <2>1, <2>2
<1>3. Inv => OnDiskOnceIfKept
  <2> SUFFICES ASSUME Inv, OneRound, NEW f \in rcv.closed PROVE rcv.disk[f] = Batch[f]
    BY DEF OnDiskOnceIfKept, OnDiskOnce
  <2>1. scenario.faults \subseteq FaultKinds
    BY KermitAssumption DEF Typed, KermitAssumption, ScenarioOK
  <2>2. Flows
    <3>1. CASE Lossy
      BY <3>1 DEF OneRound, Straight, Short
    <3>2. CASE ~Lossy
      BY <2>1, <3>2 DEF Lossy, Straight, FaultKinds
    <3>3. QED
      BY <3>1, <3>2
  <2>3. Disk(scenario, snd, rcv, down, up)
    BY <2>2
  <2>4. QED
    BY <2>3 DEF Disk, Kept
<1>4. QED
  BY <1>1, <1>2, <1>3, PTL DEF Spec
-----------------------------------------------------------------------------
(* What nothing is missing of *)

\* The units of a file can be told apart.
Distinct(q) == \A i, j \in DOMAIN q : q[i] = q[j] => i = j

LEMMA UpToCount ==
  ASSUME NEW n \in Nat
  PROVE  Cardinality(1 .. n) = n
BY FS_Interval

\* A sequence of different elements has each for the first time.
LEMMA DistinctFirst ==
  ASSUME NEW q \in Seq(Nat), Distinct(q)
  PROVE  FirstTimes(q) = q
<1> DEFINE new == {i \in DOMAIN q : \A j \in 1 .. i - 1 : q[j] # q[i]}
           upTo(i) == {h \in new : h <= i}
           Place(k) == CHOOSE i \in new : Cardinality(upTo(i)) = k
<1>1. new = 1 .. Len(q)
  BY DEF Distinct
<1>2. ASSUME NEW i \in new PROVE Cardinality(upTo(i)) = i
  <2>1. upTo(i) = 1 .. i
    BY <1>1
  <2>2. Cardinality(1 .. i) = i
    BY <1>1, UpToCount
  <2>3. QED
    BY <2>1, <2>2
<1>3. Cardinality(new) = Len(q)
  <2>1. Cardinality(1 .. Len(q)) = Len(q)
    BY UpToCount
  <2>2. QED
    BY <1>1, <2>1
<1>4. FirstTimes(q) = [k \in 1 .. Len(q) |-> q[Place(k)]]
  BY <1>3 DEF FirstTimes
<1> HIDE DEF new, upTo
<1>5. ASSUME NEW k \in 1 .. Len(q) PROVE Place(k) = k
  BY <1>1, <1>2
<1> HIDE DEF Place
<1>6. QED
  BY <1>4, <1>5

\* A file that the receiver of a stream has closed as complete lacks nothing of the sender's,
\* if its units can be told apart: the circumstances in which the code resends nothing
\* and must notice what is lost by itself (find_input_slot() and the NAK that ends a stream).
THEOREM StreamWhole ==
  Spec /\ Straight(scenario) /\ Ours(scenario) /\ (\A f \in Files : Distinct(Batch[f]))
    => []NothingMissing
<1> DEFINE Given == Straight(scenario) /\ \A f \in Files : Distinct(Batch[f])
<1>1. Given /\ [Next]_vars => Given'
  <2> SUFFICES ASSUME Given, [Next]_vars PROVE scenario' = scenario
    OBVIOUS
  <2>1. CASE Next
    BY <2>1 DEF Next, Works, Fails, SenderStart, ReceiverStart, SenderReads, SenderRefuses,
         SenderSendsMore, SenderTimeout, ReceiverReads, ReceiverTimeout, Lose, SenderDamaged,
         ReceiverDamaged, SenderLate, ReceiverLate, Skip, SenderSteps, ReceiverSteps, Done, vars
  <2>2. QED
    BY <2>1 DEF vars
<1>2. Given /\ TypeOK /\ OnDiskOnceIfKept => NothingMissing
  <2> SUFFICES ASSUME Given, TypeOK, OnDiskOnceIfKept, OneRound, OneTimer, NEW f \in rcv.closed
               PROVE  FirstTimes(rcv.disk[f]) = Batch[f]
    BY DEF NothingMissing
  <2>1. rcv.disk[f] = Batch[f]
    BY DEF Straight, OnDiskOnceIfKept, OnDiskOnce
  <2>2. f \in Files
    BY DEF TypeOK
  <2>3. Batch[f] \in Seq(Nat) /\ Distinct(Batch[f])
    BY <2>2, KermitAssumption DEF KermitAssumption, Files
  <2>4. QED
    BY <2>1, <2>3, DistinctFirst
<1>3. Spec /\ Straight(scenario) /\ Ours(scenario) => [](TypeOK /\ OnDiskOnceIfKept)
  BY TypeCorrect, StreamComplete, PTL
<1> HIDE DEF Given
<1>4. Spec /\ Given => []Given
  BY <1>1, PTL DEF Spec
<1>5. Straight(scenario) /\ (\A f \in Files : Distinct(Batch[f])) => Given
  BY DEF Given
<1>6. QED
  BY <1>2, <1>3, <1>4, <1>5, PTL

=============================================================================
