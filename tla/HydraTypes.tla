----------------------------- MODULE HydraTypes -----------------------------
(***************************************************************************)
(* Type correctness of Hydra for every pair of batches, and the facts on   *)
(* its helpers that the other proofs need.                                 *)
(***************************************************************************)
EXTENDS Hydra, FiniteSetTheorems, SequenceTheorems, WellFoundedInduction, TLAPS

-----------------------------------------------------------------------------
(***************************************************************************)
(* The two programs.                                                       *)
(***************************************************************************)
LEMMA OtherFacts ==
  ASSUME NEW p \in Peers
  PROVE  /\ Other(p) \in Peers
         /\ Other(p) # p
         /\ Other(Other(p)) = p
         /\ \A q \in Peers : q = p \/ q = Other(p)
<1>1. PICK x, y \in Peers : x # y /\ Peers = {x, y}
  BY HydraAssumption DEF HydraAssumption
<1>2. \A q \in Peers : Other(q) \in Peers /\ Other(q) # q
  BY <1>1 DEF Other
<1>3. QED
  BY <1>1, <1>2

-----------------------------------------------------------------------------
(***************************************************************************)
(* A set of naturals with a bound has a least element, so there is a file  *)
(* to begin with after every file, if only the end of the batch.           *)
(***************************************************************************)
LEMMA LeastExists ==
  ASSUME NEW a \in Nat, NEW b \in Nat, NEW S, S \subseteq a .. b, S # {}
  PROVE  \E x \in S : \A y \in S : x <= y
<1> DEFINE below(x) == S \cap (a .. x)
           T == {below(x) : x \in S}
<1>1. IsFiniteSet(a .. b)
  BY FS_Interval
<1>2. IsFiniteSet(S)
  BY <1>1, FS_Subset
<1>3. FiniteSubsetsOf(S) = SUBSET S
  BY <1>2, FS_FiniteSubsetsOfFinite
<1>4. IsWellFoundedOn(StrictSubsetOrdering(S), SUBSET S)
  BY <1>3, FS_StrictSubsetOrderingWellFounded
<1>5. T \subseteq SUBSET S /\ T # {}
  OBVIOUS
<1> HIDE DEF T
<1>6. PICK U \in T : \A V \in T : <<V, U>> \notin StrictSubsetOrdering(S)
  BY <1>4, <1>5, WFMin
<1>7. PICK x \in S : U = below(x)
  BY DEF T
<1>8. SUFFICES ASSUME NEW y \in S, y < x PROVE FALSE
  BY <1>7
<1>9. below(y) \in T
  BY DEF T
<1>10. below(y) \subseteq below(x) /\ x \in below(x) /\ x \notin below(y)
  BY <1>8
<1>11. <<below(y), below(x)>> \in StrictSubsetOrdering(S)
  BY <1>10 DEF StrictSubsetOrdering
<1>12. QED
  BY <1>6, <1>7, <1>9, <1>11

LEMMA BatchType ==
  ASSUME NEW p \in Peers
  PROVE  /\ Batch[p] \in Seq(Seq(Units))
         /\ Len(Batch[p]) \in Nat
         /\ \A k \in FilesOf(p) : Batch[p][k] \in Seq(Units)
         /\ Unreadable[p] \subseteq FilesOf(p)
<1>1. Batch \in [Peers -> Seq(Seq(Units))]
  BY HydraAssumption DEF HydraAssumption
<1>2. Batch[p] \in Seq(Seq(Units))
  BY <1>1
<1>3. Len(Batch[p]) \in Nat /\ \A k \in 1 .. Len(Batch[p]) : Batch[p][k] \in Seq(Units)
  BY <1>2
<1>4. Unreadable[p] \subseteq 1 .. Len(Batch[p])
  BY HydraAssumption DEF HydraAssumption
<1>5. QED
  BY <1>2, <1>3, <1>4 DEF FilesOf

LEMMA OpenableFacts ==
  ASSUME NEW p \in Peers, NEW k \in 1 .. (Len(Batch[p]) + 1)
  PROVE  /\ Openable(p, k) \in k .. (Len(Batch[p]) + 1)
         /\ Openable(p, k) \notin Unreadable[p]
         /\ Skipped(p, k) \in Seq({"OK", "SKIP"})
         /\ Len(Skipped(p, k)) = Openable(p, k) - k
         /\ \A i \in DOMAIN Skipped(p, k) : Skipped(p, k)[i] = "SKIP"
<1> DEFINE S == (k .. (Len(Batch[p]) + 1)) \ Unreadable[p]
<1>1. Len(Batch[p]) \in Nat /\ k \in Nat
  BY BatchType
<1>2. Len(Batch[p]) + 1 \notin Unreadable[p]
  BY <1>1, BatchType DEF FilesOf
<1>3. PICK j \in S : \A i \in S : j <= i
  <2>1. Len(Batch[p]) + 1 \in Nat /\ S # {}
    BY <1>1, <1>2
  <2>2. S \subseteq k .. (Len(Batch[p]) + 1)
    OBVIOUS
  <2> HIDE DEF S
  <2>3. QED
    BY Zenon, <1>1, <2>1, <2>2, LeastExists
<1>4. /\ j \in k .. (Len(Batch[p]) + 1)
      /\ j \notin Unreadable[p]
      /\ \A i \in k .. (j - 1) : i \in Unreadable[p]
  <2>1. SUFFICES ASSUME NEW i \in k .. (j - 1), i \notin Unreadable[p]
                 PROVE  FALSE
    OBVIOUS
  <2>2. j \in Nat /\ i \in Nat /\ k <= i /\ i < j /\ j <= Len(Batch[p]) + 1
    BY <1>1
  <2>3. i \in S
    BY <1>1, <2>1, <2>2
  <2>4. j <= i
    BY <1>3, <2>3
  <2>5. QED
    BY <2>2, <2>4
<1>5. /\ Openable(p, k) \in k .. (Len(Batch[p]) + 1)
      /\ Openable(p, k) \notin Unreadable[p]
  BY <1>4 DEF Openable
<1>6. Openable(p, k) - k \in Nat
  BY <1>1, <1>5
<1>7. QED
  BY <1>5, <1>6 DEF Skipped

-----------------------------------------------------------------------------
(***************************************************************************)
(* The inductive type invariant: TypeOK, and which file the transmitter is *)
(* at where it reads one, which the receiver is at where it writes one,    *)
(* and which a FINFO is about.                                             *)
(***************************************************************************)
TxOf(p) == {t \in TxSet : t.state \in Sending \/ t.open => t.file \in FilesOf(p)}

RxOf(p) == {r \in RxSet : r.state = "DATA" => r.file \in FilesOf(Other(p))}

PacketsTo(p) ==
  {m \in Packets : m.type = "FINFO" => m.id \in 0 .. Len(Batch[Other(p)])}

TxTyped == tx \in [Peers -> TxSet] /\ \A p \in Peers : tx[p] \in TxOf(p)
RxTyped == rx \in [Peers -> RxSet] /\ \A p \in Peers : rx[p] \in RxOf(p)
DevTyped == dev \in [Peers -> DevSet] /\ hdxlink \in [Peers -> BOOLEAN]
LineTyped ==
  line \in [Peers -> Seq(Packets)] /\ \A p \in Peers : line[p] \in Seq(PacketsTo(p))
DiskTyped ==
  /\ DOMAIN part = Peers /\ DOMAIN saved = Peers
  /\ \A p \in Peers : /\ part[p] \in [FilesOf(Other(p)) -> Seq(Units)]
                      /\ saved[p] \in [FilesOf(Other(p)) -> Seq(Seq(Units))]
ReportTyped ==
  /\ result \in [Peers -> Seq({"OK", "SKIP"})]
  /\ outcome \in [Peers -> {"none", "XFER_OK", "XFER_ABORT"}]
  /\ heard \in [Peers -> Seq(Nat)]
  /\ faults \in 0 .. MaxFaults
  /\ session \in Nat

TypeInv == /\ TxTyped /\ RxTyped /\ DevTyped
           /\ LineTyped /\ DiskTyped /\ ReportTyped

LEMMA TypeInvImplies == TypeInv => TypeOK
BY DEF TypeInv, TypeOK, TxTyped, RxTyped, DevTyped, LineTyped, DiskTyped, ReportTyped

-----------------------------------------------------------------------------
(***************************************************************************)
(* What the helpers make of typed values.                                  *)
(***************************************************************************)
LEMMA RestartedType ==
  ASSUME NEW p \in Peers, NEW t \in TxOf(p), NEW state \in TxStates,
         state \in Sending => t.file \in FilesOf(p)
  PROVE  Restarted(t, state) \in TxOf(p)
BY DEF Restarted, TxOf, TxSet

LEMMA SettledType ==
  ASSUME NEW p \in Peers, NEW t \in TxOf(p), NEW r, NEW d, NEW h
  PROVE  Settled(t, r, d, h) \in TxOf(p)
<1>1. CASE t.state \in {"START", "SWAIT"} /\ r.state = "FINFO"
  <2>1. Restarted(t, "INIT") \in TxOf(p)
    BY RestartedType DEF TxStates, BeforeRend, Sending, Handshake
  <2>2. QED
    BY <1>1, <2>1 DEF Settled, FallsBack
<1>2. CASE t.state = "RINIT" /\ r.state = "FINFO"
  <2>1. Restarted(t, "FINFO") \in TxOf(p)
    BY RestartedType DEF TxStates, BeforeRend, Sending, Handshake
  <2>2. QED
    BY <1>2, <2>1 DEF Settled, FallsBack
<1>3. CASE FallsBack(t, r, h)
  BY <1>3 DEF Settled, FallsBack, TxOf, TxSet, TxStates, BeforeRend, Sending
<1>4. CASE t.state = "XWAIT" /\ r.state = "DONE"
  <2>1. t.file \in FilesOf(p)
    BY <1>4 DEF TxOf, Sending
  <2>2. Restarted(t, "XDATA") \in TxOf(p)
    BY <2>1, RestartedType DEF TxStates, BeforeRend, Sending
  <2>3. QED
    BY <1>4, <2>2 DEF Settled, FallsBack
<1>5. CASE t.state = "REND" /\ NothingMore(r, d)
  <2>1. Restarted(t, "END") \in TxOf(p)
    BY RestartedType DEF TxStates, BeforeRend, Sending, Handshake
  <2>2. QED
    BY <1>5, <2>1 DEF Settled, FallsBack
<1>6. CASE /\ ~(t.state \in {"START", "SWAIT"} /\ r.state = "FINFO")
           /\ ~(t.state = "RINIT" /\ r.state = "FINFO")
           /\ ~FallsBack(t, r, h)
           /\ ~(t.state = "XWAIT" /\ r.state = "DONE")
           /\ ~(t.state = "REND" /\ NothingMore(r, d))
  BY <1>6 DEF Settled
<1>7. QED
  BY <1>1, <1>2, <1>3, <1>4, <1>5, <1>6

LEMMA BegunType ==
  ASSUME NEW p \in Peers, NEW t \in TxSet, NEW k \in 1 .. (Len(Batch[p]) + 1)
  PROVE  Begun(p, t, k) \in TxOf(p)
<1>1. /\ Openable(p, k) \in k .. (Len(Batch[p]) + 1)
      /\ Len(Batch[p]) \in Nat
  BY OpenableFacts, BatchType
<1> DEFINE j == Openable(p, k)
<1>2. PICK s \in {"START", "FINFO"}, o \in BOOLEAN, n \in Nat :
        /\ Begun(p, t, k) = [t EXCEPT !.state = s, !.file = j, !.open = o,
                               !.syncid = n, !.retries = 0, !.timing = FALSE]
        /\ o = TRUE => j \in FilesOf(p)
  <2> DEFINE s == IF t.state = "DONE" /\ j = k THEN "START" ELSE "FINFO"
             n == IF j <= Len(Batch[p]) THEN 0 ELSE t.syncid
  <2>1. s \in {"START", "FINFO"} /\ n \in Nat
    BY DEF TxSet
  <2>2. CASE j <= Len(Batch[p])
    <3>1. Begun(p, t, k) = [t EXCEPT !.state = s, !.file = j, !.open = TRUE,
                              !.syncid = n, !.retries = 0, !.timing = FALSE]
      BY <2>2 DEF Begun
    <3>2. j \in FilesOf(p)
      BY <1>1, <2>2 DEF FilesOf
    <3>3. QED
      BY <2>1, <3>1, <3>2
  <2>3. CASE ~(j <= Len(Batch[p]))
    <3>1. (j <= Len(Batch[p])) = FALSE
      BY <1>1, <2>3
    <3>2. Begun(p, t, k) = [t EXCEPT !.state = s, !.file = j, !.open = FALSE,
                              !.syncid = n, !.retries = 0, !.timing = FALSE]
      BY Zenon, <3>1 DEF Begun
    <3>3. FALSE \in BOOLEAN /\ (FALSE = TRUE => j \in FilesOf(p))
      OBVIOUS
    <3> HIDE DEF s, n, j
    <3>4. QED
      BY Zenon, <2>1, <3>2, <3>3
  <2>4. QED
    BY <2>2, <2>3
<1>3. j \in Nat
  BY <1>1
<1> HIDE DEF j
<1>4. Begun(p, t, k) \in TxSet
  <2>1. s \in TxStates
    BY DEF TxStates, BeforeRend, Handshake
  <2>2. ASSUME NEW u, u = [t EXCEPT !.state = s, !.file = j, !.open = o,
                              !.syncid = n, !.retries = 0, !.timing = FALSE]
        PROVE  u \in TxSet
    BY <1>3, <2>1, <2>2 DEF TxSet
  <2>3. QED
    BY Zenon, <1>2, <2>2
<1>5. /\ Begun(p, t, k).state = s /\ Begun(p, t, k).open = o
      /\ Begun(p, t, k).file = j
  BY <1>2 DEF TxSet
<1>6. QED
  BY <1>2, <1>4, <1>5 DEF TxOf, Sending

LEMMA FileBefore ==
  ASSUME NEW p \in Peers, NEW k \in FilesOf(p)
  PROVE  k + 1 \in 1 .. (Len(Batch[p]) + 1)
BY BatchType DEF FilesOf

-----------------------------------------------------------------------------
(***************************************************************************)
(* What the three ways to put packets on a line make of a typed one.       *)
(***************************************************************************)
LEMMA HeadType ==
  ASSUME NEW p \in Peers, LineTyped, line[p] # <<>>
  PROVE  /\ Head(line[p]) \in PacketsTo(p)
         /\ Head(line[p]) \in Packets
         /\ Head(line[p]).pos \in Int
         /\ Head(line[p]).id \in Nat
         /\ Head(line[p]).data \in Seq(Units)
         /\ Tail(line[p]) \in Seq(PacketsTo(p))
<1>1. line[p] \in Seq(PacketsTo(p))
  BY DEF LineTyped
<1>2. Head(line[p]) \in PacketsTo(p) /\ Tail(line[p]) \in Seq(PacketsTo(p))
  BY <1>1, HeadTailProperties
<1>3. QED
  BY <1>2 DEF PacketsTo, Packets

LEMMA LineMade ==
  ASSUME NEW p \in Peers, LineTyped,
         NEW x \in Seq(PacketsTo(p)), NEW y \in Seq(PacketsTo(Other(p))),
         line' = [line EXCEPT ![p] = x, ![Other(p)] = y]
  PROVE  LineTyped'
<1>1. \A q \in Peers : line'[q] \in Seq(PacketsTo(q))
  BY OtherFacts DEF LineTyped
<1>2. \A q \in Peers : PacketsTo(q) \subseteq Packets
  BY DEF PacketsTo
<1>3. \A q \in Peers : line'[q] \in Seq(Packets)
  BY <1>1, <1>2, SeqMonotonic
<1>4. line' \in [Peers -> Seq(Packets)]
  <2>1. DOMAIN line' = Peers /\ line' = [q \in Peers |-> line'[q]]
    BY DEF LineTyped
  <2>2. QED
    BY <1>3, <2>1
<1>5. QED
  BY <1>1, <1>4 DEF LineTyped

LEMMA SentType ==
  ASSUME NEW p \in Peers, LineTyped, NEW s \in Seq(PacketsTo(Other(p)))
  PROVE  Sent(p, s) \in Seq(PacketsTo(Other(p)))
<1>1. line[Other(p)] \in Seq(PacketsTo(Other(p)))
  BY OtherFacts DEF LineTyped
<1>2. line[Other(p)] \o s \in Seq(PacketsTo(Other(p)))
  BY <1>1, ConcatProperties
<1>3. QED
  BY <1>2, EmptySeq DEF Sent

LEMMA OutType ==
  ASSUME NEW p \in Peers, LineTyped, NEW s \in Seq(PacketsTo(Other(p))),
         Out(p, s)
  PROVE  LineTyped'
<1>1. line' = [line EXCEPT ![p] = line[p], ![Other(p)] = Sent(p, s)]
  BY OtherFacts DEF Out, LineTyped
<1>2. line[p] \in Seq(PacketsTo(p))
  BY DEF LineTyped
<1>3. QED
  BY <1>1, <1>2, SentType, LineMade

LEMMA InType ==
  ASSUME NEW p \in Peers, LineTyped, line[p] # <<>>,
         NEW s \in Seq(PacketsTo(Other(p))), In(p, s)
  PROVE  LineTyped'
<1>1. line' = [line EXCEPT ![p] = Tail(line[p]), ![Other(p)] = Sent(p, s)]
  BY DEF In, LineTyped
<1>2. QED
  BY <1>1, HeadType, SentType, LineMade

LEMMA PacketTypes1 ==
  ASSUME NEW p \in Peers
  PROVE  /\ <<>> \in Seq(PacketsTo(p))
         /\ \A type \in PacketTypes \ {"FINFO"} :
              /\ Signal(type) \in PacketsTo(p)
              /\ \A n \in Int : Position(type, n) \in PacketsTo(p)
              /\ \A id \in Nat : Device(type, id) \in PacketsTo(p)
         /\ \A n \in Int : \A id \in Nat : Rpos(n, id) \in PacketsTo(p)
         /\ \A k \in 0 .. Len(Batch[Other(p)]) : Info(k) \in PacketsTo(p)
         /\ \A n \in Int : \A d \in Seq(Units) :
              Packet("DATA", n, 0, d) \in PacketsTo(p)
<1>1. <<>> \in Seq(Units) /\ <<>> \in Seq(PacketsTo(p))
  BY EmptySeq
<1>2. \A type \in PacketTypes \ {"FINFO"} :
        \A n \in Int : \A id \in Nat : \A d \in Seq(Units) :
          Packet(type, n, id, d) \in PacketsTo(p)
  BY DEF Packet, PacketsTo, Packets
<1>3. \A k \in 0 .. Len(Batch[Other(p)]) : Info(k) \in PacketsTo(p)
  <2>1. Len(Batch[Other(p)]) \in Nat
    BY OtherFacts, BatchType
  <2>2. QED
    BY <1>1, <2>1 DEF Info, Packet, PacketsTo, Packets, PacketTypes
<1>4. {"RPOS", "DATA"} \subseteq PacketTypes \ {"FINFO"}
  BY DEF PacketTypes
<1>5. 0 \in Int /\ 0 \in Nat
  OBVIOUS
<1>6. QED
  BY Zenon, <1>1, <1>2, <1>3, <1>4, <1>5 DEF Signal, Position, Device, Rpos

LEMMA OneInSeq ==
  ASSUME NEW S, NEW x \in S
  PROVE  <<x>> \in Seq(S)
OBVIOUS

-----------------------------------------------------------------------------
(***************************************************************************)
(* The parts that the actions are made of.                                 *)
(***************************************************************************)
FaultsTyped == faults \in 0 .. MaxFaults

LEMMA FaultType ==
  ASSUME TypeInv, UNCHANGED faults \/ \E kind \in FaultKinds : Fault(kind)
  PROVE  FaultsTyped'
<1>1. faults \in 0 .. MaxFaults /\ MaxFaults \in Nat
  BY HydraAssumption DEF TypeInv, ReportTyped, HydraAssumption
<1>2. faults' = faults \/ (faults < MaxFaults /\ faults' = faults + 1)
  BY DEF Fault
<1>3. QED
  BY <1>1, <1>2 DEF FaultsTyped

LEMMA LateType ==
  ASSUME TypeInv, NEW ontime, Late(ontime)
  PROVE  FaultsTyped'
<1>1. UNCHANGED faults \/ Fault("late")
  BY DEF Late
<1>2. Fault("late") => "late" \in FaultKinds
  BY DEF Fault
<1>3. QED
  BY <1>1, <1>2, FaultType

LEMMA SettleType ==
  ASSUME TypeInv, NEW p \in Peers, NEW t \in TxOf(p), NEW r \in RxOf(p),
         NEW d \in DevSet, NEW h \in BOOLEAN, Settle(p, t, r, d, h)
  PROVE  TxTyped' /\ RxTyped' /\ DevTyped'
<1>1. TxTyped'
  <2>1. tx' = [tx EXCEPT ![p] = Settled(t, r, d, h)]
    BY DEF Settle
  <2>2. Settled(t, r, d, h) \in TxOf(p)
    BY SettledType
  <2>3. QED
    BY <2>1, <2>2 DEF TypeInv, TxTyped, TxOf
<1>2. RxTyped'
  <2>1. rx' = [rx EXCEPT ![p] = r]
    BY DEF Settle
  <2>2. QED
    BY <2>1 DEF TypeInv, RxTyped, RxOf
<1>3. DevTyped'
  <2>1. PICK e : dev' = [dev EXCEPT ![p] = e] /\ e \in {d, DevSend(d)}
    BY DEF Settle
  <2>2. DevSend(d) \in DevSet
    <3>1. d.id + 1 \in Nat
      BY DEF DevSet
    <3>2. QED
      BY <3>1 DEF DevSend, DevSet
  <2>3. dev' \in [Peers -> DevSet]
    BY <2>1, <2>2 DEF TypeInv, DevTyped
  <2>4. hdxlink' \in [Peers -> BOOLEAN]
    BY DEF Settle, TypeInv, DevTyped
  <2>5. QED
    BY <2>3, <2>4 DEF DevTyped
<1>4. QED
  BY <1>1, <1>2, <1>3

LEMMA SettleSessionType ==
  ASSUME TypeInv, NEW p \in Peers, NEW t \in TxOf(p), NEW r \in RxOf(p),
         NEW d \in DevSet, NEW h \in BOOLEAN, Settle(p, t, r, d, h),
         UNCHANGED Session, LineTyped', FaultsTyped'
  PROVE  TypeInv'
<1>1. TxTyped' /\ RxTyped' /\ DevTyped'
  BY SettleType
<1>2. DiskTyped' /\ ReportTyped'
  BY DEF TypeInv, DiskTyped, ReportTyped, Session, FaultsTyped
<1>3. QED
  BY <1>1, <1>2 DEF TypeInv

LEMMA ClosedType ==
  ASSUME TypeInv, NEW p \in Peers, part' = Closed(p), UNCHANGED saved
  PROVE  DiskTyped'
<1>1. CASE Receiving(p)
  <2>1. rx[p].file \in FilesOf(Other(p))
    BY <1>1 DEF TypeInv, RxTyped, RxOf, Receiving
  <2>2. part[p][rx[p].file] \in Seq(Units)
    BY <2>1 DEF TypeInv, DiskTyped
  <2>3. Kept(part[p][rx[p].file]) \in Seq(Units)
    BY <2>2, EmptySeq DEF Kept
  <2>4. part' = [part EXCEPT ![p][rx[p].file] = Kept(part[p][rx[p].file])]
    BY <1>1 DEF Closed
  <2>5. QED
    BY <2>1, <2>3, <2>4 DEF TypeInv, DiskTyped
<1>2. CASE ~Receiving(p)
  BY <1>2 DEF Closed, TypeInv, DiskTyped
<1>3. QED
  BY <1>1, <1>2

LEMMA EndsType ==
  ASSUME TypeInv, NEW p \in Peers, NEW why \in {"XFER_OK", "XFER_ABORT"},
         Ends(p, why), LineTyped', FaultsTyped'
  PROVE  TypeInv'
<1>1. TxTyped'
  <2>1. tx' = [tx EXCEPT ![p] = [tx[p] EXCEPT !.state = "DONE", !.open = FALSE,
                                              !.timing = FALSE]]
    BY DEF Ends, TypeInv, TxTyped
  <2>2. [tx[p] EXCEPT !.state = "DONE", !.open = FALSE, !.timing = FALSE]
          \in TxOf(p)
    BY DEF TypeInv, TxTyped, TxOf, TxSet, TxStates, Sending
  <2>3. QED
    BY <2>1, <2>2 DEF TypeInv, TxTyped, TxOf
<1>2. RxTyped' /\ DevTyped'
  BY DEF Ends, TypeInv, RxTyped, DevTyped
<1>3. DiskTyped'
  BY ClosedType DEF Ends
<1>4. ReportTyped'
  BY DEF Ends, TypeInv, ReportTyped, FaultsTyped
<1>5. QED
  BY <1>1, <1>2, <1>3, <1>4 DEF TypeInv

LEMMA AbortType ==
  ASSUME TypeInv, NEW p \in Peers, Abort(p), FaultsTyped'
  PROVE  TypeInv'
<1>1. Ends(p, "XFER_ABORT")
  BY DEF Abort
<1>2. PICK n \in 0 .. Len(line[Other(p)]) :
       line' = [line EXCEPT ![p] = <<>>,
                  ![Other(p)] = IF Running(Other(p))
                                THEN SubSeq(@, 1, n) \o <<Signal("CANCEL")>>
                                ELSE <<>>]
  BY DEF Abort
<1> DEFINE l == line[Other(p)]
           y == IF Running(Other(p))
                THEN SubSeq(l, 1, n) \o <<Signal("CANCEL")>> ELSE <<>>
<1>3. l \in Seq(PacketsTo(Other(p)))
  BY OtherFacts DEF TypeInv, LineTyped
<1>4. SubSeq(l, 1, n) \in Seq(PacketsTo(Other(p)))
  <2>1. Len(l) \in Nat /\ \A i \in 1 .. n : l[i] \in PacketsTo(Other(p))
    BY <1>3, LenProperties, ElementOfSeq
  <2>2. QED
    BY <2>1, SubSeqProperties
<1>5. <<Signal("CANCEL")>> \in Seq(PacketsTo(Other(p)))
  BY OtherFacts, PacketTypes1, OneInSeq DEF PacketTypes
<1>6. y \in Seq(PacketsTo(Other(p)))
  BY <1>4, <1>5, ConcatProperties, EmptySeq
<1>7. line' = [line EXCEPT ![p] = <<>>, ![Other(p)] = y]
  BY <1>2, OtherFacts DEF TypeInv, LineTyped
<1> HIDE DEF y
<1>8. LineTyped'
  BY <1>6, <1>7, PacketTypes1, LineMade DEF TypeInv
<1>9. QED
  BY <1>1, <1>8, EndsType

LEMMA CarrierLostType ==
  ASSUME TypeInv, NEW p \in Peers, CarrierLost(p), FaultsTyped'
  PROVE  TypeInv'
<1>1. line[Other(p)] \in Seq(PacketsTo(Other(p)))
  BY OtherFacts DEF TypeInv, LineTyped
<1>2. line' = [line EXCEPT ![p] = <<>>, ![Other(p)] = line[Other(p)]]
  BY OtherFacts DEF CarrierLost, TypeInv, LineTyped
<1>3. LineTyped'
  BY <1>1, <1>2, PacketTypes1, LineMade DEF TypeInv
<1>4. QED
  BY <1>3, EndsType DEF CarrierLost

LEMMA SendType ==
  ASSUME TypeInv, NEW p \in Peers, NEW t \in TxOf(p),
         NEW s \in Seq(PacketsTo(Other(p))), Send(p, t, s), FaultsTyped'
  PROVE  TypeInv'
<1>1. TxTyped' /\ RxTyped'
  BY DEF Send, TypeInv, TxTyped, RxTyped, TxOf
<1>2. DevTyped'
  BY DEF Send, DevSent, DevSet, TypeInv, DevTyped
<1>3. DevPackets(p) \in Seq(PacketsTo(Other(p)))
  <2>1. dev[p].id \in Nat
    BY DEF TypeInv, DevTyped, DevSet
  <2>2. Device("DEVDATA", dev[p].id) \in PacketsTo(Other(p))
    BY <2>1, OtherFacts, PacketTypes1 DEF PacketTypes
  <2>3. QED
    BY <2>2, OneInSeq, OtherFacts, PacketTypes1 DEF DevPackets
<1>4. DevPackets(p) \o s \in Seq(PacketsTo(Other(p)))
  BY <1>3, ConcatProperties
<1>5. LineTyped'
  BY <1>4, OutType DEF Send, TypeInv
<1>6. DiskTyped' /\ ReportTyped'
  BY DEF Send, Session, TypeInv, DiskTyped, ReportTyped, FaultsTyped
<1>7. QED
  BY <1>1, <1>2, <1>5, <1>6 DEF TypeInv

LEMMA WaitingType ==
  ASSUME TypeInv, NEW p \in Peers, NEW state \in TxStates,
         state \in Sending => tx[p].file \in FilesOf(p)
  PROVE  Waiting(p, state) \in TxOf(p)
BY DEF Waiting, TypeInv, TxTyped, TxOf, TxSet

-----------------------------------------------------------------------------
(***************************************************************************)
(* The transmitter and the timers.                                         *)
(***************************************************************************)
LEMMA SignalsType ==
  ASSUME NEW p \in Peers, NEW type \in PacketTypes \ {"FINFO"}
  PROVE  /\ <<Signal(type)>> \in Seq(PacketsTo(Other(p)))
         /\ <<Signal(type), Signal(type)>> \in Seq(PacketsTo(Other(p)))
         /\ <<Signal(type), Signal(type), Signal(type)>> \in Seq(PacketsTo(Other(p)))
<1>1. Signal(type) \in PacketsTo(Other(p))
  BY OtherFacts, PacketTypes1
<1>2. QED
  BY <1>1

LEMMA OwnTypes ==
  ASSUME TypeInv, NEW p \in Peers
  PROVE  /\ tx[p] \in TxOf(p) /\ rx[p] \in RxOf(p)
         /\ dev[p] \in DevSet /\ hdxlink[p] \in BOOLEAN
BY DEF TypeInv, TxTyped, RxTyped, DevTyped

LEMMA TransmitType ==
  ASSUME TypeInv, NEW p \in Peers, Transmit(p) \/ ReadError(p)
  PROVE  TypeInv'
<1>1. CASE SendStart(p)
  <2>1. Waiting(p, "SWAIT") \in TxOf(p)
    BY WaitingType DEF TxStates, BeforeRend, Handshake, Sending
  <2>2. QED
    BY <1>1, <2>1, SignalsType, FaultType, SendType DEF SendStart, PacketTypes
<1>2. CASE SendInit(p)
  <2>1. Waiting(p, "INITACK") \in TxOf(p)
    BY WaitingType DEF TxStates, BeforeRend, Handshake, Sending
  <2>2. QED
    BY <1>2, <2>1, SignalsType, FaultType, SendType DEF SendInit, PacketTypes
<1>3. CASE SendFinfo(p)
  <2>1. Waiting(p, "FINFOACK") \in TxOf(p)
    BY WaitingType DEF TxStates, BeforeRend, Handshake, Sending
  <2> DEFINE k == IF tx[p].open THEN tx[p].file ELSE 0
  <2>2. k \in 0 .. Len(Batch[p])
    BY BatchType DEF TypeInv, TxTyped, TxOf, FilesOf
  <2>3. Info(k) \in PacketsTo(Other(p))
    BY <2>2, OtherFacts, PacketTypes1
  <2>4. QED
    BY <1>3, <2>1, <2>3, OneInSeq, FaultType, SendType DEF SendFinfo
<1>4. CASE SendData(p)
  <2> DEFINE t == tx[p]
             file == Batch[p][t.file]
  <2>1. PICK n \in 1 .. BlockMax :
          /\ t.state = "XDATA" /\ t.pos >= 0 /\ t.pos + n <= Len(file)
          /\ \E full \in BOOLEAN :
               Send(p, [t EXCEPT !.pos = @ + n,
                           !.state = IF full THEN "DATAACK" ELSE @,
                           !.timing = IF full THEN TRUE ELSE @],
                     <<Packet("DATA", t.pos, 0,
                              SubSeq(file, t.pos + 1, t.pos + n))>>)
    BY <1>4 DEF SendData
  <2>2. PICK full \in BOOLEAN :
               Send(p, [t EXCEPT !.pos = @ + n,
                           !.state = IF full THEN "DATAACK" ELSE @,
                           !.timing = IF full THEN TRUE ELSE @],
                     <<Packet("DATA", t.pos, 0,
                              SubSeq(file, t.pos + 1, t.pos + n))>>)
    BY <2>1
  <2>3. t \in TxOf(p) /\ t.file \in FilesOf(p) /\ t.pos \in Nat /\ n \in Nat
    <3>1. t \in TxOf(p) /\ t.state \in Sending
      BY <2>1, OwnTypes DEF Sending
    <3>2. BlockMax \in Nat
      BY HydraAssumption DEF HydraAssumption
    <3>3. n \in Nat
      BY <3>2
    <3>4. QED
      BY <2>1, <3>1, <3>3 DEF TxOf, TxSet
  <2>4. file \in Seq(Units)
    BY <2>3, BatchType
  <2>5. SubSeq(file, t.pos + 1, t.pos + n) \in Seq(Units)
    <3>1. \A i \in (t.pos + 1) .. (t.pos + n) : file[i] \in Units
      BY <2>1, <2>3, <2>4
    <3>2. QED
      BY <2>3, <3>1, SubSeqProperties
  <2>6. Packet("DATA", t.pos, 0, SubSeq(file, t.pos + 1, t.pos + n)) \in PacketsTo(Other(p))
    <3>1. Other(p) \in Peers /\ t.pos \in Int
      BY <2>3, OtherFacts
    <3>2. QED
      BY Zenon, <2>5, <3>1, PacketTypes1
  <2>7. [t EXCEPT !.pos = @ + n, !.state = IF full THEN "DATAACK" ELSE @,
                  !.timing = IF full THEN TRUE ELSE @] \in TxOf(p)
    <3>1. {"DATAACK", t.state} \subseteq TxStates /\ {TRUE, t.timing} \subseteq BOOLEAN
      BY <2>3 DEF TxOf, TxSet, TxStates, BeforeRend, Sending
    <3>2. t.pos + n \in Int
      BY <2>3
    <3>3. QED
      BY <2>3, <3>1, <3>2 DEF TxOf, TxSet
  <2>8. QED
    BY <1>4, <2>2, <2>6, <2>7, OneInSeq, FaultType, SendType DEF SendData
<1>5. CASE SendEof(p)
  <2>1. tx[p].state \in Sending /\ tx[p].pos \in Int
    BY <1>5 DEF SendEof, Sending, TypeInv, TxTyped, TxSet
  <2>2. Waiting(p, "EOFACK") \in TxOf(p)
    BY <2>1, WaitingType DEF TxStates, BeforeRend, Sending, TypeInv, TxTyped, TxOf
  <2>3. <<Position("EOF", tx[p].pos)>> \in Seq(PacketsTo(Other(p)))
    BY <2>1, OtherFacts, PacketTypes1, OneInSeq DEF PacketTypes
  <2>4. QED
    BY <1>5, <2>2, <2>3, FaultType, SendType DEF SendEof
<1>6. CASE ReadError(p)
  <2>1. tx[p].state \in Sending /\ Skip \in Int
    BY <1>6 DEF ReadError, Sending, Skip
  <2>2. Waiting(p, "EOFACK") \in TxOf(p) /\ tx[p].file \in FilesOf(p)
    BY <2>1, WaitingType DEF TxStates, BeforeRend, Sending, TypeInv, TxTyped, TxOf
  <2>3. [Waiting(p, "EOFACK") EXCEPT !.open = FALSE, !.pos = Skip] \in TxOf(p)
    BY <2>1, <2>2 DEF TxOf, TxSet, Waiting, TypeInv, TxTyped
  <2>4. <<Position("EOF", Skip)>> \in Seq(PacketsTo(Other(p)))
    BY <2>1, OtherFacts, PacketTypes1, OneInSeq DEF PacketTypes
  <2>5. FaultsTyped'
    BY <1>6, FaultType DEF ReadError, Fault
  <2>6. QED
    BY <1>6, <2>3, <2>4, <2>5, SendType DEF ReadError
<1>7. CASE SendEnd(p)
  <2>1. Waiting(p, "ENDACK") \in TxOf(p)
    BY WaitingType DEF TxStates, BeforeRend, Handshake, Sending
  <2>2. QED
    BY <1>7, <2>1, SignalsType, FaultType, SendType DEF SendEnd, PacketTypes
<1>8. CASE SendDevice(p)
  <2>1. tx[p] \in TxOf(p) /\ <<>> \in Seq(PacketsTo(Other(p)))
    BY OtherFacts, PacketTypes1 DEF TypeInv, TxTyped
  <2>2. QED
    BY <1>8, <2>1, FaultType, SendType DEF SendDevice
<1>9. QED
  BY <1>1, <1>2, <1>3, <1>4, <1>5, <1>6, <1>7, <1>8 DEF Transmit

LEMMA TimersType ==
  ASSUME TypeInv, NEW p \in Peers, Timers(p)
  PROVE  TypeInv'
<1>1. CASE StillHere(p)
  <2>1. FaultsTyped'
    BY <1>1, LateType DEF StillHere, Expires
  <2>2. LineTyped'
    BY <1>1, SignalsType, OutType DEF StillHere, PacketTypes, TypeInv
  <2>3. QED
    BY <1>1, <2>1, <2>2, OwnTypes, SettleSessionType DEF StillHere
<1>2. CASE Retry(p)
  <2>1. FaultsTyped'
    BY <1>2, LateType DEF Retry, Expires
  <2> DEFINE t == [tx[p] EXCEPT !.retries = @ + 1, !.timing = FALSE,
                                !.state = RetryOf(@)]
  <2>2. t \in TxOf(p)
    <3>1. /\ RetryOf(tx[p].state) \in TxStates
          /\ RetryOf(tx[p].state) \in Sending => tx[p].state \in Sending
      BY OwnTypes DEF RetryOf, TxOf, TxSet, TxStates, BeforeRend, Sending, Handshake
    <3>2. tx[p] \in TxOf(p) /\ tx[p].retries + 1 \in Nat
      BY OwnTypes DEF TxOf, TxSet
    <3>3. QED
      BY <3>1, <3>2 DEF TxOf, TxSet
  <2> HIDE DEF t
  <2>3. CASE Abort(p)
    BY <2>1, <2>3, AbortType
  <2>4. CASE Settle(p, t, rx[p], dev[p], hdxlink[p]) /\ UNCHANGED <<line, Session>>
    <3>1. LineTyped'
      BY <2>4 DEF TypeInv, LineTyped
    <3>2. QED
      BY <2>1, <2>2, <2>4, <3>1, OwnTypes, SettleSessionType
  <2>5. QED
    BY <1>2, <2>3, <2>4 DEF Retry, t
<1>3. CASE DevRetry(p)
  <2>1. FaultsTyped'
    BY <1>3, LateType DEF DevRetry, Expires
  <2> DEFINE d == [dev[p] EXCEPT !.retries = @ + 1, !.timing = FALSE,
                                 !.state = "DATA"]
  <2>2. d \in DevSet
    <3>1. dev[p] \in DevSet /\ dev[p].retries + 1 \in Nat
      BY OwnTypes DEF DevSet
    <3>2. QED
      BY <3>1 DEF DevSet
  <2> HIDE DEF d
  <2>3. CASE Abort(p)
    BY <2>1, <2>3, AbortType
  <2>4. CASE Settle(p, tx[p], rx[p], d, hdxlink[p]) /\ UNCHANGED <<line, Session>>
    <3>1. LineTyped'
      BY <2>4 DEF TypeInv, LineTyped
    <3>2. QED
      BY <2>1, <2>2, <2>4, <3>1, OwnTypes, SettleSessionType
  <2>5. QED
    BY <1>3, <2>3, <2>4 DEF DevRetry, d
<1>4. CASE BrainDead(p)
  BY <1>4, FaultType, CarrierLostType DEF BrainDead
<1>5. QED
  BY <1>1, <1>2, <1>3, <1>4 DEF Timers

-----------------------------------------------------------------------------
(***************************************************************************)
(* What is done with a packet that has arrived.                            *)
(***************************************************************************)
LEMMA ReceivedType ==
  ASSUME TypeInv, NEW p \in Peers, line[p] # <<>>,
         NEW t \in TxOf(p), NEW r \in RxOf(p), NEW d \in DevSet,
         NEW h \in BOOLEAN, NEW s \in Seq(PacketsTo(Other(p))),
         Settle(p, t, r, d, h), In(p, s), UNCHANGED Session, FaultsTyped'
  PROVE  TypeInv'
<1>1. LineTyped'
  BY InType DEF TypeInv
<1>2. QED
  BY <1>1, SettleSessionType

LEMMA ReturnsType ==
  ASSUME TypeInv, NEW p \in Peers, line[p] # <<>>, NEW x \in {"OK", "SKIP"},
         tx[p].file \in FilesOf(p), Returns(p, x), In(p, <<>>), UNCHANGED faults
  PROVE  TypeInv'
<1> DEFINE k == tx[p].file + 1
<1>1. k \in 1 .. (Len(Batch[p]) + 1)
  BY FileBefore
<1>2. TxTyped'
  <2>1. tx[p] \in TxSet
    BY OwnTypes DEF TxOf
  <2>2. Begun(p, tx[p], k) \in TxOf(p)
    BY <1>1, <2>1, BegunType
  <2>3. tx' = [tx EXCEPT ![p] = Begun(p, tx[p], k)]
    BY DEF Returns
  <2>4. QED
    BY <2>2, <2>3 DEF TypeInv, TxTyped, TxOf
<1>3. RxTyped' /\ DevTyped' /\ DiskTyped'
  BY DEF Returns, TypeInv, RxTyped, DevTyped, DiskTyped
<1>4. LineTyped'
  BY PacketTypes1, OtherFacts, InType DEF TypeInv
<1>5. ReportTyped'
  <2>1. Skipped(p, k) \in Seq({"OK", "SKIP"})
    BY <1>1, OpenableFacts
  <2>2. result[p] \in Seq({"OK", "SKIP"}) /\ <<x>> \in Seq({"OK", "SKIP"})
    BY DEF TypeInv, ReportTyped
  <2>3. result[p] \o <<x>> \in Seq({"OK", "SKIP"})
    BY <2>2, ConcatProperties
  <2>4. result[p] \o <<x>> \o Skipped(p, k) \in Seq({"OK", "SKIP"})
    BY <2>1, <2>3, ConcatProperties
  <2>5. result' = [result EXCEPT ![p] = result[p] \o <<x>> \o Skipped(p, k)]
    BY DEF Returns
  <2>6. result' \in [Peers -> Seq({"OK", "SKIP"})]
    BY <2>4, <2>5 DEF TypeInv, ReportTyped
  <2>7. QED
    BY <2>6 DEF Returns, TypeInv, ReportTyped
<1>6. QED
  BY <1>2, <1>3, <1>4, <1>5 DEF TypeInv

LEMMA ReceiveSessionType ==
  ASSUME TypeInv, NEW p \in Peers,
         \/ ReceiveStart(p) \/ ReceiveInit(p) \/ ReceiveInitack(p)
         \/ ReceiveIdle(p) \/ ReceiveEnd(p) \/ ReceiveCancel(p)
  PROVE  TypeInv'
<1>0. /\ <<>> \in Seq(PacketsTo(Other(p)))
      /\ {"RINIT", "INIT", "XDATA"} \subseteq TxStates
      /\ tx[p] \in TxOf(p) /\ rx[p] \in RxOf(p)
      /\ dev[p] \in DevSet /\ hdxlink[p] \in BOOLEAN
  BY PacketTypes1, OtherFacts, OwnTypes
     DEF TxStates, BeforeRend, Handshake, Sending
<1>1. CASE ReceiveStart(p)
  <2> DEFINE t == IF tx[p].state \in {"START", "SWAIT"}
                  THEN Restarted(tx[p], "INIT") ELSE tx[p]
  <2>1. t \in TxOf(p)
    BY <1>0, RestartedType DEF Sending
  <2> HIDE DEF t
  <2>2. Settle(p, t, rx[p], dev[p], hdxlink[p])
    BY <1>1 DEF ReceiveStart, t
  <2>3. QED
    BY <1>0, <1>1, <2>1, <2>2, FaultType, ReceivedType DEF ReceiveStart, Arrived
<1>2. CASE ReceiveInit(p)
  <2> DEFINE r == IF rx[p].state = "INIT" THEN [rx[p] EXCEPT !.state = "FINFO"]
                                          ELSE rx[p]
  <2>1. r \in RxOf(p)
    BY <1>0 DEF RxOf, RxSet, RxStates
  <2>2. <<Signal("INITACK")>> \in Seq(PacketsTo(Other(p)))
    BY SignalsType DEF PacketTypes
  <2> HIDE DEF r
  <2>3. Settle(p, tx[p], r, dev[p], hdxlink[p])
    BY <1>2 DEF ReceiveInit, r
  <2>4. QED
    BY <1>0, <1>2, <2>1, <2>2, <2>3, FaultType, ReceivedType
       DEF ReceiveInit, Arrived
<1>3. CASE ReceiveInitack(p)
  <2> DEFINE t == IF tx[p].state \in {"INIT", "INITACK"}
                  THEN Restarted(tx[p], "RINIT") ELSE tx[p]
  <2>1. t \in TxOf(p)
    BY <1>0, RestartedType DEF Sending
  <2> HIDE DEF t
  <2>2. Settle(p, t, rx[p], dev[p], hdxlink[p])
    BY <1>3 DEF ReceiveInitack, t
  <2>3. QED
    BY <1>0, <1>3, <2>1, <2>2, FaultType, ReceivedType DEF ReceiveInitack, Arrived
<1>4. CASE ReceiveIdle(p)
  <2> DEFINE wakes == tx[p].state = "XWAIT"
             t == IF wakes THEN Restarted(tx[p], "XDATA") ELSE tx[p]
             h == hdxlink[p] /\ ~wakes
  <2>1. t \in TxOf(p)
    <3>1. wakes => tx[p].file \in FilesOf(p)
      BY <1>0 DEF TxOf, Sending
    <3>2. QED
      BY <1>0, <3>1, RestartedType
  <2>2. h \in BOOLEAN
    OBVIOUS
  <2>3. Settle(p, t, rx[p], dev[p], h)
    BY <1>4 DEF ReceiveIdle
  <2> HIDE DEF t, h
  <2>4. QED
    BY <1>0, <1>4, <2>1, <2>2, <2>3, FaultType, ReceivedType
       DEF ReceiveIdle, Arrived
<1>5. CASE ReceiveEnd(p)
  <2>1. FaultsTyped' /\ line[p] # <<>>
    BY <1>5, FaultType DEF ReceiveEnd, Arrived
  <2>2. CASE /\ Ends(p, "XFER_OK")
             /\ line' = [line EXCEPT ![p] = <<>>,
                  ![Other(p)] = Sent(p, <<Signal("END"), Signal("END"),
                                          Signal("END")>>)]
    <3>1. <<Signal("END"), Signal("END"), Signal("END")>> \in Seq(PacketsTo(Other(p)))
      BY SignalsType DEF PacketTypes
    <3>2. Sent(p, <<Signal("END"), Signal("END"), Signal("END")>>)
            \in Seq(PacketsTo(Other(p)))
      BY <3>1, SentType DEF TypeInv
    <3>3. LineTyped'
      BY <2>2, <3>2, PacketTypes1, LineMade DEF TypeInv
    <3>4. QED
      BY <2>1, <2>2, <3>3, EndsType
  <2>3. CASE /\ Settle(p, tx[p], rx[p], dev[p], hdxlink[p])
             /\ In(p, <<>>)
             /\ UNCHANGED Session
    BY <1>0, <2>1, <2>3, ReceivedType
  <2>4. QED
    BY <1>5, <2>2, <2>3 DEF ReceiveEnd
<1>6. CASE ReceiveCancel(p)
  BY <1>6, FaultType, AbortType DEF ReceiveCancel
<1>7. QED
  BY <1>1, <1>2, <1>3, <1>4, <1>5, <1>6

LEMMA ReceiveDeviceType ==
  ASSUME TypeInv, NEW p \in Peers, ReceiveDevdata(p) \/ ReceiveDevdack(p)
  PROVE  TypeInv'
<1>0. /\ <<>> \in Seq(PacketsTo(Other(p)))
      /\ tx[p] \in TxOf(p) /\ rx[p] \in RxOf(p)
      /\ dev[p] \in DevSet /\ hdxlink[p] \in BOOLEAN
  BY PacketTypes1, OtherFacts, OwnTypes
<1>1. CASE ReceiveDevdata(p)
  <2> DEFINE id == Head(line[p]).id
             d == [dev[p] EXCEPT !.rxid = id]
  <2>1. id \in Nat /\ line[p] # <<>>
    BY <1>1, HeadType DEF ReceiveDevdata, Arrived, TypeInv
  <2>2. d \in DevSet
    BY <1>0, <2>1 DEF DevSet
  <2>3. <<Device("DEVDACK", id)>> \in Seq(PacketsTo(Other(p)))
    BY <2>1, OtherFacts, PacketTypes1, OneInSeq DEF PacketTypes
  <2>4. TxTyped' /\ RxTyped' /\ DevTyped'
    BY <1>0, <1>1, <2>2, SettleType DEF ReceiveDevdata
  <2>5. LineTyped'
    BY <1>1, <2>1, <2>3, InType DEF ReceiveDevdata, TypeInv
  <2>6. heard' \in [Peers -> Seq(Nat)]
    <3>1. heard[p] \in Seq(Nat) /\ heard \in [Peers -> Seq(Nat)]
      BY DEF TypeInv, ReportTyped
    <3>2. Append(heard[p], id) \in Seq(Nat)
      BY <2>1, <3>1, AppendProperties
    <3>3. heard' = heard \/ heard' = [heard EXCEPT ![p] = Append(heard[p], id)]
      BY <1>1 DEF ReceiveDevdata
    <3>4. QED
      BY <3>1, <3>2, <3>3
  <2>7. DiskTyped' /\ ReportTyped'
    BY <1>1, <2>6 DEF ReceiveDevdata, TypeInv, DiskTyped, ReportTyped
  <2>8. QED
    BY <2>4, <2>5, <2>7 DEF TypeInv
<1>2. CASE ReceiveDevdack(p)
  <2> DEFINE d == IF dev[p].state # "DONE" /\ dev[p].id = Head(line[p]).id
                  THEN [dev[p] EXCEPT !.state = "DONE", !.timing = FALSE]
                  ELSE dev[p]
  <2>1. d \in DevSet
    BY <1>0 DEF DevSet
  <2> HIDE DEF d
  <2>2. Settle(p, tx[p], rx[p], d, hdxlink[p])
    BY <1>2 DEF ReceiveDevdack, d
  <2>3. QED
    BY <1>0, <1>2, <2>1, <2>2, FaultType, ReceivedType DEF ReceiveDevdack, Arrived
<1>3. QED
  BY <1>1, <1>2

LEMMA RewoundType ==
  ASSUME NEW p \in Peers, NEW t \in TxOf(p), t.state \in Sending,
         NEW pos \in Int, NEW id \in Nat
  PROVE  Rewound(t, pos, id) \in TxOf(p)
<1>1. /\ t.file \in FilesOf(p) /\ t \in TxSet
      /\ Sending \subseteq TxStates /\ Skip \in Int
      /\ {"EOF", "XDATA", "XWAIT"} \subseteq Sending
  BY DEF TxOf, TxStates, BeforeRend, Sending, Skip
<1>2. CASE pos < 0
  <2> DEFINE u == [t EXCEPT !.syncid = id, !.retries = 1, !.timing = FALSE,
                            !.pos = Skip, !.open = FALSE,
                            !.state = IF t.open THEN "EOF" ELSE @]
  <2>1. Rewound(t, pos, id) = u
    BY <1>2, ~(pos >= 0) DEF Rewound
  <2>2. u \in TxSet /\ u.file = t.file
    BY <1>1 DEF TxSet
  <2>3. QED
    BY <1>1, <2>1, <2>2 DEF TxOf
<1>3. CASE pos >= 0 /\ ~t.open
  <2> DEFINE u == [t EXCEPT !.syncid = id, !.retries = 1, !.timing = FALSE,
                            !.pos = Skip, !.state = "EOF"]
  <2>1. Rewound(t, pos, id) = u
    BY <1>3, ~(pos < 0) DEF Rewound
  <2>2. u \in TxSet /\ u.file = t.file
    BY <1>1 DEF TxSet
  <2>3. QED
    BY <1>1, <2>1, <2>2 DEF TxOf
<1>4. CASE pos >= 0 /\ t.open
  <2> DEFINE u == [t EXCEPT !.syncid = id, !.retries = 1, !.timing = FALSE,
                            !.pos = pos,
                            !.state = IF @ = "XWAIT" THEN @ ELSE "XDATA"]
  <2>1. Rewound(t, pos, id) = u
    BY <1>4, ~(pos < 0) DEF Rewound
  <2>2. u \in TxSet /\ u.file = t.file
    BY <1>1 DEF TxSet
  <2>3. QED
    BY <1>1, <2>1, <2>2 DEF TxOf
<1>5. QED
  BY <1>2, <1>3, <1>4

LEMMA ReceiveAnswerType ==
  ASSUME TypeInv, NEW p \in Peers,
         \/ ReceiveFinfoack(p) \/ ReceiveDataack(p) \/ ReceiveRpos(p)
         \/ ReceiveEofack(p)
  PROVE  TypeInv'
<1>0. /\ <<>> \in Seq(PacketsTo(Other(p)))
      /\ tx[p] \in TxOf(p) /\ rx[p] \in RxOf(p)
      /\ dev[p] \in DevSet /\ hdxlink[p] \in BOOLEAN
  BY PacketTypes1, OtherFacts, OwnTypes
<1> DEFINE m == Head(line[p])
           u == tx[p]
<1>a. line[p] # <<>> /\ m.pos \in Int /\ m.id \in Nat
  BY HeadType DEF ReceiveFinfoack, ReceiveDataack, ReceiveRpos, ReceiveEofack,
                  Arrived, TypeInv
<1>b. Sending \subseteq TxStates /\ "REND" \in TxStates /\ "XDATA" \in Sending
  BY DEF TxStates, BeforeRend, Sending
<1> HIDE DEF m
<1>1. CASE ReceiveFinfoack(p)
  <2> DEFINE ours == u.state \in {"FINFO", "FINFOACK"}
             done == [u EXCEPT !.state = "REND", !.retries = 0, !.timing = TRUE]
             on == [Restarted(u, "XDATA") EXCEPT !.pos = m.pos, !.lastack = m.pos]
             t == IF ~ours THEN u ELSE IF ~u.open THEN done ELSE on
  <2>1. FaultsTyped'
    BY <1>1, FaultType DEF ReceiveFinfoack
  <2>2. CASE ours /\ u.open /\ m.pos < 0
    <3>1. Returns(p, IF m.pos = HaveIt THEN "OK" ELSE "SKIP") /\ In(p, <<>>)
      BY <1>1, <2>2 DEF ReceiveFinfoack, m
    <3>2. PICK x \in {"OK", "SKIP"} : Returns(p, x)
      BY <3>1
    <3>3. u.file \in FilesOf(p)
      BY <1>0, <2>2 DEF TxOf
    <3>4. QED
      BY <1>1, <1>a, <3>1, <3>2, <3>3, ReturnsType DEF ReceiveFinfoack
  <2>3. CASE ~(ours /\ u.open /\ m.pos < 0)
    <3>1. done \in TxOf(p)
      BY <1>0, <1>b DEF TxOf, TxSet, Sending
    <3>2. ASSUME ours, u.open PROVE on \in TxOf(p)
      <4>1. u.file \in FilesOf(p)
        BY <1>0, <3>2 DEF TxOf
      <4>2. Restarted(u, "XDATA") \in TxOf(p) /\ Restarted(u, "XDATA").file = u.file
        BY <1>0, <1>b, <4>1, RestartedType DEF Restarted, TxOf, TxSet
      <4>3. QED
        BY <1>a, <4>1, <4>2 DEF TxOf, TxSet
    <3>3. t \in TxOf(p)
      BY <1>0, <3>1, <3>2
    <3>4. Settle(p, t, rx[p], dev[p], hdxlink[p]) /\ UNCHANGED Session
      BY <1>1, <2>3 DEF ReceiveFinfoack, m
    <3> HIDE DEF t
    <3>5. QED
      BY <1>0, <1>1, <1>a, <2>1, <3>3, <3>4, ReceivedType DEF ReceiveFinfoack
  <2>4. QED
    BY <2>2, <2>3
<1>2. CASE ReceiveDataack(p)
  <2>1. PICK new \in BOOLEAN, opens \in BOOLEAN :
          /\ opens = TRUE => u.state = "DATAACK"
          /\ LET acked == IF new THEN [u EXCEPT !.lastack = m.pos] ELSE u
             IN Settle(p, IF opens THEN Restarted(acked, "XDATA") ELSE acked,
                       rx[p], dev[p], hdxlink[p])
    BY <1>2 DEF ReceiveDataack, m
  <2> DEFINE acked == IF new THEN [u EXCEPT !.lastack = m.pos] ELSE u
             t == IF opens THEN Restarted(acked, "XDATA") ELSE acked
  <2>2. acked \in TxOf(p) /\ acked.file = u.file
    BY <1>0, <1>a DEF TxOf, TxSet
  <2>3. t \in TxOf(p)
    <3>1. opens = TRUE => acked.file \in FilesOf(p)
      BY <1>0, <2>1, <2>2 DEF TxOf, Sending
    <3>2. opens = TRUE => Restarted(acked, "XDATA") \in TxOf(p)
      BY <1>b, <2>2, <3>1, RestartedType
    <3>3. QED
      BY <2>2, <3>2
  <2>4. Settle(p, t, rx[p], dev[p], hdxlink[p])
    BY <2>1
  <2> HIDE DEF t
  <2>5. QED
    BY <1>0, <1>2, <1>a, <2>3, <2>4, FaultType, ReceivedType DEF ReceiveDataack
<1>3. CASE ReceiveRpos(p)
  <2>1. FaultsTyped'
    BY <1>3, FaultType DEF ReceiveRpos
  <2> DEFINE repeated == Repeats(u, m)
             t == CASE u.state \in Sending /\ ~repeated -> Rewound(u, m.pos, m.id)
                    [] repeated -> [u EXCEPT !.retries = @ + 1]
                    [] OTHER -> u
  <2>2. t \in TxOf(p)
    <3>1. CASE u.state \in Sending /\ ~repeated
      <4>1. Rewound(u, m.pos, m.id) \in TxOf(p)
        BY <1>0, <1>a, <3>1, RewoundType
      <4>2. QED
        BY <3>1, <4>1
    <3>2. CASE repeated
      <4>1. u.retries + 1 \in Nat
        BY <1>0 DEF TxOf, TxSet
      <4>2. [u EXCEPT !.retries = @ + 1] \in TxOf(p)
        BY <1>0, <4>1 DEF TxOf, TxSet
      <4>3. QED
        BY <3>2, <4>2
    <3>3. CASE u.state \notin Sending /\ ~repeated
      BY <1>0, <3>3
    <3>4. QED
      BY <3>1, <3>2, <3>3
  <2> HIDE DEF t
  <2>3. CASE Abort(p)
    BY <2>1, <2>3, AbortType
  <2>4. CASE Settle(p, t, rx[p], dev[p], hdxlink[p]) /\ In(p, <<>>) /\ UNCHANGED Session
    BY <1>0, <1>a, <2>1, <2>2, <2>4, ReceivedType
  <2>5. QED
    BY <1>3, <2>3, <2>4 DEF ReceiveRpos, t, m
<1>4. CASE ReceiveEofack(p)
  <2>1. CASE /\ u.state \in {"EOF", "EOFACK"}
             /\ Returns(p, IF u.open THEN "OK" ELSE "SKIP")
    <3>1. PICK x \in {"OK", "SKIP"} : Returns(p, x)
      BY <2>1
    <3>2. u.file \in FilesOf(p)
      BY <1>0, <2>1 DEF TxOf, Sending
    <3>3. QED
      BY <1>4, <1>a, <3>1, <3>2, ReturnsType DEF ReceiveEofack
  <2>2. CASE Settle(p, tx[p], rx[p], dev[p], hdxlink[p]) /\ UNCHANGED Session
    BY <1>0, <1>4, <1>a, <2>2, FaultType, ReceivedType DEF ReceiveEofack
  <2>3. QED
    BY <1>4, <2>1, <2>2 DEF ReceiveEofack
<1>5. QED
  BY <1>1, <1>2, <1>3, <1>4

LEMMA MisplacedType ==
  ASSUME TypeInv, NEW p \in Peers, line[p] # <<>>, rx[p].state = "DATA",
         NEW pos \in Int, NEW may \in BOOLEAN, Misplaced(p, pos, may)
  PROVE  TypeInv'
<1>0. /\ <<>> \in Seq(PacketsTo(Other(p)))
      /\ tx[p] \in TxOf(p) /\ rx[p] \in RxOf(p)
      /\ dev[p] \in DevSet /\ hdxlink[p] \in BOOLEAN
  BY PacketTypes1, OtherFacts, OwnTypes
<1> DEFINE r == IF pos <= rx[p].lastsync
                THEN [rx[p] EXCEPT !.lastsync = pos, !.timing = FALSE,
                                   !.retries = 0]
                ELSE [rx[p] EXCEPT !.lastsync = pos]
           falls == /\ may /\ r.retries > OneWayRetries
                    /\ tx[p].state \in BeforeRend
                    /\ p \notin Originators /\ ~hdxlink[p]
           tries == IF falls THEN 1 ELSE r.retries + 1
           asked == [r EXCEPT !.retries = tries, !.timing = TRUE,
                              !.syncid = IF tries = 1 THEN @ + 1 ELSE @]
<1>a. \/ /\ Settle(p, tx[p], r, dev[p], hdxlink[p]) /\ In(p, <<>>)
         /\ UNCHANGED <<Session, faults>>
      \/ /\ AsksAgain(p, r.timing)
         /\ Settle(p, tx[p], asked, dev[p], hdxlink[p] \/ falls)
         /\ In(p, <<Rpos(r.pos, asked.syncid)>>)
         /\ UNCHANGED Session
      \/ AsksAgain(p, r.timing) /\ Abort(p)
  BY DEF Misplaced
<1>1. r \in RxSet /\ r.file = rx[p].file /\ r.state = "DATA"
  BY <1>0 DEF RxOf, RxSet
<1>2. r \in RxOf(p)
  BY <1>0, <1>1 DEF RxOf
<1> HIDE DEF r, falls
<1>3. tries \in Nat /\ r.syncid + 1 \in Nat
  <2>1. r.retries + 1 \in Nat /\ r.syncid + 1 \in Nat
    BY <1>1 DEF RxSet
  <2>2. QED
    BY <2>1
<1> HIDE DEF tries
<1>4. asked \in RxOf(p) /\ asked.syncid \in Nat
  <2>1. asked \in RxSet /\ asked.file = r.file
    BY <1>1, <1>3 DEF RxSet
  <2>2. QED
    BY <1>2, <2>1, <1>1 DEF RxOf, RxSet
<1> HIDE DEF asked
<1>5. CASE /\ Settle(p, tx[p], r, dev[p], hdxlink[p]) /\ In(p, <<>>)
           /\ UNCHANGED <<Session, faults>>
  BY <1>0, <1>2, <1>5, FaultType, ReceivedType
<1>6. CASE /\ AsksAgain(p, r.timing)
           /\ Settle(p, tx[p], asked, dev[p], hdxlink[p] \/ falls)
           /\ In(p, <<Rpos(r.pos, asked.syncid)>>)
           /\ UNCHANGED Session
  <2>1. FaultsTyped'
    BY <1>6, LateType DEF AsksAgain
  <2>2. <<Rpos(r.pos, asked.syncid)>> \in Seq(PacketsTo(Other(p)))
    <3>1. r.pos \in Int /\ Other(p) \in Peers
      BY <1>1, OtherFacts DEF RxSet
    <3>2. Rpos(r.pos, asked.syncid) \in PacketsTo(Other(p))
      BY Zenon, <1>4, <3>1, PacketTypes1
    <3>3. QED
      BY <3>2, OneInSeq
  <2>3. PICK h \in BOOLEAN : Settle(p, tx[p], asked, dev[p], h)
    BY <1>6
  <2>4. QED
    BY <1>0, <1>4, <1>6, <2>1, <2>2, <2>3, ReceivedType
<1>7. CASE AsksAgain(p, r.timing) /\ Abort(p)
  BY <1>7, LateType, AbortType DEF AsksAgain
<1>8. QED
  BY <1>a, <1>5, <1>6, <1>7

LEMMA ReceiveFinfoType ==
  ASSUME TypeInv, NEW p \in Peers, ReceiveFinfo(p)
  PROVE  TypeInv'
<1> DEFINE k == Head(line[p]).id
           q == rx[p]
<1>1. PICK r : /\ Answers(p, r)
               /\ \/ \E s \in {"FINFO", "DONE"} : \E n \in {0, HaveIt, Skip} :
                       r = [q EXCEPT !.pos = n, !.state = s]
                  \/ /\ k # 0
                     /\ r = [q EXCEPT !.state = "DATA", !.file = k,
                               !.pos = Len(part[p][k]), !.timing = FALSE,
                               !.retries = 0, !.lastsync = 0, !.syncid = 0]
                  \/ r = q
  <2>1. q = [q EXCEPT !.state = q.state]
    BY OwnTypes DEF RxOf, RxSet
  <2>2. ASSUME q.state = "FINFO" \/ q.state = "DONE", NEW n \in {0, HaveIt, Skip}
        PROVE  \E s \in {"FINFO", "DONE"} :
                 [q EXCEPT !.pos = n] = [q EXCEPT !.pos = n, !.state = s]
    BY <2>2, OwnTypes DEF RxOf, RxSet
  <2>3. QED
    BY <2>2 DEF ReceiveFinfo
<1>2. line[p] # <<>> /\ k \in 0 .. Len(Batch[Other(p)])
  <2>1. line[p] # <<>> /\ Head(line[p]).type = "FINFO"
    BY DEF ReceiveFinfo, Arrived
  <2>2. QED
    BY <2>1, HeadType DEF PacketsTo, TypeInv
<1>3. FaultsTyped'
  <2>1. UNCHANGED faults \/ Fault("refuse")
    BY DEF ReceiveFinfo
  <2>2. Fault("refuse") => "refuse" \in FaultKinds
    BY DEF Fault
  <2>3. QED
    BY <2>1, <2>2, FaultType
<1>4. r \in RxOf(p)
  <2>1. q \in RxOf(p) /\ {0, HaveIt, Skip} \subseteq Int
    BY OwnTypes DEF HaveIt, Skip
  <2>2. ASSUME NEW s \in {"FINFO", "DONE"}, NEW n \in {0, HaveIt, Skip},
               r = [q EXCEPT !.pos = n, !.state = s]
        PROVE  r \in RxOf(p)
    BY <2>1, <2>2 DEF RxOf, RxSet, RxStates
  <2>3. ASSUME k # 0,
               r = [q EXCEPT !.state = "DATA", !.file = k,
                      !.pos = Len(part[p][k]), !.timing = FALSE,
                      !.retries = 0, !.lastsync = 0, !.syncid = 0]
        PROVE  r \in RxOf(p)
    <3>1. k \in FilesOf(Other(p)) /\ k \in Nat
      BY <1>2, <2>3, OtherFacts, BatchType DEF FilesOf
    <3>2. Len(part[p][k]) \in Int
      BY <3>1, LenProperties DEF TypeInv, DiskTyped
    <3>3. QED
      BY <2>1, <2>3, <3>1, <3>2 DEF RxOf, RxSet, RxStates
  <2>4. QED
    BY <1>1, <2>1, <2>2, <2>3
<1>5. <<Position("FINFOACK", r.pos)>> \in Seq(PacketsTo(Other(p)))
  <2>1. r.pos \in Int /\ Other(p) \in Peers /\ "FINFOACK" \in PacketTypes \ {"FINFO"}
    BY <1>4, OtherFacts DEF RxOf, RxSet, PacketTypes
  <2>2. Position("FINFOACK", r.pos) \in PacketsTo(Other(p))
    BY Zenon, <2>1, PacketTypes1
  <2>3. QED
    BY <2>2, OneInSeq
<1>6. /\ Settle(p, tx[p], r, dev[p], hdxlink[p]) /\ UNCHANGED Session
      /\ In(p, <<Position("FINFOACK", r.pos)>>)
  BY <1>1 DEF Answers
<1>7. QED
  BY <1>2, <1>3, <1>4, <1>5, <1>6, OwnTypes, ReceivedType

LEMMA AppendedType ==
  ASSUME TypeInv, NEW p \in Peers, NEW k \in FilesOf(Other(p)), NEW d \in Seq(Units),
         part' = [part EXCEPT ![p][k] = @ \o d], UNCHANGED saved
  PROVE  DiskTyped'
<1>1. part[p][k] \in Seq(Units)
  BY DEF TypeInv, DiskTyped
<1>2. part[p][k] \o d \in Seq(Units)
  BY <1>1, ConcatProperties
<1>3. QED
  BY <1>2 DEF TypeInv, DiskTyped

LEMMA ReceiveDataType ==
  ASSUME TypeInv, NEW p \in Peers, ReceiveData(p) \/ WriteError(p)
  PROVE  TypeInv'
<1> DEFINE m == Head(line[p])
           q == rx[p]
<1>0. /\ <<>> \in Seq(PacketsTo(Other(p)))
      /\ tx[p] \in TxOf(p) /\ q \in RxOf(p)
      /\ dev[p] \in DevSet /\ hdxlink[p] \in BOOLEAN
  BY PacketTypes1, OtherFacts, OwnTypes
<1>1. line[p] # <<>> /\ m.pos \in Int /\ m.data \in Seq(Units)
  BY HeadType DEF ReceiveData, WriteError, Arrived, TypeInv
<1>2. q.state = "DATA" => q.file \in FilesOf(Other(p))
  BY <1>0 DEF RxOf
<1> HIDE DEF m
<1>3. CASE ReceiveData(p) /\ q.state # "DATA"
  BY <1>0, <1>1, <1>3, FaultType, ReceivedType DEF ReceiveData
<1>4. CASE ReceiveData(p) /\ q.state = "DATA" /\ ~InPlace(p)
  <2>1. Misplaced(p, m.pos, TRUE)
    BY <1>4 DEF ReceiveData, m
  <2>2. QED
    BY <1>1, <1>4, <2>1, MisplacedType
<1>5. CASE ReceiveData(p) /\ q.state = "DATA" /\ InPlace(p)
  <2> DEFINE pos == q.pos + Len(m.data)
             r == [q EXCEPT !.pos = pos, !.lastsync = q.pos,
                            !.retries = 0, !.timing = FALSE]
             s == IF Window(Other(p)) # 0
                  THEN <<Position("DATAACK", pos)>> ELSE <<>>
  <2>1. /\ Settle(p, tx[p], r, dev[p], hdxlink[p])
        /\ part' = [part EXCEPT ![p][q.file] = @ \o m.data]
        /\ In(p, s)
        /\ UNCHANGED <<saved, result, outcome, heard, session, faults>>
    BY <1>5 DEF ReceiveData, m
  <2>2. pos \in Int
    <3>1. Len(m.data) \in Nat
      BY <1>1, LenProperties
    <3>2. QED
      BY <1>0, <3>1 DEF RxOf, RxSet
  <2> HIDE DEF pos
  <2>3. r \in RxOf(p)
    BY <1>0, <2>2 DEF RxOf, RxSet
  <2>4. s \in Seq(PacketsTo(Other(p)))
    BY <1>0, <2>2, OtherFacts, PacketTypes1, OneInSeq DEF PacketTypes
  <2> HIDE DEF r, s
  <2>5. TxTyped' /\ RxTyped' /\ DevTyped'
    BY <1>0, <2>1, <2>3, SettleType
  <2>6. LineTyped'
    BY <1>1, <2>1, <2>4, InType DEF TypeInv
  <2>7. DiskTyped'
    BY <1>1, <1>2, <1>5, <2>1, AppendedType
  <2>8. ReportTyped'
    BY <2>1 DEF TypeInv, ReportTyped
  <2>9. QED
    BY <2>5, <2>6, <2>7, <2>8 DEF TypeInv
<1>6. CASE WriteError(p)
  <2> DEFINE r == [q EXCEPT !.pos = Skip, !.retries = 1, !.timing = TRUE,
                            !.syncid = @ + 1]
  <2>1. /\ Settle(p, tx[p], r, dev[p], hdxlink[p])
        /\ part' = Closed(p)
        /\ In(p, <<Rpos(Skip, r.syncid)>>)
        /\ UNCHANGED <<saved, result, outcome, heard, session>>
    BY <1>6 DEF WriteError
  <2>2. q.syncid + 1 \in Nat /\ Skip \in Int
    BY <1>0 DEF RxOf, RxSet, Skip
  <2>3. r \in RxOf(p) /\ r.syncid \in Nat
    BY <1>0, <2>2 DEF RxOf, RxSet
  <2> HIDE DEF r
  <2>4. <<Rpos(Skip, r.syncid)>> \in Seq(PacketsTo(Other(p)))
    <3>1. Rpos(Skip, r.syncid) \in PacketsTo(Other(p))
      BY <2>2, <2>3, OtherFacts, PacketTypes1
    <3>2. QED
      BY <3>1, OneInSeq
  <2>5. TxTyped' /\ RxTyped' /\ DevTyped'
    BY <1>0, <2>1, <2>3, SettleType
  <2>6. LineTyped'
    BY <1>1, <2>1, <2>4, InType DEF TypeInv
  <2>7. DiskTyped'
    BY <2>1, ClosedType
  <2>8. FaultsTyped'
    BY <1>6, FaultType DEF WriteError, Fault
  <2>9. ReportTyped'
    BY <2>1, <2>8 DEF TypeInv, ReportTyped, FaultsTyped
  <2>10. QED
    BY <2>5, <2>6, <2>7, <2>9 DEF TypeInv
<1>7. QED
  BY <1>3, <1>4, <1>5, <1>6

LEMMA ReceiveEofType ==
  ASSUME TypeInv, NEW p \in Peers, ReceiveEof(p)
  PROVE  TypeInv'
<1> DEFINE pos == Head(line[p]).pos
           q == rx[p]
<1>0. /\ <<>> \in Seq(PacketsTo(Other(p)))
      /\ tx[p] \in TxOf(p) /\ q \in RxOf(p)
      /\ dev[p] \in DevSet /\ hdxlink[p] \in BOOLEAN
  BY PacketTypes1, OtherFacts, OwnTypes
<1>1. line[p] # <<>> /\ pos \in Int
  BY HeadType DEF ReceiveEof, Arrived, TypeInv
<1>2. q.state = "DATA" => q.file \in FilesOf(Other(p))
  BY <1>0 DEF RxOf
<1>3. CASE q.state \in {"INIT", "DONE"}
  BY <1>0, <1>1, <1>3, FaultType, ReceivedType DEF ReceiveEof
<1>4. CASE q.state = "DATA" /\ pos >= 0 /\ ~InPlace(p)
  <2>1. Misplaced(p, pos, FALSE)
    <3>1. ~(pos < 0)
      BY <1>1, <1>4
    <3>2. QED
      BY <1>4, <3>1 DEF ReceiveEof
  <2>2. QED
    BY <1>1, <1>4, <2>1, MisplacedType
<1>5. CASE Acknowledges(p) /\ DiskTyped'
  <2> DEFINE r == [q EXCEPT !.state = "FINFO"]
  <2>1. r \in RxOf(p)
    BY <1>0 DEF RxOf, RxSet, RxStates
  <2>2. Settle(p, tx[p], r, dev[p], hdxlink[p])
    BY <1>5, Zenon DEF Acknowledges
  <2> HIDE DEF r
  <2>3. TxTyped' /\ RxTyped' /\ DevTyped'
    BY <1>0, <2>1, <2>2, SettleType
  <2>4. <<Signal("EOFACK")>> \in Seq(PacketsTo(Other(p)))
    BY SignalsType DEF PacketTypes
  <2>5. LineTyped'
    BY <1>1, <1>5, <2>4, InType DEF Acknowledges, TypeInv
  <2>6. ReportTyped'
    BY <1>5 DEF Acknowledges, TypeInv, ReportTyped
  <2>7. QED
    BY <1>5, <2>3, <2>5, <2>6 DEF TypeInv
<1>6. CASE q.state = "FINFO"
  <2>1. Acknowledges(p) /\ UNCHANGED <<part, saved>>
    BY <1>6 DEF ReceiveEof
  <2>2. QED
    BY <1>5, <2>1 DEF TypeInv, DiskTyped
<1>7. CASE q.state = "DATA" /\ pos < 0
  <2>1. Acknowledges(p) /\ part' = Closed(p) /\ UNCHANGED saved
    <3>1. ~(pos >= 0)
      BY <1>1, <1>7
    <3>2. QED
      BY <1>7, <3>1 DEF ReceiveEof
  <2>2. QED
    BY <1>5, <2>1, ClosedType
<1>8. CASE q.state = "DATA" /\ pos >= 0 /\ InPlace(p)
  <2>1. /\ Acknowledges(p)
        /\ part' = [part EXCEPT ![p][q.file] = <<>>]
        /\ saved' = [saved EXCEPT ![p][q.file] = Append(@, part[p][q.file])]
    <3>1. ~(pos < 0)
      BY <1>1, <1>8
    <3>2. QED
      BY <1>8, <3>1 DEF ReceiveEof
  <2>2. q.file \in FilesOf(Other(p)) /\ <<>> \in Seq(Units)
    BY <1>2, <1>8, EmptySeq
  <2>3. part[p][q.file] \in Seq(Units) /\ saved[p][q.file] \in Seq(Seq(Units))
    BY <2>2 DEF TypeInv, DiskTyped
  <2>4. Append(saved[p][q.file], part[p][q.file]) \in Seq(Seq(Units))
    BY <2>3, AppendProperties
  <2>5. DiskTyped'
    BY <2>1, <2>2, <2>4 DEF TypeInv, DiskTyped
  <2>6. QED
    BY <1>5, <2>1, <2>5
<1>9. QED
  BY <1>0, <1>1, <1>3, <1>4, <1>6, <1>7, <1>8 DEF RxOf, RxSet, RxStates

-----------------------------------------------------------------------------
(***************************************************************************)
(* The users, the line, the next session, and the theorem.                 *)
(***************************************************************************)
LEMMA UsersAndLineType ==
  ASSUME TypeInv, NEW p \in Peers, Chat(p) \/ UserAbort(p) \/ Lose(p)
  PROVE  TypeInv'
<1>1. CASE Chat(p)
  <2>1. dev' = [dev EXCEPT ![p] = DevSend(dev[p])]
    BY <1>1 DEF Chat
  <2>2. DevSend(dev[p]) \in DevSet
    <3>1. dev[p] \in DevSet /\ dev[p].id + 1 \in Nat
      BY OwnTypes DEF DevSet
    <3>2. QED
      BY <3>1 DEF DevSend, DevSet
  <2>3. DevTyped'
    BY <1>1, <2>1, <2>2 DEF Chat, TypeInv, DevTyped
  <2>4. TxTyped' /\ RxTyped' /\ LineTyped' /\ DiskTyped' /\ ReportTyped'
    BY <1>1 DEF Chat, Session, TypeInv, TxTyped, RxTyped, LineTyped, DiskTyped,
                ReportTyped
  <2>5. QED
    BY <2>3, <2>4 DEF TypeInv
<1>2. CASE UserAbort(p)
  BY <1>2, FaultType, AbortType, CarrierLostType DEF UserAbort
<1>3. CASE Lose(p)
  <2>1. FaultsTyped'
    <3>1. PICK kind : Fault(kind)
      BY <1>3 DEF Lose
    <3>2. QED
      BY <3>1, FaultType DEF Fault
  <2>2. LineTyped'
    <3>1. Tail(line[p]) \in Seq(PacketsTo(p))
      BY <1>3, HeadType DEF Lose, TypeInv
    <3>2. line[Other(p)] \in Seq(PacketsTo(Other(p)))
      BY OtherFacts DEF TypeInv, LineTyped
    <3>3. line' = [line EXCEPT ![p] = Tail(line[p]), ![Other(p)] = line[Other(p)]]
      BY <1>3, OtherFacts DEF Lose, TypeInv, LineTyped
    <3>4. QED
      BY <3>1, <3>2, <3>3, LineMade DEF TypeInv
  <2>3. TxTyped' /\ RxTyped' /\ DevTyped' /\ DiskTyped'
    BY <1>3 DEF Lose, Session, TypeInv, TxTyped, RxTyped, DevTyped, DiskTyped
  <2>4. ReportTyped'
    BY <1>3, <2>1 DEF Lose, Session, TypeInv, ReportTyped, FaultsTyped
  <2>5. QED
    BY <2>2, <2>3, <2>4 DEF TypeInv
<1>4. QED
  BY <1>1, <1>2, <1>3

\* What hydra_init() and the first call of hydra() leave.
LEMMA FreshType ==
  /\ \A p \in Peers : Begun(p, Idle, 1) \in TxOf(p) /\ Begun(p, Idle, 1) \in TxSet
  /\ \A p \in Peers : FreshRx \in RxOf(p)
  /\ FreshRx \in RxSet /\ FreshDev \in DevSet
  /\ \A p \in Peers : Skipped(p, 1) \in Seq({"OK", "SKIP"})
  /\ \A links \in HdxLinks : links \in [Peers -> BOOLEAN]
<1>1. \A p \in Peers : 1 \in 1 .. (Len(Batch[p]) + 1)
  BY BatchType
<1>2. Idle \in TxSet
  BY DEF Idle, TxSet, TxStates
<1>3. \A p \in Peers : Begun(p, Idle, 1) \in TxOf(p)
  BY <1>1, <1>2, BegunType
<1>4. \A p \in Peers : Skipped(p, 1) \in Seq({"OK", "SKIP"})
  BY <1>1, OpenableFacts
<1>5. FreshRx \in RxSet /\ FreshRx.state # "DATA"
  BY DEF FreshRx, RxSet, RxStates
<1>6. FreshDev \in DevSet
  BY DEF FreshDev, DevSet
<1>7. \A links \in HdxLinks : links \in [Peers -> BOOLEAN]
  <2>1. \A programs : [p \in Peers |-> p \in programs \ Originators]
                         \in [Peers -> BOOLEAN]
    OBVIOUS
  <2>2. QED
    BY Zenon, <2>1 DEF HdxLinks
<1>8. QED
  BY <1>3, <1>4, <1>5, <1>6, <1>7 DEF TxOf, RxOf

LEMMA InitType == Init => TypeInv
<1> SUFFICES ASSUME Init PROVE TypeInv
  OBVIOUS
<1>1. TxTyped /\ RxTyped /\ DevTyped
  <2>1. TxTyped /\ RxTyped
    BY FreshType DEF Init, TxTyped, RxTyped
  <2>2. dev \in [Peers -> DevSet] /\ hdxlink \in [Peers -> BOOLEAN]
    BY FreshType DEF Init
  <2>3. QED
    BY <2>1, <2>2 DEF DevTyped
<1>2. LineTyped
  <2>1. <<>> \in Seq(Packets) /\ \A p \in Peers : <<>> \in Seq(PacketsTo(p))
    BY EmptySeq
  <2>2. QED
    BY <2>1 DEF Init, LineTyped
<1>3. DiskTyped
  <2>1. <<>> \in Seq(Units) /\ <<>> \in Seq(Seq(Units))
    BY EmptySeq
  <2>2. QED
    BY <2>1 DEF Init, DiskTyped, NoFiles
<1>4. ReportTyped
  <2>1. MaxFaults \in Nat
    BY HydraAssumption DEF HydraAssumption
  <2>2. 0 \in 0 .. MaxFaults /\ <<>> \in Seq(Nat)
    BY <2>1, EmptySeq
  <2>3. QED
    BY <2>2, FreshType DEF Init, ReportTyped
<1>5. QED
  BY <1>1, <1>2, <1>3, <1>4 DEF TypeInv

LEMMA NewSessionType == TypeInv /\ NewSession => TypeInv'
<1> SUFFICES ASSUME TypeInv, NewSession PROVE TypeInv'
  OBVIOUS
<1>1. TxTyped' /\ RxTyped'
  BY FreshType DEF NewSession, TxTyped, RxTyped
<1>2. DevTyped'
  <2>1. dev' \in [Peers -> DevSet]
    BY FreshType DEF NewSession
  <2>2. hdxlink' \in [Peers -> BOOLEAN]
    BY DEF NewSession, NextHdxLinks
  <2>3. QED
    BY <2>1, <2>2 DEF DevTyped
<1>3. LineTyped'
  <2>1. <<>> \in Seq(Packets) /\ \A p \in Peers : <<>> \in Seq(PacketsTo(p))
    BY EmptySeq
  <2>2. QED
    BY <2>1 DEF NewSession, LineTyped
<1>4. DiskTyped'
  BY DEF NewSession, TypeInv, DiskTyped
<1>5. ReportTyped'
  <2>1. session + 1 \in Nat /\ <<>> \in Seq(Nat)
    BY EmptySeq DEF TypeInv, ReportTyped
  <2>2. QED
    BY <2>1, FreshType DEF NewSession, TypeInv, ReportTyped
<1>6. QED
  BY <1>1, <1>2, <1>3, <1>4, <1>5 DEF TypeInv

LEMMA TypeStep == TypeInv /\ [Next]_vars => TypeInv'
<1> SUFFICES ASSUME TypeInv, [Next]_vars PROVE TypeInv'
  OBVIOUS
<1>1. CASE \E p \in Peers : Transmit(p) \/ ReadError(p)
  BY <1>1, TransmitType
<1>2. CASE \E p \in Peers : Timers(p)
  BY <1>2, TimersType
<1>3. CASE \E p \in Peers : Receive(p) \/ WriteError(p)
  <2>1. PICK p \in Peers : Receive(p) \/ WriteError(p)
    BY <1>3
  <2>2. CASE \/ ReceiveStart(p) \/ ReceiveInit(p) \/ ReceiveInitack(p)
             \/ ReceiveIdle(p) \/ ReceiveEnd(p) \/ ReceiveCancel(p)
    BY <2>2, ReceiveSessionType
  <2>3. CASE ReceiveDevdata(p) \/ ReceiveDevdack(p)
    BY <2>3, ReceiveDeviceType
  <2>4. CASE \/ ReceiveFinfoack(p) \/ ReceiveDataack(p) \/ ReceiveRpos(p)
             \/ ReceiveEofack(p)
    BY <2>4, ReceiveAnswerType
  <2>5. CASE ReceiveFinfo(p)
    BY <2>5, ReceiveFinfoType
  <2>6. CASE ReceiveData(p) \/ WriteError(p)
    BY <2>6, ReceiveDataType
  <2>7. CASE ReceiveEof(p)
    BY <2>7, ReceiveEofType
  <2>8. QED
    BY <2>1, <2>2, <2>3, <2>4, <2>5, <2>6, <2>7 DEF Receive
<1>4. CASE \E p \in Peers : Chat(p) \/ UserAbort(p) \/ Lose(p)
  BY <1>4, UsersAndLineType
<1>5. CASE NewSession
  BY <1>5, NewSessionType
<1>6. CASE UNCHANGED vars
  BY <1>6 DEF vars, TypeInv, TxTyped, RxTyped, DevTyped, LineTyped, DiskTyped,
              ReportTyped
<1>7. QED
  BY <1>1, <1>2, <1>3, <1>4, <1>5, <1>6 DEF Next

\* The inductive type invariant, on which the other proofs rest: where a
\* transmitter reads a file and a receiver writes one, there is one, and no
\* FINFO names a file that its sender does not have.
THEOREM TypeInvariant == Spec => []TypeInv
<1>1. QED
  BY InitType, TypeStep, PTL DEF Spec

\* Every variable of HYDRA.C that is modelled keeps its type, whatever the
\* batches, windows, faults and number of sessions.
THEOREM TypeCorrect == Spec => []TypeOK
<1>1. QED
  BY TypeInvariant, TypeInvImplies, PTL
=============================================================================
