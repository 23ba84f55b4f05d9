--------------------------- MODULE HydraDelivery ---------------------------
(***************************************************************************)
(* What Hydra promises, for every pair of batches, all windows, any number *)
(* of faults and of sessions: no false XFER_OK, whole files under their    *)
(* names, and prefixes under BAD-XFER names; device packets heard once and *)
(* in order; sessions that end for both batches; and so all that           *)
(* BatchTransfer promises; and one rewind for each request.                *)
(***************************************************************************)
EXTENDS HydraSafety

\* The invariant of the promises: what they need to know of the types, of
\* the files held open and of the batches, and the three of them.
SafeInv ==
  /\ TypeInv /\ FilesHold /\ BatchesProceed
  /\ PartIsPrefix /\ SavedIsWhole /\ NoFalseOk

-----------------------------------------------------------------------------
(***************************************************************************)
(* The batches: where the transmitters are.                                *)
(***************************************************************************)
Closing == {"REND", "END", "ENDACK"}

AllSent(p) == tx[p].file = Len(Batch[p]) + 1

\* A step of p that leaves both batches where they are.
Stays(p) ==
  /\ tx'[p].file = tx[p].file
  /\ tx'[p].state \in Closing => tx[p].state \in Closing \/ AllSent(p)
  /\ rx'[p].state = "DONE" => rx[p].state = "DONE" \/ AllSent(Other(p))
  /\ tx'[Other(p)] = tx[Other(p)] /\ rx'[Other(p)] = rx[Other(p)]
  /\ result' = result

LEMMA StaysProceeds ==
  ASSUME BatchesProceed, NEW p \in Peers, Stays(p)
  PROVE  BatchesProceed'
<1>1. SUFFICES ASSUME NEW q \in Peers PROVE Proceeds(q)'
  BY DEF BatchesProceed
<1>2. Proceeds(q) /\ result'[q] = result[q]
  BY DEF BatchesProceed, Stays
<1>3. /\ tx'[q].file = tx[q].file
      /\ tx'[q].state \in Closing => tx[q].state \in Closing \/ AllSent(q)
      /\ rx'[Other(q)].state = "DONE" => rx[Other(q)].state = "DONE" \/ AllSent(q)
  <2>1. q = p \/ (q = Other(p) /\ Other(q) = p)
    BY OtherFacts
  <2>2. QED
    BY <2>1 DEF Stays
<1>4. QED
  BY <1>2, <1>3 DEF Proceeds, Closing, AllSent

LEMMA SettleStays ==
  ASSUME TypeInv, NEW p \in Peers, NEW t \in TxOf(p), NEW r, NEW d, NEW h,
         Settle(p, t, r, d, h), t.file = tx[p].file,
         t.state \in Closing => tx[p].state \in Closing \/ AllSent(p),
         r.state = "DONE" => rx[p].state = "DONE" \/ AllSent(Other(p)),
         result' = result
  PROVE  Stays(p)
<1>1. Other(p) # p /\ Other(p) \in Peers
  BY OtherFacts
<1>2. /\ tx'[p] = Settled(t, r, d, h) /\ rx'[p] = r
      /\ tx'[Other(p)] = tx[Other(p)] /\ rx'[Other(p)] = rx[Other(p)]
  BY <1>1 DEF Settle, TypeInv, TxTyped, RxTyped
<1>3. Resembles(t, Settled(t, r, d, h))
  BY SettledResembles
<1>4. QED
  BY <1>2, <1>3 DEF Stays, Resembles, Moves, Closing

\* The transmitter is not concerned.
LEMMA IdlesStays ==
  ASSUME TypeInv, NEW p \in Peers, NEW r, NEW d, NEW h,
         Settle(p, tx[p], r, d, h),
         r.state = "DONE" => rx[p].state = "DONE" \/ AllSent(Other(p)),
         result' = result
  PROVE  Stays(p)
BY Itself, SettleStays

LEMMA SendStays ==
  ASSUME TypeInv, NEW p \in Peers, NEW t, NEW s, Send(p, t, s),
         t.file = tx[p].file, t.state \in Closing => tx[p].state \in Closing
  PROVE  Stays(p)
<1>1. Other(p) # p /\ Other(p) \in Peers
  BY OtherFacts
<1>2. /\ tx'[p] = t /\ rx' = rx /\ tx'[Other(p)] = tx[Other(p)]
      /\ result' = result
  BY <1>1 DEF Send, Session, TypeInv, TxTyped
<1>3. QED
  BY <1>2 DEF Stays

LEMMA EndsStays ==
  ASSUME TypeInv, NEW p \in Peers, NEW why, Ends(p, why)
  PROVE  Stays(p)
<1>1. Other(p) # p /\ Other(p) \in Peers /\ tx[p] \in TxSet
  BY OtherFacts, OwnTypes DEF TxOf
<1>2. tx' = [tx EXCEPT ![p] = [@ EXCEPT !.state = "DONE", !.open = FALSE,
                                        !.timing = FALSE]]
  BY DEF Ends
<1>3. tx'[p] = [tx[p] EXCEPT !.state = "DONE", !.open = FALSE, !.timing = FALSE]
  BY <1>2 DEF TypeInv, TxTyped
<1>4. /\ tx'[p].file = tx[p].file /\ tx'[p].state = "DONE"
      /\ tx'[Other(p)] = tx[Other(p)] /\ rx' = rx /\ result' = result
  BY <1>1, <1>2, <1>3 DEF TypeInv, TxTyped, TxSet, Ends
<1>5. QED
  BY <1>4 DEF Stays, Closing

LEMMA AbortStays ==
  ASSUME TypeInv, NEW p \in Peers, Abort(p) \/ CarrierLost(p)
  PROVE  Stays(p)
BY EndsStays DEF Abort, CarrierLost

LEMMA TransmitStays ==
  ASSUME TypeInv, NEW p \in Peers, Transmit(p) \/ ReadError(p)
  PROVE  Stays(p)
<1>1. tx[p] \in TxSet
  BY OwnTypes DEF TxOf
<1>2. ASSUME NEW state, state \notin Closing \/ tx[p].state \in Closing,
             NEW s, Send(p, Waiting(p, state), s)
      PROVE  Stays(p)
  <2>1. Waiting(p, state).file = tx[p].file /\ Waiting(p, state).state = state
    BY WaitingFields
  <2>2. QED
    BY <1>2, <2>1, SendStays
<1>3. "SWAIT" \notin Closing /\ "INITACK" \notin Closing
      /\ "FINFOACK" \notin Closing /\ "EOFACK" \notin Closing
  BY DEF Closing
<1>4. CASE SendStart(p)
  BY <1>2, <1>3, <1>4 DEF SendStart
<1>5. CASE SendInit(p)
  BY <1>2, <1>3, <1>5 DEF SendInit
<1>6. CASE SendFinfo(p)
  BY <1>2, <1>3, <1>6 DEF SendFinfo
<1>7. CASE SendEof(p)
  BY <1>2, <1>3, <1>7 DEF SendEof
<1>8. CASE SendEnd(p)
  <2>1. tx[p].state \in Closing
    BY <1>8 DEF SendEnd, Closing
  <2>2. QED
    BY <1>2, <1>8, <2>1 DEF SendEnd
<1>9. CASE SendDevice(p)
  BY <1>9, SendStays DEF SendDevice
<1>10. CASE ReadError(p)
  <2> DEFINE t == [Waiting(p, "EOFACK") EXCEPT !.open = FALSE, !.pos = Skip]
  <2>1. t.file = tx[p].file /\ t.state = "EOFACK"
    BY <1>1 DEF Waiting, TxSet
  <2>2. Send(p, t, <<Position("EOF", Skip)>>)
    BY <1>10 DEF ReadError
  <2> HIDE DEF t
  <2>3. QED
    BY <1>3, <2>1, <2>2, SendStays
<1>11. CASE SendData(p)
  <2> DEFINE u(n, full) == [tx[p] EXCEPT !.pos = @ + n,
                              !.state = IF full THEN "DATAACK" ELSE @,
                              !.timing = IF full THEN TRUE ELSE @]
  <2>0. PICK n \in 1 .. BlockMax, full \in BOOLEAN :
          \E s : tx[p].state = "XDATA" /\ Send(p, u(n, full), s)
    BY <1>11 DEF SendData
  <2>1. PICK s : tx[p].state = "XDATA" /\ Send(p, u(n, full), s)
    BY <2>0
  <2>2. /\ u(n, full).file = tx[p].file
        /\ u(n, full).state \in {"XDATA", "DATAACK"}
    BY <1>1, <2>1 DEF TxSet
  <2> DEFINE t == u(n, full)
  <2>3. Send(p, t, s) /\ t.file = tx[p].file /\ t.state \notin Closing
    BY <2>1, <2>2 DEF Closing
  <2> HIDE DEF u, t
  <2>4. QED
    BY <2>3, SendStays
<1>12. QED
  BY <1>4, <1>5, <1>6, <1>7, <1>8, <1>9, <1>10, <1>11 DEF Transmit

LEMMA RetryStays ==
  ASSUME TypeInv, NEW p \in Peers, Timers(p)
  PROVE  Stays(p)
<1>1. CASE StillHere(p)
  BY <1>1, IdlesStays DEF StillHere, Session
<1>2. CASE DevRetry(p)
  BY <1>2, IdlesStays, AbortStays DEF DevRetry, Session
<1>3. CASE BrainDead(p)
  BY <1>3, AbortStays DEF BrainDead
<1>4. CASE Retry(p)
  <2> DEFINE t == [tx[p] EXCEPT !.retries = @ + 1, !.timing = FALSE,
                                !.state = RetryOf(@)]
  <2>1. CASE Abort(p)
    BY <2>1, AbortStays
  <2>2. CASE Settle(p, t, rx[p], dev[p], hdxlink[p]) /\ UNCHANGED <<line, Session>>
    <3>1. tx[p] \in TxSet /\ tx[p] \in TxOf(p)
      BY OwnTypes DEF TxOf
    <3>2. t.file = tx[p].file /\ t.open = tx[p].open
          /\ t.state = RetryOf(tx[p].state)
      BY <3>1 DEF TxSet
    <3>3. t.state \in Closing => tx[p].state \in Closing
      BY <3>2 DEF RetryOf, Closing
    <3>4. tx[p].retries + 1 \in Nat /\ RetryOf(tx[p].state) \in TxStates
      BY <3>1 DEF TxSet, RetryOf, TxStates, BeforeRend, Handshake, Sending
    <3>5. t \in TxSet
      BY <3>1, <3>4 DEF TxSet
    <3>6. t.state \in Sending => tx[p].state \in Sending
      BY <3>2 DEF RetryOf, Sending
    <3>7. result' = result
      BY <2>2 DEF Session
    <3>8. t.open <=> tx[p].open
      BY <3>2
    <3> HIDE DEF t
    <3>9. (t.state \in Sending \/ t.open) => t.file \in FilesOf(p)
      BY <3>1, <3>2, <3>6, <3>8, Zenon DEF TxOf
    <3>10. t \in TxOf(p)
      BY <3>5, <3>9 DEF TxOf
    <3>11. Settle(p, t, rx[p], dev[p], hdxlink[p])
      BY <2>2
    <3>12. QED
      BY <3>2, <3>3, <3>7, <3>10, <3>11, SettleStays
  <2>3. QED
    BY <1>4, <2>1, <2>2 DEF Retry
<1>5. QED
  BY <1>1, <1>2, <1>3, <1>4 DEF Timers

LEMMA SessionStays ==
  ASSUME TypeInv, NEW p \in Peers,
         \/ ReceiveStart(p) \/ ReceiveIdle(p) \/ ReceiveInit(p)
         \/ ReceiveInitack(p) \/ ReceiveEnd(p) \/ ReceiveCancel(p)
         \/ ReceiveDevdata(p) \/ ReceiveDevdack(p)
  PROVE  Stays(p)
<1>1. ASSUME NEW s \in TxStates, s \notin Closing,
             s \in Sending => tx[p].state \in Sending, NEW d, NEW h,
             Settle(p, Restarted(tx[p], s), rx[p], d, h), result' = result
      PROVE  Stays(p)
  <2>1. Restarted(tx[p], s) \in TxOf(p)
    <3>1. s \in Sending => tx[p].file \in FilesOf(p)
      BY <1>1, Itself DEF TxOf
    <3>2. QED
      BY <3>1, Itself, RestartedType
  <2>2. /\ Restarted(tx[p], s).state = s
        /\ Restarted(tx[p], s).file = tx[p].file
    BY Itself, RestartedFields
  <2>3. QED
    BY <1>1, <2>1, <2>2, SettleStays
<1>2. ASSUME NEW d, NEW h, Settle(p, tx[p], rx[p], d, h), result' = result
      PROVE  Stays(p)
  BY <1>2, IdlesStays
<1>3. /\ {"INIT", "RINIT", "XDATA"} \subseteq TxStates \ Closing
      /\ "INIT" \notin Sending /\ "RINIT" \notin Sending
  BY DEF TxStates, BeforeRend, Handshake, Sending, Closing
<1>4. CASE ReceiveStart(p)
  <2>1. \/ Settle(p, Restarted(tx[p], "INIT"), rx[p], dev[p], hdxlink[p])
        \/ Settle(p, tx[p], rx[p], dev[p], hdxlink[p])
    BY <1>4, Zenon DEF ReceiveStart
  <2>2. result' = result
    BY <1>4 DEF ReceiveStart, Session
  <2>3. QED
    BY <1>1, <1>2, <1>3, <2>1, <2>2
<1>5. CASE ReceiveInitack(p)
  <2>1. \/ Settle(p, Restarted(tx[p], "RINIT"), rx[p], dev[p], hdxlink[p])
        \/ Settle(p, tx[p], rx[p], dev[p], hdxlink[p])
    BY <1>5, Zenon DEF ReceiveInitack
  <2>2. result' = result
    BY <1>5 DEF ReceiveInitack, Session
  <2>3. QED
    BY <1>1, <1>2, <1>3, <2>1, <2>2
<1>6. CASE ReceiveIdle(p)
  <2>1. PICK h : \/ /\ tx[p].state = "XWAIT"
                    /\ Settle(p, Restarted(tx[p], "XDATA"), rx[p], dev[p], h)
                 \/ Settle(p, tx[p], rx[p], dev[p], h)
    BY <1>6, Zenon DEF ReceiveIdle
  <2>2. result' = result
    BY <1>6 DEF ReceiveIdle, Session
  <2>3. tx[p].state = "XWAIT" => tx[p].state \in Sending
    BY DEF Sending
  <2>4. QED
    BY <1>1, <1>2, <1>3, <2>1, <2>2, <2>3
<1>7. CASE ReceiveInit(p)
  <2>1. PICK r : /\ Settle(p, tx[p], r, dev[p], hdxlink[p])
                 /\ r = IF rx[p].state = "INIT"
                        THEN [rx[p] EXCEPT !.state = "FINFO"] ELSE rx[p]
    BY <1>7 DEF ReceiveInit
  <2>2. r.state = "DONE" => rx[p].state = "DONE"
    BY <2>1, OwnTypes DEF RxOf, RxSet
  <2>3. result' = result
    BY <1>7 DEF ReceiveInit, Session
  <2>4. QED
    BY <2>1, <2>2, <2>3, IdlesStays
<1>8. CASE ReceiveEnd(p)
  BY <1>2, <1>8, EndsStays DEF ReceiveEnd, Session
<1>9. CASE ReceiveCancel(p)
  BY <1>9, AbortStays DEF ReceiveCancel
<1>10. CASE ReceiveDevdata(p) \/ ReceiveDevdack(p)
  <2>1. PICK d : Settle(p, tx[p], rx[p], d, hdxlink[p])
    BY <1>10 DEF ReceiveDevdata, ReceiveDevdack
  <2>2. result' = result
    BY <1>10 DEF ReceiveDevdata, ReceiveDevdack, Session
  <2>3. QED
    BY <1>2, <2>1, <2>2
<1>11. QED
  BY <1>4, <1>5, <1>6, <1>7, <1>8, <1>9, <1>10

LEMMA AnsweredStays ==
  ASSUME TypeInv, NEW p \in Peers, ReceiveDataack(p) \/ ReceiveRpos(p)
  PROVE  Stays(p)
<1>1. CASE ReceiveDataack(p)
  <2>1. PICK t \in TxOf(p) :
          Settle(p, t, rx[p], dev[p], hdxlink[p]) /\ Resembles(tx[p], t)
    BY <1>1, DataackTx
  <2>2. t.file = tx[p].file /\ (t.state \in Closing => tx[p].state \in Closing)
    BY <2>1 DEF Resembles, Moves, Closing
  <2>3. result' = result
    BY <1>1 DEF ReceiveDataack, Session
  <2>4. QED
    BY <2>1, <2>2, <2>3, SettleStays
<1>2. CASE ReceiveRpos(p)
  <2> DEFINE t == tx[p]
             m == Head(line[p])
             v == Rewound(t, m.pos, m.id)
             again == [t EXCEPT !.retries = @ + 1]
             u == CASE t.state \in Sending /\ ~Repeats(t, m) -> v
                    [] Repeats(t, m) -> again
                    [] OTHER -> t
  <2>1. line[p] # <<>>
    BY <1>2 DEF ReceiveRpos, Arrived
  <2>2. t \in TxOf(p) /\ t \in TxSet /\ m.pos \in Int /\ m.id \in Nat
    BY <2>1, OwnTypes, HeadType DEF TxOf, TypeInv
  <2>3. CASE Abort(p)
    BY <2>3, AbortStays
  <2>4. CASE Settle(p, u, rx[p], dev[p], hdxlink[p]) /\ UNCHANGED Session
    <3>1. result' = result
      BY <2>4 DEF Session
    <3>2. CASE t.state \in Sending /\ ~Repeats(t, m)
      <4>1. u = v
        BY <3>2
      <4>2. v \in TxOf(p)
        BY <2>2, <3>2, RewoundType
      <4>3. v.file = t.file /\ v.state \notin Closing
        BY <2>2, <3>2 DEF Rewound, TxSet, Sending, Closing
      <4> HIDE DEF u, v
      <4>4. QED
        BY <2>4, <3>1, <4>1, <4>2, <4>3, SettleStays
    <3>3. CASE Repeats(t, m)
      <4>1. u = again
        BY <3>3
      <4>2. again \in TxSet /\ again.state = t.state /\ again.file = t.file
            /\ again.open = t.open
        <5>1. t.retries + 1 \in Nat
          BY <2>2 DEF TxSet
        <5>2. QED
          BY <2>2, <5>1 DEF TxSet
      <4> HIDE DEF u, again
      <4>3. again \in TxOf(p)
        BY <2>2, <4>2 DEF TxOf
      <4>4. QED
        BY <2>4, <3>1, <4>1, <4>2, <4>3, SettleStays
    <3>4. CASE t.state \notin Sending /\ ~Repeats(t, m)
      <4>1. u = t
        BY <3>4
      <4>2. QED
        BY <2>4, <3>1, <4>1, IdlesStays
    <3>5. QED
      BY <3>2, <3>3, <3>4
  <2>5. QED
    BY <1>2, <2>3, <2>4 DEF ReceiveRpos
<1>3. QED
  BY <1>1, <1>2

\* A step of p that ends one of its files, and the reason to call it sent.
Reports(p) ==
  /\ Running(p) /\ tx[p].file \in FilesOf(p)
  /\ \E x \in {"OK", "SKIP"} :
       /\ Returns(p, x)
       /\ x = "OK" => saved[Other(p)][tx[p].file] # <<>>

LEMMA ReportsTx ==
  ASSUME TypeInv, NEW p \in Peers, NEW x \in {"OK", "SKIP"}, Returns(p, x),
         Running(p), tx[p].file \in FilesOf(p), Len(result[p]) = tx[p].file - 1
  PROVE  /\ tx'[p].file \in (tx[p].file + 1) .. (Len(Batch[p]) + 1)
         /\ Len(result'[p]) = tx'[p].file - 1
         /\ tx'[p].state = "FINFO"
         /\ tx'[Other(p)] = tx[Other(p)] /\ rx' = rx
         /\ result'[Other(p)] = result[Other(p)]
         /\ result'[p][tx[p].file] = x /\ result'[p] \in Seq({"OK", "SKIP"})
         /\ \A i \in 1 .. Len(result[p]) : result'[p][i] = result[p][i]
         /\ \A i \in DOMAIN result'[p] :
              \/ i \in DOMAIN result[p] /\ result'[p][i] = result[p][i]
              \/ i = tx[p].file
              \/ result'[p][i] = "SKIP"
<1> DEFINE k == tx[p].file
           old == result[p]
           more == Skipped(p, k + 1)
           new == old \o <<x>> \o more
<1>1. /\ tx'[Other(p)] = tx[Other(p)] /\ rx' = rx
      /\ tx'[p].state = "FINFO" /\ tx'[p].file = Openable(p, k + 1)
  BY ReturnsTx
<1>2. k \in Nat /\ k + 1 \in 1 .. (Len(Batch[p]) + 1)
  <2>1. k + 1 \in 1 .. (Len(Batch[p]) + 1)
    BY FileBefore
  <2>2. k \in 1 .. Len(Batch[p])
    BY DEF FilesOf
  <2>3. QED
    BY <2>1, <2>2
<1>3. /\ Openable(p, k + 1) \in (k + 1) .. (Len(Batch[p]) + 1)
      /\ more \in Seq({"OK", "SKIP"}) /\ Len(more) = Openable(p, k + 1) - (k + 1)
      /\ \A i \in DOMAIN more : more[i] = "SKIP"
  BY <1>2, OpenableFacts
<1>4. old \in Seq({"OK", "SKIP"}) /\ Len(old) = k - 1
  BY DEF TypeInv, ReportTyped
<1>5. result'[p] = new /\ result'[Other(p)] = result[Other(p)]
  BY OtherFacts DEF Returns, TypeInv, ReportTyped
<1> HIDE DEF k, old, more
<1>6. /\ Len(old) \in Nat /\ Len(more) \in Nat
      /\ new \in Seq({"OK", "SKIP"})
      /\ Len(new) = Len(old) + 1 + Len(more) /\ DOMAIN new = 1 .. Len(new)
      /\ \A i \in 1 .. Len(old) : new[i] = old[i]
      /\ new[Len(old) + 1] = x
      /\ \A i \in (Len(old) + 2) .. Len(new) :
           i - (Len(old) + 1) \in 1 .. Len(more) /\ new[i] = more[i - (Len(old) + 1)]
  <2> DEFINE first == old \o <<x>>
  <2>1. /\ Len(old) \in Nat /\ Len(more) \in Nat /\ DOMAIN old = 1 .. Len(old)
        /\ <<x>> \in Seq({"OK", "SKIP"}) /\ Len(<<x>>) = 1 /\ <<x>>[1] = x
    BY <1>3, <1>4, LenProperties
  <2>2. /\ first \in Seq({"OK", "SKIP"}) /\ Len(first) = Len(old) + 1
        /\ \A i \in 1 .. Len(old) : first[i] = old[i]
        /\ first[Len(old) + 1] = x
    BY <1>4, <2>1, ConcatProperties
  <2> HIDE DEF first
  <2>3. /\ first \o more \in Seq({"OK", "SKIP"})
        /\ Len(first \o more) = Len(first) + Len(more)
        /\ \A i \in 1 .. (Len(first) + Len(more)) :
             (first \o more)[i] = IF i <= Len(first) THEN first[i]
                                  ELSE more[i - Len(first)]
    BY <1>3, <2>2, ConcatProperties
  <2>4. new = first \o more
    BY DEF first
  <2> HIDE DEF new
  <2>5. Len(new) = Len(old) + 1 + Len(more) /\ DOMAIN new = 1 .. Len(new)
    BY <2>1, <2>2, <2>3, <2>4, LenProperties
  <2>6. \A i \in 1 .. Len(old) : new[i] = old[i]
    BY <2>1, <2>2, <2>3, <2>4
  <2>7. new[Len(old) + 1] = x
    BY <2>1, <2>2, <2>3, <2>4
  <2>8. \A i \in (Len(old) + 2) .. Len(new) :
          i - (Len(old) + 1) \in 1 .. Len(more) /\ new[i] = more[i - (Len(old) + 1)]
    BY <2>1, <2>2, <2>3, <2>4, <2>5
  <2>9. QED
    BY <2>1, <2>3, <2>4, <2>5, <2>6, <2>7, <2>8
<1> HIDE DEF new
<1>7. /\ DOMAIN old = 1 .. Len(old) /\ DOMAIN more = 1 .. Len(more)
  BY <1>3, <1>4, LenProperties
<1>8. Len(new) = Openable(p, k + 1) - 1
  BY <1>2, <1>3, <1>4, <1>6
<1>9. ASSUME NEW i \in DOMAIN new
      PROVE  \/ i \in DOMAIN old /\ new[i] = old[i]
             \/ i = k
             \/ new[i] = "SKIP"
  <2>1. CASE i <= Len(old)
    BY <1>6, <1>7, <1>9, <2>1
  <2>2. CASE i = Len(old) + 1
    BY <1>2, <1>4, <2>2
  <2>3. CASE i >= Len(old) + 2
    <3>1. i \in (Len(old) + 2) .. Len(new)
      BY <1>6, <1>9, <2>3
    <3>2. QED
      BY <1>3, <1>6, <1>7, <3>1
  <2>4. QED
    BY <1>6, <1>9, <2>1, <2>2, <2>3
<1>10. new[k] = x
  BY <1>2, <1>4, <1>6
<1>11. QED
  BY <1>1, <1>3, <1>5, <1>6, <1>8, <1>9, <1>10 DEF k, old

LEMMA ReportsProceeds ==
  ASSUME TypeInv, BatchesProceed, NEW p \in Peers, Reports(p)
  PROVE  BatchesProceed'
<1> DEFINE q == Other(p)
<1>1. /\ q \in Peers /\ q # p /\ Other(q) = p
      /\ \A o \in Peers : o = p \/ o = q
  BY OtherFacts
<1>2. PICK x \in {"OK", "SKIP"} : Returns(p, x)
  BY DEF Reports
<1>3. Proceeds(p) /\ Proceeds(q)
  BY <1>1 DEF BatchesProceed
<1>4. /\ tx'[p].file \in (tx[p].file + 1) .. (Len(Batch[p]) + 1)
      /\ Len(result'[p]) = tx'[p].file - 1
      /\ tx'[p].state = "FINFO" /\ tx'[q] = tx[q] /\ rx' = rx
      /\ result'[q] = result[q]
  BY <1>2, <1>3, ReportsTx DEF Proceeds, Reports
<1>5. tx[p].file \in 1 .. Len(Batch[p]) /\ Len(Batch[p]) \in Nat
  BY BatchType DEF Reports, FilesOf
<1>6. rx[q].state # "DONE"
  BY <1>3, <1>5 DEF Proceeds
<1>7. Proceeds(p)'
  BY <1>4, <1>5, <1>6 DEF Proceeds
<1>8. Proceeds(q)'
  BY <1>1, <1>3, <1>4 DEF Proceeds
<1>9. QED
  BY <1>1, <1>7, <1>8 DEF BatchesProceed

LEMMA ReceiveFinfoackCases ==
  ASSUME TypeInv, FilesHold, BatchesProceed, NEW p \in Peers, ReceiveFinfoack(p)
  PROVE  Stays(p) \/ Reports(p)
<1> DEFINE q == Other(p)
           pos == Head(line[p]).pos
           closing == [tx[p] EXCEPT !.state = "REND", !.retries = 0,
                                    !.timing = TRUE]
           started == [Restarted(tx[p], "XDATA") EXCEPT !.pos = pos,
                                                        !.lastack = pos]
<1>1. Arrived(p, "FINFOACK") /\ Running(p) /\ line[p] # <<>>
  BY DEF ReceiveFinfoack, Arrived
<1>2. /\ tx[p].state = "FINFOACK"
      /\ tx[p].open = TRUE /\ pos < 0 =>
           (pos = HaveIt => saved[q][tx[p].file] # <<>>)
      /\ tx[p].open = TRUE <=> tx[p].file <= Len(Batch[p])
  BY <1>1, FinfoackNow
<1>3. tx[p] \in TxOf(p) /\ tx[p] \in TxSet /\ pos \in Int /\ tx[p].open \in BOOLEAN
  BY <1>1, OwnTypes, HeadType DEF TxOf, TypeInv, TxSet
<1>4. tx[p].file \in 1 .. (Len(Batch[p]) + 1) /\ Len(Batch[p]) \in Nat
  BY BatchType DEF BatchesProceed, Proceeds
<1>5. CASE tx[p].open = TRUE /\ pos < 0
  <2>1. Returns(p, IF pos = HaveIt THEN "OK" ELSE "SKIP")
    BY <1>2, <1>5, Zenon DEF ReceiveFinfoack
  <2>2. tx[p].file \in FilesOf(p)
    BY <1>3, <1>5 DEF TxOf
  <2>3. CASE pos = HaveIt
    BY <1>1, <1>2, <1>5, <2>1, <2>2, <2>3 DEF Reports
  <2>4. CASE pos # HaveIt
    BY <1>1, <2>1, <2>2, <2>4 DEF Reports
  <2>5. QED
    BY <2>3, <2>4
<1>6. CASE tx[p].open = FALSE
  <2>1. Settle(p, closing, rx[p], dev[p], hdxlink[p]) /\ UNCHANGED Session
    BY <1>2, <1>6, Zenon DEF ReceiveFinfoack
  <2>2. closing.state = "REND" /\ closing.file = tx[p].file /\ closing.open = FALSE
    BY <1>3, <1>6 DEF TxSet
  <2>3. closing \in TxSet
    BY <1>3 DEF TxSet, TxStates
  <2> HIDE DEF closing
  <2>4. closing \in TxOf(p)
    BY <2>2, <2>3 DEF TxOf, Sending
  <2>5. AllSent(p)
    BY <1>2, <1>4, <1>6 DEF AllSent
  <2>6. result' = result
    BY <2>1 DEF Session
  <2>7. QED
    BY <2>1, <2>2, <2>4, <2>5, <2>6, SettleStays
<1>7. CASE tx[p].open = TRUE /\ ~(pos < 0)
  <2>1. Settle(p, started, rx[p], dev[p], hdxlink[p]) /\ UNCHANGED Session
    BY <1>2, <1>7, Zenon DEF ReceiveFinfoack
  <2>2. started.state = "XDATA" /\ started.file = tx[p].file
    BY <1>3, <1>7 DEF Restarted, TxSet
  <2>3. started \in TxSet
    BY <1>3 DEF Restarted, TxSet, TxStates, BeforeRend, Sending
  <2>4. tx[p].file \in FilesOf(p)
    BY <1>3, <1>7 DEF TxOf
  <2> HIDE DEF started
  <2>5. started \in TxOf(p) /\ started.state \notin Closing
    BY <2>2, <2>3, <2>4 DEF TxOf, Closing
  <2>6. result' = result
    BY <2>1 DEF Session
  <2>7. QED
    BY <2>1, <2>2, <2>5, <2>6, SettleStays
<1>8. QED
  BY <1>3, <1>5, <1>6, <1>7

LEMMA ReceiveEofackCases ==
  ASSUME TypeInv, FilesHold, NEW p \in Peers, ReceiveEofack(p)
  PROVE  Stays(p) \/ Reports(p)
<1>1. Running(p) /\ line[p] # <<>> /\ Head(line[p]).type = "EOFACK"
  BY DEF ReceiveEofack, Arrived
<1>2. CASE tx[p].state \in {"EOF", "EOFACK"}
  <2>1. Returns(p, IF tx[p].open THEN "OK" ELSE "SKIP")
    BY <1>2, Zenon DEF ReceiveEofack
  <2>2. /\ tx[p].state \in Sending /\ tx[p].file \in FilesOf(p)
        /\ tx[p].open \in BOOLEAN
    BY <1>2, Itself DEF Sending, TxOf, TxSet
  <2>3. tx[p].open = TRUE => saved[Other(p)][tx[p].file] # <<>>
    BY <1>1, <2>2, SendingNow
  <2>4. CASE tx[p].open = TRUE
    <3>1. Returns(p, "OK")
      BY <2>1, <2>4
    <3>2. QED
      BY <1>1, <2>2, <2>3, <2>4, <3>1 DEF Reports
  <2>5. CASE tx[p].open = FALSE
    <3>1. Returns(p, "SKIP")
      BY <2>1, <2>5
    <3>2. QED
      BY <1>1, <2>2, <3>1 DEF Reports
  <2>6. QED
    BY <2>2, <2>4, <2>5
<1>3. CASE tx[p].state \notin {"EOF", "EOFACK"}
  <2>1. Settle(p, tx[p], rx[p], dev[p], hdxlink[p]) /\ result' = result
    BY <1>3 DEF ReceiveEofack, Session
  <2>2. QED
    BY <2>1, IdlesStays
<1>4. QED
  BY <1>2, <1>3

\* The receiver hears of no more files only when there are none.
LEMMA ReceiveFinfoStays ==
  ASSUME TypeInv, FilesHold, BatchesProceed, NEW p \in Peers, ReceiveFinfo(p)
  PROVE  Stays(p)
<1> DEFINE q == Other(p)
           k == Head(line[p]).id
           r == rx[p]
           begun == [r EXCEPT !.state = "DATA", !.file = k,
                        !.pos = Len(part[p][k]), !.timing = FALSE,
                        !.retries = 0, !.lastsync = 0, !.syncid = 0]
<1>1. /\ line[p] # <<>> /\ Head(line[p]).type = "FINFO"
      /\ q \in Peers /\ Other(q) = p /\ r \in RxSet
  BY OtherFacts, OwnTypes DEF ReceiveFinfo, Arrived, RxOf
<1>2. k = FileId(q, tx[q])
  <2>1. Files(q, tx[q], r, line[p], line[q], part[p], saved[p], tx[p].state)
    BY Both
  <2>2. 1 \in 1 .. Len(line[p]) /\ line[p][1] = Head(line[p])
    BY <1>1, TailFacts DEF TypeInv
  <2>3. QED
    BY <1>1, <2>1, <2>2 DEF Files, Offers
<1>3. k = 0 => AllSent(q)
  <2>1. tx[q].file \in 1 .. (Len(Batch[q]) + 1) /\ Len(Batch[q]) \in Nat
    BY <1>1, BatchType DEF BatchesProceed, Proceeds
  <2>2. QED
    BY <1>2, <2>1 DEF FileId, AllSent
<1>4. ASSUME NEW r2, Answers(p, r2),
             r2.state = "DONE" => r.state = "DONE" \/ AllSent(q)
      PROVE  Stays(p)
  <2>1. Settle(p, tx[p], r2, dev[p], hdxlink[p]) /\ result' = result
    BY <1>4 DEF Answers, Session
  <2>2. QED
    BY <1>4, <2>1, IdlesStays
<1>5. CASE k = 0 /\ Answers(p, [r EXCEPT !.pos = 0, !.state = "DONE"])
  BY <1>3, <1>4, <1>5
<1>6. ASSUME NEW n, Answers(p, [r EXCEPT !.pos = n]) PROVE Stays(p)
  <2>1. [r EXCEPT !.pos = n].state = r.state
    BY <1>1 DEF RxSet
  <2>2. QED
    BY <1>4, <1>6, <2>1
<1>7. CASE Answers(p, begun)
  <2>1. begun.state = "DATA"
    BY <1>1 DEF RxSet
  <2> HIDE DEF begun
  <2>2. QED
    BY <1>4, <1>7, <2>1
<1>8. CASE Answers(p, r)
  BY <1>4, <1>8
<1>9. QED
  BY <1>5, <1>6, <1>7, <1>8, Zenon DEF ReceiveFinfo

LEMMA MisplacedStays ==
  ASSUME TypeInv, NEW p \in Peers, NEW pos, NEW may, Misplaced(p, pos, may)
  PROVE  Stays(p)
<1> DEFINE r == IF pos <= rx[p].lastsync
                THEN [rx[p] EXCEPT !.lastsync = pos, !.timing = FALSE,
                                   !.retries = 0]
                ELSE [rx[p] EXCEPT !.lastsync = pos]
           asked(tries) == [r EXCEPT !.retries = tries, !.timing = TRUE,
                              !.syncid = IF tries = 1 THEN @ + 1 ELSE @]
<1>1. /\ r.state = rx[p].state
      /\ \A tries : asked(tries).state = rx[p].state
  BY OwnTypes DEF RxOf, RxSet
<1>2. \/ Abort(p)
      \/ /\ Settle(p, tx[p], r, dev[p], hdxlink[p]) /\ UNCHANGED Session
      \/ \E tries, h : Settle(p, tx[p], asked(tries), dev[p], h) /\ UNCHANGED Session
  BY Zenon DEF Misplaced
<1>3. UNCHANGED Session => result' = result
  BY DEF Session
<1> HIDE DEF r, asked
<1>4. QED
  BY <1>1, <1>2, <1>3, IdlesStays, AbortStays

LEMMA ReceiverStays ==
  ASSUME TypeInv, NEW p \in Peers,
         ReceiveData(p) \/ WriteError(p) \/ ReceiveEof(p)
  PROVE  Stays(p)
<1>1. rx[p] \in RxSet
  BY OwnTypes DEF RxOf
<1>2. ASSUME NEW r, r.state # "DONE" \/ rx[p].state = "DONE",
             Settle(p, tx[p], r, dev[p], hdxlink[p]), result' = result
      PROVE  Stays(p)
  BY <1>2, IdlesStays
<1>3. ASSUME NEW pos, NEW may, Misplaced(p, pos, may) PROVE Stays(p)
  BY <1>3, MisplacedStays
<1>4. CASE ReceiveData(p)
  <2> DEFINE pos == rx[p].pos + Len(Head(line[p]).data)
             r == [rx[p] EXCEPT !.pos = pos, !.lastsync = rx[p].pos,
                                !.retries = 0, !.timing = FALSE]
  <2>1. \/ Settle(p, tx[p], rx[p], dev[p], hdxlink[p]) /\ UNCHANGED Session
        \/ \E n : Misplaced(p, n, TRUE)
        \/ /\ rx[p].state = "DATA" /\ Settle(p, tx[p], r, dev[p], hdxlink[p])
           /\ UNCHANGED <<saved, result, outcome, heard, session, faults>>
    BY <1>4, Zenon DEF ReceiveData
  <2>2. r.state = rx[p].state
    BY <1>1 DEF RxSet
  <2>3. UNCHANGED Session => result' = result
    BY DEF Session
  <2> HIDE DEF r
  <2>4. QED
    BY <1>2, <1>3, <2>1, <2>2, <2>3, Itself
<1>5. CASE WriteError(p)
  <2> DEFINE r == [rx[p] EXCEPT !.pos = Skip, !.retries = 1, !.timing = TRUE,
                                !.syncid = @ + 1]
  <2>1. /\ rx[p].state = "DATA" /\ Settle(p, tx[p], r, dev[p], hdxlink[p])
        /\ result' = result
    BY <1>5 DEF WriteError
  <2>2. r.state = rx[p].state
    BY <1>1 DEF RxSet
  <2> HIDE DEF r
  <2>3. QED
    BY <1>2, <2>1, <2>2
<1>6. CASE ReceiveEof(p)
  <2>1. ASSUME Acknowledges(p) PROVE Stays(p)
    <3>1. /\ Settle(p, tx[p], [rx[p] EXCEPT !.state = "FINFO"], dev[p], hdxlink[p])
          /\ result' = result
      BY <2>1 DEF Acknowledges
    <3>2. [rx[p] EXCEPT !.state = "FINFO"].state # "DONE"
      BY <1>1 DEF RxSet
    <3>3. QED
      BY <1>2, <3>1, <3>2
  <2>2. \/ Acknowledges(p)
        \/ \E n : Misplaced(p, n, FALSE)
        \/ Settle(p, tx[p], rx[p], dev[p], hdxlink[p]) /\ UNCHANGED Session
    BY <1>6, Zenon DEF ReceiveEof
  <2>3. UNCHANGED Session => result' = result
    BY DEF Session
  <2>4. QED
    BY <1>3, <2>1, <2>2, <2>3, IdlesStays
<1>7. QED
  BY <1>4, <1>5, <1>6

\* What a step does to the batches: it leaves them where they are, ends a file
\* or begins another session.
LEMMA BatchCases ==
  ASSUME TypeInv, FilesHold, BatchesProceed, [Next]_vars
  PROVE  NewSession \/ \E p \in Peers : Stays(p) \/ Reports(p)
<1>1. CASE UNCHANGED vars
  <2>1. PICK p \in Peers : TRUE
    BY HydraAssumption DEF HydraAssumption
  <2>2. Stays(p)
    BY <1>1 DEF vars, Stays
  <2>3. QED
    BY <2>2
<1>2. ASSUME NEW p \in Peers, Chat(p) \/ Lose(p) PROVE Stays(p)
  BY <1>2 DEF Chat, Lose, Session, Stays
<1>3. ASSUME NEW p \in Peers, UserAbort(p) PROVE Stays(p)
  BY <1>3, AbortStays DEF UserAbort
<1>4. ASSUME NEW p \in Peers, Receive(p) PROVE Stays(p) \/ Reports(p)
  BY <1>4, SessionStays, AnsweredStays, ReceiveFinfoackCases,
     ReceiveEofackCases, ReceiveFinfoStays, ReceiverStays
     DEF Receive
<1>5. QED
  BY <1>1, <1>2, <1>3, <1>4, TransmitStays, RetryStays, ReceiverStays DEF Next

LEMMA BegunProceeds ==
  ASSUME FirstReadable, NEW p \in Peers, NEW t, NEW r, NEW s,
         t = Begun(p, Idle, 1), r = FreshRx, s = Skipped(p, 1)
  PROVE  /\ t.file \in 1 .. (Len(Batch[p]) + 1)
         /\ Len(s) = t.file - 1
         /\ r.state # "DONE" /\ t.state \notin {"REND", "END", "ENDACK"}
<1>1. t.state = "START" /\ t.file = 1 /\ Len(s) = 0
  BY BegunFirst
<1>2. Len(Batch[p]) \in Nat
  BY BatchType
<1>3. r.state = "INIT"
  BY DEF FreshRx
<1>4. QED
  BY <1>1, <1>2, <1>3

LEMMA InitBatches == FirstReadable /\ Init => BatchesProceed
<1>1. SUFFICES ASSUME FirstReadable, Init, NEW p \in Peers PROVE Proceeds(p)
  BY DEF BatchesProceed
<1>2. /\ tx[p] = Begun(p, Idle, 1) /\ rx[Other(p)] = FreshRx
      /\ result[p] = Skipped(p, 1)
  BY <1>1, OtherFacts DEF Init
<1>3. QED
  BY <1>1, <1>2, BegunProceeds DEF Proceeds

LEMMA BatchesStep ==
  ASSUME FirstReadable, TypeInv, FilesHold, BatchesProceed, [Next]_vars
  PROVE  BatchesProceed'
<1>1. CASE NewSession
  <2>1. SUFFICES ASSUME NEW p \in Peers PROVE Proceeds(p)'
    BY DEF BatchesProceed
  <2>2. /\ tx'[p] = Begun(p, Idle, 1) /\ rx'[Other(p)] = FreshRx
        /\ result'[p] = Skipped(p, 1)
    BY <1>1, OtherFacts DEF NewSession
  <2>3. QED
    BY <2>2, BegunProceeds DEF Proceeds
<1>2. QED
  BY <1>1, BatchCases, StaysProceeds, ReportsProceeds

-----------------------------------------------------------------------------
(***************************************************************************)
(* The disks.                                                              *)
(***************************************************************************)

\* What a prefix is, and that it remains one with the piece that follows.
LEMMA PrefixMeans ==
  ASSUME NEW s \in Seq(Units), NEW file \in Seq(Units)
  PROVE  IsPrefix(s, file) <=> /\ Len(s) <= Len(file)
                               /\ s = SubSeq(file, 1, Len(s))
<1>1. SubSeq(s, 1, Len(s)) = s
  BY SubSeqFull
<1>2. QED
  BY <1>1 DEF IsPrefix

LEMMA PrefixEmpty ==
  ASSUME NEW file \in Seq(Units)
  PROVE  IsPrefix(<<>>, file)
<1>1. <<>> \in Seq(Units) /\ Len(<<>>) = 0 /\ Len(file) \in Nat
  BY LenProperties, EmptySeq
<1>2. SubSeq(file, 1, 0) = <<>>
  BY SubSeqEmpty
<1> DEFINE e == <<>>
<1>3. e \in Seq(Units) /\ Len(e) = 0 /\ SubSeq(file, 1, 0) = e
  BY <1>1, <1>2
<1> HIDE DEF e
<1>4. IsPrefix(e, file)
  <2>1. Len(e) <= Len(file) /\ e = SubSeq(file, 1, Len(e))
    BY <1>1, <1>3
  <2>2. QED
    BY <1>3, <2>1, PrefixMeans
<1>5. QED
  BY <1>4 DEF e

LEMMA PrefixWhole ==
  ASSUME NEW s \in Seq(Units), NEW file \in Seq(Units), IsPrefix(s, file),
         Len(s) = Len(file)
  PROVE  s = file
BY PrefixMeans, SubSeqFull

LEMMA PrefixGrows ==
  ASSUME NEW s \in Seq(Units), NEW file \in Seq(Units), IsPrefix(s, file),
         NEW m, m.data \in Seq(Units), m.pos = Len(s), IsPiece(m, file)
  PROVE  s \o m.data \in Seq(Units) /\ IsPrefix(s \o m.data, file)
<1> DEFINE x == m.data
           k == Len(s)
           n == Len(s) + Len(x)
<1>1. /\ k \in Nat /\ Len(x) \in Nat /\ n \in Nat /\ Len(file) \in Nat
      /\ n <= Len(file) /\ x = SubSeq(file, k + 1, n)
  BY LenProperties DEF IsPiece
<1>2. s = SubSeq(file, 1, k)
  BY PrefixMeans
<1>3. s \o x \in Seq(Units) /\ Len(s \o x) = n
  BY ConcatProperties
<1>4. 1 \in 1 .. (Len(file) + 1) /\ k \in (1 - 1) .. Len(file) /\ n \in k .. Len(file)
  BY <1>1
<1> HIDE DEF k, n, x
<1>5. SubSeq(file, 1, k) \o SubSeq(file, k + 1, n) = SubSeq(file, 1, n)
  BY <1>4, ConcatAdjacentSubSeq
<1>6. s \o x = SubSeq(file, 1, n)
  BY <1>1, <1>2, <1>5
<1>7. IsPrefix(s \o x, file)
  <2> DEFINE y == s \o x
  <2>1. y \in Seq(Units) /\ Len(y) = n /\ y = SubSeq(file, 1, n)
    BY <1>3, <1>6
  <2> HIDE DEF y
  <2>2. IsPrefix(y, file)
    BY <1>1, <2>1, PrefixMeans
  <2>3. QED
    BY <2>2 DEF y
<1>8. QED
  BY <1>3, <1>7 DEF x

\* What a step does to the disks: nothing, a part is closed, grows by a packet
\* that is in place, or is saved.
Closes(p) == part' = Closed(p) /\ saved' = saved

Writes(p) ==
  /\ Arrived(p, "DATA") /\ rx[p].state = "DATA" /\ InPlace(p)
  /\ part' = [part EXCEPT ![p][rx[p].file] = @ \o Head(line[p]).data]
  /\ saved' = saved

Stores(p) ==
  /\ Arrived(p, "EOF") /\ rx[p].state = "DATA" /\ InPlace(p)
  /\ Head(line[p]).pos >= 0
  /\ Puts(p, rx[p].file, <<>>)
  /\ Saves(p, rx[p].file, part[p][rx[p].file])

SameDisks == UNCHANGED <<part, saved>>

LEMMA AbortDisks ==
  ASSUME NEW p \in Peers, Abort(p) \/ CarrierLost(p)
  PROVE  Closes(p)
BY DEF Abort, CarrierLost, Ends, Closes

LEMMA MisplacedDisks ==
  ASSUME NEW p \in Peers, NEW pos, NEW may, Misplaced(p, pos, may)
  PROVE  SameDisks \/ Closes(p)
<1>1. UNCHANGED Session \/ Abort(p)
  BY Zenon DEF Misplaced
<1>2. QED
  BY <1>1, AbortDisks DEF Session, SameDisks

LEMMA TransmitDisks ==
  ASSUME NEW p \in Peers, Transmit(p) \/ ReadError(p)
  PROVE  SameDisks
<1>1. ASSUME NEW t, NEW s, Send(p, t, s) PROVE SameDisks
  BY <1>1 DEF Send, Session, SameDisks
<1>2. \E t, s : Send(p, t, s)
  BY DEF Transmit, SendStart, SendInit, SendFinfo, SendData, SendEof, SendEnd,
         SendDevice, ReadError
<1>3. QED
  BY <1>1, <1>2

LEMMA TimersDisks ==
  ASSUME NEW p \in Peers, Timers(p)
  PROVE  SameDisks \/ Closes(p)
<1>1. CASE StillHere(p)
  BY <1>1 DEF StillHere, Session, SameDisks
<1>2. CASE Retry(p)
  <2>1. UNCHANGED Session \/ Abort(p)
    BY <1>2, Zenon DEF Retry
  <2>2. QED
    BY <2>1, AbortDisks DEF Session, SameDisks
<1>3. CASE DevRetry(p)
  <2>1. UNCHANGED Session \/ Abort(p)
    BY <1>3, Zenon DEF DevRetry
  <2>2. QED
    BY <2>1, AbortDisks DEF Session, SameDisks
<1>4. CASE BrainDead(p)
  BY <1>4, AbortDisks DEF BrainDead
<1>5. QED
  BY <1>1, <1>2, <1>3, <1>4 DEF Timers

LEMMA ReceiveDisks ==
  ASSUME NEW p \in Peers, Receive(p)
  PROVE  SameDisks \/ Closes(p) \/ Writes(p) \/ Stores(p)
<1>1. UNCHANGED Session => SameDisks
  BY DEF Session, SameDisks
<1>2. CASE ReceiveStart(p) \/ ReceiveInit(p) \/ ReceiveInitack(p)
           \/ ReceiveIdle(p) \/ ReceiveDevdack(p) \/ ReceiveDataack(p)
  BY <1>1, <1>2 DEF ReceiveStart, ReceiveInit, ReceiveInitack, ReceiveIdle,
                    ReceiveDevdack, ReceiveDataack
<1>3. CASE ReceiveDevdata(p)
  BY <1>3 DEF ReceiveDevdata, SameDisks
<1>4. CASE ReceiveEnd(p)
  BY <1>1, <1>4, Zenon DEF ReceiveEnd, Ends, Closes
<1>5. CASE ReceiveCancel(p)
  BY <1>5, AbortDisks DEF ReceiveCancel
<1>6. CASE ReceiveFinfoack(p)
  <2>1. UNCHANGED Session \/ \E x : Returns(p, x)
    BY <1>6, Zenon DEF ReceiveFinfoack
  <2>2. QED
    BY <1>1, <2>1 DEF Returns, SameDisks
<1>7. CASE ReceiveEofack(p)
  <2>1. UNCHANGED Session \/ \E x : Returns(p, x)
    BY <1>7, Zenon DEF ReceiveEofack
  <2>2. QED
    BY <1>1, <2>1 DEF Returns, SameDisks
<1>8. CASE ReceiveRpos(p)
  <2>1. UNCHANGED Session \/ Abort(p)
    BY <1>8, Zenon DEF ReceiveRpos
  <2>2. QED
    BY <1>1, <2>1, AbortDisks
<1>9. CASE ReceiveFinfo(p)
  <2>1. \E r : Answers(p, r)
    BY <1>9 DEF ReceiveFinfo
  <2>2. QED
    BY <1>1, <2>1 DEF Answers
<1>10. CASE ReceiveData(p)
  <2>1. \/ UNCHANGED Session
        \/ \E n : Misplaced(p, n, TRUE)
        \/ Writes(p)
    BY <1>10 DEF ReceiveData, Writes
  <2>2. QED
    BY <1>1, <2>1, MisplacedDisks
<1>11. CASE ReceiveEof(p)
  <2>1. \/ UNCHANGED Session
        \/ SameDisks
        \/ Closes(p)
        \/ Stores(p)
        \/ \E n : Misplaced(p, n, FALSE)
    BY <1>11 DEF ReceiveEof, SameDisks, Closes, Stores, Puts, Saves
  <2>2. QED
    BY <1>1, <2>1, MisplacedDisks
<1>12. QED
  BY <1>2, <1>3, <1>4, <1>5, <1>6, <1>7, <1>8, <1>9, <1>10, <1>11 DEF Receive

LEMMA DiskCases ==
  ASSUME [Next]_vars
  PROVE  SameDisks \/ \E p \in Peers : Closes(p) \/ Writes(p) \/ Stores(p)
<1>1. CASE UNCHANGED vars \/ NewSession
  BY <1>1 DEF vars, NewSession, SameDisks
<1>2. ASSUME NEW p \in Peers, Chat(p) \/ Lose(p) PROVE SameDisks
  BY <1>2 DEF Chat, Lose, Session, SameDisks
<1>3. ASSUME NEW p \in Peers, UserAbort(p) PROVE Closes(p)
  BY <1>3, AbortDisks DEF UserAbort
<1>4. ASSUME NEW p \in Peers, WriteError(p) PROVE Closes(p)
  BY <1>4 DEF WriteError, Closes
<1>5. QED
  BY <1>1, <1>2, <1>3, <1>4, TransmitDisks, TimersDisks, ReceiveDisks DEF Next

LEMMA DisksTyped ==
  ASSUME TypeInv, NEW p \in Peers, NEW k \in FilesOf(Other(p))
  PROVE  /\ part[p][k] \in Seq(Units) /\ saved[p][k] \in Seq(Seq(Units))
         /\ Batch[Other(p)][k] \in Seq(Units)
BY OtherFacts, BatchType DEF TypeInv, DiskTyped

\* What is put in the place of one part is a prefix.
LEMMA PutsPrefix ==
  ASSUME TypeInv, PartIsPrefix, NEW p \in Peers, NEW k \in FilesOf(Other(p)),
         NEW s, Puts(p, k, s), IsPrefix(s, Batch[Other(p)][k])
  PROVE  PartIsPrefix'
<1>1. /\ part'[p][k] = s /\ part'[Other(p)] = part[Other(p)]
      /\ \A j \in FilesOf(Other(p)) : j # k => part'[p][j] = part[p][j]
  BY AppendedPart
<1>2. SUFFICES ASSUME NEW q \in Peers, NEW j \in FilesOf(Other(q))
               PROVE  IsPrefix(part'[q][j], Batch[Other(q)][j])
  BY DEF PartIsPrefix
<1>3. IsPrefix(part[q][j], Batch[Other(q)][j])
  BY DEF PartIsPrefix
<1>4. q = p \/ q = Other(p)
  BY OtherFacts
<1>5. QED
  BY <1>1, <1>3, <1>4

LEMMA ClosesPrefix ==
  ASSUME TypeInv, PartIsPrefix, NEW p \in Peers, Closes(p)
  PROVE  PartIsPrefix'
<1>1. /\ part'[Other(p)] = part[Other(p)]
      /\ \A j \in FilesOf(Other(p)) : part'[p][j] \in {part[p][j], <<>>}
  BY ClosedPart DEF Closes
<1>2. SUFFICES ASSUME NEW q \in Peers, NEW j \in FilesOf(Other(q))
               PROVE  IsPrefix(part'[q][j], Batch[Other(q)][j])
  BY DEF PartIsPrefix
<1>3. /\ IsPrefix(part[q][j], Batch[Other(q)][j])
      /\ IsPrefix(<<>>, Batch[Other(q)][j])
  BY DisksTyped, PrefixEmpty DEF PartIsPrefix
<1>4. q = p \/ q = Other(p)
  BY OtherFacts
<1>5. part'[q][j] = part[q][j] \/ part'[q][j] = <<>>
  BY <1>1, <1>4
<1>6. QED
  BY <1>3, <1>5

\* A packet in place is the piece that follows the part.
LEMMA WritesPrefix ==
  ASSUME TypeInv, FilesHold, PartIsPrefix, NEW p \in Peers, Writes(p)
  PROVE  PartIsPrefix'
<1> DEFINE q == Other(p)
           m == Head(line[p])
           k == rx[p].file
           file == Batch[q][k]
           s == part[p][k] \o m.data
<1>1. /\ Running(p) /\ line[p] # <<>> /\ m.type = "DATA"
      /\ rx[p].state = "DATA" /\ m.pos = rx[p].pos
  BY DEF Writes, Arrived, InPlace
<1>2. /\ k \in FilesOf(q) /\ k = tx[q].file /\ part[p][k] \in Seq(Units)
      /\ file \in Seq(Units)
      /\ rx[p].pos >= 0 => Len(part[p][k]) = rx[p].pos
  BY <1>1, WriterNow
<1>3. IsPiece(m, file)
  <2>1. Files(q, tx[q], rx[p], line[p], line[q], part[p], saved[p], tx[p].state)
    BY Both
  <2>2. 1 \in 1 .. Len(line[p]) /\ line[p][1] = m
    BY <1>1, TailFacts DEF TypeInv
  <2>3. QED
    BY <1>1, <1>2, <2>1, <2>2 DEF Files, Copies
<1>4. m.data \in Seq(Units) /\ m.pos = Len(part[p][k])
  BY <1>1, <1>2, <1>3, HeadType DEF TypeInv, IsPiece
<1>5. IsPrefix(part[p][k], file)
  BY <1>2 DEF PartIsPrefix
<1>6. Puts(p, k, s)
  BY <1>2 DEF Writes, Puts, TypeInv, DiskTyped
<1> DEFINE old == part[p][k]
<1>7. /\ old \in Seq(Units) /\ IsPrefix(old, file) /\ m.pos = Len(old)
      /\ s = old \o m.data
  BY <1>2, <1>4, <1>5
<1> HIDE DEF old, m, file, k, s
<1>8. IsPrefix(s, file)
  BY <1>2, <1>3, <1>4, <1>7, PrefixGrows
<1>9. QED
  BY <1>2, <1>6, <1>8, PutsPrefix DEF file

\* An EOF in place comes when the part is all of the file.
LEMMA StoresWhole ==
  ASSUME TypeInv, FilesHold, PartIsPrefix, NEW p \in Peers, Stores(p)
  PROVE  /\ rx[p].file \in FilesOf(Other(p))
         /\ part[p][rx[p].file] = Batch[Other(p)][rx[p].file]
<1> DEFINE q == Other(p)
           m == Head(line[p])
           k == rx[p].file
           file == Batch[q][k]
<1>1. /\ Running(p) /\ line[p] # <<>> /\ m.type = "EOF"
      /\ rx[p].state = "DATA" /\ m.pos = rx[p].pos /\ m.pos >= 0
  BY DEF Stores, Arrived, InPlace
<1>2. /\ k \in FilesOf(q) /\ k = tx[q].file /\ part[p][k] \in Seq(Units)
      /\ file \in Seq(Units) /\ rx[p].pos \in Int
      /\ rx[p].pos >= 0 => Len(part[p][k]) = rx[p].pos
  BY <1>1, WriterNow
<1>3. m.pos < 0 \/ m.pos = Len(file)
  <2>1. Files(q, tx[q], rx[p], line[p], line[q], part[p], saved[p], tx[p].state)
    BY Both
  <2>2. 1 \in 1 .. Len(line[p]) /\ line[p][1] = m
    BY <1>1, TailFacts DEF TypeInv
  <2>3. QED
    BY <1>1, <1>2, <2>1, <2>2 DEF Files, Copies
<1>4. IsPrefix(part[p][k], file)
  BY <1>2 DEF PartIsPrefix
<1> DEFINE old == part[p][k]
<1>5. old \in Seq(Units) /\ IsPrefix(old, file) /\ Len(old) = Len(file)
  BY <1>1, <1>2, <1>3, <1>4
<1> HIDE DEF old, m, file
<1>6. old = file
  BY <1>2, <1>5, PrefixWhole
<1>7. QED
  BY <1>2, <1>6 DEF old, file

LEMMA PrefixStep ==
  ASSUME TypeInv, FilesHold, PartIsPrefix, [Next]_vars
  PROVE  PartIsPrefix'
<1>1. CASE SameDisks
  BY <1>1 DEF SameDisks, PartIsPrefix
<1>2. ASSUME NEW p \in Peers, Stores(p) PROVE PartIsPrefix'
  <2> DEFINE k == rx[p].file
             e == <<>>
  <2>1. k \in FilesOf(Other(p))
    BY <1>2, StoresWhole
  <2>2. IsPrefix(e, Batch[Other(p)][k]) /\ Puts(p, k, e)
    BY <1>2, <2>1, DisksTyped, PrefixEmpty DEF Stores
  <2> HIDE DEF k, e
  <2>3. QED
    BY <2>1, <2>2, PutsPrefix
<1>3. QED
  BY <1>1, <1>2, DiskCases, ClosesPrefix, WritesPrefix

\* Nothing that has been saved goes away, and what is new is a whole file.
LEMMA SavedStep ==
  ASSUME TypeInv, FilesHold, PartIsPrefix, SavedIsWhole, [Next]_vars
  PROVE  /\ SavedIsWhole'
         /\ \A p \in Peers : \A k \in FilesOf(Other(p)) :
              saved[p][k] # <<>> => saved'[p][k] # <<>>
<1>1. CASE saved' = saved
  BY <1>1 DEF SavedIsWhole
<1>2. ASSUME NEW p \in Peers, Stores(p),
             NEW q \in Peers, NEW j \in FilesOf(Other(q))
      PROVE  /\ \A i \in DOMAIN saved'[q][j] : saved'[q][j][i] = Batch[Other(q)][j]
             /\ saved[q][j] # <<>> => saved'[q][j] # <<>>
  <2> DEFINE k == rx[p].file
             s == part[p][k]
             old == saved[p][k]
             new == saved'[p][k]
  <2>1. k \in FilesOf(Other(p)) /\ s = Batch[Other(p)][k] /\ Saves(p, k, s)
    BY <1>2, StoresWhole DEF Stores
  <2>2. s \in Seq(Units)
    BY <2>1, DisksTyped
  <2> HIDE DEF k, s
  <2>3. /\ new = Append(old, s)
        /\ old \in Seq(Seq(Units)) /\ Len(old) \in Nat
        /\ Len(new) = Len(old) + 1
        /\ new # <<>> /\ new[Len(old) + 1] = s
        /\ \A i \in 1 .. Len(old) : new[i] = old[i]
        /\ saved'[Other(p)] = saved[Other(p)]
        /\ \A o \in FilesOf(Other(p)) : o # k => saved'[p][o] = saved[p][o]
    BY <2>1, <2>2, SavedNow
  <2>4. \A i \in DOMAIN saved[q][j] : saved[q][j][i] = Batch[Other(q)][j]
    BY DEF SavedIsWhole
  <2>5. CASE q = p /\ j = k
    <3>1. DOMAIN new = 1 .. (Len(old) + 1) /\ DOMAIN old = 1 .. Len(old)
      <4>1. Append(old, s) \in Seq(Seq(Units))
        BY <2>2, <2>3, AppendProperties
      <4>2. QED
        BY <2>3, <4>1, LenProperties
    <3>2. \A i \in DOMAIN old : old[i] = s
      BY <2>1, <2>4, <2>5
    <3> HIDE DEF new, old
    <3>3. ASSUME NEW i \in DOMAIN new PROVE new[i] = s
      <4>1. i \in 1 .. Len(old) \/ i = Len(old) + 1
        BY <2>3, <3>1, <3>3
      <4>2. QED
        BY <2>3, <3>1, <3>2, <4>1
    <3>4. QED
      BY <2>1, <2>3, <2>5, <3>3 DEF new
  <2>6. CASE ~(q = p /\ j = k)
    <3>1. q = p \/ q = Other(p)
      BY OtherFacts
    <3>2. saved'[q][j] = saved[q][j]
      BY <2>3, <2>6, <3>1
    <3>3. QED
      BY <2>4, <3>2
  <2>7. QED
    BY <2>5, <2>6
<1>3. ASSUME NEW p \in Peers, Stores(p)
      PROVE  /\ SavedIsWhole'
             /\ \A q \in Peers : \A k \in FilesOf(Other(q)) :
                  saved[q][k] # <<>> => saved'[q][k] # <<>>
  BY <1>2, <1>3 DEF SavedIsWhole
<1>4. QED
  BY <1>1, <1>3, DiskCases DEF SameDisks, Closes, Writes

LEMMA OkStep ==
  ASSUME TypeInv, TypeInv', FilesHold, BatchesProceed, NoFalseOk, [Next]_vars,
         \A p \in Peers : \A k \in FilesOf(Other(p)) :
           saved[p][k] # <<>> => saved'[p][k] # <<>>,
         \A p \in Peers : DOMAIN result[p] \subseteq FilesOf(p)
  PROVE  NoFalseOk'
<1>1. CASE NewSession
  <2>1. SUFFICES ASSUME NEW p \in Peers, NEW k \in DOMAIN result'[p]
                 PROVE  result'[p][k] # "OK"
    BY DEF NoFalseOk
  <2>2. result'[p] = Skipped(p, 1)
    BY <1>1 DEF NewSession
  <2>3. 1 \in 1 .. (Len(Batch[p]) + 1)
    BY BatchType
  <2>4. \A i \in DOMAIN Skipped(p, 1) : Skipped(p, 1)[i] = "SKIP"
    BY <2>3, OpenableFacts
  <2>5. QED
    BY <2>2, <2>4
<1>2. ASSUME NEW q \in Peers, NEW k \in DOMAIN result[q], result[q][k] = "OK"
      PROVE  saved'[Other(q)][k] # <<>>
  <2>1. /\ saved[Other(q)][k] # <<>> /\ k \in FilesOf(q)
        /\ Other(q) \in Peers /\ Other(Other(q)) = q
    BY <1>2, OtherFacts DEF NoFalseOk
  <2>2. QED
    BY <2>1
<1>3. ASSUME NEW p \in Peers, Stays(p) PROVE NoFalseOk'
  <2>1. result' = result
    BY <1>3 DEF Stays
  <2>2. QED
    BY <1>2, <2>1 DEF NoFalseOk
<1>4. ASSUME NEW p \in Peers, Reports(p) PROVE NoFalseOk'
  <2>1. PICK x \in {"OK", "SKIP"} :
          Returns(p, x) /\ (x = "OK" => saved[Other(p)][tx[p].file] # <<>>)
    BY <1>4 DEF Reports
  <2>2. Running(p) /\ tx[p].file \in FilesOf(p) /\ Len(result[p]) = tx[p].file - 1
    BY <1>4 DEF Reports, BatchesProceed, Proceeds
  <2>3. /\ result'[Other(p)] = result[Other(p)]
        /\ result'[p][tx[p].file] = x
        /\ \A i \in DOMAIN result'[p] :
             \/ i \in DOMAIN result[p] /\ result'[p][i] = result[p][i]
             \/ i = tx[p].file
             \/ result'[p][i] = "SKIP"
    BY <2>1, <2>2, ReportsTx
  <2>4. SUFFICES ASSUME NEW q \in Peers, NEW k \in DOMAIN result'[q],
                        result'[q][k] = "OK"
                 PROVE  saved'[Other(q)][k] # <<>>
    BY DEF NoFalseOk
  <2>5. CASE q = Other(p)
    BY <1>2, <2>3, <2>4, <2>5
  <2>6. CASE q = p /\ k # tx[p].file
    <3>1. k \in DOMAIN result[p] /\ result[p][k] = "OK"
      BY <2>3, <2>4, <2>6
    <3>2. QED
      BY <1>2, <2>6, <3>1
  <2>7. CASE q = p /\ k = tx[p].file
    <3>1. saved[Other(p)][k] # <<>>
      BY <2>1, <2>3, <2>4, <2>7
    <3>2. Other(p) \in Peers /\ Other(Other(p)) = p /\ k \in FilesOf(p)
      BY <2>2, <2>7, OtherFacts
    <3>3. QED
      BY <2>7, <3>1, <3>2
  <2>8. QED
    BY <2>5, <2>6, <2>7, OtherFacts
<1>5. QED
  BY <1>1, <1>3, <1>4, BatchCases

\* The results are those of the files before the one that is at hand.
LEMMA ResultsOfFiles ==
  ASSUME TypeInv, BatchesProceed, NEW p \in Peers
  PROVE  DOMAIN result[p] \subseteq FilesOf(p)
<1>1. result[p] \in Seq({"OK", "SKIP"}) /\ Len(Batch[p]) \in Nat
  BY BatchType DEF TypeInv, ReportTyped
<1>2. DOMAIN result[p] = 1 .. Len(result[p]) /\ Len(result[p]) \in Nat
  BY <1>1, LenProperties
<1>3. Len(result[p]) <= Len(Batch[p])
  BY <1>1, <1>2 DEF BatchesProceed, Proceeds
<1>4. QED
  BY <1>1, <1>2, <1>3 DEF FilesOf

LEMMA InitDisks == Init => PartIsPrefix /\ SavedIsWhole /\ NoFalseOk
<1>1. SUFFICES ASSUME Init PROVE PartIsPrefix /\ SavedIsWhole /\ NoFalseOk
  OBVIOUS
<1>2. ASSUME NEW p \in Peers, NEW k \in FilesOf(Other(p))
      PROVE  part[p][k] = <<>> /\ saved[p][k] = <<>>
  BY <1>1, <1>2 DEF Init, NoFiles
<1>3. PartIsPrefix
  <2>1. ASSUME NEW p \in Peers, NEW k \in FilesOf(Other(p))
        PROVE  IsPrefix(<<>>, Batch[Other(p)][k])
    BY OtherFacts, BatchType, PrefixEmpty
  <2>2. QED
    BY <1>2, <2>1 DEF PartIsPrefix
<1>4. SavedIsWhole
  BY <1>2, EmptySeq DEF SavedIsWhole
<1>5. NoFalseOk
  <2>1. SUFFICES ASSUME NEW p \in Peers, NEW k \in DOMAIN result[p]
                 PROVE  result[p][k] # "OK"
    BY DEF NoFalseOk
  <2>2. result[p] = Skipped(p, 1) /\ 1 \in 1 .. (Len(Batch[p]) + 1)
    BY <1>1, BatchType DEF Init
  <2>3. \A i \in DOMAIN Skipped(p, 1) : Skipped(p, 1)[i] = "SKIP"
    BY <2>2, OpenableFacts
  <2>4. QED
    BY <2>2, <2>3
<1>6. QED
  BY <1>3, <1>4, <1>5

-----------------------------------------------------------------------------
(***************************************************************************)
(* The theorems.                                                           *)
(***************************************************************************)

\* SafeInv is inductive where timers are in time and the first file of each
\* batch can be opened.
LEMMA SafeInit == FirstReadable /\ Init => SafeInv
BY InitType, InitFiles, InitBatches, InitDisks DEF SafeInv

LEMMA SafeStep == OnTime /\ FirstReadable /\ SafeInv /\ [Next]_vars => SafeInv'
<1>1. SUFFICES ASSUME OnTime, FirstReadable, SafeInv, [Next]_vars PROVE SafeInv'
  OBVIOUS
<1>2. /\ TypeInv /\ FilesHold /\ BatchesProceed
      /\ PartIsPrefix /\ SavedIsWhole /\ NoFalseOk
  BY <1>1 DEF SafeInv
<1>3. TypeInv'
  BY <1>1, <1>2, TypeStep
<1>4. FilesHold' /\ BatchesProceed'
  BY <1>1, <1>2, <1>3, FilesStep, BatchesStep
<1>5. PartIsPrefix'
  BY <1>1, <1>2, PrefixStep
<1>6. /\ SavedIsWhole'
      /\ \A p \in Peers : \A k \in FilesOf(Other(p)) :
           saved[p][k] # <<>> => saved'[p][k] # <<>>
  BY <1>1, <1>2, SavedStep
<1>7. NoFalseOk'
  BY <1>1, <1>2, <1>3, <1>6, ResultsOfFiles, OkStep
<1>8. QED
  BY <1>3, <1>4, <1>5, <1>6, <1>7 DEF SafeInv

\* SafeInv holds in every session: an offer of a file is the last word of its
\* sender, its answer the last of the receiver, and so the two never work at
\* different files.
THEOREM Safe ==
  ASSUME OnTime, FirstReadable
  PROVE  Spec => []SafeInv
<1>1. Init => SafeInv
  BY SafeInit
<1>2. SafeInv /\ [Next]_vars => SafeInv'
  BY SafeStep
<1>3. QED
  BY <1>1, <1>2, PTL DEF Spec

\* hydra() returns XFER_OK for a file only when the other side has saved it,
\* whatever is lost and whoever aborts.
THEOREM OkIsTrue ==
  ASSUME OnTime, FirstReadable
  PROVE  Spec => []NoFalseOk
<1>1. SafeInv => NoFalseOk
  BY DEF SafeInv
<1>2. QED
  BY <1>1, Safe, PTL

\* What lies on disk under the name of a file is all of that file.
THEOREM FilesAreWhole ==
  ASSUME OnTime, FirstReadable
  PROVE  Spec => []SavedIsWhole
<1>1. SafeInv => SavedIsWhole
  BY DEF SafeInv
<1>2. QED
  BY <1>1, Safe, PTL

\* What lies on disk under a BAD-XFER name is a prefix of its file, so that a
\* later session may resume at its end.
THEOREM PartsArePrefixes ==
  ASSUME OnTime, FirstReadable
  PROVE  Spec => []PartIsPrefix
<1>1. SafeInv => PartIsPrefix
  BY DEF SafeInv
<1>2. QED
  BY <1>1, Safe, PTL

-----------------------------------------------------------------------------
(***************************************************************************)
(* The device packets.  d is dev of the program that sends them, got the   *)
(* number of the last one that the other has heard and h all it has heard, *)
(* D the line there and R the line back.  Resent packets arrive in the     *)
(* order of their numbers, none before the last one heard.                 *)
(***************************************************************************)
DeviceTypes == {"DEVDATA", "DEVDACK"}

Numbered(D, low, high) ==
  \A i \in 1 .. Len(D) : D[i].type = "DEVDATA" =>
    /\ low <= D[i].id /\ D[i].id <= high
    /\ \A j \in 1 .. Len(D) : D[j].type = "DEVDATA" /\ i <= j => D[i].id <= D[j].id

Hears(d, got, h, D, R) ==
  /\ got <= d.id /\ d.id <= got + 1
  /\ d.state = "DONE" => got = d.id
  /\ Len(h) = got /\ \A i \in DOMAIN h : h[i] = i
  /\ Numbered(D, got, d.id)
  /\ \A i \in 1 .. Len(R) : R[i].type = "DEVDACK" => R[i].id <= got

ChatHolds ==
  \A p \in Peers : Hears(dev[p], dev[Other(p)].rxid, heard[Other(p)],
                         line[Other(p)], line[p])

\* Whoever sends goes on with the same packet, or takes up the next one when
\* the last has been acknowledged.
Chats(d, d2) ==
  /\ d2 \in DevSet
  /\ \/ d2.id = d.id /\ (d2.state = "DONE" => d.state = "DONE")
     \/ d.state = "DONE" /\ d2.state = "DATA" /\ d2.id = d.id + 1

LEMMA FollowsNumbered ==
  ASSUME NEW new, NEW old, NEW S, "DEVDATA" \notin S, Len(new) \in Nat,
         Follows(new, old, S), NEW low, NEW high, Numbered(old, low, high)
  PROVE  Numbered(new, low, high)
<1>1. PICK n \in Nat, o \in Nat : \A k \in 1 .. Len(new) :
        \/ k <= n /\ k + o \in 1 .. Len(old) /\ new[k] = old[k + o]
        \/ k > n /\ new[k].type \in S
  BY DEF Follows
<1>2. ASSUME NEW k \in 1 .. Len(new), new[k].type = "DEVDATA"
      PROVE  k + o \in 1 .. Len(old) /\ new[k] = old[k + o]
  BY <1>1, <1>2
<1>3. SUFFICES ASSUME NEW i \in 1 .. Len(new), new[i].type = "DEVDATA"
               PROVE  /\ low <= new[i].id /\ new[i].id <= high
                      /\ \A j \in 1 .. Len(new) :
                           new[j].type = "DEVDATA" /\ i <= j => new[i].id <= new[j].id
  BY DEF Numbered
<1>4. i + o \in 1 .. Len(old) /\ new[i] = old[i + o]
  BY <1>2, <1>3
<1>5. ASSUME NEW j \in 1 .. Len(new), new[j].type = "DEVDATA", i <= j
      PROVE  new[i].id <= new[j].id
  <2>1. j + o \in 1 .. Len(old) /\ new[j] = old[j + o] /\ i + o <= j + o
    BY <1>2, <1>5
  <2>2. QED
    BY <1>3, <1>4, <1>5, <2>1 DEF Numbered
<1>6. QED
  BY <1>3, <1>4, <1>5 DEF Numbered

LEMMA PacketIds ==
  ASSUME NEW D \in Seq(Packets)
  PROVE  \A i \in 1 .. Len(D) : D[i].id \in Nat
<1>1. \A i \in 1 .. Len(D) : D[i] \in Packets
  BY ElementOfSeq
<1>2. QED
  BY <1>1 DEF Packets

LEMMA NumberedWider ==
  ASSUME NEW D, NEW low \in Nat, NEW high \in Nat, NEW high2 \in Nat,
         high <= high2, \A i \in 1 .. Len(D) : D[i].id \in Nat,
         Numbered(D, low, high)
  PROVE  Numbered(D, low, high2)
BY DEF Numbered

\* A step that sends none of them there, and acknowledges none.
LEMMA HearsOn ==
  ASSUME NEW d \in DevSet, NEW d2, Chats(d, d2), NEW got \in Nat, NEW h,
         NEW D \in Seq(Packets), NEW D2, Len(D2) \in Nat, NEW S,
         "DEVDATA" \notin S, Follows(D2, D, S),
         NEW R, NEW R2, Len(R2) \in Nat, NEW T, "DEVDACK" \notin T,
         Follows(R2, R, T), Hears(d, got, h, D, R)
  PROVE  Hears(d2, got, h, D2, R2)
<1>1. /\ d.id \in Nat /\ d2.id \in Nat /\ d.id <= d2.id
  BY DEF Chats, DevSet
<1>2. Numbered(D, got, d2.id)
  <2>1. \A i \in 1 .. Len(D) : D[i].id \in Nat
    BY PacketIds
  <2>2. Numbered(D, got, d.id)
    BY DEF Hears
  <2>3. QED
    BY <1>1, <2>1, <2>2, NumberedWider
<1>3. Numbered(D2, got, d2.id)
  BY <1>2, FollowsNumbered
<1>4. ASSUME NEW i \in 1 .. Len(R2), R2[i].type = "DEVDACK"
      PROVE  R2[i].id <= got
  <2>1. R2[i].type \in {"DEVDACK"} /\ T \cap {"DEVDACK"} = {}
    BY <1>4
  <2>2. PICK j \in 1 .. Len(R) :
          /\ R2[i] = R[j]
          /\ LastOf(R, j, {"DEVDACK"}) => LastOf(R2, i, {"DEVDACK"})
    BY <2>1, FollowsOld
  <2>3. QED
    BY <1>4, <2>2 DEF Hears
<1>5. /\ got <= d2.id /\ d2.id <= got + 1
      /\ d2.state = "DONE" => got = d2.id
  BY <1>1 DEF Hears, Chats
<1>6. QED
  BY <1>3, <1>4, <1>5 DEF Hears

\* The packet under way is sent, for the first time or again.
LEMMA HearsSent ==
  ASSUME NEW d \in DevSet, NEW d2 \in DevSet, d2.id = d.id, d2.state # "DONE",
         NEW got \in Nat, NEW h, NEW D \in Seq(Packets), NEW D2, NEW x,
         x.type = "DEVDATA", x.id = d.id, Adds(D2, D, x),
         NEW R, Hears(d, got, h, D, R)
  PROVE  Hears(d2, got, h, D2, R)
<1>1. Len(D) \in Nat /\ d.id \in Nat /\ got <= d.id /\ Numbered(D, got, d.id)
  BY LenProperties DEF Hears, DevSet
<1>2. ASSUME NEW i \in 1 .. Len(D2), D2[i].type = "DEVDATA"
      PROVE  /\ got <= D2[i].id /\ D2[i].id <= d.id
             /\ \A j \in 1 .. Len(D2) :
                  D2[j].type = "DEVDATA" /\ i <= j => D2[i].id <= D2[j].id
  <2>1. ASSUME NEW j \in 1 .. Len(D2)
        PROVE  /\ Len(D2) = Len(D) + 1
               /\ \/ j \in 1 .. Len(D) /\ D2[j] = D[j]
                  \/ j = Len(D2) /\ D2[j] = x
    BY <1>1, AddsCases
  <2>2. CASE i = Len(D2) /\ D2[i] = x
    <3>1. \A j \in 1 .. Len(D2) : i <= j => j = i
      BY <1>1, <2>1, <2>2
    <3>2. QED
      BY <1>1, <2>2, <3>1
  <2>3. CASE i \in 1 .. Len(D) /\ D2[i] = D[i]
    <3>1. got <= D[i].id /\ D[i].id <= d.id
      BY <1>1, <1>2, <2>3 DEF Numbered
    <3>2. ASSUME NEW j \in 1 .. Len(D2), D2[j].type = "DEVDATA", i <= j
          PROVE  D[i].id <= D2[j].id
      BY <1>1, <1>2, <2>1, <2>3, <3>1, <3>2 DEF Numbered
    <3>3. QED
      BY <2>3, <3>1, <3>2
  <2>4. QED
    BY <2>1, <2>2, <2>3
<1>3. Numbered(D2, got, d.id)
  BY <1>2 DEF Numbered
<1>4. QED
  BY <1>3 DEF Hears

\* The acknowledgement of the packet under way arrives.
LEMMA HearsAcked ==
  ASSUME NEW d \in DevSet, NEW d2, d2.id = d.id, NEW got \in Nat, NEW h,
         NEW D, NEW R \in Seq(Packets), NEW i \in 1 .. Len(R),
         R[i].type = "DEVDACK", R[i].id = d.id, Hears(d, got, h, D, R)
  PROVE  Hears(d2, got, h, D, R)
<1>1. d.id \in Nat /\ d.id <= got
  BY DEF Hears, DevSet
<1>2. QED
  BY <1>1 DEF Hears

\* A packet is taken from the line: it is the last one heard or the next, and
\* only the next is given to the user.
LEMMA HearsNext ==
  ASSUME NEW d \in DevSet, NEW got \in Nat, NEW h \in Seq(Nat),
         NEW D \in Seq(Packets), D # <<>>, Head(D).type = "DEVDATA",
         NEW k, k = Head(D).id, NEW h2,
         h2 = IF got # k THEN Append(h, k) ELSE h,
         NEW R \in Seq(Packets), NEW R2, NEW x, x.type = "DEVDACK", x.id = k,
         Adds(R2, R, x), Hears(d, got, h, D, R)
  PROVE  Hears(d, k, h2, Tail(D), R2)
<1> DEFINE T == Tail(D)
<1>1. /\ Len(D) \in Nat /\ Len(D) >= 1 /\ D[1] = Head(D)
      /\ T \in Seq(Packets) /\ Len(T) \in Nat /\ Len(T) = Len(D) - 1
      /\ \A i \in 1 .. Len(T) : T[i] = D[i + 1]
  BY HeadTailProperties, LenProperties, EmptySeq
<1>2. \A i \in 1 .. Len(D) : D[i].id \in Nat
  BY PacketIds
<1>3. /\ 1 \in 1 .. Len(D) /\ D[1].type = "DEVDATA" /\ D[1].id = k /\ k \in Nat
  BY <1>1, <1>2
<1>4. /\ d.id \in Nat /\ got <= d.id /\ d.id <= got + 1
      /\ d.state = "DONE" => got = d.id
      /\ Len(h) = got /\ \A i \in DOMAIN h : h[i] = i
      /\ Numbered(D, got, d.id)
      /\ \A i \in 1 .. Len(R) : R[i].type = "DEVDACK" => R[i].id <= got
  BY DEF Hears, DevSet
<1>5. got <= k /\ k <= d.id
  BY <1>3, <1>4 DEF Numbered
<1> HIDE DEF T
<1>6. Numbered(T, k, d.id)
  <2>1. SUFFICES ASSUME NEW i \in 1 .. Len(T), T[i].type = "DEVDATA"
                 PROVE  /\ k <= T[i].id /\ T[i].id <= d.id
                        /\ \A j \in 1 .. Len(T) :
                             T[j].type = "DEVDATA" /\ i <= j => T[i].id <= T[j].id
    BY DEF Numbered
  <2>2. \A j \in 1 .. Len(T) : j + 1 \in 1 .. Len(D) /\ T[j] = D[j + 1]
    BY <1>1
  <2>3. i + 1 \in 1 .. Len(D) /\ 1 <= i + 1 /\ D[i + 1].type = "DEVDATA"
    BY <1>1, <2>1, <2>2
  <2>4. k <= D[i + 1].id /\ D[i + 1].id <= d.id
    BY <1>3, <1>4, <2>3 DEF Numbered
  <2>5. ASSUME NEW j \in 1 .. Len(T), T[j].type = "DEVDATA", i <= j
        PROVE  T[i].id <= T[j].id
    <3>1. j + 1 \in 1 .. Len(D) /\ T[j] = D[j + 1] /\ i + 1 <= j + 1
      BY <2>1, <2>2, <2>5
    <3>2. QED
      BY <1>4, <2>1, <2>2, <2>3, <2>5, <3>1 DEF Numbered
  <2>6. QED
    BY <2>1, <2>2, <2>4, <2>5
<1>7. Len(h2) = k /\ \A i \in DOMAIN h2 : h2[i] = i
  <2>1. CASE got = k
    BY <1>4, <2>1
  <2>2. CASE got # k
    <3>1. k = got + 1 /\ h2 = Append(h, k)
      BY <1>3, <1>4, <1>5, <2>2
    <3>2. /\ h2 \in Seq(Nat) /\ Len(h2) = Len(h) + 1
          /\ \A i \in 1 .. Len(h) : h2[i] = h[i]
          /\ h2[Len(h) + 1] = k
      BY <1>3, <3>1, AppendProperties
    <3>3. DOMAIN h2 = 1 .. Len(h2) /\ DOMAIN h = 1 .. Len(h)
      BY <3>2, LenProperties
    <3>4. QED
      BY <1>4, <3>1, <3>2, <3>3
  <2>3. QED
    BY <2>1, <2>2
<1>8. ASSUME NEW i \in 1 .. Len(R2), R2[i].type = "DEVDACK"
      PROVE  R2[i].id <= k
  <2>1. Len(R) \in Nat
    BY LenProperties
  <2>2. \/ i \in 1 .. Len(R) /\ R2[i] = R[i]
        \/ R2[i] = x
    BY <2>1, AddsCases
  <2>3. \A j \in 1 .. Len(R) : R[j].id \in Nat
    BY PacketIds
  <2>4. QED
    BY <1>3, <1>4, <1>5, <1>8, <2>2, <2>3
<1>9. /\ k <= d.id /\ d.id <= k + 1
      /\ d.state = "DONE" => k = d.id
  BY <1>3, <1>4, <1>5
<1>10. QED
  BY <1>6, <1>7, <1>8, <1>9 DEF Hears, T

-----------------------------------------------------------------------------
(***************************************************************************)
(* The end of a session.                                                   *)
(***************************************************************************)
Leaving == {"END", "ENDACK"}

\* Has p received and been acknowledged all that there was.
Over(p) ==
  /\ rx[p].state = "DONE" /\ dev[p].state = "DONE"
  /\ tx[p].state \in Leaving \cup {"DONE"}

Concludes(p) ==
  /\ outcome[p] = "none" <=> tx[p].state # "DONE"
  /\ dev[p].timing = TRUE => dev[p].state = "DACK"
  /\ tx[p].state \in Leaving => Over(p)
  /\ outcome[p] = "XFER_OK" => Over(p) /\ Over(Other(p))
  /\ ~None(line[p], {"END"}) => Over(Other(p))

AllConclude == \A p \in Peers : Concludes(p)

TalkInv == TypeInv /\ ChatHolds /\ AllConclude

\* What a step of p does to the end of its session, to the other program and
\* to the lines.
Goes(p) ==
  /\ outcome'[p] = "none" <=> tx'[p].state # "DONE"
  /\ dev'[p].timing = TRUE => dev'[p].state = "DACK"
  /\ tx'[p].state \in Leaving => Over(p)'
  /\ outcome'[p] = "XFER_OK" =>
       outcome[p] = "XFER_OK" \/ (Over(p)' /\ Over(Other(p)))
  /\ Over(p) => Over(p)'

Alone(p) ==
  /\ tx'[Other(p)] = tx[Other(p)] /\ rx'[Other(p)] = rx[Other(p)]
  /\ dev'[Other(p)] = dev[Other(p)] /\ outcome'[Other(p)] = outcome[Other(p)]

Lines(p, S) ==
  /\ Follows(line'[p], line[p], {})
  /\ Follows(line'[Other(p)], line[Other(p)], S)
  /\ "END" \in S => Over(p)'

\* A step without device packets.
Plain(p) ==
  /\ Goes(p) /\ Alone(p)
  /\ \E S : S \cap DeviceTypes = {} /\ Lines(p, S)
  /\ Chats(dev[p], dev'[p]) /\ dev'[p].rxid = dev[p].rxid
  /\ heard' = heard

LEMMA GoesConclude ==
  ASSUME TypeInv, TypeInv', AllConclude, NEW p \in Peers, NEW S,
         Goes(p), Alone(p), Lines(p, S)
  PROVE  AllConclude'
<1> DEFINE q == Other(p)
<1>1. /\ q \in Peers /\ q # p /\ Other(q) = p
      /\ \A o \in Peers : o = p \/ o = q
  BY OtherFacts
<1>2. Concludes(p) /\ Concludes(q)
  BY <1>1 DEF AllConclude
<1>3. Over(q) <=> Over(q)'
  BY DEF Alone, Over
<1>4. ~None(line'[p], {"END"}) => Over(q)'
  <2>1. ASSUME None(line[p], {"END"}) PROVE None(line'[p], {"END"})
    BY <2>1, FollowsNone DEF Lines
  <2>2. QED
    BY <1>2, <1>3, <2>1 DEF Concludes
<1>5. ~None(line'[q], {"END"}) => Over(p)'
  <2>1. ASSUME None(line[q], {"END"}), "END" \notin S
        PROVE  None(line'[q], {"END"})
    <3>1. S \cap {"END"} = {}
      BY <2>1
    <3>2. QED
      BY <2>1, <3>1, FollowsNone DEF Lines
  <2>2. Over(p) => Over(p)'
    BY DEF Goes
  <2>3. QED
    BY <1>1, <1>2, <2>1, <2>2 DEF Concludes, Lines
<1>6. Concludes(p)'
  BY <1>1, <1>2, <1>3, <1>4 DEF Concludes, Goes
<1>7. Concludes(q)'
  BY <1>1, <1>2, <1>3, <1>5 DEF Concludes, Goes, Alone
<1>8. QED
  BY <1>1, <1>6, <1>7 DEF AllConclude

\* The two halves of ChatHolds, seen from p.
LEMMA ChatBoth ==
  ASSUME NEW p \in Peers
  PROVE  /\ ChatHolds =>
              /\ Hears(dev[p], dev[Other(p)].rxid, heard[Other(p)],
                       line[Other(p)], line[p])
              /\ Hears(dev[Other(p)], dev[p].rxid, heard[p], line[p],
                       line[Other(p)])
         /\ /\ Hears(dev'[p], dev'[Other(p)].rxid, heard'[Other(p)],
                     line'[Other(p)], line'[p])
            /\ Hears(dev'[Other(p)], dev'[p].rxid, heard'[p], line'[p],
                     line'[Other(p)])
            => ChatHolds'
<1>1. Other(p) \in Peers /\ Other(Other(p)) = p /\ \A q \in Peers : q = p \/ q = Other(p)
  BY OtherFacts
<1>2. QED
  BY <1>1 DEF ChatHolds

LEMMA ChatTypes ==
  ASSUME TypeInv, NEW p \in Peers
  PROVE  /\ dev[p] \in DevSet /\ dev[p].rxid \in Nat /\ dev[p].id \in Nat
         /\ line[p] \in Seq(Packets) /\ Len(line[p]) \in Nat
         /\ heard[p] \in Seq(Nat)
BY OwnTypes, LineSeq DEF TypeInv, DevSet, ReportTyped

LEMMA PlainChat ==
  ASSUME TypeInv, TypeInv', ChatHolds, NEW p \in Peers, Plain(p)
  PROVE  ChatHolds'
<1> DEFINE q == Other(p)
<1>1. q \in Peers /\ q # p /\ Other(q) = p
  BY OtherFacts
<1>2. PICK S : S \cap DeviceTypes = {} /\ Lines(p, S)
  BY DEF Plain
<1>3. /\ Follows(line'[p], line[p], {}) /\ Follows(line'[q], line[q], S)
      /\ "DEVDATA" \notin S /\ "DEVDACK" \notin S
      /\ dev'[q] = dev[q] /\ heard' = heard
      /\ Chats(dev[p], dev'[p]) /\ dev'[p].rxid = dev[p].rxid
  BY <1>2 DEF Lines, Plain, Alone, DeviceTypes
<1>4. /\ dev[p] \in DevSet /\ dev[p].rxid \in Nat /\ line[p] \in Seq(Packets)
      /\ dev[q] \in DevSet /\ dev[q].rxid \in Nat /\ line[q] \in Seq(Packets)
  BY <1>1, ChatTypes
<1>5. Len(line'[p]) \in Nat /\ Len(line'[q]) \in Nat
  BY <1>1, LenProperties DEF TypeInv, LineTyped
<1>6. Chats(dev[q], dev[q])
  BY <1>4 DEF Chats
<1>7. /\ Hears(dev[p], dev[q].rxid, heard[q], line[q], line[p])
      /\ Hears(dev[q], dev[p].rxid, heard[p], line[p], line[q])
  BY ChatBoth
<1>8. Hears(dev'[p], dev[q].rxid, heard[q], line'[q], line'[p])
  BY <1>2, <1>3, <1>4, <1>5, <1>7, HearsOn
<1>9. Hears(dev[q], dev[p].rxid, heard[p], line'[p], line'[q])
  BY <1>2, <1>3, <1>4, <1>5, <1>6, <1>7, HearsOn
<1>10. QED
  BY <1>3, <1>8, <1>9, ChatBoth

\* A step without device packets keeps both.
LEMMA PlainStep ==
  ASSUME TypeInv, TypeInv', ChatHolds, AllConclude, NEW p \in Peers, Plain(p)
  PROVE  ChatHolds' /\ AllConclude'
<1>1. PICK S : S \cap DeviceTypes = {} /\ Lines(p, S)
  BY DEF Plain
<1>2. QED
  BY <1>1, PlainChat, GoesConclude DEF Plain

-----------------------------------------------------------------------------
(***************************************************************************)
(* The switch on txstate, and the end of hydra().                          *)
(***************************************************************************)
LEMMA SettledLeaving ==
  ASSUME NEW t, t.state \in Leaving, NEW r, NEW d, NEW h
  PROVE  Settled(t, r, d, h) = t /\ ~FallsBack(t, r, h)
BY DEF Settled, FallsBack, Leaving

\* It ends the session only when nothing more is to come.
LEMMA SettledLeaves ==
  ASSUME NEW p \in Peers, NEW t \in TxOf(p), NEW r, NEW d, NEW h,
         t.state # "DONE"
  PROVE  /\ Settled(t, r, d, h).state # "DONE"
         /\ Settled(t, r, d, h).state \in Leaving =>
              \/ t.state \in Leaving
              \/ NothingMore(r, d) /\ ~FallsBack(t, r, h)
<1> DEFINE u == Settled(t, r, d, h)
<1>1. t \in TxSet
  BY DEF TxOf
<1>2. CASE t.state \in {"START", "SWAIT"} /\ r.state = "FINFO"
  <2>1. u = Restarted(t, "INIT")
    BY <1>2 DEF Settled, FallsBack
  <2>2. u.state = "INIT"
    BY <1>1, <2>1, RestartedFields
  <2>3. QED
    BY <2>2 DEF Leaving
<1>3. CASE t.state = "RINIT" /\ r.state = "FINFO"
  <2>1. u = Restarted(t, "FINFO")
    BY <1>3 DEF Settled, FallsBack
  <2>2. u.state = "FINFO"
    BY <1>1, <2>1, RestartedFields
  <2>3. QED
    BY <2>2 DEF Leaving
<1>4. CASE FallsBack(t, r, h)
  BY <1>1, <1>4 DEF Settled, FallsBack, TxSet, Leaving
<1>5. CASE t.state = "XWAIT" /\ r.state = "DONE"
  <2>1. u = Restarted(t, "XDATA")
    BY <1>5 DEF Settled, FallsBack
  <2>2. u.state = "XDATA"
    BY <1>1, <2>1, RestartedFields
  <2>3. QED
    BY <2>2 DEF Leaving
<1>6. CASE t.state = "REND" /\ NothingMore(r, d)
  <2>1. u = Restarted(t, "END") /\ ~FallsBack(t, r, h)
    BY <1>6 DEF Settled, FallsBack
  <2>2. u.state = "END"
    BY <1>1, <2>1, RestartedFields
  <2>3. QED
    BY <1>6, <2>1, <2>2
<1>7. CASE /\ ~(t.state \in {"START", "SWAIT"} /\ r.state = "FINFO")
           /\ ~(t.state = "RINIT" /\ r.state = "FINFO")
           /\ ~FallsBack(t, r, h)
           /\ ~(t.state = "XWAIT" /\ r.state = "DONE")
           /\ ~(t.state = "REND" /\ NothingMore(r, d))
  BY <1>7 DEF Settled
<1>8. QED
  BY <1>2, <1>3, <1>4, <1>5, <1>6, <1>7

LEMMA DevSendFields ==
  ASSUME NEW d \in DevSet
  PROVE  /\ DevSend(d) \in DevSet /\ DevSend(d).state = "DATA"
         /\ DevSend(d).id = d.id + 1 /\ DevSend(d).timing = FALSE
         /\ DevSend(d).rxid = d.rxid
<1>1. d.id \in Nat /\ d.id + 1 \in Nat
  BY DEF DevSet
<1>2. QED
  BY <1>1 DEF DevSend, DevSet

LEMMA SettleGoes ==
  ASSUME TypeInv, AllConclude, NEW p \in Peers, Running(p),
         NEW t \in TxOf(p), NEW r, NEW d \in DevSet, NEW h,
         Settle(p, t, r, d, h), outcome' = outcome,
         t.state # "DONE", t.state \in Leaving <=> tx[p].state \in Leaving,
         rx[p].state = "DONE" => r.state = "DONE",
         dev[p].state = "DONE" => d.state = "DONE",
         d.timing = TRUE => d.state = "DACK"
  PROVE  /\ Goes(p) /\ Alone(p)
         /\ Chats(d, dev'[p]) /\ dev'[p].rxid = d.rxid
<1> DEFINE q == Other(p)
           u == Settled(t, r, d, h)
           falls == FallsBack(t, r, h) /\ DevFree(p, t, r, d)
<1>1. q \in Peers /\ q # p
  BY OtherFacts
<1>2. /\ tx'[p] = u /\ rx'[p] = r
      /\ dev'[p] = IF falls THEN DevSend(d) ELSE d
      /\ tx'[q] = tx[q] /\ rx'[q] = rx[q] /\ dev'[q] = dev[q]
  BY <1>1 DEF Settle, TypeInv, TxTyped, RxTyped, DevTyped
<1>3. Concludes(p) /\ tx[p].state # "DONE"
  BY DEF AllConclude, Running
<1>4. /\ u.state # "DONE"
      /\ u.state \in Leaving =>
           t.state \in Leaving \/ (NothingMore(r, d) /\ ~FallsBack(t, r, h))
      /\ t.state \in Leaving => u = t /\ ~FallsBack(t, r, h)
  BY SettledLeaves, SettledLeaving
<1>5. falls => d.state = "DONE" /\ FallsBack(t, r, h)
  BY DEF DevFree
<1> HIDE DEF u, falls
<1>6. /\ Chats(d, dev'[p]) /\ dev'[p].rxid = d.rxid
      /\ dev'[p].timing = TRUE => dev'[p].state = "DACK"
  <2>1. CASE falls
    <3>1. dev'[p] = DevSend(d) /\ d.state = "DONE"
      BY <1>2, <1>5, <2>1
    <3>2. QED
      BY <3>1, DevSendFields DEF Chats
  <2>2. CASE ~falls
    <3>1. dev'[p] = d
      BY <1>2, <2>2
    <3>2. QED
      BY <3>1 DEF Chats
  <2>3. QED
    BY <2>1, <2>2
<1>7. ASSUME u.state \in Leaving PROVE Over(p)'
  <2>1. CASE t.state \in Leaving
    <3>1. rx[p].state = "DONE" /\ dev[p].state = "DONE"
      BY <1>3, <2>1 DEF Concludes, Over
    <3>2. dev'[p] = d
      BY <1>2, <1>4, <1>5, <2>1
    <3>3. QED
      BY <1>2, <1>7, <3>1, <3>2 DEF Over
  <2>2. CASE NothingMore(r, d) /\ ~FallsBack(t, r, h)
    <3>1. dev'[p] = d
      BY <1>2, <1>5, <2>2
    <3>2. QED
      BY <1>2, <1>7, <2>2, <3>1 DEF Over, NothingMore
  <2>3. QED
    BY <1>4, <1>7, <2>1, <2>2
<1>8. ASSUME Over(p) PROVE Over(p)'
  <2>1. tx[p].state \in Leaving
    BY <1>3, <1>8 DEF Over
  <2>2. QED
    BY <1>4, <1>7, <2>1
<1>9. outcome'[p] = "none" /\ u.state # "DONE"
  BY <1>3, <1>4 DEF Concludes
<1>10. Goes(p)
  BY <1>2, <1>6, <1>7, <1>8, <1>9 DEF Goes
<1>11. QED
  BY <1>2, <1>6, <1>10 DEF Alone

LEMMA SettlePlain ==
  ASSUME TypeInv, TypeInv', AllConclude, NEW p \in Peers, Running(p),
         NEW t \in TxOf(p), NEW r, NEW h,
         Settle(p, t, r, dev[p], h), outcome' = outcome, heard' = heard,
         t.state # "DONE", t.state \in Leaving <=> tx[p].state \in Leaving,
         rx[p].state = "DONE" => r.state = "DONE",
         NEW S, S \cap (DeviceTypes \cup {"END"}) = {},
         Follows(line'[p], line[p], {}),
         Follows(line'[Other(p)], line[Other(p)], S)
  PROVE  Plain(p)
<1>1. dev[p] \in DevSet /\ (dev[p].timing = TRUE => dev[p].state = "DACK")
  BY OwnTypes DEF AllConclude, Concludes
<1>2. /\ Goes(p) /\ Alone(p)
      /\ Chats(dev[p], dev'[p]) /\ dev'[p].rxid = dev[p].rxid
  BY <1>1, SettleGoes
<1>3. Lines(p, S) /\ S \cap DeviceTypes = {}
  BY DEF Lines
<1>4. QED
  BY <1>2, <1>3 DEF Plain

\* Only the line changes, or nothing at all.
LEMMA IdlePlain ==
  ASSUME TypeInv, TypeInv', AllConclude, NEW p \in Peers, Running(p), NEW h,
         Settle(p, tx[p], rx[p], dev[p], h), outcome' = outcome, heard' = heard,
         NEW S, S \cap (DeviceTypes \cup {"END"}) = {},
         Follows(line'[p], line[p], {}),
         Follows(line'[Other(p)], line[Other(p)], S)
  PROVE  Plain(p)
BY Itself, SettlePlain DEF Running

LEMMA EndsPlain ==
  ASSUME TypeInv, TypeInv', AllConclude, NEW p \in Peers, Running(p),
         NEW why \in {"XFER_OK", "XFER_ABORT"}, Ends(p, why),
         why = "XFER_OK" => tx[p].state \in Leaving /\ Over(Other(p)),
         NEW S, S \cap DeviceTypes = {}, "END" \in S => why = "XFER_OK",
         line'[p] = <<>>, Follows(line'[Other(p)], line[Other(p)], S)
  PROVE  Plain(p)
<1> DEFINE q == Other(p)
<1>1. q \in Peers /\ q # p
  BY OtherFacts
<1>2. tx'[p].state = "DONE" /\ tx'[q] = tx[q]
  <2>1. tx[p] \in TxSet
    BY OwnTypes DEF TxOf
  <2>2. tx' = [tx EXCEPT ![p] = [@ EXCEPT !.state = "DONE", !.open = FALSE,
                                          !.timing = FALSE]]
    BY DEF Ends
  <2>3. tx'[p] = [tx[p] EXCEPT !.state = "DONE", !.open = FALSE, !.timing = FALSE]
    BY <2>2 DEF TypeInv, TxTyped
  <2>4. QED
    BY <1>1, <2>1, <2>2, <2>3 DEF TypeInv, TxTyped, TxSet
<1>3. /\ rx' = rx /\ dev' = dev /\ heard' = heard
      /\ outcome'[p] = why /\ outcome'[q] = outcome[q]
  BY <1>1 DEF Ends, TypeInv, ReportTyped
<1>4. Concludes(p) /\ dev[p] \in DevSet
  BY OwnTypes DEF AllConclude
<1>5. Over(p) => Over(p)'
  BY <1>2, <1>3 DEF Over
<1>6. why = "XFER_OK" => Over(p)' /\ Over(q)
  BY <1>4, <1>5 DEF Concludes
<1>7. Goes(p)
  BY <1>2, <1>3, <1>4, <1>5, <1>6 DEF Goes, Concludes, Leaving
<1>8. Lines(p, S)
  BY <1>6, FollowsEmpty DEF Lines
<1>9. Alone(p) /\ Chats(dev[p], dev'[p])
  BY <1>2, <1>3, <1>4 DEF Alone, Chats
<1>10. QED
  BY <1>3, <1>7, <1>8, <1>9 DEF Plain

\* What an abort and a lost carrier make of the lines.
LEMMA AbortLines ==
  ASSUME TypeInv, NEW p \in Peers, Abort(p) \/ CarrierLost(p)
  PROVE  /\ Ends(p, "XFER_ABORT") /\ line'[p] = <<>>
         /\ Follows(line'[Other(p)], line[Other(p)], {"CANCEL"})
<1> DEFINE q == Other(p)
<1>1. q \in Peers /\ q # p /\ line[q] \in Seq(Packets) /\ Len(line[q]) \in Nat
  BY LineSeq DEF TypeInv
<1>2. CASE Abort(p)
  <2>1. PICK n \in 0 .. Len(line[q]) :
          line' = [line EXCEPT ![p] = <<>>,
                     ![q] = IF Running(q)
                            THEN SubSeq(@, 1, n) \o <<Signal("CANCEL")>> ELSE <<>>]
    BY <1>2 DEF Abort
  <2>2. /\ line'[p] = <<>>
        /\ line'[q] = IF Running(q)
                      THEN SubSeq(line[q], 1, n) \o <<Signal("CANCEL")>> ELSE <<>>
    BY <1>1, <2>1 DEF TypeInv, LineTyped
  <2>3. Signal("CANCEL") \in Packets /\ Signal("CANCEL").type \in {"CANCEL"}
    BY SignalSeq DEF PacketTypes
  <2>4. Follows(SubSeq(line[q], 1, n) \o <<Signal("CANCEL")>>, line[q], {"CANCEL"})
    BY <1>1, <2>3, FollowsCut
  <2>5. QED
    BY <1>2, <2>2, <2>4, FollowsEmpty DEF Abort
<1>3. CASE CarrierLost(p)
  <2>1. line'[p] = <<>> /\ line'[q] = line[q]
    BY <1>1, <1>3 DEF CarrierLost, TypeInv, LineTyped
  <2>2. QED
    BY <1>1, <1>3, <2>1, FollowsItself DEF CarrierLost
<1>4. QED
  BY <1>2, <1>3

LEMMA AbortPlain ==
  ASSUME TypeInv, TypeInv', AllConclude, NEW p \in Peers, Running(p),
         Abort(p) \/ CarrierLost(p)
  PROVE  Plain(p)
<1>1. {"CANCEL"} \cap DeviceTypes = {} /\ "END" \notin {"CANCEL"}
  BY DEF DeviceTypes
<1>2. QED
  BY <1>1, AbortLines, EndsPlain

-----------------------------------------------------------------------------
(***************************************************************************)
(* The transmitter sends, and with it a device packet that is due.         *)
(***************************************************************************)
LEMMA DevSentFields ==
  ASSUME TypeInv, NEW p \in Peers, NEW t, NEW s, Send(p, t, s)
  PROVE  /\ dev'[Other(p)] = dev[Other(p)]
         /\ dev'[p].id = dev[p].id /\ dev'[p].rxid = dev[p].rxid
         /\ ~DevDue(p) => dev'[p] = dev[p]
         /\ DevDue(p) => dev'[p].state = "DACK"
<1>1. dev[p] \in DevSet /\ Other(p) # p /\ dev \in [Peers -> DevSet] /\ dev' = DevSent(p)
  BY OwnTypes, OtherFacts DEF Send, TypeInv, DevTyped
<1>2. CASE DevDue(p)
  <2>1. dev' = [dev EXCEPT ![p] = [@ EXCEPT !.state = "DACK", !.timing = TRUE]]
    BY <1>1, <1>2 DEF DevSent
  <2>2. dev'[p] = [dev[p] EXCEPT !.state = "DACK", !.timing = TRUE]
        /\ dev'[Other(p)] = dev[Other(p)]
    BY <1>1, <2>1, OtherFacts
  <2>3. QED
    BY <1>1, <1>2, <2>2 DEF DevSet
<1>3. CASE ~DevDue(p)
  BY <1>1, <1>3 DEF DevSent
<1>4. QED
  BY <1>2, <1>3

LEMMA SendConcludes ==
  ASSUME TypeInv, TypeInv', AllConclude, NEW p \in Peers, Running(p),
         NEW t, t.state # "DONE", t.state \in Leaving <=> tx[p].state \in Leaving,
         NEW s \in Seq(Packets), Send(p, t, s), NEW types,
         \A i \in 1 .. Len(s) : s[i].type \in types,
         "END" \in types => tx[p].state \in Leaving
  PROVE  AllConclude'
<1> DEFINE q == Other(p)
           S == types \cup {"DEVDATA"}
<1>1. q \in Peers /\ q # p
  BY OtherFacts
<1>2. /\ tx'[p] = t /\ tx'[q] = tx[q] /\ rx' = rx /\ outcome' = outcome
  BY <1>1 DEF Send, Session, TypeInv, TxTyped
<1>3. Concludes(p) /\ tx[p].state # "DONE"
  BY DEF AllConclude, Running
<1>4. Over(p) => Over(p)'
  <2>1. SUFFICES ASSUME Over(p) PROVE Over(p)'
    OBVIOUS
  <2>2. dev[p].state = "DONE" /\ tx[p].state \in Leaving
    BY <1>3, <2>1 DEF Over
  <2>3. dev'[p] = dev[p]
    BY <2>2, DevSentFields DEF DevDue
  <2>4. QED
    BY <1>2, <2>1, <2>2, <2>3 DEF Over
<1>5. dev'[p].timing = TRUE => dev'[p].state = "DACK"
  BY <1>3, DevSentFields DEF Concludes
<1>6. Goes(p)
  BY <1>2, <1>3, <1>4, <1>5 DEF Goes, Concludes
<1>7. line'[p] = line[p] /\ Follows(line'[q], line[q], S)
  BY SendLine DEF Send
<1>8. Follows(line'[p], line[p], {})
  BY <1>7, ChatTypes, FollowsItself
<1>9. "END" \in S => Over(p)'
  BY <1>3, <1>4 DEF Concludes
<1> HIDE DEF S
<1>10. Lines(p, S) /\ Alone(p)
  BY <1>2, <1>7, <1>8, <1>9, DevSentFields DEF Lines, Alone
<1>11. QED
  BY <1>6, <1>10, GoesConclude

\* The device packet that is due goes out before all others.
LEMMA SendFirst ==
  ASSUME TypeInv, NEW p \in Peers, NEW s \in Seq(Packets), NEW types,
         \A i \in 1 .. Len(s) : s[i].type \in types,
         Out(p, DevPackets(p) \o s)
  PROVE  \E D \in Seq(Packets) :
           /\ ~DevDue(p) => D = line[Other(p)]
           /\ DevDue(p) => Adds(D, line[Other(p)], Device("DEVDATA", dev[p].id))
           /\ Follows(line'[Other(p)], D, types)
<1> DEFINE d == DevPackets(p)
           l == line[Other(p)]
           x == Device("DEVDATA", dev[p].id)
<1>1. d \in Seq(Packets) /\ l \in Seq(Packets)
  BY DevSeq, LineSeq DEF TypeInv
<1>2. line'[Other(p)] = Sent(p, d \o s)
  BY LineSeq DEF Out, TypeInv, LineTyped
<1>3. line'[Other(p)] = IF Running(Other(p)) THEN l \o (d \o s) ELSE <<>>
  BY <1>2 DEF Sent
<1>4. /\ DevDue(p) => d = <<x>>
      /\ ~DevDue(p) => d = <<>>
  BY DEF DevPackets
<1>5. x \in Packets
  BY ChatTypes, EmptySeq DEF Device, Packet, Packets, PacketTypes
<1> HIDE DEF d, l, x
<1>6. l \o (d \o s) = (l \o d) \o s
  BY <1>1, ConcatAssociative
<1>7. l \o d \in Seq(Packets)
  BY <1>1, ConcatProperties
<1>8. Follows((l \o d) \o s, l \o d, types)
  BY <1>7, FollowsConcat
<1>9. Follows(line'[Other(p)], l \o d, types)
  BY <1>3, <1>6, <1>8, FollowsEmpty
<1>10. ~DevDue(p) => l \o d = l
  BY <1>1, <1>4, ConcatEmptySeq
<1>11. DevDue(p) => Adds(l \o d, l, x)
  BY <1>1, <1>4, <1>5, AddsOne
<1>12. QED
  BY <1>7, <1>9, <1>10, <1>11 DEF l, x

LEMMA SendChats ==
  ASSUME TypeInv, TypeInv', ChatHolds, NEW p \in Peers,
         NEW t, NEW s \in Seq(Packets), Send(p, t, s), NEW types,
         types \cap DeviceTypes = {},
         \A i \in 1 .. Len(s) : s[i].type \in types
  PROVE  ChatHolds'
<1> DEFINE q == Other(p)
           x == Device("DEVDATA", dev[p].id)
<1>1. q \in Peers /\ q # p
  BY OtherFacts
<1>2. /\ dev[p] \in DevSet /\ dev[p].rxid \in Nat /\ line[p] \in Seq(Packets)
      /\ dev[q] \in DevSet /\ dev[q].rxid \in Nat /\ line[q] \in Seq(Packets)
      /\ dev'[p] \in DevSet
      /\ Len(line[p]) \in Nat /\ Len(line'[q]) \in Nat
  BY <1>1, ChatTypes, LenProperties DEF TypeInv, DevTyped, LineTyped
<1>3. heard' = heard /\ Out(p, DevPackets(p) \o s)
  BY DEF Send, Session
<1>4. line'[p] = line[p] /\ Follows(line'[q], line[q], types \cup {"DEVDATA"})
  BY <1>3, SendLine
<1>5. PICK D \in Seq(Packets) :
        /\ ~DevDue(p) => D = line[q]
        /\ DevDue(p) => Adds(D, line[q], x)
        /\ Follows(line'[q], D, types)
  BY <1>3, SendFirst
<1>6. /\ dev'[q] = dev[q]
      /\ dev'[p].id = dev[p].id /\ dev'[p].rxid = dev[p].rxid
      /\ ~DevDue(p) => dev'[p] = dev[p]
      /\ DevDue(p) => dev'[p].state = "DACK"
  BY DevSentFields
<1>7. /\ Hears(dev[p], dev[q].rxid, heard[q], line[q], line[p])
      /\ Hears(dev[q], dev[p].rxid, heard[p], line[p], line[q])
  BY ChatBoth
<1>8. Hears(dev'[p], dev[q].rxid, heard[q], D, line[p])
  <2>1. CASE DevDue(p)
    <3>1. x.type = "DEVDATA" /\ x.id = dev[p].id
      BY DEF Device, Packet
    <3> HIDE DEF x
    <3>2. Adds(D, line[q], x) /\ dev'[p].state # "DONE"
      BY <1>5, <1>6, <2>1
    <3>3. QED
      BY <1>2, <1>6, <1>7, <3>1, <3>2, HearsSent
  <2>2. CASE ~DevDue(p)
    BY <1>5, <1>6, <1>7, <2>2
  <2>3. QED
    BY <2>1, <2>2
<1>9. /\ Chats(dev'[p], dev'[p]) /\ Chats(dev[q], dev[q])
      /\ "DEVDATA" \notin types /\ "DEVDACK" \notin types
      /\ "DEVDACK" \notin types \cup {"DEVDATA"}
      /\ Follows(line[p], line[p], {})
  BY <1>2, FollowsItself DEF Chats, DeviceTypes
<1>10. Hears(dev'[p], dev[q].rxid, heard[q], line'[q], line[p])
  BY <1>2, <1>5, <1>8, <1>9, HearsOn
<1>11. Hears(dev[q], dev[p].rxid, heard[p], line[p], line'[q])
  BY <1>2, <1>4, <1>7, <1>9, HearsOn
<1>12. QED
  BY <1>3, <1>4, <1>6, <1>10, <1>11, ChatBoth

LEMMA SendTalks ==
  ASSUME TypeInv, TypeInv', ChatHolds, AllConclude, NEW p \in Peers, Running(p),
         NEW t, t.state # "DONE", t.state \in Leaving <=> tx[p].state \in Leaving,
         NEW s \in Seq(Packets), Send(p, t, s), NEW types,
         types \cap DeviceTypes = {},
         \A i \in 1 .. Len(s) : s[i].type \in types,
         "END" \in types => tx[p].state \in Leaving
  PROVE  ChatHolds' /\ AllConclude'
BY SendConcludes, SendChats

LEMMA TransmitTalks ==
  ASSUME TypeInv, TypeInv', ChatHolds, AllConclude, NEW p \in Peers,
         Transmit(p) \/ ReadError(p)
  PROVE  ChatHolds' /\ AllConclude'
<1> DEFINE types == SentTypes \ {"END"}
<1>1. tx[p] \in TxSet /\ tx[p].file \in Nat /\ tx[p].pos \in Int
      /\ types \cap DeviceTypes = {} /\ "END" \notin types
  BY OwnTypes DEF TxOf, TxSet, SentTypes, DeviceTypes
<1>2. ASSUME NEW t, tx[p].state \notin Leaving \cup {"DONE"},
             t.state \notin Leaving \cup {"DONE"},
             NEW x \in Packets, x.type \in types, Send(p, t, <<x>>)
      PROVE  ChatHolds' /\ AllConclude'
  <2>1. <<x>> \in Seq(Packets) /\ \A i \in 1 .. Len(<<x>>) : <<x>>[i].type \in types
    BY <1>2, OneInSeq
  <2>2. QED
    BY <1>1, <1>2, <2>1, SendTalks DEF Running
<1>3. ASSUME NEW type \in types \cap PacketTypes,
             NEW state, state \notin Leaving \cup {"DONE"},
             tx[p].state \notin Leaving \cup {"DONE"},
             Send(p, Waiting(p, state), <<Signal(type)>>)
      PROVE  ChatHolds' /\ AllConclude'
  BY <1>2, <1>3, SignalSeq, WaitingFields
<1>4. {"SWAIT", "INITACK", "FINFOACK", "EOFACK", "START", "INIT", "FINFO",
       "XDATA", "EOF", "DATAACK"} \cap (Leaving \cup {"DONE"}) = {}
      /\ {"START", "INIT", "FINFO", "DATA", "EOF"} \subseteq types \cap PacketTypes
  BY DEF Leaving, SentTypes, PacketTypes
<1> HIDE DEF types
<1>5. CASE SendStart(p)
  BY <1>3, <1>4, <1>5 DEF SendStart
<1>6. CASE SendInit(p)
  BY <1>3, <1>4, <1>6 DEF SendInit
<1>7. CASE SendFinfo(p)
  <2>1. PICK k \in Nat : Send(p, Waiting(p, "FINFOACK"), <<Info(k)>>)
    <3>1. CASE tx[p].open
      BY <1>1, <1>7, <3>1 DEF SendFinfo
    <3>2. CASE ~tx[p].open
      BY <1>7, <3>2 DEF SendFinfo
    <3>3. QED
      BY <3>1, <3>2
  <2>2. Info(k) \in Packets /\ Info(k).type = "FINFO"
    BY EmptySeq DEF Info, Packet, Packets, PacketTypes
  <2>3. tx[p].state = "FINFO" /\ Waiting(p, "FINFOACK").state = "FINFOACK"
    BY <1>7, WaitingFields DEF SendFinfo
  <2>4. QED
    BY <1>2, <1>4, <2>1, <2>2, <2>3
<1>8. CASE SendEof(p)
  <2>1. /\ tx[p].state \in {"EOF", "XDATA"}
        /\ Send(p, Waiting(p, "EOFACK"), <<Position("EOF", tx[p].pos)>>)
    BY <1>8 DEF SendEof
  <2>2. /\ Position("EOF", tx[p].pos) \in Packets
        /\ Position("EOF", tx[p].pos).type = "EOF"
    BY <1>1, PositionPacket DEF PacketTypes
  <2>3. Waiting(p, "EOFACK").state = "EOFACK"
    BY WaitingFields
  <2>4. QED
    BY <1>2, <1>4, <2>1, <2>2, <2>3
<1>9. CASE ReadError(p)
  <2> DEFINE t == [Waiting(p, "EOFACK") EXCEPT !.open = FALSE, !.pos = Skip]
  <2>1. t.state = "EOFACK"
    BY <1>1 DEF Waiting, TxSet
  <2>2. tx[p].state = "XDATA" /\ Send(p, t, <<Position("EOF", Skip)>>)
    BY <1>9 DEF ReadError
  <2>3. Position("EOF", Skip) \in Packets /\ Position("EOF", Skip).type = "EOF"
    BY PositionPacket DEF PacketTypes, Skip
  <2> HIDE DEF t
  <2>4. QED
    BY <1>2, <1>4, <2>1, <2>2, <2>3
<1>10. CASE SendData(p)
  <2> DEFINE u(n, full) == [tx[p] EXCEPT !.pos = @ + n,
                              !.state = IF full THEN "DATAACK" ELSE @,
                              !.timing = IF full THEN TRUE ELSE @]
             file == Batch[p][tx[p].file]
             x(n) == Packet("DATA", tx[p].pos, 0,
                            SubSeq(file, tx[p].pos + 1, tx[p].pos + n))
  <2>1. PICK n \in 1 .. BlockMax, full \in BOOLEAN :
          /\ tx[p].state = "XDATA" /\ tx[p].pos >= 0
          /\ tx[p].pos + n <= Len(file)
          /\ Send(p, u(n, full), <<x(n)>>)
    BY <1>10 DEF SendData
  <2>2. u(n, full).state \in {"XDATA", "DATAACK"}
    BY <1>1, <2>1 DEF TxSet
  <2>3. x(n) \in Packets /\ x(n).type = "DATA"
    <3>1. file \in Seq(Units)
      <4>1. tx[p].file \in FilesOf(p)
        BY <2>1, Itself DEF TxOf, Sending
      <4>2. QED
        BY <4>1, BatchType
    <3>2. tx[p].pos \in Nat /\ n \in Nat
      <4>1. BlockMax \in Nat
        BY HydraAssumption DEF HydraAssumption
      <4>2. n \in 1 .. BlockMax /\ tx[p].pos >= 0
        BY <2>1
      <4>3. QED
        BY <1>1, <4>1, <4>2
    <3> HIDE DEF file
    <3>3. SubSeq(file, tx[p].pos + 1, tx[p].pos + n) \in Seq(Units)
      <4>1. \A i \in (tx[p].pos + 1) .. (tx[p].pos + n) : file[i] \in Units
        BY <2>1, <3>1, <3>2
      <4>2. QED
        BY <3>2, <4>1, SubSeqProperties
    <3>4. QED
      BY <1>1, <3>3 DEF Packet, Packets, PacketTypes
  <2> HIDE DEF u, x
  <2>4. QED
    BY <1>2, <1>4, <2>1, <2>2, <2>3
<1>11. CASE SendEnd(p)
  <2> DEFINE s == <<Signal("END"), Signal("END")>>
  <2>1. tx[p].state = "END" /\ Send(p, Waiting(p, "ENDACK"), s)
    BY <1>11 DEF SendEnd
  <2>2. "END" \in PacketTypes
    BY DEF PacketTypes
  <2>3. Signal("END") \in Packets /\ Signal("END").type = "END"
    BY <2>2, SignalSeq
  <2>4. s \in Seq(Packets)
    BY <2>2, SignalSeq
  <2>5. \A i \in 1 .. Len(s) : s[i].type \in {"END"}
    BY <2>3
  <2>6. Waiting(p, "ENDACK").state = "ENDACK"
    BY WaitingFields
  <2>7. {"END"} \cap DeviceTypes = {}
    BY DEF DeviceTypes
  <2> DEFINE t == Waiting(p, "ENDACK")
  <2>8. Running(p) /\ t.state # "DONE" /\ t.state \in Leaving /\ tx[p].state \in Leaving
    BY <2>1, <2>6 DEF Running, Leaving
  <2>9. Send(p, t, s)
    BY <2>1
  <2> HIDE DEF s, t
  <2>10. QED
    BY <2>4, <2>5, <2>7, <2>8, <2>9, SendTalks
<1>12. CASE SendDevice(p)
  <2>1. tx[p].state # "DONE" /\ Send(p, tx[p], <<>>) /\ <<>> \in Seq(Packets)
        /\ \A i \in 1 .. Len(<<>>) : <<>>[i].type \in types
    BY <1>12, EmptySeq DEF SendDevice
  <2>2. QED
    BY <1>1, <2>1, SendTalks DEF Running
<1>13. QED
  BY <1>5, <1>6, <1>7, <1>8, <1>9, <1>10, <1>11, <1>12 DEF Transmit

\* What a timer makes of the transmitter.
LEMMA RetriedType ==
  ASSUME TypeInv, NEW p \in Peers
  PROVE  LET t == [tx[p] EXCEPT !.retries = @ + 1, !.timing = FALSE,
                                !.state = RetryOf(@)]
         IN t \in TxOf(p) /\ t.state = RetryOf(tx[p].state)
<1> DEFINE t == [tx[p] EXCEPT !.retries = @ + 1, !.timing = FALSE,
                              !.state = RetryOf(@)]
<1>1. tx[p] \in TxSet /\ tx[p] \in TxOf(p)
  BY OwnTypes DEF TxOf
<1>2. /\ t.file = tx[p].file /\ t.open = tx[p].open
      /\ t.state = RetryOf(tx[p].state)
  BY <1>1 DEF TxSet
<1>3. tx[p].retries + 1 \in Nat /\ RetryOf(tx[p].state) \in TxStates
  BY <1>1 DEF TxSet, RetryOf, TxStates, BeforeRend, Handshake, Sending
<1>4. t \in TxSet
  BY <1>1, <1>3 DEF TxSet
<1>5. t.state \in Sending => tx[p].state \in Sending
  BY <1>2 DEF RetryOf, Sending
<1>6. t.open <=> tx[p].open
  BY <1>2
<1> HIDE DEF t
<1>7. (t.state \in Sending \/ t.open) => t.file \in FilesOf(p)
  BY <1>1, <1>2, <1>5, <1>6, Zenon DEF TxOf
<1>8. t \in TxOf(p) /\ t.state = RetryOf(tx[p].state)
  BY <1>2, <1>4, <1>7 DEF TxOf
<1>9. QED
  BY <1>8 DEF t

LEMMA TimersPlain ==
  ASSUME TypeInv, TypeInv', AllConclude, NEW p \in Peers, Timers(p)
  PROVE  Plain(p)
<1>1. Running(p) /\ Concludes(p) /\ tx[p].state # "DONE"
      /\ tx[p] \in TxOf(p) /\ tx[p] \in TxSet /\ dev[p] \in DevSet
  BY OwnTypes DEF Timers, StillHere, Retry, DevRetry, BrainDead, Expires,
                  AllConclude, Running, TxOf
<1>2. {} \cap (DeviceTypes \cup {"END"}) = {} /\ {"IDLE"} \cap (DeviceTypes \cup {"END"}) = {}
  BY DEF DeviceTypes
<1>3. line' = line => /\ Follows(line'[p], line[p], {})
                      /\ Follows(line'[Other(p)], line[Other(p)], {})
  BY LineSeq, FollowsItself DEF TypeInv
<1>4. CASE StillHere(p)
  <2> DEFINE x == Signal("IDLE")
  <2>1. <<x>> \in Seq(Packets) /\ x.type = "IDLE"
    BY SignalSeq DEF PacketTypes
  <2>2. \A i \in 1 .. Len(<<x>>) : <<x>>[i].type \in {"IDLE"}
    BY <2>1
  <2>3. line'[p] = line[p] /\ Follows(line'[Other(p)], line[Other(p)], {"IDLE"})
    BY <1>4, <2>1, <2>2, OutFollows DEF StillHere, TypeInv
  <2>4. Follows(line'[p], line[p], {})
    BY <2>3, LineSeq, FollowsItself DEF TypeInv
  <2>5. /\ Settle(p, tx[p], rx[p], dev[p], hdxlink[p])
        /\ outcome' = outcome /\ heard' = heard
    BY <1>4 DEF StillHere, Session
  <2>6. QED
    BY <1>1, <1>2, <2>3, <2>4, <2>5, IdlePlain
<1>5. CASE DevRetry(p)
  <2> DEFINE d == [dev[p] EXCEPT !.retries = @ + 1, !.timing = FALSE,
                                 !.state = "DATA"]
  <2>1. dev[p].state = "DACK"
    BY <1>1, <1>5 DEF DevRetry, Expires, Concludes, DevSet
  <2>2. CASE Abort(p)
    BY <1>1, <2>2, AbortPlain
  <2>3. CASE Settle(p, tx[p], rx[p], d, hdxlink[p]) /\ UNCHANGED <<line, Session>>
    <3>1. dev[p].retries + 1 \in Nat
      BY <1>1 DEF DevSet
    <3>2. /\ d \in DevSet /\ d.state = "DATA" /\ d.timing = FALSE
          /\ d.id = dev[p].id /\ d.rxid = dev[p].rxid
      BY <1>1, <3>1 DEF DevSet
    <3>3. line' = line /\ outcome' = outcome /\ heard' = heard
      BY <2>3 DEF Session
    <3>4. Settle(p, tx[p], rx[p], d, hdxlink[p])
      BY <2>3
    <3> HIDE DEF d
    <3>5. /\ Goes(p) /\ Alone(p) /\ Chats(d, dev'[p]) /\ dev'[p].rxid = d.rxid
      BY <1>1, <2>1, <3>2, <3>3, <3>4, SettleGoes
    <3>6. Chats(dev[p], dev'[p])
      BY <3>2, <3>5 DEF Chats
    <3>7. Lines(p, {}) /\ {} \cap DeviceTypes = {}
      BY <1>3, <3>3 DEF Lines
    <3>8. QED
      BY <3>2, <3>3, <3>5, <3>6, <3>7 DEF Plain
  <2>4. QED
    BY <1>5, <2>2, <2>3 DEF DevRetry
<1>6. CASE BrainDead(p)
  BY <1>1, <1>6, AbortPlain DEF BrainDead
<1>7. CASE Retry(p)
  <2> DEFINE t == [tx[p] EXCEPT !.retries = @ + 1, !.timing = FALSE,
                                !.state = RetryOf(@)]
  <2>1. CASE Abort(p)
    BY <1>1, <2>1, AbortPlain
  <2>2. CASE Settle(p, t, rx[p], dev[p], hdxlink[p]) /\ UNCHANGED <<line, Session>>
    <3>1. t \in TxOf(p) /\ t.state = RetryOf(tx[p].state)
      BY <1>1, RetriedType
    <3>2. /\ t.state # "DONE"
          /\ t.state \in Leaving <=> tx[p].state \in Leaving
      BY <1>1, <3>1 DEF RetryOf, Leaving
    <3>3. line' = line /\ outcome' = outcome /\ heard' = heard
      BY <2>2 DEF Session
    <3>4. Settle(p, t, rx[p], dev[p], hdxlink[p])
      BY <2>2
    <3> HIDE DEF t
    <3>5. QED
      BY <1>1, <1>2, <1>3, <3>1, <3>2, <3>3, <3>4, SettlePlain
  <2>3. QED
    BY <1>7, <2>1, <2>2 DEF Retry
<1>8. QED
  BY <1>4, <1>5, <1>6, <1>7 DEF Timers

-----------------------------------------------------------------------------
(***************************************************************************)
(* A packet is taken from the line.                                        *)
(***************************************************************************)
ReplyTypes == {"INITACK", "FINFOACK", "DATAACK", "RPOS", "EOFACK"}

LEMMA TakenPlain ==
  ASSUME TypeInv, TypeInv', AllConclude, NEW p \in Peers, Running(p),
         line[p] # <<>>, NEW t \in TxOf(p), NEW r, NEW h,
         Settle(p, t, r, dev[p], h), NEW s \in Seq(Packets),
         \A i \in 1 .. Len(s) : s[i].type \in ReplyTypes, In(p, s),
         outcome' = outcome, heard' = heard,
         t.state # "DONE", t.state \in Leaving <=> tx[p].state \in Leaving,
         rx[p].state = "DONE" => r.state = "DONE"
  PROVE  Plain(p)
<1>1. ReplyTypes \cap (DeviceTypes \cup {"END"}) = {}
  BY DEF ReplyTypes, DeviceTypes
<1>2. /\ Follows(line'[p], line[p], {})
      /\ Follows(line'[Other(p)], line[Other(p)], ReplyTypes)
  BY InFollows DEF TypeInv
<1>3. QED
  BY <1>1, <1>2, SettlePlain

\* The transmitter is not concerned.
LEMMA RepliesPlain ==
  ASSUME TypeInv, TypeInv', AllConclude, NEW p \in Peers, Running(p),
         line[p] # <<>>, NEW r, NEW h, Settle(p, tx[p], r, dev[p], h),
         rx[p].state = "DONE" => r.state = "DONE",
         NEW x \in Packets, x.type \in ReplyTypes, In(p, <<>>) \/ In(p, <<x>>),
         outcome' = outcome, heard' = heard
  PROVE  Plain(p)
<1>1. tx[p] \in TxOf(p) /\ tx[p].state # "DONE"
  BY Itself DEF Running
<1>2. CASE In(p, <<>>)
  <2>1. <<>> \in Seq(Packets) /\ \A i \in 1 .. Len(<<>>) : <<>>[i].type \in ReplyTypes
    BY EmptySeq
  <2>2. QED
    BY <1>1, <1>2, <2>1, TakenPlain
<1>3. CASE In(p, <<x>>)
  <2>1. <<x>> \in Seq(Packets) /\ \A i \in 1 .. Len(<<x>>) : <<x>>[i].type \in ReplyTypes
    BY OneInSeq
  <2>2. QED
    BY <1>1, <1>3, <2>1, TakenPlain
<1>4. QED
  BY <1>2, <1>3

LEMMA SilentPlain ==
  ASSUME TypeInv, TypeInv', AllConclude, NEW p \in Peers, Running(p),
         line[p] # <<>>, NEW t \in TxOf(p), NEW h,
         Settle(p, t, rx[p], dev[p], h), In(p, <<>>),
         outcome' = outcome, heard' = heard,
         t.state # "DONE", t.state \in Leaving <=> tx[p].state \in Leaving
  PROVE  Plain(p)
<1>1. <<>> \in Seq(Packets) /\ \A i \in 1 .. Len(<<>>) : <<>>[i].type \in ReplyTypes
  BY EmptySeq
<1>2. QED
  BY <1>1, TakenPlain

LEMMA SessionPlain ==
  ASSUME TypeInv, TypeInv', AllConclude, NEW p \in Peers,
         \/ ReceiveStart(p) \/ ReceiveIdle(p) \/ ReceiveInit(p)
         \/ ReceiveInitack(p) \/ ReceiveCancel(p)
  PROVE  Plain(p)
<1>1. Running(p) /\ line[p] # <<>> /\ tx[p].state # "DONE" /\ tx[p] \in TxOf(p)
  BY Itself DEF ReceiveStart, ReceiveIdle, ReceiveInit, ReceiveInitack,
                ReceiveCancel, Arrived, Running
<1>2. ASSUME NEW s \in TxStates, s \notin Leaving \cup {"DONE"},
             tx[p].state \notin Leaving,
             s \in Sending => tx[p].state \in Sending, NEW h,
             Settle(p, Restarted(tx[p], s), rx[p], dev[p], h), In(p, <<>>),
             UNCHANGED Session
      PROVE  Plain(p)
  <2>1. Restarted(tx[p], s) \in TxOf(p)
    <3>1. s \in Sending => tx[p].file \in FilesOf(p)
      BY <1>2, Itself DEF TxOf
    <3>2. QED
      BY <3>1, Itself, RestartedType
  <2>2. Restarted(tx[p], s).state = s
    BY Itself, RestartedFields
  <2>3. outcome' = outcome /\ heard' = heard
    BY <1>2 DEF Session
  <2>4. QED
    BY <1>1, <1>2, <2>1, <2>2, <2>3, SilentPlain
<1>3. ASSUME NEW h, Settle(p, tx[p], rx[p], dev[p], h), In(p, <<>>),
             UNCHANGED Session
      PROVE  Plain(p)
  <2>1. outcome' = outcome /\ heard' = heard
    BY <1>3 DEF Session
  <2>2. QED
    BY <1>1, <1>3, <2>1, SilentPlain
<1>4. /\ {"INIT", "RINIT", "XDATA"} \subseteq TxStates \ (Leaving \cup {"DONE"})
      /\ "INIT" \notin Sending /\ "RINIT" \notin Sending
      /\ {"START", "SWAIT", "INIT", "INITACK", "XWAIT"} \cap Leaving = {}
  BY DEF TxStates, BeforeRend, Handshake, Sending, Leaving
<1>5. CASE ReceiveStart(p)
  <2>1. /\ \/ /\ tx[p].state \in {"START", "SWAIT"}
              /\ Settle(p, Restarted(tx[p], "INIT"), rx[p], dev[p], hdxlink[p])
           \/ Settle(p, tx[p], rx[p], dev[p], hdxlink[p])
        /\ In(p, <<>>) /\ UNCHANGED Session
    BY <1>5, Zenon DEF ReceiveStart
  <2>2. QED
    BY <1>2, <1>3, <1>4, <2>1
<1>6. CASE ReceiveInitack(p)
  <2>1. /\ \/ /\ tx[p].state \in {"INIT", "INITACK"}
              /\ Settle(p, Restarted(tx[p], "RINIT"), rx[p], dev[p], hdxlink[p])
           \/ Settle(p, tx[p], rx[p], dev[p], hdxlink[p])
        /\ In(p, <<>>) /\ UNCHANGED Session
    BY <1>6, Zenon DEF ReceiveInitack
  <2>2. QED
    BY <1>2, <1>3, <1>4, <2>1
<1>7. CASE ReceiveIdle(p)
  <2>1. PICK h : /\ \/ /\ tx[p].state = "XWAIT"
                       /\ Settle(p, Restarted(tx[p], "XDATA"), rx[p], dev[p], h)
                    \/ Settle(p, tx[p], rx[p], dev[p], h)
                 /\ In(p, <<>>) /\ UNCHANGED Session
    BY <1>7, Zenon DEF ReceiveIdle
  <2>2. tx[p].state = "XWAIT" => tx[p].state \in Sending
    BY DEF Sending
  <2>3. QED
    BY <1>2, <1>3, <1>4, <2>1, <2>2
<1>8. CASE ReceiveInit(p)
  <2>1. PICK r : /\ Settle(p, tx[p], r, dev[p], hdxlink[p])
                 /\ r = IF rx[p].state = "INIT"
                        THEN [rx[p] EXCEPT !.state = "FINFO"] ELSE rx[p]
    BY <1>8 DEF ReceiveInit
  <2>2. rx[p].state = "DONE" => r.state = "DONE"
    BY <2>1
  <2>3. In(p, <<Signal("INITACK")>>) /\ outcome' = outcome /\ heard' = heard
    BY <1>8 DEF ReceiveInit, Session
  <2>4. Signal("INITACK") \in Packets /\ Signal("INITACK").type \in ReplyTypes
    BY SignalSeq DEF PacketTypes, ReplyTypes
  <2>5. QED
    BY <1>1, <2>1, <2>2, <2>3, <2>4, RepliesPlain
<1>9. CASE ReceiveCancel(p)
  BY <1>1, <1>9, AbortPlain DEF ReceiveCancel
<1>10. QED
  BY <1>5, <1>6, <1>7, <1>8, <1>9

LEMMA ReceiveEndPlain ==
  ASSUME TypeInv, TypeInv', AllConclude, NEW p \in Peers, ReceiveEnd(p)
  PROVE  Plain(p)
<1> DEFINE s == <<Signal("END"), Signal("END"), Signal("END")>>
<1>1. Running(p) /\ line[p] # <<>> /\ Head(line[p]).type = "END"
      /\ tx[p].state # "DONE" /\ tx[p] \in TxOf(p)
  BY Itself DEF ReceiveEnd, Arrived, Running
<1>2. CASE tx[p].state \in Leaving
  <2>1. /\ Ends(p, "XFER_OK")
        /\ line' = [line EXCEPT ![p] = <<>>, ![Other(p)] = Sent(p, s)]
    BY <1>2 DEF ReceiveEnd, Leaving
  <2>2. Over(Other(p))
    <3>1. 1 \in 1 .. Len(line[p]) /\ line[p][1].type = "END"
      BY <1>1, TailFacts DEF TypeInv
    <3>2. ~None(line[p], {"END"})
      BY <3>1 DEF None
    <3>3. QED
      BY <3>2 DEF AllConclude, Concludes
  <2>3. s \in Seq(Packets) /\ \A i \in 1 .. Len(s) : s[i].type \in {"END"}
    <3>1. "END" \in PacketTypes
      BY DEF PacketTypes
    <3>2. s \in Seq(Packets) /\ Signal("END").type = "END"
      BY <3>1, SignalSeq
    <3>3. QED
      BY <3>2
  <2> HIDE DEF s
  <2>4. Follows(Sent(p, s), line[Other(p)], {"END"})
    BY <2>3, SentFollows DEF TypeInv
  <2>5. line'[p] = <<>> /\ line'[Other(p)] = Sent(p, s)
    BY <2>1, OtherFacts DEF TypeInv, LineTyped
  <2>6. {"END"} \cap DeviceTypes = {}
    BY DEF DeviceTypes
  <2>7. QED
    BY <1>1, <1>2, <2>1, <2>2, <2>4, <2>5, <2>6, EndsPlain
<1>3. CASE tx[p].state \notin Leaving
  <2>1. /\ Settle(p, tx[p], rx[p], dev[p], hdxlink[p]) /\ In(p, <<>>)
        /\ outcome' = outcome /\ heard' = heard
    BY <1>3 DEF ReceiveEnd, Leaving, Session
  <2>2. QED
    BY <1>1, <2>1, SilentPlain
<1>4. QED
  BY <1>2, <1>3

\* hydra() goes on with the next file.
LEMMA ReturnsPlain ==
  ASSUME TypeInv, TypeInv', AllConclude, NEW p \in Peers, Running(p),
         line[p] # <<>>, NEW x, Returns(p, x), In(p, <<>>),
         tx[p].file \in FilesOf(p), tx[p].state \notin Leaving
  PROVE  Plain(p)
<1>1. /\ tx'[p].state = "FINFO" /\ tx'[Other(p)] = tx[Other(p)] /\ rx' = rx
  BY ReturnsTx
<1>2. dev' = dev /\ outcome' = outcome /\ heard' = heard
  BY DEF Returns
<1>3. Concludes(p) /\ dev[p] \in DevSet /\ tx[p].state # "DONE"
  BY OwnTypes DEF AllConclude, Running
<1>4. "FINFO" \notin Leaving /\ ~Over(p)
  BY <1>3 DEF Leaving, Over
<1>5. Goes(p) /\ Alone(p) /\ Chats(dev[p], dev'[p])
  BY <1>1, <1>2, <1>3, <1>4 DEF Goes, Alone, Chats, Concludes
<1>6. Lines(p, {}) /\ {} \cap DeviceTypes = {}
  <2>1. <<>> \in Seq(Packets) /\ \A i \in 1 .. Len(<<>>) : <<>>[i].type \in {}
    BY EmptySeq
  <2>2. QED
    BY <2>1, InFollows DEF TypeInv, Lines
<1>7. QED
  BY <1>2, <1>5, <1>6 DEF Plain

LEMMA ReceiveFinfoackPlain ==
  ASSUME TypeInv, TypeInv', AllConclude, NEW p \in Peers, ReceiveFinfoack(p)
  PROVE  Plain(p)
<1> DEFINE pos == Head(line[p]).pos
           asking == tx[p].state \in {"FINFO", "FINFOACK"}
           closing == [tx[p] EXCEPT !.state = "REND", !.retries = 0,
                                    !.timing = TRUE]
           started == [Restarted(tx[p], "XDATA") EXCEPT !.pos = pos,
                                                        !.lastack = pos]
<1>1. Running(p) /\ line[p] # <<>> /\ In(p, <<>>) /\ tx[p].state # "DONE"
  BY DEF ReceiveFinfoack, Arrived, Running
<1>2. tx[p] \in TxOf(p) /\ tx[p] \in TxSet /\ pos \in Int /\ tx[p].open \in BOOLEAN
  BY <1>1, OwnTypes, HeadType DEF TxOf, TypeInv, TxSet
<1>3. asking => tx[p].state \notin Leaving
  BY DEF Leaving
<1>4. UNCHANGED Session => outcome' = outcome /\ heard' = heard
  BY DEF Session
<1>5. CASE asking /\ tx[p].open = TRUE /\ pos < 0
  <2>1. PICK x : Returns(p, x)
    BY <1>5, Zenon DEF ReceiveFinfoack
  <2>2. tx[p].file \in FilesOf(p)
    BY <1>2, <1>5 DEF TxOf
  <2>3. QED
    BY <1>1, <1>3, <1>5, <2>1, <2>2, ReturnsPlain
<1>6. CASE asking /\ tx[p].open = FALSE
  <2>1. Settle(p, closing, rx[p], dev[p], hdxlink[p]) /\ UNCHANGED Session
    BY <1>6, Zenon DEF ReceiveFinfoack
  <2>2. closing.state = "REND" /\ closing.file = tx[p].file /\ closing.open = FALSE
    BY <1>2, <1>6 DEF TxSet
  <2>3. closing \in TxSet
    BY <1>2 DEF TxSet, TxStates
  <2> HIDE DEF closing
  <2>4. closing \in TxOf(p)
    BY <2>2, <2>3 DEF TxOf, Sending
  <2>5. closing.state \notin Leaving /\ closing.state # "DONE"
    BY <2>2 DEF Leaving
  <2>6. QED
    BY <1>1, <1>3, <1>4, <1>6, <2>1, <2>4, <2>5, SilentPlain
<1>7. CASE asking /\ tx[p].open = TRUE /\ ~(pos < 0)
  <2>1. Settle(p, started, rx[p], dev[p], hdxlink[p]) /\ UNCHANGED Session
    BY <1>7, Zenon DEF ReceiveFinfoack
  <2>2. started.state = "XDATA" /\ started.file = tx[p].file
    BY <1>2, <1>7 DEF Restarted, TxSet
  <2>3. started \in TxSet
    BY <1>2 DEF Restarted, TxSet, TxStates, BeforeRend, Sending
  <2>4. tx[p].file \in FilesOf(p)
    BY <1>2, <1>7 DEF TxOf
  <2> HIDE DEF started
  <2>5. started \in TxOf(p) /\ started.state \notin Leaving /\ started.state # "DONE"
    BY <2>2, <2>3, <2>4 DEF TxOf, Leaving
  <2>6. QED
    BY <1>1, <1>3, <1>4, <1>7, <2>1, <2>5, SilentPlain
<1>8. CASE ~asking
  <2>1. Settle(p, tx[p], rx[p], dev[p], hdxlink[p]) /\ UNCHANGED Session
    BY <1>8, Zenon DEF ReceiveFinfoack
  <2>2. QED
    BY <1>1, <1>2, <1>4, <2>1, SilentPlain
<1>9. QED
  BY <1>2, <1>5, <1>6, <1>7, <1>8

LEMMA ReceiveEofackPlain ==
  ASSUME TypeInv, TypeInv', AllConclude, NEW p \in Peers, ReceiveEofack(p)
  PROVE  Plain(p)
<1>1. Running(p) /\ line[p] # <<>> /\ In(p, <<>>) /\ tx[p].state # "DONE"
      /\ tx[p] \in TxOf(p)
  BY Itself DEF ReceiveEofack, Arrived, Running
<1>2. CASE tx[p].state \in {"EOF", "EOFACK"}
  <2>1. PICK x : Returns(p, x)
    BY <1>2, Zenon DEF ReceiveEofack
  <2>2. tx[p].state \in Sending /\ tx[p].state \notin Leaving
    BY <1>2 DEF Sending, Leaving
  <2>3. tx[p].file \in FilesOf(p)
    BY <1>1, <2>2 DEF TxOf
  <2>4. QED
    BY <1>1, <2>1, <2>2, <2>3, ReturnsPlain
<1>3. CASE tx[p].state \notin {"EOF", "EOFACK"}
  <2>1. /\ Settle(p, tx[p], rx[p], dev[p], hdxlink[p])
        /\ outcome' = outcome /\ heard' = heard
    BY <1>3 DEF ReceiveEofack, Session
  <2>2. QED
    BY <1>1, <2>1, SilentPlain
<1>4. QED
  BY <1>2, <1>3

LEMMA AnsweredPlain ==
  ASSUME TypeInv, TypeInv', AllConclude, NEW p \in Peers,
         ReceiveDataack(p) \/ ReceiveRpos(p)
  PROVE  Plain(p)
<1>1. Running(p) /\ line[p] # <<>> /\ tx[p].state # "DONE"
  BY DEF ReceiveDataack, ReceiveRpos, Arrived, Running
<1>2. UNCHANGED Session => outcome' = outcome /\ heard' = heard
  BY DEF Session
<1>3. CASE ReceiveDataack(p)
  <2>1. PICK t \in TxOf(p) :
          /\ Settle(p, t, rx[p], dev[p], hdxlink[p])
          /\ \/ t.state = tx[p].state
             \/ tx[p].state = "DATAACK" /\ t.state = "XDATA"
    BY <1>3, DataackTx
  <2>2. /\ t.state # "DONE"
        /\ t.state \in Leaving <=> tx[p].state \in Leaving
    BY <1>1, <2>1 DEF Leaving
  <2>4. In(p, <<>>) /\ UNCHANGED Session
    BY <1>3 DEF ReceiveDataack
  <2>5. QED
    BY <1>1, <1>2, <2>1, <2>2, <2>4, SilentPlain
<1>4. CASE ReceiveRpos(p)
  <2> DEFINE t == tx[p]
             m == Head(line[p])
             v == Rewound(t, m.pos, m.id)
             again == [t EXCEPT !.retries = @ + 1]
             u == CASE t.state \in Sending /\ ~Repeats(t, m) -> v
                    [] Repeats(t, m) -> again
                    [] OTHER -> t
  <2>1. t \in TxOf(p) /\ t \in TxSet /\ m.pos \in Int /\ m.id \in Nat
    BY <1>1, OwnTypes, HeadType DEF TxOf, TypeInv
  <2>2. CASE Abort(p)
    BY <1>1, <2>2, AbortPlain
  <2>3. CASE Settle(p, u, rx[p], dev[p], hdxlink[p]) /\ In(p, <<>>) /\ UNCHANGED Session
    <3>1. CASE t.state \in Sending /\ ~Repeats(t, m)
      <4>1. u = v
        BY <3>1
      <4>2. v \in TxOf(p)
        BY <2>1, <3>1, RewoundType
      <4>3. /\ v.state \notin Leaving /\ v.state # "DONE"
            /\ t.state \notin Leaving
        BY <2>1, <3>1 DEF Rewound, TxSet, Sending, Leaving
      <4> HIDE DEF u, v
      <4>4. QED
        BY <1>1, <1>2, <2>3, <4>1, <4>2, <4>3, SilentPlain
    <3>2. CASE Repeats(t, m)
      <4>1. u = again
        BY <3>2
      <4>2. again \in TxSet /\ again.state = t.state /\ again.file = t.file
            /\ again.open = t.open
        <5>1. t.retries + 1 \in Nat
          BY <2>1 DEF TxSet
        <5>2. QED
          BY <2>1, <5>1 DEF TxSet
      <4> HIDE DEF u, again
      <4>3. again \in TxOf(p)
        BY <2>1, <4>2 DEF TxOf
      <4>4. QED
        BY <1>1, <1>2, <2>3, <4>1, <4>2, <4>3, SilentPlain
    <3>3. CASE t.state \notin Sending /\ ~Repeats(t, m)
      <4>1. u = t
        BY <3>3
      <4>2. QED
        BY <1>1, <1>2, <2>1, <2>3, <4>1, SilentPlain
    <3>4. QED
      BY <3>1, <3>2, <3>3
  <2>4. QED
    BY <1>4, <2>2, <2>3 DEF ReceiveRpos
<1>5. QED
  BY <1>3, <1>4

-----------------------------------------------------------------------------
(***************************************************************************)
(* The receiver's part, and what users and the line do.                    *)
(***************************************************************************)
LEMMA ReceiveFinfoPlain ==
  ASSUME TypeInv, TypeInv', AllConclude, NEW p \in Peers, ReceiveFinfo(p)
  PROVE  Plain(p)
<1> DEFINE k == Head(line[p]).id
           r == rx[p]
           begun == [r EXCEPT !.state = "DATA", !.file = k,
                        !.pos = Len(part[p][k]), !.timing = FALSE,
                        !.retries = 0, !.lastsync = 0, !.syncid = 0]
           finished == [r EXCEPT !.pos = 0, !.state = "DONE"]
<1>1. Running(p) /\ line[p] # <<>> /\ rx[p] \in RxOf(p) /\ r \in RxSet
  BY OwnTypes DEF ReceiveFinfo, Arrived, RxOf
<1>2. ASSUME NEW r2, Answers(p, r2), r2.pos \in Int,
             r.state = "DONE" => r2.state = "DONE"
      PROVE  Plain(p)
  <2>1. /\ Settle(p, tx[p], r2, dev[p], hdxlink[p])
        /\ In(p, <<Position("FINFOACK", r2.pos)>>)
        /\ outcome' = outcome /\ heard' = heard
    BY <1>2 DEF Answers, Session
  <2>2. "FINFOACK" \in PacketTypes /\ "FINFOACK" \in ReplyTypes
    BY DEF PacketTypes, ReplyTypes
  <2>3. /\ Position("FINFOACK", r2.pos) \in Packets
        /\ Position("FINFOACK", r2.pos).type \in ReplyTypes
    BY <1>2, <2>2, PositionPacket
  <2>4. QED
    BY <1>1, <1>2, <2>1, <2>3, RepliesPlain
<1>3. CASE Answers(p, finished)
  <2>1. finished.pos = 0 /\ finished.state = "DONE"
    BY <1>1 DEF RxSet
  <2> HIDE DEF finished
  <2>2. QED
    BY <1>2, <1>3, <2>1
<1>4. ASSUME NEW n \in Int, Answers(p, [r EXCEPT !.pos = n]) PROVE Plain(p)
  <2>1. [r EXCEPT !.pos = n].state = r.state /\ [r EXCEPT !.pos = n].pos = n
    BY <1>1 DEF RxSet
  <2>2. QED
    BY <1>2, <1>4, <2>1
<1>5. CASE r.state = "FINFO" /\ k # 0 /\ Answers(p, begun)
  <2>1. begun.pos \in Int
    <3>1. k \in FilesOf(Other(p))
      <4>1. Head(line[p]) \in PacketsTo(p) /\ Head(line[p]).type = "FINFO"
        BY <1>1, HeadType DEF TypeInv, ReceiveFinfo, Arrived
      <4>2. k \in 0 .. Len(Batch[Other(p)]) /\ Len(Batch[Other(p)]) \in Nat
        BY <4>1, BatchType, OtherFacts DEF PacketsTo
      <4>3. QED
        BY <1>5, <4>2 DEF FilesOf
    <3>2. Len(part[p][k]) \in Nat
      BY <3>1, DisksTyped, LenProperties
    <3>3. begun.pos = Len(part[p][k])
      BY <1>1 DEF RxSet
    <3>4. QED
      BY <3>2, <3>3
  <2> HIDE DEF begun
  <2>2. QED
    BY <1>2, <1>5, <2>1
<1>6. CASE Answers(p, r)
  BY <1>1, <1>2, <1>6 DEF RxSet
<1>7. Skip \in Int /\ HaveIt \in Int /\ 0 \in Int
  BY DEF Skip, HaveIt
<1>8. \/ Answers(p, finished)
      \/ r.state = "FINFO" /\ k # 0 /\ Answers(p, begun)
      \/ Answers(p, r)
      \/ Answers(p, [r EXCEPT !.pos = HaveIt])
      \/ Answers(p, [r EXCEPT !.pos = Skip])
      \/ Answers(p, [r EXCEPT !.pos = 0])
  BY Zenon DEF ReceiveFinfo
<1>9. QED
  BY <1>3, <1>4, <1>5, <1>6, <1>7, <1>8

LEMMA MisplacedPlain ==
  ASSUME TypeInv, TypeInv', AllConclude, NEW p \in Peers, Running(p),
         line[p] # <<>>, NEW pos \in Int, NEW may, Misplaced(p, pos, may)
  PROVE  Plain(p)
<1> DEFINE r == IF pos <= rx[p].lastsync
                THEN [rx[p] EXCEPT !.lastsync = pos, !.timing = FALSE,
                                   !.retries = 0]
                ELSE [rx[p] EXCEPT !.lastsync = pos]
           asked(tries) == [r EXCEPT !.retries = tries, !.timing = TRUE,
                              !.syncid = IF tries = 1 THEN @ + 1 ELSE @]
           falls == /\ may /\ r.retries > OneWayRetries
                    /\ tx[p].state \in BeforeRend
                    /\ p \notin Originators /\ ~hdxlink[p]
           tries1 == IF falls THEN 1 ELSE r.retries + 1
<1>1. rx[p] \in RxSet
  BY OwnTypes DEF RxOf
<1>2. r \in RxSet /\ r.state = rx[p].state /\ r.pos = rx[p].pos
  <2>1. [rx[p] EXCEPT !.lastsync = pos, !.timing = FALSE, !.retries = 0] \in RxSet
    BY <1>1 DEF RxSet
  <2>2. [rx[p] EXCEPT !.lastsync = pos] \in RxSet
    BY <1>1 DEF RxSet
  <2>3. QED
    BY <1>1, <2>1, <2>2 DEF RxSet
<1>3. \/ Abort(p)
      \/ /\ Settle(p, tx[p], r, dev[p], hdxlink[p]) /\ In(p, <<>>)
         /\ UNCHANGED Session
      \/ /\ Settle(p, tx[p], asked(tries1), dev[p], hdxlink[p] \/ falls)
         /\ In(p, <<Rpos(r.pos, asked(tries1).syncid)>>)
         /\ UNCHANGED Session
  BY Zenon DEF Misplaced
<1>4. UNCHANGED Session => outcome' = outcome /\ heard' = heard
  BY DEF Session
<1> HIDE DEF r, falls, tries1
<1>5. \A tries : asked(tries).state = rx[p].state /\ asked(tries).syncid \in Nat
  BY <1>2 DEF RxSet
<1>6. ASSUME NEW id \in Nat
      PROVE  Rpos(r.pos, id) \in Packets /\ Rpos(r.pos, id).type \in ReplyTypes
  <2>1. r.pos \in Int
    BY <1>2 DEF RxSet
  <2>2. QED
    BY <2>1, RposPacket DEF ReplyTypes
<1> HIDE DEF asked
<1>7. CASE Abort(p)
  BY <1>7, AbortPlain
<1>8. CASE /\ Settle(p, tx[p], r, dev[p], hdxlink[p]) /\ In(p, <<>>)
           /\ UNCHANGED Session
  BY <1>2, <1>4, <1>6, <1>8, RepliesPlain
<1>9. ASSUME NEW tries, NEW h, Settle(p, tx[p], asked(tries), dev[p], h),
             In(p, <<Rpos(r.pos, asked(tries).syncid)>>), UNCHANGED Session
      PROVE  Plain(p)
  <2>1. asked(tries).syncid \in Nat /\ asked(tries).state = rx[p].state
    BY <1>5
  <2>2. /\ Rpos(r.pos, asked(tries).syncid) \in Packets
        /\ Rpos(r.pos, asked(tries).syncid).type \in ReplyTypes
    BY <1>6, <2>1
  <2>3. QED
    BY <1>4, <1>9, <2>1, <2>2, RepliesPlain
<1>10. QED
  BY <1>3, <1>7, <1>8, <1>9

LEMMA ReceiverPlain ==
  ASSUME TypeInv, TypeInv', AllConclude, NEW p \in Peers,
         ReceiveData(p) \/ WriteError(p) \/ ReceiveEof(p)
  PROVE  Plain(p)
<1> DEFINE m == Head(line[p])
<1>1. /\ Running(p) /\ line[p] # <<>> /\ rx[p] \in RxSet
      /\ m.pos \in Int /\ m.data \in Seq(Units) /\ Len(m.data) \in Nat
  <2>1. Running(p) /\ line[p] # <<>>
    BY DEF ReceiveData, WriteError, ReceiveEof, Arrived
  <2>2. QED
    BY <2>1, OwnTypes, HeadType, LenProperties DEF RxOf, TypeInv
<1> HIDE DEF m
<1>2. UNCHANGED Session => outcome' = outcome /\ heard' = heard
  BY DEF Session
<1>3. Signal("EOFACK") \in Packets /\ Signal("EOFACK").type \in ReplyTypes
  <2>1. "EOFACK" \in PacketTypes /\ "EOFACK" \in ReplyTypes
    BY DEF PacketTypes, ReplyTypes
  <2>2. QED
    BY <2>1, SignalSeq
<1>4. ASSUME Settle(p, tx[p], rx[p], dev[p], hdxlink[p]), In(p, <<>>),
             UNCHANGED Session
      PROVE  Plain(p)
  BY <1>1, <1>2, <1>3, <1>4, RepliesPlain
<1>5. CASE ReceiveData(p)
  <2> DEFINE pos == rx[p].pos + Len(m.data)
             r == [rx[p] EXCEPT !.pos = pos, !.lastsync = rx[p].pos,
                                !.retries = 0, !.timing = FALSE]
             x == Position("DATAACK", pos)
  <2>1. \/ /\ Settle(p, tx[p], rx[p], dev[p], hdxlink[p]) /\ In(p, <<>>)
           /\ UNCHANGED Session
        \/ Misplaced(p, m.pos, TRUE)
        \/ /\ rx[p].state = "DATA" /\ Settle(p, tx[p], r, dev[p], hdxlink[p])
           /\ In(p, IF Window(Other(p)) # 0 THEN <<x>> ELSE <<>>)
           /\ UNCHANGED <<saved, result, outcome, heard, session, faults>>
    BY <1>5, Zenon DEF ReceiveData, m
  <2>2. pos \in Int
    BY <1>1 DEF RxSet
  <2>3. x \in Packets /\ x.type \in ReplyTypes
    <3>1. "DATAACK" \in PacketTypes /\ "DATAACK" \in ReplyTypes
      BY DEF PacketTypes, ReplyTypes
    <3>2. QED
      BY <2>2, <3>1, PositionPacket
  <2> HIDE DEF r, x
  <2>4. CASE /\ rx[p].state = "DATA" /\ Settle(p, tx[p], r, dev[p], hdxlink[p])
             /\ In(p, IF Window(Other(p)) # 0 THEN <<x>> ELSE <<>>)
             /\ UNCHANGED <<saved, result, outcome, heard, session, faults>>
    <3>1. In(p, <<>>) \/ In(p, <<x>>)
      BY <2>4
    <3>2. outcome' = outcome /\ heard' = heard
      BY <2>4
    <3>3. QED
      BY <1>1, <2>3, <2>4, <3>1, <3>2, RepliesPlain
  <2>5. QED
    BY <1>1, <1>4, <2>1, <2>4, MisplacedPlain
<1>6. CASE WriteError(p)
  <2> DEFINE r == [rx[p] EXCEPT !.pos = Skip, !.retries = 1, !.timing = TRUE,
                                !.syncid = @ + 1]
             x == Rpos(Skip, r.syncid)
  <2>1. /\ rx[p].state = "DATA" /\ Settle(p, tx[p], r, dev[p], hdxlink[p])
        /\ In(p, <<x>>) /\ outcome' = outcome /\ heard' = heard
    BY <1>6 DEF WriteError
  <2>2. x \in Packets /\ x.type \in ReplyTypes
    <3>1. r.syncid \in Nat
      BY <1>1 DEF RxSet
    <3> HIDE DEF r
    <3>2. QED
      BY <3>1, RposPacket DEF Skip, ReplyTypes
  <2> HIDE DEF r, x
  <2>3. QED
    BY <1>1, <2>1, <2>2, RepliesPlain
<1>7. CASE ReceiveEof(p)
  <2>1. ASSUME Acknowledges(p), rx[p].state # "DONE" PROVE Plain(p)
    <3>1. /\ Settle(p, tx[p], [rx[p] EXCEPT !.state = "FINFO"], dev[p], hdxlink[p])
          /\ In(p, <<Signal("EOFACK")>>) /\ outcome' = outcome /\ heard' = heard
      BY <2>1 DEF Acknowledges
    <3>2. QED
      BY <1>1, <1>3, <2>1, <3>1, RepliesPlain
  <2>2. \/ Acknowledges(p) /\ rx[p].state = "FINFO"
        \/ Acknowledges(p) /\ rx[p].state = "DATA"
        \/ Misplaced(p, m.pos, FALSE)
        \/ /\ Settle(p, tx[p], rx[p], dev[p], hdxlink[p]) /\ In(p, <<>>)
           /\ UNCHANGED Session
    BY <1>7, Zenon DEF ReceiveEof, m
  <2>3. QED
    BY <1>1, <1>4, <2>1, <2>2, MisplacedPlain
<1>8. QED
  BY <1>5, <1>6, <1>7

LEMMA UsersPlain ==
  ASSUME TypeInv, TypeInv', AllConclude, NEW p \in Peers,
         Chat(p) \/ UserAbort(p) \/ Lose(p)
  PROVE  Plain(p)
<1>1. /\ Concludes(p) /\ dev[p] \in DevSet /\ Other(p) \in Peers /\ Other(p) # p
      /\ Len(line[p]) \in Nat /\ Len(line[Other(p)]) \in Nat
      /\ line[p] \in Seq(Packets)
  BY OwnTypes, LineSeq DEF AllConclude, TypeInv
<1>2. {} \cap DeviceTypes = {} /\ "END" \notin {}
  OBVIOUS
<1>3. CASE Chat(p)
  <2>1. /\ tx' = tx /\ rx' = rx /\ line' = line /\ outcome' = outcome
        /\ heard' = heard /\ DevFree(p, tx[p], rx[p], dev[p])
        /\ dev' = [dev EXCEPT ![p] = DevSend(dev[p])]
    BY <1>3 DEF Chat, Session
  <2>2. dev'[p] = DevSend(dev[p]) /\ dev'[Other(p)] = dev[Other(p)]
    BY <1>1, <2>1 DEF TypeInv, DevTyped
  <2>3. dev[p].state = "DONE" /\ tx[p].state \notin Leaving
    BY <2>1 DEF DevFree, Leaving
  <2>4. ~Over(p)
    BY <1>3, <2>3 DEF Over, Chat, Running
  <2>5. Chats(dev[p], dev'[p]) /\ dev'[p].rxid = dev[p].rxid /\ dev'[p].timing = FALSE
    BY <1>1, <2>2, <2>3, DevSendFields DEF Chats
  <2>6. Goes(p)
    BY <1>1, <2>1, <2>3, <2>4, <2>5 DEF Goes, Concludes
  <2>7. Alone(p) /\ Lines(p, {})
    BY <1>1, <2>1, <2>2, FollowsItself DEF Alone, Lines
  <2>8. QED
    BY <1>2, <2>1, <2>5, <2>6, <2>7 DEF Plain
<1>4. CASE UserAbort(p)
  BY <1>4, AbortPlain DEF UserAbort
<1>5. CASE Lose(p)
  <2>1. /\ tx' = tx /\ rx' = rx /\ dev' = dev /\ outcome' = outcome
        /\ heard' = heard /\ line[p] # <<>>
        /\ line' = [line EXCEPT ![p] = Tail(line[p])]
    BY <1>5 DEF Lose, Session
  <2>2. line'[p] = Tail(line[p]) /\ line'[Other(p)] = line[Other(p)]
    BY <1>1, <2>1 DEF TypeInv, LineTyped
  <2>3. Lines(p, {})
    BY <1>1, <2>1, <2>2, FollowsTail, FollowsItself DEF Lines
  <2>4. Goes(p) /\ Alone(p) /\ Chats(dev[p], dev'[p])
    BY <1>1, <2>1 DEF Goes, Alone, Chats, Concludes, Over
  <2>5. QED
    BY <1>2, <2>1, <2>3, <2>4 DEF Plain
<1>6. QED
  BY <1>3, <1>4, <1>5

-----------------------------------------------------------------------------
(***************************************************************************)
(* Device packets and their acknowledgements are taken from the line.      *)
(***************************************************************************)
LEMMA ReceiveDevdataTalks ==
  ASSUME TypeInv, TypeInv', ChatHolds, AllConclude, NEW p \in Peers,
         ReceiveDevdata(p)
  PROVE  ChatHolds' /\ AllConclude'
<1> DEFINE q == Other(p)
           k == Head(line[p]).id
           x == Device("DEVDACK", k)
           d == [dev[p] EXCEPT !.rxid = k]
<1>1. /\ q \in Peers /\ q # p /\ Other(q) = p
      /\ dev[p] \in DevSet /\ dev[p].rxid \in Nat /\ line[p] \in Seq(Packets)
      /\ dev[q] \in DevSet /\ dev[q].rxid \in Nat /\ line[q] \in Seq(Packets)
      /\ heard[p] \in Seq(Nat)
  BY OtherFacts, ChatTypes
<1>2. /\ Running(p) /\ line[p] # <<>> /\ Head(line[p]).type = "DEVDATA"
      /\ Settle(p, tx[p], rx[p], d, hdxlink[p])
      /\ In(p, <<x>>) /\ outcome' = outcome
      /\ heard' = IF dev[p].rxid # k THEN [heard EXCEPT ![p] = Append(@, k)]
                                     ELSE heard
  BY DEF ReceiveDevdata, Arrived, IsNew
<1>3. /\ k \in Nat /\ tx[p] \in TxOf(p) /\ tx[p].state # "DONE"
  BY <1>2, HeadType, Itself DEF TypeInv, Running
<1>4. /\ d \in DevSet /\ d.rxid = k /\ d.state = dev[p].state /\ d.id = dev[p].id
      /\ d.timing = dev[p].timing
  BY <1>1, <1>3 DEF DevSet
<1>5. x \in Packets /\ x.type = "DEVDACK" /\ x.id = k
  BY <1>3, EmptySeq DEF Device, Packet, Packets, PacketTypes
<1>6. /\ heard'[q] = heard[q]
      /\ heard'[p] = IF dev[p].rxid # k THEN Append(heard[p], k) ELSE heard[p]
  BY <1>1, <1>2 DEF TypeInv, ReportTyped
<1> HIDE DEF d, x, k
<1>7. /\ Goes(p) /\ Alone(p)
      /\ Chats(d, dev'[p]) /\ dev'[p].rxid = d.rxid
  <2>1. dev[p].timing = TRUE => dev[p].state = "DACK"
    BY DEF AllConclude, Concludes
  <2>2. QED
    BY <1>2, <1>3, <1>4, <2>1, SettleGoes
<1>8. Chats(dev[p], dev'[p]) /\ Chats(dev[q], dev[q]) /\ dev'[q] = dev[q]
  BY <1>1, <1>4, <1>7 DEF Chats, Alone
<1>9. <<x>> \in Seq(Packets) /\ \A i \in 1 .. Len(<<x>>) : <<x>>[i].type \in {"DEVDACK"}
  BY <1>5, OneInSeq
<1>10. /\ line'[p] = Tail(line[p]) /\ line'[q] = Sent(p, <<x>>)
       /\ Follows(line'[p], line[p], {})
       /\ Follows(line'[q], line[q], {"DEVDACK"})
  BY <1>2, <1>9, InFollows DEF TypeInv
<1>11. Len(line'[p]) \in Nat /\ Len(line'[q]) \in Nat
  BY <1>1, LenProperties DEF TypeInv, LineTyped
<1>12. AllConclude'
  <2>1. Lines(p, {"DEVDACK"})
    BY <1>10 DEF Lines
  <2>2. QED
    BY <1>7, <2>1, GoesConclude
<1>13. /\ Hears(dev[p], dev[q].rxid, heard[q], line[q], line[p])
       /\ Hears(dev[q], dev[p].rxid, heard[p], line[p], line[q])
  BY ChatBoth
<1>14. Hears(dev'[p], dev[q].rxid, heard[q], line'[q], line'[p])
  <2>1. "DEVDATA" \notin {"DEVDACK"} /\ "DEVDACK" \notin {}
    OBVIOUS
  <2>2. QED
    BY <1>1, <1>8, <1>10, <1>11, <1>13, <2>1, HearsOn
<1>15. Hears(dev[q], k, heard'[p], Tail(line[p]), line'[q])
  <2>1. Adds(line'[q], line[q], x)
    BY <1>5, <1>10, SentAdds DEF TypeInv
  <2>2. k = Head(line[p]).id
    BY DEF k
  <2>3. QED
    BY <1>1, <1>2, <1>5, <1>6, <1>13, <2>1, <2>2, HearsNext
<1>16. QED
  BY <1>4, <1>6, <1>7, <1>8, <1>10, <1>12, <1>14, <1>15, ChatBoth

LEMMA ReceiveDevdackTalks ==
  ASSUME TypeInv, TypeInv', ChatHolds, AllConclude, NEW p \in Peers,
         ReceiveDevdack(p)
  PROVE  ChatHolds' /\ AllConclude'
<1> DEFINE q == Other(p)
           m == Head(line[p])
           acked == [dev[p] EXCEPT !.state = "DONE", !.timing = FALSE]
           d == IF dev[p].state # "DONE" /\ dev[p].id = m.id THEN acked ELSE dev[p]
<1>1. /\ q \in Peers /\ q # p /\ Other(q) = p
      /\ dev[p] \in DevSet /\ dev[p].rxid \in Nat /\ line[p] \in Seq(Packets)
      /\ dev[q] \in DevSet /\ dev[q].rxid \in Nat /\ line[q] \in Seq(Packets)
  BY OtherFacts, ChatTypes
<1>2. /\ Running(p) /\ line[p] # <<>> /\ m.type = "DEVDACK"
      /\ Settle(p, tx[p], rx[p], d, hdxlink[p])
      /\ In(p, <<>>) /\ outcome' = outcome /\ heard' = heard
  BY DEF ReceiveDevdack, Arrived, Session
<1>3. /\ tx[p] \in TxOf(p) /\ tx[p].state # "DONE"
      /\ dev[p].timing = TRUE => dev[p].state = "DACK"
  BY <1>2, Itself DEF Running, AllConclude, Concludes
<1>4. /\ acked \in DevSet /\ acked.state = "DONE" /\ acked.timing = FALSE
      /\ acked.id = dev[p].id /\ acked.rxid = dev[p].rxid
  BY <1>1 DEF DevSet
<1>5. \/ d = dev[p]
      \/ d = acked /\ dev[p].id = m.id
  OBVIOUS
<1> HIDE DEF d, acked
<1>6. /\ d \in DevSet /\ d.id = dev[p].id /\ d.rxid = dev[p].rxid
      /\ dev[p].state = "DONE" => d.state = "DONE"
      /\ d.timing = TRUE => d.state = "DACK"
  BY <1>1, <1>3, <1>4, <1>5
<1>7. /\ Goes(p) /\ Alone(p)
      /\ Chats(d, dev'[p]) /\ dev'[p].rxid = d.rxid
  BY <1>2, <1>3, <1>6, SettleGoes
<1>8. <<>> \in Seq(Packets) /\ \A i \in 1 .. Len(<<>>) : <<>>[i].type \in {}
  BY EmptySeq
<1>9. /\ line'[p] = Tail(line[p])
      /\ Follows(line'[p], line[p], {}) /\ Follows(line'[q], line[q], {})
  BY <1>2, <1>8, InFollows DEF TypeInv
<1>10. Len(line'[p]) \in Nat /\ Len(line'[q]) \in Nat
  BY <1>1, LenProperties DEF TypeInv, LineTyped
<1>11. AllConclude'
  <2>1. Lines(p, {})
    BY <1>9 DEF Lines
  <2>2. QED
    BY <1>7, <2>1, GoesConclude
<1>12. /\ Hears(dev[p], dev[q].rxid, heard[q], line[q], line[p])
       /\ Hears(dev[q], dev[p].rxid, heard[p], line[p], line[q])
  BY ChatBoth
<1>13. Hears(d, dev[q].rxid, heard[q], line[q], line[p])
  <2>1. CASE d = dev[p]
    BY <1>12, <2>1
  <2>2. CASE dev[p].id = m.id
    <3>1. 1 \in 1 .. Len(line[p]) /\ line[p][1] = m
      BY <1>2, TailFacts DEF TypeInv
    <3> HIDE DEF m
    <3>2. line[p][1].type = "DEVDACK" /\ line[p][1].id = dev[p].id
      BY <1>2, <2>2, <3>1
    <3>3. QED
      BY <1>1, <1>6, <1>12, <3>1, <3>2, HearsAcked
  <2>3. QED
    BY <1>5, <2>1, <2>2
<1>14. Hears(dev'[p], dev[q].rxid, heard[q], line'[q], line'[p])
  <2>1. "DEVDATA" \notin {} /\ "DEVDACK" \notin {}
    OBVIOUS
  <2>2. QED
    BY <1>1, <1>6, <1>7, <1>9, <1>10, <1>13, <2>1, HearsOn
<1>15. Hears(dev[q], dev[p].rxid, heard[p], line'[p], line'[q])
  <2>1. Chats(dev[q], dev[q]) /\ "DEVDATA" \notin {} /\ "DEVDACK" \notin {}
    BY <1>1 DEF Chats
  <2>2. QED
    BY <1>1, <1>9, <1>10, <1>12, <2>1, HearsOn
<1>16. dev'[q] = dev[q] /\ dev'[p].rxid = dev[p].rxid /\ heard' = heard
  BY <1>2, <1>6, <1>7 DEF Alone
<1>17. QED
  BY <1>11, <1>14, <1>15, <1>16, ChatBoth

LEMMA FreshHears ==
  Hears(FreshDev, FreshDev.rxid, <<>>, <<>>, <<>>)
<1>1. /\ FreshDev.id = 0 /\ FreshDev.rxid = 0 /\ FreshDev.state = "DONE"
  BY DEF FreshDev
<1>2. Len(<<>>) = 0 /\ \A i \in DOMAIN <<>> : <<>>[i] = i
  BY EmptySeq
<1>3. Numbered(<<>>, 0, 0)
  BY <1>2 DEF Numbered
<1>4. \A i \in 1 .. Len(<<>>) : <<>>[i].type = "DEVDACK" => <<>>[i].id <= 0
  BY <1>2
<1>5. QED
  BY <1>1, <1>2, <1>3, <1>4 DEF Hears

LEMMA BegunStates ==
  ASSUME NEW p \in Peers
  PROVE  Begun(p, Idle, 1).state \in {"START", "FINFO"}
<1>1. \A s : IF s THEN "START" \in {"START", "FINFO"} ELSE "FINFO" \in {"START", "FINFO"}
  OBVIOUS
<1>2. QED
  BY DEF Begun, Idle

LEMMA TalkInit == TypeInv /\ Init => ChatHolds /\ AllConclude
<1> SUFFICES ASSUME TypeInv, Init PROVE ChatHolds /\ AllConclude
  OBVIOUS
<1>1. ASSUME NEW p \in Peers
      PROVE  /\ dev[p] = FreshDev /\ line[p] = <<>> /\ heard[p] = <<>>
             /\ outcome[p] = "none" /\ tx[p] = Begun(p, Idle, 1)
  BY <1>1 DEF Init
<1>2. ASSUME NEW p \in Peers
      PROVE  Hears(dev[p], dev[Other(p)].rxid, heard[Other(p)], line[Other(p)],
                   line[p])
  BY <1>1, <1>2, OtherFacts, FreshHears
<1>3. ASSUME NEW p \in Peers PROVE Concludes(p)
  <2>1. tx[p].state # "DONE" /\ tx[p].state \notin Leaving
    BY <1>1, <1>3, BegunStates DEF Leaving
  <2>2. None(line[p], {"END"})
    BY <1>1, <1>3, EmptySeq DEF None
  <2>3. dev[p].timing = FALSE
    BY <1>1, <1>3 DEF FreshDev
  <2>4. QED
    BY <1>1, <1>3, <2>1, <2>2, <2>3 DEF Concludes
<1>4. QED
  BY <1>2, <1>3 DEF ChatHolds, AllConclude

LEMMA TalkRenewed ==
  ASSUME TypeInv', NewSession
  PROVE  ChatHolds' /\ AllConclude'
<1>1. ASSUME NEW p \in Peers
      PROVE  /\ dev'[p] = FreshDev /\ line'[p] = <<>> /\ heard'[p] = <<>>
             /\ outcome'[p] = "none" /\ tx'[p] = Begun(p, Idle, 1)
  BY <1>1 DEF NewSession
<1>2. ASSUME NEW p \in Peers
      PROVE  Hears(dev'[p], dev'[Other(p)].rxid, heard'[Other(p)],
                   line'[Other(p)], line'[p])
  BY <1>1, <1>2, OtherFacts, FreshHears
<1>3. ASSUME NEW p \in Peers PROVE Concludes(p)'
  <2>1. tx'[p].state # "DONE" /\ tx'[p].state \notin Leaving
    BY <1>1, <1>3, BegunStates DEF Leaving
  <2>2. None(line'[p], {"END"})
    BY <1>1, <1>3, EmptySeq DEF None
  <2>3. dev'[p].timing = FALSE
    BY <1>1, <1>3 DEF FreshDev
  <2>4. QED
    BY <1>1, <1>3, <2>1, <2>2, <2>3 DEF Concludes
<1>4. QED
  BY <1>2, <1>3 DEF ChatHolds, AllConclude

LEMMA TalkSame ==
  ASSUME TypeInv, ChatHolds, AllConclude, UNCHANGED vars
  PROVE  ChatHolds' /\ AllConclude'
<1>1. tx' = tx /\ rx' = rx /\ dev' = dev /\ line' = line /\ outcome' = outcome
      /\ heard' = heard
  BY DEF vars
<1>2. ChatHolds'
  BY <1>1 DEF ChatHolds
<1>3. AllConclude'
  BY <1>1 DEF AllConclude, Concludes, Over
<1>4. QED
  BY <1>2, <1>3

LEMMA TalkStep == TalkInv /\ [Next]_vars => TalkInv'
<1> SUFFICES ASSUME TypeInv, ChatHolds, AllConclude, [Next]_vars
             PROVE  TalkInv'
  BY DEF TalkInv
<1>1. TypeInv'
  BY TypeStep
<1>2. CASE UNCHANGED vars
  BY <1>1, <1>2, TalkSame DEF TalkInv
<1>3. CASE NewSession
  BY <1>1, <1>3, TalkRenewed DEF TalkInv
<1>4. ASSUME NEW p \in Peers, Plain(p) PROVE TalkInv'
  BY <1>1, <1>4, PlainStep DEF TalkInv
<1>5. ASSUME NEW p \in Peers, Transmit(p) \/ ReadError(p) PROVE TalkInv'
  BY <1>1, <1>5, TransmitTalks DEF TalkInv
<1>6. ASSUME NEW p \in Peers, Timers(p) PROVE TalkInv'
  BY <1>1, <1>4, <1>6, TimersPlain
<1>7. ASSUME NEW p \in Peers, Receive(p) PROVE TalkInv'
  <2>1. CASE ReceiveDevdata(p)
    BY <1>1, <1>7, <2>1, ReceiveDevdataTalks DEF TalkInv
  <2>2. CASE ReceiveDevdack(p)
    BY <1>1, <1>7, <2>2, ReceiveDevdackTalks DEF TalkInv
  <2>3. CASE ReceiveStart(p) \/ ReceiveIdle(p) \/ ReceiveInit(p)
               \/ ReceiveInitack(p) \/ ReceiveCancel(p)
    BY <1>1, <1>4, <1>7, <2>3, SessionPlain
  <2>4. CASE ReceiveEnd(p)
    BY <1>1, <1>4, <1>7, <2>4, ReceiveEndPlain
  <2>5. CASE ReceiveFinfoack(p) \/ ReceiveEofack(p)
    BY <1>1, <1>4, <1>7, <2>5, ReceiveFinfoackPlain, ReceiveEofackPlain
  <2>6. CASE ReceiveDataack(p) \/ ReceiveRpos(p)
    BY <1>1, <1>4, <1>7, <2>6, AnsweredPlain
  <2>7. CASE ReceiveFinfo(p)
    BY <1>1, <1>4, <1>7, <2>7, ReceiveFinfoPlain
  <2>8. CASE ReceiveData(p) \/ ReceiveEof(p)
    BY <1>1, <1>4, <1>7, <2>8, ReceiverPlain
  <2>9. QED
    BY <1>7, <2>1, <2>2, <2>3, <2>4, <2>5, <2>6, <2>7, <2>8 DEF Receive
<1>8. ASSUME NEW p \in Peers, WriteError(p) PROVE TalkInv'
  BY <1>1, <1>4, <1>8, ReceiverPlain
<1>9. ASSUME NEW p \in Peers, Chat(p) \/ UserAbort(p) \/ Lose(p) PROVE TalkInv'
  BY <1>1, <1>4, <1>9, UsersPlain
<1>10. QED
  BY <1>2, <1>3, <1>5, <1>6, <1>7, <1>8, <1>9 DEF Next

\* The two programs agree on the device packets and on the end of the session,
\* whatever is lost or late: the strengthening of HeardOnce and of what
\* EndsTogether says of receivers and device packets.
THEOREM Talk == Spec => []TalkInv
<1>1. Init => TalkInv
  BY InitType, TalkInit DEF TalkInv
<1>2. TalkInv /\ [Next]_vars => TalkInv'
  BY TalkStep
<1>3. QED
  BY <1>1, <1>2, PTL DEF Spec

\* Device packets, which hydra_devsend() sends again until they are
\* acknowledged, are heard once each and in the order of their numbers.
THEOREM HeardInOrder == Spec => []HeardOnce
<1>1. TalkInv => HeardOnce
  <2>1. SUFFICES ASSUME TalkInv, NEW p \in Peers
                 PROVE  \A i \in DOMAIN heard[p] : heard[p][i] = i
    BY DEF HeardOnce
  <2>2. Hears(dev[Other(p)], dev[p].rxid, heard[p], line[p], line[Other(p)])
    BY <2>1, ChatBoth DEF TalkInv
  <2>3. QED
    BY <2>2 DEF Hears
<1>2. QED
  BY <1>1, Talk, PTL

\* Two receivers that are done have gone through both batches.
LEMMA OverEverywhere ==
  ASSUME BatchesProceed, NEW p \in Peers, Over(p), Over(Other(p)),
         NEW q \in Peers
  PROVE  Over(q) /\ Len(result[q]) = Len(Batch[q])
<1>1. Over(q) /\ Over(Other(q))
  BY OtherFacts
<1>2. Proceeds(q) /\ Len(Batch[q]) \in Nat
  BY BatchType DEF BatchesProceed
<1>3. QED
  BY <1>1, <1>2 DEF Over, Proceeds

LEMMA EndsNow == BatchesProceed /\ AllConclude => EndsTogether
<1>1. SUFFICES ASSUME BatchesProceed, AllConclude, NEW p \in Peers,
                      outcome[p] = "XFER_OK", NEW q \in Peers
               PROVE  /\ Len(result[q]) = Len(Batch[q])
                      /\ rx[q].state = "DONE" /\ dev[q].state = "DONE"
  BY DEF EndsTogether
<1>2. Over(p) /\ Over(Other(p))
  BY <1>1 DEF AllConclude, Concludes
<1>3. QED
  BY <1>1, <1>2, OverEverywhere DEF Over

\* A session that ends with XFER_OK for one program has gone through both
\* batches, and nothing of them or of the chat is left to do.
THEOREM EndTogether ==
  ASSUME OnTime, FirstReadable
  PROVE  Spec => []EndsTogether
<1>1. SafeInv /\ TalkInv => EndsTogether
  BY EndsNow DEF SafeInv, TalkInv
<1>2. QED
  BY <1>1, Safe, Talk, PTL

-----------------------------------------------------------------------------
(***************************************************************************)
(* The refinement of BatchTransfer.  A step of p does one of the following *)
(* to what the two users see.                                              *)
(***************************************************************************)
Shown == <<part, saved, result, outcome>>

Shuts(p) == Running(p) /\ Closes(p) /\ UNCHANGED <<result, outcome>>

Grows(p) == Writes(p) /\ UNCHANGED <<result, outcome>>

Keeps(p) == Stores(p) /\ UNCHANGED <<result, outcome>>

Quits(p) ==
  /\ Running(p)
  /\ \/ Ends(p, "XFER_ABORT")
     \/ Ends(p, "XFER_OK") /\ Arrived(p, "END") /\ tx[p].state \in Leaving

Does(p) ==
  \/ UNCHANGED Shown
  \/ Shuts(p) \/ Grows(p) \/ Keeps(p) \/ Quits(p) \/ Reports(p)

LEMMA AbortDoes ==
  ASSUME NEW p \in Peers, Running(p), Abort(p) \/ CarrierLost(p)
  PROVE  Does(p)
BY DEF Abort, CarrierLost, Does, Quits

LEMMA SessionDoes ==
  ASSUME NEW p \in Peers, UNCHANGED Session
  PROVE  Does(p)
BY DEF Session, Shown, Does

LEMMA MisplacedDoes ==
  ASSUME NEW p \in Peers, Running(p), NEW pos, NEW may, Misplaced(p, pos, may)
  PROVE  Does(p)
<1>1. UNCHANGED Session \/ Abort(p)
  BY DEF Misplaced
<1>2. QED
  BY <1>1, AbortDoes, SessionDoes

LEMMA TransmitDoes ==
  ASSUME NEW p \in Peers, Transmit(p) \/ ReadError(p)
  PROVE  Does(p)
<1>1. ASSUME NEW t, NEW s, Send(p, t, s) PROVE UNCHANGED Session
  BY <1>1 DEF Send
<1>2. \E t, s : Send(p, t, s)
  BY Zenon DEF Transmit, SendStart, SendInit, SendFinfo, SendData, SendEof,
     SendEnd, SendDevice, ReadError
<1>3. QED
  BY <1>1, <1>2, SessionDoes

LEMMA TimersDoes ==
  ASSUME NEW p \in Peers, Timers(p)
  PROVE  Does(p)
<1>1. UNCHANGED Session \/ (Running(p) /\ (Abort(p) \/ CarrierLost(p)))
  BY DEF Timers, StillHere, Retry, DevRetry, BrainDead, Expires
<1>2. QED
  BY <1>1, AbortDoes, SessionDoes

LEMMA ReceiverDoes ==
  ASSUME NEW p \in Peers, ReceiveData(p) \/ WriteError(p) \/ ReceiveEof(p)
  PROVE  Does(p)
<1>1. CASE ReceiveData(p)
  <2>1. Running(p)
    BY <1>1, Zenon DEF ReceiveData, Arrived
  <2>2. \/ UNCHANGED Session
        \/ Misplaced(p, Head(line[p]).pos, TRUE)
        \/ Grows(p)
    BY <1>1, Zenon DEF ReceiveData, Writes, Grows
  <2>3. QED
    BY <2>1, <2>2, MisplacedDoes, SessionDoes DEF Does
<1>2. CASE WriteError(p)
  BY <1>2 DEF WriteError, Arrived, Does, Shuts, Closes
<1>3. CASE ReceiveEof(p)
  <2>1. /\ Running(p)
        /\ \/ UNCHANGED Session
           \/ Acknowledges(p) /\ UNCHANGED <<part, saved>>
           \/ Acknowledges(p) /\ Closes(p)
           \/ Acknowledges(p) /\ Stores(p)
           \/ \E n : Misplaced(p, n, FALSE)
    BY <1>3 DEF ReceiveEof, Arrived, Closes, Stores, Puts, Saves
  <2>2. Acknowledges(p) => UNCHANGED <<result, outcome>>
    BY DEF Acknowledges
  <2>3. QED
    BY <2>1, <2>2, MisplacedDoes, SessionDoes DEF Does, Shown, Shuts, Keeps
<1>4. QED
  BY <1>1, <1>2, <1>3

LEMMA ReceiveDoes ==
  ASSUME TypeInv, FilesHold, BatchesProceed, NEW p \in Peers, Receive(p)
  PROVE  Does(p)
<1>1. CASE \/ ReceiveStart(p) \/ ReceiveIdle(p) \/ ReceiveInit(p)
           \/ ReceiveInitack(p) \/ ReceiveCancel(p) \/ ReceiveDevdack(p)
           \/ ReceiveDataack(p) \/ ReceiveRpos(p) \/ ReceiveFinfo(p)
  <2>1. UNCHANGED Session \/ (Running(p) /\ Abort(p))
    BY <1>1 DEF ReceiveStart, ReceiveIdle, ReceiveInit, ReceiveInitack,
       ReceiveCancel, ReceiveDevdack, ReceiveDataack, ReceiveRpos, ReceiveFinfo,
       Answers, Arrived
  <2>2. QED
    BY <2>1, AbortDoes, SessionDoes
<1>2. CASE ReceiveEnd(p)
  <2>1. UNCHANGED Session \/ Quits(p)
    BY <1>2 DEF ReceiveEnd, Arrived, Quits, Leaving
  <2>2. QED
    BY <2>1, SessionDoes DEF Does
<1>3. CASE ReceiveDevdata(p)
  BY <1>3 DEF ReceiveDevdata, Does, Shown
<1>4. CASE ReceiveFinfoack(p) \/ ReceiveEofack(p)
  <2>1. UNCHANGED <<part, saved, outcome>>
    BY <1>4 DEF ReceiveFinfoack, ReceiveEofack, Returns, Session
  <2>2. Stays(p) \/ Reports(p)
    BY <1>4, ReceiveFinfoackCases, ReceiveEofackCases
  <2>3. QED
    BY <2>1, <2>2 DEF Stays, Does, Shown
<1>5. QED
  BY <1>1, <1>2, <1>3, <1>4, ReceiverDoes DEF Receive

LEMMA StepDoes ==
  ASSUME TypeInv, FilesHold, BatchesProceed, [Next]_vars
  PROVE  UNCHANGED Shown \/ NewSession \/ \E p \in Peers : Does(p)
<1>1. UNCHANGED vars => UNCHANGED Shown
  BY DEF vars, Shown
<1>2. ASSUME NEW p \in Peers, Chat(p) \/ UserAbort(p) \/ Lose(p) PROVE Does(p)
  <2>1. UNCHANGED Session \/ (Running(p) /\ (Abort(p) \/ CarrierLost(p)))
    BY <1>2 DEF Chat, UserAbort, Lose, Session
  <2>2. QED
    BY <2>1, AbortDoes, SessionDoes
<1>3. QED
  BY <1>1, <1>2, TransmitDoes, TimersDoes, ReceiverDoes, ReceiveDoes DEF Next

\* part lists the disks of the two programs and nothing else.
Listed == part = [p \in Peers |-> part[p]]

LEMMA DoesListed ==
  ASSUME TypeInv, Listed, NEW p \in Peers, Does(p)
  PROVE  Listed'
<1>1. ASSUME NEW f, part' = [part EXCEPT ![p] = f] PROVE Listed'
  BY <1>1 DEF Listed, TypeInv, DiskTyped
<1>2. CASE part' = part
  BY <1>2 DEF Listed
<1>3. CASE part' = Closed(p)
  BY <1>1, <1>2, <1>3 DEF Closed
<1>4. CASE Writes(p) \/ Stores(p)
  BY <1>1, <1>4 DEF Writes, Stores, Puts
<1>5. QED
  BY <1>2, <1>3, <1>4
     DEF Does, Shown, Shuts, Closes, Grows, Keeps, Quits, Ends, Reports, Returns

LEMMA NoneYet ==
  ASSUME AllConclude, NEW p \in Peers, Running(p)
  PROVE  outcome[p] = "none"
BY DEF AllConclude, Concludes, Running

LEMMA ClosedDiscards ==
  ASSUME TypeInv, Listed, NEW p \in Peers, part' = Closed(p)
  PROVE  BT!Discards(p)
<1> DEFINE k == rx[p].file
           s == part[p][k]
<1>1. CASE ~Receiving(p)
  BY <1>1 DEF Closed, BT!Discards
<1>2. CASE Receiving(p)
  <2>1. k \in FilesOf(Other(p)) /\ k \in BT!FilesOf(BT!Other(p))
    BY <1>2, OwnTypes DEF RxOf, Receiving, FilesOf, Other, BT!FilesOf, BT!Other
  <2>2. part' = [part EXCEPT ![p][k] = Kept(s)]
    BY <1>2 DEF Closed
  <2>3. CASE Kept(s) = <<>>
    BY <2>1, <2>2, <2>3 DEF BT!Discards
  <2>4. CASE Kept(s) = s
    <3>1. part[p] \in [FilesOf(Other(p)) -> Seq(Units)] /\ DOMAIN part = Peers
      BY DEF TypeInv, DiskTyped
    <3>2. [part[p] EXCEPT ![k] = s] = part[p]
      BY <2>1, <3>1
    <3>3. part' = [part EXCEPT ![p] = part[p]]
      BY <2>2, <2>4, <3>2
    <3>4. [part EXCEPT ![p] = part[p]] = part
      BY <3>1 DEF Listed
    <3>5. QED
      BY <3>3, <3>4 DEF BT!Discards
  <2>5. QED
    BY <2>3, <2>4 DEF Kept
<1>3. QED
  BY <1>1, <1>2

LEMMA ShutsRefines ==
  ASSUME TypeInv, AllConclude, Listed, NEW p \in Peers, Shuts(p)
  PROVE  BT!Discard(p)
<1>1. /\ Running(p) /\ part' = Closed(p)
      /\ UNCHANGED <<saved, result, outcome>>
  BY DEF Shuts, Closes
<1>2. QED
  BY <1>1, NoneYet, ClosedDiscards DEF BT!Discard

\* An END that arrives says that the other has nothing left to do.
LEMMA QuitsRefines ==
  ASSUME TypeInv, BatchesProceed, AllConclude, Listed, NEW p \in Peers, Quits(p)
  PROVE  \E how \in {"XFER_OK", "XFER_ABORT"} : BT!End(p, how)
<1>1. outcome[p] = "none"
  BY NoneYet DEF Quits
<1>2. ASSUME NEW how \in {"XFER_OK", "XFER_ABORT"}, Ends(p, how),
             how = "XFER_OK" => \A q \in Peers : Len(result[q]) = Len(Batch[q])
      PROVE  BT!End(p, how)
  <2>1. /\ part' = Closed(p) /\ outcome' = [outcome EXCEPT ![p] = how]
        /\ UNCHANGED <<saved, result>>
    BY <1>2 DEF Ends
  <2>2. QED
    BY <1>1, <1>2, <2>1, ClosedDiscards DEF BT!End
<1>3. CASE Ends(p, "XFER_ABORT")
  BY <1>2, <1>3
<1>4. CASE Ends(p, "XFER_OK") /\ Arrived(p, "END") /\ tx[p].state \in Leaving
  <2>1. line[p] # <<>> /\ Head(line[p]).type = "END"
    BY <1>4 DEF Arrived
  <2>2. 1 \in 1 .. Len(line[p]) /\ line[p][1] = Head(line[p])
    BY <2>1, TailFacts DEF TypeInv
  <2>3. ~None(line[p], {"END"})
    BY <2>1, <2>2 DEF None
  <2>4. Over(p) /\ Over(Other(p))
    BY <1>4, <2>3 DEF AllConclude, Concludes
  <2>5. \A q \in Peers : Len(result[q]) = Len(Batch[q])
    BY <2>4, OverEverywhere
  <2>6. QED
    BY <1>2, <1>4, <2>5
<1>5. QED
  BY <1>3, <1>4 DEF Quits

LEMMA PrefixElements ==
  ASSUME NEW S, NEW s \in Seq(S), NEW t \in Seq(S), Len(s) <= Len(t),
         \A i \in 1 .. Len(s) : t[i] = s[i]
  PROVE  IsPrefix(s, t)
<1>1. Len(s) \in Nat /\ Len(t) \in Nat
  BY LenProperties
<1>2. \A i \in 1 .. Len(s) : t[i] \in S
  BY ElementOfSeq
<1>3. /\ SubSeq(t, 1, Len(s)) \in Seq(S) /\ Len(SubSeq(t, 1, Len(s))) = Len(s)
      /\ \A i \in 1 .. Len(s) : SubSeq(t, 1, Len(s))[i] = t[i]
  <2> DEFINE n == Len(s)
  <2>1. n \in Nat /\ \A i \in 1 .. n : t[i] \in S
    BY <1>1, <1>2
  <2> HIDE DEF n
  <2>2. /\ SubSeq(t, 1, n) \in Seq(S)
        /\ Len(SubSeq(t, 1, n)) = IF 1 <= n THEN n - 1 + 1 ELSE 0
        /\ \A i \in 1 .. n - 1 + 1 : SubSeq(t, 1, n)[i] = t[1 + i - 1]
    BY <2>1, SubSeqProperties
  <2>3. QED
    BY <2>1, <2>2 DEF n
<1>4. SubSeq(t, 1, Len(s)) = s
  BY <1>1, <1>3, SeqEqual
<1>5. SubSeq(s, 1, Len(s)) = s
  BY SubSeqFull
<1>6. QED
  BY <1>4, <1>5 DEF IsPrefix

\* BatchTransfer and Hydra mean the same files and prefixes.
LEMMA SameFilesOf ==
  ASSUME NEW p \in Peers
  PROVE  /\ BT!Other(p) = Other(p)
         /\ BT!FilesOf(BT!Other(p)) = FilesOf(Other(p))
BY DEF FilesOf, Other, BT!FilesOf, BT!Other

LEMMA SamePrefix ==
  ASSUME NEW s, NEW t
  PROVE  /\ IsPrefix(s, t) => BT!IsPrefix(s, t)
         /\ IsPrefix(s, t) /\ s # t => BT!IsStrictPrefix(s, t)
BY DEF IsPrefix, BT!IsPrefix, BT!IsStrictPrefix

LEMMA GrowsRefines ==
  ASSUME TypeInv, FilesHold, PartIsPrefix, AllConclude, Listed, NEW p \in Peers,
         Grows(p)
  PROVE  BT!Discard(p) \/ \E k \in BT!FilesOf(BT!Other(p)) : BT!Grow(p, k)
<1> DEFINE q == Other(p)
           k == rx[p].file
           old == part[p][k]
           d == Head(line[p]).data
           new == old \o d
<1>1. /\ Running(p) /\ line[p] # <<>> /\ rx[p].state = "DATA" /\ Writes(p)
      /\ part' = [part EXCEPT ![p][k] = new]
      /\ UNCHANGED <<saved, result, outcome>>
  BY DEF Grows, Writes, Arrived
<1>2. outcome[p] = "none"
  BY <1>1, NoneYet
<1>3. /\ k \in FilesOf(q) /\ k \in BT!FilesOf(BT!Other(p))
      /\ DOMAIN part = Peers /\ part[p] \in [FilesOf(q) -> Seq(Units)]
      /\ old \in Seq(Units) /\ d \in Seq(Units)
  <2>1. k \in FilesOf(q)
    BY <1>1, OwnTypes DEF RxOf
  <2>2. DOMAIN part = Peers /\ part[p] \in [FilesOf(q) -> Seq(Units)]
    BY DEF TypeInv, DiskTyped
  <2>3. d \in Seq(Units)
    BY <1>1, HeadType DEF TypeInv
  <2>4. QED
    BY <2>1, <2>2, <2>3, SameFilesOf
<1>4. part'[p][k] = new
  BY <1>1, <1>3
<1>5. IsPrefix(new, Batch[q][k])
  BY <1>1, <1>3, <1>4, WritesPrefix DEF PartIsPrefix
<1>6. IsPrefix(old, new)
  <2> HIDE DEF old, d
  <2>1. /\ new \in Seq(Units) /\ Len(new) = Len(old) + Len(d)
        /\ Len(old) \in Nat /\ Len(d) \in Nat
        /\ \A i \in 1 .. Len(old) + Len(d) :
             new[i] = IF i <= Len(old) THEN old[i] ELSE d[i - Len(old)]
    BY <1>3, ConcatProperties, LenProperties
  <2> HIDE DEF new
  <2>2. Len(old) <= Len(new) /\ \A i \in 1 .. Len(old) : new[i] = old[i]
    BY <2>1
  <2>3. QED
    BY <1>3, <2>1, <2>2, PrefixElements
<1>7. CASE old = new
  <2>1. [part[p] EXCEPT ![k] = old] = part[p]
    BY <1>3
  <2>2. part' = [part EXCEPT ![p] = part[p]]
    BY <1>1, <1>7, <2>1
  <2>3. [part EXCEPT ![p] = part[p]] = part
    BY <1>3 DEF Listed
  <2>4. QED
    BY <1>1, <1>2, <2>2, <2>3 DEF BT!Discard, BT!Discards
<1>8. CASE old # new
  <2>1. part' = [part EXCEPT ![p][k] = part'[p][k]]
    BY <1>1, <1>4
  <2>2. BT!IsStrictPrefix(part[p][k], part'[p][k])
    BY <1>4, <1>6, <1>8, SamePrefix
  <2>3. BT!IsPrefix(part'[p][k], Batch[BT!Other(p)][k])
    BY <1>4, <1>5, SameFilesOf, SamePrefix
  <2>4. BT!Grow(p, k)
    BY <1>1, <1>2, <2>1, <2>2, <2>3, Zenon DEF BT!Grow
  <2>5. QED
    BY <1>3, <2>4
<1>9. QED
  BY <1>7, <1>8

LEMMA KeepsRefines ==
  ASSUME TypeInv, FilesHold, PartIsPrefix, AllConclude, NEW p \in Peers, Keeps(p)
  PROVE  \E k \in BT!FilesOf(BT!Other(p)) : BT!Save(p, k)
<1> DEFINE k == rx[p].file
<1>1. Stores(p) /\ Running(p) /\ UNCHANGED <<result, outcome>>
  BY DEF Keeps, Stores, Arrived
<1>2. k \in FilesOf(Other(p)) /\ part[p][k] = Batch[Other(p)][k]
  BY <1>1, StoresWhole
<1>3. /\ part' = [part EXCEPT ![p][k] = <<>>]
      /\ saved' = [saved EXCEPT ![p][k] = Append(@, part[p][k])]
  BY <1>1 DEF Stores, Puts, Saves
<1>4. outcome[p] = "none"
  BY <1>1, NoneYet
<1>5. k \in BT!FilesOf(BT!Other(p)) /\ BT!Other(p) = Other(p)
  BY <1>2 DEF FilesOf, Other, BT!FilesOf, BT!Other
<1>6. QED
  BY <1>1, <1>2, <1>3, <1>4, <1>5 DEF BT!Save

LEMMA ReportsRefines ==
  ASSUME TypeInv, BatchesProceed, AllConclude, NoFalseOk', NEW p \in Peers,
         Reports(p)
  PROVE  BT!Report(p)
<1>1. PICK x \in {"OK", "SKIP"} : Returns(p, x)
  BY DEF Reports
<1>2. /\ Running(p) /\ tx[p].file \in FilesOf(p) /\ Len(result[p]) = tx[p].file - 1
      /\ Len(Batch[p]) \in Nat /\ tx[p].file \in 1 .. Len(Batch[p])
  BY BatchType DEF Reports, BatchesProceed, Proceeds, FilesOf
<1>3. /\ tx'[p].file \in (tx[p].file + 1) .. (Len(Batch[p]) + 1)
      /\ Len(result'[p]) = tx'[p].file - 1
      /\ result'[p] \in Seq({"OK", "SKIP"})
      /\ \A i \in 1 .. Len(result[p]) : result'[p][i] = result[p][i]
  BY <1>1, <1>2, ReportsTx
<1>4. result[p] \in Seq({"OK", "SKIP"})
  BY DEF TypeInv, ReportTyped
<1>5. Len(result[p]) < Len(result'[p]) /\ Len(result'[p]) <= Len(Batch[p])
  BY <1>2, <1>3
<1>6. BT!IsStrictPrefix(result[p], result'[p])
  <2>1. IsPrefix(result[p], result'[p])
    <3> DEFINE s == result[p]
               t == result'[p]
    <3>1. /\ s \in Seq({"OK", "SKIP"}) /\ t \in Seq({"OK", "SKIP"})
          /\ Len(s) < Len(t) /\ \A i \in 1 .. Len(s) : t[i] = s[i]
      BY <1>3, <1>4, <1>5
    <3> HIDE DEF s, t
    <3>2. Len(s) <= Len(t)
      BY <3>1, LenProperties
    <3>3. IsPrefix(s, t)
      BY <3>1, <3>2, PrefixElements
    <3>4. QED
      BY <3>3 DEF s, t
  <2>2. result[p] # result'[p]
    BY <1>2, <1>3
  <2>3. QED
    BY <2>1, <2>2, SamePrefix
<1>7. /\ result' = [result EXCEPT ![p] = result'[p]]
      /\ UNCHANGED <<part, saved, outcome>>
  <2> DEFINE s == result[p] \o <<x>> \o Skipped(p, tx[p].file + 1)
  <2>1. result' = [result EXCEPT ![p] = s] /\ UNCHANGED <<part, saved, outcome>>
    BY <1>1 DEF Returns
  <2> HIDE DEF s
  <2>2. result'[p] = s
    BY <2>1 DEF TypeInv, ReportTyped
  <2>3. QED
    BY <2>1, <2>2
<1>8. \A k \in DOMAIN result'[p] :
        result'[p][k] = "OK" => saved[BT!Other(p)][k] # <<>>
  BY <1>7 DEF NoFalseOk, Other, BT!Other
<1>9. outcome[p] = "none"
  BY <1>2, NoneYet
<1>10. QED
  BY <1>5, <1>6, <1>7, <1>8, <1>9, Zenon DEF BT!Report

\* A batch begins with nothing reported but files that cannot be opened.
LEMMA SkippedFirst ==
  ASSUME NEW p \in Peers
  PROVE  BT!AllSkipped(Skipped(p, 1))
<1>1. 1 \in 1 .. (Len(Batch[p]) + 1)
  BY BatchType
<1>2. QED
  BY <1>1, OpenableFacts DEF BT!AllSkipped

LEMMA RenewsRefines ==
  ASSUME AllConclude, NewSession
  PROVE  BT!NewSession
<1>1. \A p \in Peers : outcome[p] # "none"
  BY DEF NewSession, AllConclude, Concludes, Running
<1>2. /\ outcome' = [p \in Peers |-> "none"] /\ UNCHANGED <<part, saved>>
      /\ result' = [p \in Peers |-> Skipped(p, 1)]
  BY DEF NewSession
<1>3. DOMAIN result' = Peers /\ \A p \in Peers : BT!AllSkipped(result'[p])
  BY <1>2, SkippedFirst
<1>4. QED
  BY <1>1, <1>2, <1>3 DEF BT!NewSession

LEMMA BeginRefines == Init => BT!Init
<1>1. SUFFICES ASSUME Init PROVE BT!Init
  OBVIOUS
<1>2. /\ part = [p \in Peers |-> NoFiles(p)] /\ saved = [p \in Peers |-> NoFiles(p)]
      /\ result = [p \in Peers |-> Skipped(p, 1)]
      /\ outcome = [p \in Peers |-> "none"]
  BY <1>1 DEF Init
<1>3. \A p \in Peers : NoFiles(p) = [k \in BT!FilesOf(BT!Other(p)) |-> <<>>]
  BY DEF NoFiles, FilesOf, Other, BT!FilesOf, BT!Other
<1>4. \A p \in Peers : BT!AllSkipped(result[p])
  BY <1>2, SkippedFirst
<1>5. QED
  BY <1>2, <1>3, <1>4 DEF BT!Init

\* The invariant of the refinement.
RefinesInv == SafeInv /\ TalkInv /\ Listed

LEMMA DoesRefines ==
  ASSUME SafeInv, SafeInv', AllConclude, Listed, NEW p \in Peers, Does(p)
  PROVE  [BT!Next]_(BT!vars)
<1>1. /\ TypeInv /\ FilesHold /\ BatchesProceed /\ PartIsPrefix /\ NoFalseOk'
  BY DEF SafeInv
<1>2. CASE UNCHANGED Shown
  BY <1>2 DEF Shown, BT!vars
<1>3. CASE Shuts(p)
  BY <1>1, <1>3, ShutsRefines DEF BT!Next
<1>4. CASE Grows(p)
  BY <1>1, <1>4, GrowsRefines DEF BT!Next
<1>5. CASE Keeps(p)
  BY <1>1, <1>5, KeepsRefines DEF BT!Next
<1>6. CASE Quits(p)
  BY <1>1, <1>6, QuitsRefines DEF BT!Next
<1>7. CASE Reports(p)
  BY <1>1, <1>7, ReportsRefines DEF BT!Next
<1>8. QED
  BY <1>2, <1>3, <1>4, <1>5, <1>6, <1>7 DEF Does

LEMMA ListedStep ==
  ASSUME SafeInv, Listed, [Next]_vars
  PROVE  Listed'
<1>1. TypeInv /\ FilesHold /\ BatchesProceed
  BY DEF SafeInv
<1>2. UNCHANGED part => Listed'
  BY DEF Listed
<1>3. UNCHANGED Shown \/ NewSession => UNCHANGED part
  BY DEF Shown, NewSession
<1>4. QED
  BY <1>1, <1>2, <1>3, StepDoes, DoesListed

\* Whatever is lost and whoever gives up, the users see what BatchTransfer
\* promises: parts that grow along their files, whole files saved, each OK
\* after that, and an end for both batches.
THEOREM Refinement ==
  ASSUME OnTime, FirstReadable
  PROVE  Spec => RefinesBatchTransfer
<1>1. Init => BT!Init /\ Listed
  <2>1. Init => Listed
    BY DEF Init, Listed
  <2>2. QED
    BY <2>1, BeginRefines
<1>2. SafeInv /\ Listed /\ [Next]_vars => Listed'
  BY ListedStep
<1>3. RefinesInv /\ RefinesInv' /\ [Next]_vars => [BT!Next]_(BT!vars)
  <2>1. SUFFICES ASSUME RefinesInv, RefinesInv', [Next]_vars
                 PROVE  [BT!Next]_(BT!vars)
    OBVIOUS
  <2>2. /\ SafeInv /\ SafeInv' /\ AllConclude /\ Listed
        /\ TypeInv /\ FilesHold /\ BatchesProceed
    BY <2>1 DEF RefinesInv, TalkInv, SafeInv
  <2>3. CASE UNCHANGED Shown
    BY <2>3 DEF Shown, BT!vars
  <2>4. CASE NewSession
    BY <2>2, <2>4, RenewsRefines DEF BT!Next
  <2>5. ASSUME NEW p \in Peers, Does(p) PROVE [BT!Next]_(BT!vars)
    BY <2>2, <2>5, DoesRefines
  <2>6. QED
    BY <2>1, <2>2, <2>3, <2>4, <2>5, StepDoes
<1>4. Spec => []Listed
  BY <1>1, <1>2, Safe, PTL DEF Spec
<1>5. QED
  BY <1>1, <1>3, <1>4, Safe, Talk, PTL DEF Spec, RefinesInv, RefinesBatchTransfer, BT!Spec

-----------------------------------------------------------------------------
(***************************************************************************)
(* Requests to rewind.  What the receiver asks of the transmitter of a     *)
(* file, for one direction: t is the transmitter, r the other's receiver,  *)
(* R the line back.                                                        *)
(***************************************************************************)
Early == Handshake \cup {"FINFO", "FINFOACK"}

\* Two answers on the line, a before b: nothing is asked for once the end of
\* the file is acknowledged, later requests have later numbers, and none is
\* for what has been acknowledged before it.
InOrder(a, b) ==
  /\ a.type = "EOFACK" => b.type \notin {"RPOS", "DATAACK"}
  /\ b.type = "RPOS" /\ a.type = "RPOS" => a.id <= b.id
  /\ b.type = "RPOS" /\ a.type = "DATAACK" /\ b.pos >= 0 => a.pos <= b.pos

Ordered(R) ==
  \A i \in 1 .. Len(R) : \A j \in (i + 1) .. Len(R) : InOrder(R[i], R[j])

\* A request has a number that the transmitter has not gone past and that the
\* receiver has used for this file; what is acknowledged has been received.
Asks(t, r, m) ==
  /\ m.type = "RPOS" =>
       /\ t.syncid <= m.id /\ m.id <= r.syncid
       /\ m.pos >= 0 => t.lastack <= m.pos
  /\ m.type = "DATAACK" /\ r.pos >= 0 => m.pos <= r.pos

Requests(t, r, R) ==
  /\ t.state \in Sending =>
       /\ r.file = t.file /\ t.syncid <= r.syncid
       /\ r.pos >= 0 => t.lastack <= r.pos
       /\ Ordered(R)
       /\ \A i \in 1 .. Len(R) : Asks(t, r, R[i])
  /\ t.state \in Early =>
       /\ t.open = TRUE => t.syncid = 0
       /\ None(R, {"RPOS", "DATAACK"})
       /\ \A i \in 1 .. Len(R) :
            R[i].type = "FINFOACK" /\ r.state = "DATA" => R[i].pos = r.pos

LEMMA EarlyNotSending ==
  ASSUME NEW s, s \in Early PROVE s \notin Sending
BY DEF Early, Handshake, Sending

LEMMA FollowsIn ==
  ASSUME NEW R, NEW R2, NEW T, Follows(R2, R, T),
         NEW i \in 1 .. Len(R2), R2[i].type \notin T
  PROVE  \E j \in 1 .. Len(R) : R2[i] = R[j]
BY DEF Follows

LEMMA OrderedFollows ==
  ASSUME NEW R, NEW R2, NEW T, Len(R) \in Nat, Len(R2) \in Nat,
         T \cap {"RPOS", "DATAACK"} = {}, Follows(R2, R, T), Ordered(R)
  PROVE  Ordered(R2)
<1>1. PICK n \in Nat, o \in Nat : \A k \in 1 .. Len(R2) :
        \/ k <= n /\ k + o \in 1 .. Len(R) /\ R2[k] = R[k + o]
        \/ k > n /\ R2[k].type \in T
  BY DEF Follows
<1>2. SUFFICES ASSUME NEW i \in 1 .. Len(R2), NEW j \in (i + 1) .. Len(R2)
               PROVE  InOrder(R2[i], R2[j])
  BY DEF Ordered
<1>3. j \in 1 .. Len(R2) /\ i < j
  BY <1>2
<1>4. CASE j > n
  <2>1. R2[j].type \in T
    BY <1>1, <1>3, <1>4
  <2>2. R2[j].type \notin {"RPOS", "DATAACK"}
    BY <2>1
  <2>3. QED
    BY <2>2 DEF InOrder
<1>5. CASE j <= n
  <2>1. j + o \in 1 .. Len(R) /\ R2[j] = R[j + o]
    BY <1>1, <1>3, <1>5
  <2>2. i + o \in 1 .. Len(R) /\ R2[i] = R[i + o]
    BY <1>1, <1>3, <1>5
  <2>3. j + o \in (i + o + 1) .. Len(R)
    BY <1>3, <2>1, <2>2
  <2>4. InOrder(R[i + o], R[j + o])
    BY <2>2, <2>3 DEF Ordered
  <2>5. QED
    BY <2>1, <2>2, <2>4
<1>6. QED
  BY <1>3, <1>4, <1>5

LEMMA OrderedAdds ==
  ASSUME NEW R, NEW R2, NEW x, Len(R) \in Nat, Adds(R2, R, x), Ordered(R),
         \A i \in 1 .. Len(R) : InOrder(R[i], x)
  PROVE  Ordered(R2)
<1>1. SUFFICES ASSUME NEW i \in 1 .. Len(R2), NEW j \in (i + 1) .. Len(R2)
               PROVE  InOrder(R2[i], R2[j])
  BY DEF Ordered
<1>2. Len(R2) \in Nat
  BY AddsLen
<1>3. j \in 1 .. Len(R2) /\ i < j
  BY <1>1, <1>2
<1>4. Len(R2) = Len(R) + 1
  BY <1>1, AddsCases
<1>5. i \in 1 .. Len(R) /\ R2[i] = R[i]
  BY <1>2, <1>3, <1>4, AddsCases
<1>6. CASE j \in 1 .. Len(R) /\ R2[j] = R[j]
  <2>1. j \in (i + 1) .. Len(R)
    BY <1>3, <1>6
  <2>2. QED
    BY <1>5, <1>6, <2>1 DEF Ordered
<1>7. CASE R2[j] = x
  BY <1>5, <1>7
<1>8. QED
  BY <1>3, <1>6, <1>7, AddsCases

\* A transmitter that goes on with its file, not for a request.
TxKept(t, t2) ==
  /\ t2.file = t.file /\ t2.syncid = t.syncid /\ t2.lastack = t.lastack
  /\ t2.open = TRUE => t.open = TRUE
  /\ t2.state \in Sending => t.state \in Sending
  /\ t2.state \in Early => t.state \in Early

RxKept(r, r2) ==
  /\ r2.file = r.file /\ r2.syncid = r.syncid /\ r2.pos = r.pos
  /\ r2.state = "DATA" => r.state = "DATA"

Asked == {"RPOS", "DATAACK", "FINFOACK"}

LEMMA RequestsKept ==
  ASSUME NEW t, NEW t2, TxKept(t, t2), NEW r, NEW r2, RxKept(r, r2),
         NEW R, NEW R2, NEW T, Len(R) \in Nat, Len(R2) \in Nat,
         T \cap Asked = {}, Follows(R2, R, T), Requests(t, r, R)
  PROVE  Requests(t2, r2, R2)
<1>1. \A i \in 1 .. Len(R2) :
        R2[i].type \in Asked => \E j \in 1 .. Len(R) : R2[i] = R[j]
  BY FollowsIn
<1>2. CASE t2.state \in Sending
  <2>1. t.state \in Sending /\ t2.state \notin Early
    BY <1>2, EarlyNotSending DEF TxKept
  <2>2. /\ r.file = t.file /\ t.syncid <= r.syncid
        /\ r.pos >= 0 => t.lastack <= r.pos
        /\ Ordered(R)
        /\ \A i \in 1 .. Len(R) : Asks(t, r, R[i])
    BY <2>1 DEF Requests
  <2>3. Ordered(R2)
    <3>1. T \cap {"RPOS", "DATAACK"} = {}
      BY DEF Asked
    <3>2. QED
      BY <2>2, <3>1, OrderedFollows
  <2>4. ASSUME NEW i \in 1 .. Len(R2) PROVE Asks(t2, r2, R2[i])
    <3>1. CASE R2[i].type \in Asked
      <4>1. PICK j \in 1 .. Len(R) : R2[i] = R[j]
        BY <1>1, <3>1
      <4>2. Asks(t, r, R2[i])
        BY <2>2, <4>1
      <4>3. QED
        BY <4>2 DEF Asks, TxKept, RxKept
    <3>2. CASE R2[i].type \notin Asked
      BY <3>2 DEF Asks, Asked
    <3>3. QED
      BY <3>1, <3>2
  <2>5. QED
    BY <2>1, <2>2, <2>3, <2>4 DEF Requests, TxKept, RxKept
<1>3. CASE t2.state \in Early
  <2>1. t.state \in Early /\ t2.state \notin Sending
    BY <1>3, EarlyNotSending DEF TxKept
  <2>2. /\ t.open = TRUE => t.syncid = 0
        /\ None(R, {"RPOS", "DATAACK"})
        /\ \A i \in 1 .. Len(R) :
             R[i].type = "FINFOACK" /\ r.state = "DATA" => R[i].pos = r.pos
    BY <2>1 DEF Requests
  <2>3. None(R2, {"RPOS", "DATAACK"})
    <3>1. T \cap {"RPOS", "DATAACK"} = {}
      BY DEF Asked
    <3>2. QED
      BY <2>2, <3>1, FollowsNone
  <2>4. ASSUME NEW i \in 1 .. Len(R2), R2[i].type = "FINFOACK", r2.state = "DATA"
        PROVE  R2[i].pos = r2.pos
    <3>1. PICK j \in 1 .. Len(R) : R2[i] = R[j]
      BY <1>1, <2>4 DEF Asked
    <3>2. QED
      BY <2>2, <2>4, <3>1 DEF RxKept
  <2>5. QED
    BY <2>1, <2>2, <2>3, <2>4 DEF Requests, TxKept
<1>4. QED
  BY <1>2, <1>3 DEF Requests

\* The receiver of a file takes data, or asks for what is missing.
LEMMA RequestsMade ==
  ASSUME NEW t \in TxSet, t.state \notin Early, NEW r \in RxSet, NEW r2 \in RxSet,
         r2.file = r.file, r.syncid <= r2.syncid,
         r2.pos >= 0 => r.pos >= 0 /\ r.pos <= r2.pos,
         NEW R \in Seq(Packets), t.state \in Sending => None(R, {"EOFACK"}),
         NEW x \in Packets,
         \/ x.type = "RPOS" /\ x.id = r2.syncid /\ x.pos = r2.pos
         \/ x.type = "DATAACK" /\ x.pos = r2.pos,
         NEW R2, Len(R2) \in Nat, Adds(R2, R, x) \/ Follows(R2, R, {}),
         Requests(t, r, R)
  PROVE  Requests(t, r2, R2)
<1>1. SUFFICES ASSUME t.state \in Sending PROVE Requests(t, r2, R2)
  BY DEF Requests
<1>2. /\ r.file = t.file /\ t.syncid <= r.syncid
      /\ r.pos >= 0 => t.lastack <= r.pos
      /\ Ordered(R)
      /\ \A i \in 1 .. Len(R) : Asks(t, r, R[i])
  BY <1>1 DEF Requests
<1>3. /\ t.syncid \in Nat /\ t.lastack \in Int
      /\ r.syncid \in Nat /\ r.pos \in Int /\ r2.syncid \in Nat /\ r2.pos \in Int
      /\ x.id \in Nat /\ x.pos \in Int
  BY DEF TxSet, RxSet, Packets
<1>4. \A i \in 1 .. Len(R) : R[i].id \in Nat /\ R[i].pos \in Int
  <2>1. \A i \in 1 .. Len(R) : R[i] \in Packets
    BY ElementOfSeq
  <2>2. QED
    BY <2>1 DEF Packets
<1>5. Len(R) \in Nat
  BY LenProperties
<1>6. t.syncid <= r2.syncid /\ (r2.pos >= 0 => t.lastack <= r2.pos)
  BY <1>2, <1>3
<1>7. ASSUME NEW i \in 1 .. Len(R)
      PROVE  Asks(t, r2, R[i]) /\ InOrder(R[i], x)
  <2>1. Asks(t, r, R[i]) /\ R[i].id \in Nat /\ R[i].pos \in Int
        /\ R[i].type # "EOFACK"
    BY <1>1, <1>2, <1>4 DEF None
  <2>2. Asks(t, r2, R[i])
    BY <1>3, <2>1 DEF Asks
  <2>3. InOrder(R[i], x)
    <3>1. R[i].type = "RPOS" => R[i].id <= r2.syncid
      BY <1>3, <2>1 DEF Asks
    <3>2. R[i].type = "DATAACK" /\ r2.pos >= 0 => R[i].pos <= r2.pos
      BY <2>2 DEF Asks
    <3>3. QED
      BY <2>1, <3>1, <3>2 DEF InOrder
  <2>4. QED
    BY <2>2, <2>3
<1>8. Asks(t, r2, x)
  BY <1>3, <1>6 DEF Asks
<1>9. Ordered(R2)
  <2>1. CASE Adds(R2, R, x)
    BY <1>2, <1>5, <1>7, <2>1, OrderedAdds
  <2>2. CASE Follows(R2, R, {})
    <3>1. {} \cap {"RPOS", "DATAACK"} = {}
      OBVIOUS
    <3>2. QED
      BY <1>2, <1>5, <2>2, <3>1, OrderedFollows
  <2>3. QED
    BY <2>1, <2>2
<1>10. ASSUME NEW i \in 1 .. Len(R2) PROVE Asks(t, r2, R2[i])
  <2>1. R2[i] = x \/ \E j \in 1 .. Len(R) : R2[i] = R[j]
    <3>1. CASE Adds(R2, R, x)
      BY <1>5, <3>1, AddsCases
    <3>2. CASE Follows(R2, R, {})
      BY <3>2, FollowsIn
    <3>3. QED
      BY <3>1, <3>2
  <2>2. QED
    BY <1>7, <1>8, <2>1
<1>11. t.state \notin Early
  OBVIOUS
<1>12. QED
  BY <1>2, <1>6, <1>9, <1>10 DEF Requests

\* The receiver answers a FINFO.
LEMMA RequestsOffered ==
  ASSUME NEW t, t.state \notin Sending, NEW r, NEW r2, NEW R, NEW R2, NEW x,
         Len(R) \in Nat, None(R, {"FINFOACK"}), x.type = "FINFOACK",
         x.pos = r2.pos, Adds(R2, R, x), Requests(t, r, R)
  PROVE  Requests(t, r2, R2)
<1>1. SUFFICES ASSUME t.state \in Early PROVE Requests(t, r2, R2)
  BY DEF Requests
<1>2. (t.open = TRUE => t.syncid = 0) /\ None(R, {"RPOS", "DATAACK"})
  BY <1>1 DEF Requests
<1>3. None(R2, {"RPOS", "DATAACK"})
  BY <1>2, AddsNone
<1>4. ASSUME NEW i \in 1 .. Len(R2), R2[i].type = "FINFOACK"
      PROVE  R2[i].pos = r2.pos
  BY <1>4, AddsNew
<1>5. QED
  BY <1>2, <1>3, <1>4 DEF Requests

\* The transmitter takes an acknowledgement or a request from the line.
LEMMA RequestsTaken ==
  ASSUME NEW t \in TxSet, NEW t2, NEW r \in RxSet, NEW R \in Seq(Packets),
         R # <<>>, Head(R).type \in {"RPOS", "DATAACK"},
         t2.file = t.file,
         t2.state \in Sending => t.state \in Sending,
         t2.state \in Early => t.state \in Early,
         t2.syncid = t.syncid \/ (Head(R).type = "RPOS" /\ t2.syncid = Head(R).id),
         t2.lastack = t.lastack
           \/ (Head(R).type = "DATAACK" /\ t2.lastack = Head(R).pos),
         Requests(t, r, R)
  PROVE  Requests(t2, r, Tail(R))
<1> DEFINE m == Head(R)
           S == Tail(R)
<1>1. /\ Len(R) \in Nat /\ 1 \in 1 .. Len(R) /\ R[1] = m
      /\ Len(S) \in Nat /\ Len(S) = Len(R) - 1
      /\ \A i \in 1 .. Len(S) : i + 1 \in 2 .. Len(R) /\ S[i] = R[i + 1]
  BY LenProperties, HeadTailProperties
<1>2. m \in Packets /\ Follows(S, R, {})
  BY HeadTailProperties, FollowsTail
<1> HIDE DEF m, S
<1>3. t.state \notin Early
  <2>1. SUFFICES ASSUME t.state \in Early PROVE FALSE
    OBVIOUS
  <2>2. None(R, {"RPOS", "DATAACK"})
    BY <2>1 DEF Requests
  <2>3. QED
    BY <1>1, <2>2 DEF None, m
<1>4. SUFFICES ASSUME t2.state \in Sending PROVE Requests(t2, r, S)
  BY <1>3 DEF Requests, S
<1>5. /\ r.file = t.file /\ t.syncid <= r.syncid
      /\ r.pos >= 0 => t.lastack <= r.pos
      /\ Ordered(R)
      /\ \A i \in 1 .. Len(R) : Asks(t, r, R[i])
  BY <1>4 DEF Requests
<1>6. /\ t.syncid \in Nat /\ t.lastack \in Int /\ r.syncid \in Nat /\ r.pos \in Int
      /\ m.id \in Nat /\ m.pos \in Int
  BY <1>2 DEF TxSet, RxSet, Packets
<1>7. Asks(t, r, m)
  BY <1>1, <1>5
<1>8. t2.syncid <= r.syncid /\ (r.pos >= 0 => t2.lastack <= r.pos)
  BY <1>5, <1>6, <1>7 DEF Asks, m
<1>9. ASSUME NEW i \in 1 .. Len(S) PROVE Asks(t2, r, S[i])
  <2>1. i + 1 \in 1 .. Len(R) /\ i + 1 \in (1 + 1) .. Len(R) /\ S[i] = R[i + 1]
    BY <1>1
  <2>2. Asks(t, r, S[i]) /\ InOrder(m, S[i])
    BY <1>1, <1>5, <2>1 DEF Ordered
  <2>3. QED
    BY <1>6, <2>2 DEF Asks, InOrder, m
<1>10. Ordered(S)
  <2>1. {} \cap {"RPOS", "DATAACK"} = {}
    OBVIOUS
  <2>2. QED
    BY <1>1, <1>2, <1>5, <2>1, OrderedFollows
<1>11. t2.state \notin Early
  BY <1>4, EarlyNotSending
<1>12. QED
  BY <1>5, <1>8, <1>9, <1>10, <1>11 DEF Requests

\* The file is begun where the receiver wants it.
LEMMA RequestsBegin ==
  ASSUME NEW t, NEW t2, NEW r \in RxSet, NEW R \in Seq(Packets), R # <<>>,
         Head(R).type = "FINFOACK", t.state \in Early, t.open = TRUE,
         r.state = "DATA", r.file = t.file, t2.state \in Sending,
         t2.file = t.file, t2.syncid = t.syncid, t2.lastack = Head(R).pos,
         Requests(t, r, R)
  PROVE  Requests(t2, r, Tail(R))
<1> DEFINE S == Tail(R)
<1>1. /\ Len(R) \in Nat /\ 1 \in 1 .. Len(R) /\ R[1] = Head(R)
      /\ Len(S) \in Nat
  BY LenProperties, HeadTailProperties
<1>2. /\ t.syncid = 0
      /\ None(R, {"RPOS", "DATAACK"})
      /\ Head(R).pos = r.pos
  BY <1>1 DEF Requests
<1>3. None(S, {"RPOS", "DATAACK"})
  <2>1. {} \cap {"RPOS", "DATAACK"} = {} /\ Follows(S, R, {})
    BY FollowsTail
  <2>2. QED
    BY <1>2, <2>1, FollowsNone
<1> HIDE DEF S
<1>4. r.syncid \in Nat /\ r.pos \in Int
  BY DEF RxSet
<1>5. t2.syncid <= r.syncid /\ t2.lastack <= r.pos
  BY <1>2, <1>4
<1>6. \A i \in 1 .. Len(S) : Asks(t2, r, S[i])
  BY <1>3 DEF None, Asks
<1>7. Ordered(S)
  BY <1>1, <1>3 DEF Ordered, InOrder, None
<1>8. t2.state \notin Early
  BY EarlyNotSending
<1>9. QED
  BY <1>5, <1>6, <1>7, <1>8 DEF Requests, S

\* Before a file, nothing has been asked.
LEMMA RequestsNone ==
  ASSUME NEW t, NEW r, NEW R, t.state \notin Sending,
         t.state \in Early => None(R, Asked) /\ (t.open = TRUE => t.syncid = 0)
  PROVE  Requests(t, r, R)
BY DEF Requests, None, Asked

-----------------------------------------------------------------------------
(***************************************************************************)
(* The steps.  A step of p does with the requests for p's file and for the *)
(* other's what it should, and rewinds p only as RewindsOnce says.         *)
(***************************************************************************)
RequestsHold == \A p \in Peers : Requests(tx[p], rx[Other(p)], line[p])

Mine(p) == Requests(tx'[p], rx'[Other(p)], line'[p])
Theirs(p) == Requests(tx'[Other(p)], rx'[p], line'[Other(p)])

Obeys(p) ==
  Rewinds(p) =>
    /\ tx'[p].syncid \in (tx[p].syncid + 1) .. rx[Other(p)].syncid
    /\ rx[Other(p)].file = tx[p].file
    /\ tx'[p].pos >= tx[p].lastack

Serves(p) ==
  /\ Mine(p) /\ Theirs(p) /\ Obeys(p)
  /\ tx'[Other(p)] = tx[Other(p)]

LEMMA ServesAll ==
  ASSUME TypeInv, NEW p \in Peers, Serves(p)
  PROVE  RequestsHold' /\ \A o \in Peers : Obeys(o)
<1> DEFINE q == Other(p)
<1>1. /\ q \in Peers /\ q # p /\ Other(q) = p
      /\ \A o \in Peers : o = p \/ o = q
  BY OtherFacts
<1>2. RequestsHold'
  BY <1>1 DEF Serves, Mine, Theirs, RequestsHold
<1>3. tx[q].pos \in Int /\ tx'[q] = tx[q]
  BY <1>1, OwnTypes DEF TxOf, TxSet, Serves
<1>4. Obeys(q)
  BY <1>3 DEF Obeys, Rewinds
<1>5. QED
  BY <1>1, <1>2, <1>4 DEF Serves

LEMMA MineKept ==
  ASSUME TypeInv, TypeInv', RequestsHold, NEW p \in Peers,
         TxKept(tx[p], tx'[p]), rx'[Other(p)] = rx[Other(p)],
         Follows(line'[p], line[p], {})
  PROVE  Mine(p)
<1>1. Requests(tx[p], rx[Other(p)], line[p])
  BY DEF RequestsHold
<1>2. Len(line[p]) \in Nat /\ Len(line'[p]) \in Nat
  BY LenProperties DEF TypeInv, LineTyped
<1>3. RxKept(rx[Other(p)], rx'[Other(p)]) /\ {} \cap Asked = {}
  BY DEF RxKept
<1>4. QED
  BY <1>1, <1>2, <1>3, RequestsKept DEF Mine

LEMMA TheirsKept ==
  ASSUME TypeInv, TypeInv', RequestsHold, NEW p \in Peers,
         tx'[Other(p)] = tx[Other(p)], RxKept(rx[p], rx'[p]),
         NEW T, T \cap Asked = {}, Follows(line'[Other(p)], line[Other(p)], T)
  PROVE  Theirs(p)
<1> DEFINE q == Other(p)
<1>1. q \in Peers /\ Requests(tx[q], rx[p], line[q])
  BY OtherFacts DEF RequestsHold
<1>2. Len(line[q]) \in Nat /\ Len(line'[q]) \in Nat
  BY <1>1, LenProperties DEF TypeInv, LineTyped
<1>3. TxKept(tx[q], tx'[q])
  BY DEF TxKept
<1>4. QED
  BY <1>1, <1>2, <1>3, RequestsKept DEF Theirs

LEMMA OnwardObeys ==
  ASSUME NEW p \in Peers, tx'[p].pos \notin 0 .. (tx[p].pos - 1)
  PROVE  Obeys(p)
BY DEF Obeys, Rewinds

LEMMA KeptServes ==
  ASSUME TypeInv, TypeInv', RequestsHold, NEW p \in Peers,
         TxKept(tx[p], tx'[p]), tx'[p].pos \notin 0 .. (tx[p].pos - 1),
         tx'[Other(p)] = tx[Other(p)], RxKept(rx[p], rx'[p]),
         rx'[Other(p)] = rx[Other(p)], Follows(line'[p], line[p], {}),
         NEW T, T \cap Asked = {}, Follows(line'[Other(p)], line[Other(p)], T)
  PROVE  Serves(p)
BY MineKept, TheirsKept, OnwardObeys DEF Serves

LEMMA SettledKept ==
  ASSUME NEW p \in Peers, NEW t \in TxOf(p), NEW r, NEW d, NEW h
  PROVE  TxKept(t, Settled(t, r, d, h)) /\ Settled(t, r, d, h).pos = t.pos
<1> DEFINE u == Settled(t, r, d, h)
<1>1. t \in TxSet
  BY DEF TxOf
<1>2. Resembles(t, u)
  BY SettledResembles
<1>3. \A s : /\ Restarted(t, s).syncid = t.syncid
             /\ Restarted(t, s).lastack = t.lastack
  BY <1>1 DEF Restarted, TxSet
<1>4. u.syncid = t.syncid /\ u.lastack = t.lastack
  <2>1. CASE t.state \in {"START", "SWAIT"} /\ r.state = "FINFO"
    BY <1>3, <2>1 DEF Settled, FallsBack
  <2>2. CASE t.state = "RINIT" /\ r.state = "FINFO"
    BY <1>3, <2>2 DEF Settled, FallsBack
  <2>3. CASE FallsBack(t, r, h)
    BY <1>1, <2>3 DEF Settled, FallsBack, TxSet
  <2>4. CASE t.state = "XWAIT" /\ r.state = "DONE"
    BY <1>3, <2>4 DEF Settled, FallsBack
  <2>5. CASE t.state = "REND" /\ NothingMore(r, d)
    BY <1>3, <2>5 DEF Settled, FallsBack
  <2>6. CASE /\ ~(t.state \in {"START", "SWAIT"} /\ r.state = "FINFO")
             /\ ~(t.state = "RINIT" /\ r.state = "FINFO")
             /\ ~FallsBack(t, r, h)
             /\ ~(t.state = "XWAIT" /\ r.state = "DONE")
             /\ ~(t.state = "REND" /\ NothingMore(r, d))
    BY <2>6 DEF Settled
  <2>7. QED
    BY <2>1, <2>2, <2>3, <2>4, <2>5, <2>6
<1> HIDE DEF u
<1>5. /\ u.state \in Sending => t.state \in Sending
      /\ u.state \in Early => t.state \in Early
  BY <1>2 DEF Resembles, Moves, Sending, Early, Handshake
<1>6. QED
  BY <1>2, <1>4, <1>5 DEF TxKept, Resembles, u

\* What a step that ends with the switch on txstate leaves.
LEMMA SettleLeaves ==
  ASSUME TypeInv, NEW p \in Peers, NEW t \in TxOf(p), NEW r, NEW d, NEW h,
         Settle(p, t, r, d, h)
  PROVE  /\ TxKept(t, tx'[p]) /\ tx'[p].pos = t.pos
         /\ tx'[Other(p)] = tx[Other(p)]
         /\ rx'[p] = r /\ rx'[Other(p)] = rx[Other(p)]
<1>1. Other(p) \in Peers /\ Other(p) # p
  BY OtherFacts
<1>2. /\ tx'[p] = Settled(t, r, d, h) /\ tx'[Other(p)] = tx[Other(p)]
      /\ rx'[p] = r /\ rx'[Other(p)] = rx[Other(p)]
  BY <1>1 DEF Settle, TypeInv, TxTyped, RxTyped
<1>3. QED
  BY <1>2, SettledKept

LEMMA SettleServes ==
  ASSUME TypeInv, TypeInv', RequestsHold, NEW p \in Peers,
         NEW t \in TxOf(p), TxKept(tx[p], t), t.pos = tx[p].pos,
         NEW r, RxKept(rx[p], r), NEW d, NEW h, Settle(p, t, r, d, h),
         Follows(line'[p], line[p], {}),
         NEW T, T \cap Asked = {}, Follows(line'[Other(p)], line[Other(p)], T)
  PROVE  Serves(p)
<1>1. /\ TxKept(t, tx'[p]) /\ tx'[p].pos = t.pos
      /\ tx'[Other(p)] = tx[Other(p)]
      /\ rx'[p] = r /\ rx'[Other(p)] = rx[Other(p)]
  BY SettleLeaves
<1>2. TxKept(tx[p], tx'[p])
  BY <1>1 DEF TxKept
<1>3. tx[p].pos \in Int
  BY OwnTypes DEF TxOf, TxSet
<1>4. tx'[p].pos \notin 0 .. (tx[p].pos - 1)
  BY <1>1, <1>3
<1>5. QED
  BY <1>1, <1>2, <1>4, KeptServes

LEMMA KeptItself ==
  ASSUME TypeInv, NEW p \in Peers
  PROVE  /\ tx[p] \in TxOf(p) /\ tx[p] \in TxSet /\ tx[p].pos \in Int
         /\ rx[p] \in RxSet
         /\ TxKept(tx[p], tx[p]) /\ RxKept(rx[p], rx[p])
BY OwnTypes DEF TxOf, TxSet, RxOf, TxKept, RxKept

\* A packet is taken, and answered with packets that ask for nothing.
LEMMA TakenServes ==
  ASSUME TypeInv, TypeInv', RequestsHold, NEW p \in Peers, line[p] # <<>>,
         NEW t \in TxOf(p), TxKept(tx[p], t), t.pos = tx[p].pos,
         NEW r, RxKept(rx[p], r), NEW d, NEW h, Settle(p, t, r, d, h),
         NEW x \in Packets, x.type \notin Asked, In(p, <<>>) \/ In(p, <<x>>)
  PROVE  Serves(p)
<1> DEFINE T == {x.type}
<1>1. T \cap Asked = {}
  OBVIOUS
<1>2. PICK s \in Seq(Packets) :
        In(p, s) /\ \A i \in 1 .. Len(s) : s[i].type \in T
  <2>1. CASE In(p, <<>>)
    <3>1. <<>> \in Seq(Packets) /\ \A i \in 1 .. Len(<<>>) : <<>>[i].type \in T
      BY EmptySeq
    <3>2. QED
      BY <2>1, <3>1
  <2>2. CASE In(p, <<x>>)
    <3>1. <<x>> \in Seq(Packets) /\ \A i \in 1 .. Len(<<x>>) : <<x>>[i].type \in T
      BY OneInSeq
    <3>2. QED
      BY <2>2, <3>1
  <2>3. QED
    BY <2>1, <2>2
<1>3. /\ Follows(line'[p], line[p], {})
      /\ Follows(line'[Other(p)], line[Other(p)], T)
  BY <1>2, InFollows DEF TypeInv
<1> HIDE DEF T
<1>4. QED
  BY <1>1, <1>3, SettleServes

LEMMA SilentServes ==
  ASSUME TypeInv, TypeInv', RequestsHold, NEW p \in Peers, line[p] # <<>>,
         NEW t \in TxOf(p), TxKept(tx[p], t), t.pos = tx[p].pos,
         NEW d, NEW h, Settle(p, t, rx[p], d, h), In(p, <<>>)
  PROVE  Serves(p)
<1>1. RxKept(rx[p], rx[p])
  BY KeptItself
<1>2. Signal("IDLE") \in Packets /\ Signal("IDLE").type \notin Asked
  BY SignalSeq DEF PacketTypes, Asked
<1>3. QED
  BY <1>1, <1>2, TakenServes

\* The session ends for p.
LEMMA EndsServes ==
  ASSUME TypeInv, TypeInv', RequestsHold, NEW p \in Peers, NEW why,
         Ends(p, why), line'[p] = <<>>,
         NEW T, T \cap Asked = {}, Follows(line'[Other(p)], line[Other(p)], T)
  PROVE  Serves(p)
<1>1. /\ tx'[p].state = "DONE" /\ tx'[p].open = FALSE
      /\ tx'[p].file = tx[p].file /\ tx'[p].pos = tx[p].pos
      /\ tx'[p].syncid = tx[p].syncid /\ tx'[p].lastack = tx[p].lastack
      /\ tx'[Other(p)] = tx[Other(p)] /\ rx' = rx
  BY OtherFacts, OwnTypes DEF Ends, TypeInv, TxTyped, TxOf, TxSet
<1>2. "DONE" \notin Sending /\ "DONE" \notin Early
  BY DEF Sending, Early, Handshake
<1>3. TxKept(tx[p], tx'[p])
  BY <1>1, <1>2 DEF TxKept
<1>4. RxKept(rx[p], rx'[p]) /\ Follows(line'[p], line[p], {})
  BY <1>1, KeptItself, FollowsEmpty
<1>5. tx[p].pos \in Int
  BY KeptItself
<1>6. tx'[p].pos \notin 0 .. (tx[p].pos - 1)
  BY <1>1, <1>5
<1>7. rx'[Other(p)] = rx[Other(p)]
  BY <1>1
<1>8. QED
  BY <1>1, <1>3, <1>4, <1>6, <1>7, KeptServes

LEMMA AbortServes ==
  ASSUME TypeInv, TypeInv', RequestsHold, NEW p \in Peers,
         Abort(p) \/ CarrierLost(p)
  PROVE  Serves(p)
<1>1. {"CANCEL"} \cap Asked = {}
  BY DEF Asked
<1>2. QED
  BY <1>1, AbortLines, EndsServes

LEMMA SendServes ==
  ASSUME TypeInv, TypeInv', RequestsHold, NEW p \in Peers,
         NEW t, TxKept(tx[p], t), t.pos \notin 0 .. (tx[p].pos - 1),
         NEW s \in Seq(Packets), \A i \in 1 .. Len(s) : s[i].type \in SentTypes,
         Send(p, t, s)
  PROVE  Serves(p)
<1>1. /\ tx'[p] = t /\ tx'[Other(p)] = tx[Other(p)] /\ rx' = rx
  BY OtherFacts DEF Send, TypeInv, TxTyped
<1>2. /\ line'[p] = line[p]
      /\ Follows(line'[Other(p)], line[Other(p)], SentTypes \cup {"DEVDATA"})
  BY SendLine DEF Send
<1>3. Follows(line'[p], line[p], {})
  BY <1>2, LineSeq, FollowsItself DEF TypeInv
<1>4. (SentTypes \cup {"DEVDATA"}) \cap Asked = {}
  BY DEF SentTypes, Asked
<1>5. RxKept(rx[p], rx'[p])
  BY <1>1, KeptItself
<1>6. QED
  BY <1>1, <1>2, <1>3, <1>4, <1>5, KeptServes

LEMMA WaitingKept ==
  ASSUME TypeInv, NEW p \in Peers, NEW s,
         s \in Sending => tx[p].state \in Sending,
         s \in Early => tx[p].state \in Early
  PROVE  /\ TxKept(tx[p], Waiting(p, s))
         /\ Waiting(p, s).pos \notin 0 .. (tx[p].pos - 1)
<1>1. tx[p] \in TxSet
  BY KeptItself
<1>2. /\ Waiting(p, s).state = s /\ Waiting(p, s).file = tx[p].file
      /\ Waiting(p, s).open = tx[p].open /\ Waiting(p, s).pos = tx[p].pos
      /\ Waiting(p, s).syncid = tx[p].syncid
      /\ Waiting(p, s).lastack = tx[p].lastack
  BY <1>1 DEF Waiting, TxSet
<1>3. tx[p].pos \in Int
  BY KeptItself
<1>4. QED
  BY <1>2, <1>3 DEF TxKept

LEMMA TransmitServes ==
  ASSUME TypeInv, TypeInv', RequestsHold, NEW p \in Peers,
         Transmit(p) \/ ReadError(p)
  PROVE  Serves(p)
<1>1. tx[p] \in TxSet /\ tx[p].file \in Nat /\ tx[p].pos \in Int
  BY KeptItself DEF TxSet
<1>2. ASSUME NEW t, TxKept(tx[p], t), t.pos \notin 0 .. (tx[p].pos - 1),
             NEW x \in Packets, x.type \in SentTypes, Send(p, t, <<x>>)
      PROVE  Serves(p)
  <2>1. <<x>> \in Seq(Packets) /\ \A i \in 1 .. Len(<<x>>) : <<x>>[i].type \in SentTypes
    BY <1>2, OneInSeq
  <2>2. QED
    BY <1>2, <2>1, SendServes
<1>3. ASSUME NEW s, NEW x \in Packets, x.type \in SentTypes,
             s \in Sending => tx[p].state \in Sending,
             s \in Early => tx[p].state \in Early,
             Send(p, Waiting(p, s), <<x>>)
      PROVE  Serves(p)
  BY <1>2, <1>3, WaitingKept
<1>4. /\ {"START", "INIT", "FINFO", "SWAIT", "INITACK", "FINFOACK"} \subseteq Early
      /\ {"START", "INIT", "FINFO", "SWAIT", "INITACK", "FINFOACK"} \cap Sending = {}
      /\ {"XDATA", "EOF", "EOFACK", "DATAACK"} \subseteq Sending
      /\ {"XDATA", "EOF", "EOFACK", "DATAACK", "END", "ENDACK"} \cap Early = {}
      /\ {"END", "ENDACK"} \cap Sending = {}
      /\ {"START", "INIT", "FINFO", "DATA", "EOF", "END"} \subseteq SentTypes \cap PacketTypes
  BY DEF Early, Handshake, Sending, SentTypes, PacketTypes
<1>5. CASE SendStart(p)
  <2>1. Signal("START") \in Packets /\ Signal("START").type = "START"
    BY <1>4, SignalSeq
  <2>2. QED
    BY <1>3, <1>4, <1>5, <2>1 DEF SendStart
<1>6. CASE SendInit(p)
  <2>1. Signal("INIT") \in Packets /\ Signal("INIT").type = "INIT"
    BY <1>4, SignalSeq
  <2>2. QED
    BY <1>3, <1>4, <1>6, <2>1 DEF SendInit
<1>7. CASE SendFinfo(p)
  <2>1. PICK k \in Nat : Send(p, Waiting(p, "FINFOACK"), <<Info(k)>>)
    <3>1. CASE tx[p].open
      BY <1>1, <1>7, <3>1 DEF SendFinfo
    <3>2. CASE ~tx[p].open
      BY <1>7, <3>2 DEF SendFinfo
    <3>3. QED
      BY <3>1, <3>2
  <2>2. Info(k) \in Packets /\ Info(k).type = "FINFO"
    BY EmptySeq DEF Info, Packet, Packets, PacketTypes
  <2>3. tx[p].state = "FINFO"
    BY <1>7 DEF SendFinfo
  <2>4. QED
    BY <1>3, <1>4, <2>1, <2>2, <2>3
<1>8. CASE SendEof(p)
  <2>1. /\ tx[p].state \in {"EOF", "XDATA"}
        /\ Send(p, Waiting(p, "EOFACK"), <<Position("EOF", tx[p].pos)>>)
    BY <1>8 DEF SendEof
  <2>2. /\ Position("EOF", tx[p].pos) \in Packets
        /\ Position("EOF", tx[p].pos).type = "EOF"
    BY <1>1, <1>4, PositionPacket
  <2>3. QED
    BY <1>3, <1>4, <2>1, <2>2
<1>9. CASE ReadError(p)
  <2> DEFINE t == [Waiting(p, "EOFACK") EXCEPT !.open = FALSE, !.pos = Skip]
  <2>1. /\ t.state = "EOFACK" /\ t.file = tx[p].file /\ t.open = FALSE
        /\ t.syncid = tx[p].syncid /\ t.lastack = tx[p].lastack /\ t.pos = Skip
    BY <1>1 DEF Waiting, TxSet
  <2>2. tx[p].state = "XDATA" /\ Send(p, t, <<Position("EOF", Skip)>>)
    BY <1>9 DEF ReadError
  <2>3. Position("EOF", Skip) \in Packets /\ Position("EOF", Skip).type = "EOF"
    BY <1>4, PositionPacket DEF Skip
  <2> HIDE DEF t
  <2>4. TxKept(tx[p], t) /\ t.pos \notin 0 .. (tx[p].pos - 1)
    BY <1>1, <1>4, <2>1, <2>2 DEF TxKept, Skip
  <2>5. QED
    BY <1>2, <1>4, <2>2, <2>3, <2>4
<1>10. CASE SendData(p)
  <2> DEFINE u(n, full) == [tx[p] EXCEPT !.pos = @ + n,
                              !.state = IF full THEN "DATAACK" ELSE @,
                              !.timing = IF full THEN TRUE ELSE @]
             file == Batch[p][tx[p].file]
             x(n) == Packet("DATA", tx[p].pos, 0,
                            SubSeq(file, tx[p].pos + 1, tx[p].pos + n))
  <2>1. PICK n \in 1 .. BlockMax, full \in BOOLEAN :
          /\ tx[p].state = "XDATA" /\ tx[p].pos >= 0
          /\ tx[p].pos + n <= Len(file)
          /\ Send(p, u(n, full), <<x(n)>>)
    BY <1>10 DEF SendData
  <2>2. tx[p].pos \in Nat /\ n \in Nat /\ n >= 1
    <3>1. BlockMax \in Nat
      BY HydraAssumption DEF HydraAssumption
    <3>2. n \in 1 .. BlockMax /\ tx[p].pos >= 0
      BY <2>1
    <3>3. QED
      BY <1>1, <3>1, <3>2
  <2>3. /\ u(n, full).state \in {"XDATA", "DATAACK"} /\ u(n, full).file = tx[p].file
        /\ u(n, full).syncid = tx[p].syncid /\ u(n, full).lastack = tx[p].lastack
        /\ u(n, full).open = tx[p].open /\ u(n, full).pos = tx[p].pos + n
    BY <1>1, <2>1 DEF TxSet
  <2>4. x(n) \in Packets /\ x(n).type = "DATA"
    <3>1. file \in Seq(Units)
      <4>1. tx[p].file \in FilesOf(p)
        BY <2>1, Itself DEF TxOf, Sending
      <4>2. QED
        BY <4>1, BatchType
    <3> HIDE DEF file
    <3>2. SubSeq(file, tx[p].pos + 1, tx[p].pos + n) \in Seq(Units)
      <4>1. \A i \in (tx[p].pos + 1) .. (tx[p].pos + n) : file[i] \in Units
        BY <2>1, <2>2, <3>1
      <4>2. QED
        BY <2>2, <4>1, SubSeqProperties
    <3>3. QED
      BY <1>1, <3>2 DEF Packet, Packets, PacketTypes
  <2> DEFINE t == u(n, full)
  <2>5. Send(p, t, <<x(n)>>)
    BY <2>1
  <2>6. TxKept(tx[p], t) /\ t.pos \notin 0 .. (tx[p].pos - 1)
    <3> HIDE DEF u
    <3>1. QED
      BY <1>4, <2>1, <2>2, <2>3 DEF TxKept
  <2> HIDE DEF t, x
  <2>7. QED
    BY <1>2, <1>4, <2>4, <2>5, <2>6
<1>11. CASE SendEnd(p)
  <2> DEFINE s == <<Signal("END"), Signal("END")>>
             t == Waiting(p, "ENDACK")
  <2>1. Send(p, t, s)
    BY <1>11 DEF SendEnd
  <2>2. s \in Seq(Packets) /\ \A i \in 1 .. Len(s) : s[i].type \in SentTypes
    <3>1. s \in Seq(Packets) /\ Signal("END").type = "END"
      BY <1>4, SignalSeq
    <3>2. QED
      BY <1>4, <3>1
  <2>3. TxKept(tx[p], t) /\ t.pos \notin 0 .. (tx[p].pos - 1)
    BY <1>4, WaitingKept
  <2> HIDE DEF s, t
  <2>4. QED
    BY <2>1, <2>2, <2>3, SendServes
<1>12. CASE SendDevice(p)
  <2>1. Send(p, tx[p], <<>>) /\ <<>> \in Seq(Packets)
        /\ \A i \in 1 .. Len(<<>>) : <<>>[i].type \in SentTypes
    BY <1>12, EmptySeq DEF SendDevice
  <2>2. tx[p].pos \notin 0 .. (tx[p].pos - 1)
    BY <1>1
  <2>3. QED
    BY <2>1, <2>2, KeptItself, SendServes
<1>13. QED
  BY <1>5, <1>6, <1>7, <1>8, <1>9, <1>10, <1>11, <1>12 DEF Transmit

LEMMA TimersServe ==
  ASSUME TypeInv, TypeInv', RequestsHold, NEW p \in Peers, Timers(p)
  PROVE  Serves(p)
<1>1. line' = line => /\ Follows(line'[p], line[p], {})
                      /\ Follows(line'[Other(p)], line[Other(p)], {})
  BY LineSeq, FollowsItself DEF TypeInv
<1>2. {} \cap Asked = {} /\ {"IDLE"} \cap Asked = {}
  BY DEF Asked
<1>3. CASE StillHere(p)
  <2> DEFINE x == Signal("IDLE")
  <2>1. <<x>> \in Seq(Packets) /\ x.type = "IDLE"
    BY SignalSeq DEF PacketTypes
  <2>2. \A i \in 1 .. Len(<<x>>) : <<x>>[i].type \in {"IDLE"}
    BY <2>1
  <2>3. line'[p] = line[p] /\ Follows(line'[Other(p)], line[Other(p)], {"IDLE"})
    BY <1>3, <2>1, <2>2, OutFollows DEF StillHere, TypeInv
  <2>4. Follows(line'[p], line[p], {})
    BY <2>3, LineSeq, FollowsItself DEF TypeInv
  <2>5. Settle(p, tx[p], rx[p], dev[p], hdxlink[p])
    BY <1>3 DEF StillHere
  <2>6. QED
    BY <1>2, <2>3, <2>4, <2>5, KeptItself, SettleServes
<1>4. CASE DevRetry(p)
  <2> DEFINE d == [dev[p] EXCEPT !.retries = @ + 1, !.timing = FALSE,
                                 !.state = "DATA"]
  <2>1. CASE Abort(p)
    BY <2>1, AbortServes
  <2>2. CASE Settle(p, tx[p], rx[p], d, hdxlink[p]) /\ UNCHANGED <<line, Session>>
    <3>1. Settle(p, tx[p], rx[p], d, hdxlink[p]) /\ line' = line
      BY <2>2
    <3> HIDE DEF d
    <3>2. QED
      BY <1>1, <1>2, <3>1, KeptItself, SettleServes
  <2>3. QED
    BY <1>4, <2>1, <2>2 DEF DevRetry
<1>5. CASE BrainDead(p)
  BY <1>5, AbortServes DEF BrainDead
<1>6. CASE Retry(p)
  <2> DEFINE t == [tx[p] EXCEPT !.retries = @ + 1, !.timing = FALSE,
                                !.state = RetryOf(@)]
  <2>1. CASE Abort(p)
    BY <2>1, AbortServes
  <2>2. CASE Settle(p, t, rx[p], dev[p], hdxlink[p]) /\ UNCHANGED <<line, Session>>
    <3>1. t \in TxOf(p) /\ t.state = RetryOf(tx[p].state)
      BY RetriedType
    <3>2. /\ t.file = tx[p].file /\ t.syncid = tx[p].syncid
          /\ t.lastack = tx[p].lastack /\ t.open = tx[p].open /\ t.pos = tx[p].pos
      BY KeptItself DEF TxSet
    <3>3. Settle(p, t, rx[p], dev[p], hdxlink[p]) /\ line' = line
      BY <2>2
    <3> HIDE DEF t
    <3>4. /\ t.state \in Sending => tx[p].state \in Sending
          /\ t.state \in Early => tx[p].state \in Early
      BY <3>1 DEF RetryOf, Sending, Early, Handshake
    <3>5. TxKept(tx[p], t)
      BY <3>2, <3>4 DEF TxKept
    <3>6. QED
      BY <1>1, <1>2, <3>1, <3>2, <3>3, <3>5, KeptItself, SettleServes
  <2>3. QED
    BY <1>6, <2>1, <2>2 DEF Retry
<1>7. QED
  BY <1>3, <1>4, <1>5, <1>6 DEF Timers

\* A change of state alone, within one phase.
LEMMA RestartedKept ==
  ASSUME TypeInv, NEW p \in Peers, NEW s \in TxStates,
         s \in Sending => tx[p].state \in Sending,
         s \in Early => tx[p].state \in Early
  PROVE  /\ Restarted(tx[p], s) \in TxOf(p)
         /\ TxKept(tx[p], Restarted(tx[p], s))
         /\ Restarted(tx[p], s).pos = tx[p].pos
<1>1. tx[p] \in TxOf(p) /\ tx[p] \in TxSet
  BY KeptItself
<1>2. Restarted(tx[p], s) \in TxOf(p)
  <2>1. s \in Sending => tx[p].file \in FilesOf(p)
    BY <1>1 DEF TxOf
  <2>2. QED
    BY <1>1, <2>1, RestartedType
<1>3. /\ Restarted(tx[p], s).state = s /\ Restarted(tx[p], s).file = tx[p].file
      /\ Restarted(tx[p], s).open = tx[p].open
      /\ Restarted(tx[p], s).pos = tx[p].pos
      /\ Restarted(tx[p], s).syncid = tx[p].syncid
      /\ Restarted(tx[p], s).lastack = tx[p].lastack
  BY <1>1 DEF Restarted, TxSet
<1>4. QED
  BY <1>2, <1>3 DEF TxKept

LEMMA SessionServes ==
  ASSUME TypeInv, TypeInv', RequestsHold, NEW p \in Peers,
         \/ ReceiveStart(p) \/ ReceiveIdle(p) \/ ReceiveInit(p)
         \/ ReceiveInitack(p) \/ ReceiveCancel(p)
  PROVE  Serves(p)
<1>1. line[p] # <<>>
  BY DEF ReceiveStart, ReceiveIdle, ReceiveInit, ReceiveInitack,
         ReceiveCancel, Arrived
<1>2. ASSUME NEW s \in TxStates, s \in Sending => tx[p].state \in Sending,
             s \in Early => tx[p].state \in Early, NEW h,
             Settle(p, Restarted(tx[p], s), rx[p], dev[p], h), In(p, <<>>)
      PROVE  Serves(p)
  BY <1>1, <1>2, RestartedKept, SilentServes
<1>3. ASSUME NEW h, Settle(p, tx[p], rx[p], dev[p], h), In(p, <<>>)
      PROVE  Serves(p)
  BY <1>1, <1>3, KeptItself, SilentServes
<1>4. /\ {"INIT", "RINIT", "XDATA"} \subseteq TxStates
      /\ "INIT" \notin Sending /\ "RINIT" \notin Sending
      /\ "XDATA" \notin Early /\ "XWAIT" \in Sending
      /\ {"START", "SWAIT", "INIT", "INITACK"} \subseteq Early
  BY DEF TxStates, BeforeRend, Handshake, Sending, Early
<1>5. CASE ReceiveStart(p)
  <2>1. /\ \/ /\ tx[p].state \in {"START", "SWAIT"}
              /\ Settle(p, Restarted(tx[p], "INIT"), rx[p], dev[p], hdxlink[p])
           \/ Settle(p, tx[p], rx[p], dev[p], hdxlink[p])
        /\ In(p, <<>>)
    BY <1>5, Zenon DEF ReceiveStart
  <2>2. QED
    BY <1>2, <1>3, <1>4, <2>1
<1>6. CASE ReceiveInitack(p)
  <2>1. /\ \/ /\ tx[p].state \in {"INIT", "INITACK"}
              /\ Settle(p, Restarted(tx[p], "RINIT"), rx[p], dev[p], hdxlink[p])
           \/ Settle(p, tx[p], rx[p], dev[p], hdxlink[p])
        /\ In(p, <<>>)
    BY <1>6, Zenon DEF ReceiveInitack
  <2>2. QED
    BY <1>2, <1>3, <1>4, <2>1
<1>7. CASE ReceiveIdle(p)
  <2>1. PICK h : /\ \/ /\ tx[p].state = "XWAIT"
                       /\ Settle(p, Restarted(tx[p], "XDATA"), rx[p], dev[p], h)
                    \/ Settle(p, tx[p], rx[p], dev[p], h)
                 /\ In(p, <<>>)
    BY <1>7, Zenon DEF ReceiveIdle
  <2>2. QED
    BY <1>2, <1>3, <1>4, <2>1
<1>8. CASE ReceiveInit(p)
  <2>1. PICK r : /\ Settle(p, tx[p], r, dev[p], hdxlink[p])
                 /\ r = IF rx[p].state = "INIT"
                        THEN [rx[p] EXCEPT !.state = "FINFO"] ELSE rx[p]
    BY <1>8 DEF ReceiveInit
  <2>2. RxKept(rx[p], r)
    BY <2>1, KeptItself DEF RxKept, RxSet
  <2>3. In(p, <<Signal("INITACK")>>)
    BY <1>8 DEF ReceiveInit
  <2>4. Signal("INITACK") \in Packets /\ Signal("INITACK").type \notin Asked
    BY SignalSeq DEF PacketTypes, Asked
  <2>5. QED
    BY <1>1, <2>1, <2>2, <2>3, <2>4, KeptItself, TakenServes
<1>9. CASE ReceiveCancel(p)
  BY <1>9, AbortServes DEF ReceiveCancel
<1>10. QED
  BY <1>5, <1>6, <1>7, <1>8, <1>9

LEMMA ReceiveEndServes ==
  ASSUME TypeInv, TypeInv', RequestsHold, NEW p \in Peers, ReceiveEnd(p)
  PROVE  Serves(p)
<1> DEFINE s == <<Signal("END"), Signal("END"), Signal("END")>>
<1>1. line[p] # <<>>
  BY DEF ReceiveEnd, Arrived
<1>2. CASE tx[p].state \in {"END", "ENDACK"}
  <2>1. /\ Ends(p, "XFER_OK")
        /\ line' = [line EXCEPT ![p] = <<>>, ![Other(p)] = Sent(p, s)]
    BY <1>2 DEF ReceiveEnd
  <2>2. s \in Seq(Packets) /\ \A i \in 1 .. Len(s) : s[i].type \in {"END"}
    <3>1. "END" \in PacketTypes
      BY DEF PacketTypes
    <3>2. s \in Seq(Packets) /\ Signal("END").type = "END"
      BY <3>1, SignalSeq
    <3>3. QED
      BY <3>2
  <2> HIDE DEF s
  <2>3. Follows(Sent(p, s), line[Other(p)], {"END"})
    BY <2>2, SentFollows DEF TypeInv
  <2>4. line'[p] = <<>> /\ line'[Other(p)] = Sent(p, s)
    BY <2>1, OtherFacts DEF TypeInv, LineTyped
  <2>5. {"END"} \cap Asked = {}
    BY DEF Asked
  <2>6. QED
    BY <2>1, <2>3, <2>4, <2>5, EndsServes
<1>3. CASE tx[p].state \notin {"END", "ENDACK"}
  <2>1. Settle(p, tx[p], rx[p], dev[p], hdxlink[p]) /\ In(p, <<>>)
    BY <1>3 DEF ReceiveEnd
  <2>2. QED
    BY <1>1, <2>1, KeptItself, SilentServes
<1>4. QED
  BY <1>2, <1>3

LEMMA DeviceServes ==
  ASSUME TypeInv, TypeInv', RequestsHold, NEW p \in Peers,
         ReceiveDevdata(p) \/ ReceiveDevdack(p)
  PROVE  Serves(p)
<1>1. line[p] # <<>> /\ Head(line[p]).id \in Nat
  <2>1. line[p] # <<>>
    BY DEF ReceiveDevdata, ReceiveDevdack, Arrived
  <2>2. QED
    BY <2>1, HeadType DEF TypeInv
<1>2. CASE ReceiveDevdata(p)
  <2> DEFINE x == Device("DEVDACK", Head(line[p]).id)
  <2>1. x \in Packets /\ x.type \notin Asked
    BY <1>1, EmptySeq DEF Device, Packet, Packets, PacketTypes, Asked
  <2>2. PICK d : Settle(p, tx[p], rx[p], d, hdxlink[p]) /\ In(p, <<x>>)
    BY <1>2 DEF ReceiveDevdata
  <2> HIDE DEF x
  <2>3. QED
    BY <1>1, <2>1, <2>2, KeptItself, TakenServes
<1>3. CASE ReceiveDevdack(p)
  <2>1. PICK d : Settle(p, tx[p], rx[p], d, hdxlink[p]) /\ In(p, <<>>)
    BY <1>3 DEF ReceiveDevdack
  <2>2. QED
    BY <1>1, <2>1, KeptItself, SilentServes
<1>4. QED
  BY <1>2, <1>3

LEMMA UsersServe ==
  ASSUME TypeInv, TypeInv', RequestsHold, NEW p \in Peers,
         Chat(p) \/ UserAbort(p) \/ Lose(p)
  PROVE  Serves(p)
<1>1. /\ Other(p) \in Peers /\ Other(p) # p
      /\ Len(line[p]) \in Nat /\ Len(line[Other(p)]) \in Nat
      /\ line[p] \in Seq(Packets)
  BY LineSeq DEF TypeInv
<1>2. {} \cap Asked = {} /\ tx[p].pos \notin 0 .. (tx[p].pos - 1)
  BY KeptItself
<1>3. ASSUME tx' = tx, rx' = rx, Follows(line'[p], line[p], {}),
             Follows(line'[Other(p)], line[Other(p)], {})
      PROVE  Serves(p)
  <2>1. TxKept(tx[p], tx'[p]) /\ RxKept(rx[p], rx'[p])
    BY <1>3, KeptItself
  <2>2. tx'[p].pos \notin 0 .. (tx[p].pos - 1)
    BY <1>2, <1>3
  <2>3. QED
    BY <1>2, <1>3, <2>1, <2>2, KeptServes
<1>4. CASE Chat(p)
  <2>1. tx' = tx /\ rx' = rx /\ line' = line
    BY <1>4 DEF Chat
  <2>2. QED
    BY <1>1, <1>3, <2>1, FollowsItself
<1>5. CASE UserAbort(p)
  BY <1>5, AbortServes DEF UserAbort
<1>6. CASE Lose(p)
  <2>1. /\ tx' = tx /\ rx' = rx /\ line[p] # <<>>
        /\ line' = [line EXCEPT ![p] = Tail(line[p])]
    BY <1>6 DEF Lose
  <2>2. line'[p] = Tail(line[p]) /\ line'[Other(p)] = line[Other(p)]
    BY <1>1, <2>1 DEF TypeInv, LineTyped
  <2>3. /\ Follows(line'[p], line[p], {})
        /\ Follows(line'[Other(p)], line[Other(p)], {})
    BY <1>1, <2>1, <2>2, FollowsTail, FollowsItself
  <2>4. QED
    BY <1>3, <2>1, <2>3
<1>7. QED
  BY <1>4, <1>5, <1>6

-----------------------------------------------------------------------------
(***************************************************************************)
(* The transmitter takes an answer.                                        *)
(***************************************************************************)
LEMMA AnswerServes ==
  ASSUME TypeInv, TypeInv', RequestsHold, NEW p \in Peers, line[p] # <<>>,
         NEW t \in TxOf(p), NEW d, NEW h, Settle(p, t, rx[p], d, h), In(p, <<>>),
         Requests(t, rx[Other(p)], Tail(line[p])), Obeys(p)
  PROVE  Serves(p)
<1>1. /\ TxKept(t, tx'[p]) /\ tx'[Other(p)] = tx[Other(p)]
      /\ rx'[p] = rx[p] /\ rx'[Other(p)] = rx[Other(p)]
  BY SettleLeaves
<1>2. <<>> \in Seq(Packets) /\ \A i \in 1 .. Len(<<>>) : <<>>[i].type \in {}
  BY EmptySeq
<1>3. line'[p] = Tail(line[p]) /\ Follows(line'[Other(p)], line[Other(p)], {})
  BY <1>2, InFollows DEF TypeInv
<1>4. Mine(p)
  <2>1. Len(line'[p]) \in Nat
    BY LenProperties DEF TypeInv, LineTyped
  <2>2. Follows(line'[p], line'[p], {}) /\ {} \cap Asked = {}
    BY <2>1, FollowsItself
  <2>3. RxKept(rx[Other(p)], rx'[Other(p)])
    BY <1>1 DEF RxKept
  <2>4. Requests(t, rx[Other(p)], line'[p])
    BY <1>3
  <2>5. QED
    BY <1>1, <2>1, <2>2, <2>3, <2>4, RequestsKept DEF Mine
<1>5. Theirs(p)
  <2>1. RxKept(rx[p], rx'[p]) /\ {} \cap Asked = {}
    BY <1>1, KeptItself
  <2>2. QED
    BY <1>1, <1>3, <2>1, TheirsKept
<1>6. QED
  BY <1>1, <1>4, <1>5 DEF Serves

LEMMA DataackServes ==
  ASSUME TypeInv, TypeInv', RequestsHold, NEW p \in Peers, ReceiveDataack(p)
  PROVE  Serves(p)
<1> DEFINE t == tx[p]
           pos == Head(line[p]).pos
           acked == [t EXCEPT !.lastack = pos]
           r == rx[Other(p)]
<1>1. line[p] # <<>> /\ In(p, <<>>) /\ Head(line[p]).type = "DATAACK"
  BY DEF ReceiveDataack, Arrived
<1>2. t \in TxOf(p) /\ t \in TxSet /\ pos \in Int /\ r \in RxSet
      /\ line[p] \in Seq(Packets)
  BY <1>1, KeptItself, OtherFacts, HeadType, LineSeq DEF TypeInv
<1>3. /\ acked.state = t.state /\ acked.file = t.file /\ acked.open = t.open
      /\ acked.pos = t.pos /\ acked.syncid = t.syncid /\ acked.lastack = pos
      /\ acked \in TxSet
  BY <1>2 DEF TxSet
<1>4. Requests(t, r, line[p])
  BY DEF RequestsHold
<1>5. PICK u : /\ Settle(p, u, rx[p], dev[p], hdxlink[p])
               /\ \/ u = t \/ u = acked
                  \/ t.state = "DATAACK" /\ u = Restarted(acked, "XDATA")
                  \/ t.state = "DATAACK" /\ u = Restarted(t, "XDATA")
  BY Zenon DEF ReceiveDataack
<1> HIDE DEF acked
<1>6. \A a \in TxSet : LET b == Restarted(a, "XDATA")
                       IN /\ b.state = "XDATA" /\ b.file = a.file /\ b.open = a.open
                          /\ b.pos = a.pos /\ b.syncid = a.syncid
                          /\ b.lastack = a.lastack /\ b \in TxSet
  BY DEF Restarted, TxSet, TxStates, BeforeRend, Sending
<1>7. /\ u \in TxSet /\ u.file = t.file /\ u.open = t.open /\ u.pos = t.pos
      /\ u.syncid = t.syncid /\ (u.lastack = t.lastack \/ u.lastack = pos)
      /\ u.state = t.state \/ (t.state = "DATAACK" /\ u.state = "XDATA")
  BY <1>2, <1>3, <1>5, <1>6
<1>8. /\ u.state \in Sending => t.state \in Sending
      /\ u.state \in Early => t.state \in Early
  BY <1>7 DEF Sending, Early, Handshake
<1>9. u \in TxOf(p)
  <2> HIDE DEF t
  <2>1. QED
    BY <1>2, <1>7, <1>8 DEF TxOf
<1>10. Requests(u, r, Tail(line[p]))
  BY <1>1, <1>2, <1>4, <1>7, <1>8, RequestsTaken
<1>11. Obeys(p)
  <2>1. tx'[p].pos = u.pos
    BY <1>5, <1>9, SettleLeaves
  <2>2. tx'[p].pos \notin 0 .. (tx[p].pos - 1)
    BY <1>2, <1>7, <2>1, KeptItself
  <2>3. QED
    BY <2>2, OnwardObeys
<1>12. QED
  BY <1>1, <1>5, <1>9, <1>10, <1>11, AnswerServes

LEMMA RposServes ==
  ASSUME TypeInv, TypeInv', RequestsHold, NEW p \in Peers, ReceiveRpos(p)
  PROVE  Serves(p)
<1> DEFINE t == tx[p]
           m == Head(line[p])
           r == rx[Other(p)]
           v == Rewound(t, m.pos, m.id)
           again == [t EXCEPT !.retries = @ + 1]
           u == CASE t.state \in Sending /\ ~Repeats(t, m) -> v
                  [] Repeats(t, m) -> again
                  [] OTHER -> t
<1>1. line[p] # <<>> /\ m.type = "RPOS"
  BY DEF ReceiveRpos, Arrived
<1>2. t \in TxOf(p) /\ t \in TxSet /\ m.pos \in Int /\ m.id \in Nat /\ r \in RxSet
      /\ line[p] \in Seq(Packets) /\ t.pos \in Int
  BY <1>1, KeptItself, OtherFacts, HeadType, LineSeq DEF TypeInv
<1>3. Requests(t, r, line[p])
  BY DEF RequestsHold
<1>4. CASE Abort(p)
  BY <1>4, AbortServes
<1>5. CASE Settle(p, u, rx[p], dev[p], hdxlink[p]) /\ In(p, <<>>)
  <2>1. ASSUME NEW w \in TxOf(p), u = w, w.file = t.file, w.open = t.open,
               w.pos = t.pos, w.syncid = t.syncid, w.lastack = t.lastack,
               w.state = t.state
        PROVE  Serves(p)
    <3>1. TxKept(t, w)
      BY <2>1 DEF TxKept
    <3>2. Settle(p, w, rx[p], dev[p], hdxlink[p]) /\ In(p, <<>>)
      BY <1>5, <2>1
    <3>3. TxKept(tx[p], w) /\ w.pos = tx[p].pos
      BY <2>1, <3>1
    <3> HIDE DEF u, t
    <3>4. QED
      BY <1>1, <3>2, <3>3, SilentServes
  <2>2. CASE t.state \in Sending /\ ~Repeats(t, m)
    <3>1. u = v
      BY <2>2
    <3>2. v \in TxOf(p)
      BY <1>2, <2>2, RewoundType
    <3>3. /\ v.state \in Sending /\ v.file = t.file /\ v.syncid = m.id
          /\ v.lastack = t.lastack /\ (v.pos = m.pos \/ v.pos = Skip)
      BY <1>2, <2>2 DEF Rewound, TxSet, Sending
    <3>4. Settle(p, v, rx[p], dev[p], hdxlink[p]) /\ In(p, <<>>)
      BY <1>5, <3>1
    <3> HIDE DEF u, v
    <3>5. v.state \notin Early
      BY <3>3, EarlyNotSending
    <3>6. Requests(v, r, Tail(line[p]))
      BY <1>1, <1>2, <1>3, <2>2, <3>3, <3>5, RequestsTaken
    <3>7. Obeys(p)
      <4>1. tx'[p].pos = v.pos /\ TxKept(v, tx'[p])
        BY <3>2, <3>4, SettleLeaves
      <4>2. tx'[p].syncid = m.id /\ (tx'[p].pos = m.pos \/ tx'[p].pos = Skip)
        BY <3>3, <4>1 DEF TxKept
      <4>3. r.file = t.file /\ Asks(t, r, m)
        <5>1. 1 \in 1 .. Len(line[p]) /\ line[p][1] = m
          BY <1>1, TailFacts DEF TypeInv
        <5>2. QED
          BY <1>3, <2>2, <5>1 DEF Requests
      <4>4. m.id # t.syncid /\ t.syncid <= m.id /\ m.id <= r.syncid
            /\ (m.pos >= 0 => t.lastack <= m.pos)
        BY <1>1, <2>2, <4>3 DEF Asks, Repeats
      <4>5. t.syncid \in Nat /\ t.lastack \in Int /\ r.syncid \in Nat
        BY <1>2 DEF TxSet, RxSet
      <4>6. m.id \in (t.syncid + 1) .. r.syncid
        BY <1>2, <4>4, <4>5
      <4>7. ASSUME tx'[p].pos \in 0 .. (t.pos - 1)
            PROVE  tx'[p].pos >= t.lastack
        <5>1. tx'[p].pos >= 0
          BY <1>2, <4>7
        <5>2. tx'[p].pos = m.pos
          BY <4>2, <5>1 DEF Skip
        <5>3. QED
          BY <1>2, <4>4, <4>5, <5>1, <5>2
      <4>8. QED
        BY <4>2, <4>3, <4>6, <4>7 DEF Obeys, Rewinds
    <3>8. QED
      BY <1>1, <3>2, <3>4, <3>6, <3>7, AnswerServes
  <2>3. CASE Repeats(t, m)
    <3>1. u = again
      BY <2>3
    <3>2. /\ again \in TxSet /\ again.state = t.state /\ again.file = t.file
          /\ again.open = t.open /\ again.pos = t.pos
          /\ again.syncid = t.syncid /\ again.lastack = t.lastack
      <4>1. t.retries + 1 \in Nat
        BY <1>2 DEF TxSet
      <4>2. QED
        BY <1>2, <4>1 DEF TxSet
    <3> HIDE DEF u, again
    <3>3. again \in TxOf(p)
      BY <1>2, <3>2 DEF TxOf
    <3>4. QED
      BY <2>1, <3>1, <3>2, <3>3
  <2>4. CASE t.state \notin Sending /\ ~Repeats(t, m)
    <3>1. u = t
      BY <2>4
    <3> HIDE DEF u
    <3>2. QED
      BY <1>2, <2>1, <3>1
  <2>5. QED
    BY <2>2, <2>3, <2>4
<1>6. QED
  BY <1>4, <1>5 DEF ReceiveRpos

\* hydra() goes on with the next file.
LEMMA ReturnsServes ==
  ASSUME TypeInv, TypeInv', RequestsHold, NEW p \in Peers, Running(p),
         line[p] # <<>>, NEW x, Returns(p, x), In(p, <<>>),
         tx[p].file \in FilesOf(p), None(Tail(line[p]), Asked)
  PROVE  Serves(p)
<1> DEFINE j == Openable(p, tx[p].file + 1)
<1>1. /\ tx'[p] = Begun(p, tx[p], tx[p].file + 1)
      /\ tx'[Other(p)] = tx[Other(p)] /\ rx' = rx
      /\ tx'[p].state = "FINFO" /\ tx'[p].file = j
      /\ tx'[p].open = TRUE <=> tx'[p].file <= Len(Batch[p])
  BY ReturnsTx
<1>2. tx[p] \in TxSet
  BY KeptItself
<1>3. j <= Len(Batch[p]) => tx'[p].syncid = 0
  <2>1. tx'[p].syncid = IF j <= Len(Batch[p]) THEN 0 ELSE tx[p].syncid
    BY <1>1, <1>2 DEF Begun, TxSet
  <2>2. QED
    BY <2>1
<1>4. /\ line'[p] = Tail(line[p])
      /\ Follows(line'[Other(p)], line[Other(p)], {})
  <2>1. <<>> \in Seq(Packets) /\ \A i \in 1 .. Len(<<>>) : <<>>[i].type \in {}
    BY EmptySeq
  <2>2. QED
    BY <2>1, InFollows DEF TypeInv
<1>5. Mine(p)
  <2>1. tx'[p].state \notin Sending
    BY <1>1 DEF Sending
  <2>2. QED
    BY <1>1, <1>3, <1>4, <2>1, RequestsNone DEF Mine
<1>6. Theirs(p)
  <2>1. RxKept(rx[p], rx'[p]) /\ {} \cap Asked = {}
    BY <1>1, KeptItself
  <2>2. QED
    BY <1>1, <1>4, <2>1, TheirsKept
<1>7. Obeys(p)
  <2>1. tx[p].file \in Nat /\ tx[p].file + 1 \in 1 .. (Len(Batch[p]) + 1)
    BY <1>2, FileBefore DEF TxSet
  <2>2. j \in (tx[p].file + 1) .. (Len(Batch[p]) + 1)
    BY <2>1, OpenableFacts
  <2>3. tx'[p].file # tx[p].file
    BY <1>1, <2>1, <2>2
  <2>4. QED
    BY <2>3 DEF Obeys, Rewinds
<1>8. QED
  BY <1>1, <1>5, <1>6, <1>7 DEF Serves

LEMMA FinfoackServes ==
  ASSUME TypeInv, TypeInv', FilesHold, RequestsHold, NEW p \in Peers,
         ReceiveFinfoack(p)
  PROVE  Serves(p)
<1> DEFINE pos == Head(line[p]).pos
           r == rx[Other(p)]
           closing == [tx[p] EXCEPT !.state = "REND", !.retries = 0,
                                    !.timing = TRUE]
           started == [Restarted(tx[p], "XDATA") EXCEPT !.pos = pos,
                                                        !.lastack = pos]
<1>1. Running(p) /\ line[p] # <<>> /\ In(p, <<>>)
      /\ Head(line[p]).type = "FINFOACK"
  BY DEF ReceiveFinfoack, Arrived
<1>2. /\ tx[p] \in TxOf(p) /\ tx[p] \in TxSet /\ pos \in Int
      /\ tx[p].open \in BOOLEAN /\ r \in RxSet /\ line[p] \in Seq(Packets)
  BY <1>1, KeptItself, OtherFacts, HeadType, LineSeq DEF TypeInv, TxSet
<1>3. Requests(tx[p], r, line[p])
  BY DEF RequestsHold
<1>4. /\ Files(p, tx[p], r, line[Other(p)], line[p], part[Other(p)],
               saved[Other(p)], tx[Other(p)].state)
      /\ Agreed(p, tx[p], r, line[Other(p)], line[p], saved[Other(p)])
  BY <1>1, <1>2, Both, FinfoackFacts
<1>5. /\ tx[p].state = "FINFOACK" /\ None(Tail(line[p]), AnswerTypes)
      /\ tx[p].open = TRUE /\ pos >= 0 => r.state = "DATA"
  BY <1>4 DEF Agreed
<1>6. tx[p].state \in Early /\ tx[p].state \notin Sending
  BY <1>5 DEF Early, Sending
<1>7. ASSUME NEW t \in TxOf(p), Settle(p, t, rx[p], dev[p], hdxlink[p]),
             Requests(t, r, Tail(line[p]))
      PROVE  Serves(p)
  <2>1. Obeys(p)
    BY <1>6 DEF Obeys, Rewinds
  <2>2. QED
    BY <1>1, <1>7, <2>1, AnswerServes
<1>8. CASE tx[p].open = TRUE /\ pos < 0
  <2>1. PICK x : Returns(p, x)
    BY <1>5, <1>8, Zenon DEF ReceiveFinfoack
  <2>2. tx[p].file \in FilesOf(p)
    BY <1>2, <1>8 DEF TxOf
  <2>3. None(Tail(line[p]), Asked)
    <3>1. None(line[p], {"RPOS", "DATAACK"})
      BY <1>3, <1>6 DEF Requests
    <3>2. Follows(Tail(line[p]), line[p], {}) /\ {} \cap {"RPOS", "DATAACK"} = {}
      BY <1>1, TailFacts DEF TypeInv
    <3>3. None(Tail(line[p]), {"RPOS", "DATAACK"})
      BY <3>1, <3>2, FollowsNone
    <3>4. QED
      BY <1>5, <3>3 DEF None, Asked, AnswerTypes
  <2>4. QED
    BY <1>1, <2>1, <2>2, <2>3, ReturnsServes
<1>9. CASE tx[p].open = FALSE
  <2>1. Settle(p, closing, rx[p], dev[p], hdxlink[p])
    BY <1>5, <1>9, Zenon DEF ReceiveFinfoack
  <2>2. closing.state = "REND" /\ closing.file = tx[p].file /\ closing.open = FALSE
    BY <1>2, <1>9 DEF TxSet
  <2>3. closing \in TxSet
    BY <1>2 DEF TxSet, TxStates
  <2> HIDE DEF closing
  <2>4. closing \in TxOf(p)
    BY <2>2, <2>3 DEF TxOf, Sending
  <2>5. Requests(closing, r, Tail(line[p]))
    BY <2>2 DEF Requests, Sending, Early, Handshake
  <2>6. QED
    BY <1>7, <2>1, <2>4, <2>5
<1>10. CASE tx[p].open = TRUE /\ ~(pos < 0)
  <2>1. Settle(p, started, rx[p], dev[p], hdxlink[p])
    BY <1>5, <1>10, Zenon DEF ReceiveFinfoack
  <2>2. /\ started.state = "XDATA" /\ started.file = tx[p].file
        /\ started.syncid = tx[p].syncid /\ started.lastack = pos
    BY <1>2, <1>10 DEF Restarted, TxSet
  <2>3. started \in TxSet
    BY <1>2 DEF Restarted, TxSet, TxStates, BeforeRend, Sending
  <2>4. tx[p].file \in FilesOf(p)
    BY <1>2, <1>10 DEF TxOf
  <2> HIDE DEF started
  <2>5. started \in TxOf(p) /\ started.state \in Sending
    BY <2>2, <2>3, <2>4 DEF TxOf, Sending
  <2>6. r.state = "DATA" /\ r.file = tx[p].file
    BY <1>2, <1>4, <1>5, <1>10 DEF Files, Copies
  <2>7. Requests(started, r, Tail(line[p]))
    BY <1>1, <1>2, <1>3, <1>6, <1>10, <2>2, <2>5, <2>6, RequestsBegin
  <2>8. QED
    BY <1>7, <2>1, <2>5, <2>7
<1>11. QED
  BY <1>2, <1>8, <1>9, <1>10

LEMMA EofackServes ==
  ASSUME TypeInv, TypeInv', FilesHold, RequestsHold, NEW p \in Peers,
         ReceiveEofack(p)
  PROVE  Serves(p)
<1> DEFINE r == rx[Other(p)]
           R == line[p]
<1>1. Running(p) /\ line[p] # <<>> /\ In(p, <<>>) /\ Head(R).type = "EOFACK"
  BY DEF ReceiveEofack, Arrived
<1>2. CASE tx[p].state \in {"EOF", "EOFACK"}
  <2>1. PICK x : Returns(p, x)
    BY <1>2, Zenon DEF ReceiveEofack
  <2>2. tx[p].state \in Sending /\ tx[p] \in TxOf(p)
    BY <1>2, KeptItself DEF Sending
  <2>3. tx[p].file \in FilesOf(p)
    BY <2>2 DEF TxOf
  <2>4. None(Tail(R), Asked)
    <3>1. Ordered(R)
      BY <2>2 DEF Requests, RequestsHold
    <3>2. /\ Len(R) \in Nat /\ 1 \in 1 .. Len(R) /\ R[1] = Head(R)
          /\ Len(Tail(R)) = Len(R) - 1
          /\ \A i \in 1 .. Len(Tail(R)) : Tail(R)[i] = R[i + 1]
      BY <1>1, LineSeq, LenProperties, HeadTailProperties DEF TypeInv
    <3>3. None(R, {"FINFOACK"})
      <4>1. Files(p, tx[p], r, line[Other(p)], R, part[Other(p)],
                  saved[Other(p)], tx[Other(p)].state)
        BY Both
      <4>2. tx[p].state \notin {"FINFOACK", "DONE"}
        BY <1>2
      <4>3. QED
        BY <4>1, <4>2, NotAsked
    <3> HIDE DEF R
    <3>4. ASSUME NEW i \in 1 .. Len(Tail(R)) PROVE Tail(R)[i].type \notin Asked
      <4>1. i + 1 \in (1 + 1) .. Len(R) /\ i + 1 \in 1 .. Len(R)
        BY <3>2
      <4>2. InOrder(R[1], R[i + 1])
        BY <3>1, <3>2, <4>1 DEF Ordered
      <4>3. R[i + 1].type \notin {"RPOS", "DATAACK"}
        BY <1>1, <3>2, <4>2 DEF InOrder
      <4>4. R[i + 1].type # "FINFOACK"
        BY <3>3, <4>1 DEF None
      <4>5. QED
        BY <3>2, <4>3, <4>4 DEF Asked
    <3>5. QED
      BY <3>4 DEF None
  <2>5. QED
    BY <1>1, <2>1, <2>3, <2>4, ReturnsServes
<1>3. CASE tx[p].state \notin {"EOF", "EOFACK"}
  <2>1. Settle(p, tx[p], rx[p], dev[p], hdxlink[p])
    BY <1>3 DEF ReceiveEofack
  <2>2. QED
    BY <1>1, <2>1, KeptItself, SilentServes
<1>4. QED
  BY <1>2, <1>3

-----------------------------------------------------------------------------
(***************************************************************************)
(* The receiver answers.                                                   *)
(***************************************************************************)
LEMMA ReceivedServes ==
  ASSUME TypeInv, TypeInv', RequestsHold, NEW p \in Peers, line[p] # <<>>,
         NEW r, NEW d, NEW h, Settle(p, tx[p], r, d, h),
         NEW s \in Seq(Packets), In(p, s),
         Requests(tx[Other(p)], r, Sent(p, s))
  PROVE  Serves(p)
<1>1. /\ TxKept(tx[p], tx'[p]) /\ tx'[p].pos = tx[p].pos
      /\ tx'[Other(p)] = tx[Other(p)]
      /\ rx'[p] = r /\ rx'[Other(p)] = rx[Other(p)]
  BY KeptItself, SettleLeaves
<1>2. /\ Follows(line'[p], line[p], {}) /\ line'[Other(p)] = Sent(p, s)
  <2> DEFINE types == {s[i].type : i \in 1 .. Len(s)}
  <2>1. \A i \in 1 .. Len(s) : s[i].type \in types
    OBVIOUS
  <2> HIDE DEF types
  <2>2. QED
    BY <2>1, InFollows DEF TypeInv
<1>3. Mine(p)
  BY <1>1, <1>2, MineKept
<1>4. Theirs(p)
  BY <1>1, <1>2 DEF Theirs
<1>5. Obeys(p)
  <2>1. tx'[p].pos \notin 0 .. (tx[p].pos - 1)
    BY <1>1, KeptItself
  <2>2. QED
    BY <2>1, OnwardObeys
<1>6. QED
  BY <1>1, <1>3, <1>4, <1>5 DEF Serves

\* While data of a file arrive, the other transmitter is sending it, and the
\* end has not been acknowledged.
LEMMA WhileReceiving ==
  ASSUME TypeInv, FilesHold, NEW p \in Peers, line[p] # <<>>,
         Head(line[p]).type \in {"DATA", "EOF"}, rx[p].state = "DATA"
  PROVE  /\ tx[Other(p)].state \notin Early
         /\ tx[Other(p)].state \in Sending => None(line[Other(p)], {"EOFACK"})
<1> DEFINE q == Other(p)
<1>1. Files(q, tx[q], rx[p], line[p], line[q], part[p], saved[p], tx[p].state)
  BY Both
<1>2. 1 \in 1 .. Len(line[p]) /\ line[p][1] = Head(line[p])
  BY TailFacts DEF TypeInv
<1>3. ~None(line[p], {"DATA", "EOF"})
  BY <1>2 DEF None
<1>4. tx[q].state \in {"DONE"} \cup Sending
  BY <1>1, <1>3 DEF Files, Copies
<1>5. tx[q].state \notin Early
  BY <1>4 DEF Early, Handshake, Sending
<1>6. tx[q].state \in Sending => None(line[q], {"EOFACK"})
  BY <1>1 DEF Files, Streams, None
<1>7. QED
  BY <1>5, <1>6

\* The answer to data, and a request.
LEMMA AsksServes ==
  ASSUME TypeInv, TypeInv', FilesHold, RequestsHold, NEW p \in Peers,
         line[p] # <<>>, Head(line[p]).type \in {"DATA", "EOF"},
         rx[p].state = "DATA",
         NEW r \in RxSet, r.file = rx[p].file, rx[p].syncid <= r.syncid,
         r.pos >= 0 => rx[p].pos >= 0 /\ rx[p].pos <= r.pos,
         NEW x \in Packets,
         \/ x.type = "RPOS" /\ x.id = r.syncid /\ x.pos = r.pos
         \/ x.type = "DATAACK" /\ x.pos = r.pos,
         NEW d, NEW h, Settle(p, tx[p], r, d, h), In(p, <<>>) \/ In(p, <<x>>)
  PROVE  Serves(p)
<1> DEFINE q == Other(p)
<1>1. /\ q \in Peers /\ line[q] \in Seq(Packets) /\ tx[q] \in TxSet /\ rx[p] \in RxSet
      /\ Requests(tx[q], rx[p], line[q])
  BY OtherFacts, LineSeq, KeptItself DEF TypeInv, RequestsHold
<1>2. /\ tx[q].state \notin Early
      /\ tx[q].state \in Sending => None(line[q], {"EOFACK"})
  BY WhileReceiving
<1>3. CASE In(p, <<>>)
  <2>1. Follows(Sent(p, <<>>), line[q], {}) /\ <<>> \in Seq(Packets)
    BY SentNothing, EmptySeq DEF TypeInv
  <2>2. Len(Sent(p, <<>>)) \in Nat
    BY <2>1, SentSeq DEF TypeInv
  <2>3. Requests(tx[q], r, Sent(p, <<>>))
    BY <1>1, <1>2, <2>1, <2>2, RequestsMade
  <2>4. QED
    BY <1>3, <2>1, <2>3, ReceivedServes
<1>4. CASE In(p, <<x>>)
  <2>1. Adds(Sent(p, <<x>>), line[q], x) /\ <<x>> \in Seq(Packets)
    BY SentAdds, OneInSeq DEF TypeInv
  <2>2. Len(Sent(p, <<x>>)) \in Nat
    BY <2>1, SentSeq DEF TypeInv
  <2>3. Requests(tx[q], r, Sent(p, <<x>>))
    BY <1>1, <1>2, <2>1, <2>2, RequestsMade
  <2>4. QED
    BY <1>4, <2>1, <2>3, ReceivedServes
<1>5. QED
  BY <1>3, <1>4

LEMMA MisplacedServes ==
  ASSUME TypeInv, TypeInv', FilesHold, RequestsHold, NEW p \in Peers,
         line[p] # <<>>, Head(line[p]).type \in {"DATA", "EOF"},
         rx[p].state = "DATA", NEW pos \in Int, NEW may, Misplaced(p, pos, may)
  PROVE  Serves(p)
<1> DEFINE r == IF pos <= rx[p].lastsync
                THEN [rx[p] EXCEPT !.lastsync = pos, !.timing = FALSE,
                                   !.retries = 0]
                ELSE [rx[p] EXCEPT !.lastsync = pos]
           asked(tries) == [r EXCEPT !.retries = tries, !.timing = TRUE,
                              !.syncid = IF tries = 1 THEN @ + 1 ELSE @]
           falls == /\ may /\ r.retries > OneWayRetries
                    /\ tx[p].state \in BeforeRend
                    /\ p \notin Originators /\ ~hdxlink[p]
           tries1 == IF falls THEN 1 ELSE r.retries + 1
<1>1. rx[p] \in RxSet
  BY KeptItself
<1>2. /\ r \in RxSet /\ r.state = rx[p].state /\ r.pos = rx[p].pos
      /\ r.file = rx[p].file /\ r.syncid = rx[p].syncid
  <2>1. [rx[p] EXCEPT !.lastsync = pos, !.timing = FALSE, !.retries = 0] \in RxSet
    BY <1>1 DEF RxSet
  <2>2. [rx[p] EXCEPT !.lastsync = pos] \in RxSet
    BY <1>1 DEF RxSet
  <2>3. QED
    BY <1>1, <2>1, <2>2 DEF RxSet
<1>3. \/ Abort(p)
      \/ Settle(p, tx[p], r, dev[p], hdxlink[p]) /\ In(p, <<>>)
      \/ /\ Settle(p, tx[p], asked(tries1), dev[p], hdxlink[p] \/ falls)
         /\ In(p, <<Rpos(r.pos, asked(tries1).syncid)>>)
  BY Zenon DEF Misplaced
<1>4. tries1 \in Nat
  BY <1>2 DEF RxSet
<1> HIDE DEF r, falls, tries1
<1>5. RxKept(rx[p], r)
  BY <1>2 DEF RxKept
<1>6. ASSUME NEW tries \in Nat
      PROVE  /\ asked(tries) \in RxSet /\ asked(tries).pos = rx[p].pos
             /\ asked(tries).file = rx[p].file
             /\ rx[p].syncid <= asked(tries).syncid
  <2>1. r.syncid \in Nat /\ r.syncid + 1 \in Nat
    BY <1>2 DEF RxSet
  <2>2. asked(tries) \in RxSet
    BY <1>2, <2>1 DEF RxSet
  <2>3. QED
    BY <1>2, <2>1, <2>2 DEF RxSet
<1> HIDE DEF asked
<1>7. CASE Abort(p)
  BY <1>7, AbortServes
<1>8. CASE Settle(p, tx[p], r, dev[p], hdxlink[p]) /\ In(p, <<>>)
  <2>1. Signal("IDLE") \in Packets /\ Signal("IDLE").type \notin Asked
    BY SignalSeq DEF PacketTypes, Asked
  <2>2. QED
    BY <1>5, <1>8, <2>1, KeptItself, TakenServes
<1>9. ASSUME NEW h, Settle(p, tx[p], asked(tries1), dev[p], h),
             In(p, <<Rpos(r.pos, asked(tries1).syncid)>>)
      PROVE  Serves(p)
  <2> DEFINE a == asked(tries1)
             x == Rpos(r.pos, a.syncid)
  <2>1. /\ a \in RxSet /\ a.pos = rx[p].pos /\ a.file = rx[p].file
        /\ rx[p].syncid <= a.syncid
    BY <1>4, <1>6
  <2>2. a.pos \in Int /\ a.syncid \in Nat
    BY <2>1 DEF RxSet
  <2>3. x \in Packets /\ x.type = "RPOS" /\ x.pos = a.pos /\ x.id = a.syncid
    BY <1>2, <2>1, <2>2, RposPacket DEF Rpos, Packet
  <2>4. Settle(p, tx[p], a, dev[p], h) /\ In(p, <<x>>)
    BY <1>9
  <2>5. a.pos >= 0 => rx[p].pos >= 0 /\ rx[p].pos <= a.pos
    BY <2>1, <2>2
  <2> HIDE DEF a, x
  <2>6. QED
    BY <2>1, <2>3, <2>4, <2>5, AsksServes
<1>10. QED
  BY <1>3, <1>7, <1>8, <1>9

LEMMA ReceiverServes ==
  ASSUME TypeInv, TypeInv', FilesHold, RequestsHold, NEW p \in Peers,
         ReceiveData(p) \/ WriteError(p) \/ ReceiveEof(p)
  PROVE  Serves(p)
<1> DEFINE m == Head(line[p])
<1>1. /\ line[p] # <<>> /\ m.type \in {"DATA", "EOF"} /\ rx[p] \in RxSet
      /\ m.pos \in Int /\ m.data \in Seq(Units) /\ Len(m.data) \in Nat
  <2>1. line[p] # <<>> /\ m.type \in {"DATA", "EOF"}
    BY DEF ReceiveData, WriteError, ReceiveEof, Arrived
  <2>2. QED
    BY <2>1, KeptItself, HeadType, LenProperties DEF TypeInv
<1> HIDE DEF m
<1>2. ASSUME Settle(p, tx[p], rx[p], dev[p], hdxlink[p]), In(p, <<>>)
      PROVE  Serves(p)
  BY <1>1, <1>2, KeptItself, SilentServes
<1>3. ASSUME rx[p].state = "DATA", NEW may, Misplaced(p, m.pos, may)
      PROVE  Serves(p)
  BY <1>1, <1>3, MisplacedServes DEF m
<1>4. CASE ReceiveData(p)
  <2> DEFINE pos == rx[p].pos + Len(m.data)
             r == [rx[p] EXCEPT !.pos = pos, !.lastsync = rx[p].pos,
                                !.retries = 0, !.timing = FALSE]
             x == Position("DATAACK", pos)
  <2>1. \/ Settle(p, tx[p], rx[p], dev[p], hdxlink[p]) /\ In(p, <<>>)
        \/ rx[p].state = "DATA" /\ Misplaced(p, m.pos, TRUE)
        \/ /\ rx[p].state = "DATA" /\ InPlace(p)
           /\ Settle(p, tx[p], r, dev[p], hdxlink[p])
           /\ In(p, IF Window(Other(p)) # 0 THEN <<x>> ELSE <<>>)
    BY <1>4, Zenon DEF ReceiveData, m
  <2>2. pos \in Int /\ rx[p].pos \in Int /\ rx[p].syncid \in Nat /\ rx[p].pos <= pos
    BY <1>1 DEF RxSet
  <2>3. x \in Packets /\ x.type = "DATAACK" /\ x.pos = pos
    <3>1. "DATAACK" \in PacketTypes
      BY DEF PacketTypes
    <3>2. QED
      BY <2>2, <3>1, PositionPacket
  <2>4. /\ r \in RxSet /\ r.file = rx[p].file /\ r.syncid = rx[p].syncid
        /\ r.pos = pos
    BY <1>1, <2>2 DEF RxSet
  <2>5. CASE /\ rx[p].state = "DATA" /\ InPlace(p)
             /\ Settle(p, tx[p], r, dev[p], hdxlink[p])
             /\ In(p, IF Window(Other(p)) # 0 THEN <<x>> ELSE <<>>)
    <3>1. In(p, <<>>) \/ In(p, <<x>>)
      BY <2>5
    <3>2. rx[p].pos >= 0
      <4>1. m.type = "DATA"
        BY <1>4 DEF ReceiveData, Arrived, m
      <4>2. m.pos = rx[p].pos
        BY <2>5 DEF InPlace, m
      <4>3. m.pos >= 0
        <5> DEFINE q == Other(p)
        <5>1. Files(q, tx[q], rx[p], line[p], line[q], part[p], saved[p], tx[p].state)
          BY Both
        <5>2. 1 \in 1 .. Len(line[p]) /\ line[p][1] = m
          BY <1>1, TailFacts DEF TypeInv, m
        <5>3. IsPiece(m, Batch[q][tx[q].file])
          BY <2>5, <4>1, <5>1, <5>2 DEF Files, Copies
        <5>4. QED
          BY <5>3 DEF IsPiece
      <4>4. QED
        BY <4>2, <4>3
    <3>3. r.pos >= 0 => rx[p].pos >= 0 /\ rx[p].pos <= r.pos
      BY <2>2, <2>4, <3>2
    <3>4. rx[p].syncid <= r.syncid
      BY <2>2, <2>4
    <3>5. x.type = "DATAACK" /\ x.pos = r.pos
      BY <2>3, <2>4
    <3> HIDE DEF r, x
    <3>6. QED
      BY <1>1, <2>3, <2>4, <2>5, <3>1, <3>3, <3>4, <3>5, AsksServes DEF m
  <2> HIDE DEF r, x
  <2>6. QED
    BY <1>2, <1>3, <2>1, <2>5
<1>5. CASE WriteError(p)
  <2> DEFINE r == [rx[p] EXCEPT !.pos = Skip, !.retries = 1, !.timing = TRUE,
                                !.syncid = @ + 1]
             x == Rpos(Skip, r.syncid)
  <2>1. /\ rx[p].state = "DATA" /\ Settle(p, tx[p], r, dev[p], hdxlink[p])
        /\ In(p, <<x>>)
    BY <1>5 DEF WriteError
  <2>2. rx[p].syncid \in Nat /\ rx[p].syncid + 1 \in Nat
    BY <1>1 DEF RxSet
  <2>3. /\ r \in RxSet /\ r.file = rx[p].file /\ r.syncid = rx[p].syncid + 1
        /\ r.pos = Skip
    <3>1. Skip \in Int
      BY DEF Skip
    <3>2. r = [rx[p] EXCEPT !.pos = Skip, !.retries = 1, !.timing = TRUE,
                            !.syncid = rx[p].syncid + 1]
      OBVIOUS
    <3>3. /\ r \in RxSet /\ r.syncid = rx[p].syncid + 1 /\ r.pos = Skip
          /\ r.file = rx[p].file
      <4> HIDE DEF r
      <4>1. DOMAIN rx[p] = {"state", "file", "pos", "syncid", "lastsync",
                            "retries", "timing"}
        BY <1>1 DEF RxSet
      <4>2. r.file = rx[p].file
        BY <1>1, <3>2 DEF RxSet
      <4>3. r.syncid = rx[p].syncid + 1 /\ r.pos = Skip
        BY <3>2, <4>1
      <4>4. r \in RxSet
        BY <1>1, <2>2, <3>1, <3>2 DEF RxSet
      <4>5. QED
        BY <4>2, <4>3, <4>4
    <3>4. QED
      BY <3>3
  <2> HIDE DEF r
  <2>4. rx[p].syncid <= r.syncid /\ ~(r.pos >= 0) /\ r.syncid \in Nat
    BY <2>2, <2>3 DEF Skip
  <2>5. x \in Packets /\ x.type = "RPOS" /\ x.pos = r.pos /\ x.id = r.syncid
    BY <2>3, <2>4, RposPacket DEF Rpos, Packet, Skip
  <2> HIDE DEF x
  <2>6. QED
    BY <1>1, <2>1, <2>3, <2>4, <2>5, AsksServes DEF m
<1>6. CASE ReceiveEof(p)
  <2>1. ASSUME Acknowledges(p) PROVE Serves(p)
    <3> DEFINE r == [rx[p] EXCEPT !.state = "FINFO"]
    <3>1. Settle(p, tx[p], r, dev[p], hdxlink[p]) /\ In(p, <<Signal("EOFACK")>>)
      BY <2>1 DEF Acknowledges
    <3>2. RxKept(rx[p], r)
      BY <1>1 DEF RxKept, RxSet
    <3>3. Signal("EOFACK") \in Packets /\ Signal("EOFACK").type \notin Asked
      BY SignalSeq DEF PacketTypes, Asked
    <3> HIDE DEF r
    <3>4. QED
      BY <1>1, <3>1, <3>2, <3>3, KeptItself, TakenServes
  <2>2. \/ Acknowledges(p)
        \/ rx[p].state = "DATA" /\ Misplaced(p, m.pos, FALSE)
        \/ Settle(p, tx[p], rx[p], dev[p], hdxlink[p]) /\ In(p, <<>>)
    BY <1>6, Zenon DEF ReceiveEof, m
  <2>3. QED
    BY <1>2, <1>3, <2>1, <2>2
<1>7. QED
  BY <1>4, <1>5, <1>6

LEMMA FinfoServes ==
  ASSUME TypeInv, TypeInv', FilesHold, RequestsHold, NEW p \in Peers,
         ReceiveFinfo(p)
  PROVE  Serves(p)
<1> DEFINE k == Head(line[p]).id
           r == rx[p]
           q == Other(p)
           begun == [r EXCEPT !.state = "DATA", !.file = k,
                        !.pos = Len(part[p][k]), !.timing = FALSE,
                        !.retries = 0, !.lastsync = 0, !.syncid = 0]
           finished == [r EXCEPT !.pos = 0, !.state = "DONE"]
<1>1. /\ line[p] # <<>> /\ Head(line[p]).type = "FINFO" /\ r \in RxSet
      /\ q \in Peers /\ Len(line[q]) \in Nat
  BY KeptItself, OtherFacts, LineSeq DEF ReceiveFinfo, Arrived, TypeInv
<1>2. tx[q].state \in {"FINFOACK", "DONE"} /\ None(line[q], {"FINFOACK"})
  <2>1. Files(q, tx[q], rx[p], line[p], line[q], part[p], saved[p], tx[p].state)
    BY Both
  <2>2. 1 \in 1 .. Len(line[p]) /\ line[p][1] = Head(line[p])
    BY <1>1, TailFacts DEF TypeInv
  <2>3. QED
    BY <1>1, <2>1, <2>2 DEF Files, Offers
<1>3. tx[q].state \notin Sending
  BY <1>2 DEF Sending
<1>4. ASSUME NEW r2, Answers(p, r2), r2.pos \in Int
      PROVE  Serves(p)
  <2> DEFINE x == Position("FINFOACK", r2.pos)
  <2>1. Settle(p, tx[p], r2, dev[p], hdxlink[p]) /\ In(p, <<x>>)
    BY <1>4 DEF Answers
  <2>2. x \in Packets /\ x.type = "FINFOACK" /\ x.pos = r2.pos
    BY <1>4, PositionPacket DEF PacketTypes
  <2> HIDE DEF x
  <2>3. Adds(Sent(p, <<x>>), line[q], x) /\ <<x>> \in Seq(Packets)
    BY <2>2, SentAdds, OneInSeq DEF TypeInv
  <2>4. Requests(tx[q], r, line[q])
    BY <1>1, OtherFacts DEF RequestsHold
  <2>5. Requests(tx[q], r2, Sent(p, <<x>>))
    BY <1>1, <1>2, <1>3, <2>2, <2>3, <2>4, RequestsOffered
  <2>6. QED
    BY <1>1, <2>1, <2>3, <2>5, ReceivedServes
<1>5. CASE Answers(p, finished)
  <2>1. finished.pos = 0
    BY <1>1 DEF RxSet
  <2> HIDE DEF finished
  <2>2. QED
    BY <1>4, <1>5, <2>1
<1>6. ASSUME NEW n \in Int, Answers(p, [r EXCEPT !.pos = n]) PROVE Serves(p)
  <2>1. [r EXCEPT !.pos = n].pos = n
    BY <1>1 DEF RxSet
  <2>2. QED
    BY <1>4, <1>6, <2>1
<1>7. CASE k # 0 /\ Answers(p, begun)
  <2>1. begun.pos \in Int
    <3>1. k \in FilesOf(q)
      <4>1. Head(line[p]) \in PacketsTo(p)
        BY <1>1, HeadType DEF TypeInv
      <4>2. k \in 0 .. Len(Batch[q]) /\ Len(Batch[q]) \in Nat
        BY <1>1, <4>1, BatchType DEF PacketsTo
      <4>3. QED
        BY <1>7, <4>2 DEF FilesOf
    <3>2. Len(part[p][k]) \in Nat
      BY <3>1, DisksTyped, LenProperties
    <3>3. begun.pos = Len(part[p][k])
      BY <1>1 DEF RxSet
    <3>4. QED
      BY <3>2, <3>3
  <2> HIDE DEF begun
  <2>2. QED
    BY <1>4, <1>7, <2>1
<1>8. CASE Answers(p, r)
  BY <1>1, <1>4, <1>8 DEF RxSet
<1>9. Skip \in Int /\ HaveIt \in Int /\ 0 \in Int
  BY DEF Skip, HaveIt
<1>10. \/ Answers(p, finished)
       \/ k # 0 /\ Answers(p, begun)
       \/ Answers(p, r)
       \/ Answers(p, [r EXCEPT !.pos = HaveIt])
       \/ Answers(p, [r EXCEPT !.pos = Skip])
       \/ Answers(p, [r EXCEPT !.pos = 0])
  BY Zenon DEF ReceiveFinfo
<1>11. QED
  BY <1>5, <1>6, <1>7, <1>8, <1>9, <1>10

-----------------------------------------------------------------------------
(***************************************************************************)
(* The theorem.                                                            *)
(***************************************************************************)
LEMMA StepServes ==
  ASSUME TypeInv, TypeInv', FilesHold, RequestsHold, NEW p \in Peers,
         \/ Transmit(p) \/ Timers(p) \/ Receive(p) \/ Chat(p)
         \/ ReadError(p) \/ WriteError(p) \/ UserAbort(p) \/ Lose(p)
  PROVE  Serves(p)
<1>1. CASE Transmit(p) \/ ReadError(p)
  BY <1>1, TransmitServes
<1>2. CASE Timers(p)
  BY <1>2, TimersServe
<1>3. CASE Chat(p) \/ UserAbort(p) \/ Lose(p)
  BY <1>3, UsersServe
<1>4. CASE WriteError(p)
  BY <1>4, ReceiverServes
<1>5. CASE Receive(p)
  BY <1>5, SessionServes, ReceiveEndServes, DeviceServes, FinfoackServes,
     DataackServes, RposServes, EofackServes, FinfoServes, ReceiverServes
     DEF Receive
<1>6. QED
  BY <1>1, <1>2, <1>3, <1>4, <1>5

LEMMA FreshRequests ==
  ASSUME NEW p \in Peers, NEW r
  PROVE  Requests(Begun(p, Idle, 1), r, <<>>)
<1> DEFINE t == Begun(p, Idle, 1)
<1>1. t.state \notin Sending
  BY BegunStates DEF Sending
<1>2. t.syncid = 0
  BY DEF Begun, Idle
<1>3. None(<<>>, Asked)
  BY DEF None
<1> HIDE DEF t
<1>4. QED
  BY <1>1, <1>2, <1>3, RequestsNone DEF t

RewindInv == SafeInv /\ RequestsHold

LEMMA RewindStep ==
  ASSUME RewindInv, TypeInv', [Next]_vars
  PROVE  RequestsHold' /\ \A p \in Peers : Obeys(p)
<1>1. TypeInv /\ FilesHold /\ RequestsHold
  BY DEF RewindInv, SafeInv
<1>2. CASE UNCHANGED vars
  <2>1. RequestsHold'
    BY <1>1, <1>2 DEF RequestsHold, vars
  <2>2. ASSUME NEW p \in Peers PROVE Obeys(p)
    <3>1. tx' = tx /\ tx[p].pos \in Int
      BY <1>1, <1>2, KeptItself DEF vars
    <3>2. tx'[p].pos \notin 0 .. (tx[p].pos - 1)
      BY <3>1
    <3>3. QED
      BY <3>2, OnwardObeys
  <2>3. QED
    BY <2>1, <2>2
<1>3. CASE NewSession
  <2>1. ASSUME NEW p \in Peers
        PROVE  Requests(tx'[p], rx'[Other(p)], line'[p])
    <3>1. tx'[p] = Begun(p, Idle, 1) /\ line'[p] = <<>>
      BY <1>3 DEF NewSession
    <3>2. QED
      BY <3>1, FreshRequests
  <2>2. ASSUME NEW p \in Peers PROVE Obeys(p)
    BY <1>3 DEF NewSession, Running, Obeys, Rewinds, Sending
  <2>3. QED
    BY <2>1, <2>2 DEF RequestsHold
<1>4. ASSUME NEW p \in Peers,
             \/ Transmit(p) \/ Timers(p) \/ Receive(p) \/ Chat(p)
             \/ ReadError(p) \/ WriteError(p) \/ UserAbort(p) \/ Lose(p)
      PROVE  RequestsHold' /\ \A o \in Peers : Obeys(o)
  BY <1>1, <1>4, StepServes, ServesAll
<1>5. QED
  BY <1>2, <1>3, <1>4 DEF Next

\* A rewind is for a request of this file that was not obeyed before, and it
\* never goes behind what has been acknowledged.
THEOREM Rewinding ==
  ASSUME OnTime, FirstReadable
  PROVE  Spec => RewindsOnce
<1>1. Init => RequestsHold
  <2>1. SUFFICES ASSUME Init, NEW p \in Peers
                 PROVE  Requests(tx[p], rx[Other(p)], line[p])
    BY DEF RequestsHold
  <2>2. tx[p] = Begun(p, Idle, 1) /\ line[p] = <<>>
    BY <2>1 DEF Init
  <2>3. QED
    BY <2>2, FreshRequests
<1>2. SafeInv => TypeInv
  BY DEF SafeInv
<1>3. SafeInv /\ SafeInv' /\ RequestsHold /\ [Next]_vars => RequestsHold'
  BY <1>2, RewindStep DEF RewindInv, SafeInv
<1>4. SafeInv /\ SafeInv' /\ RequestsHold /\ [Next]_vars
        => [\A p \in Peers : Rewinds(p) =>
              /\ tx'[p].syncid \in (tx[p].syncid + 1) .. rx[Other(p)].syncid
              /\ rx[Other(p)].file = tx[p].file
              /\ tx'[p].pos >= tx[p].lastack]_vars
  <2>1. SUFFICES ASSUME SafeInv, SafeInv', RequestsHold, [Next]_vars
                 PROVE  \A p \in Peers : Obeys(p)
    BY DEF Obeys
  <2>2. QED
    BY <2>1, RewindStep DEF RewindInv, SafeInv
<1>5. QED
  BY <1>1, <1>3, <1>4, Safe, PTL DEF Spec, RewindsOnce
=============================================================================
