------------------------------- MODULE Hydra -------------------------------
(***************************************************************************)
(* A session of the bidirectional file transfer Hydra between two          *)
(* HydraComs (HYDRACOM/HYDRA.C): both programs run hydra() once for each   *)
(* file of their batch and once more to end it, and send and receive at    *)
(* the same time.                                                          *)
(*                                                                         *)
(* tx, rx and dev are the static variables of HYDRA.C for the three        *)
(* machines of one program: its transmitter, its receiver and the device   *)
(* packets ("chat").  An action is either one pass through the two         *)
(* switches at the top of hydra()'s loop, or what the loop does with one   *)
(* (pseudo) packet from rxpkt() and the switch on txstate after it.  Where *)
(* hydra() returns, the action also is the prologue of its next call.      *)
(***************************************************************************)
EXTENDS Integers, Sequences, SequencesExt

CONSTANTS
  Peers,          \* the two programs
  Units,          \* what a unit of a file may hold
  Batch,          \* the files each sends, in units of the smallest block
  Unreadable,     \* those (by number) that it finds but cannot open
  Originators,    \* programs run without the option nooriginator
  OneWays,        \* the sets of programs that may be run with hdxlink
  TxWindow,       \* the option txwindow of each program, in units
  RxWindow,       \* the option rxwindow of each program, in units
  BlockMax,       \* units in the longest data packet
  ResumeMin,      \* shortest partial file worth keeping, in units (1024 bytes)
  RetriesMax,     \* H_RETRIES, 10
  OneWayRetries,  \* retries before the fallback to one-way transfers, 4
  FaultKinds,     \* what may go wrong on the line and on the disks
  MaxFaults,      \* bound: how often it does
  UserAborts,     \* may operators abort, may carrier be lost
  ChatMax,        \* bound: device packets each program's user has sent
  LineRoom,       \* bound: packets in transit before a program sends more
  SessionsMax     \* bound: sessions, the first one included

ASSUME HydraAssumption ==
  /\ \E p, q \in Peers : p # q /\ Peers = {p, q}
  /\ Batch \in [Peers -> Seq(Seq(Units))]
  /\ \A p \in Peers : Unreadable[p] \subseteq 1 .. Len(Batch[p])
  /\ Originators \subseteq Peers /\ OneWays \subseteq SUBSET Peers
  /\ TxWindow \in [Peers -> Nat] /\ RxWindow \in [Peers -> Nat]
  /\ BlockMax \in Nat \ {0} /\ ResumeMin \in Nat \ {0}
  /\ RetriesMax \in Nat /\ OneWayRetries \in Nat /\ MaxFaults \in Nat
  /\ FaultKinds \subseteq {"lose", "lose initack", "late", "read", "write",
                      "refuse"}
  /\ UserAborts \in BOOLEAN
  /\ ChatMax \in [Peers -> Nat] /\ LineRoom \in Nat /\ SessionsMax \in Nat

VARIABLES
  tx,        \* transmitters
  rx,        \* receivers
  dev,       \* device packets: what is being sent, what was received last
  hdxlink,   \* does this program wait with its files until it has received
  line,      \* line[p]: packets on their way to p
  part,      \* part[p][k]: the other's k-th file as far as p has it on disk
             \* under a BAD-XFER name, <<>> when there is none
  saved,     \* saved[p][k]: what p has saved under the name of that file;
             \* unique_name() keeps the first and renames the others
  result,    \* result[p]: what hydra() returned for p's files, in order
  outcome,   \* what it returned in the end
  heard,     \* device packets given to the user, by number
  faults, session

Other(p) == CHOOSE q \in Peers : q # p

\* The promise that Hydra keeps.
BT == INSTANCE BatchTransfer

vars == <<tx, rx, dev, hdxlink, line, part, saved, result, outcome, heard,
          faults, session>>

-----------------------------------------------------------------------------
(***************************************************************************)
(* Packets.  A damaged packet is dropped by rxpkt(), so packets are intact *)
(* or lost.                                                                *)
(***************************************************************************)
Packet(type, pos, id, data) ==
  [type |-> type, pos |-> pos, id |-> id, data |-> data]

Signal(type)      == Packet(type, 0, 0, <<>>)
Position(type, n) == Packet(type, n, 0, <<>>)
Info(k)           == Packet("FINFO", 0, k, <<>>)   \* k = 0: end of batch
Device(type, id)  == Packet(type, 0, id, <<>>)

\* (Slip: position and sync id swapped.)
RposSwapped(n, id) == Packet("RPOS", id, n, <<>>)

Rpos(n, id) == Packet("RPOS", n, id, <<>>)

Skip == -2      \* the position that says: not this file

\* (Slip: the two answers without data are not told apart.)
HaveItIsSkip == -2

HaveIt == -1    \* the position that says: I have this file

FilesOf(p) == 1 .. Len(Batch[p])
NoFiles(p) == [k \in FilesOf(Other(p)) |-> <<>>]

\* The window of p's files, in units; 0 is streaming, and what is in force
\* before the other's INIT has arrived.
Window(p) ==
  LET mine == TxWindow[p]
      theirs == RxWindow[Other(p)]
  IN IF mine = 0 \/ (theirs # 0 /\ theirs < mine) THEN theirs ELSE mine

TxWindowNow(p) == IF rx[p].state = "INIT" THEN 0 ELSE Window(p)

Handshake == {"START", "SWAIT", "INIT", "INITACK", "RINIT"}
Sending == {"XDATA", "DATAACK", "XWAIT", "EOF", "EOFACK"}
BeforeRend == Handshake \cup Sending \cup {"FINFO", "FINFOACK"}
TxStates == BeforeRend \cup {"REND", "END", "ENDACK", "DONE"}
RxStates == {"INIT", "FINFO", "DATA", "DONE"}

Running(p) == tx[p].state # "DONE"

-----------------------------------------------------------------------------
(***************************************************************************)
(* The prologue of hydra(): the next file that can be opened is begun.  A  *)
(* file that cannot be opened is XFER_SKIP at once; if that happens to the *)
(* first file, the call that follows finds txstate = HTX_START, not        *)
(* HTX_DONE, and goes on with HTX_FINFO.                                   *)
(***************************************************************************)
Openable(p, k) ==
  CHOOSE j \in k .. (Len(Batch[p]) + 1) :
    /\ j \notin Unreadable[p]
    /\ \A i \in k .. (j - 1) : i \in Unreadable[p]

Begun(p, t, k) ==
  LET j == Openable(p, k)
  IN [t EXCEPT !.state = IF @ = "DONE" /\ j = k THEN "START" ELSE "FINFO",
               !.file = j, !.open = j <= Len(Batch[p]),
               !.syncid = IF j <= Len(Batch[p]) THEN 0 ELSE @,
               !.retries = 0, !.timing = FALSE]

Skipped(p, k) == [i \in 1 .. (Openable(p, k) - k) |-> "SKIP"]

Idle == [state |-> "DONE", file |-> 0, open |-> FALSE, pos |-> 0,
         syncid |-> 0, lastack |-> 0, retries |-> 0, timing |-> FALSE]

FreshRx == [state |-> "INIT", file |-> 0, pos |-> 0, syncid |-> 0,
            lastsync |-> 0, retries |-> 0, timing |-> FALSE]

FreshDev == [state |-> "DONE", id |-> 0, retries |-> 0, timing |-> FALSE,
             rxid |-> 0]

\* hydra_init() in programs that have just been started.
HdxLinks ==
  {[p \in Peers |-> p \in programs \ Originators] : programs \in OneWays}

\* hydra_init() leaves hdxlink alone in a program that goes on running, is
\* neither the originator nor has hdxlink as an option: the fallback stays.
NextHdxLinks ==
  {h \in [Peers -> BOOLEAN] :
     \E links \in HdxLinks : \A p \in Peers : /\ links[p] => h[p]
                                            /\ h[p] => links[p] \/ hdxlink[p]}

Init ==
  /\ tx = [p \in Peers |-> Begun(p, Idle, 1)]
  /\ rx = [p \in Peers |-> FreshRx]
  /\ dev = [p \in Peers |-> FreshDev]
  /\ hdxlink \in HdxLinks
  /\ line = [p \in Peers |-> <<>>]
  /\ part = [p \in Peers |-> NoFiles(p)]
  /\ saved = [p \in Peers |-> NoFiles(p)]
  /\ result = [p \in Peers |-> Skipped(p, 1)]
  /\ outcome = [p \in Peers |-> "none"]
  /\ heard = [p \in Peers |-> <<>>]
  /\ faults = 0
  /\ session = 1

-----------------------------------------------------------------------------
(***************************************************************************)
(* The line.  Out(p, s): p sends the packets s.  In(p, s): it has taken a  *)
(* packet from the line and answers with s.  Nobody reads what arrives at  *)
(* a program whose session is over.                                        *)
(***************************************************************************)
Sent(p, s) == IF Running(Other(p)) THEN line[Other(p)] \o s ELSE <<>>

Out(p, s) == line' = [line EXCEPT ![Other(p)] = Sent(p, s)]

In(p, s) == line' = [line EXCEPT ![p] = Tail(@), ![Other(p)] = Sent(p, s)]

Room(p) == \A q \in Peers : Len(line[q]) < LineRoom

Arrived(p, type) ==
  /\ Running(p)
  /\ line[p] # <<>>
  /\ Head(line[p]).type = type

Fault(kind) ==
  /\ kind \in FaultKinds
  /\ faults < MaxFaults
  /\ faults' = faults + 1

(***************************************************************************)
(* hydra_devsend(): a device packet is handed over when none is under way. *)
(***************************************************************************)
DevFree(p, t, r, d) ==
  d.state = "DONE" /\ r.state # "INIT" /\ t.state \notin {"END", "ENDACK"}

DevSend(d) == [d EXCEPT !.state = "DATA", !.id = @ + 1, !.retries = 0,
                        !.timing = FALSE]

(***************************************************************************)
(* The switch on txstate after each packet: t, r, d and h are tx, rx, dev  *)
(* and hdxlink of p as the packet has left them.                           *)
(***************************************************************************)
Restarted(t, state) == [t EXCEPT !.state = state, !.timing = FALSE,
                                 !.retries = 0]

\* (Slip: a device packet under way is forgotten.)
NothingMoreForgetful(r, d) == r.state = "DONE"

\* Is all received, and is what was chatted acknowledged.
NothingMore(r, d) == r.state = "DONE" /\ d.state = "DONE"

FallsBack(t, r, h) == t.state = "XDATA" /\ r.state # "DONE" /\ h

Settled(t, r, d, h) ==
  CASE t.state \in {"START", "SWAIT"} /\ r.state = "FINFO" ->
         Restarted(t, "INIT")
    [] t.state = "RINIT" /\ r.state = "FINFO" -> Restarted(t, "FINFO")
    [] FallsBack(t, r, h) -> [t EXCEPT !.state = "XWAIT", !.timing = TRUE]
    [] t.state = "XWAIT" /\ r.state = "DONE" -> Restarted(t, "XDATA")
    [] t.state = "REND" /\ NothingMore(r, d) ->
         Restarted(t, "END")
    [] OTHER -> t

Settle(p, t, r, d, h) ==
  /\ tx' = [tx EXCEPT ![p] = Settled(t, r, d, h)]
  /\ rx' = [rx EXCEPT ![p] = r]
  /\ dev' = [dev EXCEPT ![p] = IF FallsBack(t, r, h) /\ DevFree(p, t, r, d)
                               THEN DevSend(d) ELSE d]
  /\ hdxlink' = [hdxlink EXCEPT ![p] = h]

(***************************************************************************)
(* The end of hydra(): the file being received is closed and kept for a    *)
(* later session if that is worth it (hydra_badxfer(), xfer_bad()).  After *)
(* XFER_ABORT what is not yet sent is dumped, and the other side is told   *)
(* if there still is a carrier.                                            *)
(***************************************************************************)
Kept(s) == IF Len(s) < ResumeMin THEN <<>> ELSE s

Receiving(p) == rx[p].state = "DATA" /\ rx[p].pos >= 0

Closed(p) == IF Receiving(p)
             THEN [part EXCEPT ![p][rx[p].file] = Kept(@)] ELSE part

Ends(p, why) ==
  /\ tx' = [tx EXCEPT ![p].state = "DONE", ![p].open = FALSE,
                      ![p].timing = FALSE]
  /\ part' = Closed(p)
  /\ outcome' = [outcome EXCEPT ![p] = why]
  /\ UNCHANGED <<rx, dev, hdxlink, saved, result, heard, session>>

Abort(p) ==
  /\ Ends(p, "XFER_ABORT")
  /\ \E n \in 0 .. Len(line[Other(p)]) :
       line' = [line EXCEPT ![p] = <<>>,
                  ![Other(p)] = IF Running(Other(p))
                                THEN SubSeq(@, 1, n) \o <<Signal("CANCEL")>>
                                ELSE <<>>]

CarrierLost(p) ==
  /\ Ends(p, "XFER_ABORT")
  /\ line' = [line EXCEPT ![p] = <<>>]

Session == <<part, saved, result, outcome, heard, session>>

-----------------------------------------------------------------------------
(***************************************************************************)
(* One pass through the switches on devtxstate and txstate: a waiting      *)
(* device packet goes out first, then what the transmitter has to send.    *)
(***************************************************************************)
DevDue(p) == dev[p].state = "DATA" /\ tx[p].state \notin Handshake

DevPackets(p) == IF DevDue(p) THEN <<Device("DEVDATA", dev[p].id)>> ELSE <<>>

DevSent(p) == IF DevDue(p)
              THEN [dev EXCEPT ![p].state = "DACK", ![p].timing = TRUE]
              ELSE dev

Send(p, t, s) ==
  /\ Room(p)
  /\ tx' = [tx EXCEPT ![p] = t]
  /\ dev' = DevSent(p)
  /\ Out(p, DevPackets(p) \o s)
  /\ UNCHANGED <<rx, hdxlink, Session>>

Waiting(p, state) == [tx[p] EXCEPT !.state = state, !.timing = TRUE]

SendStart(p) ==
  /\ tx[p].state = "START"
  /\ Send(p, Waiting(p, "SWAIT"), <<Signal("START")>>)
  /\ UNCHANGED faults

SendInit(p) ==
  /\ tx[p].state = "INIT"
  /\ Send(p, Waiting(p, "INITACK"), <<Signal("INIT")>>)
  /\ UNCHANGED faults

SendFinfo(p) ==
  /\ tx[p].state = "FINFO"
  /\ Send(p, Waiting(p, "FINFOACK"),
          <<Info(IF tx[p].open THEN tx[p].file ELSE 0)>>)
  /\ UNCHANGED faults

\* A data packet, of a length the code adapts to the line.
SendData(p) ==
  LET t == tx[p]
      file == Batch[p][t.file]
  IN /\ t.state = "XDATA"
     /\ t.pos >= 0
     /\ \E n \in 1 .. BlockMax :
          /\ t.pos + n <= Len(file)
          /\ LET full == TxWindowNow(p) # 0
                         /\ t.pos + n >= t.lastack + TxWindowNow(p)
             IN Send(p, [t EXCEPT !.pos = @ + n,
                           !.state = IF full THEN "DATAACK" ELSE @,
                           !.timing = IF full THEN TRUE ELSE @],
                     <<Packet("DATA", t.pos, 0,
                              SubSeq(file, t.pos + 1, t.pos + n))>>)
     /\ UNCHANGED faults

\* HTX_XDATA falls through to HTX_EOF at the end of the file, after a skip
\* and after a read error.
SendEof(p) ==
  /\ \/ tx[p].state = "EOF"
     \/ tx[p].state = "XDATA"
        /\ (tx[p].pos < 0 \/ tx[p].pos >= Len(Batch[p][tx[p].file]))
  /\ Send(p, Waiting(p, "EOFACK"), <<Position("EOF", tx[p].pos)>>)
  /\ UNCHANGED faults

\* (Slip: the file is not closed, as if it had been read to its end.)
ReadErrorOpen(p) ==
  /\ tx[p].state = "XDATA" /\ tx[p].pos >= 0
  /\ Fault("read")
  /\ Send(p, [Waiting(p, "EOFACK") EXCEPT !.pos = Skip],
          <<Position("EOF", Skip)>>)

ReadError(p) ==
  /\ tx[p].state = "XDATA" /\ tx[p].pos >= 0
  /\ Fault("read")
  /\ Send(p, [Waiting(p, "EOFACK") EXCEPT !.open = FALSE, !.pos = Skip],
          <<Position("EOF", Skip)>>)

SendEnd(p) ==
  /\ tx[p].state = "END"
  /\ Send(p, Waiting(p, "ENDACK"), <<Signal("END"), Signal("END")>>)
  /\ UNCHANGED faults

\* A pass in which the transmitter has nothing to send, or no room to.
SendDevice(p) ==
  /\ DevDue(p)
  /\ tx[p].state \notin {"FINFO", "EOF", "END", "DONE"}
  /\ Send(p, tx[p], <<>>)
  /\ UNCHANGED faults

-----------------------------------------------------------------------------
(***************************************************************************)
(* Timers run for seconds.  A timer expires when nothing is on the line    *)
(* and neither program has anything to send, and no retry timer of one     *)
(* expires three times while one of the other runs.  If it does so earlier *)
(* the line or a program was late, which is a fault.                       *)
(***************************************************************************)
Quiet == \A p \in Peers :
  /\ line[p] = <<>>
  /\ tx[p].state \notin {"START", "INIT", "FINFO", "XDATA", "EOF", "END"}
  /\ ~DevDue(p)

Late(ontime) == \/ ontime /\ UNCHANGED faults
                \/ ~ontime /\ Fault("late")

InStep(p) ==
  LET t == tx[Other(p)]
      d == dev[Other(p)]
  IN /\ t.timing /\ t.state \notin {"XWAIT", "REND"}
          => tx[p].retries <= t.retries + 1
     /\ d.timing => tx[p].retries <= d.retries + 1

Expires(p, running, quiet) == Running(p) /\ running /\ Late(quiet)

\* (Slip: a full window waits for an acknowledgement that was lost.)
RetryOfStalls(state) ==
  CASE state = "SWAIT"    -> "START"
    [] state = "INITACK"  -> "INIT"
    [] state = "FINFOACK" -> "FINFO"
    [] state = "EOFACK"   -> "EOF"
    [] state = "ENDACK"   -> "END"
    [] OTHER              -> state

RetryOf(state) ==
  CASE state = "SWAIT"    -> "START"
    [] state = "INITACK"  -> "INIT"
    [] state = "FINFOACK" -> "FINFO"
    [] state = "DATAACK"  -> "XDATA"
    [] state = "EOFACK"   -> "EOF"
    [] state = "ENDACK"   -> "END"
    [] OTHER              -> state

\* H_TXTIME in the two states that wait for the other side's end of batch.
StillHere(p) ==
  /\ tx[p].state \in {"XWAIT", "REND"}
  /\ Expires(p, tx[p].timing, Quiet)
  /\ Settle(p, tx[p], rx[p], dev[p], hdxlink[p])
  /\ Out(p, <<Signal("IDLE")>>)
  /\ UNCHANGED Session

\* H_TXTIME elsewhere.
Retry(p) ==
  LET t == [tx[p] EXCEPT !.retries = @ + 1, !.timing = FALSE,
                         !.state = RetryOf(@)]
  IN /\ tx[p].state \notin {"XWAIT", "REND"}
     /\ Expires(p, tx[p].timing, Quiet /\ InStep(p))
     /\ \/ /\ tx[p].retries >= RetriesMax
           /\ Abort(p)
        \/ /\ tx[p].retries < RetriesMax
           /\ Settle(p, t, rx[p], dev[p], hdxlink[p])
           /\ UNCHANGED <<line, Session>>

\* H_DEVTXTIME; the transmitter's timer is looked at first.
DevRetry(p) ==
  LET d == [dev[p] EXCEPT !.retries = @ + 1, !.timing = FALSE,
                          !.state = "DATA"]
  IN /\ Expires(p, dev[p].timing, Quiet)
     /\ \/ /\ dev[p].retries >= RetriesMax
           /\ Abort(p)
        \/ /\ dev[p].retries < RetriesMax
           /\ Settle(p, tx[p], rx[p], d, hdxlink[p])
           /\ UNCHANGED <<line, Session>>

-----------------------------------------------------------------------------
(***************************************************************************)
(* Packets for the session as a whole.                                     *)
(***************************************************************************)
ReceiveStart(p) ==
  LET t == IF tx[p].state \in {"START", "SWAIT"}
           THEN Restarted(tx[p], "INIT") ELSE tx[p]
  IN /\ Arrived(p, "START")
     /\ Settle(p, t, rx[p], dev[p], hdxlink[p])
     /\ In(p, <<>>)
     /\ UNCHANGED <<Session, faults>>

ReceiveInit(p) ==
  LET r == IF rx[p].state = "INIT" THEN [rx[p] EXCEPT !.state = "FINFO"]
                                   ELSE rx[p]
  IN /\ Arrived(p, "INIT")
     /\ Settle(p, tx[p], r, dev[p], hdxlink[p])
     /\ In(p, <<Signal("INITACK")>>)
     /\ UNCHANGED <<Session, faults>>

ReceiveInitack(p) ==
  LET t == IF tx[p].state \in {"INIT", "INITACK"}
           THEN Restarted(tx[p], "RINIT") ELSE tx[p]
  IN /\ Arrived(p, "INITACK")
     /\ Settle(p, t, rx[p], dev[p], hdxlink[p])
     /\ In(p, <<>>)
     /\ UNCHANGED <<Session, faults>>

ReceiveIdle(p) ==
  LET wakes == tx[p].state = "XWAIT"
      t == IF wakes THEN Restarted(tx[p], "XDATA") ELSE tx[p]
  IN /\ Arrived(p, "IDLE")
     /\ Settle(p, t, rx[p], dev[p], hdxlink[p] /\ ~wakes)
     /\ In(p, <<>>)
     /\ UNCHANGED <<Session, faults>>

ReceiveEnd(p) ==
  /\ Arrived(p, "END")
  /\ UNCHANGED faults
  /\ \/ /\ tx[p].state \in {"END", "ENDACK"}
        /\ Ends(p, "XFER_OK")
        /\ line' = [line EXCEPT ![p] = <<>>,
             ![Other(p)] = Sent(p, <<Signal("END"), Signal("END"),
                                     Signal("END")>>)]
     \/ /\ tx[p].state \notin {"END", "ENDACK"}
        /\ Settle(p, tx[p], rx[p], dev[p], hdxlink[p])
        /\ In(p, <<>>)
        /\ UNCHANGED Session

ReceiveCancel(p) ==
  /\ Arrived(p, "CANCEL")
  /\ Abort(p)
  /\ UNCHANGED faults

\* (Slip: a device packet that is resent is heard again.)
IsNewAlways(p, id) == TRUE

IsNew(p, id) == dev[p].rxid # id

ReceiveDevdata(p) ==
  LET id == Head(line[p]).id
  IN /\ Arrived(p, "DEVDATA")
     /\ Settle(p, tx[p], rx[p], [dev[p] EXCEPT !.rxid = id], hdxlink[p])
     /\ heard' = IF IsNew(p, id)
                 THEN [heard EXCEPT ![p] = Append(@, id)] ELSE heard
     /\ In(p, <<Device("DEVDACK", id)>>)
     /\ UNCHANGED <<part, saved, result, outcome, session, faults>>

ReceiveDevdack(p) ==
  LET d == IF dev[p].state # "DONE" /\ dev[p].id = Head(line[p]).id
           THEN [dev[p] EXCEPT !.state = "DONE", !.timing = FALSE] ELSE dev[p]
  IN /\ Arrived(p, "DEVDACK")
     /\ Settle(p, tx[p], rx[p], d, hdxlink[p])
     /\ In(p, <<>>)
     /\ UNCHANGED <<Session, faults>>

-----------------------------------------------------------------------------
(***************************************************************************)
(* Packets from the other's receiver for this transmitter.                 *)
(***************************************************************************)

\* hydra() returns r for its file and is called for the next one.
Returns(p, r) ==
  /\ tx' = [tx EXCEPT ![p] = Begun(p, @, @.file + 1)]
  /\ result' = [result EXCEPT ![p] = @ \o <<r>> \o Skipped(p, tx[p].file + 1)]
  /\ UNCHANGED <<rx, dev, hdxlink, part, saved, outcome, heard, session>>

ReceiveFinfoack(p) ==
  LET pos == Head(line[p]).pos
      t == IF tx[p].state \notin {"FINFO", "FINFOACK"} THEN tx[p]
           ELSE IF ~tx[p].open
             THEN [tx[p] EXCEPT !.state = "REND", !.retries = 0,
                                !.timing = TRUE]
             ELSE [Restarted(tx[p], "XDATA") EXCEPT !.pos = pos,
                                                    !.lastack = pos]
  IN /\ Arrived(p, "FINFOACK")
     /\ In(p, <<>>)
     /\ UNCHANGED faults
     /\ \/ /\ tx[p].state \in {"FINFO", "FINFOACK"} /\ tx[p].open /\ pos < 0
           /\ Returns(p, IF pos = HaveIt THEN "OK" ELSE "SKIP")
        \/ /\ ~(tx[p].state \in {"FINFO", "FINFOACK"} /\ tx[p].open /\ pos < 0)
           /\ Settle(p, t, rx[p], dev[p], hdxlink[p])
           /\ UNCHANGED Session

ReceiveDataack(p) ==
  LET pos == Head(line[p]).pos
      t == tx[p]
      new == t.state \in Sending /\ TxWindowNow(p) # 0 /\ pos > t.lastack
      opens == new /\ t.state = "DATAACK" /\ t.pos < pos + TxWindowNow(p)
      acked == IF new THEN [t EXCEPT !.lastack = pos] ELSE t
  IN /\ Arrived(p, "DATAACK")
     /\ Settle(p, IF opens THEN Restarted(acked, "XDATA") ELSE acked,
               rx[p], dev[p], hdxlink[p])
     /\ In(p, <<>>)
     /\ UNCHANGED <<Session, faults>>

(***************************************************************************)
(* RPOS.  A request with the sync id of the last one is a repetition and   *)
(* only counted; any other rewinds the transmitter.  A negative position   *)
(* is a skip, and a seek in a file that is closed already fails.           *)
(***************************************************************************)
Rewound(t, pos, id) ==
  LET s == [t EXCEPT !.syncid = id, !.retries = 1, !.timing = FALSE]
  IN CASE pos < 0 -> [s EXCEPT !.pos = Skip, !.open = FALSE,
                               !.state = IF t.open THEN "EOF" ELSE @]
       [] pos >= 0 /\ ~t.open -> [s EXCEPT !.pos = Skip, !.state = "EOF"]
       [] OTHER -> [s EXCEPT !.pos = pos,
                             !.state = IF @ = "XWAIT" THEN @ ELSE "XDATA"]

\* (Slip: a repeated request is obeyed where it would move the transmitter.)
RepeatsHere(t, m) ==
  t.state \in Sending /\ m.id = t.syncid /\ m.pos >= t.pos

Repeats(t, m) == t.state \in Sending /\ m.id = t.syncid

ReceiveRpos(p) ==
  LET m == Head(line[p])
      t == tx[p]
      repeated == Repeats(t, m)
      u == CASE t.state \in Sending /\ ~repeated -> Rewound(t, m.pos, m.id)
             [] repeated -> [t EXCEPT !.retries = @ + 1]
             [] OTHER -> t
  IN /\ Arrived(p, "RPOS")
     /\ UNCHANGED faults
     /\ \/ /\ repeated /\ t.retries >= RetriesMax
           /\ Abort(p)
        \/ /\ ~(repeated /\ t.retries >= RetriesMax)
           /\ Settle(p, u, rx[p], dev[p], hdxlink[p])
           /\ In(p, <<>>)
           /\ UNCHANGED Session

ReceiveEofack(p) ==
  /\ Arrived(p, "EOFACK")
  /\ In(p, <<>>)
  /\ UNCHANGED faults
  /\ \/ /\ tx[p].state \in {"EOF", "EOFACK"}
        /\ Returns(p, IF tx[p].open THEN "OK" ELSE "SKIP")
     \/ /\ tx[p].state \notin {"EOF", "EOFACK"}
        /\ Settle(p, tx[p], rx[p], dev[p], hdxlink[p])
        /\ UNCHANGED Session

-----------------------------------------------------------------------------
(***************************************************************************)
(* Packets from the other's transmitter for this receiver.                 *)
(***************************************************************************)

\* xfer_init(): is there a file of this name and size already.
AlreadyHave(p, k) ==
  saved[p][k] # <<>> /\ Len(saved[p][k][1]) = Len(Batch[Other(p)][k])

\* Every FINFO is answered with rxpos, whatever it is, once it is handled.
Answers(p, r) ==
  /\ Settle(p, tx[p], r, dev[p], hdxlink[p])
  /\ In(p, <<Position("FINFOACK", r.pos)>>)
  /\ UNCHANGED Session

ReceiveFinfo(p) ==
  LET k == Head(line[p]).id
      r == rx[p]
  IN /\ Arrived(p, "FINFO")
     /\ \/ /\ r.state = "FINFO" /\ k = 0
           /\ Answers(p, [r EXCEPT !.pos = 0, !.state = "DONE"])
           /\ UNCHANGED faults
        \/ /\ r.state = "FINFO" /\ k # 0 /\ AlreadyHave(p, k)
           /\ Answers(p, [r EXCEPT !.pos = HaveIt])
           /\ UNCHANGED faults
        \/ /\ r.state = "FINFO" /\ k # 0 /\ ~AlreadyHave(p, k)
           /\ Answers(p, [r EXCEPT !.state = "DATA", !.file = k,
                            !.pos = Len(part[p][k]), !.timing = FALSE,
                            !.retries = 0, !.lastsync = 0, !.syncid = 0])
           /\ UNCHANGED faults
        \/ /\ r.state = "FINFO" /\ k # 0 /\ ~AlreadyHave(p, k)
           /\ Fault("refuse")                \* no room, or cannot be created
           /\ Answers(p, [r EXCEPT !.pos = Skip])
        \/ /\ r.state = "DONE"
           /\ Answers(p, [r EXCEPT !.pos = IF k = 0 THEN 0 ELSE Skip])
           /\ UNCHANGED faults
        \/ /\ r.state \in {"INIT", "DATA"}
           /\ Answers(p, r)
           /\ UNCHANGED faults

(***************************************************************************)
(* A DATA or EOF packet that is not at rxpos.  What is at or before the    *)
(* last such packet comes from a transmitter that has rewound: the next    *)
(* request is a new one.  Otherwise a request is repeated when its timer   *)
(* expires.  DATA, not EOF, may bring on the fallback to one-way mode.     *)
(***************************************************************************)
AsksAgain(p, timing) ==
  Late(~timing \/ (Len(line[p]) = 1 /\ line[Other(p)] = <<>>))

Misplaced(p, pos, mayFallBack) ==
  LET r == IF pos <= rx[p].lastsync
           THEN [rx[p] EXCEPT !.lastsync = pos, !.timing = FALSE,
                              !.retries = 0]
           ELSE [rx[p] EXCEPT !.lastsync = pos]
      falls == /\ mayFallBack /\ r.retries > OneWayRetries
               /\ tx[p].state \in BeforeRend
               /\ p \notin Originators /\ ~hdxlink[p]
      tries == IF falls THEN 1 ELSE r.retries + 1
      asked == [r EXCEPT !.retries = tries, !.timing = TRUE,
                         !.syncid = IF tries = 1 THEN @ + 1 ELSE @]
  IN \/ /\ r.timing
        /\ Settle(p, tx[p], r, dev[p], hdxlink[p])
        /\ In(p, <<>>)
        /\ UNCHANGED <<Session, faults>>
     \/ /\ AsksAgain(p, r.timing)
        /\ \/ /\ tries <= RetriesMax
              /\ Settle(p, tx[p], asked, dev[p], hdxlink[p] \/ falls)
              /\ In(p, <<Rpos(r.pos, asked.syncid)>>)
              /\ UNCHANGED Session
           \/ /\ tries > RetriesMax
              /\ Abort(p)

\* (Slip: what lies ahead is taken, whatever is missing before it.)
InPlaceOrAhead(p) == Head(line[p]).pos >= rx[p].pos

InPlace(p) == Head(line[p]).pos = rx[p].pos

ReceiveData(p) ==
  LET m == Head(line[p])
      r == rx[p]
      pos == r.pos + Len(m.data)
  IN /\ Arrived(p, "DATA")
     /\ \/ /\ r.state # "DATA"
           /\ Settle(p, tx[p], r, dev[p], hdxlink[p])
           /\ In(p, <<>>)
           /\ UNCHANGED <<Session, faults>>
        \/ /\ r.state = "DATA" /\ ~InPlace(p)
           /\ Misplaced(p, m.pos, TRUE)
        \/ /\ r.state = "DATA" /\ InPlace(p)
           /\ Settle(p, tx[p], [r EXCEPT !.pos = pos, !.lastsync = r.pos,
                                         !.retries = 0, !.timing = FALSE],
                     dev[p], hdxlink[p])
           /\ part' = [part EXCEPT ![p][r.file] = @ \o m.data]
           /\ In(p, IF Window(Other(p)) # 0
                    THEN <<Position("DATAACK", pos)>> ELSE <<>>)
           /\ UNCHANGED <<saved, result, outcome, heard, session, faults>>

\* The disk refuses the data: the file is closed and the other asked to skip.
WriteError(p) ==
  LET r == [rx[p] EXCEPT !.pos = Skip, !.retries = 1, !.timing = TRUE,
                         !.syncid = @ + 1]
  IN /\ Arrived(p, "DATA")
     /\ rx[p].state = "DATA" /\ InPlace(p)
     /\ Fault("write")
     /\ Settle(p, tx[p], r, dev[p], hdxlink[p])
     /\ part' = Closed(p)
     /\ In(p, <<Rpos(Skip, r.syncid)>>)
     /\ UNCHANGED <<saved, result, outcome, heard, session>>

(***************************************************************************)
(* EOF.  One that leaves the receiver waiting for a FINFO, or finds it so, *)
(* is acknowledged.                                                        *)
(***************************************************************************)
Acknowledges(p) ==
  /\ Settle(p, tx[p], [rx[p] EXCEPT !.state = "FINFO"], dev[p], hdxlink[p])
  /\ In(p, <<Signal("EOFACK")>>)
  /\ UNCHANGED <<result, outcome, heard, session, faults>>

ReceiveEof(p) ==
  LET pos == Head(line[p]).pos
      r == rx[p]
  IN /\ Arrived(p, "EOF")
     /\ UNCHANGED faults
     /\ \/ /\ r.state = "FINFO"
           /\ Acknowledges(p)
           /\ UNCHANGED <<part, saved>>
        \/ /\ r.state = "DATA" /\ pos < 0
           /\ Acknowledges(p)
           /\ part' = Closed(p)
           /\ UNCHANGED saved
        \/ /\ r.state = "DATA" /\ pos >= 0 /\ InPlace(p)
           /\ Acknowledges(p)
           /\ part' = [part EXCEPT ![p][r.file] = <<>>]
           /\ saved' = [saved EXCEPT ![p][r.file] = Append(@, part[p][r.file])]
        \/ /\ r.state = "DATA" /\ pos >= 0 /\ ~InPlace(p)
           /\ Misplaced(p, pos, FALSE)
        \/ /\ r.state \in {"INIT", "DONE"}
           /\ Settle(p, tx[p], r, dev[p], hdxlink[p])
           /\ In(p, <<>>)
           /\ UNCHANGED <<Session, faults>>

-----------------------------------------------------------------------------
(***************************************************************************)
(* The users, the line, and the next session over the same disks.          *)
(***************************************************************************)
Chat(p) ==
  /\ Running(p)
  /\ dev[p].id < ChatMax[p]
  /\ DevFree(p, tx[p], rx[p], dev[p])
  /\ dev' = [dev EXCEPT ![p] = DevSend(@)]
  /\ UNCHANGED <<tx, rx, hdxlink, line, Session, faults>>

UserAbort(p) ==
  /\ UserAborts
  /\ Running(p)
  /\ Abort(p) \/ CarrierLost(p)
  /\ UNCHANGED faults

\* The braindead timer, where nothing else goes on.
BrainDead(p) ==
  /\ Running(p)
  /\ \A q \in Peers \ {p} : ~Running(q)
  /\ line[p] = <<>>
  /\ CarrierLost(p)
  /\ UNCHANGED faults

Lose(p) ==
  /\ line[p] # <<>>
  /\ Fault(IF Head(line[p]).type = "INITACK" THEN "lose initack" ELSE "lose")
  /\ line' = [line EXCEPT ![p] = Tail(@)]
  /\ UNCHANGED <<tx, rx, dev, hdxlink, Session>>

NewSession ==
  /\ session < SessionsMax
  /\ \A p \in Peers : ~Running(p)
  /\ session' = session + 1
  /\ tx' = [p \in Peers |-> Begun(p, Idle, 1)]
  /\ rx' = [p \in Peers |-> FreshRx]
  /\ dev' = [p \in Peers |-> FreshDev]
  /\ hdxlink' \in NextHdxLinks
  /\ line' = [p \in Peers |-> <<>>]
  /\ result' = [p \in Peers |-> Skipped(p, 1)]
  /\ outcome' = [p \in Peers |-> "none"]
  /\ heard' = [p \in Peers |-> <<>>]
  /\ UNCHANGED <<part, saved, faults>>

Transmit(p) == \/ SendStart(p) \/ SendInit(p) \/ SendFinfo(p) \/ SendData(p)
               \/ SendEof(p) \/ SendEnd(p) \/ SendDevice(p)

Timers(p) == StillHere(p) \/ Retry(p) \/ DevRetry(p) \/ BrainDead(p)

Receive(p) ==
  \/ ReceiveStart(p) \/ ReceiveInit(p) \/ ReceiveInitack(p) \/ ReceiveIdle(p)
  \/ ReceiveEnd(p) \/ ReceiveCancel(p) \/ ReceiveDevdata(p)
  \/ ReceiveDevdack(p) \/ ReceiveFinfoack(p) \/ ReceiveDataack(p)
  \/ ReceiveRpos(p) \/ ReceiveEofack(p) \/ ReceiveFinfo(p) \/ ReceiveData(p)
  \/ ReceiveEof(p)

Next ==
  \/ \E p \in Peers : \/ Transmit(p) \/ Timers(p) \/ Receive(p) \/ Chat(p)
                      \/ ReadError(p) \/ WriteError(p) \/ UserAbort(p)
                      \/ Lose(p)
  \/ NewSession

Fairness == \A p \in Peers : /\ WF_vars(Transmit(p))
                             /\ WF_vars(Receive(p))
                             /\ SF_vars(StillHere(p))
                             /\ SF_vars(Retry(p))
                             /\ SF_vars(DevRetry(p))
                             /\ WF_vars(BrainDead(p))

Spec == Init /\ [][Next]_vars

FairSpec == Spec /\ Fairness

-----------------------------------------------------------------------------
(***************************************************************************)
(* Properties.                                                             *)
(***************************************************************************)

PacketTypes == {"START", "INIT", "INITACK", "FINFO", "FINFOACK", "DATA",
                "DATAACK", "RPOS", "EOF", "EOFACK", "END", "IDLE", "DEVDATA",
                "DEVDACK", "CANCEL"}

Packets == [type : PacketTypes, pos : Int, id : Nat, data : Seq(Units)]

TxSet == [state : TxStates, file : Nat, open : BOOLEAN, pos : Int,
          syncid : Nat, lastack : Int, retries : Nat, timing : BOOLEAN]
RxSet == [state : RxStates, file : Nat, pos : Int, syncid : Nat,
          lastsync : Int, retries : Nat, timing : BOOLEAN]
DevSet == [state : {"DONE", "DATA", "DACK"}, id : Nat, retries : Nat,
           timing : BOOLEAN, rxid : Nat]

\* Every variable has its type.
TypeOK ==
  /\ tx \in [Peers -> TxSet] /\ rx \in [Peers -> RxSet]
  /\ dev \in [Peers -> DevSet] /\ hdxlink \in [Peers -> BOOLEAN]
  /\ line \in [Peers -> Seq(Packets)]
  /\ DOMAIN part = Peers /\ DOMAIN saved = Peers
  /\ \A p \in Peers : /\ part[p] \in [FilesOf(Other(p)) -> Seq(Units)]
                      /\ saved[p] \in [FilesOf(Other(p)) -> Seq(Seq(Units))]
  /\ result \in [Peers -> Seq({"OK", "SKIP"})]
  /\ outcome \in [Peers -> {"none", "XFER_OK", "XFER_ABORT"}]
  /\ heard \in [Peers -> Seq(Nat)]
  /\ faults \in 0 .. MaxFaults
  /\ session \in Nat

\* What is on disk of an unfinished file is a prefix of the file of that name,
\* through rewinds, write errors, aborts and the resumption in a later session.
PartIsPrefix ==
  \A p \in Peers : \A k \in FilesOf(Other(p)) :
    IsPrefix(part[p][k], Batch[Other(p)][k])

\* What is saved under the name of a file is all of that file.
SavedIsWhole ==
  \A p \in Peers : \A k \in FilesOf(Other(p)) :
    \A i \in DOMAIN saved[p][k] : saved[p][k][i] = Batch[Other(p)][k]

\* XFER_OK for a file, on which batch_hydra() may delete it ('^'), is returned
\* only when the other side has saved it.
NoFalseOk ==
  \A p \in Peers : \A k \in DOMAIN result[p] :
    result[p][k] = "OK" => saved[Other(p)][k] # <<>>

\* A session that ends well for one side leaves nothing undone on either: each
\* file has been sent or skipped, both receivers know that there are no more,
\* and all that was chatted has been acknowledged.
EndsTogether ==
  \A p \in Peers : outcome[p] = "XFER_OK" =>
    \A q \in Peers : /\ Len(result[q]) = Len(Batch[q])
                    /\ rx[q].state = "DONE" /\ dev[q].state = "DONE"

\* A transmitter goes back in a file only for a request that it has not obeyed
\* yet and that the receiver has made of this file, and never behind what has
\* been acknowledged to it.
Rewinds(p) == /\ tx[p].state \in Sending
              /\ tx'[p].file = tx[p].file
              /\ tx'[p].pos \in 0 .. (tx[p].pos - 1)

RewindsOnce ==
  [][\A p \in Peers : Rewinds(p) =>
       /\ tx'[p].syncid \in (tx[p].syncid + 1) .. rx[Other(p)].syncid
       /\ rx[Other(p)].file = tx[p].file
       /\ tx'[p].pos >= tx[p].lastack]_vars

\* Device packets are heard once each and in order, however often they are
\* sent.
HeardOnce == \A p \in Peers : \A i \in DOMAIN heard[p] : heard[p][i] = i

\* Whatever the two programs do, it is within the promise of BatchTransfer.
RefinesBatchTransfer == BT!Spec

\* Where nobody gives up and answers come in time, both programs end well
\* with every file that can be sent on the other's disk.
Completes ==
  <>[](\A p \in Peers : /\ outcome[p] = "XFER_OK"
                        /\ \A k \in FilesOf(p) \ Unreadable[p] :
                             saved[Other(p)][k] # <<>>)
=============================================================================
