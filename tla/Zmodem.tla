------------------------------- MODULE Zmodem -------------------------------
(***************************************************************************)
(* A batch of files sent from one qodem to another by Zmodem (zmodem.c):   *)
(* the sender, the receiver with its crash recovery, the line between      *)
(* them and the receiver's disk, over several sessions.                    *)
(*                                                                         *)
(* A header or a data subpacket travels as one element.  A damaged header  *)
(* is GARBLED, lost, or CUT (the bytes so far may still become a header);  *)
(* a damaged subpacket is DAMAGED, or JUNK if its end cannot be seen, and  *)
(* the one behind a ZSINIT is SHORT: its CRC has two bytes where the       *)
(* receiver wants four.  An action handles one element or one timeout,     *)
(* with the states the handler passes through at once.                     *)
(***************************************************************************)
EXTENDS Naturals, SequencesExt

CONSTANTS
  Units,            \* what files consist of
  Batch,            \* the files the sender has chosen, as sequences of units
  Scenarios,        \* the circumstances of a run (see ScenarioOK)
  BlockMax,         \* units a data subpacket can hold
  ReliableWindow,   \* WINDOW_SIZE_RELIABLE
  UnreliableWindow, \* WINDOW_SIZE_UNRELIABLE
  TimeoutMax,       \* timeout_max
  ErrorsMax,        \* consecutive errors that end a transfer (15)
  LineRoom,         \* bound: elements on their way before more data are sent
  MaxFaults,        \* bound: faults in a run
  SessionsMax       \* bound: sessions over the same disk in a run

VARIABLES
  scenario,  \* which circumstances
  snd, rcv,  \* the variable "status" of the two programs
  down, up,  \* what is on its way to the receiver, to the sender
  disk,      \* disk[f]: the files named after f: itself, f.0000, f.0001, ...
  saved,     \* saved[f]: what the receiver has closed at a ZEOF for f
  result,    \* what the sender has logged of its files in this session
  faults,    \* faults so far
  session    \* sessions so far

vars == <<scenario, snd, rcv, down, up, disk, saved, result, faults, session>>

Files == DOMAIN Batch
Size(f) == Len(Batch[f])
AtMost(m, n) == IF n > m THEN m ELSE n

FaultKinds == {"damage", "junk", "garble", "lose", "cut", "late", "create"}

\* challenge, zsinit, autostart: the users' options (zmodem_zchallenge; zmodem_escape_ctrl
\* at the sender only; zmodem_autostart); aborts: users press ESC; sessions: how often
\* they try; faults, most: what may go wrong, and how often.
ScenarioOK(c) ==
  /\ c.disk \in [Files -> Seq(Seq(Units))]
  /\ {c.challenge, c.zsinit, c.autostart, c.aborts} \subseteq BOOLEAN
  /\ c.faults \subseteq FaultKinds
  /\ c.most \in 0 .. MaxFaults
  /\ c.sessions \in 1 .. SessionsMax

ASSUME ZmodemAssumption ==
  /\ Batch \in Seq(Seq(Units)) /\ Batch # <<>>
  /\ \A c \in Scenarios : ScenarioOK(c)
  /\ {BlockMax, ReliableWindow, UnreliableWindow, TimeoutMax, ErrorsMax, SessionsMax}
       \subseteq Nat \ {0}
  /\ {LineRoom, MaxFaults} \subseteq Nat

-----------------------------------------------------------------------------
(* The line *)

Header(kind, n) == [kind |-> kind, n |-> n, data |-> <<>>]
Packet(kind, n, units) == [kind |-> kind, n |-> n, data |-> units]

SubpacketKinds == {"ZCRCG", "ZCRCQ", "ZCRCW", "DAMAGED"}
DataKinds == SubpacketKinds \cup {"SHORT", "JUNK"}
UnreadableKinds == {"GARBLED", "CUT"}

\* What can be left of a line when packet_buffer_n = 0 throws away what has arrived.
Rests(line) == {SubSeq(line, i, Len(line)) : i \in 1 .. Len(line) + 1}

\* What can have left the sender when it empties its output buffer: the line up
\* to some element, which may be broken off.
Sent(line) ==
  {SubSeq(line, 1, i) : i \in 0 .. Len(line)} \cup
  {Append(SubSeq(line, 1, i - 1), Header("JUNK", 0)) : i \in DOMAIN line}

-----------------------------------------------------------------------------
(* What both programs have *)

\* zmodem.c's initial "status", for either program.
Fresh ==
  [state |-> "INIT", prior |-> "INIT", file |-> 1, version |-> 1, pos |-> 0,
   open |-> FALSE, ackReq |-> FALSE, waiting |-> FALSE, streaming |-> FALSE,
   acks |-> ReliableWindow, reliable |-> TRUE, errors |-> 0, timeouts |-> 0,
   type |-> "ZFILE", junk |-> "NO", value |-> 0, xfer |-> "END"]

\* zmodem_start(): what it does not mention is left from the last transfer.
Started(x, sending) ==
  [x EXCEPT !.state = "INIT", !.file = 1, !.open = sending, !.streaming = FALSE,
            !.acks = ReliableWindow, !.reliable = TRUE, !.errors = 0,
            !.timeouts = 0, !.junk = "NO", !.xfer = "RUN"]

Running(x) == x.xfer = "RUN"

\* stop_file_transfer() and zmodem_stop(): the file is closed, its name freed.
Ended(x, state, how) == [x EXCEPT !.state = state, !.xfer = how, !.open = FALSE]
Stopped(x) == Ended(x, "ABORT", "ABORT")

\* stats_increment_errors(), n times.
Erred(x, n) ==
  LET y == [x EXCEPT !.errors = AtMost(ErrorsMax, @ + n), !.reliable = FALSE]
  IN IF y.errors = ErrorsMax /\ y.state # "ZDATA" THEN Stopped(y) ELSE y

\* Slip: one timeout more than the limit.
TimedOutLate(x) ==
  LET y == Erred([x EXCEPT !.timeouts = @ + 1], 1)
  IN IF y.timeouts > TimeoutMax THEN Stopped(y) ELSE y

\* Slip: a timeout is only an error, and errors are not counted in it.
TimedOutForever(x) == Erred(x, 0)

\* check_timeout(), when the time is up.
TimedOut(x) ==
  LET y == Erred([x EXCEPT !.timeouts = @ + 1], 1)
  IN IF y.timeouts >= TimeoutMax THEN Stopped(y) ELSE y

\* An element the handlers of headers see: its type if parse_packet() likes it.
Arrives(line, kind) == line # <<>> /\ Head(line).kind = kind
ArrivesOther(line, kinds) ==
  /\ line # <<>>
  /\ Head(line).kind \notin kinds \cup DataKinds \cup UnreadableKinds

-----------------------------------------------------------------------------
(* Sender.  "lefts" are the lines that can be left to it after the step. *)

SenderStep(s, lefts, sents, out) ==
  \E left \in lefts, sent \in sents :
    /\ snd' = s
    /\ up' = IF Running(s) THEN left ELSE <<>>
    /\ down' = IF Running(rcv) THEN sent \o out ELSE <<>>

Answers(s, lefts, out) == SenderStep(s, lefts, {down}, out)

SenderNext == {Tail(up)}
SenderCleared == Rests(Tail(up))

SendZrqinit(s, lefts) ==
  Answers([s EXCEPT !.state = "ZRQINIT_WAIT"], lefts, <<Header("ZRQINIT", 0)>>)

\* Without a name, send_zfile() takes strlen(NULL).
SendZfile(s, lefts) ==
  \/ /\ s.open
     /\ Answers([s EXCEPT !.state = "ZFILE_WAIT"], lefts,
                <<Header("ZFILE", 0), Packet("ZCRCW", s.file, <<>>)>>)
  \/ /\ ~s.open
     /\ Answers([s EXCEPT !.xfer = "CRASH"], lefts, <<>>)

\* Slip: the subpacket has the CRC its header announces.
SendZsinitReadable(s, lefts) ==
  IF scenario.zsinit
  THEN Answers([s EXCEPT !.state = "ZSINIT_WAIT"], lefts,
               <<Header("ZSINIT", 0), Packet("ZCRCW", 0, <<>>)>>)
  ELSE SendZfile(s, lefts)

\* The header announces a CRC-32 (both programs can do it), the subpacket has a CRC-16.
SendZsinit(s, lefts) ==
  IF scenario.zsinit
  THEN Answers([s EXCEPT !.state = "ZSINIT_WAIT"], lefts,
               <<Header("ZSINIT", 0), Packet("SHORT", 0, <<>>)>>)
  ELSE SendZfile(s, lefts)

SendZeof(s, lefts, sents, out) ==
  SenderStep([s EXCEPT !.state = "ZEOF_WAIT"], lefts, sents,
             Append(out, Header("ZEOF", Size(s.file))))

SendZfin(s, lefts) ==
  Answers([s EXCEPT !.state = "ZFIN_WAIT"], lefts, <<Header("ZFIN", 0)>>)

\* setup_for_next_file() and the state it leads to.
NextFile(s, lefts) ==
  IF s.file < Len(Batch)
  THEN SendZfile([s EXCEPT !.file = @ + 1], lefts)
  ELSE SendZfin([s EXCEPT !.file = @ + 1, !.open = FALSE], lefts)

\* The part of send_zdata() that sends the next block, of at most b units: the
\* last block, which asks for a ZACK and ends the frame, is a short one.
SendBlock(s, lefts, sents, out) ==
  \E b \in 1 .. BlockMax :
    LET file == Batch[s.file]
        n == AtMost(Len(file) - s.pos, b)
        t == [s EXCEPT !.pos = @ + n, !.errors = 0]
        block == SubSeq(file, s.pos + 1, s.pos + n)
        Sends(u, kind) ==
          SenderStep(u, lefts, sents, Append(out, Packet(kind, 0, block)))
        window == IF s.reliable THEN ReliableWindow ELSE UnreliableWindow
    IN \/ /\ n < b
          /\ Sends([t EXCEPT !.waiting = TRUE], "ZCRCW")
       \/ /\ n = b /\ s.acks = 1
          /\ Sends([t EXCEPT !.waiting = TRUE, !.streaming = TRUE, !.acks = window],
                   "ZCRCQ")
       \/ /\ n = b /\ s.acks > 1
          /\ Sends([t EXCEPT !.acks = @ - 1], "ZCRCG")

\* What came before the transfer, the terminal has shown.
SenderOpens ==
  /\ snd.state = "INIT"
  /\ SendZrqinit(snd, Rests(up))

SendZrqinitWait ==
  /\ snd.state = "ZRQINIT_WAIT"
  /\ \/ Arrives(up, "ZRINIT") /\ SendZsinit(snd, SenderCleared)
     \/ Arrives(up, "ZCHALLENGE")
        /\ Answers(snd, SenderNext, <<Header("ZACK", Head(up).n)>>)
     \/ Arrives(up, "ZNAK") /\ SendZrqinit(Erred(snd, 1), SenderCleared)
     \/ ArrivesOther(up, {"ZRINIT", "ZCHALLENGE", "ZNAK"})
        /\ Answers(Stopped(snd), SenderNext, <<>>)

\* No ZACK comes: the receiver cannot read a SHORT subpacket.
SendZsinitWait ==
  /\ snd.state = "ZSINIT_WAIT"
  /\ \/ Arrives(up, "ZACK") /\ SendZfile(snd, SenderCleared)
     \/ Arrives(up, "ZNAK") /\ SendZsinit(Erred(snd, 1), SenderCleared)
     \/ ArrivesOther(up, {"ZACK", "ZNAK"})
        /\ Answers(Stopped(snd), SenderNext, <<>>)

\* The CRC that answers a ZCRC is that of the first n bytes: it stands for them.
SendZfileWait ==
  /\ snd.state = "ZFILE_WAIT"
  /\ LET n == Head(up).n
         file == Batch[snd.file]
     IN \/ /\ Arrives(up, "ZRPOS") /\ n > Len(file)
           /\ Answers(Stopped(snd), SenderNext, <<>>)
           /\ UNCHANGED result
        \/ /\ Arrives(up, "ZRPOS") /\ n <= Len(file)
           /\ Answers([snd EXCEPT !.pos = n, !.prior = "ZFILE_WAIT",
                                  !.state = "ZDATA", !.ackReq = FALSE],
                      SenderNext, <<Header("ZDATA", n)>>)
           /\ UNCHANGED result
        \/ /\ Arrives(up, "ZNAK")
           /\ SendZfile(Erred(snd, 1), SenderCleared)
           /\ UNCHANGED result
        \/ /\ Arrives(up, "ZCRC")
           /\ Answers(snd, SenderNext,
                      <<Packet("ZCRC", 0, SubSeq(file, 1, AtMost(Len(file), n)))>>)
           /\ UNCHANGED result
        \/ /\ Arrives(up, "ZSKIP")
           /\ result' = Append(result, "SKIP")
           /\ NextFile(snd, SenderCleared)
        \/ /\ ArrivesOther(up, {"ZRPOS", "ZNAK", "ZCRC", "ZSKIP"})
           /\ Answers(Stopped(snd), SenderNext, <<>>)
           /\ UNCHANGED result

\* send_zdata() with nothing to read.
SendZdata ==
  /\ snd.state = "ZDATA" /\ ~snd.waiting /\ ~snd.ackReq
  /\ Len(down) < LineRoom
  /\ ~Arrives(up, "CUT")
  /\ SendBlock(snd, {up}, {down}, <<>>)

SendZdataSkip ==
  /\ snd.state = "ZDATA"
  /\ Arrives(up, "ZSKIP")
  /\ SendZeof(snd, SenderCleared, Sent(down), <<Packet("ZCRCW", 0, <<>>)>>)

\* The first ZRPOS throws away what can be and asks for a ZACK with an empty
\* block, the second one goes on.
SendZdataRpos ==
  /\ snd.state = "ZDATA"
  /\ Arrives(up, "ZRPOS")
  /\ LET n == Head(up).n
     IN \/ /\ n > Size(snd.file)
           /\ Answers(Stopped(snd), SenderNext, <<>>)
        \/ /\ n <= Size(snd.file) /\ ~snd.ackReq
           /\ SenderStep([Erred(snd, 1) EXCEPT
                            !.ackReq = TRUE, !.waiting = TRUE, !.streaming = FALSE,
                            !.pos = n, !.acks = UnreliableWindow],
                         SenderCleared, Sent(down),
                         <<Header("ZDATA", n), Packet("ZCRCW", 0, <<>>)>>)
        \/ /\ n <= Size(snd.file) /\ snd.ackReq
           /\ SendBlock([snd EXCEPT !.ackReq = FALSE, !.waiting = FALSE, !.pos = n],
                        SenderNext, {down}, <<Header("ZDATA", n)>>)

\* Slip: a frame that has ended is not begun again.
SendZdataAckHeadless ==
  /\ snd.state = "ZDATA"
  /\ Arrives(up, "ZACK")
  /\ LET n == Head(up).n
         s == [snd EXCEPT !.ackReq = FALSE, !.waiting = FALSE, !.pos = n]
     IN \/ /\ n >= Size(snd.file)
           /\ SendZeof(s, SenderCleared, {down}, <<>>)
        \/ /\ n < Size(snd.file)
           /\ SendBlock(s, SenderNext, {down}, <<>>)

\* After a ZCRCQ the frame goes on, after a ZCRCW it needs a new header.
SendZdataAck ==
  /\ snd.state = "ZDATA"
  /\ Arrives(up, "ZACK")
  /\ LET n == Head(up).n
         s == [snd EXCEPT !.ackReq = FALSE, !.waiting = FALSE]
     IN \/ /\ n >= Size(snd.file)
           /\ SendZeof([s EXCEPT !.pos = IF n > Size(snd.file) THEN @ ELSE n],
                       SenderCleared, {down}, <<>>)
        \/ /\ n < Size(snd.file) /\ snd.streaming
           /\ SendBlock([s EXCEPT !.pos = n], SenderNext, {down}, <<>>)
        \/ /\ n < Size(snd.file) /\ ~snd.streaming
           /\ SendBlock([s EXCEPT !.pos = n, !.streaming = TRUE], SenderNext, {down},
                        <<Header("ZDATA", n)>>)

\* The state ZRPOS does not exist for a sender.
SendZdataNak ==
  /\ snd.state = "ZDATA"
  /\ Arrives(up, "ZNAK")
  /\ LET s == [Erred(snd, 1) EXCEPT !.state = "ZRPOS"]
     IN IF snd.waiting \/ snd.ackReq
        THEN Answers(s, SenderNext, <<>>)
        ELSE SendBlock(s, SenderNext, {down}, <<>>)

SendZdataOther ==
  /\ snd.state = "ZDATA"
  /\ ArrivesOther(up, {"ZSKIP", "ZRPOS", "ZACK", "ZNAK"})
  /\ Answers(Stopped(snd), SenderNext, <<>>)

SendZeofWait ==
  /\ snd.state = "ZEOF_WAIT"
  /\ \/ /\ Arrives(up, "ZRINIT")
        /\ result' = Append(result, "OK")
        /\ NextFile(snd, SenderCleared)
     \/ /\ Arrives(up, "ZNAK")
        /\ SendZeof(Erred(snd, 1), SenderCleared, {down}, <<>>)
        /\ UNCHANGED result
     \/ /\ ArrivesOther(up, {"ZRINIT", "ZNAK"})
        /\ Answers(Stopped(snd), SenderNext, <<>>)
        /\ UNCHANGED result

SendZfinWait ==
  /\ snd.state = "ZFIN_WAIT"
  /\ \/ Arrives(up, "ZFIN")
        /\ Answers(Ended(snd, "COMPLETE", "END"), SenderNext, <<>>)
     \/ (Arrives(up, "ZNAK") \/ Arrives(up, "ZRINIT"))
        /\ SendZfin(Erred(snd, 1), SenderCleared)
     \/ ArrivesOther(up, {"ZFIN", "ZNAK", "ZRINIT"})
        /\ Answers(Stopped(snd), SenderNext, <<>>)

\* The handlers' answer to ZM_PP_CRCERROR (which is two errors) and ZM_PP_INVALID.
SenderGarbled ==
  /\ snd.state # "INIT"
  /\ Arrives(up, "GARBLED")
  /\ \E n \in {1, 2} : Answers(Erred(snd, n), SenderCleared, <<Header("ZNAK", 0)>>)

\* zmodem_send(): "Send should NEVER see these states".
SenderAborts ==
  /\ snd.state = "ZRPOS"
  /\ Answers([snd EXCEPT !.xfer = "CRASH"], {up}, <<>>)

\* What the sender's handlers do once check_timeout() says so.
SenderResends(s) ==
  \/ snd.state = "ZRQINIT_WAIT" /\ SendZrqinit(s, {up})
  \/ snd.state = "ZSINIT_WAIT" /\ SendZsinit(s, {up})
  \/ snd.state = "ZFILE_WAIT" /\ SendZfile(s, {up})
  \/ snd.state = "ZDATA" /\ snd.waiting
     /\ Answers([s EXCEPT !.ackReq = TRUE, !.waiting = TRUE], {up},
                <<Packet("ZCRCW", 0, <<>>)>>)
  \/ snd.state = "ZEOF_WAIT" /\ SendZeof(s, {up}, {down}, <<>>)
  \/ snd.state = "ZFIN_WAIT" /\ SendZfin(s, {up})

-----------------------------------------------------------------------------
(* Receiver *)

ReceiverStep(r, lefts, out) ==
  \E left \in lefts :
    /\ rcv' = r
    /\ down' = IF Running(r) THEN left ELSE <<>>
    /\ up' = IF Running(snd) THEN up \o out ELSE <<>>

ReceiverNext == {Tail(down)}
ReceiverCleared == Rests(Tail(down))

\* The value is random: another one than the last.
SendZchallenge(r, lefts) ==
  LET v == 1 - r.value
  IN ReceiverStep([r EXCEPT !.state = "ZCHALLENGE_WAIT", !.value = v], lefts,
                  <<Header("ZCHALLENGE", v)>>)

SendZrinit(r, lefts) ==
  ReceiverStep([r EXCEPT !.state = "ZRINIT_WAIT"], lefts, <<Header("ZRINIT", 0)>>)

SendZrpos(r, lefts) ==
  ReceiverStep([r EXCEPT !.state = "ZRPOS_WAIT"], lefts, <<Header("ZRPOS", r.pos)>>)

\* It reads the file: not without one.
SendZcrc(r, lefts) ==
  \/ /\ r.open
     /\ ReceiverStep([r EXCEPT !.state = "ZCRC_WAIT"], lefts,
                     <<Header("ZCRC", Len(disk[r.file][r.version]))>>)
  \/ /\ ~r.open
     /\ ReceiverStep([r EXCEPT !.xfer = "CRASH"], lefts, <<>>)

\* receive_zskip() closes the file and asserts that it has a name.
SendZskip(r, lefts) ==
  \/ /\ r.open
     /\ ReceiverStep([r EXCEPT !.open = FALSE, !.prior = "ZSKIP",
                               !.state = "ZRINIT_WAIT"], lefts,
                     <<Header("ZSKIP", 0)>>)
  \/ /\ ~r.open
     /\ ReceiverStep([r EXCEPT !.xfer = "CRASH"], lefts, <<>>)

\* Another answer to the file before: ZSKIP if that is what it was.
RepeatZrinit(r, lefts) ==
  IF r.prior = "ZSKIP" THEN SendZskip(r, lefts) ELSE SendZrinit(r, lefts)

\* The user begins the download, or the terminal does when it sees a ZRQINIT.
ReceiverOpens ==
  /\ rcv.state = "INIT"
  /\ LET Begin(lefts) == IF scenario.challenge
                         THEN SendZchallenge(rcv, lefts)
                         ELSE SendZrinit(rcv, lefts)
     IN IF scenario.autostart
        THEN \/ Arrives(down, "ZRQINIT") /\ Begin(ReceiverCleared)
             \/ /\ down # <<>> /\ Head(down).kind # "ZRQINIT"
                /\ ReceiverStep(rcv, ReceiverNext, <<>>)
        ELSE Begin(Rests(down))

ReceiveZchallengeWait ==
  /\ rcv.state = "ZCHALLENGE_WAIT"
  /\ \/ Arrives(down, "ZACK") /\ Head(down).n = rcv.value
        /\ SendZrinit(rcv, ReceiverCleared)
     \/ Arrives(down, "ZACK") /\ Head(down).n # rcv.value
        /\ ReceiverStep(Stopped(rcv), ReceiverNext, <<>>)
     \/ Arrives(down, "ZNAK") /\ SendZchallenge(Erred(rcv, 1), ReceiverCleared)
     \/ Arrives(down, "ZRQINIT") /\ SendZchallenge(rcv, ReceiverCleared)
     \/ ArrivesOther(down, {"ZACK", "ZNAK", "ZRQINIT"})
        /\ ReceiverStep(Stopped(rcv), ReceiverNext, <<>>)

Collects(prior, type) == [rcv EXCEPT !.prior = prior, !.state = "ZDATA", !.type = type]

ReceiveZrinitWait ==
  /\ rcv.state = "ZRINIT_WAIT"
  /\ \/ Arrives(down, "ZFIN")
        /\ ReceiverStep(Ended(rcv, "COMPLETE", "END"), ReceiverNext,
                        <<Header("ZFIN", 0)>>)
     \/ Arrives(down, "ZRQINIT") /\ SendZrinit(rcv, ReceiverCleared)
     \/ \E type \in {"ZSINIT", "ZFILE"} :
          Arrives(down, type)
          /\ ReceiverStep(Collects("ZRINIT_WAIT", type), ReceiverNext, <<>>)
     \/ Arrives(down, "ZNAK") /\ RepeatZrinit(Erred(rcv, 1), ReceiverCleared)
     \/ ArrivesOther(down, {"ZFIN", "ZRQINIT", "ZSINIT", "ZFILE", "ZNAK"})
        /\ ReceiverStep(Stopped(rcv), ReceiverNext, <<>>)

\* Slip: the position in the file that is there is kept for the new one.
RenamedThere(r) == [r EXCEPT !.version = Len(disk[r.file]) + 1]

\* The first name with a suffix that is free (receive_zcrc_wait(), receive_zfile()).
NewVersion == disk' = [disk EXCEPT ![rcv'.file] = Append(@, <<>>)]

Renamed(r) == [r EXCEPT !.version = Len(disk[r.file]) + 1, !.pos = 0]

\* Slip: the length of the file on disk is enough to tell that it is the same.
ReceiveZcrcWaitBlindly ==
  /\ rcv.state = "ZCRC_WAIT"
  /\ \/ /\ Arrives(down, "ZCRC")
        /\ IF rcv.pos = Size(rcv.file)
           THEN SendZskip(rcv, ReceiverCleared)
           ELSE SendZrpos(rcv, ReceiverCleared)
     \/ /\ ArrivesOther(down, {"ZCRC"})
        /\ ReceiverStep(Stopped(rcv), ReceiverNext, <<>>)
  /\ UNCHANGED disk

\* The same CRC over what is on disk means crash recovery, or nothing to do.
ReceiveZcrcWait ==
  /\ rcv.state = "ZCRC_WAIT"
  /\ LET same == Head(down).data = disk[rcv.file][rcv.version]
     IN \/ /\ Arrives(down, "ZCRC") /\ same
           /\ IF rcv.pos = Size(rcv.file)
              THEN SendZskip(rcv, ReceiverCleared)
              ELSE SendZrpos(rcv, ReceiverCleared)
           /\ UNCHANGED disk
        \/ /\ Arrives(down, "ZCRC") /\ ~same
           /\ SendZrpos(Renamed(rcv), ReceiverCleared)
           /\ NewVersion
        \/ /\ Arrives(down, "ZNAK")
           /\ SendZcrc(Erred(rcv, 1), ReceiverCleared)
           /\ UNCHANGED disk
        \/ /\ Arrives(down, "ZFILE")   \* "Sender does not understand ZCRC!"
           /\ SendZrpos(Erred(Collects("ZCRC_WAIT", "ZFILE"), 1), ReceiverCleared)
           /\ UNCHANGED disk
        \/ /\ ArrivesOther(down, {"ZCRC", "ZNAK", "ZFILE"})
           /\ ReceiverStep(Stopped(rcv), ReceiverNext, <<>>)
           /\ UNCHANGED disk

\* The position in a ZDATA header is not looked at.
ReceiveZrposWait ==
  /\ rcv.state = "ZRPOS_WAIT"
  /\ \/ /\ Arrives(down, "ZEOF") /\ Head(down).n = rcv.pos
        /\ ReceiverStep([rcv EXCEPT !.open = FALSE, !.state = "ZRINIT_WAIT"],
                        ReceiverNext, <<Header("ZRINIT", 0)>>)
        /\ saved' = [saved EXCEPT ![rcv.file] =
                       Append(@, disk[rcv.file][rcv.version])]
     \/ /\ \/ Arrives(down, "ZEOF") /\ Head(down).n # rcv.pos
           \/ Arrives(down, "ZNAK")
        /\ SendZrpos(Erred(rcv, 1), ReceiverCleared)
        /\ UNCHANGED saved
     \/ /\ Arrives(down, "ZDATA")
        /\ ReceiverStep(Collects("ZRPOS_WAIT", "ZDATA"), ReceiverNext, <<>>)
        /\ UNCHANGED saved
     \/ /\ ArrivesOther(down, {"ZEOF", "ZNAK", "ZDATA"})
        /\ ReceiverStep(Stopped(rcv), ReceiverNext, <<>>)
        /\ UNCHANGED saved

\* Data subpackets where a header is expected are run over.
Hunting == {"ZCHALLENGE_WAIT", "ZCRC_WAIT", "ZRINIT_WAIT", "ZRPOS_WAIT"}

ReceiverSkipsData ==
  /\ rcv.state \in Hunting
  /\ \E kind \in DataKinds : Arrives(down, kind)
  /\ ReceiverStep(rcv, ReceiverNext, <<>>)

\* After data receive_zrpos_wait() looks at the same bytes again and again: until
\* there are too many errors, or for ever if parse_packet() counts none.
ReceiverGarbled ==
  /\ rcv.state \in Hunting
  /\ Arrives(down, "GARBLED")
  /\ IF rcv.state = "ZRPOS_WAIT" /\ rcv.prior = "ZRPOS_WAIT"
     THEN \/ ReceiverStep(Stopped(rcv), ReceiverNext, <<>>)
          \/ ReceiverStep(Ended(rcv, rcv.state, "HANG"), ReceiverNext, <<>>)
     ELSE \E n \in {1, 2} :
            ReceiverStep(Erred(rcv, n), ReceiverCleared, <<Header("ZNAK", 0)>>)

\* receive_zfile(): the file that is there is gone on with if it can be the same.
ReceiveZfile(f) ==
  LET r == [rcv EXCEPT !.file = f, !.open = TRUE]
      there == disk[f]
      mayBeTheSame == there # <<>> /\ Len(there[1]) <= Size(f)
  IN \/ /\ ~mayBeTheSame
        /\ SendZrpos(Renamed(r), ReceiverCleared)
        /\ NewVersion
     \/ /\ mayBeTheSame
        /\ SendZcrc([r EXCEPT !.version = 1, !.pos = Len(there[1])], ReceiverCleared)
        /\ UNCHANGED disk

Kept == UNCHANGED <<disk, saved>>

\* receive_zdata(): what is no readable end of a subpacket becomes part of the next
\* one, and if that is too much for packet_buffer nothing is ever read again.  A SHORT
\* subpacket has its end but waits for one more byte.
ReceiveJunk ==
  /\ rcv.state = "ZDATA" /\ down # <<>> /\ rcv.junk # "SHORT"
  /\ LET kind == Head(down).kind
         Holds(junk) == ReceiverStep([rcv EXCEPT !.junk = junk], ReceiverNext, <<>>)
     IN \/ /\ kind \notin SubpacketKinds
           /\ Holds(IF rcv.junk = "FULL" THEN "FULL"
                    ELSE IF kind = "SHORT" THEN "SHORT" ELSE "YES")
        \/ /\ kind \in SubpacketKinds /\ rcv.junk # "NO"
           /\ Holds("FULL")
  /\ Kept

\* What follows a SHORT subpacket, a ZSINIT again, gives it the byte it lacks, which is
\* the only one that could begin that header.
ReceiveBadData ==
  /\ rcv.state = "ZDATA" /\ down # <<>>
  /\ \/ Head(down).kind = "DAMAGED" /\ rcv.junk # "FULL"
     \/ Head(down).kind \in SubpacketKinds /\ rcv.junk = "YES"
     \/ rcv.junk = "SHORT"
  /\ LET r == [Erred(rcv, 1) EXCEPT !.junk = "NO"]
     IN IF rcv.prior = "ZRPOS_WAIT"
        THEN SendZrpos(r, ReceiverCleared)
        ELSE ReceiverStep([r EXCEPT !.state = "ZRINIT_WAIT"], ReceiverCleared,
                          <<Header("ZNAK", 0)>>)
  /\ Kept

\* The ZSINIT of another program than qodem is answered here.
ReceiveGoodData ==
  /\ rcv.state = "ZDATA" /\ rcv.junk = "NO"
  /\ \E kind \in {"ZCRCG", "ZCRCQ", "ZCRCW"} : Arrives(down, kind)
  /\ LET packet == Head(down)
         r == [rcv EXCEPT !.pos = @ + Len(packet.data), !.errors = 0,
                          !.state = IF packet.kind = "ZCRCW" THEN "ZRPOS_WAIT" ELSE @]
     IN \/ /\ rcv.prior = "ZRPOS_WAIT"
           /\ ReceiverStep(r, ReceiverNext,
                           IF packet.kind = "ZCRCG" THEN <<>>
                           ELSE <<Header("ZACK", r.pos)>>)
           /\ disk' = [disk EXCEPT ![rcv.file][rcv.version] = @ \o packet.data]
        \/ /\ rcv.prior # "ZRPOS_WAIT" /\ rcv.type = "ZSINIT"
           /\ ReceiverStep([rcv EXCEPT !.state = "ZRINIT_WAIT"], ReceiverNext,
                           <<Header("ZACK", 0)>>)
           /\ UNCHANGED disk
        \/ /\ rcv.prior # "ZRPOS_WAIT" /\ rcv.type = "ZFILE"
           /\ ReceiveZfile(packet.n)
  /\ UNCHANGED saved

\* What the receiver's handlers do once check_timeout() says so: there is none
\* in ZDATA.
ReceiverResends(r) ==
  \/ rcv.state = "ZCHALLENGE_WAIT" /\ SendZchallenge(r, {down})
  \/ rcv.state = "ZCRC_WAIT" /\ SendZcrc(r, {down})
  \/ rcv.state = "ZRINIT_WAIT" /\ RepeatZrinit(r, {down})
  \/ rcv.state = "ZRPOS_WAIT" /\ SendZrpos(r, {down})

-----------------------------------------------------------------------------
(* Steps of the system *)

SenderUnchanged == UNCHANGED <<scenario, rcv, disk, saved, faults, session>>
ReceiverUnchanged == UNCHANGED <<scenario, snd, result, session>>

SenderHandles ==
  /\ Running(snd)
  /\ \/ SendZfileWait \/ SendZeofWait
     \/ /\ \/ SenderOpens \/ SendZrqinitWait \/ SendZsinitWait \/ SendZdata
           \/ SendZdataSkip \/ SendZdataRpos \/ SendZdataAck \/ SendZdataNak
           \/ SendZdataOther \/ SendZfinWait \/ SenderGarbled \/ SenderAborts
        /\ UNCHANGED result
  /\ SenderUnchanged

ReceiverHandles ==
  /\ Running(rcv)
  /\ \/ /\ \/ ReceiverOpens \/ ReceiveZchallengeWait \/ ReceiveZrinitWait
           \/ ReceiverSkipsData \/ ReceiverGarbled
        /\ Kept
     \/ ReceiveZcrcWait /\ UNCHANGED saved
     \/ ReceiveZrposWait /\ UNCHANGED disk
     \/ ReceiveJunk \/ ReceiveBadData \/ ReceiveGoodData
  /\ UNCHANGED faults
  /\ ReceiverUnchanged

Spend(kind) == kind \in scenario.faults /\ faults < scenario.most /\ faults' = faults + 1

\* Nobody has anything to do but wait, if for the rest of a header.
Waited(line) == line = <<>> \/ (Len(line) = 1 /\ Arrives(line, "CUT"))

Quiet ==
  /\ down = <<>> \/ (Waited(down) /\ rcv.state \in Hunting)
  /\ Waited(up)
  /\ Running(snd) => snd.state \notin {"INIT", "ZRPOS"}
  /\ Running(snd) /\ snd.state = "ZDATA" => snd.waiting
  /\ Running(rcv) => rcv.state # "INIT" \/ scenario.autostart

\* A timer runs out when all is quiet; earlier if the line is slow.  It does not
\* while packet_buffer holds the beginning of a header.
OnTime == Quiet /\ UNCHANGED faults
Early == ~Quiet /\ Spend("late")

SenderTimeout ==
  /\ Running(snd)
  /\ ~Arrives(up, "CUT")
  /\ SenderResends(TimedOut(snd))
  /\ UNCHANGED <<scenario, rcv, disk, saved, result, session>>

ReceiverTimeout ==
  /\ Running(rcv)
  /\ ~Arrives(down, "CUT")
  /\ ReceiverResends(TimedOut(rcv))
  /\ Kept
  /\ ReceiverUnchanged

\* What the line can make of itself, by harm to the element that comes next.
Harmed(kind, line) ==
  LET e == Head(line)
      IsHeader == e.kind \notin DataKinds \cup UnreadableKinds
      Turned(into) == {<<Header(into, 0)>> \o Tail(line)}
  IN CASE kind = "damage" /\ e.kind \in SubpacketKinds -> Turned("DAMAGED")
       [] kind = "junk" /\ e.kind \in SubpacketKinds \cup {"SHORT"} -> Turned("JUNK")
       [] kind = "garble" /\ IsHeader -> Turned("GARBLED")
       [] kind = "cut" /\ IsHeader -> Turned("CUT")
       [] kind = "lose" /\ IsHeader -> {Tail(line)}
       [] OTHER -> {}

LineFails ==
  /\ \E kind \in FaultKinds :
       /\ Spend(kind)
       /\ \/ down # <<>> /\ down' \in Harmed(kind, down) /\ up' = up
          \/ up # <<>> /\ up' \in Harmed(kind, up) /\ down' = down
  /\ UNCHANGED <<scenario, snd, rcv, disk, saved, result, session>>

\* What follows the beginning of a header is taken for the rest of it, or, if
\* only its first byte was there, is a header by itself.
Joined(line) ==
  LET after == SubSeq(line, 3, Len(line))
  IN {<<Header("GARBLED", 0)>> \o after} \cup
     (IF line[2].kind \in DataKinds THEN {} ELSE {Tail(line)})

HeadersJoin ==
  /\ \/ Arrives(up, "CUT") /\ Len(up) > 1 /\ up' \in Joined(up) /\ down' = down
     \/ /\ rcv.state \in Hunting
        /\ Arrives(down, "CUT") /\ Len(down) > 1
        /\ down' \in Joined(down) /\ up' = up
  /\ UNCHANGED <<scenario, snd, rcv, disk, saved, result, faults, session>>

\* receive_zfile() cannot create or open the file, or receive_zcrc_wait() the new one.
CannotCreate ==
  /\ Running(rcv)
  /\ \/ /\ rcv.state = "ZDATA" /\ rcv.junk = "NO"
        /\ rcv.prior # "ZRPOS_WAIT" /\ rcv.type = "ZFILE"
        /\ Arrives(down, "ZCRCW")
     \/ /\ rcv.state = "ZCRC_WAIT"
        /\ Arrives(down, "ZCRC") /\ Head(down).data # disk[rcv.file][rcv.version]
  /\ Spend("create")
  /\ ReceiverStep(Stopped(rcv), ReceiverNext, <<>>)
  /\ Kept
  /\ ReceiverUnchanged

\* A user presses ESC.
Escapes ==
  /\ scenario.aborts
  /\ \/ /\ Running(snd)
        /\ snd' = Ended(snd, snd.state, "ESC") /\ up' = <<>>
        /\ UNCHANGED <<rcv, down>>
     \/ /\ Running(rcv)
        /\ rcv' = Ended(rcv, rcv.state, "ESC") /\ down' = <<>>
        /\ UNCHANGED <<snd, up>>
  /\ UNCHANGED <<scenario, disk, saved, result, faults, session>>

\* The users try once more; a program that died has been started again.
Restarted(x, sending) ==
  Started(IF x.xfer \in {"CRASH", "HANG"} THEN Fresh ELSE x, sending)

NewSession ==
  /\ ~Running(snd) /\ ~Running(rcv)
  /\ session < scenario.sessions
  /\ snd' = Restarted(snd, TRUE)
  /\ rcv' = Restarted(rcv, FALSE)
  /\ down' = <<>> /\ up' = <<>> /\ result' = <<>>
  /\ session' = session + 1
  /\ UNCHANGED <<scenario, disk, saved, faults>>

Init ==
  /\ scenario \in Scenarios
  /\ snd = Started(Fresh, TRUE)
  /\ rcv = Started(Fresh, FALSE)
  /\ down = <<>> /\ up = <<>>
  /\ disk = scenario.disk
  /\ saved = [f \in Files |-> <<>>]
  /\ result = <<>>
  /\ faults = 0
  /\ session = 1

SenderTimesOut == SenderTimeout /\ OnTime
ReceiverTimesOut == ReceiverTimeout /\ OnTime
TimesOutEarly == (SenderTimeout \/ ReceiverTimeout) /\ Early

Next ==
  \/ SenderHandles \/ ReceiverHandles
  \/ SenderTimesOut \/ ReceiverTimesOut \/ TimesOutEarly
  \/ HeadersJoin \/ LineFails \/ CannotCreate
  \/ Escapes \/ NewSession

\* process_incoming_data() calls zmodem() again and again.
Fairness ==
  /\ WF_vars(SenderHandles) /\ WF_vars(ReceiverHandles) /\ WF_vars(HeadersJoin)
  /\ WF_vars(SenderTimesOut) /\ WF_vars(ReceiverTimesOut)

Spec == Init /\ [][Next]_vars /\ Fairness

-----------------------------------------------------------------------------
(* Properties *)

Status ==
  [state : {"INIT", "COMPLETE", "ABORT", "ZDATA", "ZRINIT_WAIT", "ZCHALLENGE_WAIT",
            "ZRPOS", "ZRPOS_WAIT", "ZCRC_WAIT", "ZRQINIT_WAIT", "ZSINIT_WAIT",
            "ZFILE_WAIT", "ZEOF_WAIT", "ZFIN_WAIT"},
   prior : {"INIT", "ZRINIT_WAIT", "ZRPOS_WAIT", "ZCRC_WAIT", "ZSKIP", "ZFILE_WAIT"},
   file : Nat, version : Nat, pos : Nat, open : BOOLEAN, ackReq : BOOLEAN,
   waiting : BOOLEAN, streaming : BOOLEAN, acks : Nat, reliable : BOOLEAN,
   errors : 0 .. ErrorsMax, timeouts : 0 .. TimeoutMax,
   type : {"ZFILE", "ZSINIT", "ZDATA"}, junk : {"NO", "YES", "SHORT", "FULL"}, value : {0, 1},
   xfer : {"RUN", "END", "ABORT", "ESC", "CRASH", "HANG"}]

Elements ==
  [kind : {"ZRQINIT", "ZRINIT", "ZSINIT", "ZACK", "ZFILE", "ZSKIP", "ZNAK", "ZFIN",
           "ZRPOS", "ZDATA", "ZEOF", "ZCRC", "ZCHALLENGE"} \cup DataKinds
          \cup UnreadableKinds,
   n : Nat, data : Seq(Units)]

\* The states are those of the code's types, and counters stay in their ranges.
TypeOK ==
  /\ scenario \in Scenarios
  /\ {snd, rcv} \subseteq Status
  /\ {down, up} \subseteq Seq(Elements)
  /\ disk \in [Files -> Seq(Seq(Units))]
  /\ saved \in [Files -> Seq(Seq(Units))]
  /\ result \in Seq({"OK", "SKIP"})
  /\ faults \in 0 .. scenario.most
  /\ session \in 1 .. scenario.sessions

\* What the receiver closes as complete at a ZEOF is the sender's file, and what the
\* sender logs as complete after a ZSKIP is there.
CompleteIsWhole ==
  /\ \A f \in Files : \A k \in DOMAIN saved[f] : saved[f][k] = Batch[f]
  /\ \A f \in DOMAIN result : \E k \in DOMAIN disk[f] : disk[f][k] = Batch[f]

\* Crash recovery and renaming leave nobody else's file changed: a file of the
\* receiver grows along the file that is being sent, or stays as it is.
OwnFilesKept ==
  [][\A f \in Files : \A k \in DOMAIN disk[f] :
       \/ disk'[f][k] = disk[f][k]
       \/ /\ IsStrictPrefix(disk[f][k], disk'[f][k])
          /\ IsPrefix(disk'[f][k], Batch[f])]_vars

Succeeded == snd.xfer = "END" /\ rcv.xfer = "END" /\ Len(result) = Len(Batch)

\* The ZCRCQ of a full window came at the end of the file: the ZEOF follows in the
\* middle of a frame, where the receiver takes it for data.
EndsInFrame ==
  /\ snd.state = "ZEOF_WAIT"
  /\ rcv.state = "ZDATA" /\ rcv.prior = "ZRPOS_WAIT" /\ rcv.junk # "NO"

\* Damage to data does not stop a transfer, unless it begins with a ZSINIT.
Completes ==
  (/\ scenario.faults \subseteq {"damage"} /\ ~scenario.aborts /\ scenario.autostart
   /\ ~scenario.zsinit)
    => <>(Succeeded \/ EndsInFrame)

\* The same without the ZCRCQ: a transfer over a clean line completes.
CompletesIfClean ==
  (scenario.faults = {} /\ ~scenario.aborts /\ scenario.autostart /\ ~scenario.zsinit)
    => <>Succeeded

\* A transfer that begins with a ZSINIT gets no further: the subpacket behind it has
\* a CRC-16 and is awaited with a CRC-32, so that no ZACK ever answers it.  No file is
\* ever begun, closed, logged or skipped, however often the users try.
StuckAtZsinit ==
  scenario.zsinit =>
    /\ disk = scenario.disk /\ \A f \in Files : saved[f] = <<>>
    /\ result = <<>> /\ snd.xfer # "END" /\ rcv.xfer # "END"

\* A program that has nothing to wait for any more gives up, but for a receiver
\* that collects data.
Stops ==
  \A n \in 1 .. SessionsMax :
    (session = n /\ "cut" \notin scenario.faults)
      ~> (session # n
          \/ (~Running(snd) /\ (~Running(rcv) \/ rcv.state \in {"INIT", "ZDATA"})))

\* The file being received, as far as the receiver is going on with it.
Outcome(x) == CASE x.xfer = "RUN" -> "none" [] x.xfer = "END" -> "XFER_OK" [] OTHER -> "XFER_ABORT"
Receiving(f) ==
  /\ rcv.open /\ rcv.file = f
  /\ \/ rcv.state = "ZRPOS_WAIT"
     \/ rcv.state = "ZDATA" /\ rcv.prior = "ZRPOS_WAIT"

Batches ==
  INSTANCE BatchTransfer WITH
    Peers <- {"snd", "rcv"},
    Batch <- [snd |-> Batch, rcv |-> <<>>],
    part <- [snd |-> <<>>,
             rcv |-> [f \in Files |-> IF Receiving(f) THEN disk[f][rcv.version] ELSE <<>>]],
    saved <- [snd |-> <<>>, rcv |-> saved],
    result <- [snd |-> result, rcv |-> <<>>],
    outcome <- [snd |-> Outcome(snd), rcv |-> Outcome(rcv)]

RefinesBatchTransfer == Batches!Spec

=============================================================================
