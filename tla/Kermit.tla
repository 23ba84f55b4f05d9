------------------------------- MODULE Kermit -------------------------------
(***************************************************************************)
(* A batch of files sent from one qodem to another by Kermit (kermit.c),   *)
(* streaming or with sliding windows: the sender, the receiver with its    *)
(* ring of input packets, the line between them and the receiver's disk.   *)
(*                                                                         *)
(* A packet travels as one element.  A step of a program is one round of   *)
(* the loop of kermit(): decode_input_bytes(), check_for_repeat(),         *)
(* save_input_packet(), move_windows(), the handler of the state, and      *)
(* encode_output_packet().                                                 *)
(***************************************************************************)
EXTENDS Integers, SequencesExt, FiniteSetsExt

CONSTANTS
  Batch,       \* the files the sender has chosen, as sequences of units
  Scenarios,   \* the circumstances of a run (see ScenarioOK)
  WindowSize,  \* WINDO, if both have it (30 in kermit.c)
  SeqCount,    \* sequence numbers in a packet (64)
  TimeoutMax,  \* timeout_max
  LineRoom,    \* bound: packets on their way before more data are sent
  MaxFaults    \* bound: faults in a run

VARIABLES
  scenario,   \* which circumstances
  snd, rcv,   \* "status" and the windows of the two programs
  down, up,   \* what is on its way to the receiver, to the sender
  faults      \* faults so far

vars == <<scenario, snd, rcv, down, up, faults>>

Files == DOMAIN Batch
FaultKinds == {"lose", "lose data", "damage", "skip", "late"}

\* streaming: the option kermit_streaming of both; prompt: a program that starts finds
\* what the other has sent before, and the transfer throws it away; disk: the files of
\* the receiver that have the names of the batch.
ScenarioOK(c) ==
  /\ {c.streaming, c.prompt} \subseteq BOOLEAN
  /\ c.disk \in [Files -> Seq(Nat)]
  /\ c.faults \subseteq FaultKinds
  /\ c.most \in 0 .. MaxFaults

ASSUME KermitAssumption ==
  /\ Batch \in Seq(Seq(Nat \ {0})) /\ Batch # <<>>
  /\ \A c \in Scenarios : ScenarioOK(c)
  /\ WindowSize \in Nat \ {0, 1} /\ SeqCount \in Nat /\ SeqCount >= 2 * WindowSize
  /\ TimeoutMax \in Nat \ {0}
  /\ {LineRoom, MaxFaults} \subseteq Nat

-----------------------------------------------------------------------------
(* Packets *)

\* "note" and "n" stand for the data field: the number of the file in a FILE packet,
\* a unit in DATA (0: it is empty), the position in the ACK of ATTRIBUTES.
Packet(type, seq, note, n) == [type |-> type, seq |-> seq, note |-> note, n |-> n]
Plain(type, seq) == Packet(type, seq, "", 0)
Error(x) == Plain("ERROR", x.seq % SeqCount)

\* nak_packet() does not take its SEQ modulo 64, and decode_input_bytes() refuses it.
Readable(p) == p.seq < SeqCount

After(seq) == (seq + 1) % SeqCount

-----------------------------------------------------------------------------
(* What both programs have *)

\* Before and after the Send-Init: "opening" has windows of one packet; "bare" is what
\* an empty ACK of the Send-Init leaves.
OpeningMode(c) == IF c.streaming THEN "streaming" ELSE "opening"
NegotiatedMode(c) == IF c.streaming THEN "streaming" ELSE "windows"
Slots(x) == IF x.mode = "windows" THEN WindowSize ELSE 1
Windowing(x) == x.mode \in {"opening", "windows"}
Streaming(x) == x.mode = "streaming"

Ended(x) == x.state \in {"COMPLETE", "ABORT", "CRASH"}
Running(x) == x.state # "OFF" /\ ~Ended(x)

-----------------------------------------------------------------------------
(* The ring of input packets: "count" slots from "begin" on *)

Blank == [type |-> "none", seq |-> 0, acked |-> FALSE, n |-> 0]
Held(p) == [type |-> p.type, seq |-> p.seq, acked |-> TRUE, n |-> p.n]
Gap(seq) == [Blank EXCEPT !.seq = seq]

At(r, k) == (r.begin + k) % Slots(r)
End(r) == At(r, r.count)                                    \* input_window_i
Newest(r) == IF End(r) = 0 THEN Slots(r) - 1 ELSE End(r) - 1
Full(r) == r.count = Slots(r)
Missing(r) == {k \in 0 .. r.count - 1 : ~r.slots[At(r, k)].acked}
Oldest(r) == r.slots[r.begin]

\* fwrite(): without a file it is the end of the program.
Written(r, units) ==
  IF units = <<>> THEN r
  ELSE IF r.open THEN [r EXCEPT !.disk[r.file] = @ \o units]
  ELSE [r EXCEPT !.state = "CRASH"]

\* What is to be written of the first k slots.
Units(r, k) ==
  LET Slot(j) == r.slots[At(r, j)]
      held == {j \in 0 .. k - 1 : Slot(j).acked /\ Slot(j).type = "DATA" /\ Slot(j).n # 0}
      Place(i) == CHOOSE j \in held : Cardinality({h \in held : h <= j}) = i
  IN [i \in 1 .. Cardinality(held) |-> Slot(Place(i)).n]

\* Rolls k slots off the back of the window.  Only their SEQ is left.
RolledOff(r, k) ==
  LET freed == {At(r, j) : j \in 0 .. k - 1}
  IN [Written(r, Units(r, k)) EXCEPT
        !.begin = At(r, k), !.count = @ - k,
        !.slots = [i \in DOMAIN @ |-> IF i \in freed THEN Gap(@[i].seq) ELSE @[i]]]

Added(r, slot) == [r EXCEPT !.slots[End(r)] = slot, !.count = @ + 1]

\* Slip: gaps are saved too.
SavedAllAndGaps(r) == RolledOff(r, r.count)

\* window_save_all()
SavedAll(r) == RolledOff(r, IF Missing(r) = {} THEN r.count ELSE Min(Missing(r)))

\* window_next_packet_seq()
IsNext(r, seq) == r.count = 0 \/ seq = After(r.slots[Newest(r)].seq)

\* What nak_packet() asks for.  The slot before the first one is taken to be the one
\* at the end of the window, not of the ring.
Wanted(r) ==
  IF Missing(r) # {} THEN r.slots[At(r, Min(Missing(r)))].seq
  ELSE IF r.count = 0 THEN r.seq + 1
  ELSE r.slots[IF End(r) = 0 THEN r.count - 1 ELSE End(r) - 1].seq + 1

\* nak_packet(), where "seq" is the SEQ in input_packet.
Nak(r, seq) ==
  LET nak == <<Plain("NAK", IF r.seq = 0 /\ seq = 0 THEN 0 ELSE Wanted(r))>>
  IN IF ~Windowing(r) \/ ~IsNext(r, seq) \/ ~Full(r) THEN [r |-> r, out |-> nak]
     ELSE IF Oldest(r).acked
     THEN [r |-> Added(RolledOff(r, 1), Gap(seq)), out |-> nak]
     ELSE [r |-> r, out |-> <<>>]

\* Slip: a window that is full grows.
StoredUncapped(r, i, p) ==
  LET kept == [r EXCEPT !.slots[i] = Held(p)]
  IN IF i # End(r) THEN kept ELSE [kept EXCEPT !.seq = @ + 1, !.count = @ + 1]

\* The end of save_input_packet().
Stored(r, i, p) ==
  LET kept == [r EXCEPT !.slots[i] = Held(p)]
  IN IF i # End(r) THEN kept
     ELSE [kept EXCEPT !.seq = @ + 1, !.count = IF Full(r) THEN @ ELSE @ + 1]

\* Slip: what is written stays in the window.
StoredNextUnrolled(r, p) ==
  Stored(IF Oldest(r).acked THEN Written(r, Units(r, 1)) ELSE r, End(r), p)

\* Case 1 of find_input_slot(): the packet that is next.
StoredNext(r, p) ==
  LET rolled == IF Oldest(r).acked /\ Full(r) THEN RolledOff(r, 1)
                ELSE IF Oldest(r).acked THEN Written(r, Units(r, 1)) ELSE r
  IN Stored(rolled, End(r), p)

\* Case 2: a packet was lost.
IsAhead(r, seq) ==
  LET last == r.slots[Newest(r)].seq
      most == (last + Slots(r)) % SeqCount
  IN \/ most > last + 2 /\ seq \in last + 2 .. most
     \/ most < last + 2 /\ (seq >= last + 2 \/ seq <= most)

\* Slip: one gap too many.
WithGapsAndOne(r, seq) ==
  LET last == r.slots[Newest(r)].seq
      gaps == Min({Slots(r) - r.count, (seq - last) % SeqCount})
      Filled(slots) == [i \in DOMAIN slots |->
        LET k == (i - End(r)) % Slots(r)
        IN IF i < Slots(r) /\ k < gaps THEN Gap((last + 1 + k) % SeqCount) ELSE slots[i]]
  IN [r EXCEPT !.slots = Filled(@), !.count = @ + gaps]

WithGaps(r, seq) ==
  LET last == r.slots[Newest(r)].seq
      gaps == Min({Slots(r) - r.count, (seq - last - 1) % SeqCount})
      Filled(slots) == [i \in DOMAIN slots |->
        LET k == (i - End(r)) % Slots(r)
        IN IF i < Slots(r) /\ k < gaps THEN Gap((last + 1 + k) % SeqCount) ELSE slots[i]]
  IN [r EXCEPT !.slots = Filled(@), !.count = @ + gaps]

StoredAhead(r, p) ==
  LET nak == Nak(r, After(r.slots[Newest(r)].seq))
      s == WithGaps(SavedAll(nak.r), p.seq)
  IN [r |-> IF Full(s) THEN s ELSE Added(s, Held(p)), out |-> nak.out]

\* Case 3: a packet that is in the window.
PlacesOf(r, seq) == {k \in 0 .. r.count - 1 : r.slots[At(r, k)].seq = seq}

\* save_input_packet(): "taken" if the packet goes on to the state's handler.
Save(r, p) ==
  CASE r.count = 0 -> [r |-> Stored(r, End(r), p), out |-> <<>>, taken |-> TRUE]
    [] r.count > 0 /\ IsNext(r, p.seq) ->
         [r |-> StoredNext(r, p), out |-> <<>>, taken |-> TRUE]
    [] r.count > 0 /\ ~IsNext(r, p.seq) /\ IsAhead(r, p.seq) ->
         LET s == StoredAhead(r, p) IN [r |-> s.r, out |-> s.out, taken |-> FALSE]
    [] OTHER ->
         IF PlacesOf(r, p.seq) = {} THEN [r |-> r, out |-> <<>>, taken |-> FALSE]
         ELSE [r |-> Stored(r, At(r, Min(PlacesOf(r, p.seq))), p),
               out |-> <<>>, taken |-> TRUE]
-----------------------------------------------------------------------------
(* Receiver *)

\* The reply to a packet, kept to be repeated.
Replies(r, reply) == [r |-> [r EXCEPT !.last = <<reply>>], out |-> <<reply>>]
Silent(r) == [r |-> r, out |-> <<>>]
Aborted(r) == [r EXCEPT !.state = "ABORT", !.open = FALSE]
WrongPacket(r) == Replies(Aborted(r), Error(r))

\* ack_packet(): "really" if streaming does not matter.
Acks(r, p, really) ==
  IF r.skip THEN Replies([r EXCEPT !.skip = FALSE], Packet("ACK", p.seq, "skip", 0))
  ELSE IF really \/ ~Streaming(r) THEN Replies(r, Plain("ACK", p.seq))
  ELSE Silent(r)

\* negotiate_send_init() empties the window if there are windows, ack_send_init()
\* starts the sequence numbers.
ReceiveR(r, p) ==
  IF p.type # "SINIT" THEN WrongPacket(r)
  ELSE LET s == [r EXCEPT !.state = "RF", !.seq = 0, !.mode = NegotiatedMode(scenario)]
       IN Replies(IF Streaming(s) THEN s
                  ELSE [s EXCEPT !.begin = 0, !.count = 0,
                                 !.slots = [i \in DOMAIN @ |-> Blank]],
                  Packet("ACK", 0, "init", 0))

ReceiveRF(r, p) ==
  CASE p.type = "FILE" ->
         Replies([r EXCEPT !.state = "RDW", !.file = p.n], Packet("ACK", p.seq, "name", p.n))
    [] p.type = "BREAK" -> Acks([r EXCEPT !.state = "COMPLETE"], p, TRUE)
    [] OTHER -> WrongPacket(r)

\* The file is closed; as a complete one, if the sender has not skipped it.
ReceiveEof(r, p) ==
  LET s == SavedAll(r)
      Closed(x) == [x EXCEPT !.state = IF x.open THEN "RF" ELSE "CRASH", !.open = FALSE]
      Complete(x) == Closed([x EXCEPT !.closed = @ \cup {x.file}])
  IN IF p.note = "skip" THEN Acks(Closed(r), p, TRUE)
     ELSE IF ~Windowing(r) THEN Acks(Complete(r), p, TRUE)
     ELSE IF s.count = 0 THEN Acks(Complete(s), p, TRUE)
     ELSE Nak(s, p.seq)

\* open_receive_file() with RESEND: whatever has the name is taken up at its end.
ReceiveAttributes(r, p) ==
  IF r.open THEN Silent(r)
  ELSE Replies([r EXCEPT !.open = TRUE], Packet("ACK", p.seq, "pos", Len(r.disk[r.file])))

ReceiveRDW(r, p) ==
  CASE p.type = "EOF" -> ReceiveEof(r, p)
    [] p.type = "DATA" -> Acks(r, p, FALSE)
    [] p.type = "ATTRIBUTES" -> ReceiveAttributes(r, p)
    [] OTHER -> WrongPacket(r)

\* kermit_receive()
Handled(r, p) ==
  CASE r.state = "R" -> ReceiveR(r, p)
    [] r.state = "RF" -> ReceiveRF(r, p)
    [] r.state = "RDW" -> ReceiveRDW(r, p)
    [] OTHER -> Silent(r)

\* check_for_repeat(): the last packet that had a reply.
IsRepeat(r, p) ==
  /\ ~(Streaming(r) /\ r.state = "RDW")
  /\ r.last # <<>> /\ r.last[1].seq = p.seq

\* One round of the loop with a packet in it.  An ERROR ends the transfer, and is then
\* treated like any other packet.
Received(r, p) ==
  LET s == IF p.type = "ERROR" THEN Aborted(r) ELSE r
      saved == Save(s, p)
  IN IF IsRepeat(s, p) THEN [r |-> s, out |-> s.last]
     ELSE IF saved.taken THEN Handled(saved.r, p)
     ELSE [r |-> saved.r, out |-> saved.out]

-----------------------------------------------------------------------------
(* Sender *)

Sends(s, p) == [s |-> s, out |-> <<p>>]
Waits(s) == [s |-> s, out |-> <<>>]
SequenceError(s) == Sends([s EXCEPT !.state = "ABORT"], Error(s))

SendInit(s) == Sends([s EXCEPT !.state = "S", !.seq = 0], Plain("SINIT", 0))
SendFileHeader(s) ==
  Sends([s EXCEPT !.state = "SF", !.pos = 0], Packet("FILE", s.seq % SeqCount, "", s.file))

\* An ACK without parameters is the answer of a Kermit that can do nothing.
SendS(s, p) ==
  CASE p.type = "NAK" -> SendInit(s)
    [] p.type = "ACK" ->
         SendFileHeader([s EXCEPT !.seq = @ + 1,
                           !.mode = IF p.note = "" THEN "bare" ELSE NegotiatedMode(scenario)])
    [] OTHER -> SequenceError(s)

\* send_SD_next_packet(): encode_output_packet() moves file_position on.  If that is
\* beyond the end, it takes an empty packet to find feof().
SendNext(s) ==
  LET t == [s EXCEPT !.seq = @ + 1]
      seq == t.seq % SeqCount
      size == Len(Batch[s.file])
  IN CASE s.skip \/ s.pos = size ->
            Sends([t EXCEPT !.state = "SZ", !.skip = FALSE],
                  Packet("EOF", seq, IF s.skip THEN "skip" ELSE "", 0))
       [] ~s.skip /\ s.pos < size ->
            Sends([t EXCEPT !.pos = @ + 1], Packet("DATA", seq, "", Batch[s.file][s.pos + 1]))
       [] OTHER -> Sends([t EXCEPT !.pos = size], Packet("DATA", seq, "", 0))

\* Whatever the ACK is for.
SendSF(s, p) ==
  LET t == [s EXCEPT !.state = "SA", !.seq = @ + 1]
  IN CASE p.type # "ACK" -> SequenceError(s)
       [] p.type = "ACK" /\ s.mode = "bare" -> SendNext([s EXCEPT !.state = "SDW"])
       [] OTHER -> Sends(t, Plain("ATTRIBUTES", t.seq % SeqCount))

SendSA(s, p) ==
  IF p.type # "ACK" THEN SequenceError(s)
  ELSE SendNext([s EXCEPT !.state = "SDW", !.pos = IF p.note = "pos" THEN p.n ELSE @])

SendSDW(s, p) ==
  IF p.type # "ACK" THEN SequenceError(s)
  ELSE SendNext(IF p.note = "skip" THEN [s EXCEPT !.skip = TRUE] ELSE s)

\* Slip: the window is not looked at.
SendSZAtOnce(s, p) ==
  LET t == [s EXCEPT !.seq = @ + 1, !.file = @ + 1]
  IN CASE p.type # "ACK" -> SequenceError(s)
       [] OTHER -> IF t.file \in Files THEN SendFileHeader(t)
                   ELSE Sends([t EXCEPT !.state = "SB"], Plain("BREAK", t.seq % SeqCount))

\* setup_for_next_file() and the state it leads to.
SendSZ(s, p) ==
  LET t == [s EXCEPT !.seq = @ + 1, !.file = @ + 1]
  IN CASE p.type # "ACK" -> SequenceError(s)
       [] p.type = "ACK" /\ Windowing(s) /\ s.window # <<>> -> Waits(s)
       [] OTHER -> IF t.file \in Files THEN SendFileHeader(t)
                   ELSE Sends([t EXCEPT !.state = "SB"], Plain("BREAK", t.seq % SeqCount))

SendSB(s, p) ==
  IF p.type # "ACK" THEN SequenceError(s) ELSE Waits([s EXCEPT !.state = "COMPLETE"])

\* kermit_send()
Continued(s, p) ==
  CASE s.state = "S" -> SendS(s, p)
    [] s.state = "SF" -> SendSF(s, p)
    [] s.state = "SA" -> SendSA(s, p)
    [] s.state = "SDW" -> SendSDW(s, p)
    [] s.state = "SZ" -> SendSZ(s, p)
    [] s.state = "SB" -> SendSB(s, p)
    [] OTHER -> Waits(s)

\* The same without a packet.
Unasked(s) ==
  IF s.state = "SDW" /\ s.mode # "bare" THEN SendNext(s) ELSE Waits(s)

\* find_output_slot()
SlotsOf(s, p) == {k \in DOMAIN s.window : s.window[k].packet.seq = p.seq}
IsAskedAgain(s, p) == SlotsOf(s, p) # {} /\ p.type = "NAK"
IsNakOfNext(s, p) ==
  SlotsOf(s, p) = {} /\ p.type = "NAK" /\ p.seq = (s.seq + 1) % SeqCount

\* decode_input_bytes() and check_for_repeat(): "out" is what is sent at once, "left" the
\* packet that is left to the handler.  An ERROR comes from a program that has ended.
Examined(s, p) ==
  LET slots == SlotsOf(s, p)
      t == IF p.type = "ERROR" THEN [s EXCEPT !.state = "ABORT"] ELSE s
  IN IF Streaming(s) /\ p.type = "NAK" /\ s.state \in {"SDW", "SZ"}
     THEN [s |-> [s EXCEPT !.state = "ABORT"], out |-> <<Error(s)>>, left |-> <<>>]
     ELSE IF Streaming(s) /\ s.state = "SDW" THEN [s |-> t, out |-> <<>>, left |-> <<p>>]
     ELSE CASE IsNakOfNext(s, p) ->
                 [s |-> [s EXCEPT !.window = <<>>], out |-> <<>>,
                  left |-> <<Plain("ACK", s.seq % SeqCount)>>]
            [] IsAskedAgain(s, p) ->
                 [s |-> s, out |-> <<s.window[Min(slots)].packet>>, left |-> <<>>]
            [] slots # {} /\ p.type = "ACK" ->
                 [s |-> [s EXCEPT !.window[Min(slots)].acked = TRUE], out |-> <<>>,
                  left |-> <<p>>]
            [] OTHER -> [s |-> t, out |-> <<>>, left |-> <<p>>]

\* Slip: everything up to the last ACK goes.
MovedFar(s) ==
  LET acked == {k \in DOMAIN s.window : s.window[k].acked}
  IN IF acked = {} THEN s ELSE [s EXCEPT !.window = SubSeq(@, Max(acked) + 1, Len(@))]

\* Slip: nothing goes.
MovedNever(s) == s

\* move_windows()
Moved(s) ==
  LET open == {k \in DOMAIN s.window : ~s.window[k].acked}
  IN [s EXCEPT !.window = IF open = {} THEN <<>> ELSE SubSeq(@, Min(open), Len(@))]

HasRoom(s) == Streaming(s) \/ Len(s.window) < Slots(s)

\* What a handler has sent stays in the window until it is acknowledged, or, if it
\* streams, until the next round.
Sent(c) ==
  LET kept == [k \in DOMAIN c.out |-> [packet |-> c.out[k], acked |-> Streaming(c.s)]]
  IN [s |-> [c.s EXCEPT !.window = @ \o kept], out |-> c.out]

\* A call that has sent something is followed by one, without input if there is none.
Called(s, line) ==
  IF Streaming(s) THEN {Moved(s)} \cup (IF line = <<>> THEN {} ELSE {s}) ELSE {s}

\* The end of a round: nothing more is done if the window is full.
Rest(s, left) ==
  LET t == Moved(s)
  IN IF ~HasRoom(t) THEN Waits(t)
     ELSE Sent(IF left = <<>> THEN Unasked(t) ELSE Continued(t, left[1]))

\* One round of the loop, with a packet in it or with none.
Answered(s, p) ==
  LET e == Examined(s, p)
      c == Rest(e.s, e.left)
  IN [s |-> c.s, out |-> e.out \o c.out]
Unanswered(s) == Rest(s, <<>>)

-----------------------------------------------------------------------------
(* The two programs and the line *)

\* What goes to a program that has ended is of no use.
Line(x, line) == IF Ended(x) THEN <<>> ELSE line
Without(line, k) == SubSeq(line, k + 1, Len(line))

\* c: what a step of the sender gives; left: what it leaves of its input.
SenderSteps(c, left) ==
  /\ snd' \in Called(c.s, left)
  /\ down' = Line(rcv, down \o c.out)
  /\ up' = Line(c.s, left)
  /\ UNCHANGED <<scenario, rcv>>

ReceiverSteps(c, left) ==
  /\ rcv' = c.r
  /\ up' = Line(snd, up \o c.out)
  /\ down' = Line(c.r, left)
  /\ UNCHANGED <<scenario, snd>>

\* The first call of kermit() throws away what has come in.
Tossed(line) == IF scenario.prompt THEN {Len(line)} ELSE 0 .. Len(line)

SenderStart ==
  /\ snd.state = "OFF"
  /\ \E k \in Tossed(up) : SenderSteps(Sent(SendInit(snd)), Without(up, k))
  /\ UNCHANGED faults

ReceiverStart ==
  /\ rcv.state = "OFF"
  /\ \E k \in Tossed(down) : ReceiverSteps(Nak([rcv EXCEPT !.state = "R"], 0), Without(down, k))
  /\ UNCHANGED faults

SenderReads ==
  /\ Running(snd) /\ up # <<>> /\ Readable(Head(up))
  /\ \E c \in {Answered(snd, Head(up))} : SenderSteps(c, Tail(up))
  /\ UNCHANGED faults

\* decode_input_bytes() discards the rest of its buffer with a packet it refuses.
SenderRefuses ==
  /\ Running(snd) /\ up # <<>> /\ ~Readable(Head(up))
  /\ \E k \in DOMAIN up : SenderSteps(Unanswered(snd), Without(up, k))
  /\ UNCHANGED faults

CanSendMore == snd.state = "SDW" /\ snd.mode # "bare" /\ HasRoom(Moved(snd))

SenderSendsMore ==
  /\ CanSendMore /\ Len(down) < LineRoom
  /\ \E c \in {Unanswered(snd)} : SenderSteps(c, up)
  /\ UNCHANGED faults

ReceiverReads ==
  /\ Running(rcv) /\ down # <<>>
  /\ \E c \in {Received(rcv, Head(down))} : ReceiverSteps(c, Tail(down))
  /\ UNCHANGED faults

-----------------------------------------------------------------------------
(* Timeouts *)

\* check_timeout(): the count is for the whole transfer.
IsLastTimeout(x) == x.timeouts + 1 = TimeoutMax
\* Slip: not while data are transferred, streaming or not.
TimesOutBetween(x) == Running(x) /\ x.state \notin {"RDW", "SDW"}

TimesOut(x) == Running(x) /\ ~(Streaming(x) /\ x.state \in {"RDW", "SDW"})

SenderTimedOut(s) ==
  LET t == [s EXCEPT !.timeouts = @ + 1, !.state = IF IsLastTimeout(s) THEN "ABORT" ELSE @]
      again == IF Windowing(s) /\ s.window # <<>> THEN <<s.window[1].packet>> ELSE <<>>
  IN [s |-> t, out |-> again \o (IF IsLastTimeout(s) /\ HasRoom(s) THEN <<Error(s)>> ELSE <<>>)]

\* The sequence number that handle_timeout() finds: with its window full to the end of
\* the array it reads what is behind it.
TimeoutSeqs(r) ==
  LET newest == r.slots[Newest(r)].seq
  IN CASE r.count = 0 -> {r.seq}
       [] r.count > 0 /\ Missing(r) # {} -> {r.slots[At(r, Min(Missing(r)))].seq}
       [] OTHER -> IF End(r) = 0 THEN {newest, After(newest)} ELSE {newest}

\* An ERROR packet gives way to the NAK.
ReceiverTimedOut(r, seq) ==
  LET t == [r EXCEPT !.timeouts = @ + 1]
  IN Nak(IF IsLastTimeout(r) THEN Aborted(t) ELSE t, seq)

\* Nothing is on its way, and nothing will be.
Quiet == down = <<>> /\ up = <<>> /\ ~CanSendMore /\ snd.state # "OFF" /\ rcv.state # "OFF"

SenderTimeout ==
  /\ TimesOut(snd) /\ Quiet
  /\ SenderSteps(SenderTimedOut(snd), up)
  /\ UNCHANGED faults

ReceiverTimeout ==
  /\ TimesOut(rcv) /\ Quiet
  /\ \E seq \in TimeoutSeqs(rcv) : ReceiverSteps(ReceiverTimedOut(rcv, seq), down)
  /\ UNCHANGED faults

-----------------------------------------------------------------------------
(* What may go wrong, and the user *)

Goes(kind) == kind \in scenario.faults /\ faults < scenario.most /\ faults' = faults + 1

Lose ==
  /\ \/ Goes("lose") /\ down # <<>> /\ down' = Tail(down) /\ UNCHANGED up
     \/ Goes("lose") /\ up # <<>> /\ up' = Tail(up) /\ UNCHANGED down
     \/ /\ Goes("lose data") /\ down # <<>> /\ Head(down).type = "DATA"
        /\ down' = Tail(down) /\ UNCHANGED up
  /\ UNCHANGED <<scenario, snd, rcv>>

\* A packet whose check is wrong, and what is behind it in the buffer.
SenderDamaged ==
  /\ Goes("damage") /\ Running(snd)
  /\ \E k \in DOMAIN up : SenderSteps(Unanswered(snd), Without(up, k))

ReceiverDamaged ==
  /\ Goes("damage") /\ Running(rcv)
  /\ down # <<>> /\ \E k \in DOMAIN down, seq \in {0, Head(down).seq} :
       ReceiverSteps(Nak(rcv, seq), Without(down, k))

\* The other program is slow, or has not been started yet.
SenderLate ==
  /\ Goes("late") /\ TimesOut(snd) /\ ~Quiet
  /\ SenderSteps(SenderTimedOut(snd), up)

ReceiverLate ==
  /\ Goes("late") /\ TimesOut(rcv) /\ ~Quiet
  /\ \E seq \in TimeoutSeqs(rcv) : ReceiverSteps(ReceiverTimedOut(rcv, seq), down)

\* kermit_skip_file()
Skip ==
  /\ Goes("skip")
  /\ \/ Running(snd) /\ snd' = [snd EXCEPT !.skip = TRUE] /\ UNCHANGED rcv
     \/ Running(rcv) /\ rcv' = [rcv EXCEPT !.skip = TRUE] /\ UNCHANGED snd
  /\ UNCHANGED <<scenario, down, up>>

-----------------------------------------------------------------------------

Init ==
  /\ scenario \in Scenarios
  /\ snd = [state |-> "OFF", seq |-> 0, mode |-> OpeningMode(scenario), pos |-> 0, file |-> 1,
            window |-> <<>>, skip |-> FALSE, timeouts |-> 0]
  /\ rcv = [state |-> "OFF", seq |-> 0, mode |-> OpeningMode(scenario), begin |-> 0, count |-> 0,
            slots |-> [i \in 0 .. WindowSize - 1 |-> Blank], last |-> <<>>, open |-> FALSE,
            file |-> 1, disk |-> scenario.disk, closed |-> {}, skip |-> FALSE, timeouts |-> 0]
  /\ down = <<>> /\ up = <<>>
  /\ faults = 0

Works ==
  \/ SenderStart \/ ReceiverStart
  \/ SenderReads \/ SenderRefuses \/ SenderSendsMore \/ SenderTimeout
  \/ ReceiverReads \/ ReceiverTimeout

Fails ==
  \/ Lose \/ SenderDamaged \/ ReceiverDamaged
  \/ SenderLate \/ ReceiverLate \/ Skip

\* ENABLED <<Works>>_vars, which costs TLC too much to evaluate.
HasWork ==
  \/ snd.state = "OFF" \/ rcv.state = "OFF"
  \/ Running(snd) /\ up # <<>>
  \/ Running(rcv) /\ down # <<>>
  \/ CanSendMore /\ Len(down) < LineRoom
  \/ Quiet /\ (TimesOut(snd) \/ TimesOut(rcv))

Done == ~HasWork /\ UNCHANGED vars

Next == Works \/ Fails \/ Done

\* WF_vars(Works): both programs are called over and over by the main loop of their qodem.
Fairness == []<>~HasWork \/ []<><<Works>>_vars

Spec == Init /\ [][Next]_vars /\ Fairness

-----------------------------------------------------------------------------
(* Properties *)

Types == {"SINIT", "FILE", "ATTRIBUTES", "DATA", "EOF", "BREAK", "ACK", "NAK", "ERROR"}
States == {"OFF", "S", "SF", "SA", "SDW", "SZ", "SB", "R", "RF", "RDW", "COMPLETE", "ABORT", "CRASH"}
Packets == [type : Types, seq : Nat, note : {"", "init", "name", "pos", "skip"}, n : Nat]

\* The states are those of the code's types, and the windows fit into their arrays.
TypeOK ==
  /\ scenario \in Scenarios /\ faults \in 0 .. scenario.most
  /\ {snd.state, rcv.state} \subseteq States
  /\ down \in Seq(Packets) /\ up \in Seq(Packets)
  /\ snd.pos \in Nat /\ snd.file \in 1 .. Len(Batch) + 1
  /\ Len(snd.window) <= Slots(snd)
  /\ {snd.timeouts, rcv.timeouts} \subseteq 0 .. TimeoutMax
  /\ rcv.begin \in 0 .. Slots(rcv) - 1 /\ rcv.count \in 0 .. Slots(rcv)
  /\ rcv.disk \in [Files -> Seq(Nat)] /\ rcv.closed \subseteq Files

\* The slots of the ring that are in use have consecutive sequence numbers, packets and
\* gaps, which is what nak_packet() and save_input_packet() go by.
Consecutive ==
  \A k \in 1 .. rcv.count - 1 :
    rcv.slots[At(rcv, k)].seq = After(rcv.slots[At(rcv, k - 1)].seq)

\* A sequence without what it has had before.
FirstTimes(q) ==
  LET new == {i \in DOMAIN q : \A j \in 1 .. i - 1 : q[j] # q[i]}
      Place(k) == CHOOSE i \in new : Cardinality({h \in new : h <= i}) = k
  IN [k \in 1 .. Cardinality(new) |-> q[Place(k)]]

\* A stream that may lose packets has files of fewer packets than there are sequence
\* numbers: behind a packet with the last number find_input_slot() passes over every
\* packet but the one with the number 0, without a NAK.
Lossy == scenario.faults \cap {"lose", "lose data", "damage"} # {}
OneRound == scenario.streaming /\ Lossy => \A f \in Files : Len(Batch[f]) + 1 < SeqCount

\* Of two early timers in a stream one may ask for what has been sent: the position in
\* the ACK of one file is then taken for that of the next.
OneTimer == scenario.streaming /\ "late" \in scenario.faults => scenario.most <= 1

\* A file that is closed as complete has everything the sender's file has, in its order,
\* whatever was lost, repeated or late.
NothingMissing ==
  OneRound /\ OneTimer => \A f \in rcv.closed : FirstTimes(rcv.disk[f]) = Batch[f]

\* The same without repeats.  Left out are existing files that are taken up while ACKs
\* of packets that were sent twice, or of skipped files in a stream, are about: data are
\* sent before the position is known.
OnDiskOnce ==
  \A f \in rcv.closed :
    \/ rcv.disk[f] = Batch[f]
    \/ /\ scenario.disk[f] # <<>>
       /\ \/ ~scenario.prompt \/ "late" \in scenario.faults
          \/ scenario.streaming /\ "skip" \in scenario.faults

\* Without loss, or streaming, nothing is written twice.
OnDiskOnceIfKept == OneRound /\ OneTimer /\ (scenario.streaming \/ ~Lossy) => OnDiskOnce

\* A sender that reports success has had every file closed, or the EOF of the last is on
\* its way, unless a user wanted a file skipped.
NoFalseSuccess ==
  (snd.state = "COMPLETE" /\ "skip" \notin scenario.faults)
    => \A f \in Files : f \in rcv.closed \/ \E i \in DOMAIN down : down[i].type = "EOF"

\* With windows a unit that has been sent can still be sent again until the receiver
\* has it or has ended: at its last timeout it drops what is in its window, or writes
\* it to the file that it has closed.
IsHeld(f, u) ==
  \/ \E k \in DOMAIN snd.window : snd.window[k].packet.type = "DATA" /\ snd.window[k].packet.n = u
  \/ \E k \in 0 .. rcv.count - 1 : rcv.slots[At(rcv, k)].type = "DATA" /\ rcv.slots[At(rcv, k)].n = u
  \/ \E k \in DOMAIN rcv.disk[f] : rcv.disk[f][k] = u

NothingLost ==
  (~scenario.streaming /\ scenario.most <= 1 /\ snd.state \in {"SDW", "SZ"} /\ ~Ended(rcv))
    => \A i \in 1 .. snd.pos :
         i <= Len(scenario.disk[snd.file]) \/ IsHeld(snd.file, Batch[snd.file][i])

\* Both programs come to an end.  A receiver that streams data has no timeout.
Stops ==
  (scenario.streaming => ~Lossy) => <>(Ended(snd) /\ Ended(rcv))

\* Over a clean line between programs that answer in time every transfer succeeds.
SucceedsIfClean ==
  scenario.faults = {} => <>(snd.state = "COMPLETE" /\ rcv.state = "COMPLETE")

=============================================================================
