------------------------------- MODULE Xmodem -------------------------------
(***************************************************************************)
(* One Xmodem transfer of qodem (qodem/source/xmodem.c): the program that  *)
(* uploads, the program that downloads and the serial line between them.   *)
(*                                                                         *)
(* Both programs run the same C file; snd and rcv are its static variables *)
(* in the one and in the other.  An action is one call of xmodem() as      *)
(* process_incoming_data() makes it (qodem.c), together with the calls it  *)
(* repeats at once because the first one wrote output.  Control is         *)
(* translated whole.  Of the data a block keeps its number, its kind and   *)
(* the pieces it is cut into by the line, with their real sizes in bytes.  *)
(***************************************************************************)
EXTENDS Integers, Sequences, SequencesExt, Padding

CONSTANTS
  Files,            \* the files that may be sent, as sequences of blocks; a
                    \* block of nothing but SUB bytes is Sub
  ShortTails,       \* may the last read of the file be of 128 bytes or less
  FlavorPairs,      \* what the two users may pick: <<sender, receiver>>
  SeqCount,           \* block numbers on the line wrap (256: an unsigned char)
  ErrorsMax,        \* errors_max, 15
  TimeoutMax,       \* timeout_max, 10 (100 for Xmodem Relaxed)
  FallbackMax,      \* FIRST_BLOCK timeouts before the downgrade, 5
  FaultKinds,       \* what the line may do to what it carries
  MaxFaults,        \* bound: how many times it does
  PromptLine,       \* do bytes arrive well within a timeout
  UserAborts,       \* may the users press ESC
  DataRoom,         \* bound: pieces of blocks in transit
  ReplyRoom         \* bound: control bytes in transit

Flavors == {"X_NORMAL", "X_CRC", "X_1K", "X_1K_G"}

ASSUME XmodemAssumption ==
  /\ \A f \in Files : f = SubSeq(f, 1, Len(f)) /\ Len(f) \in Nat \ {0}
  /\ ShortTails \subseteq BOOLEAN
  /\ FlavorPairs \subseteq Flavors \X Flavors
  /\ SeqCount \in Nat /\ SeqCount >= 2
  /\ ErrorsMax \in Nat /\ TimeoutMax \in Nat /\ FallbackMax \in Nat
  /\ FallbackMax < ErrorsMax /\ FallbackMax < TimeoutMax
  /\ FaultKinds \subseteq {"lose data", "damage", "half damage", "damage eot",
                      "lose reply", "noise"}
  /\ MaxFaults \in Nat
  /\ PromptLine \in BOOLEAN /\ UserAborts \in BOOLEAN
  /\ DataRoom \in Nat /\ ReplyRoom \in Nat

VARIABLES
  src,     \* the sender's file
  short,   \* whether its last block is read with 128 bytes or less
  file,    \* the receiver's file
  snd,     \* the sending program
  rcv,     \* the receiving program
  data,    \* the line from sender to receiver: pieces of blocks
  reply,   \* the line from receiver to sender: control bytes
  faults   \* how often the line has failed

vars == <<src, short, file, snd, rcv, data, reply, faults>>

\* What process_incoming_data() and the user see of either program.
SenderTold == CASE snd.xfer = "END"   -> "ok"
                [] snd.xfer = "ABORT" -> "failed"
                [] OTHER              -> "busy"

ReceiverTold == CASE rcv.xfer = "END" \/ rcv.state = "TRIM_LOOP" -> "saved"
                  [] rcv.xfer = "ABORT" \/ rcv.state = "ASSERT"  -> "failed"
                  [] OTHER                                       -> "busy"

FT == INSTANCE FileTransfer
        WITH dst <- file, sender <- SenderTold, receiver <- ReceiverTold

-----------------------------------------------------------------------------
(***************************************************************************)
(* Blocks and the pieces of them that travel.  A piece knows its block     *)
(* (number n, kind), its place in it and what the line did to it.  The     *)
(* cuts are at 66, 132 and 133 bytes: every length that the code compares  *)
(* with is a sum of pieces.                                                *)
(***************************************************************************)
BlockKinds == {"checksum", "crc", "1k"}

Cuts(kind) == CASE kind = "checksum" -> <<66, 66>>
                [] kind = "crc"      -> <<66, 66, 1>>
                [] kind = "1k"       -> <<66, 66, 1, 896>>
                [] kind = "eot"      -> <<1>>

Piece(n, kind, i) == [n |-> n, kind |-> kind, at |-> i, harm |-> "none"]

Pieces(n, kind) == [i \in 1..Len(Cuts(kind)) |-> Piece(n, kind, i)]

\* current_block_n of a block made of these pieces
Bytes(block) == FoldLeft(LAMBDA sum, p : sum + Cuts(p.kind)[p.at], 0, block)

\* current_block[0]
Header(block) ==
  IF block = <<>> \/ block[1].at # 1 \/ block[1].harm # "none" THEN "noise"
  ELSE CASE block[1].kind = "1k"  -> "STX"
         [] block[1].kind = "eot" -> "EOT"
         [] OTHER                 -> "SOH"

MaxBlockSize == 1024 + 5

OneK(flavor) == flavor \in {"X_1K", "X_1K_G"}

FirstByte(flavor) == CASE flavor = "X_NORMAL" -> "NAK"
                       [] flavor = "X_1K_G"   -> "G"
                       [] OTHER               -> "C"

\* The kind of block construct_block() makes of the file's n-th block.
KindSent(flavor, n) ==
  CASE flavor = "X_NORMAL" -> "checksum"
    [] flavor = "X_CRC"    -> "crc"
    [] OTHER               -> IF short /\ n = Len(src) THEN "crc" ELSE "1k"

\* (Slip: the size of what came decides, and not the flavor agreed on.)
KindByLength(flavor, block) ==
  CASE Bytes(block) = 128 + 4                      -> "checksum"
    [] OneK(flavor) /\ Header(block) = "STX" -> "1k"
    [] OTHER                                       -> "crc"

\* The kind of block a receiver of this flavor takes current_block for.
KindExpected(flavor, block) ==
  CASE flavor = "X_NORMAL"                    -> "checksum"
    [] OneK(flavor) /\ Header(block) = "STX" -> "1k"
    [] OTHER                                  -> "crc"

BlockSize(kind) == CASE kind = "checksum" -> 128 + 4
                     [] kind = "crc"      -> 128 + 5
                     [] kind = "1k"       -> 1024 + 5

\* (Slip: the sum is not looked at.)
SumUnchecked(kind, harm) == TRUE

\* A CRC is compared byte by byte, and both bytes have to differ for the
\* block to be refused; a checksum is one byte.
SumPasses(kind, harm) == harm = "none" \/ (kind # "checksum" /\ harm = "half")

\* (Slip: the block number is not looked at.)
VerdictOnSum(block, flavor, number) ==
  LET kind == KindExpected(flavor, block) IN
  CASE Len(block) # Len(Cuts(kind)) -> "SHORT/LONG BLOCK"
    [] block[1].harm # "none"       -> "HEADER ERROR"
    [] \E i \in DOMAIN block :
         \/ block[i].n # block[1].n \/ block[i].kind # kind \/ block[i].at # i
         \/ ~SumPasses(kind, block[i].harm) -> "CHECKSUM/CRC ERROR"
    [] OTHER                        -> "OK"

\* verify_block(): what it finds in current_block, in the order it looks.
\* The last test comes after the number has been found equal to the one
\* expected.
Verdict(block, flavor, number) ==
  LET kind == KindExpected(flavor, block) IN
  CASE Len(block) # Len(Cuts(kind))                -> "SHORT/LONG BLOCK"
    [] block[1].harm # "none"                      -> "HEADER ERROR"
    [] block[1].n % SeqCount # number % SeqCount   -> "BAD BLOCK NUMBER"
    [] \E i \in DOMAIN block :
         \/ block[i].n # block[1].n \/ block[i].kind # kind \/ block[i].at # i
         \/ ~SumPasses(kind, block[i].harm)        -> "CHECKSUM/CRC ERROR"
    [] block[1].n % SeqCount = (number - 1) % SeqCount -> "DUPLICATE BLOCK"
    [] OTHER                                       -> "OK"

Verified(block, flavor, number) == Verdict(block, flavor, number) = "OK"

\* What a block says: the file's block, unless damage slipped through.
Content(block) == IF \E i \in DOMAIN block : block[i].harm # "none"
                  THEN "garbled" ELSE src[block[1].n]

-----------------------------------------------------------------------------
(***************************************************************************)
(* Counters and timers common to both programs.                            *)
(***************************************************************************)
Running(p) == p.xfer = "TRANSFER"

\* stop_file_transfer(Q_TRANSFER_STATE_ABORT); state = ABORT
Aborted(p) == [p EXCEPT !.state = "ABORT", !.xfer = "ABORT"]

\* prior_state = from; state = PURGE_INPUT
Purging(p, from) == [p EXCEPT !.prior = from, !.state = "PURGE_INPUT"]

\* stats_increment_errors()
WithError(p) == LET q == [p EXCEPT !.errors = @ + 1]
                IN  IF q.errors >= ErrorsMax THEN Aborted(q) ELSE q

\* (Slip: nobody counts the timeouts.)
WithTimeoutUncounted(p) == Purging(p, p.state)

\* check_timeout() when the time has come
WithTimeout(p) == LET q == [p EXCEPT !.timeouts = @ + 1, !.errors = @ + 1]
                  IN  IF q.timeouts >= TimeoutMax THEN Aborted(q)
                      ELSE Purging(q, p.state)

\* Nothing is under way: only a timer can move the transfer on.
Quiet == /\ data = <<>> /\ reply = <<>>
         /\ Running(rcv) => rcv.state \notin {"INIT", "PURGE_INPUT"}
         /\ Running(snd) =>
              /\ snd.state # "PURGE_INPUT"
              /\ ~(snd.flavor = "X_1K_G" /\ snd.state \in {"BLOCK", "LAST_BLOCK"})

\* The receiver's timer runs for 10 seconds and the sender's for 20, "one
\* freebie": on a prompt line snd.lapse counts the receiver's timeouts since
\* the sender last reset its timer.
Lapse(p) == IF PromptLine /\ p.lapse < 2 THEN [p EXCEPT !.lapse = @ + 1] ELSE p

ReceiverTimerFires == PromptLine => Quiet /\ (Running(snd) => snd.lapse < 2)
SenderTimerFires == PromptLine => Quiet /\ (Running(rcv) => snd.lapse = 2)

ResetTimer(p) == [p EXCEPT !.lapse = 0]

Rest(line, k) == SubSeq(line, k + 1, Len(line))

-----------------------------------------------------------------------------
(***************************************************************************)
(* The sending program: xmodem_send().  It is called only when there is    *)
(* room for a whole block of output.                                       *)
(***************************************************************************)
SenderTurn == Running(snd) /\ Len(data) + Len(Cuts("1k")) <= DataRoom

SenderUnmoved == UNCHANGED <<src, short, file, rcv, faults>>

Sends(n, kind) == data' = data \o Pieces(n, kind)

\* BLOCK with an ACK: construct_block(), which makes the last block's state
\* LAST_BLOCK, and send.
ConstructBlock(p) ==
  /\ Sends(p.number, KindSent(p.flavor, p.number))
  /\ snd' = [ResetTimer(p) EXCEPT
               !.number = @ + 1,
               !.state = IF p.number = Len(src) THEN "LAST_BLOCK" ELSE "BLOCK"]

\* A first_byte starts the transfer; a NAK starts it too, as vanilla Xmodem.
Downgraded(p, byte) ==
  IF byte = p.first THEN p ELSE [p EXCEPT !.flavor = "X_NORMAL"]

StartsTransfer(p, byte) == byte = p.first \/ byte = "NAK"

Garbage(p, from) == WithError(Purging(p, from))

\* A chunk that begins with CAN.
SenderCancelled(k) ==
  /\ SenderTurn /\ reply[1] = "CAN"
  /\ snd' = Aborted(snd)
  /\ reply' = Rest(reply, k)
  /\ UNCHANGED data /\ SenderUnmoved

\* INIT, and the BLOCK state it falls through to with input[0] = ACK.
SenderStart(k) ==
  /\ SenderTurn /\ snd.state = "INIT" /\ StartsTransfer(snd, reply[1])
  /\ LET p == [Downgraded(snd, reply[1]) EXCEPT !.state = "BLOCK"]
     IN  IF k = 1 \/ p.flavor = "X_1K_G"
         THEN ConstructBlock(p)
         ELSE snd' = Garbage(p, "BLOCK") /\ UNCHANGED data
  /\ reply' = Rest(reply, k)
  /\ SenderUnmoved

\* Anything else in INIT is tossed.
SenderIgnore(k) ==
  /\ SenderTurn /\ reply[1] # "CAN"
  /\ \/ snd.state = "INIT" /\ ~StartsTransfer(snd, reply[1])
     \/ snd.state = "EOT_ACK" /\ reply[1] # "ACK"
     \/ snd.state = "PURGE_INPUT"
  /\ reply' = Rest(reply, k)
  /\ snd' = IF snd.state = "PURGE_INPUT" THEN ResetTimer(snd) ELSE snd
  /\ UNCHANGED data /\ SenderUnmoved

\* (Slip: a NAK is taken for the ACK.)
SenderBlockOnNak(k) ==
  /\ SenderTurn /\ snd.state = "BLOCK" /\ snd.flavor # "X_1K_G"
  /\ k = 1 /\ reply[1] \in {"ACK", "NAK"}
  /\ ConstructBlock(snd)
  /\ reply' = Rest(reply, k)
  /\ SenderUnmoved

SenderBlock(k) ==
  /\ SenderTurn /\ snd.state = "BLOCK" /\ snd.flavor # "X_1K_G"
  /\ k = 1 /\ reply[1] = "ACK"
  /\ ConstructBlock(snd)
  /\ reply' = Rest(reply, k)
  /\ SenderUnmoved

\* -G needs no ACK: every call sends the next block, whatever the input.
SenderStream(k) ==
  /\ SenderTurn /\ snd.state = "BLOCK" /\ snd.flavor = "X_1K_G"
  /\ k > 0 => reply[1] # "CAN"
  /\ ConstructBlock(snd)
  /\ reply' = Rest(reply, k)
  /\ SenderUnmoved

\* (Slip: prior_state = BLOCK in the branch of LAST_BLOCK.)
SenderNakToBlock(k) ==
  /\ SenderTurn /\ snd.state \in {"BLOCK", "LAST_BLOCK"} /\ snd.flavor # "X_1K_G"
  /\ reply[1] # "CAN" /\ ~(k = 1 /\ reply[1] = "ACK")
  /\ snd' = Garbage(snd, "BLOCK")
  /\ reply' = Rest(reply, k)
  /\ UNCHANGED data /\ SenderUnmoved

\* NAK or line noise: the block goes out again when the input is clear.
SenderNak(k) ==
  /\ SenderTurn /\ snd.state \in {"BLOCK", "LAST_BLOCK"} /\ snd.flavor # "X_1K_G"
  /\ reply[1] # "CAN" /\ ~(k = 1 /\ reply[1] = "ACK")
  /\ snd' = Garbage(snd, snd.state)
  /\ reply' = Rest(reply, k)
  /\ UNCHANGED data /\ SenderUnmoved

\* (Slip: LAST_BLOCK is forgotten.)
SenderResendInBlock ==
  /\ SenderTurn /\ snd.state = "PURGE_INPUT"
  /\ PromptLine => reply = <<>>
  /\ IF snd.prior = "BLOCK" /\ snd.number > 1
     THEN Sends(snd.number - 1, KindSent(snd.flavor, snd.number - 1))
     ELSE UNCHANGED data
  /\ snd' = [ResetTimer(snd) EXCEPT !.state = snd.prior]
  /\ UNCHANGED reply /\ SenderUnmoved

\* PURGE_INPUT without input: resend current_block, if there is one.
SenderResend ==
  /\ SenderTurn /\ snd.state = "PURGE_INPUT"
  /\ PromptLine => reply = <<>>
  /\ IF snd.prior \in {"BLOCK", "LAST_BLOCK"} /\ snd.number > 1
     THEN Sends(snd.number - 1, KindSent(snd.flavor, snd.number - 1))
     ELSE UNCHANGED data
  /\ snd' = [ResetTimer(snd) EXCEPT !.state = snd.prior]
  /\ UNCHANGED reply /\ SenderUnmoved

\* LAST_BLOCK with its ACK (or -G, at once): the EOT.
SenderEot(k) ==
  /\ SenderTurn /\ snd.state = "LAST_BLOCK"
  /\ k > 0 => reply[1] # "CAN"
  /\ snd.flavor = "X_1K_G" \/ (k = 1 /\ reply[1] = "ACK")
  /\ Sends(snd.number - 1, "eot")
  /\ snd' = [ResetTimer(snd) EXCEPT !.state = "EOT_ACK"]
  /\ reply' = Rest(reply, k)
  /\ SenderUnmoved

\* (Slip: any answer to the EOT will do.)
SenderDoneOnAny(k) ==
  /\ SenderTurn /\ snd.state = "EOT_ACK" /\ reply[1] # "CAN"
  /\ snd' = [snd EXCEPT !.state = "COMPLETE", !.xfer = "END"]
  /\ reply' = Rest(reply, k)
  /\ UNCHANGED data /\ SenderUnmoved

\* EOT_ACK with an ACK in front of the chunk: the transfer is complete.
SenderDone(k) ==
  /\ SenderTurn /\ snd.state = "EOT_ACK" /\ reply[1] = "ACK"
  /\ snd' = [snd EXCEPT !.state = "COMPLETE", !.xfer = "END"]
  /\ reply' = Rest(reply, k)
  /\ UNCHANGED data /\ SenderUnmoved

\* A timeout sends the EOT again, even the timeout that gives up; the purge
\* it asks for is over in the call that follows at once.  In BLOCK the state
\* is PURGE_INPUT even after the timeout that gives up.
SenderTimeout ==
  /\ SenderTurn /\ SenderTimerFires
  /\ \/ snd.state \in {"INIT", "EOT_ACK"}
     \/ snd.state \in {"BLOCK", "LAST_BLOCK"} /\ snd.flavor # "X_1K_G"
  /\ LET p == ResetTimer(WithTimeout(snd)) IN
     IF snd.state = "EOT_ACK"
     THEN /\ Sends(snd.number - 1, "eot")
          /\ snd' = IF Running(p) THEN [p EXCEPT !.state = "EOT_ACK"] ELSE p
     ELSE /\ snd' = IF snd.state = "BLOCK" THEN Purging(p, "BLOCK") ELSE p
          /\ UNCHANGED data
  /\ UNCHANGED reply /\ SenderUnmoved

-----------------------------------------------------------------------------
(***************************************************************************)
(* The receiving program: xmodem_receive().                                *)
(***************************************************************************)
ReceiverTurn == Running(rcv) /\ rcv.state \notin {"TRIM_LOOP", "ASSERT"}

ReceiverUnmoved == UNCHANGED <<src, short, snd, faults>>

Replies(byte) == Len(reply) < ReplyRoom /\ reply' = Append(reply, byte)

Collected(k) == rcv.block \o SubSeq(data, 1, k)

\* FIRST_BLOCK with input is BLOCK.
Collecting == ReceiverTurn /\ rcv.state \in {"FIRST_BLOCK", "BLOCK"}

Waiting(p, block) == [p EXCEPT !.state = "BLOCK", !.block = block]

\* INIT: the first byte.  Only the enhanced flavors can fall back.
ReceiverInit(k) ==
  /\ ReceiverTurn /\ rcv.state = "INIT"
  /\ Replies(rcv.first)
  /\ rcv' = [rcv EXCEPT !.state = IF rcv.flavor = "X_NORMAL" THEN "BLOCK"
                                  ELSE "FIRST_BLOCK"]
  /\ data' = Rest(data, k)
  /\ UNCHANGED file /\ ReceiverUnmoved

\* FIRST_BLOCK without input for 3 seconds: the first byte again, or after
\* FallbackMax times vanilla Xmodem.  Its PURGE_INPUT is over in the call
\* that follows at once, and the NAK of that call replaces the first byte.
FirstBlockTimeout ==
  /\ ReceiverTurn /\ rcv.state = "FIRST_BLOCK" /\ ReceiverTimerFires
  /\ LET p == WithError([rcv EXCEPT !.timeouts = @ + 1]) IN
     IF p.timeouts < FallbackMax
     THEN rcv' = p /\ Replies(rcv.first)
     ELSE /\ rcv' = [p EXCEPT !.state = "BLOCK", !.prior = "BLOCK",
                              !.flavor = "X_NORMAL"]
          /\ Replies("NAK")
  /\ UNCHANGED <<data, file>> /\ ReceiverUnmoved

\* BLOCK without input for 10 seconds.  For the first block the first byte
\* goes out again; later the NAK of the PURGE_INPUT call takes its place.
\* What current_block holds stays.
BlockTimeout ==
  /\ ReceiverTurn /\ rcv.state = "BLOCK" /\ ReceiverTimerFires
  /\ LET p == WithTimeout(rcv) IN
     IF Running(p)
     THEN /\ rcv' = [p EXCEPT !.state = "BLOCK"]
          /\ Replies(IF rcv.number = 1 THEN rcv.first ELSE "NAK")
     ELSE rcv' = p /\ Replies("CAN")
  /\ snd' = Lapse(snd)
  /\ UNCHANGED <<src, short, file, data, faults>>

\* More than a block can hold: purge.  What current_block holds stays.
Overrun(k) ==
  /\ Collecting /\ rcv.flavor # "X_1K_G"
  /\ Bytes(Collected(k)) > MaxBlockSize
  /\ rcv' = Purging(rcv, "BLOCK")
  /\ data' = Rest(data, k)
  /\ UNCHANGED <<file, reply>> /\ ReceiverUnmoved

IsEot(block) == Len(block) = 1 /\ Header(block) = "EOT"

\* (Slip: the padding stays.)
EotUntrimmed(k) ==
  /\ Collecting /\ IsEot(Collected(k))
  /\ data' = Rest(data, k)
  /\ rcv' = [rcv EXCEPT !.block = <<>>, !.state = "COMPLETE", !.xfer = "END"]
  /\ Replies("ACK")
  /\ UNCHANGED file /\ ReceiverUnmoved

\* EOT alone in current_block: cut the SUBs off the file's end, ACK, done.
\* The loop that cuts them never ends on a file that has nothing else.
Eot(k) ==
  /\ Collecting /\ IsEot(Collected(k))
  /\ data' = Rest(data, k)
  /\ \/ /\ file # <<>> => Trim(file) # <<>>
        /\ rcv' = [rcv EXCEPT !.block = <<>>, !.state = "COMPLETE", !.xfer = "END"]
        /\ Replies("ACK")
     \/ /\ Trim(file) = <<>>
        /\ rcv' = [rcv EXCEPT !.block = <<>>, !.state = "TRIM_LOOP"]
        /\ UNCHANGED reply
  /\ file' = Trim(file)
  /\ ReceiverUnmoved

\* Not a whole block yet.
Partial(k) ==
  /\ Collecting /\ rcv.flavor # "X_1K_G" /\ ~IsEot(Collected(k))
  /\ LET block == Collected(k) IN
     /\ Bytes(block) < BlockSize(KindExpected(rcv.flavor, block))
     /\ rcv' = Waiting(rcv, block)
  /\ data' = Rest(data, k)
  /\ UNCHANGED <<file, reply>> /\ ReceiverUnmoved

Complete(block) ==
  /\ Bytes(block) >= BlockSize(KindExpected(rcv.flavor, block))
  /\ Bytes(block) <= MaxBlockSize

\* verify_block() wrote the block: file, block number and ACK.
Accepted(block) ==
  /\ file' = Append(file, Content(block))
  /\ rcv' = [Waiting(rcv, <<>>) EXCEPT !.number = @ + 1]

GoodBlock(k) ==
  /\ Collecting /\ rcv.flavor # "X_1K_G" /\ ~IsEot(Collected(k))
  /\ LET block == Collected(k) IN
     /\ Complete(block) /\ Verified(block, rcv.flavor, rcv.number)
     /\ Accepted(block)
  /\ Replies("ACK")
  /\ data' = Rest(data, k)
  /\ ReceiverUnmoved

\* verify_block() refused it: purge, unless that was one error too many.
BadBlock(k) ==
  /\ Collecting /\ rcv.flavor # "X_1K_G" /\ ~IsEot(Collected(k))
  /\ LET block == Collected(k)
         p == WithError(rcv)
     IN  /\ Complete(block) /\ ~Verified(block, rcv.flavor, rcv.number)
         /\ rcv' = IF Running(p) THEN Purging([p EXCEPT !.block = <<>>], "BLOCK") ELSE p
  /\ data' = Rest(data, k)
  /\ UNCHANGED <<file, reply>> /\ ReceiverUnmoved

\* PURGE_INPUT: toss what comes; when nothing does, NAK.
ReceiverPurge(k) ==
  /\ ReceiverTurn /\ rcv.state = "PURGE_INPUT"
  /\ data' = Rest(data, k)
  /\ UNCHANGED <<file, rcv, reply>> /\ ReceiverUnmoved

ReceiverNak ==
  /\ ReceiverTurn /\ rcv.state = "PURGE_INPUT"
  /\ PromptLine => data = <<>>
  /\ rcv' = [rcv EXCEPT !.state = rcv.prior]
  /\ Replies("NAK")
  /\ UNCHANGED <<data, file>> /\ ReceiverUnmoved

-----------------------------------------------------------------------------
(***************************************************************************)
(* The receiving program in X_1K_G: blocks are taken out of the stream one *)
(* by one, without ACKs, and any error is fatal.  The size to wait for is  *)
(* read off current_block before the input is added to it.                 *)
(***************************************************************************)
StreamWant == IF Header(rcv.block) = "SOH" THEN 128 + 5 ELSE 1024 + 5

Streaming == Collecting /\ rcv.flavor = "X_1K_G"

\* assert(current_block_n < n)
StreamAssert ==
  /\ Streaming /\ data # <<>> /\ Bytes(rcv.block) >= StreamWant
  /\ rcv' = [rcv EXCEPT !.state = "ASSERT"]
  /\ UNCHANGED <<data, file, reply>> /\ ReceiverUnmoved

StreamPartial(k) ==
  /\ Streaming /\ ~IsEot(Collected(k))
  /\ Bytes(Collected(k)) < StreamWant
  /\ rcv' = Waiting(rcv, Collected(k))
  /\ data' = Rest(data, k)
  /\ UNCHANGED <<file, reply>> /\ ReceiverUnmoved

\* k pieces complete the block; what else was read is the next call's input.
FillsBlock(k) == /\ Bytes(rcv.block) < StreamWant
                 /\ Bytes(Collected(k - 1)) < StreamWant
                 /\ Bytes(Collected(k)) >= StreamWant

\* (Slip: a bad block is skipped.)
StreamBlockSkips(k) ==
  /\ Streaming /\ FillsBlock(k)
  /\ IF Verified(Collected(k), rcv.flavor, rcv.number)
     THEN Accepted(Collected(k))
     ELSE rcv' = Waiting(rcv, <<>>) /\ UNCHANGED file
  /\ data' = Rest(data, k)
  /\ UNCHANGED reply /\ ReceiverUnmoved

StreamBlock(k) ==
  /\ Streaming /\ FillsBlock(k)
  /\ IF Verified(Collected(k), rcv.flavor, rcv.number)
     THEN Accepted(Collected(k))
     ELSE rcv' = [Aborted(rcv) EXCEPT !.block = <<>>] /\ UNCHANGED file
  /\ data' = Rest(data, k)
  /\ UNCHANGED reply /\ ReceiverUnmoved

-----------------------------------------------------------------------------
(***************************************************************************)
(* The users and the line.                                                 *)
(***************************************************************************)
\* ESC: protocol_transfer_keyboard_handler().
SenderEscape ==
  /\ UserAborts /\ Running(snd)
  /\ snd' = [snd EXCEPT !.xfer = "ABORT"]
  /\ UNCHANGED <<src, short, file, rcv, data, reply, faults>>

ReceiverEscape ==
  /\ UserAborts /\ ReceiverTurn
  /\ rcv' = [rcv EXCEPT !.xfer = "ABORT"]
  /\ UNCHANGED <<src, short, file, snd, data, reply, faults>>

\* After the transfer what still arrives goes to the console.
Drain ==
  /\ \/ ~Running(snd) /\ reply # <<>> /\ reply' = <<>> /\ UNCHANGED data
     \/ ~ReceiverTurn /\ data # <<>> /\ data' = <<>> /\ UNCHANGED reply
  /\ UNCHANGED <<src, short, file, snd, rcv, faults>>

LineFault(kind) == /\ kind \in FaultKinds /\ faults < MaxFaults
                   /\ faults' = faults + 1
                   /\ UNCHANGED <<src, short, file, snd, rcv>>

LoseData(i) ==
  /\ LineFault("lose data") /\ data' = RemoveAt(data, i) /\ UNCHANGED reply

DamageData(i) ==
  /\ \E harm \in {"full", "half"} :
       /\ LineFault(IF harm = "half" THEN "half damage"
                    ELSE IF data[i].kind = "eot" THEN "damage eot" ELSE "damage")
       /\ data' = [data EXCEPT ![i].harm = harm]
  /\ data[i].harm = "none" /\ UNCHANGED reply

LoseReply(i) ==
  /\ LineFault("lose reply") /\ reply' = RemoveAt(reply, i) /\ UNCHANGED data

NoiseInReply(i) ==
  /\ LineFault("noise") /\ reply[i] # "noise"
  /\ reply' = [reply EXCEPT ![i] = "noise"] /\ UNCHANGED data

-----------------------------------------------------------------------------
\* xmodem_start() on each side
SenderStarted(flavor) ==
  [state |-> "INIT", prior |-> "INIT", flavor |-> flavor, first |-> FirstByte(flavor),
   number |-> 1, errors |-> 0, timeouts |-> 0, xfer |-> "TRANSFER", lapse |-> 0]

\* (Slip: the first block is number 0, as in ymodem_start().)
ReceiverStartedAtZero(flavor) ==
  [state |-> "INIT", prior |-> "INIT", flavor |-> flavor, first |-> FirstByte(flavor),
   number |-> 0, errors |-> 0, timeouts |-> 0, xfer |-> "TRANSFER", block |-> <<>>]

ReceiverStarted(flavor) ==
  [state |-> "INIT", prior |-> "INIT", flavor |-> flavor, first |-> FirstByte(flavor),
   number |-> 1, errors |-> 0, timeouts |-> 0, xfer |-> "TRANSFER", block |-> <<>>]

Init ==
  /\ src \in Files
  /\ short \in ShortTails
  /\ file = <<>>
  /\ \E pick \in FlavorPairs :
       /\ snd = SenderStarted(pick[1])
       /\ rcv = ReceiverStarted(pick[2])
  /\ data = <<>>
  /\ reply = <<>>
  /\ faults = 0

SenderInput(k) == \/ SenderCancelled(k) \/ SenderStart(k) \/ SenderIgnore(k)
                  \/ SenderBlock(k) \/ SenderNak(k) \/ SenderDone(k)

SenderGo == \/ \E k \in 1..Len(reply) : SenderInput(k)
            \/ \E k \in 0..Len(reply) : SenderStream(k) \/ SenderEot(k)
            \/ SenderResend

ReceiverInput(k) == \/ Overrun(k) \/ Eot(k) \/ Partial(k) \/ GoodBlock(k)
                    \/ BadBlock(k) \/ ReceiverPurge(k)
                    \/ StreamPartial(k) \/ StreamBlock(k)

ReceiverGo == \/ \E k \in 1..Len(data) : ReceiverInput(k)
              \/ \E k \in 0..Len(data) : ReceiverInit(k)
              \/ StreamAssert \/ ReceiverNak

Timeouts == SenderTimeout \/ FirstBlockTimeout \/ BlockTimeout

Faults == \/ \E i \in DOMAIN data : LoseData(i) \/ DamageData(i)
          \/ \E i \in DOMAIN reply : LoseReply(i) \/ NoiseInReply(i)

Next == \/ SenderGo \/ ReceiverGo \/ Timeouts \/ Drain
        \/ SenderEscape \/ ReceiverEscape \/ Faults

\* Both programs poll: select() returns at input or after a short while and
\* process_incoming_data() runs, so neither handler nor timer is put off for
\* ever.  The line may, but need not, fail, and the users may press ESC.
Fairness == /\ WF_vars(SenderGo) /\ WF_vars(ReceiverGo)
            /\ WF_vars(SenderTimeout) /\ WF_vars(FirstBlockTimeout)
            /\ WF_vars(BlockTimeout) /\ WF_vars(Drain)

Spec == Init /\ [][Next]_vars /\ Fairness

-----------------------------------------------------------------------------
(***************************************************************************)
(* Properties                                                              *)
(***************************************************************************)

\* Every variable has its type: the static variables of xmodem.c on either
\* side, the pieces and control bytes in transit and the fault budget.
States == {"INIT", "PURGE_INPUT", "FIRST_BLOCK", "BLOCK", "LAST_BLOCK",
           "EOT_ACK", "COMPLETE", "ABORT", "TRIM_LOOP", "ASSERT"}

Outcomes == {"TRANSFER", "END", "ABORT"}

FirstBytes == {"NAK", "C", "G"}

ControlBytes == FirstBytes \cup {"ACK", "CAN", "noise"}

PieceSet == [n : Nat, kind : BlockKinds \cup {"eot"}, at : 1..4,
             harm : {"none", "half", "full"}]

SenderSet == [state : States, prior : States, flavor : Flavors, first : FirstBytes,
              number : Nat \ {0}, errors : Nat, timeouts : Nat, xfer : Outcomes,
              lapse : 0..2]

ReceiverSet == [state : States, prior : States, flavor : Flavors, first : FirstBytes,
                number : Nat \ {0}, errors : Nat, timeouts : Nat, xfer : Outcomes,
                block : Seq(PieceSet)]

TypeOK ==
  /\ src \in Files /\ short \in BOOLEAN /\ faults \in 0..MaxFaults
  /\ snd \in SenderSet /\ rcv \in ReceiverSet
  /\ data \in Seq(PieceSet) /\ reply \in Seq(ControlBytes)

\* What the receiver has on disk is always the beginning of what the sender
\* has, however blocks were lost, damaged, resent and cut up: verify_block()
\* takes no block twice, none out of order and no damaged one.
FileIsPrefix == file = SubSeq(src, 1, Len(file))

\* When the uploading user reads SUCCESS, the downloading program has ended
\* with success too and has the whole file but for its SUB padding.
NoFalseSuccess == snd.xfer = "END" => rcv.xfer = "END" /\ file = Trim(src)

\* Stop and wait: the sender never constructs a block before the last one is
\* on the receiver's disk, so the one current_block it keeps is all it can
\* be asked to resend.
LockStep == /\ rcv.number <= snd.number
            /\ snd.number <= rcv.number + 1

\* Either both sides fell back to checksums or neither did, by the time the
\* first block was taken.
FlavorsAgree == rcv.number > 1 => (snd.flavor = "X_NORMAL" <=> rcv.flavor = "X_NORMAL")

\* The transfer is an abstract file transfer.
RefinesFileTransfer == FT!Spec

\* Whatever the line and the users do, both programs leave the transfer
\* screen in the end: the counters of errors and timeouts see to it.  (A file
\* of nothing but SUBs is the exception: see TRIM_LOOP.)
Termination == Trim(src) # <<>> => <>(~Running(snd) /\ ~Running(rcv))

\* The transfer succeeds on both sides.
Success == snd.xfer = "END" /\ rcv.xfer = "END"

\* On a clean line every pair of flavors that can agree succeeds, unless the
\* assertion of -G ends the program; and with errors in the blocks those do
\* that send no 1K blocks, of which two do not fit current_block.
OnlyShortBlocks == ~OneK(snd.flavor) \/ rcv.flavor = "X_NORMAL"

SucceedsIfClean ==
  [](faults = 0) \/ OnlyShortBlocks => <>(Success \/ rcv.state = "ASSERT")

-----------------------------------------------------------------------------
(***************************************************************************)
(* The inductive invariant behind the safety properties, for transfers in  *)
(* which nobody picked X_1K_G and the line does not defeat the CRC test.   *)
(***************************************************************************)
NoStream == \A pick \in FlavorPairs : pick[1] # "X_1K_G" /\ pick[2] # "X_1K_G"
NoHalves == "half damage" \notin FaultKinds

Sent == snd.number - 1   \* blocks constructed
Taken == rcv.number - 1  \* blocks written by the receiver

\* the state PURGE_INPUT will lead back to
Purpose(p) == IF p.state = "PURGE_INPUT" THEN p.prior ELSE p.state

FlavorInv == snd.flavor # "X_1K_G" /\ rcv.flavor # "X_1K_G"

CountInv == Taken <= Sent /\ Sent <= Taken + 1 /\ Sent <= Len(src)

SenderInv ==
  /\ snd.xfer = "END" => rcv.xfer = "END"
  /\ Running(snd) =>
       /\ Purpose(snd) \in {"INIT", "BLOCK", "LAST_BLOCK", "EOT_ACK"}
       /\ snd.state = "PURGE_INPUT" => snd.prior # "EOT_ACK"
       /\ Purpose(snd) = "INIT" => Sent = 0
       /\ Purpose(snd) = "BLOCK" => Sent < Len(src)
       /\ Purpose(snd) = "LAST_BLOCK" => Sent = Len(src)
       /\ Purpose(snd) = "EOT_ACK" => Sent = Len(src) /\ Taken = Len(src)

Saved == rcv.xfer = "END" \/ rcv.state = "TRIM_LOOP"

ReceiverInv ==
  /\ rcv.state # "ASSERT"
  /\ rcv.state = "TRIM_LOOP" => Running(rcv)
  /\ Saved => Taken = Len(src) /\ file = Trim(src)
  /\ ~Saved => file = SubSeq(src, 1, Taken)
  /\ Running(rcv) => rcv.state \in {"INIT", "FIRST_BLOCK", "BLOCK", "PURGE_INPUT", "TRIM_LOOP"}
  /\ rcv.state = "PURGE_INPUT" => rcv.prior = "BLOCK"
  /\ \A i \in DOMAIN rcv.block : rcv.block[i].harm # "half"

\* The line holds copies of the block expected and of the one before, in
\* this order, and an EOT only when everything has been taken.
DataInv ==
  /\ \A i \in DOMAIN data :
       /\ data[i].n \in {Taken, Taken + 1} /\ data[i].n <= Sent
       /\ data[i].harm # "half"
       /\ data[i].kind = "eot" =>
            Taken = Len(src) /\ (Running(snd) => snd.state = "EOT_ACK")
  /\ \A i, j \in DOMAIN data : i <= j => data[i].n <= data[j].n

\* There is never more than one ACK under way, and it answers the last block
\* or the EOT.
ReplyInv ==
  Running(snd) =>
    \A i \in DOMAIN reply : reply[i] = "ACK" =>
      /\ \A j \in DOMAIN reply : reply[j] = "ACK" => j = i
      /\ IF snd.state = "EOT_ACK" THEN rcv.xfer = "END" ELSE Sent > 0 /\ Taken = Sent

IInv == /\ TypeOK /\ FlavorInv /\ CountInv /\ SenderInv /\ ReceiverInv
        /\ DataInv /\ ReplyInv
=============================================================================
