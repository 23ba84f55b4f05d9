---------------------------- MODULE ZmodemProofs ----------------------------
(***************************************************************************)
(* Theorems about Zmodem: its types, what is saved, whose files change, and *)
(* that it implements BatchTransfer, for every batch, every disk, all      *)
(* limits and windows, and any number of faults and sessions, in the       *)
(* circumstances Calm describes.                                           *)
(*                                                                         *)
(* ZDATA, ZEOF, ZRPOS and ZACK name no file, so everything rests on both   *)
(* programs meaning the same one.  They do because they take turns (Turns):*)
(* there is at most one header on the way to the receiver and one answer   *)
(* on the way back, and where there is an answer, the receiver has nothing *)
(* left to read that could make it say more.  Hence the state of each      *)
(* program bounds that of the other (Stage); a header on its way belongs   *)
(* to the sender's state (Pending), an answer to the receiver's (Answer);  *)
(* and the subpackets behind a ZDATA have the file from where the receiver *)
(* is to where the sender is (Track), of which at most the last one asks   *)
(* for a ZACK (AsksLast).  What the receiver writes is then always the     *)
(* next piece of the file it has begun (HasPart).                          *)
(*                                                                         *)
(* A ZFILE that is sent again while the receiver compares is taken for a   *)
(* sender without ZCRC: the file that is there is gone on with unread.     *)
(* Without failing headers that does not happen (Comparing); with them it  *)
(* does no harm if the file is ours (OursKept).                            *)
(*                                                                         *)
(* Conv is the invariant of one conversation, with the states of programs, *)
(* lines and disk as parameters; the lemmas follow the ways in which a     *)
(* step changes them: the sender's handlers, the receiver's, timers, the   *)
(* line, users and sessions.  The refinement follows.  The last section is *)
(* about transfers that begin with a ZSINIT, and assumes nothing of the    *)
(* circumstances (Stuck).                                                  *)
(***************************************************************************)
EXTENDS Zmodem, SequenceTheorems, TLAPS

-----------------------------------------------------------------------------
(***************************************************************************)
(* The circumstances: a download begins with the ZRQINIT; no timer expires *)
(* early and no header breaks off; and where headers may be lost or        *)
(* garbled, a file that is there and not longer is the beginning of ours,  *)
(* because a ZFILE that is repeated then replaces the comparison.          *)
(***************************************************************************)
Beginning(f, n) == SubSeq(Batch[f], 1, n)

Ours(f, there) ==
  \/ there = <<>> \/ Len(there[1]) > Size(f)
  \/ there[1] = Beginning(f, Len(there[1]))

HeadersFail(c) == "lose" \in c.faults \/ "garble" \in c.faults

Calm(c) ==
  /\ c.autostart = TRUE
  /\ "late" \notin c.faults /\ "cut" \notin c.faults
  /\ HeadersFail(c) => \A f \in Files : Ours(f, c.disk[f])

-----------------------------------------------------------------------------
(***************************************************************************)
(* Types.                                                                  *)
(***************************************************************************)
Heard == {e \in Elements : e.kind # "CUT"}
Line == Seq(Heard)
Alive == {x \in Status : Running(x) => x.timeouts < TimeoutMax}

Typed ==
  /\ scenario \in Scenarios /\ Calm(scenario)
  /\ snd \in Alive /\ rcv \in Alive
  /\ down \in Line /\ up \in Line
  /\ disk \in [Files -> Seq(Seq(Units))]
  /\ saved \in [Files -> Seq(Seq(Units))]
  /\ result \in Seq({"OK", "SKIP"})
  /\ faults \in 0 .. scenario.most
  /\ session \in 1 .. scenario.sessions

-----------------------------------------------------------------------------
(***************************************************************************)
(* Whose turn it is.  The line to the receiver has at most one header, the *)
(* line to the sender at most one answer; and when there is an answer, the *)
(* receiver says no more until the sender has taken it.                    *)
(***************************************************************************)
IsData(e) == e.kind \in DataKinds
Good == {"ZCRCG", "ZCRCQ", "ZCRCW"}

NoHeader(D) == \A i \in 1 .. Len(D) : IsData(D[i])
HeaderFirst(D) == \A i \in 2 .. Len(D) : IsData(D[i])
OneHeader(D) ==
  \A i, j \in 1 .. Len(D) : i # j => IsData(D[i]) \/ IsData(D[j])

Mute(r, D) == D = <<>> \/ (r.state \in Hunting /\ NoHeader(D))

Turns(s, r, D, U) ==
  /\ ~Running(s) => U = <<>>
  /\ ~Running(r) => D = <<>>
  /\ Len(U) <= 1
  /\ OneHeader(D)
  /\ U # <<>> => Mute(r, D)
  /\ s.state = "INIT" => U = <<>> /\ D = <<>>
  /\ r.state = "INIT" => U = <<>>
  /\ Running(s) /\ s.state = "ZRPOS" => U = <<>> /\ Mute(r, D)
  /\ Running(r) /\ r.state = "ZDATA" =>
       /\ HeaderFirst(D)
       /\ U # <<>> => s.state = "ZDATA" /\ s.waiting = TRUE /\ s.streaming = TRUE

-----------------------------------------------------------------------------
(***************************************************************************)
(* The two programs.                                                       *)
(***************************************************************************)
Filing(r) == r.state = "ZRPOS_WAIT" \/ (r.state = "ZDATA" /\ r.prior = "ZRPOS_WAIT")

\* The receiver has the beginning of the sender's file.
HasPart(s, r, dsk) ==
  /\ r.open = TRUE /\ r.file = s.file /\ r.file \in Files
  /\ r.version \in DOMAIN dsk[r.file] /\ r.pos <= Size(r.file)
  /\ dsk[r.file][r.version] = Beginning(r.file, r.pos)

\* It compares a file that is there.
Compares(s, r, dsk) ==
  /\ r.open = TRUE /\ r.file = s.file /\ r.file \in Files
  /\ r.version = 1 /\ dsk[r.file] # <<>>
  /\ r.pos = Len(dsk[r.file][1]) /\ r.pos <= Size(r.file)

Receives(s, r, dsk) ==
  /\ r.prior = "ZSKIP" \/ ~Running(r) => r.open = FALSE
  /\ Running(r) =>
       /\ r.state \in Hunting \cup {"INIT", "ZDATA"}
       /\ r.state = "ZDATA" =>
            \/ r.prior = "ZRPOS_WAIT" /\ r.type = "ZDATA"
            \/ r.prior = "ZRINIT_WAIT" /\ r.type \in {"ZSINIT", "ZFILE"}
       /\ r.state # "ZDATA" => r.junk = "NO"
       /\ Filing(r) => HasPart(s, r, dsk)
       /\ r.state = "ZCRC_WAIT" => Compares(s, r, dsk)

Sends(c, s) ==
  Running(s) =>
    /\ s.state \in {"INIT", "ZRQINIT_WAIT", "ZSINIT_WAIT", "ZFILE_WAIT", "ZDATA",
                    "ZRPOS", "ZEOF_WAIT", "ZFIN_WAIT"}
    /\ s.state = "ZFIN_WAIT" => s.file = Len(Batch) + 1
    /\ s.state # "ZFIN_WAIT" => s.open = TRUE /\ s.file \in Files
    /\ s.state = "ZSINIT_WAIT" => c.zsinit = TRUE
    /\ s.state = "ZDATA" => s.pos <= Size(s.file)

IsWhole(f, dsk) == \E k \in DOMAIN dsk[f] : dsk[f][k] = Batch[f]

\* Where the receiver is when the sender is in a state.
Stage(s, r, dsk, svd) ==
  /\ s.state = "INIT" => r.state = "INIT"
  /\ s.state = "ZRQINIT_WAIT" => r.state \in {"INIT", "ZCHALLENGE_WAIT", "ZRINIT_WAIT"}
  /\ s.state = "ZSINIT_WAIT" =>
       r.state = "ZRINIT_WAIT" \/ (r.state = "ZDATA" /\ r.type = "ZSINIT")
  /\ s.state = "ZFILE_WAIT" =>
       \/ r.state \in {"ZRINIT_WAIT", "ZCRC_WAIT", "ZRPOS_WAIT"}
       \/ r.state = "ZDATA" /\ r.type = "ZFILE"
  /\ s.state \in {"ZDATA", "ZRPOS"} => Filing(r)
  /\ s.state = "ZEOF_WAIT" =>
       \/ Filing(r) /\ r.pos = Size(s.file)
       \/ r.state = "ZRINIT_WAIT" /\ IsWhole(s.file, dsk) /\ svd[s.file] # <<>>
  /\ s.state = "ZFIN_WAIT" => r.state = "ZRINIT_WAIT"

-----------------------------------------------------------------------------
(***************************************************************************)
(* What is on its way to the receiver.                                     *)
(***************************************************************************)
Carries(f, e, m, n) ==
  /\ m <= n
  /\ e.kind \in Good => e.data = SubSeq(Batch[f], m + 1, n)
  /\ ~IsData(e) => m = n

\* The subpackets of a line have the file from one position to another.
Track(f, R, from, to) ==
  \E at \in [0 .. Len(R) -> 0 .. Size(f)] :
    /\ at[0] = from /\ at[Len(R)] = to
    /\ \A i \in 1 .. Len(R) : Carries(f, R[i], at[i - 1], at[i])

\* Whoever asks for a ZACK waits for it.
AsksLast(s, R) ==
  \A i \in 1 .. Len(R) :
    R[i].kind \in {"ZCRCQ", "ZCRCW"} =>
      /\ i = Len(R)
      /\ Running(s) => s.state = "ZDATA" /\ s.waiting = TRUE
      /\ Running(s) /\ R[i].kind = "ZCRCQ" => s.streaming = TRUE

NameOf(s) == Packet("ZCRCW", s.file, <<>>)
Names(s, R) ==
  \A i \in 1 .. Len(R) : R[i].kind \in Good => R[i] = NameOf(s) /\ s.file \in Files

SentIn(state, s) == Running(s) => s.state = state

\* A header that has not been taken, and what is behind it.
Pending(s, r, e, R) ==
  /\ e.kind \in {"ZRQINIT", "ZACK"} => SentIn("ZRQINIT_WAIT", s)
  /\ e.kind = "ZSINIT" => SentIn("ZSINIT_WAIT", s)
  /\ e.kind = "ZFILE" => SentIn("ZFILE_WAIT", s) /\ Names(s, R)
  /\ e.kind = "ZCRC" =>
       /\ SentIn("ZFILE_WAIT", s)
       /\ r.state = "ZCRC_WAIT" => e.data = Beginning(r.file, r.pos)
  /\ e.kind = "ZDATA" =>
       /\ SentIn("ZDATA", s) /\ r.state = "ZRPOS_WAIT"
       /\ Track(r.file, R, r.pos, s.pos) /\ AsksLast(s, R)
  /\ e.kind = "ZEOF" =>
       /\ SentIn("ZEOF_WAIT", s)
       /\ r.state = "ZRPOS_WAIT" => e.n = Size(r.file) /\ r.pos = Size(r.file)
  /\ e.kind = "ZFIN" => SentIn("ZFIN_WAIT", s) /\ s.file = Len(Batch) + 1

\* What the receiver collects.
Collecting(s, r, D) ==
  r.state = "ZDATA" /\ r.junk = "NO" =>
    /\ r.prior = "ZRPOS_WAIT" => Track(r.file, D, r.pos, s.pos) /\ AsksLast(s, D)
    /\ r.prior = "ZRINIT_WAIT" /\ r.type = "ZFILE" => Names(s, D)

Behind(D, h) == SubSeq(D, h + 1, Len(D))

Downward(s, r, D) ==
  Running(r) =>
    /\ Collecting(s, r, D)
    /\ \A h \in 1 .. Len(D) : Pending(s, r, D[h], Behind(D, h))

-----------------------------------------------------------------------------
(***************************************************************************)
(* What is on its way to the sender.                                       *)
(***************************************************************************)
AnswerKinds ==
  {"ZRINIT", "ZSKIP", "ZRPOS", "ZCRC", "ZACK", "ZNAK", "ZCHALLENGE", "ZFIN", "GARBLED"}

Answer(s, r, D, dsk, svd, x) ==
  /\ x.kind \in AnswerKinds
  /\ x.kind = "ZRINIT" =>
       /\ r.state = "ZRINIT_WAIT" /\ s.state \notin {"ZDATA", "ZRPOS"}
       /\ s.state = "ZEOF_WAIT" => IsWhole(s.file, dsk) /\ svd[s.file] # <<>>
  /\ x.kind = "ZSKIP" =>
       r.state = "ZRINIT_WAIT" /\ s.state = "ZFILE_WAIT" /\ IsWhole(s.file, dsk)
  /\ x.kind = "ZRPOS" =>
       /\ r.state = "ZRPOS_WAIT" /\ s.state \in {"ZFILE_WAIT", "ZDATA", "ZEOF_WAIT"}
       /\ x.n = r.pos /\ x.n <= Size(s.file)
  /\ x.kind = "ZCRC" =>
       /\ r.state = "ZCRC_WAIT" /\ s.state = "ZFILE_WAIT"
       /\ x.n = r.pos /\ x.n <= Size(s.file)
  /\ x.kind = "ZACK" =>
       \/ /\ s.state = "ZDATA" /\ s.waiting = TRUE /\ D = <<>>
          /\ Filing(r) /\ x.n = r.pos /\ x.n <= Size(s.file)
       \/ s.state = "ZSINIT_WAIT" /\ r.state = "ZRINIT_WAIT"
  /\ x.kind = "ZNAK" /\ Running(r) => r.state \in Hunting
  /\ x.kind = "ZCHALLENGE" => r.state = "ZCHALLENGE_WAIT" /\ s.state = "ZRQINIT_WAIT"
  /\ x.kind = "ZFIN" => ~Running(r)

Upward(s, r, D, U, dsk, svd) == U # <<>> => Answer(s, r, D, dsk, svd, U[1])

\* Without loss of headers, a comparison always ends with the ZCRC.
Comparing(c, s, r, D, U) ==
  ~HeadersFail(c) /\ Running(r) /\ r.state = "ZCRC_WAIT" =>
    /\ \A i \in 1 .. Len(D) : D[i].kind # "ZFILE"
    /\ Running(s) => \/ U # <<>> /\ U[1].kind = "ZCRC"
                     \/ \E i \in 1 .. Len(D) : D[i].kind = "ZCRC"

-----------------------------------------------------------------------------
Conv(c, s, r, D, U, dsk, svd) ==
  /\ Turns(s, r, D, U)
  /\ Receives(s, r, dsk)
  /\ Sends(c, s)
  /\ Running(s) /\ Running(r) => Stage(s, r, dsk, svd)
  /\ Downward(s, r, D)
  /\ Upward(s, r, D, U, dsk, svd)
  /\ Comparing(c, s, r, D, U)

OursKept(c, dsk) == HeadersFail(c) => \A f \in Files : Ours(f, dsk[f])
Saved(svd) == \A f \in Files : \A k \in DOMAIN svd[f] : svd[f][k] = Batch[f]

\* The sender has logged the files before the one it is at.
Logged(s, res, dsk, svd) ==
  /\ Len(res) = s.file - 1 /\ s.file \in 1 .. Len(Batch) + 1
  /\ \A f \in 1 .. Len(res) :
       IsWhole(f, dsk) /\ (res[f] = "OK" => svd[f] # <<>>)

Conversation == Conv(scenario, snd, rcv, down, up, disk, saved)

Stored ==
  /\ OursKept(scenario, disk) /\ Saved(saved)
  /\ Logged(snd, result, disk, saved)

IInv == Typed /\ Conversation /\ Stored
-----------------------------------------------------------------------------
(***************************************************************************)
(* Lines.                                                                  *)
(***************************************************************************)

\* What Tail, Head and Behind are of a line.
LEMMA TailFacts ==
  ASSUME NEW S, NEW D \in Seq(S), D # <<>>
  PROVE  /\ Len(D) \in Nat /\ Len(D) >= 1 /\ Head(D) = D[1] /\ D[1] \in S
         /\ Tail(D) \in Seq(S) /\ Len(Tail(D)) = Len(D) - 1
         /\ \A i \in 1 .. Len(D) - 1 : Tail(D)[i] = D[i + 1]
         /\ Behind(D, 1) = Tail(D)
         /\ D = <<D[1]>> \o Tail(D)
<1>1. Len(D) \in Nat /\ Len(D) >= 1 /\ Head(D) = D[1] /\ D[1] \in S
  BY EmptySeq
<1>2. /\ Tail(D) \in Seq(S) /\ Len(Tail(D)) = Len(D) - 1
      /\ \A i \in 1 .. Len(D) - 1 : Tail(D)[i] = D[i + 1]
  BY <1>1, HeadTailProperties
<1>3. Behind(D, 1) = Tail(D)
  BY TailIsSubSeq DEF Behind
<1>4. D = <<D[1]>> \o Tail(D)
  <2>1. 1 \in 1 .. Len(D) /\ Len(D) \in 1 .. Len(D)
    BY <1>1
  <2>2. SubSeq(D, 1, Len(D)) = <<D[1]>> \o SubSeq(D, 2, Len(D))
    BY <2>1, SubSeqRecursiveFirst
  <2>3. QED
    BY <2>2, SubSeqFull, TailIsSubSeq
<1>5. QED
  BY <1>1, <1>2, <1>3, <1>4

LEMMA BehindTail ==
  ASSUME NEW S, NEW D \in Seq(S), D # <<>>, NEW h \in 1 .. Len(Tail(D))
  PROVE  Tail(D)[h] = D[h + 1] /\ Behind(Tail(D), h) = Behind(D, h + 1)
<1> DEFINE n == Len(D)
<1>1. /\ n \in Nat /\ n >= 1 /\ Tail(D) \in Seq(S) /\ Len(Tail(D)) = n - 1
      /\ \A i \in 1 .. n - 1 : Tail(D)[i] = D[i + 1]
  BY TailFacts
<1>2. Tail(D) = SubSeq(D, 2, n)
  BY TailIsSubSeq
<1> HIDE DEF n
<1>3. h \in Nat /\ h >= 1 /\ h <= n - 1
  BY <1>1
<1>4. CASE h = n - 1
  <2>1. SubSeq(Tail(D), h + 1, Len(Tail(D))) = <<>>
    BY <1>1, <1>3, <1>4, SubSeqEmpty, h + 1 \in Int, Len(Tail(D)) \in Int, Len(Tail(D)) < h + 1
  <2>2. SubSeq(D, (h + 1) + 1, n) = <<>>
    BY <1>1, <1>3, <1>4, SubSeqEmpty, (h + 1) + 1 \in Int, n \in Int, n < (h + 1) + 1
  <2>3. QED
    BY <1>1, <1>3, <2>1, <2>2 DEF Behind, n
<1>5. CASE h < n - 1
  <2>1. /\ 2 \in 1 .. n /\ n \in 1 .. n
        /\ h + 1 \in 1 .. (n - 2) + 1 /\ n - 1 \in 1 .. (n - 2) + 1
    BY <1>1, <1>3, <1>5
  <2>2. SubSeq(SubSeq(D, 2, n), h + 1, n - 1) = SubSeq(D, 2 + (h + 1) - 1, 2 + (n - 1) - 1)
    BY <1>1, <2>1, SubSeqOfSubSeq DEF n
  <2>3. 2 + (h + 1) - 1 = (h + 1) + 1 /\ 2 + (n - 1) - 1 = n
    BY <1>1, <1>3
  <2>4. SubSeq(Tail(D), h + 1, Len(Tail(D))) = SubSeq(D, (h + 1) + 1, n)
    BY <1>1, <1>2, <2>2, <2>3
  <2>5. QED
    BY <1>1, <1>3, <2>4 DEF Behind, n
<1>6. QED
  BY <1>1, <1>3, <1>4, <1>5

LEMMA BehindAppend ==
  ASSUME NEW S, NEW D \in Seq(S), NEW e \in S, NEW h \in 1 .. Len(D)
  PROVE  /\ Append(D, e)[h] = D[h]
         /\ Behind(Append(D, e), h) = Append(Behind(D, h), e)
<1> DEFINE n == Len(D)
<1>1. n \in Nat /\ h \in Nat /\ 1 <= h /\ h <= n
  OBVIOUS
<1>2. /\ Append(D, e) \in Seq(S) /\ Len(Append(D, e)) = n + 1
      /\ \A i \in 1 .. n : Append(D, e)[i] = D[i]
      /\ Append(D, e)[n + 1] = e
  BY AppendProperties
<1> HIDE DEF n
<1>3. SubSeq(Append(D, e), h + 1, n + 1)
        = SubSeq(Append(D, e), h + 1, (n + 1) - 1) \o <<Append(D, e)[n + 1]>>
  BY <1>1, <1>2, SubSeqRecursiveSecond, h + 1 \in 1 .. (n + 1), n + 1 \in (h + 1) .. (n + 1)
<1>4. SubSeq(Append(D, e), h + 1, n) = SubSeq(D, h + 1, n)
  <2>1. CASE h = n
    BY <2>1, <1>1, SubSeqEmpty, n < h + 1, n \in Int, h + 1 \in Int
  <2>2. CASE h < n
    <3>1. h + 1 \in 1 .. Len(D) /\ n \in 1 .. Len(D)
      BY <1>1, <2>2 DEF n
    <3>2. <<e>> \in Seq(S) /\ Append(D, e) = D \o <<e>>
      BY AppendIsConcat
    <3>3. QED
      BY <3>1, <3>2, SubSeqOfConcat1
  <2>3. h = n \/ h < n
    BY <1>1
  <2>4. QED
    BY <2>1, <2>2, <2>3
<1>5. SubSeq(D, h + 1, n) \in Seq(S)
  <2>1. \A i \in (h + 1) .. n : D[i] \in S
    BY <1>1 DEF n
  <2>2. QED
    BY <1>1, <2>1, SubSeqProperties, h + 1 \in Int, n \in Int
<1>6. (n + 1) - 1 = n
  BY <1>1
<1>7. SubSeq(Append(D, e), h + 1, n + 1) = SubSeq(D, h + 1, n) \o <<e>>
  BY <1>2, <1>3, <1>4, <1>6
<1>8. SubSeq(D, h + 1, n) \o <<e>> = Append(SubSeq(D, h + 1, n), e)
  BY <1>5, AppendIsConcat
<1>9. QED
  BY <1>1, <1>2, <1>7, <1>8 DEF Behind, n

LEMMA BehindIsLine ==
  ASSUME NEW S, NEW D \in Seq(S), NEW h \in 1 .. Len(D)
  PROVE  Behind(D, h) \in Seq(S)
<1>1. Len(D) \in Nat /\ h \in Nat
  OBVIOUS
<1>2. \A i \in h + 1 .. Len(D) : D[i] \in S
  BY <1>1
<1>3. QED
  BY <1>1, <1>2, SubSeqProperties, h + 1 \in Int, Len(D) \in Int DEF Behind

\* What is left of a line after some of it has been thrown away.
LEMMA RestsFacts ==
  ASSUME NEW S, NEW D \in Seq(S), NEW X \in Rests(D)
  PROVE  /\ X \in Seq(S)
         /\ NoHeader(D) => NoHeader(X)
         /\ D = <<>> => X = <<>>
<1>1. PICK i \in 1 .. Len(D) + 1 : X = SubSeq(D, i, Len(D))
  BY DEF Rests
<1>2. Len(D) \in Nat /\ i \in Nat /\ 1 <= i
  OBVIOUS
<1>3. \A j \in i .. Len(D) : D[j] \in S
  BY <1>2
<1>4. /\ X \in Seq(S)
      /\ Len(X) = IF i <= Len(D) THEN Len(D) - i + 1 ELSE 0
      /\ \A j \in 1 .. Len(D) - i + 1 : X[j] = D[i + j - 1]
  BY <1>1, <1>2, <1>3, SubSeqProperties, i \in Int, Len(D) \in Int
<1>5. ASSUME NoHeader(D) PROVE NoHeader(X)
  <2>1. SUFFICES ASSUME NEW j \in 1 .. Len(X) PROVE IsData(X[j])
    BY DEF NoHeader
  <2>2. i + j - 1 \in 1 .. Len(D) /\ X[j] = D[i + j - 1]
    BY <1>2, <1>4
  <2>3. QED
    BY <1>5, <2>2 DEF NoHeader
<1>6. ASSUME D = <<>> PROVE X = <<>>
  BY <1>2, <1>4, <1>6, EmptySeq
<1>7. QED
  BY <1>4, <1>5, <1>6

LEMMA JunkHeard == Header("JUNK", 0) \in Heard /\ IsData(Header("JUNK", 0))
  BY DEF Header, Heard, Elements, DataKinds, UnreadableKinds, SubpacketKinds, IsData

\* What has left the sender when it throws the rest away.
LEMMA SentFacts ==
  ASSUME NEW D \in Line, NEW X \in Sent(D)
  PROVE  /\ X \in Line
         /\ NoHeader(D) => NoHeader(X)
         /\ D = <<>> => X = <<>>
<1> DEFINE junk == Header("JUNK", 0)
<1>1. Len(D) \in Nat /\ D \in Seq(Heard)
  BY DEF Line
<1>2. junk \in Heard /\ IsData(junk)
  BY JunkHeard
<1> HIDE DEF junk
<1>3. ASSUME NEW i \in 0 .. Len(D)
      PROVE  /\ SubSeq(D, 1, i) \in Line /\ Len(SubSeq(D, 1, i)) = i
             /\ \A j \in 1 .. i : SubSeq(D, 1, i)[j] = D[j]
  <2>1. \A j \in 1 .. i : D[j] \in Heard
    BY <1>1
  <2>2. /\ SubSeq(D, 1, i) \in Seq(Heard)
        /\ Len(SubSeq(D, 1, i)) = IF 1 <= i THEN i - 1 + 1 ELSE 0
        /\ \A j \in 1 .. i - 1 + 1 : SubSeq(D, 1, i)[j] = D[1 + j - 1]
    BY <2>1, SubSeqProperties, 1 \in Int, i \in Int
  <2>3. QED
    BY <2>2 DEF Line
<1>4. CASE \E i \in 0 .. Len(D) : X = SubSeq(D, 1, i)
  <2>1. PICK i \in 0 .. Len(D) : X = SubSeq(D, 1, i)
    BY <1>4
  <2>2. X \in Line /\ Len(X) = i /\ \A j \in 1 .. i : X[j] = D[j]
    BY <1>3, <2>1
  <2>3. NoHeader(D) => NoHeader(X)
    BY <1>1, <2>2 DEF NoHeader
  <2>4. D = <<>> => X = <<>>
    BY <1>1, <2>2, EmptySeq DEF Line
  <2>5. QED
    BY <2>2, <2>3, <2>4
<1>5. CASE \E i \in DOMAIN D : X = Append(SubSeq(D, 1, i - 1), junk)
  <2>1. PICK i \in 1 .. Len(D) : X = Append(SubSeq(D, 1, i - 1), junk)
    BY <1>1, <1>5
  <2> DEFINE Y == SubSeq(D, 1, i - 1)
  <2>2. i - 1 \in 0 .. Len(D) /\ i \in Nat /\ i >= 1
    BY <1>1
  <2>3. /\ Y \in Seq(Heard) /\ Len(Y) = i - 1
        /\ \A j \in 1 .. i - 1 : Y[j] = D[j]
    BY <1>3, <2>2 DEF Line
  <2> HIDE DEF Y
  <2>4. /\ X = Append(Y, junk) /\ X \in Seq(Heard) /\ Len(X) = i /\ X[i] = junk
        /\ \A j \in 1 .. i - 1 : X[j] = Y[j]
    BY <2>1, <2>2, <2>3, <1>2, AppendProperties DEF Y
  <2>5. NoHeader(D) => NoHeader(X)
    <3>1. SUFFICES ASSUME NoHeader(D), NEW j \in 1 .. i PROVE IsData(X[j])
      BY <2>4 DEF NoHeader
    <3>2. j = i \/ j \in 1 .. i - 1
      BY <2>2
    <3>3. QED
      BY <3>1, <3>2, <2>4, <2>3, <1>2, <1>1 DEF NoHeader
  <2>6. D # <<>>
    BY <2>2, <1>1
  <2>7. QED
    BY <2>4, <2>5, <2>6 DEF Line
<1>6. QED
  BY <1>4, <1>5 DEF Sent, junk

LEMMA SpokenFacts ==
  ASSUME NEW S, NEW X \in Seq(S), NEW out \in Seq(S)
  PROVE  /\ X \o out \in Seq(S) /\ Len(X \o out) = Len(X) + Len(out)
         /\ \A i \in 1 .. Len(X) : (X \o out)[i] = X[i]
         /\ \A i \in 1 .. Len(out) : (X \o out)[Len(X) + i] = out[i]
         /\ X = <<>> => X \o out = out
         /\ out = <<>> => X \o out = X
         /\ out # <<>> => Behind(X \o out, Len(X) + 1) = Tail(out)
<1> DEFINE D == X \o out
<1>1. /\ D \in Seq(S) /\ Len(D) = Len(X) + Len(out)
      /\ \A i \in 1 .. Len(X) + Len(out) :
           D[i] = IF i <= Len(X) THEN X[i] ELSE out[i - Len(X)]
  BY ConcatProperties
<1>2. Len(X) \in Nat /\ Len(out) \in Nat
  OBVIOUS
<1>3. X = <<>> => D = out
  BY ConcatEmptySeq
<1>4. out = <<>> => D = X
  BY ConcatEmptySeq
<1>5. ASSUME out # <<>> PROVE Behind(D, Len(X) + 1) = Tail(out)
  <2>1. Len(out) >= 1
    BY <1>5, <1>2, EmptySeq
  <2>2. Tail(out) = SubSeq(out, 2, Len(out))
    BY <1>5, TailIsSubSeq
  <2>3. CASE Len(out) = 1
    <3>1. SubSeq(out, 2, Len(out)) = <<>>
      BY <2>3, SubSeqEmpty, 2 \in Int, Len(out) \in Int, Len(out) < 2
    <3>2. SubSeq(D, (Len(X) + 1) + 1, Len(D)) = <<>>
      BY <2>3, <1>1, <1>2, SubSeqEmpty, (Len(X) + 1) + 1 \in Int, Len(D) \in Int,
         Len(D) < (Len(X) + 1) + 1
    <3>3. QED
      BY <2>2, <3>1, <3>2 DEF Behind
  <2>4. CASE Len(out) > 1
    <3> DEFINE m == (Len(X) + 1) + 1
               n == Len(X) + Len(out)
    <3>1. m \in Len(X) + 1 .. Len(X) + Len(out) /\ n \in Len(X) + 1 .. Len(X) + Len(out)
      BY <1>2, <2>4
    <3>2. SubSeq(X \o out, m, n) = SubSeq(out, m - Len(X), n - Len(X))
      BY <3>1, SubSeqOfConcat2
    <3>3. m - Len(X) = 2 /\ n - Len(X) = Len(out)
      BY <1>2
    <3> HIDE DEF m, n
    <3>4. SubSeq(D, m, n) = SubSeq(out, 2, Len(out))
      BY <3>2, <3>3
    <3>5. QED
      BY <1>1, <2>2, <3>4 DEF Behind, m, n
  <2>5. Len(out) = 1 \/ Len(out) > 1
    <3>1. \A k \in Nat : k >= 1 => k = 1 \/ k > 1
      OBVIOUS
    <3>2. QED
      BY <1>2, <2>1, <3>1
  <2>6. QED
    BY <2>3, <2>4, <2>5
<1>6. \A i \in 1 .. Len(X) : D[i] = X[i]
  <2>1. SUFFICES ASSUME NEW i \in 1 .. Len(X) PROVE D[i] = X[i]
    OBVIOUS
  <2>2. i \in 1 .. Len(X) + Len(out) /\ i <= Len(X)
    BY <1>2
  <2> HIDE DEF D
  <2>3. QED
    BY <1>1, <2>2
<1>7. \A i \in 1 .. Len(out) : D[Len(X) + i] = out[i]
  <2>1. SUFFICES ASSUME NEW i \in 1 .. Len(out) PROVE D[Len(X) + i] = out[i]
    OBVIOUS
  <2>2. /\ Len(X) + i \in 1 .. Len(X) + Len(out) /\ ~(Len(X) + i <= Len(X))
        /\ (Len(X) + i) - Len(X) = i
    BY <1>2
  <2> HIDE DEF D
  <2>3. QED
    BY <1>1, <2>2
<1>8. QED
  BY <1>1, <1>3, <1>4, <1>5, <1>6, <1>7

-----------------------------------------------------------------------------
(***************************************************************************)
(* Files and what carries them.                                            *)
(***************************************************************************)
LEMMA FileFacts ==
  /\ Len(Batch) \in Nat /\ Len(Batch) >= 1 /\ Files = 1 .. Len(Batch)
  /\ \A f \in Files : Batch[f] \in Seq(Units) /\ Size(f) \in Nat
<1>1. Batch \in Seq(Seq(Units)) /\ Batch # <<>>
  BY ZmodemAssumption DEF ZmodemAssumption
<1>2. Len(Batch) \in Nat /\ Len(Batch) >= 1 /\ DOMAIN Batch = 1 .. Len(Batch)
  BY <1>1, EmptySeq
<1>3. \A f \in 1 .. Len(Batch) : Batch[f] \in Seq(Units)
  BY <1>1, <1>2
<1>4. QED
  BY <1>2, <1>3 DEF Files, Size

LEMMA PartFacts ==
  ASSUME NEW f \in Files, NEW m \in 0 .. Size(f), NEW n \in m .. Size(f)
  PROVE  /\ SubSeq(Batch[f], m + 1, n) \in Seq(Units)
         /\ Len(SubSeq(Batch[f], m + 1, n)) = n - m
<1>1. Batch[f] \in Seq(Units) /\ Size(f) = Len(Batch[f]) /\ Len(Batch[f]) \in Nat
  BY FileFacts DEF Size
<1>2. m \in Nat /\ n \in Nat /\ m <= n /\ n <= Len(Batch[f])
  BY <1>1
<1>3. \A i \in m + 1 .. n : Batch[f][i] \in Units
  BY <1>1, <1>2
<1>4. /\ SubSeq(Batch[f], m + 1, n) \in Seq(Units)
      /\ Len(SubSeq(Batch[f], m + 1, n)) = IF m + 1 <= n THEN n - (m + 1) + 1 ELSE 0
  BY <1>2, <1>3, SubSeqProperties, m + 1 \in Int, n \in Int
<1>5. QED
  BY <1>2, <1>4

LEMMA BeginningFacts ==
  ASSUME NEW f \in Files, NEW n \in 0 .. Size(f)
  PROVE  /\ Beginning(f, n) \in Seq(Units) /\ Len(Beginning(f, n)) = n
         /\ Beginning(f, 0) = <<>>
         /\ Beginning(f, Size(f)) = Batch[f]
         /\ Beginning(f, n) = Batch[f] => n = Size(f)
<1>1. Batch[f] \in Seq(Units) /\ Size(f) \in Nat
  BY FileFacts
<1>2. Beginning(f, n) \in Seq(Units) /\ Len(Beginning(f, n)) = n
  <2>1. 0 \in 0 .. Size(f) /\ n \in 0 .. Size(f) /\ 0 + 1 = 1 /\ n - 0 = n
    BY <1>1
  <2>2. /\ SubSeq(Batch[f], 0 + 1, n) \in Seq(Units)
        /\ Len(SubSeq(Batch[f], 0 + 1, n)) = n - 0
    BY <2>1, PartFacts
  <2>3. QED
    BY <2>1, <2>2 DEF Beginning
<1>3. Beginning(f, 0) = <<>>
  BY SubSeqEmpty, 1 \in Int, 0 \in Int, 0 < 1 DEF Beginning
<1>4. Beginning(f, Size(f)) = Batch[f]
  BY <1>1, SubSeqFull DEF Beginning, Size
<1>5. Beginning(f, n) = Batch[f] => n = Size(f)
  BY <1>2 DEF Size
<1>6. QED
  BY <1>2, <1>3, <1>4, <1>5

LEMMA BeginningGrows ==
  ASSUME NEW f \in Files, NEW m \in 0 .. Size(f), NEW n \in m .. Size(f)
  PROVE  Beginning(f, m) \o SubSeq(Batch[f], m + 1, n) = Beginning(f, n)
<1>1. Batch[f] \in Seq(Units) /\ Size(f) = Len(Batch[f]) /\ Len(Batch[f]) \in Nat
  BY FileFacts DEF Size
<1>2. /\ 1 \in 1 .. Len(Batch[f]) + 1
      /\ m \in 1 - 1 .. Len(Batch[f]) /\ n \in m .. Len(Batch[f])
  BY <1>1
<1>3. SubSeq(Batch[f], 1, m) \o SubSeq(Batch[f], m + 1, n) = SubSeq(Batch[f], 1, n)
  BY <1>1, <1>2, ConcatAdjacentSubSeq
<1>4. QED
  BY <1>3 DEF Beginning

\* Nothing goes nowhere.
LEMMA TrackEmpty ==
  ASSUME NEW f \in Files, NEW from \in 0 .. Size(f), NEW to
  PROVE  Track(f, <<>>, from, to) <=> from = to
<1>1. Len(<<>>) = 0
  OBVIOUS
<1>2. Track(f, <<>>, from, to) => from = to
  BY <1>1 DEF Track
<1>3. ASSUME from = to PROVE Track(f, <<>>, from, to)
  <2> DEFINE at == [i \in 0 .. 0 |-> from]
  <2>1. /\ at \in [0 .. 0 -> 0 .. Size(f)]
        /\ at[0] = from /\ at[0] = to
        /\ \A i \in 1 .. 0 : Carries(f, <<>>[i], at[i - 1], at[i])
    BY <1>3
  <2> HIDE DEF at
  <2>2. QED
    BY <1>1, <2>1 DEF Track
<1>4. QED
  BY <1>2, <1>3

LEMMA TrackAppend ==
  ASSUME NEW S, NEW R \in Seq(S), NEW e \in S,
         NEW f \in Files, NEW from, NEW to, Track(f, R, from, to),
         NEW n \in 0 .. Size(f), Carries(f, e, to, n)
  PROVE  Track(f, Append(R, e), from, n)
<1> DEFINE k == Len(R)
           R2 == Append(R, e)
<1>1. PICK at \in [0 .. k -> 0 .. Size(f)] :
        /\ at[0] = from /\ at[k] = to
        /\ \A i \in 1 .. k : Carries(f, R[i], at[i - 1], at[i])
  BY DEF Track
<1>2. k \in Nat
  OBVIOUS
<1>3. Len(R2) = k + 1 /\ R2[k + 1] = e /\ \A i \in 1 .. k : R2[i] = R[i]
  BY AppendProperties
<1> DEFINE at2 == [i \in 0 .. k + 1 |-> IF i = k + 1 THEN n ELSE at[i]]
<1> HIDE DEF k, R2
<1>4. /\ at2 \in [0 .. k + 1 -> 0 .. Size(f)]
      /\ \A i \in 0 .. k : at2[i] = at[i]
      /\ at2[k + 1] = n
  <2>1. \A i \in 0 .. k + 1 : i = k + 1 \/ i \in 0 .. k
    BY <1>2
  <2>2. \A i \in 0 .. k : i # k + 1 /\ i \in 0 .. k + 1
    BY <1>2
  <2>3. k + 1 \in 0 .. k + 1
    BY <1>2
  <2>4. QED
    BY <1>1, <2>1, <2>2, <2>3
<1> HIDE DEF at2
<1>5. \A i \in 1 .. k + 1 : Carries(f, R2[i], at2[i - 1], at2[i])
  <2>1. SUFFICES ASSUME NEW i \in 1 .. k + 1
                 PROVE  Carries(f, R2[i], at2[i - 1], at2[i])
    OBVIOUS
  <2>2. CASE i = k + 1
    <3>1. i - 1 = k /\ k \in 0 .. k
      BY <1>2, <2>2
    <3>2. at2[i - 1] = to /\ at2[i] = n /\ R2[i] = e
      BY <1>1, <1>3, <1>4, <2>2, <3>1
    <3>3. QED
      BY <3>2
  <2>3. CASE i \in 1 .. k
    <3>1. i - 1 \in 0 .. k /\ i \in 0 .. k
      BY <1>2, <2>3
    <3>2. at2[i - 1] = at[i - 1] /\ at2[i] = at[i] /\ R2[i] = R[i]
      BY <1>3, <1>4, <2>3, <3>1
    <3>3. QED
      BY <1>1, <2>3, <3>2
  <2>4. i = k + 1 \/ i \in 1 .. k
    BY <1>2
  <2>5. QED
    BY <2>2, <2>3, <2>4
<1>6. 0 \in 0 .. k
  BY <1>2
<1>7. at2[0] = from
  BY <1>1, <1>4, <1>6
<1>8. QED
  BY <1>3, <1>4, <1>5, <1>7 DEF Track, R2

LEMMA TrackHead ==
  ASSUME NEW S, NEW R \in Seq(S), R # <<>>,
         NEW f \in Files, NEW from, NEW to, Track(f, R, from, to)
  PROVE  \E m \in 0 .. Size(f) :
           Carries(f, R[1], from, m) /\ Track(f, Tail(R), m, to)
<1> DEFINE k == Len(R)
<1>1. PICK at \in [0 .. k -> 0 .. Size(f)] :
        /\ at[0] = from /\ at[k] = to
        /\ \A i \in 1 .. k : Carries(f, R[i], at[i - 1], at[i])
  BY DEF Track
<1>2. /\ k \in Nat /\ k >= 1 /\ Len(Tail(R)) = k - 1
      /\ \A i \in 1 .. k - 1 : Tail(R)[i] = R[i + 1]
  BY TailFacts
<1> DEFINE at2 == [i \in 0 .. k - 1 |-> at[i + 1]]
<1> HIDE DEF k
<1>3. /\ at2 \in [0 .. k - 1 -> 0 .. Size(f)]
      /\ \A i \in 0 .. k - 1 : at2[i] = at[i + 1]
  <2>1. \A i \in 0 .. k - 1 : i + 1 \in 0 .. k
    BY <1>2
  <2>2. QED
    BY <1>1, <2>1
<1> HIDE DEF at2
<1>4. at2[0] = at[1] /\ at2[k - 1] = to
  <2>1. 0 \in 0 .. k - 1 /\ k - 1 \in 0 .. k - 1 /\ 0 + 1 = 1 /\ (k - 1) + 1 = k
    BY <1>2
  <2>2. QED
    BY <1>1, <1>3, <2>1
<1>5. \A i \in 1 .. k - 1 : Carries(f, Tail(R)[i], at2[i - 1], at2[i])
  <2>1. SUFFICES ASSUME NEW i \in 1 .. k - 1
                 PROVE  Carries(f, Tail(R)[i], at2[i - 1], at2[i])
    OBVIOUS
  <2>2. /\ i - 1 \in 0 .. k - 1 /\ i \in 0 .. k - 1 /\ (i - 1) + 1 = i
        /\ i + 1 \in 1 .. k /\ (i + 1) - 1 = i
    BY <1>2
  <2>3. Carries(f, R[i + 1], at[(i + 1) - 1], at[i + 1])
    BY <1>1, <2>2
  <2>4. at2[i - 1] = at[i] /\ at2[i] = at[i + 1]
    BY <1>3, <2>2
  <2>5. QED
    BY <1>2, <2>2, <2>3, <2>4
<1>6. Track(f, Tail(R), at[1], to)
  BY <1>2, <1>3, <1>4, <1>5 DEF Track
<1>7. Carries(f, R[1], from, at[1]) /\ at[1] \in 0 .. Size(f)
  <2>1. 1 \in 1 .. k /\ 1 \in 0 .. k /\ 1 - 1 = 0
    BY <1>2
  <2>2. QED
    BY <1>1, <2>1
<1>8. QED
  BY <1>6, <1>7

LEMMA TrackCons ==
  ASSUME NEW S, NEW R \in Seq(S), NEW e \in S,
         NEW f \in Files, NEW from \in 0 .. Size(f), NEW m, NEW to,
         Carries(f, e, from, m), Track(f, R, m, to)
  PROVE  Track(f, <<e>> \o R, from, to)
<1> DEFINE k == Len(R)
           R2 == <<e>> \o R
<1>1. PICK at \in [0 .. k -> 0 .. Size(f)] :
        /\ at[0] = m /\ at[k] = to
        /\ \A i \in 1 .. k : Carries(f, R[i], at[i - 1], at[i])
  BY DEF Track
<1>2. k \in Nat /\ Len(<<e>>) = 1 /\ <<e>> \in Seq(S) /\ <<e>>[1] = e
  OBVIOUS
<1>3. /\ Len(R2) = k + 1 /\ R2[1] = e
      /\ \A i \in 1 .. k : R2[i + 1] = R[i]
  <2>1. /\ Len(R2) = Len(<<e>>) + Len(R)
        /\ \A i \in 1 .. Len(<<e>>) : R2[i] = <<e>>[i]
        /\ \A i \in 1 .. Len(R) : R2[Len(<<e>>) + i] = R[i]
    BY <1>2, SpokenFacts
  <2> HIDE DEF R2
  <2>2. \A i \in 1 .. k : i + 1 = 1 + i
    BY <1>2
  <2>3. 1 \in 1 .. 1 /\ 1 + k = k + 1
    BY <1>2
  <2>4. QED
    BY <1>2, <2>1, <2>2, <2>3
<1> DEFINE at2 == [i \in 0 .. k + 1 |-> IF i = 0 THEN from ELSE at[i - 1]]
<1> HIDE DEF k, R2
<1>4. /\ at2 \in [0 .. k + 1 -> 0 .. Size(f)]
      /\ at2[0] = from
      /\ \A i \in 1 .. k + 1 : at2[i] = at[i - 1]
  <2>1. \A i \in 0 .. k + 1 : i = 0 \/ i - 1 \in 0 .. k
    BY <1>2
  <2>2. \A i \in 1 .. k + 1 : i # 0 /\ i \in 0 .. k + 1
    BY <1>2
  <2>3. 0 \in 0 .. k + 1
    BY <1>2
  <2>4. QED
    BY <1>1, <2>1, <2>2, <2>3
<1> HIDE DEF at2
<1>5. \A i \in 1 .. k + 1 : Carries(f, R2[i], at2[i - 1], at2[i])
  <2>1. SUFFICES ASSUME NEW i \in 1 .. k + 1
                 PROVE  Carries(f, R2[i], at2[i - 1], at2[i])
    OBVIOUS
  <2>2. CASE i = 1
    <3>1. 1 - 1 = 0 /\ 1 \in 1 .. k + 1
      BY <1>2
    <3>2. at2[i - 1] = from /\ at2[i] = m /\ R2[i] = e
      BY <1>1, <1>3, <1>4, <2>2, <3>1
    <3>3. QED
      BY <3>2
  <2>3. CASE i - 1 \in 1 .. k
    <3>1. i - 1 \in 1 .. k + 1 /\ (i - 1) + 1 = i
      BY <1>2, <2>3
    <3>2. at2[i - 1] = at[(i - 1) - 1] /\ at2[i] = at[i - 1] /\ R2[i] = R[i - 1]
      BY <1>3, <1>4, <2>3, <3>1
    <3>3. QED
      BY <1>1, <2>3, <3>2
  <2>4. i = 1 \/ i - 1 \in 1 .. k
    BY <1>2
  <2>5. QED
    BY <2>2, <2>3, <2>4
<1>6. at2[k + 1] = to
  <2>1. k + 1 \in 1 .. k + 1 /\ (k + 1) - 1 = k
    BY <1>2
  <2>2. QED
    BY <1>1, <1>4, <2>1
<1>7. QED
  BY <1>3, <1>4, <1>5, <1>6 DEF Track, R2

LEMMA TrackEnds ==
  ASSUME NEW S, NEW R \in Seq(S), NEW f \in Files, NEW from, NEW to,
         Track(f, R, from, to)
  PROVE  from \in 0 .. Size(f) /\ to \in 0 .. Size(f)
<1>1. Len(R) \in Nat
  OBVIOUS
<1>2. 0 \in 0 .. Len(R) /\ Len(R) \in 0 .. Len(R)
  BY <1>1
<1>3. QED
  BY <1>2 DEF Track

-----------------------------------------------------------------------------
(***************************************************************************)
(* The two programs, and what errors and timeouts do to them.              *)
(***************************************************************************)
LEMMA ConstantFacts ==
  /\ ErrorsMax \in Nat /\ ErrorsMax >= 1
  /\ TimeoutMax \in Nat /\ TimeoutMax >= 1
  /\ ReliableWindow \in Nat /\ UnreliableWindow \in Nat /\ BlockMax \in Nat
  /\ ReliableWindow >= 1 /\ UnreliableWindow >= 1
<1>1. {BlockMax, ReliableWindow, UnreliableWindow, TimeoutMax, ErrorsMax, SessionsMax}
        \subseteq Nat \ {0}
  BY ZmodemAssumption DEF ZmodemAssumption
<1>2. \A n \in Nat \ {0} : n >= 1
  OBVIOUS
<1>3. QED
  BY <1>1, <1>2

States == {"INIT", "COMPLETE", "ABORT", "ZDATA", "ZRINIT_WAIT", "ZCHALLENGE_WAIT",
           "ZRPOS", "ZRPOS_WAIT", "ZCRC_WAIT", "ZRQINIT_WAIT", "ZSINIT_WAIT",
           "ZFILE_WAIT", "ZEOF_WAIT", "ZFIN_WAIT"}
Priors == {"INIT", "ZRINIT_WAIT", "ZRPOS_WAIT", "ZCRC_WAIT", "ZSKIP", "ZFILE_WAIT"}
Types == {"ZFILE", "ZSINIT", "ZDATA"}
Junks == {"NO", "YES", "SHORT", "FULL"}
Xfers == {"RUN", "END", "ABORT", "ESC", "CRASH", "HANG"}
Errors == 0 .. ErrorsMax
Timeouts == 0 .. TimeoutMax
Values == {0, 1}

StatusOf(states, priors, types, junks, xfers, errors, timeouts, values) ==
  [state : states, prior : priors, file : Nat, version : Nat, pos : Nat,
   open : BOOLEAN, ackReq : BOOLEAN, waiting : BOOLEAN, streaming : BOOLEAN,
   acks : Nat, reliable : BOOLEAN, errors : errors, timeouts : timeouts,
   type : types, junk : junks, value : values, xfer : xfers]

LEMMA StatusIs ==
  Status = StatusOf(States, Priors, Types, Junks, Xfers, Errors, Timeouts, Values)
  BY Zenon DEF Status, StatusOf, States, Priors, Types, Junks, Xfers, Errors,
               Timeouts, Values

LEMMA Names1 ==
  /\ {"INIT", "COMPLETE", "ABORT", "ZDATA", "ZRINIT_WAIT", "ZCHALLENGE_WAIT",
      "ZRPOS", "ZRPOS_WAIT", "ZCRC_WAIT", "ZRQINIT_WAIT", "ZSINIT_WAIT",
      "ZFILE_WAIT", "ZEOF_WAIT", "ZFIN_WAIT"} \subseteq States
  /\ {"INIT", "ZRINIT_WAIT", "ZRPOS_WAIT", "ZCRC_WAIT", "ZSKIP", "ZFILE_WAIT"}
       \subseteq Priors
  /\ {"ZFILE", "ZSINIT", "ZDATA"} \subseteq Types
  /\ {"NO", "YES", "SHORT", "FULL"} \subseteq Junks
  /\ {"RUN", "END", "ABORT", "ESC", "CRASH", "HANG"} \subseteq Xfers
  BY DEF States, Priors, Types, Junks, Xfers

LEMMA FieldTypes ==
  ASSUME NEW x \in Status
  PROVE  /\ x.state \in States /\ x.prior \in Priors /\ x.type \in Types
         /\ x.junk \in Junks /\ x.xfer \in Xfers /\ x.value \in Values
         /\ x.errors \in Errors /\ x.timeouts \in Timeouts
         /\ x.file \in Nat /\ x.version \in Nat /\ x.pos \in Nat /\ x.acks \in Nat
         /\ x.open \in BOOLEAN /\ x.waiting \in BOOLEAN /\ x.streaming \in BOOLEAN
         /\ x.ackReq \in BOOLEAN
  BY StatusIs DEF StatusOf

LEMMA AliveIs ==
  \A x : x \in Alive <=> x \in Status /\ (Running(x) => x.timeouts < TimeoutMax)
  BY DEF Alive

\* What a step keeps of a program: all that the conversation is about, except
\* where it is in it.
Keeps(x, y) ==
  /\ y \in Status /\ y.timeouts = x.timeouts /\ y.prior = x.prior /\ y.file = x.file
  /\ y.version = x.version /\ y.pos = x.pos /\ y.waiting = x.waiting
  /\ y.streaming = x.streaming /\ y.type = x.type /\ y.junk = x.junk

\* What errors and timeouts leave of it.
Wearies(x, y) ==
  /\ y \in Alive
  /\ y.prior = x.prior /\ y.file = x.file /\ y.version = x.version /\ y.pos = x.pos
  /\ y.waiting = x.waiting /\ y.streaming = x.streaming
  /\ y.type = x.type /\ y.junk = x.junk
  /\ \/ Running(y) /\ y.state = x.state /\ y.open = x.open
     \/ ~Running(y) /\ y.state = "ABORT" /\ y.open = FALSE /\ y.xfer = "ABORT"

LEMMA EndedFacts ==
  ASSUME NEW x \in Status, NEW st \in States, NEW how \in Xfers
  PROVE  /\ Keeps(x, Ended(x, st, how))
         /\ Ended(x, st, how).xfer = how
         /\ Ended(x, st, how).state = st
         /\ Ended(x, st, how).open = FALSE
<1>1. Ended(x, st, how) \in Status
  BY StatusIs DEF Ended, StatusOf
<1>2. /\ Ended(x, st, how).xfer = how
      /\ Ended(x, st, how).state = st
      /\ Ended(x, st, how).open = FALSE
  BY StatusIs DEF Ended, StatusOf
<1>3. Keeps(x, Ended(x, st, how))
  BY <1>1, StatusIs DEF Ended, StatusOf, Keeps
<1>4. QED
  BY <1>2, <1>3

LEMMA StoppedFacts ==
  ASSUME NEW x \in Status
  PROVE  /\ Keeps(x, Stopped(x)) /\ Wearies(x, Stopped(x))
         /\ Stopped(x).xfer = "ABORT" /\ Stopped(x).state = "ABORT"
         /\ Stopped(x).open = FALSE
<1> DEFINE y == Stopped(x)
<1>1. /\ Keeps(x, y) /\ y.xfer = "ABORT" /\ y.state = "ABORT" /\ y.open = FALSE
  <2>1. "ABORT" \in States /\ "ABORT" \in Xfers
    BY Names1
  <2>2. QED
    BY <2>1, EndedFacts DEF Stopped
<1> HIDE DEF y
<1>2. Wearies(x, y)
  BY <1>1, AliveIs DEF Keeps, Wearies, Running
<1>3. QED
  BY <1>1, <1>2 DEF y

\* An error that is counted, in a program that may just have timed out.
LEMMA CountedFacts ==
  ASSUME NEW x \in Status, NEW n \in {1, 2}
  PROVE  LET y == Erred(x, n)
         IN  \/ /\ Keeps(x, y) /\ y.xfer = x.xfer /\ y.state = x.state /\ y.open = x.open
             \/ /\ Keeps(x, y) /\ y.xfer = "ABORT" /\ y.state = "ABORT" /\ y.open = FALSE
<1> DEFINE e == AtMost(ErrorsMax, x.errors + n)
           y == [x EXCEPT !.errors = e, !.reliable = FALSE]
<1>1. e \in Errors
  <2>1. x.errors \in 0 .. ErrorsMax
    BY FieldTypes DEF Errors
  <2>2. QED
    BY <2>1, ConstantFacts DEF AtMost, Errors
<1> HIDE DEF e
<1>2. Keeps(x, y) /\ y.xfer = x.xfer /\ y.state = x.state /\ y.open = x.open
  BY <1>1, StatusIs DEF StatusOf, Keeps
<1>3. Erred(x, n) = IF y.errors = ErrorsMax /\ y.state # "ZDATA" THEN Stopped(y) ELSE y
  BY DEF Erred, e
<1> HIDE DEF y
<1>4. Keeps(y, Stopped(y)) /\ Stopped(y).xfer = "ABORT" /\ Stopped(y).state = "ABORT"
      /\ Stopped(y).open = FALSE
  BY <1>2, StoppedFacts DEF Keeps
<1>5. Keeps(x, Stopped(y))
  BY <1>2, <1>4 DEF Keeps
<1>6. QED
  BY <1>2, <1>3, <1>4, <1>5

LEMMA ErredFacts ==
  ASSUME NEW x \in Alive, Running(x), NEW n \in {1, 2}
  PROVE  Wearies(x, Erred(x, n))
<1> DEFINE y == Erred(x, n)
<1>1. x \in Status /\ x.timeouts < TimeoutMax
  BY AliveIs
<1>2. \/ /\ Keeps(x, y) /\ y.xfer = x.xfer /\ y.state = x.state /\ y.open = x.open
      \/ /\ Keeps(x, y) /\ y.xfer = "ABORT" /\ y.state = "ABORT" /\ y.open = FALSE
  BY <1>1, CountedFacts
<1> HIDE DEF y
<1>3. Wearies(x, y)
  BY <1>1, <1>2, AliveIs DEF Keeps, Wearies, Running
<1>4. QED
  BY <1>3 DEF y

LEMMA TimedOutFacts ==
  ASSUME NEW x \in Alive, Running(x)
  PROVE  Wearies(x, TimedOut(x))
<1> DEFINE t == x.timeouts + 1
           u == [x EXCEPT !.timeouts = t]
           y == Erred(u, 1)
<1>1. x \in Status /\ x.timeouts < TimeoutMax
  BY AliveIs
<1>2. t \in Timeouts
  <2>1. x.timeouts \in 0 .. TimeoutMax
    BY <1>1, FieldTypes DEF Timeouts
  <2>2. QED
    BY <1>1, <2>1, ConstantFacts DEF Timeouts
<1>3. TimedOut(x) = IF y.timeouts >= TimeoutMax THEN Stopped(y) ELSE y
  BY DEF TimedOut
<1> HIDE DEF t
<1>4. /\ u \in Status /\ u.timeouts = t /\ u.prior = x.prior /\ u.file = x.file
      /\ u.version = x.version /\ u.pos = x.pos /\ u.waiting = x.waiting
      /\ u.streaming = x.streaming /\ u.type = x.type /\ u.junk = x.junk
      /\ u.xfer = x.xfer /\ u.state = x.state /\ u.open = x.open
  BY <1>1, <1>2, StatusIs DEF StatusOf
<1> HIDE DEF u
<1>5. \/ /\ Keeps(u, y) /\ y.xfer = u.xfer /\ y.state = u.state /\ y.open = u.open
      \/ /\ Keeps(u, y) /\ y.xfer = "ABORT" /\ y.state = "ABORT" /\ y.open = FALSE
  BY <1>4, CountedFacts
<1> HIDE DEF y
<1>6. Wearies(x, Stopped(y))
  <2>1. y \in Status
    BY <1>5 DEF Keeps
  <2>2. /\ Keeps(y, Stopped(y)) /\ Wearies(y, Stopped(y))
        /\ Stopped(y).xfer = "ABORT" /\ Stopped(y).state = "ABORT"
        /\ Stopped(y).open = FALSE
    BY <2>1, StoppedFacts
  <2>3. QED
    BY <1>4, <1>5, <2>2 DEF Keeps, Wearies, Running
<1>7. ~(y.timeouts >= TimeoutMax) => Wearies(x, y)
  <2>1. y.timeouts = t /\ t \in Nat /\ TimeoutMax \in Nat
    BY <1>2, <1>4, <1>5, ConstantFacts DEF Keeps, Timeouts
  <2>2. SUFFICES ASSUME y.timeouts < TimeoutMax PROVE Wearies(x, y)
    BY <2>1
  <2>3. QED
    BY <1>4, <1>5, <2>2, AliveIs DEF Keeps, Wearies, Running
<1>8. QED
  BY <1>3, <1>6, <1>7

-----------------------------------------------------------------------------
(***************************************************************************)
(* A step of the sender that takes the answer, or begins when all is quiet. *)
(***************************************************************************)
LEMMA KindFacts ==
  /\ \A e : e.kind \in Good => IsData(e)
  /\ \A e : e.kind \in {"ZRQINIT", "ZRINIT", "ZSINIT", "ZACK", "ZFILE", "ZSKIP", "ZNAK",
                        "ZFIN", "ZRPOS", "ZDATA", "ZEOF", "ZCRC", "ZCHALLENGE",
                        "GARBLED", "CUT"} => ~IsData(e)
  /\ \A e : e.kind \in DataKinds => IsData(e)
  BY DEF IsData, Good, DataKinds, SubpacketKinds

LEMMA DataPending ==
  ASSUME NEW s, NEW r, NEW e, IsData(e), NEW R
  PROVE  Pending(s, r, e, R)
  BY KindFacts DEF Pending

LEMMA LineFacts ==
  ASSUME NEW D \in Line
  PROVE  /\ D \in Seq(Heard) /\ Len(D) \in Nat
         /\ \A i \in 1 .. Len(D) : D[i] \in Heard
         /\ D = <<>> <=> Len(D) = 0
         /\ D # <<>> => Len(D) >= 1
<1>1. D \in Seq(Heard) /\ Len(D) \in Nat
  BY DEF Line
<1>2. \A i \in 1 .. Len(D) : D[i] \in Heard
  BY <1>1
<1>3. D = <<>> <=> Len(D) = 0
  BY <1>1, EmptySeq
<1>4. QED
  BY <1>1, <1>2, <1>3

LEMMA EmptyLine ==
  /\ <<>> \in Line /\ Len(<<>>) = 0
  /\ NoHeader(<<>>) /\ OneHeader(<<>>) /\ HeaderFirst(<<>>)
  BY DEF Line, NoHeader, OneHeader, HeaderFirst

\* Data, and behind them what the sender says: a header or none, and data.
LEMMA SpokenLine ==
  ASSUME NEW X \in Line, NoHeader(X), NEW out \in Line, HeaderFirst(out),
         NEW s, NEW r,
         r.state = "ZDATA" => X = <<>> /\ Collecting(s, r, out),
         out # <<>> => Pending(s, r, out[1], Tail(out))
  PROVE  LET D == X \o out
         IN  /\ D \in Line /\ OneHeader(D) /\ Downward(s, r, D)
             /\ r.state = "ZDATA" => HeaderFirst(D)
             /\ \A i \in 1 .. Len(D) : IsData(D[i]) \/ (out # <<>> /\ D[i] = out[1])
             /\ out # <<>> => \E i \in 1 .. Len(D) : D[i] = out[1]
<1> DEFINE D == X \o out
           n == Len(X)
           m == Len(out)
<1>1. /\ D \in Seq(Heard) /\ Len(D) = n + m
      /\ \A i \in 1 .. n : D[i] = X[i]
      /\ \A i \in 1 .. m : D[n + i] = out[i]
      /\ X = <<>> => D = out
      /\ out # <<>> => Behind(D, n + 1) = Tail(out)
  BY SpokenFacts, LineFacts
<1>2. n \in Nat /\ m \in Nat /\ (out # <<>> <=> m >= 1)
  BY LineFacts
<1>3. \A i \in 1 .. n : IsData(X[i])
  BY DEF NoHeader
<1>4. \A i \in 2 .. m : IsData(out[i])
  BY DEF HeaderFirst
<1> HIDE DEF D, n, m
<1>5. \A i \in 1 .. Len(D) :
         IsData(D[i]) \/ (m >= 1 /\ i = n + 1 /\ D[i] = out[1])
  <2>1. SUFFICES ASSUME NEW i \in 1 .. n + m
                 PROVE  IsData(D[i]) \/ (m >= 1 /\ i = n + 1 /\ D[i] = out[1])
    BY <1>1
  <2>2. CASE i \in 1 .. n
    BY <1>1, <1>3, <2>2
  <2>3. CASE i - n \in 1 .. m
    <3>1. n + (i - n) = i /\ (i - n = 1 \/ i - n \in 2 .. m) /\ m >= 1
      BY <1>2, <2>3
    <3>2. D[i] = out[i - n]
      BY <1>1, <2>3, <3>1
    <3>3. CASE i - n = 1
      <4>1. i = n + 1
        BY <1>2, <3>3
      <4>2. QED
        BY <3>1, <3>2, <3>3, <4>1
    <3>4. CASE i - n \in 2 .. m
      BY <1>4, <3>2, <3>4
    <3>5. QED
      BY <3>1, <3>3, <3>4
  <2>4. i \in 1 .. n \/ i - n \in 1 .. m
    BY <1>2
  <2>5. QED
    BY <2>2, <2>3, <2>4
<1>6. OneHeader(D)
  BY <1>5 DEF OneHeader
<1>7. \A h \in 1 .. Len(D) : Pending(s, r, D[h], Behind(D, h))
  <2>1. SUFFICES ASSUME NEW h \in 1 .. Len(D), ~IsData(D[h])
                 PROVE  Pending(s, r, D[h], Behind(D, h))
    BY DataPending
  <2>2. m >= 1 /\ h = n + 1 /\ D[h] = out[1]
    BY <1>5, <2>1
  <2>3. QED
    BY <1>1, <1>2, <2>2
<1>8. Collecting(s, r, D)
  BY <1>1 DEF Collecting
<1>9. r.state = "ZDATA" => HeaderFirst(D)
  BY <1>1
<1>10. \A i \in 1 .. Len(D) : IsData(D[i]) \/ (out # <<>> /\ D[i] = out[1])
  BY <1>2, <1>5
<1>11. out # <<>> => \E i \in 1 .. Len(D) : D[i] = out[1]
  <2>1. SUFFICES ASSUME out # <<>> PROVE \E i \in 1 .. Len(D) : D[i] = out[1]
    OBVIOUS
  <2>2. 1 \in 1 .. m /\ n + 1 \in 1 .. n + m
    BY <1>2, <2>1
  <2>3. D[n + 1] = out[1]
    BY <1>1, <2>2
  <2>4. QED
    BY <1>1, <2>2, <2>3
<1>12. QED
  BY <1>1, <1>6, <1>7, <1>8, <1>9, <1>10, <1>11 DEF D, Downward, Line

\* What the step leaves of the receiver's side: what is said fits where it is.
Fits(c, s, r, out, dsk, svd) ==
  /\ Running(s) => Stage(s, r, dsk, svd)
  /\ out # <<>> => Pending(s, r, out[1], Tail(out))
  /\ r.state = "ZDATA" => Collecting(s, r, out)
  /\ Comparing(c, s, r, out, <<>>)

Quietly(lefts) == \A left \in lefts : left = <<>>
Spoken(sents) == sents = {down} \/ sents = Sent(down)
Turn == Mute(rcv, down)

LEMMA SentLines ==
  ASSUME Typed, Conversation, Turn, NEW sents, Spoken(sents), NEW X \in sents
  PROVE  /\ X \in Line /\ NoHeader(X)
         /\ Running(rcv) /\ rcv.state \notin Hunting => X = <<>>
<1>1. down \in Line /\ Turns(snd, rcv, down, up)
  BY DEF Typed, Conversation, Conv
<1>2. Mute(rcv, down)
  BY DEF Turn
<1>3. NoHeader(down)
  BY <1>2, EmptyLine DEF Mute
<1>4. rcv.state \notin Hunting => down = <<>>
  BY <1>2 DEF Mute
<1>5. CASE X = down
  BY <1>1, <1>3, <1>4, <1>5
<1>6. CASE X \in Sent(down)
  BY <1>1, <1>3, <1>4, <1>6, SentFacts
<1>7. QED
  BY <1>5, <1>6 DEF Spoken

LEMMA SenderMoves ==
  ASSUME IInv, SenderUnchanged, Running(snd), Turn,
         NEW s2 \in Alive, NEW lefts, NEW sents, NEW out \in Line,
         Quietly(lefts), Spoken(sents), HeaderFirst(out),
         SenderStep(s2, lefts, sents, out),
         s2.state # "INIT", Sends(scenario, s2),
         Running(s2) /\ s2.state = "ZRPOS" /\ Running(rcv) =>
           rcv.state \in Hunting /\ NoHeader(out),
         Running(rcv) =>
           /\ s2.file = snd.file \/ rcv.state = "ZRINIT_WAIT"
           /\ Fits(scenario, s2, rcv, out, disk, saved),
         result' \in Seq({"OK", "SKIP"}), Logged(s2, result', disk, saved)
  PROVE  IInv'
<1>1. PICK X \in sents :
        /\ snd' = s2 /\ up' = <<>>
        /\ down' = IF Running(rcv) THEN X \o out ELSE <<>>
  BY DEF SenderStep, Quietly
<1>2. scenario' = scenario /\ rcv' = rcv /\ disk' = disk /\ saved' = saved
      /\ faults' = faults /\ session' = session
  BY DEF SenderUnchanged
<1>3. /\ Turns(snd, rcv, down, up) /\ Receives(snd, rcv, disk)
  BY DEF IInv, Conversation, Conv
<1>4. X \in Line /\ NoHeader(X) /\ (Running(rcv) /\ rcv.state \notin Hunting => X = <<>>)
  BY SentLines DEF IInv
<1>5. ASSUME Running(rcv)
      PROVE  /\ down' = X \o out /\ down' \in Line /\ OneHeader(down')
             /\ Downward(s2, rcv, down')
             /\ rcv.state = "ZDATA" => HeaderFirst(down')
             /\ \A i \in 1 .. Len(down') :
                  IsData(down'[i]) \/ (out # <<>> /\ down'[i] = out[1])
             /\ out # <<>> => \E i \in 1 .. Len(down') : down'[i] = out[1]
  <2>1. down' = X \o out
    BY <1>1, <1>5
  <2>2. "ZDATA" \notin Hunting
    BY DEF Hunting
  <2>3. rcv.state = "ZDATA" => X = <<>> /\ Collecting(s2, rcv, out)
    BY <1>4, <1>5, <2>2 DEF Fits
  <2>4. out # <<>> => Pending(s2, rcv, out[1], Tail(out))
    BY <1>5 DEF Fits
  <2>5. X \in Line /\ NoHeader(X)
    BY <1>4
  <2> DEFINE D == X \o out
  <2>6. /\ D \in Line /\ OneHeader(D) /\ Downward(s2, rcv, D)
        /\ rcv.state = "ZDATA" => HeaderFirst(D)
        /\ \A i \in 1 .. Len(D) : IsData(D[i]) \/ (out # <<>> /\ D[i] = out[1])
        /\ out # <<>> => \E i \in 1 .. Len(D) : D[i] = out[1]
    BY <2>3, <2>4, <2>5, SpokenLine
  <2> HIDE DEF D
  <2>7. QED
    BY <2>1, <2>6 DEF D
<1>6. ~Running(rcv) => down' = <<>> /\ down' \in Line /\ OneHeader(down')
  BY <1>1, EmptyLine
<1>7. down' \in Line /\ OneHeader(down')
  BY <1>5, <1>6
<1>8. Typed'
  BY <1>1, <1>2, <1>7, EmptyLine DEF IInv, Typed
<1>9. Turns(s2, rcv, down', <<>>)
  <2>1. ASSUME Running(s2), s2.state = "ZRPOS" PROVE Mute(rcv, down')
    <3>1. SUFFICES ASSUME Running(rcv) PROVE rcv.state \in Hunting /\ NoHeader(down')
      BY <1>6 DEF Mute
    <3>2. rcv.state \in Hunting /\ NoHeader(out)
      BY <2>1, <3>1
    <3>3. out # <<>> => 1 \in 1 .. Len(out)
      BY LineFacts
    <3>4. out # <<>> => IsData(out[1])
      BY <3>2, <3>3 DEF NoHeader
    <3>5. QED
      BY <1>5, <3>1, <3>2, <3>4 DEF NoHeader
  <2>2. QED
    BY <1>5, <1>6, <1>7, <2>1, EmptyLine DEF Turns
<1>10. Receives(s2, rcv, disk)
  <2>1. Running(rcv) => s2.file = snd.file \/ rcv.state = "ZRINIT_WAIT"
    OBVIOUS
  <2>2. QED
    BY <1>3, <2>1 DEF Receives, HasPart, Compares, Filing
<1>11. Downward(s2, rcv, down')
  BY <1>5 DEF Downward
<1>12. Comparing(scenario, s2, rcv, down', <<>>)
  <2>1. SUFFICES ASSUME ~HeadersFail(scenario), Running(rcv), rcv.state = "ZCRC_WAIT"
                 PROVE  /\ \A i \in 1 .. Len(down') : down'[i].kind # "ZFILE"
                        /\ Running(s2) => \E i \in 1 .. Len(down') : down'[i].kind = "ZCRC"
    BY DEF Comparing
  <2>2. Comparing(scenario, s2, rcv, out, <<>>)
    BY <2>1 DEF Fits
  <2>3. /\ \A i \in 1 .. Len(out) : out[i].kind # "ZFILE"
        /\ Running(s2) => \E i \in 1 .. Len(out) : out[i].kind = "ZCRC"
    BY <2>1, <2>2 DEF Comparing
  <2>4. /\ \A i \in 1 .. Len(down') :
             IsData(down'[i]) \/ (out # <<>> /\ down'[i] = out[1])
        /\ out # <<>> => \E i \in 1 .. Len(down') : down'[i] = out[1]
    BY <1>5, <2>1
  <2>5. /\ Len(out) \in Nat /\ (out = <<>> <=> Len(out) = 0)
        /\ out # <<>> => 1 \in 1 .. Len(out)
    BY LineFacts
  <2>6. \A i \in 1 .. Len(down') : down'[i].kind # "ZFILE"
    BY <2>3, <2>4, <2>5, KindFacts
  <2>7. ASSUME Running(s2) PROVE \E i \in 1 .. Len(down') : down'[i].kind = "ZCRC"
    <3>1. PICK i \in 1 .. Len(out) : out[i].kind = "ZCRC"
      BY <2>3, <2>7
    <3>2. i = 1 \/ i \in 2 .. Len(out)
      BY <2>5
    <3>3. i = 1 /\ out # <<>>
      BY <2>5, <3>1, <3>2, KindFacts DEF HeaderFirst
    <3>4. QED
      BY <2>4, <3>1, <3>3
  <2>8. QED
    BY <2>6, <2>7
<1>13. Conversation'
  <2>1. Running(s2) /\ Running(rcv) => Stage(s2, rcv, disk, saved)
    BY DEF Fits
  <2>2. Upward(s2, rcv, down', <<>>, disk, saved)
    BY DEF Upward
  <2>3. Conv(scenario, s2, rcv, down', <<>>, disk, saved)
    BY <1>9, <1>10, <1>11, <1>12, <2>1, <2>2 DEF Conv
  <2>4. QED
    BY <1>1, <1>2, <2>3 DEF Conversation
<1>14. Stored'
  BY <1>1, <1>2 DEF IInv, Stored
<1>15. QED
  BY <1>8, <1>13, <1>14 DEF IInv

-----------------------------------------------------------------------------
(***************************************************************************)
(* What the sender says.                                                   *)
(***************************************************************************)
HeaderKinds ==
  {"ZRQINIT", "ZRINIT", "ZSINIT", "ZACK", "ZFILE", "ZSKIP", "ZNAK", "ZFIN",
   "ZRPOS", "ZDATA", "ZEOF", "ZCRC", "ZCHALLENGE"}

LEMMA HeaderHeard ==
  ASSUME NEW kind \in HeaderKinds \cup {"GARBLED"} \cup DataKinds, NEW n \in Nat
  PROVE  /\ Header(kind, n) \in Heard
         /\ Header(kind, n).kind = kind /\ Header(kind, n).n = n
<1>1. <<>> \in Seq(Units) /\ kind # "CUT"
  BY DEF HeaderKinds, DataKinds, SubpacketKinds
<1>2. QED
  BY <1>1 DEF Header, Heard, Elements, HeaderKinds, UnreadableKinds

LEMMA PacketHeard ==
  ASSUME NEW kind \in Good \cup {"ZCRC"}, NEW n \in Nat, NEW units \in Seq(Units)
  PROVE  /\ Packet(kind, n, units) \in Heard
         /\ Packet(kind, n, units).kind = kind /\ Packet(kind, n, units).n = n
         /\ Packet(kind, n, units).data = units
<1>1. kind # "CUT" /\ kind \in HeaderKinds \cup DataKinds
  BY DEF HeaderKinds, DataKinds, SubpacketKinds, Good
<1>2. QED
  BY <1>1 DEF Packet, Heard, Elements, HeaderKinds, UnreadableKinds

LEMMA SubpacketHeard ==
  ASSUME NEW kind \in Good, NEW n \in Nat, NEW units \in Seq(Units)
  PROVE  /\ Packet(kind, n, units) \in Heard /\ IsData(Packet(kind, n, units))
         /\ Packet(kind, n, units).kind = kind /\ Packet(kind, n, units).n = n
         /\ Packet(kind, n, units).data = units
<1>1. kind \in Good \cup {"ZCRC"}
  OBVIOUS
<1> DEFINE p == Packet(kind, n, units)
<1>2. p \in Heard /\ p.kind = kind /\ p.n = n /\ p.data = units
  BY <1>1, PacketHeard
<1> HIDE DEF p
<1>3. IsData(p)
  BY <1>2, KindFacts
<1>4. QED
  BY <1>2, <1>3 DEF p

LEMMA ShortHeard ==
  Packet("SHORT", 0, <<>>) \in Heard /\ IsData(Packet("SHORT", 0, <<>>))
<1> DEFINE kind == "SHORT"
           units == <<>>
<1>1. kind \in DataKinds /\ kind # "CUT" /\ units \in Seq(Units)
  BY DEF DataKinds
<1> HIDE DEF kind, units
<1>2. Packet(kind, 0, units) \in Heard /\ IsData(Packet(kind, 0, units))
  BY <1>1 DEF Packet, Heard, Elements, IsData
<1>3. QED
  BY <1>2 DEF kind, units

LEMMA QuestionHeard ==
  ASSUME NEW n \in Nat
  PROVE  /\ Packet("ZCRCW", n, <<>>) \in Heard /\ IsData(Packet("ZCRCW", n, <<>>))
         /\ Packet("ZCRCW", n, <<>>).kind = "ZCRCW"
         /\ Packet("ZCRCW", n, <<>>).data = <<>>
<1> DEFINE kind == "ZCRCW"
           units == <<>>
<1>1. kind \in Good /\ units \in Seq(Units)
  BY DEF Good
<1> HIDE DEF kind, units
<1> DEFINE p == Packet(kind, n, units)
<1>2. p \in Heard /\ IsData(p) /\ p.kind = kind /\ p.data = units
  BY <1>1, SubpacketHeard
<1> HIDE DEF p
<1>3. QED
  BY <1>2 DEF p, kind, units

LEMMA CrcHeard ==
  ASSUME NEW units \in Seq(Units)
  PROVE  /\ Packet("ZCRC", 0, units) \in Heard
         /\ Packet("ZCRC", 0, units).kind = "ZCRC"
         /\ Packet("ZCRC", 0, units).data = units
<1> DEFINE kind == "ZCRC"
           n == 0
<1>1. kind \in Good \cup {"ZCRC"} /\ n \in Nat
  OBVIOUS
<1> HIDE DEF kind, n
<1> DEFINE p == Packet(kind, n, units)
<1>2. p \in Heard /\ p.kind = kind /\ p.data = units
  BY <1>1, PacketHeard
<1> HIDE DEF p
<1>3. QED
  BY <1>2 DEF p, kind, n

LEMMA OneSaid ==
  ASSUME NEW e \in Heard
  PROVE  /\ <<e>> \in Line /\ HeaderFirst(<<e>>) /\ <<e>> # <<>>
         /\ Len(<<e>>) = 1 /\ <<e>>[1] = e /\ Tail(<<e>>) = <<>>
         /\ Append(<<>>, e) = <<e>>
<1>1. <<e>> \in Seq(Heard) /\ Len(<<e>>) = 1 /\ <<e>>[1] = e /\ <<e>> # <<>>
  OBVIOUS
<1>2. Tail(<<e>>) = <<>>
  <2>1. Tail(<<e>>) \in Seq(Heard) /\ Len(Tail(<<e>>)) = 0
    BY <1>1, TailFacts
  <2>2. QED
    BY <2>1, EmptySeq
<1>3. HeaderFirst(<<e>>)
  BY <1>1 DEF HeaderFirst
<1>4. QED
  BY <1>1, <1>2, <1>3 DEF Line

LEMMA TwoSaid ==
  ASSUME NEW e \in Heard, NEW p \in Heard, IsData(p)
  PROVE  /\ <<e, p>> \in Line /\ HeaderFirst(<<e, p>>) /\ <<e, p>> # <<>>
         /\ Len(<<e, p>>) = 2 /\ <<e, p>>[1] = e /\ <<e, p>>[2] = p
         /\ Tail(<<e, p>>) = <<p>>
         /\ Append(<<e>>, p) = <<e, p>>
<1> DEFINE q == <<e, p>>
<1>1. q \in Seq(Heard) /\ Len(q) = 2 /\ q[1] = e /\ q[2] = p /\ q # <<>>
  OBVIOUS
<1>2. Tail(q) = <<p>>
  <2>1. /\ Tail(q) \in Seq(Heard) /\ Len(Tail(q)) = 1
        /\ \A i \in 1 .. 2 - 1 : Tail(q)[i] = q[i + 1]
    BY <1>1, TailFacts
  <2>2. Tail(q)[1] = p
    BY <1>1, <2>1
  <2> DEFINE t == Tail(q)
  <2> HIDE DEF t
  <2>3. t \in Seq(Heard) /\ Len(t) = 1 /\ t[1] = p
    BY <2>1, <2>2 DEF t
  <2>4. <<p>> \in Seq(Heard) /\ Len(<<p>>) = 1 /\ <<p>>[1] = p
    OBVIOUS
  <2>5. t = <<p>>
    BY <2>3, <2>4, SeqEqual
  <2>6. QED
    BY <2>5 DEF t
<1>3. HeaderFirst(q)
  BY <1>1 DEF HeaderFirst
<1>4. Append(<<e>>, p) = q
  <2> DEFINE s == <<e>>
             a == Append(s, p)
  <2>1. s \in Seq(Heard)
    OBVIOUS
  <2>0. Len(s) = 1 /\ s[1] = e
    OBVIOUS
  <2> HIDE DEF s
  <2>2. /\ a \in Seq(Heard) /\ Len(a) = Len(s) + 1
        /\ \A i \in 1 .. Len(s) : a[i] = s[i]
        /\ a[Len(s) + 1] = p
    BY <2>1, AppendProperties
  <2> HIDE DEF a, q
  <2>3. Len(a) = 2 /\ a[1] = e /\ a[2] = p
    BY <2>0, <2>1, <2>2
  <2>4. \A i \in 1 .. 2 : a[i] = q[i]
    BY <1>1, <2>3
  <2>5. a = q
    BY <1>1, <2>2, <2>3, <2>4, SeqEqual
  <2>6. QED
    BY <2>5 DEF a, s
<1>5. QED
  BY <1>1, <1>2, <1>3, <1>4 DEF Line

\* What the sender knows when it is its turn: what the receiver collects, it has sent.
LEMMA TurnFacts ==
  ASSUME IInv, Turn, Running(rcv), rcv.state = "ZDATA"
  PROVE  /\ down = <<>>
         /\ rcv.prior = "ZRPOS_WAIT" /\ rcv.junk = "NO" =>
              /\ rcv.file \in Files /\ rcv.pos \in 0 .. Size(rcv.file)
              /\ rcv.pos = snd.pos
<1>1. /\ Turns(snd, rcv, down, up) /\ Downward(snd, rcv, down)
      /\ Receives(snd, rcv, disk) /\ rcv \in Status
  BY AliveIs DEF IInv, Typed, Conversation, Conv
<1>2. "ZDATA" \notin Hunting
  BY DEF Hunting
<1>3. down = <<>>
  BY <1>2 DEF Turn, Mute
<1>4. ASSUME rcv.prior = "ZRPOS_WAIT", rcv.junk = "NO"
      PROVE  /\ rcv.file \in Files /\ rcv.pos \in 0 .. Size(rcv.file)
             /\ rcv.pos = snd.pos
  <2>1. Track(rcv.file, <<>>, rcv.pos, snd.pos)
    BY <1>1, <1>3, <1>4 DEF Downward, Collecting
  <2>2. rcv.file \in Files /\ rcv.pos <= Size(rcv.file)
    BY <1>1, <1>4 DEF Receives, Filing, HasPart
  <2>3. rcv.pos \in 0 .. Size(rcv.file)
    BY <1>1, <2>2, FieldTypes, FileFacts
  <2>4. QED
    BY <2>1, <2>2, <2>3, TrackEmpty
<1>5. QED
  BY <1>3, <1>4

\* A header that comes while data are collected is no data.
LEMMA HeaderCollected ==
  ASSUME IInv, Turn, Running(rcv), rcv.state = "ZDATA", NEW s2,
         s2.pos = snd.pos \/ s2.pos = rcv.pos,
         NEW out \in Line, out # <<>> => Len(out) = 1 /\ ~IsData(out[1])
  PROVE  Collecting(s2, rcv, out)
<1>1. SUFFICES ASSUME rcv.junk = "NO"
               PROVE  /\ rcv.prior = "ZRPOS_WAIT" =>
                           /\ Track(rcv.file, out, rcv.pos, s2.pos)
                           /\ AsksLast(s2, out)
                      /\ Names(s2, out)
  BY DEF Collecting
<1>2. \A i \in 1 .. Len(out) : out[i].kind \notin Good
  <2>1. SUFFICES ASSUME NEW i \in 1 .. Len(out) PROVE out[i].kind \notin Good
    OBVIOUS
  <2>2. out # <<>> /\ i = 1
    BY LineFacts
  <2>3. QED
    BY <2>2, KindFacts
<1>3. Names(s2, out) /\ AsksLast(s2, out)
  BY <1>2 DEF Names, AsksLast, Good
<1>4. ASSUME rcv.prior = "ZRPOS_WAIT" PROVE Track(rcv.file, out, rcv.pos, s2.pos)
  <2>1. /\ rcv.file \in Files /\ rcv.pos \in 0 .. Size(rcv.file)
        /\ s2.pos = rcv.pos
    BY <1>1, <1>4, TurnFacts
  <2>2. Track(rcv.file, <<>>, rcv.pos, s2.pos)
    BY <2>1, TrackEmpty
  <2>3. CASE out = <<>>
    BY <2>2, <2>3
  <2>4. CASE out # <<>>
    <3>1. out[1] \in Heard /\ out = <<out[1]>> \o Tail(out)
          /\ Tail(out) \in Seq(Heard) /\ Len(Tail(out)) = 0
      BY <2>4, LineFacts, TailFacts
    <3>2. Tail(out) = <<>>
      BY <3>1, EmptySeq
    <3>3. Carries(rcv.file, out[1], rcv.pos, rcv.pos)
      <4>1. out[1].kind \notin Good /\ rcv.pos \in Int
        BY <2>1, <2>4, KindFacts, FileFacts
      <4>2. QED
        BY <4>1 DEF Carries
    <3>4. <<>> \in Seq(Heard)
      OBVIOUS
    <3>5. Track(rcv.file, <<out[1]>> \o <<>>, rcv.pos, s2.pos)
      BY <2>1, <2>2, <3>1, <3>3, <3>4, TrackCons
    <3>6. QED
      BY <3>1, <3>2, <3>5
  <2>5. QED
    BY <2>3, <2>4
<1>5. QED
  BY <1>3, <1>4

LEMMA AnswerFacts ==
  ASSUME IInv, up # <<>>
  PROVE  /\ Len(up) = 1 /\ Head(up) = up[1] /\ up[1] \in Heard
         /\ up[1].n \in Nat
         /\ Answer(snd, rcv, down, disk, saved, up[1])
         /\ Quietly(SenderNext) /\ Quietly(SenderCleared) /\ Turn
<1>1. /\ up \in Line /\ Len(up) <= 1 /\ Upward(snd, rcv, down, up, disk, saved)
      /\ Mute(rcv, down)
  BY DEF IInv, Typed, Conversation, Conv, Turns
<1>2. up \in Seq(Heard) /\ Len(up) \in Nat /\ Len(up) >= 1
  BY <1>1, LineFacts
<1>3. Len(up) = 1
  <2>1. \A k \in Nat : k >= 1 /\ k <= 1 => k = 1
    OBVIOUS
  <2>2. QED
    BY <1>1, <1>2, <2>1
<1>4. /\ Head(up) = up[1] /\ up[1] \in Heard
      /\ Tail(up) \in Seq(Heard) /\ Len(Tail(up)) = 0
  BY <1>2, <1>3, TailFacts
<1>5. Tail(up) = <<>>
  BY <1>4, EmptySeq
<1>6. \A X \in Rests(Tail(up)) : X = <<>>
  BY <1>4, <1>5, RestsFacts
<1>7. up[1].n \in Nat
  BY <1>4 DEF Heard, Elements
<1>8. QED
  BY <1>1, <1>3, <1>4, <1>5, <1>6, <1>7
     DEF Upward, Quietly, SenderNext, SenderCleared, Turn

\* Without loss of headers, only a ZCRC ends a comparison.
LEMMA NotComparing ==
  ASSUME IInv, Turn, Running(snd), Running(rcv), ~HeadersFail(scenario),
         rcv.state = "ZCRC_WAIT"
  PROVE  up # <<>> /\ up[1].kind = "ZCRC"
<1>1. Turns(snd, rcv, down, up) /\ Comparing(scenario, snd, rcv, down, up)
  BY DEF IInv, Conversation, Conv
<1>2. NoHeader(down)
  BY EmptyLine DEF Turn, Mute
<1>3. \A i \in 1 .. Len(down) : down[i].kind # "ZCRC"
  BY <1>2, KindFacts DEF NoHeader
<1>4. QED
  BY <1>1, <1>3 DEF Comparing

\* The sender says a header, or nothing.
LEMMA SenderSays ==
  ASSUME IInv, SenderUnchanged, Running(snd), Turn, up # <<>> => up[1].kind # "ZCRC",
         NEW s2 \in Alive, NEW lefts, NEW sents, NEW out \in Line,
         Quietly(lefts), Spoken(sents), SenderStep(s2, lefts, sents, out),
         out # <<>> => /\ Len(out) = 1 /\ ~IsData(out[1])
                       /\ Running(rcv) => Pending(s2, rcv, out[1], <<>>),
         s2.state # "INIT", Running(s2) => s2.state # "ZRPOS", Sends(scenario, s2),
         s2.pos = snd.pos \/ s2.pos = rcv.pos,
         Running(rcv) => /\ s2.file = snd.file \/ rcv.state = "ZRINIT_WAIT"
                         /\ Running(s2) => Stage(s2, rcv, disk, saved),
         result' \in Seq({"OK", "SKIP"}), Logged(s2, result', disk, saved)
  PROVE  IInv'
<1>1. HeaderFirst(out)
  <2>1. Len(out) = 0 \/ Len(out) = 1
    BY LineFacts
  <2>2. \A k \in {0, 1} : \A i \in 2 .. k : FALSE
    OBVIOUS
  <2>3. QED
    BY <2>1, <2>2 DEF HeaderFirst
<1>2. out # <<>> => Tail(out) = <<>>
  <2>1. SUFFICES ASSUME out # <<>> PROVE Tail(out) = <<>>
    OBVIOUS
  <2>2. Tail(out) \in Seq(Heard) /\ Len(Tail(out)) = 0
    BY <2>1, LineFacts, TailFacts
  <2>3. QED
    BY <2>2, EmptySeq
<1>3. ASSUME Running(rcv) PROVE Fits(scenario, s2, rcv, out, disk, saved)
  <2>1. rcv.state = "ZDATA" => Collecting(s2, rcv, out)
    BY <1>3, HeaderCollected
  <2>2. Comparing(scenario, s2, rcv, out, <<>>)
    BY <1>3, NotComparing DEF Comparing
  <2>3. QED
    BY <1>2, <1>3, <2>1, <2>2 DEF Fits
<1>4. QED
  BY <1>1, <1>3, SenderMoves

LEMMA LoggedSame ==
  ASSUME IInv, UNCHANGED result, NEW s2, s2.file = snd.file
  PROVE  result' \in Seq({"OK", "SKIP"}) /\ Logged(s2, result', disk, saved)
  BY DEF IInv, Typed, Stored, Logged

LEMMA SenderEnds ==
  ASSUME IInv, SenderUnchanged, Running(snd), Turn, up # <<>> => up[1].kind # "ZCRC",
         NEW s2 \in Alive, NEW lefts, Quietly(lefts), Answers(s2, lefts, <<>>),
         ~Running(s2), s2.state # "INIT", s2.file = snd.file, s2.pos = snd.pos,
         UNCHANGED result
  PROVE  IInv'
<1>1. result' \in Seq({"OK", "SKIP"}) /\ Logged(s2, result', disk, saved)
  BY LoggedSame
<1>2. Sends(scenario, s2)
  BY DEF Sends
<1>3. <<>> \in Line /\ Spoken({down})
  BY EmptyLine DEF Spoken
<1>4. SenderStep(s2, lefts, {down}, <<>>)
  BY DEF Answers
<1>5. QED
  BY <1>1, <1>2, <1>3, <1>4, SenderSays

LEMMA Placed ==
  ASSUME NEW x \in Alive, NEW st \in States
  PROVE  LET y == [x EXCEPT !.state = st]
         IN  /\ Keeps(x, y) /\ y \in Alive
             /\ y.state = st /\ y.open = x.open /\ y.xfer = x.xfer
<1> DEFINE y == [x EXCEPT !.state = st]
<1>1. x \in Status
  BY AliveIs
<1>2. Keeps(x, y)
  BY <1>1, StatusIs DEF StatusOf, Keeps
<1>3. y.state = st /\ y.open = x.open /\ y.xfer = x.xfer
  BY <1>1, StatusIs DEF StatusOf
<1> HIDE DEF y
<1>4. y \in Alive
  BY <1>2, <1>3, AliveIs DEF Keeps, Running
<1>5. QED
  BY <1>2, <1>3, <1>4 DEF y

LEMMA Crashed ==
  ASSUME NEW x \in Alive
  PROVE  LET y == [x EXCEPT !.xfer = "CRASH"]
         IN  /\ Keeps(x, y) /\ y \in Alive
             /\ y.state = x.state /\ y.open = x.open /\ y.xfer = "CRASH"
<1> DEFINE y == [x EXCEPT !.xfer = "CRASH"]
<1>1. x \in Status /\ "CRASH" \in Xfers
  BY AliveIs, Names1
<1>2. Keeps(x, y)
  BY <1>1, StatusIs DEF StatusOf, Keeps
<1>3. y.xfer = "CRASH" /\ y.open = x.open /\ y.state = x.state
  BY <1>1, StatusIs DEF StatusOf
<1> HIDE DEF y
<1>4. y \in Alive
  BY <1>2, <1>3, AliveIs DEF Keeps, Running
<1>5. QED
  BY <1>2, <1>3, <1>4 DEF y

LEMMA SenderFacts ==
  ASSUME IInv, Running(snd)
  PROVE  /\ snd \in Alive /\ snd \in Status /\ Wearies(snd, snd)
         /\ Sends(scenario, snd)
         /\ Running(rcv) => Stage(snd, rcv, disk, saved)
         /\ Turns(snd, rcv, down, up) /\ Receives(snd, rcv, disk)
         /\ Downward(snd, rcv, down)
  BY AliveIs DEF IInv, Typed, Conversation, Conv, Wearies

LEMMA SendZrqinitMoves ==
  ASSUME IInv, SenderUnchanged, Running(snd), Turn, up # <<>> => up[1].kind # "ZCRC",
         NEW s, Wearies(snd, s), NEW lefts, Quietly(lefts), SendZrqinit(s, lefts),
         snd.state \in {"INIT", "ZRQINIT_WAIT"}, UNCHANGED result
  PROVE  IInv'
<1> DEFINE s2 == [s EXCEPT !.state = "ZRQINIT_WAIT"]
           e == Header("ZRQINIT", 0)
<1>1. s \in Alive /\ "ZRQINIT_WAIT" \in States
  BY Names1 DEF Wearies
<1>2. /\ Keeps(s, s2) /\ s2 \in Alive
      /\ s2.state = "ZRQINIT_WAIT" /\ s2.open = s.open /\ s2.xfer = s.xfer
  BY <1>1, Placed
<1>3. e \in Heard /\ e.kind = "ZRQINIT"
  BY HeaderHeard DEF HeaderKinds
<1>4. SenderStep(s2, lefts, {down}, <<e>>)
  BY DEF SendZrqinit, Answers
<1> HIDE DEF s2, e
<1>5. s2.file = snd.file /\ s2.pos = snd.pos
  BY <1>2 DEF Keeps, Wearies
<1>6. Pending(s2, rcv, e, <<>>)
  BY <1>2, <1>3 DEF Pending, SentIn
<1>7. Sends(scenario, s2)
  BY <1>2, <1>5, SenderFacts DEF Sends, Wearies, Running
<1>8. Running(rcv) => Stage(s2, rcv, disk, saved)
  BY <1>2, SenderFacts DEF Stage
<1>9. result' \in Seq({"OK", "SKIP"}) /\ Logged(s2, result', disk, saved)
  BY <1>5, LoggedSame
<1>10. <<e>> \in Line /\ Len(<<e>>) = 1 /\ <<e>>[1] = e /\ Spoken({down}) /\ ~IsData(e)
  BY <1>3, OneSaid, KindFacts DEF Spoken
<1> DEFINE out == <<e>>
<1> HIDE DEF out
<1>11. QED
  BY <1>2, <1>4, <1>5, <1>6, <1>7, <1>8, <1>9, <1>10, SenderSays DEF out

\* What is left of a sender that goes on with the file f.
Carrying(s, f) ==
  /\ s \in Alive /\ s.file = f /\ s.pos = snd.pos
  /\ s.state # "INIT"
  /\ \/ Running(s) /\ s.open = TRUE /\ f \in Files
     \/ ~Running(s) /\ s.open = FALSE /\ f = snd.file

LEMMA CarryingOn ==
  ASSUME IInv, Running(snd), snd.state \notin {"INIT", "ZFIN_WAIT"},
         NEW s, Wearies(snd, s)
  PROVE  Carrying(s, snd.file)
<1>1. Sends(scenario, snd)
  BY SenderFacts
<1>2. snd.open = TRUE /\ snd.file \in Files
  BY <1>1 DEF Sends
<1>3. QED
  BY <1>2 DEF Carrying, Wearies

LEMMA SendZfileMoves ==
  ASSUME IInv, SenderUnchanged, Running(snd), Turn, up # <<>> => up[1].kind # "ZCRC",
         NEW f, NEW s, Carrying(s, f), NEW lefts, Quietly(lefts), SendZfile(s, lefts),
         Running(rcv) =>
           /\ f = snd.file \/ rcv.state = "ZRINIT_WAIT"
           /\ \/ rcv.state \in {"ZRINIT_WAIT", "ZCRC_WAIT", "ZRPOS_WAIT"}
              \/ rcv.state = "ZDATA" /\ rcv.type = "ZFILE",
         result' \in Seq({"OK", "SKIP"}), Logged(s, result', disk, saved)
  PROVE  IInv'
<1>1. s \in Alive /\ "ZFILE_WAIT" \in States
  BY Names1 DEF Carrying
<1>2. CASE s.open
  <2> DEFINE s2 == [s EXCEPT !.state = "ZFILE_WAIT"]
             e == Header("ZFILE", 0)
             p == Packet("ZCRCW", s.file, <<>>)
             out == <<e, p>>
  <2>1. SenderStep(s2, lefts, {down}, out)
    BY <1>2 DEF SendZfile, Answers
  <2>2. /\ Keeps(s, s2) /\ s2 \in Alive
        /\ s2.state = "ZFILE_WAIT" /\ s2.open = s.open /\ s2.xfer = s.xfer
    BY <1>1, Placed
  <2>3. Running(s) /\ f \in Files /\ s.open = TRUE /\ s.file = f /\ f \in Nat
    <3>1. s \in Status
      BY <1>1, AliveIs
    <3>2. QED
      BY <1>2, <3>1, FieldTypes DEF Carrying
  <2>4. e \in Heard /\ e.kind = "ZFILE"
    BY HeaderHeard DEF HeaderKinds
  <2>5. p \in Heard /\ p.kind = "ZCRCW" /\ IsData(p)
    BY <2>3, QuestionHeard
  <2>6. p = NameOf(s2)
    BY <2>2 DEF NameOf, Keeps
  <2> HIDE DEF s2, e, p
  <2>7. /\ out \in Line /\ HeaderFirst(out) /\ out # <<>>
        /\ Len(out) = 2 /\ out[1] = e /\ out[2] = p /\ Tail(out) = <<p>>
    BY <2>4, <2>5, TwoSaid
  <2> HIDE DEF out
  <2>8. s2.file = f
    BY <2>2, <2>3 DEF Keeps
  <2>9. Names(s2, out) /\ Names(s2, <<p>>)
    <3>1. Names(s2, out)
      <4>1. \A i \in 1 .. 2 : i = 1 \/ i = 2
        OBVIOUS
      <4>2. e.kind \notin Good
        BY <2>4 DEF Good
      <4>3. QED
        BY <2>3, <2>6, <2>7, <2>8, <4>1, <4>2 DEF Names
    <3>2. \A i \in 1 .. Len(<<p>>) : <<p>>[i] = p
      OBVIOUS
    <3>3. QED
      BY <2>3, <2>6, <2>8, <3>1, <3>2 DEF Names
  <2>10. Pending(s2, rcv, e, <<p>>)
    BY <2>2, <2>4, <2>9 DEF Pending, SentIn
  <2>11. ASSUME Running(rcv)
         PROVE  /\ s2.file = snd.file \/ rcv.state = "ZRINIT_WAIT"
                /\ Fits(scenario, s2, rcv, out, disk, saved)
    <3>1. Stage(s2, rcv, disk, saved)
      BY <2>2, <2>11 DEF Stage
    <3>2. Receives(snd, rcv, disk)
      BY SenderFacts
    <3>3. rcv.state = "ZDATA" => Collecting(s2, rcv, out)
      <4>1. SUFFICES ASSUME rcv.state = "ZDATA" PROVE rcv.prior # "ZRPOS_WAIT"
        BY <2>9 DEF Collecting
      <4>2. rcv.type = "ZFILE"
        BY <2>11, <4>1
      <4>3. QED
        BY <2>11, <3>2, <4>1, <4>2 DEF Receives
    <3>4. Comparing(scenario, s2, rcv, out, <<>>)
      BY <2>11, NotComparing DEF Comparing
    <3>5. QED
      BY <2>7, <2>8, <2>10, <2>11, <3>1, <3>3, <3>4 DEF Fits
  <2>12. Sends(scenario, s2)
    BY <2>2, <2>3, <2>8 DEF Sends
  <2>13. Logged(s2, result', disk, saved)
    BY <2>3, <2>8 DEF Logged
  <2>14. Spoken({down})
    BY DEF Spoken
  <2>15. s2.state # "INIT" /\ s2.state # "ZRPOS"
    BY <2>2
  <2>16. QED
    BY <2>1, <2>2, <2>7, <2>11, <2>12, <2>13, <2>14, <2>15, SenderMoves
<1>3. CASE ~s.open
  <2> DEFINE s2 == [s EXCEPT !.xfer = "CRASH"]
  <2>1. SenderStep(s2, lefts, {down}, <<>>)
    BY <1>3 DEF SendZfile, Answers
  <2>2. /\ Keeps(s, s2) /\ s2 \in Alive
        /\ s2.state = s.state /\ s2.open = s.open /\ s2.xfer = "CRASH"
    BY <1>1, Crashed
  <2> HIDE DEF s2
  <2>3. s.file = snd.file /\ s.pos = snd.pos /\ s.state # "INIT"
    BY <1>3 DEF Carrying
  <2>4. /\ s2.file = s.file /\ s2.file = snd.file /\ s2.pos = snd.pos
        /\ ~Running(s2) /\ s2.state # "INIT"
    BY <2>2, <2>3 DEF Keeps, Running
  <2>5. Logged(s2, result', disk, saved)
    BY <2>4 DEF Logged
  <2>6. Sends(scenario, s2) /\ Spoken({down}) /\ <<>> \in Line
    BY <2>4, EmptyLine DEF Sends, Spoken
  <2>7. QED
    BY <2>1, <2>2, <2>4, <2>5, <2>6, SenderSays
<1>4. QED
  BY <1>2, <1>3

LEMMA SendZsinitMoves ==
  ASSUME IInv, SenderUnchanged, Running(snd), Turn, up # <<>> => up[1].kind # "ZCRC",
         NEW s, Wearies(snd, s), NEW lefts, Quietly(lefts), SendZsinit(s, lefts),
         \/ snd.state = "ZSINIT_WAIT"
         \/ snd.state = "ZRQINIT_WAIT" /\ (Running(rcv) => rcv.state = "ZRINIT_WAIT"),
         UNCHANGED result
  PROVE  IInv'
<1>1. s \in Alive /\ "ZSINIT_WAIT" \in States
  BY Names1 DEF Wearies
<1>2. Carrying(s, snd.file)
  BY CarryingOn
<1>3. result' \in Seq({"OK", "SKIP"}) /\ Logged(s, result', disk, saved)
  BY LoggedSame DEF Wearies
<1>4. Running(rcv) => Stage(snd, rcv, disk, saved)
  BY SenderFacts
<1>5. Receives(snd, rcv, disk) /\ Sends(scenario, snd)
  BY SenderFacts
<1>6. CASE ~scenario.zsinit
  <2>1. SendZfile(s, lefts)
    BY <1>6 DEF SendZsinit
  <2>2. scenario.zsinit # TRUE
    BY <1>6
  <2>3. snd.state # "ZSINIT_WAIT"
    BY <1>5, <2>2 DEF Sends
  <2>4. Running(rcv) => rcv.state = "ZRINIT_WAIT"
    BY <2>3
  <2>5. QED
    BY <1>2, <1>3, <2>1, <2>4, SendZfileMoves
<1>7. CASE scenario.zsinit
  <2> DEFINE s2 == [s EXCEPT !.state = "ZSINIT_WAIT"]
             e == Header("ZSINIT", 0)
             p == Packet("SHORT", 0, <<>>)
             out == <<e, p>>
  <2>1. SenderStep(s2, lefts, {down}, out)
    BY <1>7 DEF SendZsinit, Answers
  <2>2. /\ Keeps(s, s2) /\ s2 \in Alive
        /\ s2.state = "ZSINIT_WAIT" /\ s2.open = s.open /\ s2.xfer = s.xfer
    BY <1>1, Placed
  <2>3. e \in Heard /\ e.kind = "ZSINIT"
    BY HeaderHeard DEF HeaderKinds
  <2>4. p \in Heard /\ IsData(p)
    BY ShortHeard
  <2> HIDE DEF s2, e, p
  <2>5. /\ out \in Line /\ HeaderFirst(out) /\ out # <<>>
        /\ out[1] = e /\ Tail(out) = <<p>>
    BY <2>3, <2>4, TwoSaid
  <2> HIDE DEF out
  <2>6. s2.file = snd.file
    BY <2>2 DEF Keeps, Wearies
  <2>7. Pending(s2, rcv, e, <<p>>)
    BY <2>2, <2>3 DEF Pending, SentIn
  <2>8. ASSUME Running(rcv)
        PROVE  Fits(scenario, s2, rcv, out, disk, saved)
    <3>1. Stage(s2, rcv, disk, saved)
      BY <1>4, <2>2, <2>8 DEF Stage
    <3>2. rcv.state = "ZDATA" => Collecting(s2, rcv, out)
      <4>1. SUFFICES ASSUME rcv.state = "ZDATA"
                     PROVE  rcv.prior # "ZRPOS_WAIT" /\ rcv.type # "ZFILE"
        BY DEF Collecting
      <4>2. rcv.type = "ZSINIT"
        BY <1>4, <2>8, <4>1 DEF Stage
      <4>3. QED
        BY <1>5, <2>8, <4>1, <4>2 DEF Receives
    <3>3. Comparing(scenario, s2, rcv, out, <<>>)
      BY <2>8, NotComparing DEF Comparing
    <3>4. QED
      BY <2>5, <2>7, <2>8, <3>1, <3>2, <3>3 DEF Fits
  <2>9. Sends(scenario, s2)
    <3>1. scenario.zsinit = TRUE
      <4>1. scenario \in Scenarios
        BY DEF IInv, Typed
      <4>2. ScenarioOK(scenario)
        BY <4>1, ZmodemAssumption DEF ZmodemAssumption
      <4>3. scenario.zsinit \in BOOLEAN
        BY <4>2 DEF ScenarioOK
      <4>4. QED
        BY <1>7, <4>3
    <3>2. QED
      BY <1>2, <2>2, <2>6, <3>1 DEF Sends, Carrying, Running, Keeps
  <2>10. Logged(s2, result', disk, saved)
    BY <1>3, <2>2 DEF Logged, Keeps
  <2>11. Spoken({down})
    BY DEF Spoken
  <2>12. s2.state # "INIT" /\ s2.state # "ZRPOS"
    BY <2>2
  <2>13. QED
    BY <1>3, <2>1, <2>2, <2>5, <2>6, <2>8, <2>9, <2>10, <2>11, <2>12, SenderMoves
<1>8. QED
  BY <1>6, <1>7

LEMMA SendZeofMoves ==
  ASSUME IInv, SenderUnchanged, Running(snd), Turn, up # <<>> => up[1].kind # "ZCRC",
         snd.state \in {"ZDATA", "ZEOF_WAIT"},
         NEW s \in Alive, s.file = snd.file, s.pos = snd.pos \/ s.pos = rcv.pos,
         Running(s) => s.open = TRUE,
         NEW lefts, Quietly(lefts), SendZeof(s, lefts, {down}, <<>>),
         Running(rcv) => \/ Filing(rcv) /\ rcv.pos = Size(snd.file)
                         \/ /\ rcv.state = "ZRINIT_WAIT" /\ snd.state = "ZEOF_WAIT",
         UNCHANGED result
  PROVE  IInv'
<1> DEFINE s2 == [s EXCEPT !.state = "ZEOF_WAIT"]
           e == Header("ZEOF", Size(s.file))
<1>1. "ZEOF_WAIT" \in States
  BY Names1
<1>2. /\ Keeps(s, s2) /\ s2 \in Alive
      /\ s2.state = "ZEOF_WAIT" /\ s2.open = s.open /\ s2.xfer = s.xfer
  BY <1>1, Placed
<1>3. Sends(scenario, snd) /\ Receives(snd, rcv, disk)
      /\ (Running(rcv) => Stage(snd, rcv, disk, saved))
  BY SenderFacts
<1>4. snd.file \in Files /\ Size(s.file) \in Nat
  BY <1>3, FileFacts DEF Sends
<1>5. e \in Heard /\ e.kind = "ZEOF" /\ e.n = Size(s.file)
  BY <1>4, HeaderHeard DEF HeaderKinds
<1>6. SenderStep(s2, lefts, {down}, Append(<<>>, e))
  BY DEF SendZeof
<1> HIDE DEF s2, e
<1> DEFINE out == <<e>>
<1>7. /\ out \in Line /\ out # <<>> /\ Len(out) = 1 /\ out[1] = e /\ ~IsData(e)
      /\ Append(<<>>, e) = out
  BY <1>5, OneSaid, KindFacts
<1> HIDE DEF out
<1>8. s2.file = snd.file /\ (s2.pos = snd.pos \/ s2.pos = rcv.pos)
  BY <1>2 DEF Keeps
<1>9. Sends(scenario, s2)
  BY <1>2, <1>4, <1>8 DEF Sends, Running
<1>10. Running(rcv) => Stage(s2, rcv, disk, saved)
  BY <1>2, <1>3, <1>8 DEF Stage
<1>11. Running(rcv) => Pending(s2, rcv, e, <<>>)
  <2>1. SUFFICES ASSUME Running(rcv), rcv.state = "ZRPOS_WAIT"
                 PROVE  e.n = Size(rcv.file) /\ rcv.pos = Size(rcv.file)
    BY <1>2, <1>5 DEF Pending, SentIn
  <2>2. rcv.file = snd.file
    BY <1>3, <2>1 DEF Receives, HasPart, Filing
  <2>3. QED
    BY <1>5, <2>1, <2>2
<1>12. result' \in Seq({"OK", "SKIP"}) /\ Logged(s2, result', disk, saved)
  BY <1>8, LoggedSame
<1>13. Spoken({down}) /\ s2.state # "INIT" /\ s2.state # "ZRPOS"
  BY <1>2 DEF Spoken
<1>14. SenderStep(s2, lefts, {down}, out)
  BY <1>6, <1>7
<1>15. QED
  BY <1>2, <1>7, <1>8, <1>9, <1>10, <1>11, <1>12, <1>13, <1>14, SenderSays

LEMMA SendZfinMoves ==
  ASSUME IInv, SenderUnchanged, Running(snd), Turn, up # <<>> => up[1].kind # "ZCRC",
         NEW s \in Alive, s.file = Len(Batch) + 1, s.pos = snd.pos,
         NEW lefts, Quietly(lefts), SendZfin(s, lefts),
         Running(rcv) => rcv.state = "ZRINIT_WAIT",
         result' \in Seq({"OK", "SKIP"}), Logged(s, result', disk, saved)
  PROVE  IInv'
<1> DEFINE s2 == [s EXCEPT !.state = "ZFIN_WAIT"]
           e == Header("ZFIN", 0)
<1>1. "ZFIN_WAIT" \in States
  BY Names1
<1>2. /\ Keeps(s, s2) /\ s2 \in Alive
      /\ s2.state = "ZFIN_WAIT" /\ s2.open = s.open /\ s2.xfer = s.xfer
  BY <1>1, Placed
<1>3. e \in Heard /\ e.kind = "ZFIN"
  BY HeaderHeard DEF HeaderKinds
<1>4. SenderStep(s2, lefts, {down}, <<e>>)
  BY DEF SendZfin, Answers
<1> HIDE DEF s2, e
<1> DEFINE out == <<e>>
<1>5. out \in Line /\ out # <<>> /\ Len(out) = 1 /\ out[1] = e /\ ~IsData(e)
  BY <1>3, OneSaid, KindFacts
<1> HIDE DEF out
<1>6. s2.file = Len(Batch) + 1 /\ s2.pos = snd.pos
  BY <1>2 DEF Keeps
<1>7. Sends(scenario, s2)
  BY <1>2, <1>6 DEF Sends
<1>8. Running(rcv) => Stage(s2, rcv, disk, saved)
  BY <1>2 DEF Stage
<1>9. Pending(s2, rcv, e, <<>>)
  BY <1>2, <1>3, <1>6 DEF Pending, SentIn
<1>10. Logged(s2, result', disk, saved)
  BY <1>6 DEF Logged
<1>11. Spoken({down}) /\ s2.state # "INIT" /\ s2.state # "ZRPOS"
  BY <1>2 DEF Spoken
<1>12. SenderStep(s2, lefts, {down}, out)
  BY <1>4 DEF out
<1>13. QED
  BY <1>2, <1>5, <1>6, <1>7, <1>8, <1>9, <1>10, <1>11, <1>12, SenderSays

\* What the sender logs when a file has come to its end.
LEMMA LoggedMore ==
  ASSUME IInv, NEW how \in {"OK", "SKIP"}, result' = Append(result, how),
         IsWhole(snd.file, disk), how = "OK" => saved[snd.file] # <<>>,
         snd.file \in Files, NEW s, s.file = snd.file + 1
  PROVE  result' \in Seq({"OK", "SKIP"}) /\ Logged(s, result', disk, saved)
<1> DEFINE S == {"OK", "SKIP"}
           n == Len(result)
           res == Append(result, how)
<1> HIDE DEF S
<1>1. result \in Seq(S) /\ Logged(snd, result, disk, saved) /\ how \in S
  BY DEF IInv, Typed, Stored, S
<1>2. /\ res \in Seq(S) /\ Len(res) = n + 1
      /\ \A i \in 1 .. n : res[i] = result[i]
      /\ res[n + 1] = how
  BY <1>1, AppendProperties
<1>3. n \in Nat /\ n = snd.file - 1
  BY <1>1 DEF Logged
<1>4. Len(Batch) \in Nat /\ snd.file \in 1 .. Len(Batch)
  BY FileFacts
<1> HIDE DEF n, res
<1>5. s.file - 1 = n + 1 /\ n + 1 = snd.file /\ s.file \in 1 .. Len(Batch) + 1
  BY <1>3, <1>4
<1>6. \A f \in 1 .. n + 1 : IsWhole(f, disk) /\ (res[f] = "OK" => saved[f] # <<>>)
  <2>1. \A f \in 1 .. n : IsWhole(f, disk) /\ (result[f] = "OK" => saved[f] # <<>>)
    BY <1>1 DEF Logged, n
  <2>2. \A f \in 1 .. n + 1 : f \in 1 .. n \/ f = n + 1
    BY <1>3
  <2>3. IsWhole(n + 1, disk) /\ (res[n + 1] = "OK" => saved[n + 1] # <<>>)
    BY <1>2, <1>5
  <2>4. QED
    BY <1>2, <2>1, <2>2, <2>3
<1>7. Logged(s, res, disk, saved)
  BY <1>2, <1>5, <1>6 DEF Logged
<1>8. QED
  BY <1>2, <1>7 DEF res, S

LEMMA NextFileMoves ==
  ASSUME IInv, SenderUnchanged, Running(snd), Turn, up # <<>> => up[1].kind # "ZCRC",
         snd.state \in {"ZFILE_WAIT", "ZEOF_WAIT"},
         NEW how \in {"OK", "SKIP"}, result' = Append(result, how),
         IsWhole(snd.file, disk), how = "OK" => saved[snd.file] # <<>>,
         Running(rcv) => rcv.state = "ZRINIT_WAIT",
         NEW lefts, Quietly(lefts), NextFile(snd, lefts)
  PROVE  IInv'
<1>1. snd \in Alive /\ snd \in Status /\ Sends(scenario, snd)
  BY SenderFacts
<1>2. /\ snd.open = TRUE /\ snd.file \in Files
      /\ snd.file \in 1 .. Len(Batch) /\ Len(Batch) \in Nat
  BY <1>1, FileFacts DEF Sends
<1>3. CASE snd.file < Len(Batch)
  <2> DEFINE s == [snd EXCEPT !.file = @ + 1]
             g == snd.file + 1
  <2>1. SendZfile(s, lefts)
    BY <1>3 DEF NextFile
  <2>2. g \in Files /\ g \in Nat
    BY <1>2, <1>3, FileFacts
  <2>3. s = [snd EXCEPT !.file = g]
    BY <1>1, StatusIs DEF StatusOf
  <2> HIDE DEF g
  <2>4. /\ s \in Status /\ s.file = g /\ s.pos = snd.pos /\ s.state = snd.state
        /\ s.xfer = snd.xfer /\ s.open = snd.open /\ s.timeouts = snd.timeouts
    BY <1>1, <2>2, <2>3, StatusIs DEF StatusOf
  <2> HIDE DEF s
  <2>5. s \in Alive
    BY <1>1, <2>4, AliveIs DEF Running
  <2>6. Carrying(s, g)
    BY <1>2, <2>2, <2>4, <2>5 DEF Carrying, Running
  <2>7. result' \in Seq({"OK", "SKIP"}) /\ Logged(s, result', disk, saved)
    BY <1>2, <2>4, LoggedMore DEF g
  <2>8. QED
    BY <2>1, <2>6, <2>7, SendZfileMoves
<1>4. CASE ~(snd.file < Len(Batch))
  <2> DEFINE s == [snd EXCEPT !.file = @ + 1, !.open = FALSE]
             g == snd.file + 1
  <2>1. SendZfin(s, lefts)
    BY <1>4 DEF NextFile
  <2>2. g = Len(Batch) + 1 /\ g \in Nat
    BY <1>2, <1>4
  <2>3. s = [snd EXCEPT !.file = g, !.open = FALSE]
    BY <1>1, StatusIs DEF StatusOf
  <2> HIDE DEF g
  <2>4. /\ s \in Status /\ s.file = g /\ s.pos = snd.pos
        /\ s.xfer = snd.xfer /\ s.timeouts = snd.timeouts
    BY <1>1, <2>2, <2>3, StatusIs DEF StatusOf
  <2> HIDE DEF s
  <2>5. s \in Alive
    BY <1>1, <2>4, AliveIs DEF Running
  <2>6. result' \in Seq({"OK", "SKIP"}) /\ Logged(s, result', disk, saved)
    BY <1>2, <2>4, LoggedMore DEF g
  <2>7. s.file = Len(Batch) + 1
    BY <2>2, <2>4
  <2>8. QED
    BY <2>1, <2>4, <2>5, <2>6, <2>7, SendZfinMoves
<1>5. QED
  BY <1>3, <1>4

-----------------------------------------------------------------------------
(***************************************************************************)
(* The sender sends a block.                                               *)
(***************************************************************************)

\* A block carries the file on.
Block(s, u, p) ==
  /\ u \in Alive /\ u.file = s.file /\ u.state = s.state /\ u.open = s.open
  /\ u.xfer = s.xfer
  /\ u.pos \in s.pos .. Size(s.file)
  /\ p \in Heard /\ IsData(p) /\ p.kind \in Good
  /\ Carries(s.file, p, s.pos, u.pos)
  /\ p.kind \in {"ZCRCQ", "ZCRCW"} => u.waiting = TRUE
  /\ p.kind = "ZCRCQ" => u.streaming = TRUE

LEMMA BlockFacts ==
  ASSUME NEW s \in Alive, s.file \in Files, s.pos \in 0 .. Size(s.file),
         NEW lefts, NEW sents, NEW out, SendBlock(s, lefts, sents, out)
  PROVE  \E u, p : Block(s, u, p) /\ SenderStep(u, lefts, sents, Append(out, p))
<1>1. s \in Status /\ (Running(s) => s.timeouts < TimeoutMax)
  BY AliveIs
<1>2. Size(s.file) = Len(Batch[s.file]) /\ Size(s.file) \in Nat /\ s.pos \in Nat
  BY FileFacts DEF Size
<1> DEFINE size == Size(s.file)
           window == IF s.reliable THEN ReliableWindow ELSE UnreliableWindow
<1>3. PICK b \in 1 .. BlockMax :
        LET n == AtMost(size - s.pos, b)
            t == [s EXCEPT !.pos = @ + n, !.errors = 0]
            block == SubSeq(Batch[s.file], s.pos + 1, s.pos + n)
            Puts(u, kind) ==
              SenderStep(u, lefts, sents, Append(out, Packet(kind, 0, block)))
        IN \/ Puts([t EXCEPT !.waiting = TRUE], "ZCRCW")
           \/ Puts([t EXCEPT !.waiting = TRUE, !.streaming = TRUE, !.acks = window],
                    "ZCRCQ")
           \/ s.acks > 1 /\ Puts([t EXCEPT !.acks = @ - 1], "ZCRCG")
  BY <1>2 DEF SendBlock, size
<1> DEFINE n == AtMost(size - s.pos, b)
           to == s.pos + n
           t == [s EXCEPT !.pos = to, !.errors = 0]
           block == SubSeq(Batch[s.file], s.pos + 1, to)
<1>4. to \in Nat /\ to \in s.pos .. size /\ 0 \in Errors
  <2>1. BlockMax \in Nat /\ b \in Nat /\ s.pos <= size
    BY <1>2, ConstantFacts
  <2>2. QED
    BY <1>2, <2>1, ConstantFacts DEF AtMost, Errors
<1>5. block \in Seq(Units) /\ 0 \in Nat /\ size \in Nat /\ s.pos \in Nat
  BY <1>2, <1>4, PartFacts
<1>6. window \in Nat /\ s.acks \in Nat
  BY <1>1, ConstantFacts, FieldTypes
<1>7. t = [s EXCEPT !.pos = @ + n, !.errors = 0]
  BY <1>1, StatusIs DEF StatusOf
<1> HIDE DEF window
<1> DEFINE acks == s.acks - 1
           u1 == [t EXCEPT !.waiting = TRUE]
           u2 == [t EXCEPT !.waiting = TRUE, !.streaming = TRUE, !.acks = window]
           u3 == [t EXCEPT !.acks = acks]
           P(kind) == Packet(kind, 0, block)
<1>8. t.acks = s.acks
  BY <1>1, StatusIs DEF StatusOf
<1>9. \/ SenderStep(u1, lefts, sents, Append(out, P("ZCRCW")))
      \/ SenderStep(u2, lefts, sents, Append(out, P("ZCRCQ")))
      \/ s.acks > 1 /\ SenderStep(u3, lefts, sents, Append(out, P("ZCRCG")))
  <2>1. t \in Status
    <3> HIDE DEF to
    <3>1. QED
      BY <1>1, <1>4, StatusIs DEF StatusOf
  <2>2. [t EXCEPT !.acks = @ - 1] = u3
    <3> HIDE DEF t
    <3>1. QED
      BY <1>8, <2>1, StatusIs DEF StatusOf
  <2>3. QED
    BY <1>3, <1>7, <2>2
<1> HIDE DEF to, block, acks, size
<1>10. /\ t \in Status /\ t.file = s.file /\ t.state = s.state /\ t.open = s.open
       /\ t.xfer = s.xfer /\ t.timeouts = s.timeouts /\ t.pos = to
  BY <1>1, <1>4, StatusIs DEF StatusOf
<1> HIDE DEF t
<1> DEFINE Same(u) == /\ u \in Status /\ u.file = t.file /\ u.state = t.state
                      /\ u.open = t.open /\ u.xfer = t.xfer
                      /\ u.timeouts = t.timeouts /\ u.pos = t.pos
<1>11. Same(u1) /\ u1.waiting = TRUE
  BY <1>10, StatusIs DEF StatusOf
<1>12. Same(u2) /\ u2.waiting = TRUE /\ u2.streaming = TRUE
  BY <1>6, <1>10, StatusIs DEF StatusOf
<1>13. s.acks > 1 => Same(u3)
  <2>1. SUFFICES ASSUME s.acks > 1 PROVE Same(u3)
    OBVIOUS
  <2>2. acks \in Nat
    BY <1>6, <2>1 DEF acks
  <2>3. QED
    BY <1>10, <2>2, StatusIs DEF StatusOf
<1> HIDE DEF u1, u2, u3
<1>14. ASSUME NEW u, Same(u), NEW kind \in Good,
              kind \in {"ZCRCQ", "ZCRCW"} => u.waiting = TRUE,
              kind = "ZCRCQ" => u.streaming = TRUE
       PROVE  Block(s, u, P(kind))
  <2>1. P(kind) \in Heard /\ IsData(P(kind)) /\ P(kind).kind = kind /\ P(kind).data = block
    BY <1>5, <1>14, SubpacketHeard
  <2> DEFINE p == P(kind)
  <2> HIDE DEF p
  <2>2. p \in Heard /\ IsData(p) /\ p.kind = kind /\ p.data = block
    BY <2>1 DEF p
  <2>3. u.pos = to /\ u.file = s.file /\ u.state = s.state /\ u.open = s.open
        /\ u.xfer = s.xfer /\ u \in Alive
    BY <1>1, <1>10, <1>14, AliveIs DEF Running
  <2>4. Carries(s.file, p, s.pos, to)
    BY <1>4, <2>2 DEF Carries, block
  <2>5. Block(s, u, p)
    BY <1>4, <1>14, <2>2, <2>3, <2>4 DEF Block, size
  <2>6. QED
    BY <2>5 DEF p
<1> HIDE DEF P, Same
<1>15. {"ZCRCW", "ZCRCQ", "ZCRCG"} \subseteq Good
  BY DEF Good
<1>16. CASE SenderStep(u1, lefts, sents, Append(out, P("ZCRCW")))
  <2>1. Block(s, u1, P("ZCRCW"))
    BY <1>11, <1>14, <1>15
  <2>2. QED
    BY <1>16, <2>1
<1>17. CASE SenderStep(u2, lefts, sents, Append(out, P("ZCRCQ")))
  <2>1. Block(s, u2, P("ZCRCQ"))
    BY <1>12, <1>14, <1>15
  <2>2. QED
    BY <1>17, <2>1
<1>18. CASE s.acks > 1 /\ SenderStep(u3, lefts, sents, Append(out, P("ZCRCG")))
  <2>1. Block(s, u3, P("ZCRCG"))
    BY <1>13, <1>14, <1>15, <1>18
  <2>2. QED
    BY <1>18, <2>1
<1>19. QED
  BY <1>9, <1>16, <1>17, <1>18

\* One subpacket takes the receiver on.
LEMMA OneTrack ==
  ASSUME NEW p \in Heard, NEW f \in Files, NEW from \in 0 .. Size(f),
         NEW to \in 0 .. Size(f), Carries(f, p, from, to)
  PROVE  Track(f, <<p>>, from, to)
<1>1. <<>> \in Seq(Heard)
  OBVIOUS
<1>2. Track(f, <<>>, to, to)
  BY TrackEmpty
<1>3. Track(f, <<p>> \o <<>>, from, to)
  BY <1>1, <1>2, TrackCons
<1>4. <<p>> \in Seq(Heard)
  OBVIOUS
<1>5. <<p>> \o <<>> = <<p>>
  BY <1>4, ConcatEmptySeq
<1>6. QED
  BY <1>3, <1>5

\* A subpacket, or a header ZDATA and a subpacket.
LEMMA SendsData ==
  ASSUME IInv, SenderUnchanged, Running(snd), Turn, up # <<>> => up[1].kind # "ZCRC",
         UNCHANGED result, snd.state = "ZDATA",
         NEW u \in Alive, u.file = snd.file, Running(u) => u.open = TRUE,
         u.state # "INIT", u.state \in {"ZDATA", "ZRPOS"} \/ ~Running(u),
         NEW from \in 0 .. Size(snd.file), u.pos \in from .. Size(snd.file),
         NEW p \in Heard, IsData(p), p.kind \in Good, Carries(snd.file, p, from, u.pos),
         Running(u) /\ p.kind \in {"ZCRCQ", "ZCRCW"} =>
           (u.state = "ZDATA" /\ u.waiting = TRUE) \/ u.state = "ZRPOS",
         Running(u) /\ p.kind = "ZCRCQ" => u.streaming = TRUE,
         NEW head \in Line,
         \/ head = <<>>
         \/ \E e \in Heard : head = <<e>> /\ e.kind = "ZDATA",
         head # <<>> =>
           u.state = "ZDATA" /\ (Running(rcv) => rcv.state = "ZRPOS_WAIT"),
         Running(rcv) => \/ from = rcv.pos
                         \/ head = <<>> /\ (rcv.state = "ZRPOS_WAIT" \/ rcv.junk # "NO"),
         Running(rcv) /\ u.state = "ZRPOS" => rcv.state \in Hunting,
         NEW lefts, Quietly(lefts), NEW sents, Spoken(sents),
         SenderStep(u, lefts, sents, Append(head, p))
  PROVE  IInv'
<1> DEFINE out == Append(head, p)
<1>1. /\ Sends(scenario, snd) /\ Receives(snd, rcv, disk)
      /\ (Running(rcv) => Stage(snd, rcv, disk, saved))
  BY SenderFacts
<1>2. snd.file \in Files /\ Size(snd.file) \in Nat
  BY <1>1, FileFacts DEF Sends
<1>3. Running(rcv) => Filing(rcv) /\ rcv.file = snd.file
  BY <1>1 DEF Stage, Receives, HasPart
<1>4. u.pos \in 0 .. Size(snd.file)
  BY <1>2
<1>5. \/ head = <<>> /\ out = <<p>>
      \/ \E e \in Heard : e.kind = "ZDATA" /\ ~IsData(e) /\ head # <<>> /\ out = <<e, p>>
  <2>1. CASE head = <<>>
    BY <2>1, OneSaid
  <2>2. CASE head # <<>>
    <3>1. PICK e \in Heard : head = <<e>> /\ e.kind = "ZDATA"
      BY <2>2
    <3>2. ~IsData(e)
      BY <3>1, KindFacts
    <3>3. out = <<e, p>>
      BY <3>1, TwoSaid
    <3>4. QED
      BY <2>2, <3>1, <3>2, <3>3
  <2>3. QED
    BY <2>1, <2>2
<1>6. SenderStep(u, lefts, sents, out)
  OBVIOUS
<1> HIDE DEF out
<1>7. /\ out \in Line /\ HeaderFirst(out) /\ out # <<>>
      /\ head = <<>> => out[1] = p
      /\ head # <<>> => out[1].kind = "ZDATA" /\ Tail(out) = <<p>>
  <2>1. CASE head = <<>>
    BY <1>5, <2>1, OneSaid
  <2>2. CASE head # <<>>
    <3>1. PICK e \in Heard : e.kind = "ZDATA" /\ out = <<e, p>>
      BY <1>5, <2>2
    <3>2. out \in Line /\ HeaderFirst(out) /\ out # <<>> /\ out[1] = e /\ Tail(out) = <<p>>
      BY <3>1, TwoSaid
    <3>3. QED
      BY <2>2, <3>1, <3>2
  <2>3. QED
    BY <2>1, <2>2
<1>8. Track(snd.file, <<p>>, from, u.pos)
  BY <1>2, <1>4, OneTrack
<1>9. u.state = "ZDATA" \/ ~Running(u) => AsksLast(u, <<p>>)
  <2>1. Len(<<p>>) = 1 /\ <<p>>[1] = p /\ \A i \in 1 .. 1 : i = 1
    OBVIOUS
  <2> DEFINE R == <<p>>
  <2> HIDE DEF R
  <2>2. Len(R) = 1 /\ R[1] = p /\ \A i \in 1 .. 1 : i = 1
    BY <2>1 DEF R
  <2>3. u.state = "ZDATA" \/ ~Running(u) => AsksLast(u, R)
    BY <2>2 DEF AsksLast
  <2>4. QED
    BY <2>3 DEF R
<1>10. ASSUME Running(rcv) PROVE Fits(scenario, u, rcv, out, disk, saved)
  <2>1. Running(u) => Stage(u, rcv, disk, saved)
    BY <1>3, <1>10 DEF Stage
  <2>2. Pending(u, rcv, out[1], Tail(out))
    <3>1. CASE head = <<>>
      BY <1>7, <3>1, DataPending
    <3>2. CASE head # <<>>
      <4>1. /\ u.state = "ZDATA" /\ rcv.state = "ZRPOS_WAIT" /\ from = rcv.pos
            /\ rcv.file = snd.file
        BY <1>3, <1>10, <3>2
      <4>2. QED
        BY <1>7, <1>8, <1>9, <3>2, <4>1 DEF Pending, SentIn
    <3>3. QED
      BY <3>1, <3>2
  <2>3. rcv.state = "ZDATA" => Collecting(u, rcv, out)
    <3>1. SUFFICES ASSUME rcv.state = "ZDATA", rcv.junk = "NO"
                   PROVE  Collecting(u, rcv, out)
      BY DEF Collecting
    <3>2. rcv.prior = "ZRPOS_WAIT" /\ rcv.file = snd.file /\ rcv.state \notin Hunting
      BY <1>3, <1>10, <3>1 DEF Filing, Hunting
    <3>3. head = <<>> /\ from = rcv.pos
      BY <1>10, <3>1
    <3>4. (u.state = "ZDATA" \/ ~Running(u)) /\ out = <<p>>
      BY <1>5, <1>10, <3>2, <3>3
    <3>5. QED
      BY <1>8, <1>9, <3>2, <3>3, <3>4 DEF Collecting
  <2>4. Comparing(scenario, u, rcv, out, <<>>)
    BY <1>3, <1>10 DEF Comparing, Filing
  <2>5. QED
    BY <2>1, <2>2, <2>3, <2>4 DEF Fits
<1>11. Sends(scenario, u)
  BY <1>2, <1>4 DEF Sends
<1>12. result' \in Seq({"OK", "SKIP"}) /\ Logged(u, result', disk, saved)
  BY LoggedSame
<1>13. Running(u) /\ u.state = "ZRPOS" /\ Running(rcv) =>
         rcv.state \in Hunting /\ NoHeader(out)
  <2>1. SUFFICES ASSUME u.state = "ZRPOS" PROVE NoHeader(out)
    OBVIOUS
  <2>2. out = <<p>>
    BY <1>5, <2>1
  <2>3. QED
    BY <2>2 DEF NoHeader
<1>14. QED
  BY <1>6, <1>7, <1>10, <1>11, <1>12, <1>13, SenderMoves

LEMMA SendBlockMoves ==
  ASSUME IInv, SenderUnchanged, Running(snd), Turn, up # <<>> => up[1].kind # "ZCRC",
         UNCHANGED result, snd.state = "ZDATA",
         NEW s \in Alive, s.file = snd.file, s.open = TRUE, Running(s),
         s.state \in {"ZDATA", "ZRPOS"}, s.pos \in 0 .. Size(snd.file),
         NEW head \in Line,
         \/ head = <<>>
         \/ \E e \in Heard : head = <<e>> /\ e.kind = "ZDATA",
         head # <<>> =>
           s.state = "ZDATA" /\ (Running(rcv) => rcv.state = "ZRPOS_WAIT"),
         Running(rcv) => s.pos = rcv.pos \/ (rcv.state = "ZRPOS_WAIT" /\ head = <<>>),
         Running(rcv) /\ s.state = "ZRPOS" => rcv.state \in Hunting,
         NEW lefts, Quietly(lefts), SendBlock(s, lefts, {down}, head)
  PROVE  IInv'
<1>1. Sends(scenario, snd) /\ snd.file \in Files
  BY SenderFacts DEF Sends
<1>2. PICK u, p : Block(s, u, p) /\ SenderStep(u, lefts, {down}, Append(head, p))
  BY <1>1, BlockFacts
<1>3. /\ u \in Alive /\ u.file = snd.file /\ u.state = s.state /\ u.open = TRUE
      /\ Running(u) /\ u.pos \in s.pos .. Size(snd.file)
      /\ p \in Heard /\ IsData(p) /\ p.kind \in Good
      /\ Carries(snd.file, p, s.pos, u.pos)
      /\ p.kind \in {"ZCRCQ", "ZCRCW"} => u.waiting = TRUE
      /\ p.kind = "ZCRCQ" => u.streaming = TRUE
  BY <1>2 DEF Block, Running
<1>4. Spoken({down})
  BY DEF Spoken
<1> DEFINE from == s.pos
<1>5. from \in 0 .. Size(snd.file) /\ from = s.pos
  OBVIOUS
<1> HIDE DEF from
<1>6. QED
  BY <1>2, <1>3, <1>4, <1>5, SendsData

\* Data subpackets follow each other while the sender waits for nothing.
LEMMA SendZdataKeeps ==
  ASSUME IInv, SenderUnchanged, Running(snd), UNCHANGED result, SendZdata
  PROVE  IInv'
<1>1. /\ Sends(scenario, snd) /\ Receives(snd, rcv, disk) /\ snd \in Alive
      /\ (Running(rcv) => Stage(snd, rcv, disk, saved))
      /\ Turns(snd, rcv, down, up) /\ Downward(snd, rcv, down)
  BY SenderFacts
<1>2. snd.state = "ZDATA" /\ snd.waiting # TRUE /\ SendBlock(snd, {up}, {down}, <<>>)
  BY DEF SendZdata
<1>3. /\ snd.file \in Files /\ Size(snd.file) \in Nat
      /\ snd.pos \in 0 .. Size(snd.file) /\ snd.open = TRUE
  <2>1. snd.file \in Files /\ snd.pos <= Size(snd.file) /\ snd.open = TRUE
    BY <1>1, <1>2 DEF Sends
  <2>2. snd.pos \in Nat
    BY <1>1, AliveIs, FieldTypes
  <2>3. QED
    BY <2>1, <2>2, FileFacts
<1>4. PICK u, p : Block(snd, u, p) /\ SenderStep(u, {up}, {down}, Append(<<>>, p))
  BY <1>1, <1>2, <1>3, BlockFacts
<1>5. /\ u \in Alive /\ u.file = snd.file /\ u.state = "ZDATA" /\ u.open = TRUE
      /\ Running(u) /\ u.pos \in snd.pos .. Size(snd.file)
      /\ p \in Heard /\ IsData(p) /\ p.kind \in Good
      /\ Carries(snd.file, p, snd.pos, u.pos)
      /\ p.kind \in {"ZCRCQ", "ZCRCW"} => u.waiting = TRUE
      /\ p.kind = "ZCRCQ" => u.streaming = TRUE
  BY <1>2, <1>3, <1>4 DEF Block, Running
<1> DEFINE D == Append(down, p)
<1>6. down \in Line /\ down \in Seq(Heard) /\ Len(down) \in Nat /\ up \in Line
  BY LineFacts DEF IInv, Typed
<1>7. Append(<<>>, p) = <<p>> /\ <<p>> \in Seq(Heard)
  BY <1>5, OneSaid DEF Line
<1>8. D = down \o <<p>>
  BY <1>5, <1>6, AppendIsConcat
<1>9. /\ snd' = u /\ up' = up
      /\ down' = IF Running(rcv) THEN D ELSE <<>>
  <2>1. SenderStep(u, {up}, {down}, <<p>>)
    BY <1>4, <1>7
  <2>2. QED
    BY <1>5, <1>8, <2>1 DEF SenderStep
<1>10. /\ D \in Seq(Heard) /\ Len(D) = Len(down) + 1 /\ D[Len(down) + 1] = p
       /\ \A i \in 1 .. Len(down) : D[i] = down[i]
  BY <1>5, <1>6, AppendProperties
<1>11. \A h \in 1 .. Len(down) : Behind(D, h) = Append(Behind(down, h), p)
  BY <1>5, <1>6, BehindAppend
<1> HIDE DEF D
<1>12. \A i \in 1 .. Len(D) : i \in 1 .. Len(down) \/ (i = Len(down) + 1 /\ D[i] = p)
  BY <1>6, <1>10
<1>13. ASSUME Running(rcv)
       PROVE  /\ Filing(rcv) /\ rcv.file = snd.file /\ rcv.file \in Files
              /\ rcv.pos \in 0 .. Size(snd.file)
  <2>1. Filing(rcv)
    BY <1>1, <1>2, <1>13 DEF Stage
  <2>2. rcv.file = snd.file /\ rcv.file \in Files /\ rcv.pos <= Size(snd.file)
    BY <1>1, <1>13, <2>1 DEF Receives, HasPart
  <2>3. rcv.pos \in Nat
    BY AliveIs, FieldTypes DEF IInv, Typed
  <2>4. QED
    BY <1>3, <2>1, <2>2, <2>3
<1>14. ASSUME Running(rcv) PROVE Turns(u, rcv, D, up)
  <2>1. OneHeader(down) => OneHeader(D)
    BY <1>5, <1>10, <1>12 DEF OneHeader
  <2>2. NoHeader(down) => NoHeader(D)
    BY <1>5, <1>10, <1>12 DEF NoHeader
  <2>3. HeaderFirst(down) => HeaderFirst(D)
    <3>1. SUFFICES ASSUME HeaderFirst(down), NEW i \in 2 .. Len(D) PROVE IsData(D[i])
      BY DEF HeaderFirst
    <3>2. i \in 1 .. Len(D) /\ (i \in 1 .. Len(down) => i \in 2 .. Len(down))
      BY <1>6, <1>10
    <3>3. QED
      BY <1>5, <1>10, <1>12, <3>1, <3>2 DEF HeaderFirst
  <2>4. up # <<>> => rcv.state # "ZDATA"
    BY <1>1, <1>2, <1>14 DEF Turns
  <2>5. ASSUME up # <<>> PROVE Mute(rcv, D)
    <3>1. rcv.state = "ZRPOS_WAIT"
      BY <1>13, <1>14, <2>4, <2>5 DEF Filing
    <3>2. NoHeader(down)
      BY <1>1, <2>5, EmptyLine DEF Turns, Mute
    <3>3. QED
      BY <2>2, <3>1, <3>2 DEF Mute, Hunting
  <2>6. rcv.state # "INIT"
    BY <1>13, <1>14 DEF Filing
  <2>7. QED
    BY <1>1, <1>5, <1>14, <2>1, <2>3, <2>4, <2>5, <2>6 DEF Turns
<1>15. ASSUME Running(rcv), NEW R \in Seq(Heard),
              Track(rcv.file, R, rcv.pos, snd.pos), AsksLast(snd, R)
       PROVE  Track(rcv.file, Append(R, p), rcv.pos, u.pos) /\ AsksLast(u, Append(R, p))
  <2>1. u.pos \in 0 .. Size(snd.file)
    BY <1>3, <1>5
  <2>2. Track(rcv.file, Append(R, p), rcv.pos, u.pos)
    BY <1>5, <1>13, <1>15, <2>1, TrackAppend
  <2>3. /\ Len(Append(R, p)) = Len(R) + 1 /\ Append(R, p)[Len(R) + 1] = p
        /\ \A i \in 1 .. Len(R) : Append(R, p)[i] = R[i]
    BY <1>5, AppendProperties
  <2>4. \A i \in 1 .. Len(R) : R[i].kind \notin {"ZCRCQ", "ZCRCW"}
    BY <1>2, <1>15 DEF AsksLast
  <2> DEFINE A == Append(R, p)
             n == Len(R)
  <2> HIDE DEF A, n
  <2>5. AsksLast(u, A)
    <3>1. SUFFICES ASSUME NEW i \in 1 .. Len(A), A[i].kind \in {"ZCRCQ", "ZCRCW"}
                   PROVE  /\ i = Len(A)
                          /\ u.state = "ZDATA" /\ u.waiting = TRUE
                          /\ A[i].kind = "ZCRCQ" => u.streaming = TRUE
      BY DEF AsksLast
    <3>2. i \in 1 .. n \/ i = n + 1
      <4>1. n \in Nat /\ Len(A) = n + 1
        BY <1>15, <2>3 DEF A, n
      <4>2. QED
        BY <4>1
    <3>3. CASE i \in 1 .. n
      BY <2>3, <2>4, <3>1, <3>3 DEF A, n
    <3>4. CASE i = n + 1
      BY <1>5, <2>3, <3>1, <3>4 DEF A, n
    <3>5. QED
      BY <3>2, <3>3, <3>4
  <2>6. QED
    BY <2>2, <2>5 DEF A
<1>16. ASSUME Running(rcv) PROVE Downward(u, rcv, D)
  <2>1. Collecting(u, rcv, D)
    <3>1. SUFFICES ASSUME rcv.state = "ZDATA", rcv.junk = "NO"
                   PROVE  /\ rcv.prior = "ZRPOS_WAIT"
                          /\ Track(rcv.file, D, rcv.pos, u.pos) /\ AsksLast(u, D)
      BY DEF Collecting
    <3>2. rcv.prior = "ZRPOS_WAIT"
      BY <1>13, <1>16, <3>1 DEF Filing
    <3>3. Track(rcv.file, down, rcv.pos, snd.pos) /\ AsksLast(snd, down)
      BY <1>1, <1>16, <3>1, <3>2 DEF Downward, Collecting
    <3>4. QED
      BY <1>6, <1>15, <1>16, <3>2, <3>3 DEF D
  <2>2. ASSUME NEW h \in 1 .. Len(D), ~IsData(D[h])
        PROVE  Pending(u, rcv, D[h], Behind(D, h))
    <3>1. h \in 1 .. Len(down)
      BY <1>5, <1>12, <2>2
    <3> DEFINE e == down[h]
               R == Behind(down, h)
    <3>2. D[h] = e /\ Behind(D, h) = Append(R, p) /\ Pending(snd, rcv, e, R)
      BY <1>1, <1>10, <1>11, <1>16, <3>1 DEF Downward
    <3>3. R \in Seq(Heard)
      BY <1>6, <3>1, BehindIsLine
    <3> HIDE DEF e, R
    <3>4. /\ e.kind \notin {"ZRQINIT", "ZACK", "ZSINIT", "ZFILE", "ZCRC", "ZEOF", "ZFIN"}
          /\ e.kind = "ZDATA" => /\ rcv.state = "ZRPOS_WAIT"
                                 /\ Track(rcv.file, R, rcv.pos, snd.pos)
                                 /\ AsksLast(snd, R)
      BY <1>2, <3>2 DEF Pending, SentIn
    <3>5. Pending(u, rcv, e, Append(R, p))
      BY <1>5, <1>15, <1>16, <3>3, <3>4 DEF Pending, SentIn
    <3>6. QED
      BY <3>2, <3>5
  <2>3. QED
    BY <2>1, <2>2, DataPending DEF Downward
<1>17. Upward(u, rcv, down', up, disk, saved)
  <2>1. SUFFICES ASSUME up # <<>> PROVE Answer(u, rcv, down', disk, saved, up[1])
    BY DEF Upward
  <2>2. Answer(snd, rcv, down, disk, saved, up[1])
    BY <2>1, AnswerFacts
  <2>3. up[1].kind # "ZACK"
    BY <1>2, <2>2 DEF Answer
  <2>4. QED
    BY <1>2, <1>5, <2>2, <2>3 DEF Answer
<1>18. Stage(u, rcv, disk, saved) \/ ~Running(rcv)
  BY <1>5, <1>13 DEF Stage
<1>19. Sends(scenario, u) /\ Receives(u, rcv, disk)
  <2>1. u.pos <= Size(u.file)
    BY <1>3, <1>5
  <2>2. Sends(scenario, u)
    BY <1>3, <1>5, <2>1 DEF Sends
  <2>3. Receives(u, rcv, disk)
    BY <1>1, <1>5 DEF Receives, HasPart, Compares
  <2>4. QED
    BY <2>2, <2>3
<1>20. /\ scenario' = scenario /\ rcv' = rcv /\ disk' = disk /\ saved' = saved
       /\ faults' = faults /\ session' = session
  BY DEF SenderUnchanged
<1>21. Turns(u, rcv, down', up) /\ Downward(u, rcv, down') /\ down' \in Line
       /\ Comparing(scenario, u, rcv, down', up)
  <2>1. CASE Running(rcv)
    <3>1. down' = D
      BY <1>9, <2>1
    <3>2. rcv.state # "ZCRC_WAIT"
      BY <1>13, <2>1 DEF Filing
    <3>3. QED
      BY <1>10, <1>14, <1>16, <2>1, <3>1, <3>2 DEF Comparing, Line
  <2>2. CASE ~Running(rcv)
    <3>1. down' = <<>>
      BY <1>9, <2>2
    <3>2. Turns(u, rcv, <<>>, up)
      BY <1>1, <1>2, <1>5, <2>2, EmptyLine DEF Turns, Mute
    <3>3. QED
      BY <2>2, <3>1, <3>2, EmptyLine DEF Downward, Comparing
  <2>3. QED
    BY <2>1, <2>2
<1>22. Conversation'
  <2>1. Conv(scenario, u, rcv, down', up, disk, saved)
    BY <1>17, <1>18, <1>19, <1>21 DEF Conv
  <2>2. QED
    BY <1>9, <1>20, <2>1 DEF Conversation
<1>23. Typed'
  BY <1>5, <1>6, <1>9, <1>20, <1>21 DEF IInv, Typed
<1>24. result' \in Seq({"OK", "SKIP"}) /\ Logged(u, result', disk, saved)
  BY <1>5, LoggedSame
<1>25. Stored'
  BY <1>9, <1>20, <1>24 DEF IInv, Stored
<1>26. QED
  BY <1>22, <1>23, <1>25 DEF IInv

-----------------------------------------------------------------------------
(***************************************************************************)
(* The sender's actions.                                                   *)
(***************************************************************************)
SenderActs == IInv /\ SenderUnchanged /\ Running(snd)

LEMMA ArrivesFacts ==
  ASSUME SenderActs, NEW kind, Arrives(up, kind)
  PROVE  /\ up # <<>> /\ Head(up) = up[1] /\ up[1].kind = kind
         /\ up[1] \in Heard /\ up[1].n \in Nat /\ Head(up).n = up[1].n
         /\ Answer(snd, rcv, down, disk, saved, up[1])
         /\ Quietly(SenderNext) /\ Quietly(SenderCleared) /\ Turn
<1>1. up # <<>> /\ Head(up).kind = kind
  BY DEF Arrives
<1>2. QED
  BY <1>1, AnswerFacts DEF SenderActs

LEMMA SenderStops ==
  ASSUME SenderActs, up # <<>>, up[1].kind # "ZCRC",
         Answers(Stopped(snd), SenderNext, <<>>), UNCHANGED result
  PROVE  IInv'
<1> DEFINE s2 == Stopped(snd)
<1>1. snd \in Status /\ snd \in Alive
  BY SenderFacts DEF SenderActs
<1>2. Keeps(snd, s2) /\ Wearies(snd, s2) /\ s2.xfer = "ABORT" /\ s2.state = "ABORT"
  BY <1>1, StoppedFacts
<1>3. Quietly(SenderNext) /\ Turn
  BY AnswerFacts DEF SenderActs
<1>4. Answers(s2, SenderNext, <<>>)
  OBVIOUS
<1> HIDE DEF s2
<1>5. ~Running(s2) /\ s2.state # "INIT" /\ s2.file = snd.file /\ s2.pos = snd.pos
      /\ s2 \in Alive
  BY <1>2 DEF Running, Keeps, Wearies
<1>6. QED
  BY <1>3, <1>4, <1>5, SenderEnds DEF SenderActs

\* What a handler does not know, it stops for; no ZCRC is among it.
LEMMA OtherStops ==
  ASSUME SenderActs, NEW kinds, ArrivesOther(up, kinds),
         "ZCRC" \in kinds \/ snd.state # "ZFILE_WAIT",
         Answers(Stopped(snd), SenderNext, <<>>), UNCHANGED result
  PROVE  IInv'
<1>1. up # <<>> /\ Head(up).kind \notin kinds
  BY DEF ArrivesOther
<1>2. Head(up) = up[1] /\ Answer(snd, rcv, down, disk, saved, up[1])
  BY <1>1, AnswerFacts DEF SenderActs
<1>3. up[1].kind # "ZCRC"
  BY <1>1, <1>2 DEF Answer
<1>4. QED
  BY <1>1, <1>3, SenderStops

LEMMA Errs ==
  ASSUME SenderActs
  PROVE  Wearies(snd, Erred(snd, 1)) /\ Wearies(snd, Erred(snd, 2)) /\ Wearies(snd, snd)
  BY SenderFacts, ErredFacts DEF SenderActs

LEMMA SenderOpensKeeps ==
  ASSUME SenderActs, UNCHANGED result, SenderOpens
  PROVE  IInv'
<1>1. snd.state = "INIT" /\ SendZrqinit(snd, Rests(up))
  BY DEF SenderOpens
<1>2. up = <<>> /\ down = <<>>
  BY <1>1, SenderFacts DEF SenderActs, Turns
<1>3. up \in Seq(Heard)
  BY DEF SenderActs, IInv, Typed, Line
<1>4. Quietly(Rests(up))
  BY <1>2, <1>3, RestsFacts DEF Quietly
<1>5. Turn
  BY <1>2 DEF Turn, Mute
<1>6. QED
  BY <1>1, <1>2, <1>4, <1>5, Errs, SendZrqinitMoves DEF SenderActs

LEMMA SendZrqinitWaitKeeps ==
  ASSUME SenderActs, UNCHANGED result, SendZrqinitWait
  PROVE  IInv'
<1>1. snd.state = "ZRQINIT_WAIT"
  BY DEF SendZrqinitWait
<1>2. CASE Arrives(up, "ZRINIT") /\ SendZsinit(snd, SenderCleared)
  <2>1. up[1].kind = "ZRINIT" /\ Quietly(SenderCleared) /\ Turn
        /\ Answer(snd, rcv, down, disk, saved, up[1])
    BY <1>2, ArrivesFacts
  <2>2. rcv.state = "ZRINIT_WAIT"
    BY <2>1 DEF Answer
  <2>3. QED
    BY <1>1, <1>2, <2>1, <2>2, Errs, SendZsinitMoves DEF SenderActs
<1>3. CASE Arrives(up, "ZCHALLENGE")
           /\ Answers(snd, SenderNext, <<Header("ZACK", Head(up).n)>>)
  <2>1. up[1].kind = "ZCHALLENGE" /\ Quietly(SenderNext) /\ Turn /\ up[1].n \in Nat
        /\ Head(up).n = up[1].n
    BY <1>3, ArrivesFacts
  <2> DEFINE e == Header("ZACK", Head(up).n)
             out == <<e>>
  <2>2. e \in Heard /\ e.kind = "ZACK"
    BY <2>1, HeaderHeard DEF HeaderKinds
  <2>3. SenderStep(snd, SenderNext, {down}, out)
    BY <1>3 DEF Answers
  <2> HIDE DEF e
  <2>4. out \in Line /\ out # <<>> /\ Len(out) = 1 /\ out[1] = e /\ ~IsData(e)
    BY <2>2, OneSaid, KindFacts
  <2> HIDE DEF out
  <2>5. Pending(snd, rcv, e, <<>>)
    BY <1>1, <2>2 DEF Pending, SentIn
  <2>6. /\ snd \in Alive /\ Sends(scenario, snd)
        /\ (Running(rcv) => Stage(snd, rcv, disk, saved))
    BY SenderFacts DEF SenderActs
  <2>7. result' \in Seq({"OK", "SKIP"}) /\ Logged(snd, result', disk, saved)
    BY LoggedSame DEF SenderActs
  <2>8. Spoken({down}) /\ snd.state # "INIT" /\ snd.state # "ZRPOS"
    BY <1>1 DEF Spoken
  <2>9. QED
    BY <2>1, <2>3, <2>4, <2>5, <2>6, <2>7, <2>8, SenderSays DEF SenderActs
<1>4. CASE Arrives(up, "ZNAK") /\ SendZrqinit(Erred(snd, 1), SenderCleared)
  <2>1. up[1].kind = "ZNAK" /\ Quietly(SenderCleared) /\ Turn
    BY <1>4, ArrivesFacts
  <2>2. QED
    BY <1>1, <1>4, <2>1, Errs, SendZrqinitMoves DEF SenderActs
<1>5. CASE ArrivesOther(up, {"ZRINIT", "ZCHALLENGE", "ZNAK"})
           /\ Answers(Stopped(snd), SenderNext, <<>>)
  BY <1>1, <1>5, OtherStops
<1>6. QED
  BY <1>2, <1>3, <1>4, <1>5 DEF SendZrqinitWait

LEMMA SendZsinitWaitKeeps ==
  ASSUME SenderActs, UNCHANGED result, SendZsinitWait
  PROVE  IInv'
<1>1. snd.state = "ZSINIT_WAIT"
  BY DEF SendZsinitWait
<1>2. CASE Arrives(up, "ZACK") /\ SendZfile(snd, SenderCleared)
  <2>1. up[1].kind = "ZACK" /\ Quietly(SenderCleared) /\ Turn
        /\ Answer(snd, rcv, down, disk, saved, up[1])
    BY <1>2, ArrivesFacts
  <2>2. rcv.state = "ZRINIT_WAIT"
    BY <1>1, <2>1 DEF Answer
  <2>3. Carrying(snd, snd.file)
    BY <1>1, Errs, CarryingOn DEF SenderActs
  <2>4. result' \in Seq({"OK", "SKIP"}) /\ Logged(snd, result', disk, saved)
    BY LoggedSame DEF SenderActs
  <2>5. QED
    BY <1>2, <2>1, <2>2, <2>3, <2>4, SendZfileMoves DEF SenderActs
<1>3. CASE Arrives(up, "ZNAK") /\ SendZsinit(Erred(snd, 1), SenderCleared)
  <2>1. up[1].kind = "ZNAK" /\ Quietly(SenderCleared) /\ Turn
    BY <1>3, ArrivesFacts
  <2>2. QED
    BY <1>1, <1>3, <2>1, Errs, SendZsinitMoves DEF SenderActs
<1>4. CASE ArrivesOther(up, {"ZACK", "ZNAK"}) /\ Answers(Stopped(snd), SenderNext, <<>>)
  BY <1>1, <1>4, OtherStops
<1>5. QED
  BY <1>2, <1>3, <1>4 DEF SendZsinitWait

\* A position the receiver asks for begins a frame.
LEMMA SendZfileWaitRpos ==
  ASSUME SenderActs, UNCHANGED result, snd.state = "ZFILE_WAIT",
         Arrives(up, "ZRPOS"), Head(up).n <= Len(Batch[snd.file]),
         Answers([snd EXCEPT !.pos = Head(up).n, !.prior = "ZFILE_WAIT",
                             !.state = "ZDATA", !.ackReq = FALSE],
                 SenderNext, <<Header("ZDATA", Head(up).n)>>)
  PROVE  IInv'
<1> DEFINE n == Head(up).n
           s2 == [snd EXCEPT !.pos = n, !.prior = "ZFILE_WAIT",
                             !.state = "ZDATA", !.ackReq = FALSE]
           e == Header("ZDATA", n)
           out == <<e>>
<1>1. /\ up # <<>> /\ up[1].kind = "ZRPOS" /\ n = up[1].n /\ n \in Nat
      /\ Answer(snd, rcv, down, disk, saved, up[1])
      /\ Quietly(SenderNext) /\ Turn
  BY ArrivesFacts
<1>2. /\ snd \in Alive /\ Sends(scenario, snd) /\ Receives(snd, rcv, disk)
      /\ snd \in Status
  BY SenderFacts DEF SenderActs
<1>3. SenderStep(s2, SenderNext, {down}, out)
  BY DEF Answers
<1> HIDE DEF n
<1>4. /\ s2 \in Status /\ s2.file = snd.file /\ s2.pos = n /\ s2.state = "ZDATA"
      /\ s2.open = snd.open /\ s2.xfer = snd.xfer /\ s2.timeouts = snd.timeouts
  <2>1. "ZFILE_WAIT" \in Priors /\ "ZDATA" \in States
    BY Names1
  <2>2. QED
    BY <1>1, <1>2, <2>1, StatusIs DEF StatusOf
<1> HIDE DEF s2
<1>5. s2 \in Alive /\ Running(s2)
  BY <1>2, <1>4, AliveIs DEF Running, SenderActs
<1>6. e \in Heard /\ e.kind = "ZDATA"
  BY <1>1, HeaderHeard DEF HeaderKinds
<1> HIDE DEF e
<1>7. out \in Line /\ out # <<>> /\ Len(out) = 1 /\ out[1] = e /\ ~IsData(e)
  BY <1>6, OneSaid, KindFacts
<1> HIDE DEF out
<1>8. rcv.state = "ZRPOS_WAIT" /\ n = rcv.pos /\ n <= Size(snd.file)
  BY <1>1 DEF Answer
<1>9. snd.file \in Files /\ snd.open = TRUE
  BY <1>2 DEF Sends, SenderActs
<1>10. Sends(scenario, s2)
  BY <1>4, <1>8, <1>9 DEF Sends
<1>11. ASSUME Running(rcv)
       PROVE  Stage(s2, rcv, disk, saved) /\ Pending(s2, rcv, e, <<>>)
  <2>1. Filing(rcv)
    BY <1>8 DEF Filing
  <2>2. rcv.file = snd.file /\ rcv.file \in Files
    BY <1>2, <1>11, <2>1 DEF Receives, HasPart
  <2>3. rcv.pos \in 0 .. Size(rcv.file)
    BY <1>1, <1>8, <2>2, FileFacts
  <2>4. Track(rcv.file, <<>>, rcv.pos, s2.pos)
    BY <1>4, <1>8, <2>2, <2>3, TrackEmpty
  <2>5. AsksLast(s2, <<>>)
    BY DEF AsksLast
  <2>6. QED
    BY <1>4, <1>6, <1>8, <2>1, <2>4, <2>5 DEF Stage, Pending, SentIn
<1>12. result' \in Seq({"OK", "SKIP"}) /\ Logged(s2, result', disk, saved)
  BY <1>4, LoggedSame DEF SenderActs
<1>13. /\ Spoken({down}) /\ s2.state # "INIT" /\ s2.state # "ZRPOS"
       /\ s2.pos = rcv.pos /\ up[1].kind # "ZCRC"
  BY <1>1, <1>4, <1>8 DEF Spoken
<1>14. QED
  BY <1>1, <1>3, <1>4, <1>5, <1>7, <1>10, <1>11, <1>12, <1>13, SenderSays DEF SenderActs

\* The CRC it sends is that of what the receiver has asked for.
LEMMA SendZfileWaitCrc ==
  ASSUME SenderActs, UNCHANGED result, snd.state = "ZFILE_WAIT", Arrives(up, "ZCRC"),
         LET n == Head(up).n
             file == Batch[snd.file]
         IN Answers(snd, SenderNext,
                    <<Packet("ZCRC", 0, SubSeq(file, 1, AtMost(Len(file), n)))>>)
  PROVE  IInv'
<1> DEFINE n == Head(up).n
           file == Batch[snd.file]
           part == SubSeq(file, 1, AtMost(Len(file), n))
           e == Packet("ZCRC", 0, part)
           out == <<e>>
<1>1. /\ up # <<>> /\ up[1].kind = "ZCRC" /\ n = up[1].n /\ n \in Nat
      /\ Answer(snd, rcv, down, disk, saved, up[1])
      /\ Quietly(SenderNext) /\ Turn
  BY ArrivesFacts
<1>2. /\ snd \in Alive /\ Sends(scenario, snd) /\ Receives(snd, rcv, disk)
      /\ (Running(rcv) => Stage(snd, rcv, disk, saved))
  BY SenderFacts DEF SenderActs
<1>3. SenderStep(snd, SenderNext, {down}, out)
  BY DEF Answers
<1>4. rcv.state = "ZCRC_WAIT" /\ n = rcv.pos /\ n <= Size(snd.file)
  BY <1>1 DEF Answer
<1>5. snd.file \in Files
  BY <1>2 DEF Sends, SenderActs
<1>6. part = Beginning(snd.file, n) /\ part \in Seq(Units)
  <2>1. Size(snd.file) = Len(file) /\ Len(file) \in Nat
    BY <1>5, FileFacts DEF Size
  <2>2. AtMost(Len(file), n) = n
    BY <1>1, <1>4, <2>1 DEF AtMost
  <2>3. n \in 0 .. Size(snd.file)
    BY <1>1, <1>4, <2>1
  <2>4. part = Beginning(snd.file, n)
    BY <2>2 DEF Beginning
  <2>5. QED
    BY <1>5, <2>3, <2>4, BeginningFacts
<1> HIDE DEF part, n, file
<1>7. e \in Heard /\ e.kind = "ZCRC" /\ e.data = part
  BY <1>6, CrcHeard
<1> HIDE DEF e
<1>8. /\ out \in Line /\ out # <<>> /\ Len(out) = 1 /\ out[1] = e /\ ~IsData(e)
      /\ HeaderFirst(out) /\ Tail(out) = <<>>
  BY <1>7, OneSaid, KindFacts
<1> HIDE DEF out
<1>9. ASSUME Running(rcv) PROVE Fits(scenario, snd, rcv, out, disk, saved)
  <2>1. Pending(snd, rcv, e, <<>>)
    <3>1. rcv.file = snd.file
      BY <1>2, <1>4, <1>9 DEF Receives, Compares
    <3>2. QED
      BY <1>4, <1>6, <1>7, <3>1 DEF Pending, SentIn
  <2>2. Comparing(scenario, snd, rcv, out, <<>>)
    <3>1. 1 \in 1 .. Len(out) /\ out[1].kind = "ZCRC" /\ \A i \in 1 .. Len(out) : i = 1
      BY <1>7, <1>8
    <3>2. QED
      BY <3>1 DEF Comparing
  <2>3. QED
    BY <1>2, <1>4, <1>8, <1>9, <2>1, <2>2 DEF Fits
<1>10. result' \in Seq({"OK", "SKIP"}) /\ Logged(snd, result', disk, saved)
  BY LoggedSame DEF SenderActs
<1>11. Spoken({down}) /\ snd.state # "INIT" /\ snd.state # "ZRPOS"
  BY DEF Spoken
<1>12. QED
  BY <1>1, <1>2, <1>3, <1>8, <1>9, <1>10, <1>11, SenderMoves DEF SenderActs

LEMMA SendZfileWaitKeeps ==
  ASSUME SenderActs, SendZfileWait
  PROVE  IInv'
<1>1. snd.state = "ZFILE_WAIT"
  BY DEF SendZfileWait
<1>2. CASE /\ Arrives(up, "ZRPOS") /\ Answers(Stopped(snd), SenderNext, <<>>)
           /\ UNCHANGED result
  <2>1. up # <<>> /\ up[1].kind = "ZRPOS"
    BY <1>2, ArrivesFacts
  <2>2. QED
    BY <1>2, <2>1, SenderStops
<1>3. CASE /\ Arrives(up, "ZRPOS") /\ Head(up).n <= Len(Batch[snd.file])
           /\ Answers([snd EXCEPT !.pos = Head(up).n, !.prior = "ZFILE_WAIT",
                                  !.state = "ZDATA", !.ackReq = FALSE],
                      SenderNext, <<Header("ZDATA", Head(up).n)>>)
           /\ UNCHANGED result
  BY <1>1, <1>3, SendZfileWaitRpos
<1>4. CASE Arrives(up, "ZNAK") /\ SendZfile(Erred(snd, 1), SenderCleared)
           /\ UNCHANGED result
  <2>1. up[1].kind = "ZNAK" /\ Quietly(SenderCleared) /\ Turn
    BY <1>4, ArrivesFacts
  <2>2. Carrying(Erred(snd, 1), snd.file)
    BY <1>1, Errs, CarryingOn DEF SenderActs
  <2>3. result' \in Seq({"OK", "SKIP"}) /\ Logged(Erred(snd, 1), result', disk, saved)
    BY <1>4, Errs, LoggedSame DEF SenderActs, Wearies
  <2>4. Running(rcv) => \/ rcv.state \in {"ZRINIT_WAIT", "ZCRC_WAIT", "ZRPOS_WAIT"}
                        \/ rcv.state = "ZDATA" /\ rcv.type = "ZFILE"
    BY <1>1, SenderFacts DEF SenderActs, Stage
  <2>5. QED
    BY <1>4, <2>1, <2>2, <2>3, <2>4, SendZfileMoves DEF SenderActs
<1>5. CASE /\ Arrives(up, "ZCRC")
           /\ LET n == Head(up).n
                  file == Batch[snd.file]
              IN Answers(snd, SenderNext,
                         <<Packet("ZCRC", 0, SubSeq(file, 1, AtMost(Len(file), n)))>>)
           /\ UNCHANGED result
  BY <1>1, <1>5, SendZfileWaitCrc
<1>6. CASE /\ Arrives(up, "ZSKIP") /\ result' = Append(result, "SKIP")
           /\ NextFile(snd, SenderCleared)
  <2>1. /\ up[1].kind = "ZSKIP" /\ Quietly(SenderCleared) /\ Turn
        /\ Answer(snd, rcv, down, disk, saved, up[1])
    BY <1>6, ArrivesFacts
  <2>2. rcv.state = "ZRINIT_WAIT" /\ IsWhole(snd.file, disk)
    BY <2>1 DEF Answer
  <2> DEFINE how == "SKIP"
  <2>3. how \in {"OK", "SKIP"} /\ how # "OK" /\ result' = Append(result, how)
    BY <1>6
  <2> HIDE DEF how
  <2>4. QED
    BY <1>1, <1>6, <2>1, <2>2, <2>3, NextFileMoves DEF SenderActs
<1>7. CASE /\ ArrivesOther(up, {"ZRPOS", "ZNAK", "ZCRC", "ZSKIP"})
           /\ Answers(Stopped(snd), SenderNext, <<>>)
           /\ UNCHANGED result
  <2> DEFINE kinds == {"ZRPOS", "ZNAK", "ZCRC", "ZSKIP"}
  <2>1. "ZCRC" \in kinds /\ ArrivesOther(up, kinds)
    BY <1>7
  <2> HIDE DEF kinds
  <2>2. QED
    BY <1>7, <2>1, OtherStops
<1>8. QED
  BY <1>2, <1>3, <1>4, <1>5, <1>6, <1>7 DEF SendZfileWait

LEMMA SendZeofWaitKeeps ==
  ASSUME SenderActs, SendZeofWait
  PROVE  IInv'
<1>1. snd.state = "ZEOF_WAIT"
  BY DEF SendZeofWait
<1>2. CASE /\ Arrives(up, "ZRINIT") /\ result' = Append(result, "OK")
           /\ NextFile(snd, SenderCleared)
  <2>1. /\ up[1].kind = "ZRINIT" /\ Quietly(SenderCleared) /\ Turn
        /\ Answer(snd, rcv, down, disk, saved, up[1])
    BY <1>2, ArrivesFacts
  <2>2. rcv.state = "ZRINIT_WAIT" /\ IsWhole(snd.file, disk) /\ saved[snd.file] # <<>>
    BY <1>1, <2>1 DEF Answer
  <2> DEFINE how == "OK"
  <2>3. how \in {"OK", "SKIP"} /\ result' = Append(result, how)
    BY <1>2
  <2> HIDE DEF how
  <2>4. QED
    BY <1>1, <1>2, <2>1, <2>2, <2>3, NextFileMoves DEF SenderActs
<1>3. CASE /\ Arrives(up, "ZNAK") /\ SendZeof(Erred(snd, 1), SenderCleared, {down}, <<>>)
           /\ UNCHANGED result
  <2>1. up[1].kind = "ZNAK" /\ Quietly(SenderCleared) /\ Turn
    BY <1>3, ArrivesFacts
  <2> DEFINE s == Erred(snd, 1)
  <2>2. /\ s \in Alive /\ s.file = snd.file /\ s.pos = snd.pos
        /\ (Running(s) => s.open = snd.open)
    BY Errs DEF Wearies
  <2>3. snd.open = TRUE
    BY <1>1, SenderFacts DEF SenderActs, Sends
  <2>4. Running(rcv) => \/ Filing(rcv) /\ rcv.pos = Size(snd.file)
                        \/ rcv.state = "ZRINIT_WAIT" /\ snd.state = "ZEOF_WAIT"
    BY <1>1, SenderFacts DEF SenderActs, Stage
  <2>5. SendZeof(s, SenderCleared, {down}, <<>>)
    BY <1>3
  <2> HIDE DEF s
  <2>6. QED
    BY <1>1, <1>3, <2>1, <2>2, <2>3, <2>4, <2>5, SendZeofMoves DEF SenderActs
<1>4. CASE /\ ArrivesOther(up, {"ZRINIT", "ZNAK"})
           /\ Answers(Stopped(snd), SenderNext, <<>>)
           /\ UNCHANGED result
  BY <1>1, <1>4, OtherStops
<1>5. QED
  BY <1>2, <1>3, <1>4 DEF SendZeofWait

LEMMA SendZfinWaitKeeps ==
  ASSUME SenderActs, UNCHANGED result, SendZfinWait
  PROVE  IInv'
<1>1. snd.state = "ZFIN_WAIT"
  BY DEF SendZfinWait
<1>2. CASE Arrives(up, "ZFIN") /\ Answers(Ended(snd, "COMPLETE", "END"), SenderNext, <<>>)
  <2>1. up # <<>> /\ up[1].kind = "ZFIN" /\ Quietly(SenderNext) /\ Turn
    BY <1>2, ArrivesFacts
  <2> DEFINE s2 == Ended(snd, "COMPLETE", "END")
  <2>2. Keeps(snd, s2) /\ s2.xfer = "END" /\ s2.state = "COMPLETE"
    <3>1. snd \in Status /\ "COMPLETE" \in States /\ "END" \in Xfers
      BY SenderFacts, Names1 DEF SenderActs
    <3>2. QED
      BY <3>1, EndedFacts
  <2>3. Answers(s2, SenderNext, <<>>)
    BY <1>2
  <2> HIDE DEF s2
  <2>4. /\ ~Running(s2) /\ s2.state # "INIT" /\ s2.file = snd.file
        /\ s2.pos = snd.pos /\ s2 \in Alive
    BY <2>2, AliveIs DEF Running, Keeps
  <2>5. QED
    BY <2>1, <2>3, <2>4, SenderEnds DEF SenderActs
<1>3. CASE /\ Arrives(up, "ZNAK") \/ Arrives(up, "ZRINIT")
           /\ SendZfin(Erred(snd, 1), SenderCleared)
  <2>1. up[1].kind # "ZCRC" /\ Quietly(SenderCleared) /\ Turn
    <3>1. CASE Arrives(up, "ZNAK")
      BY <3>1, ArrivesFacts
    <3>2. CASE Arrives(up, "ZRINIT")
      BY <3>2, ArrivesFacts
    <3>3. QED
      BY <1>3, <3>1, <3>2
  <2> DEFINE s == Erred(snd, 1)
  <2>2. s \in Alive /\ s.file = snd.file /\ s.pos = snd.pos
    BY Errs DEF Wearies
  <2>3. snd.file = Len(Batch) + 1
    BY <1>1, SenderFacts DEF SenderActs, Sends
  <2>4. Running(rcv) => rcv.state = "ZRINIT_WAIT"
    BY <1>1, SenderFacts DEF SenderActs, Stage
  <2>5. result' \in Seq({"OK", "SKIP"}) /\ Logged(s, result', disk, saved)
    BY <2>2, LoggedSame DEF SenderActs
  <2>6. SendZfin(s, SenderCleared)
    BY <1>3
  <2> HIDE DEF s
  <2>7. QED
    BY <2>1, <2>2, <2>3, <2>4, <2>5, <2>6, SendZfinMoves DEF SenderActs
<1>4. CASE /\ ArrivesOther(up, {"ZFIN", "ZNAK", "ZRINIT"})
           /\ Answers(Stopped(snd), SenderNext, <<>>)
  BY <1>1, <1>4, OtherStops
<1>5. QED
  BY <1>2, <1>3, <1>4 DEF SendZfinWait

LEMMA SendZdataFacts ==
  ASSUME SenderActs, snd.state = "ZDATA"
  PROVE  /\ snd \in Alive /\ snd \in Status /\ Sends(scenario, snd)
         /\ snd.open = TRUE /\ snd.file \in Files /\ Size(snd.file) \in Nat
         /\ snd.pos \in 0 .. Size(snd.file)
         /\ Running(rcv) =>
              /\ Filing(rcv) /\ rcv.file = snd.file
              /\ rcv.state \in {"ZRPOS_WAIT", "ZDATA"}
<1>1. /\ snd \in Alive /\ snd \in Status /\ Sends(scenario, snd)
      /\ Receives(snd, rcv, disk)
      /\ Running(rcv) => Stage(snd, rcv, disk, saved)
  BY SenderFacts DEF SenderActs
<1>2. snd.open = TRUE /\ snd.file \in Files /\ snd.pos <= Size(snd.file)
  BY <1>1 DEF Sends, SenderActs
<1>3. snd.pos \in Nat /\ Size(snd.file) \in Nat
  BY <1>1, <1>2, FieldTypes, FileFacts
<1>4. snd.pos \in 0 .. Size(snd.file)
  BY <1>2, <1>3
<1>5. Running(rcv) => Filing(rcv) /\ rcv.file = snd.file
  BY <1>1 DEF Stage, Receives, HasPart
<1>6. QED
  BY <1>1, <1>2, <1>3, <1>4, <1>5 DEF Filing

LEMMA SendZdataSkipKeeps ==
  ASSUME SenderActs, UNCHANGED result, SendZdataSkip
  PROVE  IInv'
<1>1. snd.state = "ZDATA" /\ Arrives(up, "ZSKIP")
  BY DEF SendZdataSkip
<1>2. up[1].kind = "ZSKIP" /\ Answer(snd, rcv, down, disk, saved, up[1])
  BY <1>1, ArrivesFacts
<1>3. QED
  BY <1>1, <1>2 DEF Answer

\* An answer that says where the receiver is.
LEMMA AskedFor ==
  ASSUME SenderActs, snd.state = "ZDATA", Arrives(up, "ZRPOS") \/ Arrives(up, "ZACK")
  PROVE  /\ up # <<>> /\ up[1].kind \in {"ZRPOS", "ZACK"} /\ Turn
         /\ Quietly(SenderNext) /\ Quietly(SenderCleared)
         /\ Head(up).n \in 0 .. Size(snd.file) /\ Head(up).n = rcv.pos
         /\ Arrives(up, "ZRPOS") => rcv.state = "ZRPOS_WAIT"
         /\ Arrives(up, "ZACK") => Filing(rcv)
<1>1. /\ up # <<>> /\ up[1].kind \in {"ZRPOS", "ZACK"} /\ Head(up).n = up[1].n
      /\ Answer(snd, rcv, down, disk, saved, up[1]) /\ up[1].n \in Nat
      /\ Quietly(SenderNext) /\ Quietly(SenderCleared) /\ Turn
      /\ Head(up) = up[1]
  <2>1. CASE Arrives(up, "ZRPOS")
    BY <2>1, ArrivesFacts
  <2>2. CASE Arrives(up, "ZACK")
    BY <2>2, ArrivesFacts
  <2>3. QED
    BY <2>1, <2>2
<1>2. /\ up[1].n = rcv.pos /\ up[1].n <= Size(snd.file)
      /\ up[1].kind = "ZRPOS" => rcv.state = "ZRPOS_WAIT"
      /\ up[1].kind = "ZACK" => Filing(rcv)
  BY <1>1 DEF Answer
<1>3. Size(snd.file) \in Nat
  BY SendZdataFacts
<1>4. up[1].n \in 0 .. Size(snd.file)
  BY <1>1, <1>2, <1>3
<1>5. QED
  BY <1>1, <1>2, <1>4 DEF Arrives

\* What the sender goes on with at a position.
LEMMA AtPosition ==
  ASSUME SenderActs, NEW s \in Alive, NEW n \in Nat, NEW w \in BOOLEAN, NEW m \in BOOLEAN
  PROVE  /\ LET t == [s EXCEPT !.ackReq = FALSE, !.waiting = FALSE, !.pos = n]
            IN  /\ t \in Alive /\ t.file = s.file /\ t.pos = n /\ t.state = s.state
                /\ t.open = s.open /\ t.xfer = s.xfer
         /\ LET t == [s EXCEPT !.ackReq = FALSE, !.waiting = FALSE, !.pos = n,
                               !.streaming = TRUE]
            IN  /\ t \in Alive /\ t.file = s.file /\ t.pos = n /\ t.state = s.state
                /\ t.open = s.open /\ t.xfer = s.xfer
         /\ LET t == [s EXCEPT !.ackReq = TRUE, !.waiting = TRUE]
            IN  /\ t \in Alive /\ t.file = s.file /\ t.pos = s.pos /\ t.state = s.state
                /\ t.open = s.open /\ t.xfer = s.xfer /\ t.waiting = TRUE
         /\ LET t == [s EXCEPT !.ackReq = TRUE, !.waiting = TRUE, !.streaming = FALSE,
                               !.pos = n, !.acks = UnreliableWindow]
            IN  /\ t \in Alive /\ t.file = s.file /\ t.pos = n /\ t.state = s.state
                /\ t.open = s.open /\ t.xfer = s.xfer /\ t.waiting = TRUE
<1>1. s \in Status /\ UnreliableWindow \in Nat
  BY AliveIs, ConstantFacts
<1> DEFINE t1 == [s EXCEPT !.ackReq = FALSE, !.waiting = FALSE, !.pos = n]
           t2 == [s EXCEPT !.ackReq = FALSE, !.waiting = FALSE, !.pos = n,
                           !.streaming = TRUE]
           t3 == [s EXCEPT !.ackReq = TRUE, !.waiting = TRUE]
           t4 == [s EXCEPT !.ackReq = TRUE, !.waiting = TRUE, !.streaming = FALSE,
                           !.pos = n, !.acks = UnreliableWindow]
           Same(t) == /\ t \in Status /\ t.file = s.file /\ t.state = s.state
                      /\ t.open = s.open /\ t.xfer = s.xfer /\ t.timeouts = s.timeouts
<1>2. Same(t1) /\ t1.pos = n
  BY <1>1, StatusIs DEF StatusOf
<1>3. Same(t2) /\ t2.pos = n
  BY <1>1, StatusIs DEF StatusOf
<1>4. Same(t3) /\ t3.pos = s.pos /\ t3.waiting = TRUE
  BY <1>1, StatusIs DEF StatusOf
<1>5. Same(t4) /\ t4.pos = n /\ t4.waiting = TRUE
  BY <1>1, StatusIs DEF StatusOf
<1> HIDE DEF t1, t2, t3, t4
<1>6. \A t : Same(t) => t \in Alive
  BY AliveIs DEF Running
<1>7. t1 \in Alive /\ t2 \in Alive /\ t3 \in Alive /\ t4 \in Alive
  BY <1>2, <1>3, <1>4, <1>5, <1>6
<1>8. QED
  BY <1>2, <1>3, <1>4, <1>5, <1>7 DEF t1, t2, t3, t4

LEMMA ZdataHead ==
  ASSUME NEW n \in Nat
  PROVE  /\ <<Header("ZDATA", n)>> \in Line /\ <<Header("ZDATA", n)>> # <<>>
         /\ \E e \in Heard : <<Header("ZDATA", n)>> = <<e>> /\ e.kind = "ZDATA"
<1> DEFINE e == Header("ZDATA", n)
<1>1. e \in Heard /\ e.kind = "ZDATA"
  BY HeaderHeard DEF HeaderKinds
<1> HIDE DEF e
<1>2. <<e>> \in Line /\ <<e>> # <<>>
  BY <1>1, OneSaid
<1>3. QED
  BY <1>1, <1>2 DEF e

\* An empty block that asks for a ZACK.
LEMMA AskFacts ==
  ASSUME NEW f \in Files, NEW n \in 0 .. Size(f)
  PROVE  Carries(f, Packet("ZCRCW", 0, <<>>), n, n)
<1>1. n \in Nat
  BY FileFacts
<1>2. SubSeq(Batch[f], n + 1, n) = <<>>
  BY <1>1, SubSeqEmpty, n + 1 \in Int, n \in Int, n < n + 1
<1> DEFINE p == Packet("ZCRCW", 0, <<>>)
<1>3. IsData(p) /\ p.data = <<>>
  BY QuestionHeard, 0 \in Nat
<1> HIDE DEF p
<1>4. Carries(f, p, n, n)
  BY <1>1, <1>2, <1>3 DEF Carries
<1>5. QED
  BY <1>4 DEF p

\* Errors do not stop a sender of data.
LEMMA DataErrs ==
  ASSUME SenderActs, snd.state = "ZDATA"
  PROVE  LET y == Erred(snd, 1)
         IN  /\ y \in Alive /\ Running(y) /\ y.state = "ZDATA" /\ y.file = snd.file
             /\ y.pos = snd.pos /\ y.open = snd.open
<1> DEFINE e == AtMost(ErrorsMax, snd.errors + 1)
           y == [snd EXCEPT !.errors = e, !.reliable = FALSE]
           z == Erred(snd, 1)
<1>1. snd \in Status
  BY SenderFacts DEF SenderActs
<1>2. y.state = "ZDATA"
  BY <1>1, StatusIs DEF StatusOf
<1>3. z = y
  BY <1>2 DEF Erred
<1>4. Wearies(snd, z)
  BY Errs
<1>5. z.state = "ZDATA"
  BY <1>2, <1>3
<1> HIDE DEF z
<1>6. QED
  BY <1>4, <1>5 DEF Wearies, z

LEMMA SendZdataRposKeeps ==
  ASSUME SenderActs, UNCHANGED result, SendZdataRpos
  PROVE  IInv'
<1> DEFINE n == Head(up).n
<1>1. snd.state = "ZDATA" /\ Arrives(up, "ZRPOS")
  BY DEF SendZdataRpos
<1>2. /\ up # <<>> /\ up[1].kind # "ZCRC" /\ Turn
      /\ Quietly(SenderNext) /\ Quietly(SenderCleared)
      /\ n \in 0 .. Size(snd.file) /\ n = rcv.pos /\ rcv.state = "ZRPOS_WAIT"
  BY <1>1, AskedFor
<1>3. /\ snd \in Alive /\ snd.open = TRUE /\ snd.file \in Files
      /\ Size(snd.file) \in Nat
      /\ Running(rcv) => Filing(rcv) /\ rcv.file = snd.file
  BY <1>1, SendZdataFacts
<1>4. n \in Nat
  BY <1>2
<1> DEFINE h == Header("ZDATA", n)
           head == <<h>>
           p == Packet("ZCRCW", 0, <<>>)
<1>5. head \in Line /\ head # <<>> /\ \E e \in Heard : head = <<e>> /\ e.kind = "ZDATA"
  BY <1>4, ZdataHead
<1>6. CASE Answers(Stopped(snd), SenderNext, <<>>)
  BY <1>2, <1>6, SenderStops
<1>7. CASE SenderStep([Erred(snd, 1) EXCEPT
                         !.ackReq = TRUE, !.waiting = TRUE, !.streaming = FALSE,
                         !.pos = n, !.acks = UnreliableWindow],
                      SenderCleared, Sent(down), <<h, p>>)
  <2> DEFINE y == Erred(snd, 1)
             u == [y EXCEPT !.ackReq = TRUE, !.waiting = TRUE, !.streaming = FALSE,
                            !.pos = n, !.acks = UnreliableWindow]
  <2>1. y \in Alive /\ Running(y) /\ y.state = "ZDATA" /\ y.file = snd.file
        /\ y.open = snd.open
    BY <1>1, DataErrs
  <2> HIDE DEF y, n
  <2>2. /\ u \in Alive /\ u.file = y.file /\ u.pos = n /\ u.state = y.state
        /\ u.open = y.open /\ u.xfer = y.xfer /\ u.waiting = TRUE
    BY <1>4, <2>1, AtPosition
  <2>3. SenderStep(u, SenderCleared, Sent(down), <<h, p>>)
    BY <1>7 DEF y, n
  <2> HIDE DEF u
  <2>4. /\ p \in Heard /\ IsData(p) /\ p.kind = "ZCRCW" /\ p.kind \in Good
        /\ Carries(snd.file, p, n, n)
    BY <1>2, <1>3, QuestionHeard, AskFacts, 0 \in Nat DEF Good
  <2>5. h \in Heard
    BY <1>4, HeaderHeard DEF HeaderKinds
  <2> HIDE DEF h, p
  <2>6. Append(head, p) = <<h, p>>
    BY <2>4, <2>5, TwoSaid
  <2> HIDE DEF head
  <2>7. SenderStep(u, SenderCleared, Sent(down), Append(head, p))
    BY <2>3, <2>6
  <2>8. /\ u.file = snd.file /\ u.open = TRUE /\ u.state = "ZDATA" /\ Running(u)
        /\ u.pos = n /\ n \in n .. Size(snd.file) /\ Spoken(Sent(down))
    BY <1>2, <1>3, <1>4, <2>1, <2>2 DEF Running, Spoken
  <2>9. /\ Running(u) /\ p.kind \in {"ZCRCQ", "ZCRCW"} =>
             (u.state = "ZDATA" /\ u.waiting = TRUE) \/ u.state = "ZRPOS"
        /\ ~(Running(u) /\ p.kind = "ZCRCQ")
        /\ u.state = "ZDATA" /\ rcv.state = "ZRPOS_WAIT" /\ n = rcv.pos
        /\ u.state # "ZRPOS" /\ u.state # "INIT"
    BY <1>2, <2>2, <2>4, <2>8
  <2> DEFINE to == u.pos
  <2>10. QED
    BY <1>1, <1>2, <1>5, <2>2, <2>4, <2>7, <2>8, <2>9, SendsData DEF SenderActs
<1>8. CASE SendBlock([snd EXCEPT !.ackReq = FALSE, !.waiting = FALSE, !.pos = n],
                     SenderNext, {down}, head)
  <2> DEFINE s == [snd EXCEPT !.ackReq = FALSE, !.waiting = FALSE, !.pos = n]
  <2> HIDE DEF n, h
  <2>1. /\ s \in Alive /\ s.file = snd.file /\ s.pos = n /\ s.state = snd.state
        /\ s.open = snd.open /\ s.xfer = snd.xfer
    BY <1>3, <1>4, AtPosition
  <2>2. SendBlock(s, SenderNext, {down}, head)
    BY <1>8
  <2> HIDE DEF s, head
  <2>3. Running(s) /\ s.open = TRUE /\ s.state = "ZDATA" /\ s.state # "ZRPOS"
        /\ s.state \in {"ZDATA", "ZRPOS"}
        /\ s.pos = rcv.pos /\ s.pos \in 0 .. Size(snd.file)
    BY <1>1, <1>2, <1>3, <2>1 DEF Running, SenderActs
  <2>4. QED
    BY <1>1, <1>2, <1>5, <2>1, <2>2, <2>3, SendBlockMoves DEF SenderActs
<1>9. QED
  BY <1>6, <1>7, <1>8 DEF SendZdataRpos

LEMMA SendZdataAckKeeps ==
  ASSUME SenderActs, UNCHANGED result, SendZdataAck
  PROVE  IInv'
<1> DEFINE n == Head(up).n
           s == [snd EXCEPT !.ackReq = FALSE, !.waiting = FALSE]
<1>1. snd.state = "ZDATA" /\ Arrives(up, "ZACK")
  BY DEF SendZdataAck
<1>2. /\ up # <<>> /\ up[1].kind # "ZCRC" /\ Turn
      /\ Quietly(SenderNext) /\ Quietly(SenderCleared)
      /\ n \in 0 .. Size(snd.file) /\ n = rcv.pos /\ Filing(rcv)
  BY <1>1, AskedFor
<1>3. /\ snd \in Alive /\ snd \in Status /\ snd.open = TRUE /\ snd.file \in Files
      /\ Size(snd.file) \in Nat
  BY <1>1, SendZdataFacts
<1>4. n \in Nat
  BY <1>2
<1> DEFINE t == [snd EXCEPT !.ackReq = FALSE, !.waiting = FALSE, !.pos = n]
           t2 == [snd EXCEPT !.ackReq = FALSE, !.waiting = FALSE, !.pos = n,
                             !.streaming = TRUE]
<1>5. /\ t \in Alive /\ t.file = snd.file /\ t.pos = n /\ t.state = snd.state
      /\ t.open = snd.open /\ t.xfer = snd.xfer
      /\ t2 \in Alive /\ t2.file = snd.file /\ t2.pos = n /\ t2.state = snd.state
      /\ t2.open = snd.open /\ t2.xfer = snd.xfer
  <2> HIDE DEF n
  <2>1. QED
    BY <1>3, <1>4, AtPosition
<1>6. s.pos = snd.pos /\ s.file = snd.file
  BY <1>3, StatusIs DEF StatusOf
<1>7. CASE /\ n >= Size(snd.file)
           /\ SendZeof([s EXCEPT !.pos = IF n > Size(snd.file) THEN @ ELSE n],
                       SenderCleared, {down}, <<>>)
  <2>1. n = Size(snd.file) /\ ~(n > Size(snd.file))
    BY <1>2, <1>3, <1>7
  <2>2. [s EXCEPT !.pos = IF n > Size(snd.file) THEN @ ELSE n] = t
    BY <1>3, <2>1, StatusIs DEF StatusOf
  <2>3. SendZeof(t, SenderCleared, {down}, <<>>)
    BY <1>7, <2>2
  <2> HIDE DEF n, s, t, t2
  <2>4. Filing(rcv) /\ rcv.pos = Size(snd.file)
    BY <1>2, <2>1
  <2>5. t.pos = rcv.pos /\ t.open = TRUE
    BY <1>2, <1>3, <1>5
  <2>6. QED
    BY <1>1, <1>2, <1>5, <2>3, <2>4, <2>5, SendZeofMoves DEF SenderActs
<1>8. ASSUME NEW v \in {t, t2}
      PROVE  /\ v \in Alive /\ v.file = snd.file /\ v.open = TRUE /\ Running(v)
             /\ v.state \in {"ZDATA", "ZRPOS"} /\ v.state = "ZDATA"
             /\ v.pos \in 0 .. Size(snd.file) /\ v.pos = rcv.pos
  <2> HIDE DEF n, t, t2
  <2>1. QED
    BY <1>1, <1>2, <1>3, <1>5 DEF Running, SenderActs
<1>9. CASE SendBlock([s EXCEPT !.pos = n], SenderNext, {down}, <<>>)
  <2>1. [s EXCEPT !.pos = n] = t
    BY <1>3, StatusIs DEF StatusOf
  <2>2. SendBlock(t, SenderNext, {down}, <<>>) /\ t \in {t, t2}
    BY <1>9, <2>1
  <2> HIDE DEF n, s, t, t2
  <2>3. /\ t \in Alive /\ t.file = snd.file /\ t.open = TRUE /\ Running(t)
        /\ t.state \in {"ZDATA", "ZRPOS"} /\ t.state # "ZRPOS"
        /\ t.pos \in 0 .. Size(snd.file) /\ t.pos = rcv.pos
    BY <1>8, <2>2
  <2>4. <<>> \in Line
    BY EmptyLine
  <2>5. QED
    BY <1>1, <1>2, <2>2, <2>3, <2>4, SendBlockMoves DEF SenderActs
<1>10. CASE /\ ~snd.streaming
            /\ SendBlock([s EXCEPT !.pos = n, !.streaming = TRUE], SenderNext, {down},
                         <<Header("ZDATA", n)>>)
  <2>1. [s EXCEPT !.pos = n, !.streaming = TRUE] = t2
    BY <1>3, StatusIs DEF StatusOf
  <2> DEFINE head == <<Header("ZDATA", n)>>
  <2>2. SendBlock(t2, SenderNext, {down}, head) /\ t2 \in {t, t2}
    BY <1>10, <2>1
  <2> HIDE DEF n, s, t, t2
  <2>3. /\ t2 \in Alive /\ t2.file = snd.file /\ t2.open = TRUE /\ Running(t2)
        /\ t2.state \in {"ZDATA", "ZRPOS"} /\ t2.state = "ZDATA"
        /\ t2.pos \in 0 .. Size(snd.file) /\ t2.pos = rcv.pos
    BY <1>8, <2>2
  <2>4. head \in Line /\ head # <<>> /\ \E e \in Heard : head = <<e>> /\ e.kind = "ZDATA"
    BY <1>4, ZdataHead
  <2> HIDE DEF head
  <2>5. Running(rcv) => rcv.state = "ZRPOS_WAIT"
    <3>1. Turns(snd, rcv, down, up)
      BY SenderFacts DEF SenderActs
    <3>2. snd.streaming # TRUE
      BY <1>10
    <3>3. ~(Running(rcv) /\ rcv.state = "ZDATA")
      BY <1>2, <3>1, <3>2 DEF Turns
    <3>4. QED
      BY <1>2, <3>3 DEF Filing
  <2>6. QED
    BY <1>1, <1>2, <2>2, <2>3, <2>4, <2>5, SendBlockMoves DEF SenderActs
<1>11. QED
  BY <1>7, <1>9, <1>10 DEF SendZdataAck

LEMMA SendZdataNakKeeps ==
  ASSUME SenderActs, UNCHANGED result, SendZdataNak
  PROVE  IInv'
<1> DEFINE y == Erred(snd, 1)
           s == [y EXCEPT !.state = "ZRPOS"]
<1>1. snd.state = "ZDATA" /\ Arrives(up, "ZNAK")
  BY DEF SendZdataNak
<1>2. /\ up # <<>> /\ up[1].kind = "ZNAK" /\ Turn /\ Quietly(SenderNext)
      /\ Answer(snd, rcv, down, disk, saved, up[1])
  BY <1>1, ArrivesFacts
<1>3. y \in Alive /\ Running(y) /\ y.state = "ZDATA" /\ y.file = snd.file
      /\ y.pos = snd.pos /\ y.open = snd.open
  BY <1>1, DataErrs
<1>4. Answers(s, SenderNext, <<>>) \/ SendBlock(s, SenderNext, {down}, <<>>)
  BY DEF SendZdataNak
<1> HIDE DEF y
<1>5. /\ Keeps(y, s) /\ s \in Alive
      /\ s.state = "ZRPOS" /\ s.open = y.open /\ s.xfer = y.xfer
  BY <1>3, Placed, Names1
<1> HIDE DEF s
<1>6. /\ snd.open = TRUE /\ snd.file \in Files /\ snd.pos \in 0 .. Size(snd.file)
      /\ Running(rcv) => Filing(rcv) /\ rcv.state \in {"ZRPOS_WAIT", "ZDATA"}
  BY <1>1, SendZdataFacts
<1>7. /\ s.file = snd.file /\ s.pos = snd.pos /\ s.open = TRUE /\ Running(s)
      /\ s.state \in {"ZDATA", "ZRPOS"} /\ s.state # "INIT"
  BY <1>3, <1>5, <1>6 DEF Keeps, Running
<1>8. Running(rcv) => rcv.state \in Hunting /\ rcv.state = "ZRPOS_WAIT"
  BY <1>2, <1>6 DEF Answer, Hunting
<1>9. <<>> \in Line /\ HeaderFirst(<<>>) /\ NoHeader(<<>>)
  BY EmptyLine
<1>10. CASE SendBlock(s, SenderNext, {down}, <<>>)
  <2>1. s.pos \in 0 .. Size(snd.file)
    BY <1>6, <1>7
  <2>2. QED
    BY <1>1, <1>2, <1>5, <1>7, <1>8, <1>9, <1>10, <2>1, SendBlockMoves DEF SenderActs
<1>11. CASE Answers(s, SenderNext, <<>>)
  <2>1. SenderStep(s, SenderNext, {down}, <<>>)
    BY <1>11 DEF Answers
  <2>2. Sends(scenario, s)
    BY <1>5, <1>6, <1>7 DEF Sends
  <2>3. Running(rcv) => Fits(scenario, s, rcv, <<>>, disk, saved)
    <3>1. Running(rcv) => Stage(s, rcv, disk, saved)
      BY <1>5, <1>6 DEF Stage
    <3>2. Running(rcv) => rcv.state # "ZCRC_WAIT" /\ rcv.state # "ZDATA"
      BY <1>8
    <3>3. QED
      BY <3>1, <3>2 DEF Fits, Comparing
  <2>4. result' \in Seq({"OK", "SKIP"}) /\ Logged(s, result', disk, saved)
    BY <1>7, LoggedSame DEF SenderActs
  <2>5. Spoken({down})
    BY DEF Spoken
  <2>6. QED
    BY <1>2, <1>5, <1>7, <1>8, <1>9, <2>1, <2>2, <2>3, <2>4, <2>5, SenderMoves
       DEF SenderActs
<1>12. QED
  BY <1>4, <1>10, <1>11

LEMMA SendZdataOtherKeeps ==
  ASSUME SenderActs, UNCHANGED result, SendZdataOther
  PROVE  IInv'
  BY OtherStops DEF SendZdataOther

LEMMA SenderGarbledKeeps ==
  ASSUME SenderActs, UNCHANGED result, SenderGarbled
  PROVE  IInv'
<1>1. snd.state # "INIT" /\ Arrives(up, "GARBLED")
  BY DEF SenderGarbled
<1>2. up # <<>> /\ up[1].kind = "GARBLED" /\ Turn /\ Quietly(SenderCleared)
  BY <1>1, ArrivesFacts
<1>3. PICK n \in {1, 2} : Answers(Erred(snd, n), SenderCleared, <<Header("ZNAK", 0)>>)
  BY DEF SenderGarbled
<1> DEFINE s == Erred(snd, n)
           e == Header("ZNAK", 0)
           out == <<e>>
<1>4. Wearies(snd, s)
  BY Errs
<1>5. SenderStep(s, SenderCleared, {down}, out)
  BY <1>3 DEF Answers
<1>6. e \in Heard /\ e.kind = "ZNAK"
  BY HeaderHeard DEF HeaderKinds
<1> HIDE DEF e, s
<1>7. out \in Line /\ out # <<>> /\ Len(out) = 1 /\ out[1] = e /\ ~IsData(e)
  BY <1>6, OneSaid, KindFacts
<1> HIDE DEF out
<1>8. Pending(s, rcv, e, <<>>)
  BY <1>6 DEF Pending
<1>9. /\ Sends(scenario, snd) /\ Turns(snd, rcv, down, up)
      /\ Running(rcv) => Stage(snd, rcv, disk, saved)
  BY SenderFacts DEF SenderActs
<1>10. Running(s) => s.state = snd.state /\ s.state # "ZRPOS"
  BY <1>2, <1>4, <1>9 DEF Turns, Wearies, SenderActs
<1>11. s.file = snd.file /\ s.pos = snd.pos /\ s \in Alive /\ s.state # "INIT"
  BY <1>1, <1>4 DEF Wearies
<1>12. Sends(scenario, s)
  BY <1>4, <1>9, <1>10, <1>11 DEF Sends, Wearies, SenderActs
<1>13. Running(rcv) => (Running(s) => Stage(s, rcv, disk, saved))
  BY <1>9, <1>10, <1>11 DEF Stage
<1>14. result' \in Seq({"OK", "SKIP"}) /\ Logged(s, result', disk, saved)
  BY <1>11, LoggedSame DEF SenderActs
<1>15. Spoken({down})
  BY DEF Spoken
<1>16. QED
  BY <1>2, <1>5, <1>7, <1>8, <1>10, <1>11, <1>12, <1>13, <1>14, <1>15, SenderSays
     DEF SenderActs

LEMMA SenderAbortsKeeps ==
  ASSUME SenderActs, UNCHANGED result, SenderAborts
  PROVE  IInv'
<1> DEFINE s == [snd EXCEPT !.xfer = "CRASH"]
<1>1. snd.state = "ZRPOS" /\ Answers(s, {up}, <<>>)
  BY DEF SenderAborts
<1>2. Turns(snd, rcv, down, up) /\ snd \in Alive
  BY SenderFacts DEF SenderActs
<1>3. up = <<>> /\ Turn
  BY <1>1, <1>2 DEF Turns, Turn, SenderActs
<1>4. /\ Keeps(snd, s) /\ s \in Alive
      /\ s.state = snd.state /\ s.xfer = "CRASH"
  BY <1>2, Crashed
<1> HIDE DEF s
<1>5. Quietly({up})
  BY <1>3 DEF Quietly
<1>6. ~Running(s) /\ s.state # "INIT" /\ s.file = snd.file /\ s.pos = snd.pos
  BY <1>1, <1>4 DEF Running, Keeps
<1>7. QED
  BY <1>1, <1>3, <1>4, <1>5, <1>6, SenderEnds DEF SenderActs

LEMMA SenderHandlesKeeps ==
  ASSUME IInv, SenderHandles
  PROVE  IInv'
<1>1. SenderActs
  BY DEF SenderHandles, SenderActs
<1>2. CASE SendZfileWait
  BY <1>1, <1>2, SendZfileWaitKeeps
<1>3. CASE SendZeofWait
  BY <1>1, <1>3, SendZeofWaitKeeps
<1>4. CASE SenderOpens /\ UNCHANGED result
  BY <1>1, <1>4, SenderOpensKeeps
<1>5. CASE SendZrqinitWait /\ UNCHANGED result
  BY <1>1, <1>5, SendZrqinitWaitKeeps
<1>6. CASE SendZsinitWait /\ UNCHANGED result
  BY <1>1, <1>6, SendZsinitWaitKeeps
<1>7. CASE SendZdata /\ UNCHANGED result
  BY <1>1, <1>7, SendZdataKeeps DEF SenderActs
<1>8. CASE SendZdataSkip /\ UNCHANGED result
  BY <1>1, <1>8, SendZdataSkipKeeps
<1>9. CASE SendZdataRpos /\ UNCHANGED result
  BY <1>1, <1>9, SendZdataRposKeeps
<1>10. CASE SendZdataAck /\ UNCHANGED result
  BY <1>1, <1>10, SendZdataAckKeeps
<1>11. CASE SendZdataNak /\ UNCHANGED result
  BY <1>1, <1>11, SendZdataNakKeeps
<1>12. CASE SendZdataOther /\ UNCHANGED result
  BY <1>1, <1>12, SendZdataOtherKeeps
<1>13. CASE SendZfinWait /\ UNCHANGED result
  BY <1>1, <1>13, SendZfinWaitKeeps
<1>14. CASE SenderGarbled /\ UNCHANGED result
  BY <1>1, <1>14, SenderGarbledKeeps
<1>15. CASE SenderAborts /\ UNCHANGED result
  BY <1>1, <1>15, SenderAbortsKeeps
<1>16. QED
  BY <1>2, <1>3, <1>4, <1>5, <1>6, <1>7, <1>8, <1>9, <1>10, <1>11, <1>12, <1>13,
     <1>14, <1>15 DEF SenderHandles

\* When all is quiet nothing is on its way.
LEMMA QuietFacts ==
  ASSUME IInv, Quiet
  PROVE  up = <<>> /\ down = <<>>
<1>1. ASSUME NEW L \in Line PROVE ~Arrives(L, "CUT")
  <2>1. SUFFICES ASSUME L # <<>> PROVE Head(L).kind # "CUT"
    BY DEF Arrives
  <2>2. Head(L) = L[1] /\ L[1] \in Heard
    BY <1>1, <2>1, TailFacts DEF Line
  <2>3. QED
    BY <2>2 DEF Heard
<1>2. up \in Line /\ down \in Line
  BY DEF IInv, Typed
<1>3. QED
  BY <1>1, <1>2 DEF Quiet, Waited

LEMMA SenderTimesOutKeeps ==
  ASSUME IInv, SenderTimesOut
  PROVE  IInv'
<1> DEFINE s == TimedOut(snd)
<1>1. SenderActs /\ UNCHANGED result /\ Quiet
  BY DEF SenderTimesOut, SenderTimeout, OnTime, SenderActs, SenderUnchanged
<1>2. SenderResends(s)
  BY DEF SenderTimesOut, SenderTimeout
<1>3. up = <<>> /\ down = <<>>
  BY <1>1, QuietFacts
<1>4. Quietly({up}) /\ Turn
  BY <1>3 DEF Quietly, Turn, Mute
<1>5. /\ snd \in Alive /\ Sends(scenario, snd)
      /\ Running(rcv) => Stage(snd, rcv, disk, saved)
  BY <1>1, SenderFacts DEF SenderActs
<1>6. Wearies(snd, s)
  BY <1>1, <1>5, TimedOutFacts DEF SenderActs
<1> HIDE DEF s
<1>7. s \in Alive /\ s.file = snd.file /\ s.pos = snd.pos /\ (Running(s) => s.open = snd.open)
  BY <1>6 DEF Wearies
<1>8. result' \in Seq({"OK", "SKIP"}) /\ Logged(s, result', disk, saved)
  BY <1>1, <1>7, LoggedSame
<1>9. CASE snd.state = "ZRQINIT_WAIT" /\ SendZrqinit(s, {up})
  BY <1>1, <1>3, <1>4, <1>6, <1>9, SendZrqinitMoves DEF SenderActs
<1>10. CASE snd.state = "ZSINIT_WAIT" /\ SendZsinit(s, {up})
  BY <1>1, <1>3, <1>4, <1>6, <1>10, SendZsinitMoves DEF SenderActs
<1>11. CASE snd.state = "ZFILE_WAIT" /\ SendZfile(s, {up})
  <2>1. Carrying(s, snd.file)
    BY <1>1, <1>6, <1>11, CarryingOn DEF SenderActs
  <2>2. Running(rcv) => \/ rcv.state \in {"ZRINIT_WAIT", "ZCRC_WAIT", "ZRPOS_WAIT"}
                        \/ rcv.state = "ZDATA" /\ rcv.type = "ZFILE"
    BY <1>5, <1>11 DEF Stage
  <2>3. QED
    BY <1>1, <1>3, <1>4, <1>8, <1>11, <2>1, <2>2, SendZfileMoves DEF SenderActs
<1>12. CASE snd.state = "ZDATA"
            /\ Answers([s EXCEPT !.ackReq = TRUE, !.waiting = TRUE], {up},
                       <<Packet("ZCRCW", 0, <<>>)>>)
  <2> DEFINE u == [s EXCEPT !.ackReq = TRUE, !.waiting = TRUE]
             p == Packet("ZCRCW", 0, <<>>)
             n == snd.pos
  <2>1. /\ snd.open = TRUE /\ snd.file \in Files /\ n \in 0 .. Size(snd.file)
        /\ Size(snd.file) \in Nat
        /\ Running(rcv) => Filing(rcv) /\ rcv.state \in {"ZRPOS_WAIT", "ZDATA"}
    BY <1>1, <1>12, SendZdataFacts
  <2>2. /\ u \in Alive /\ u.file = s.file /\ u.pos = s.pos /\ u.state = s.state
        /\ u.open = s.open /\ u.xfer = s.xfer /\ u.waiting = TRUE
    BY <1>1, <1>7, AtPosition, 0 \in Nat
  <2>3. SenderStep(u, {up}, {down}, <<p>>)
    BY <1>12 DEF Answers
  <2>4. /\ p \in Heard /\ IsData(p) /\ p.kind = "ZCRCW" /\ p.kind \in Good
        /\ Carries(snd.file, p, n, n)
    BY <2>1, QuestionHeard, AskFacts, 0 \in Nat DEF Good
  <2> HIDE DEF u, p
  <2>5. Append(<<>>, p) = <<p>> /\ <<>> \in Line
    BY <2>4, OneSaid, EmptyLine
  <2> DEFINE head == <<>>
  <2>6. SenderStep(u, {up}, {down}, Append(head, p)) /\ head \in Line /\ head = <<>>
    BY <2>3, <2>5
  <2> HIDE DEF head
  <2>7. \/ Running(u) /\ u.state = "ZDATA"
        \/ ~Running(u) /\ u.state = "ABORT"
    BY <1>6, <1>12, <2>2 DEF Wearies, Running
  <2>8. u.file = snd.file /\ u.pos = n /\ (Running(u) => u.open = TRUE)
    BY <1>7, <2>1, <2>2 DEF Running
  <2> HIDE DEF n
  <2>9. n \in n .. Size(snd.file) /\ u.pos \in n .. Size(snd.file)
    BY <2>1, <2>8
  <2>10. Carries(snd.file, p, n, u.pos)
    BY <2>4, <2>8
  <2>11. Running(rcv) => \/ n = rcv.pos
                         \/ head = <<>> /\ (rcv.state = "ZRPOS_WAIT" \/ rcv.junk # "NO")
    <3>1. ASSUME Running(rcv), rcv.state = "ZDATA", rcv.junk = "NO" PROVE n = rcv.pos
      <4>1. rcv.prior = "ZRPOS_WAIT"
        BY <2>1, <3>1 DEF Filing
      <4>2. QED
        BY <1>4, <3>1, <4>1, TurnFacts DEF n
    <3>2. QED
      BY <2>1, <2>6, <3>1
  <2>12. Spoken({down}) /\ u.state # "INIT" /\ u.state # "ZRPOS"
    BY <2>7 DEF Spoken
  <2>13. QED
    BY <1>1, <1>3, <1>4, <1>12, <2>1, <2>2, <2>4, <2>6, <2>7, <2>8, <2>9, <2>10,
       <2>11, <2>12, SendsData DEF SenderActs
<1>13. CASE snd.state = "ZEOF_WAIT" /\ SendZeof(s, {up}, {down}, <<>>)
  <2>1. snd.open = TRUE
    BY <1>1, <1>5, <1>13 DEF Sends, SenderActs
  <2>2. Running(rcv) => \/ Filing(rcv) /\ rcv.pos = Size(snd.file)
                        \/ rcv.state = "ZRINIT_WAIT" /\ snd.state = "ZEOF_WAIT"
    BY <1>5, <1>13 DEF Stage
  <2>3. QED
    BY <1>1, <1>3, <1>4, <1>7, <1>13, <2>1, <2>2, SendZeofMoves DEF SenderActs
<1>14. CASE snd.state = "ZFIN_WAIT" /\ SendZfin(s, {up})
  <2>1. s.file = Len(Batch) + 1 /\ (Running(rcv) => rcv.state = "ZRINIT_WAIT")
    BY <1>1, <1>5, <1>7, <1>14 DEF Sends, Stage, SenderActs
  <2>2. QED
    BY <1>1, <1>3, <1>4, <1>7, <1>8, <1>14, <2>1, SendZfinMoves DEF SenderActs
<1>15. QED
  BY <1>2, <1>9, <1>10, <1>11, <1>12, <1>13, <1>14 DEF SenderResends

-----------------------------------------------------------------------------
(***************************************************************************)
(* How the receiver's disk changes: a file that is received grows along    *)
(* ours, new ones are empty, all others stay as they are.                  *)
(***************************************************************************)
GrownOf(f, old, new) ==
  \/ new = old
  \/ \E m, n \in 0 .. Size(f) : m < n /\ old = Beginning(f, m) /\ new = Beginning(f, n)

DiskGrows(d, e) ==
  \A f \in Files :
    /\ Len(d[f]) <= Len(e[f])
    /\ \A k \in 1 .. Len(e[f]) :
         /\ k <= Len(d[f]) => GrownOf(f, d[f][k], e[f][k])
         /\ k > Len(d[f]) => e[f][k] = <<>>

SavedGrows(v, w) == \A f \in Files : v[f] # <<>> => w[f] # <<>>

Disks == [Files -> Seq(Seq(Units))]

LEMMA DiskFacts ==
  ASSUME NEW d \in Disks, NEW f \in Files
  PROVE  /\ d[f] \in Seq(Seq(Units)) /\ Len(d[f]) \in Nat /\ DOMAIN d[f] = 1 .. Len(d[f])
         /\ \A k \in 1 .. Len(d[f]) : d[f][k] \in Seq(Units) /\ Len(d[f][k]) \in Nat
         /\ d[f] # <<>> => 1 \in 1 .. Len(d[f])
<1>1. d[f] \in Seq(Seq(Units))
  BY DEF Disks
<1>2. d[f] # <<>> => Len(d[f]) >= 1
  BY <1>1, EmptySeq
<1>3. QED
  BY <1>1, <1>2

LEMMA GrowsSame ==
  ASSUME NEW d \in Disks
  PROVE  DiskGrows(d, d)
  BY DiskFacts DEF DiskGrows, GrownOf

\* A name with a suffix.
LEMMA GrowsNew ==
  ASSUME NEW d \in Disks, NEW f \in Files, NEW e, e = [d EXCEPT ![f] = Append(@, <<>>)]
  PROVE  /\ e \in Disks /\ DiskGrows(d, e)
         /\ Len(e[f]) = Len(d[f]) + 1 /\ e[f][Len(d[f]) + 1] = <<>>
<1> DEFINE n == Len(d[f])
           a == Append(d[f], <<>>)
<1>1. d[f] \in Seq(Seq(Units)) /\ <<>> \in Seq(Units) /\ n \in Nat
  BY DiskFacts
<1>2. /\ a \in Seq(Seq(Units)) /\ Len(a) = n + 1 /\ a[n + 1] = <<>>
      /\ \A k \in 1 .. n : a[k] = d[f][k]
  BY <1>1, AppendProperties
<1>3. e = [d EXCEPT ![f] = a]
  OBVIOUS
<1> HIDE DEF a, n
<1>4. e \in Disks /\ e[f] = a /\ \A g \in Files : g # f => e[g] = d[g]
  BY <1>2, <1>3 DEF Disks
<1>5. DiskGrows(d, e)
  <2>1. SUFFICES ASSUME NEW g \in Files
                 PROVE  /\ Len(d[g]) <= Len(e[g])
                        /\ \A k \in 1 .. Len(e[g]) :
                             /\ k <= Len(d[g]) => GrownOf(g, d[g][k], e[g][k])
                             /\ k > Len(d[g]) => e[g][k] = <<>>
    BY DEF DiskGrows
  <2>2. CASE g # f
    BY <1>4, <2>2, DiskFacts DEF GrownOf
  <2>3. CASE g = f
    <3>1. Len(d[g]) = n /\ Len(e[g]) = n + 1 /\ n \in Nat
      BY <1>1, <1>2, <1>4, <2>3 DEF n
    <3>2. ASSUME NEW k \in 1 .. n + 1
          PROVE  /\ k <= n => GrownOf(g, d[g][k], e[g][k])
                 /\ k > n => e[g][k] = <<>>
      <4>1. k <= n => k \in 1 .. n
        BY <3>1
      <4>2. k > n => k = n + 1
        BY <3>1
      <4>3. QED
        BY <1>2, <1>4, <2>3, <4>1, <4>2 DEF GrownOf
    <3>3. QED
      BY <3>1, <3>2
  <2>4. QED
    BY <2>2, <2>3
<1>6. QED
  BY <1>2, <1>4, <1>5 DEF n

\* A block is written.
Written(d, f, v, block) == [d EXCEPT ![f][v] = @ \o block]

LEMMA GrowsBlock ==
  ASSUME NEW d \in Disks, NEW f \in Files, NEW v \in 1 .. Len(d[f]),
         NEW m \in 0 .. Size(f), NEW n \in m .. Size(f), d[f][v] = Beginning(f, m),
         NEW e, e = Written(d, f, v, SubSeq(Batch[f], m + 1, n))
  PROVE  /\ e \in Disks /\ DiskGrows(d, e)
         /\ v \in 1 .. Len(e[f]) /\ e[f][v] = Beginning(f, n)
<1> DEFINE b == Beginning(f, n)
           a == [d[f] EXCEPT ![v] = b]
           size == Len(d[f])
<1>1. Size(f) \in Nat /\ n \in 0 .. Size(f) /\ m <= n /\ n \in Nat /\ m \in Nat
  BY FileFacts
<1>2. b \in Seq(Units)
  BY <1>1, BeginningFacts
<1>3. d[f][v] \o SubSeq(Batch[f], m + 1, n) = b
  BY BeginningGrows
<1>4. d[f] \in Seq(Seq(Units)) /\ size \in Nat /\ DOMAIN d[f] = 1 .. size
  BY DiskFacts
<1>5. e = [d EXCEPT ![f] = a]
  BY <1>3 DEF Written
<1> HIDE DEF b
<1>6. /\ a \in Seq(Seq(Units)) /\ Len(a) = size /\ a[v] = b
      /\ \A k \in 1 .. size : k # v => a[k] = d[f][k]
  BY <1>2, <1>4
<1> HIDE DEF a, size
<1>7. e \in Disks /\ e[f] = a /\ \A g \in Files : g # f => e[g] = d[g]
  BY <1>5, <1>6 DEF Disks
<1>8. DiskGrows(d, e)
  <2>1. SUFFICES ASSUME NEW g \in Files
                 PROVE  /\ Len(d[g]) <= Len(e[g])
                        /\ \A k \in 1 .. Len(e[g]) :
                             /\ k <= Len(d[g]) => GrownOf(g, d[g][k], e[g][k])
                             /\ k > Len(d[g]) => e[g][k] = <<>>
    BY DEF DiskGrows
  <2>2. CASE g # f
    BY <1>7, <2>2, DiskFacts DEF GrownOf
  <2>3. CASE g = f
    <3>1. Len(d[g]) = size /\ Len(e[g]) = size /\ size \in Nat
      BY <1>4, <1>6, <1>7, <2>3 DEF size
    <3>2. ASSUME NEW k \in 1 .. size PROVE GrownOf(g, d[g][k], e[g][k])
      <4>1. CASE k # v
        BY <1>6, <1>7, <2>3, <4>1 DEF GrownOf
      <4>2. CASE k = v
        <5>1. d[g][k] = Beginning(f, m) /\ e[g][k] = Beginning(f, n)
          BY <1>6, <1>7, <2>3, <4>2 DEF b
        <5>2. CASE m = n
          BY <5>1, <5>2 DEF GrownOf
        <5>3. CASE m < n
          BY <1>1, <2>3, <5>1, <5>3 DEF GrownOf
        <5>4. QED
          BY <1>1, <5>2, <5>3
      <4>3. QED
        BY <4>1, <4>2
    <3>3. QED
      BY <3>1, <3>2
  <2>4. QED
    BY <2>2, <2>3
<1>9. QED
  BY <1>6, <1>7, <1>8 DEF b, size

LEMMA WholeGrows ==
  ASSUME NEW d \in Disks, NEW e \in Disks, DiskGrows(d, e), NEW f \in Files, IsWhole(f, d)
  PROVE  IsWhole(f, e)
<1>1. PICK k \in 1 .. Len(d[f]) : d[f][k] = Batch[f]
  BY DiskFacts DEF IsWhole
<1>2. Len(d[f]) \in Nat /\ Len(e[f]) \in Nat /\ DOMAIN e[f] = 1 .. Len(e[f])
  BY DiskFacts
<1>3. Len(d[f]) <= Len(e[f])
  BY DEF DiskGrows
<1>4. k \in 1 .. Len(e[f]) /\ k <= Len(d[f])
  BY <1>2, <1>3
<1>5. GrownOf(f, d[f][k], e[f][k])
  BY <1>4 DEF DiskGrows
<1>6. e[f][k] = Batch[f]
  <2>1. SUFFICES ASSUME NEW m \in 0 .. Size(f), NEW n \in 0 .. Size(f),
                        m < n, Batch[f] = Beginning(f, m)
                 PROVE  FALSE
    BY <1>1, <1>5 DEF GrownOf
  <2>2. m = Size(f)
    BY <2>1, BeginningFacts
  <2>3. QED
    BY <2>1, <2>2, FileFacts
<1>7. QED
  BY <1>2, <1>4, <1>6 DEF IsWhole

LEMMA OursGrows ==
  ASSUME NEW c, NEW d \in Disks, NEW e \in Disks, DiskGrows(d, e), OursKept(c, d)
  PROVE  OursKept(c, e)
<1>1. SUFFICES ASSUME HeadersFail(c), NEW f \in Files, e[f] # <<>> PROVE Ours(f, e[f])
  BY DEF OursKept, Ours
<1>2. Ours(f, d[f])
  BY <1>1 DEF OursKept
<1>3. /\ 1 \in 1 .. Len(e[f]) /\ (d[f] # <<>> => 1 \in 1 .. Len(d[f]))
      /\ Len(d[f]) \in Nat /\ (d[f] = <<>> => Len(d[f]) = 0)
  BY <1>1, DiskFacts
<1>4. CASE d[f] = <<>>
  <2>1. 1 > Len(d[f])
    BY <1>3, <1>4
  <2>2. e[f][1] = <<>>
    BY <1>3, <2>1 DEF DiskGrows
  <2>3. e[f][1] = Beginning(f, 0) /\ Len(e[f][1]) = 0
    <3>1. 0 \in 0 .. Size(f)
      BY FileFacts
    <3>2. QED
      BY <2>2, <3>1, BeginningFacts
  <2>4. QED
    BY <2>3 DEF Ours
<1>5. CASE d[f] # <<>>
  <2>1. 1 <= Len(d[f])
    BY <1>3, <1>5
  <2>2. GrownOf(f, d[f][1], e[f][1])
    BY <1>3, <2>1 DEF DiskGrows
  <2>3. CASE e[f][1] = d[f][1]
    BY <1>2, <1>5, <2>3 DEF Ours
  <2>4. CASE e[f][1] # d[f][1]
    <3>1. PICK n \in 0 .. Size(f) : e[f][1] = Beginning(f, n)
      BY <2>2, <2>4 DEF GrownOf
    <3>2. Len(e[f][1]) = n
      BY <3>1, BeginningFacts
    <3>3. QED
      BY <3>1, <3>2 DEF Ours
  <2>5. QED
    BY <2>3, <2>4
<1>6. QED
  BY <1>4, <1>5

LEMMA StoredGrows ==
  ASSUME IInv, ReceiverUnchanged, disk' \in Disks, DiskGrows(disk, disk'),
         Saved(saved'), SavedGrows(saved, saved')
  PROVE  Stored'
<1>1. /\ disk \in Disks /\ OursKept(scenario, disk) /\ Logged(snd, result, disk, saved)
      /\ scenario' = scenario /\ snd' = snd /\ result' = result
  BY DEF IInv, Typed, Stored, Disks, ReceiverUnchanged
<1>2. OursKept(scenario, disk')
  BY <1>1, OursGrows
<1>3. Logged(snd, result, disk', saved')
  <2>1. \A f \in 1 .. Len(result) : f \in Files
    <3>1. Len(result) = snd.file - 1 /\ snd.file \in 1 .. Len(Batch) + 1
      BY <1>1 DEF Logged
    <3>2. Len(Batch) \in Nat /\ Files = 1 .. Len(Batch)
      BY FileFacts
    <3>3. QED
      BY <3>1, <3>2
  <2>2. \A f \in 1 .. Len(result) : IsWhole(f, disk')
    BY <1>1, <2>1, WholeGrows DEF Logged
  <2>3. QED
    BY <1>1, <2>1, <2>2 DEF Logged, SavedGrows
<1>4. QED
  BY <1>1, <1>2, <1>3 DEF Stored

-----------------------------------------------------------------------------
(***************************************************************************)
(* The receiver's actions.  It takes a header only when its answers have   *)
(* been taken, so what it says meets an empty line.                        *)
(***************************************************************************)
ReceiverActs ==
  IInv /\ ReceiverUnchanged /\ Running(rcv) /\ faults' \in 0 .. scenario.most

Storing ==
  /\ disk' \in Disks /\ DiskGrows(disk, disk')
  /\ saved' \in Disks /\ Saved(saved') /\ SavedGrows(saved, saved')

Listens(lefts) ==
  /\ up = <<>> /\ (Running(snd) => snd.state \notin {"INIT", "ZRPOS"})
  /\ \A X \in lefts : X \in Line /\ NoHeader(X) /\ (snd.state = "INIT" => X = <<>>)

\* The receiver goes on with the file it has, or stops, or saves it.
Proceeds(r2) ==
  \/ /\ saved' = saved
     /\ Running(r2) /\ Filing(rcv) =>
          Filing(r2) /\ r2.file = rcv.file /\ rcv.pos <= r2.pos
     /\ r2.xfer = "END" => Len(result) = Len(Batch)
  \/ /\ Running(r2) /\ ~Filing(r2) /\ Filing(rcv) /\ rcv.pos = Size(rcv.file)
     /\ saved' = [saved EXCEPT ![rcv.file] = Append(@, Batch[rcv.file])]

ReceiverKeeps == IInv' /\ DiskGrows(disk, disk') /\ Proceeds(rcv')

\* What the step makes of the receiver fits where the sender is.
Agrees(r2, lefts, out) ==
  /\ r2.state # "INIT" /\ (Running(r2) => r2.state \in Hunting \cup {"ZDATA"})
  /\ Receives(snd, r2, disk')
  /\ Running(snd) /\ Running(r2) => Stage(snd, r2, disk', saved')
  /\ Running(r2) => \A X \in lefts : Collecting(snd, r2, X)
  /\ Running(snd) /\ out # <<>> =>
       \A X \in lefts :
         /\ Answer(snd, r2, IF Running(r2) THEN X ELSE <<>>, disk', saved', out[1])
         /\ Running(r2) /\ r2.state = "ZDATA" =>
              X = <<>> /\ snd.state = "ZDATA" /\ snd.waiting = TRUE /\ snd.streaming = TRUE
  /\ ~HeadersFail(scenario) /\ Running(snd) /\ Running(r2) /\ r2.state = "ZCRC_WAIT" =>
       out # <<>> /\ out[1].kind = "ZCRC"
  /\ Proceeds(r2)

LEMMA KeptStores ==
  ASSUME IInv, Kept
  PROVE  Storing
<1>1. disk \in Disks /\ saved \in Disks /\ Saved(saved) /\ disk' = disk /\ saved' = saved
  BY DEF IInv, Typed, Stored, Disks, Kept
<1>2. DiskGrows(disk, disk')
  BY <1>1, GrowsSame
<1>3. QED
  BY <1>1, <1>2 DEF Storing, SavedGrows

LEMMA ReceiverMoves ==
  ASSUME ReceiverActs, Storing, NEW r2 \in Alive, NEW lefts, Listens(lefts),
         NEW out \in Line, Len(out) <= 1, ReceiverStep(r2, lefts, out),
         Agrees(r2, lefts, out)
  PROVE  ReceiverKeeps
<1> DEFINE U == IF Running(snd) THEN out ELSE <<>>
<1>1. PICK X \in lefts :
        /\ rcv' = r2
        /\ down' = IF Running(r2) THEN X ELSE <<>>
        /\ up' = IF Running(snd) THEN up \o out ELSE <<>>
  BY DEF ReceiverStep
<1> DEFINE D == IF Running(r2) THEN X ELSE <<>>
<1>2. X \in Line /\ NoHeader(X) /\ (snd.state = "INIT" => X = <<>>)
  BY DEF Listens
<1>3. up = <<>> /\ (Running(snd) => snd.state \notin {"INIT", "ZRPOS"})
  BY DEF Listens
<1>4. up' = U
  <2>1. out \in Seq(Heard)
    BY DEF Line
  <2>2. <<>> \o out = out
    BY <2>1
  <2>3. QED
    BY <1>1, <1>3, <2>2
<1>5. down' = D
  BY <1>1
<1>6. D \in Line /\ NoHeader(D) /\ OneHeader(D) /\ HeaderFirst(D)
  <2>1. D \in Line /\ NoHeader(D)
    BY <1>2, EmptyLine
  <2> HIDE DEF D
  <2>2. QED
    <3>1. Len(D) \in Nat
      BY <2>1, LineFacts
    <3>2. \A i \in 2 .. Len(D) : i \in 1 .. Len(D)
      BY <3>1
    <3>3. QED
      BY <2>1, <3>2 DEF NoHeader, OneHeader, HeaderFirst
<1>7. U \in Line /\ Len(U) <= 1
  BY EmptyLine
<1>8. (~Running(snd) => U = <<>>) /\ (~Running(r2) => D = <<>>)
      /\ (snd.state = "INIT" => U = <<>> /\ D = <<>>)
      /\ (U # <<>> => Running(snd) /\ U = out)
      /\ (Running(r2) => D = X)
  BY <1>2, <1>3
<1>81. U # <<>> => Answer(snd, r2, D, disk', saved', U[1])
  BY DEF Agrees
<1> HIDE DEF D, U
<1>9. Turns(snd, r2, D, U)
  <2>1. U # <<>> => Mute(r2, D)
    BY <1>6, <1>8 DEF Mute, Agrees
  <2>2. r2.state # "INIT"
    BY DEF Agrees
  <2>3. Running(r2) /\ r2.state = "ZDATA" /\ U # <<>> =>
          snd.state = "ZDATA" /\ snd.waiting = TRUE /\ snd.streaming = TRUE
    BY <1>8 DEF Agrees
  <2>4. QED
    BY <1>3, <1>6, <1>7, <1>8, <2>1, <2>2, <2>3 DEF Turns
<1>10. Downward(snd, r2, D)
  <2>1. SUFFICES ASSUME Running(r2)
                 PROVE  /\ Collecting(snd, r2, D)
                        /\ \A h \in 1 .. Len(D) : Pending(snd, r2, D[h], Behind(D, h))
    BY DEF Downward
  <2>2. Collecting(snd, r2, D)
    BY <1>8, <2>1 DEF Agrees
  <2>3. \A h \in 1 .. Len(D) : Pending(snd, r2, D[h], Behind(D, h))
    BY <1>6, DataPending DEF NoHeader
  <2>4. QED
    BY <2>2, <2>3
<1>11. Comparing(scenario, snd, r2, D, U)
  <2>1. SUFFICES ASSUME ~HeadersFail(scenario), Running(r2), r2.state = "ZCRC_WAIT"
                 PROVE  /\ \A i \in 1 .. Len(D) : D[i].kind # "ZFILE"
                        /\ Running(snd) => U # <<>> /\ U[1].kind = "ZCRC"
    BY DEF Comparing
  <2>2. \A i \in 1 .. Len(D) : D[i].kind # "ZFILE"
    BY <1>6, KindFacts DEF NoHeader
  <2>3. Running(snd) => U # <<>> /\ U[1].kind = "ZCRC"
    BY <2>1 DEF Agrees, U
  <2>4. QED
    BY <2>2, <2>3
<1>12. /\ scenario' = scenario /\ snd' = snd /\ result' = result /\ session' = session
       /\ faults' \in 0 .. scenario.most
  BY DEF ReceiverActs, ReceiverUnchanged
<1>13. Typed'
  BY <1>1, <1>4, <1>5, <1>6, <1>7, <1>12 DEF Typed, ReceiverActs, IInv, Storing, Disks
<1>14. Conversation'
  <2>1. Sends(scenario, snd)
    BY DEF ReceiverActs, IInv, Conversation, Conv
  <2>2. Receives(snd, r2, disk')
        /\ (Running(snd) /\ Running(r2) => Stage(snd, r2, disk', saved'))
    BY DEF Agrees
  <2>3. Upward(snd, r2, D, U, disk', saved')
    BY <1>81 DEF Upward
  <2>4. Conv(scenario, snd, r2, D, U, disk', saved')
    BY <1>9, <1>10, <1>11, <2>1, <2>2, <2>3 DEF Conv
  <2>5. QED
    BY <1>1, <1>4, <1>5, <1>12, <2>4 DEF Conversation
<1>15. Stored'
  BY StoredGrows DEF ReceiverActs, Storing
<1>16. Proceeds(rcv') /\ DiskGrows(disk, disk')
  BY <1>1 DEF Agrees, Storing
<1>17. QED
  BY <1>13, <1>14, <1>15, <1>16 DEF IInv, ReceiverKeeps

LEMMA ReceiverFacts ==
  ASSUME ReceiverActs
  PROVE  /\ rcv \in Alive /\ rcv \in Status /\ Wearies(rcv, rcv) /\ Running(rcv)
         /\ Receives(snd, rcv, disk) /\ Sends(scenario, snd)
         /\ Running(snd) => Stage(snd, rcv, disk, saved)
         /\ Turns(snd, rcv, down, up) /\ Downward(snd, rcv, down)
         /\ rcv.state \in Hunting \cup {"INIT", "ZDATA"}
         /\ (rcv.state # "ZDATA" => rcv.junk = "NO")
         /\ (Filing(rcv) => HasPart(snd, rcv, disk))
         /\ (rcv.prior = "ZSKIP" => rcv.open = FALSE)
  BY AliveIs DEF ReceiverActs, IInv, Typed, Conversation, Conv, Wearies, Receives

\* A header, or what is collected, is taken from the line.
LEMMA HeardFacts ==
  ASSUME ReceiverActs, down # <<>>, ~IsData(down[1]) \/ rcv.state = "ZDATA"
  PROVE  /\ Head(down) = down[1] /\ down[1] \in Heard
         /\ down = <<down[1]>> \o Tail(down)
         /\ down[1].n \in Nat /\ down[1].data \in Seq(Units)
         /\ Pending(snd, rcv, down[1], Tail(down)) /\ Collecting(snd, rcv, down)
         /\ Tail(down) \in Line
         /\ Listens(ReceiverNext) /\ Listens(ReceiverCleared)
<1>1. down \in Seq(Heard) /\ Turns(snd, rcv, down, up) /\ Downward(snd, rcv, down)
  BY ReceiverFacts DEF ReceiverActs, IInv, Typed, Line
<1>2. /\ Len(down) \in Nat /\ Len(down) >= 1 /\ Head(down) = down[1] /\ down[1] \in Heard
      /\ Tail(down) \in Seq(Heard) /\ Len(Tail(down)) = Len(down) - 1
      /\ \A i \in 1 .. Len(down) - 1 : Tail(down)[i] = down[i + 1]
      /\ Behind(down, 1) = Tail(down)
      /\ down = <<down[1]>> \o Tail(down)
  BY <1>1, TailFacts
<1>3. 1 \in 1 .. Len(down)
  BY <1>2
<1>4. \A i \in 2 .. Len(down) : IsData(down[i])
  <2>1. CASE rcv.state = "ZDATA"
    BY <1>1, <2>1 DEF Turns, HeaderFirst, ReceiverActs
  <2>2. CASE ~IsData(down[1])
    <3>1. SUFFICES ASSUME NEW i \in 2 .. Len(down) PROVE IsData(down[i])
      OBVIOUS
    <3>2. i \in 1 .. Len(down) /\ i # 1
      BY <1>2
    <3>3. QED
      BY <1>1, <1>3, <2>2, <3>2 DEF Turns, OneHeader
  <2>3. QED
    BY <2>1, <2>2
<1>5. NoHeader(Tail(down)) /\ Tail(down) \in Line
  <2>1. SUFFICES ASSUME NEW i \in 1 .. Len(down) - 1 PROVE IsData(Tail(down)[i])
    BY <1>2 DEF NoHeader, Line
  <2>2. i + 1 \in 2 .. Len(down)
    BY <1>2
  <2>3. QED
    BY <1>2, <1>4, <2>2
<1>6. ~Mute(rcv, down)
  <2>1. SUFFICES ASSUME rcv.state \in Hunting, NoHeader(down) PROVE FALSE
    BY DEF Mute
  <2>2. rcv.state # "ZDATA"
    BY <2>1 DEF Hunting
  <2>3. QED
    BY <1>3, <2>1, <2>2 DEF NoHeader
<1>7. up = <<>> /\ snd.state # "INIT" /\ (Running(snd) => snd.state # "ZRPOS")
  BY <1>1, <1>6 DEF Turns
<1>8. \A X \in ReceiverNext \cup ReceiverCleared : X \in Line /\ NoHeader(X)
  <2>1. \A X \in Rests(Tail(down)) : X \in Line /\ NoHeader(X)
    BY <1>2, <1>5, RestsFacts DEF Line
  <2>2. QED
    BY <1>5, <2>1 DEF ReceiverNext, ReceiverCleared
<1>9. Listens(ReceiverNext) /\ Listens(ReceiverCleared)
  BY <1>7, <1>8 DEF Listens
<1>10. Pending(snd, rcv, down[1], Tail(down)) /\ Collecting(snd, rcv, down)
  BY <1>1, <1>2, <1>3 DEF Downward, ReceiverActs
<1>11. down[1].n \in Nat /\ down[1].data \in Seq(Units)
  BY <1>2 DEF Heard, Elements
<1>12. QED
  BY <1>2, <1>5, <1>9, <1>10, <1>11

LEMMA HeaderArrives ==
  ASSUME ReceiverActs, NEW kind, Arrives(down, kind),
         kind \in HeaderKinds \cup {"GARBLED"}
  PROVE  /\ down # <<>> /\ Head(down) = down[1] /\ down[1].kind = kind /\ ~IsData(down[1])
         /\ down[1].n \in Nat /\ down[1].data \in Seq(Units)
         /\ Pending(snd, rcv, down[1], Tail(down)) /\ Tail(down) \in Line
         /\ Listens(ReceiverNext) /\ Listens(ReceiverCleared)
<1>1. down # <<>> /\ Head(down).kind = kind
  BY DEF Arrives
<1>2. down \in Seq(Heard)
  BY DEF ReceiverActs, IInv, Typed, Line
<1>3. Head(down) = down[1]
  BY <1>1, <1>2, TailFacts
<1>4. ~IsData(down[1])
  BY <1>1, <1>3, KindFacts DEF HeaderKinds
<1>5. QED
  BY <1>1, <1>3, <1>4, HeardFacts

\* A receiver that is no longer there.
LEMMA ReceiverEnds ==
  ASSUME ReceiverActs, Storing, saved' = saved, NEW r2 \in Alive,
         ~Running(r2), r2.open = FALSE, r2.state # "INIT",
         r2.xfer = "END" => Len(result) = Len(Batch),
         NEW lefts, Listens(lefts), NEW out \in Line, Len(out) <= 1,
         Running(snd) /\ out # <<>> =>
           \A D : Answer(snd, r2, D, disk', saved', out[1]),
         ReceiverStep(r2, lefts, out)
  PROVE  ReceiverKeeps
<1>1. Receives(snd, r2, disk')
  BY DEF Receives
<1>2. Proceeds(r2)
  BY DEF Proceeds
<1>3. Agrees(r2, lefts, out)
  BY <1>1, <1>2 DEF Agrees
<1>4. QED
  BY <1>3, ReceiverMoves

LEMMA ReceiverStops ==
  ASSUME ReceiverActs, Kept, NEW lefts, Listens(lefts),
         ReceiverStep(Stopped(rcv), lefts, <<>>)
  PROVE  ReceiverKeeps
<1> DEFINE r2 == Stopped(rcv)
<1>1. /\ Keeps(rcv, r2) /\ Wearies(rcv, r2)
      /\ r2.xfer = "ABORT" /\ r2.state = "ABORT" /\ r2.open = FALSE
  BY ReceiverFacts, StoppedFacts
<1>2. ReceiverStep(r2, lefts, <<>>)
  OBVIOUS
<1> HIDE DEF r2
<1>3. ~Running(r2) /\ r2.state # "INIT" /\ r2.xfer # "END" /\ r2 \in Alive
  BY <1>1 DEF Running, Wearies
<1>4. Storing /\ saved' = saved
  BY KeptStores DEF ReceiverActs, Kept
<1>5. <<>> \in Line /\ Len(<<>>) <= 1
  BY EmptyLine
<1>6. QED
  BY <1>1, <1>2, <1>3, <1>4, <1>5, ReceiverEnds

\* A receiver that waits for a file, or for the sender.
LEMMA ReceiverWaits ==
  ASSUME ReceiverActs, Kept, NEW r2 \in Alive, NEW lefts, Listens(lefts),
         r2.state \in {"ZCHALLENGE_WAIT", "ZRINIT_WAIT"},
         r2.prior = "ZSKIP" \/ ~Running(r2) => r2.open = FALSE,
         Running(r2) => r2.junk = "NO", r2.xfer # "END",
         NEW e \in Heard, ReceiverStep(r2, lefts, <<e>>), ~Filing(rcv),
         Running(snd) =>
           /\ Running(r2) => Stage(snd, r2, disk, saved)
           /\ \A D : Answer(snd, r2, D, disk, saved, e)
  PROVE  ReceiverKeeps
<1>1. Storing /\ disk' = disk /\ saved' = saved
  BY KeptStores DEF ReceiverActs, Kept
<1> DEFINE out == <<e>>
<1>2. out \in Line /\ Len(out) <= 1 /\ out[1] = e /\ out # <<>>
  BY OneSaid
<1>3. ReceiverStep(r2, lefts, out)
  OBVIOUS
<1> HIDE DEF out
<1>4. r2.state \in Hunting /\ r2.state # "INIT" /\ r2.state # "ZCRC_WAIT"
      /\ r2.state # "ZDATA" /\ ~Filing(r2)
  BY DEF Hunting, Filing
<1>5. Receives(snd, r2, disk')
  BY <1>4 DEF Receives
<1>6. \A X : Collecting(snd, r2, X)
  BY <1>4 DEF Collecting
<1>7. Proceeds(r2)
  BY <1>1 DEF Proceeds, Running
<1>8. Agrees(r2, lefts, out)
  BY <1>1, <1>2, <1>4, <1>5, <1>6, <1>7 DEF Agrees
<1>9. QED
  BY <1>1, <1>2, <1>3, <1>8, ReceiverMoves

LEMMA SendZchallengeMoves ==
  ASSUME ReceiverActs, Kept, NEW r, Wearies(rcv, r), NEW lefts, Listens(lefts),
         SendZchallenge(r, lefts), rcv.state \in {"INIT", "ZCHALLENGE_WAIT"}
  PROVE  ReceiverKeeps
<1> DEFINE v == 1 - r.value
           r2 == [r EXCEPT !.state = "ZCHALLENGE_WAIT", !.value = v]
           e == Header("ZCHALLENGE", v)
<1>1. r \in Alive /\ r \in Status
  BY AliveIs DEF Wearies
<1>2. v \in Values /\ v \in Nat
  <2>1. r.value \in {0, 1}
    BY <1>1, FieldTypes DEF Values
  <2>2. QED
    BY <2>1 DEF Values
<1>3. ReceiverStep(r2, lefts, <<e>>)
  BY DEF SendZchallenge
<1> HIDE DEF v
<1>4. Keeps(r, r2) /\ r2.state = "ZCHALLENGE_WAIT" /\ r2.open = r.open /\ r2.xfer = r.xfer
  <2>1. "ZCHALLENGE_WAIT" \in States
    BY Names1
  <2>2. QED
    BY <1>1, <1>2, <2>1, StatusIs DEF StatusOf, Keeps
<1>5. e \in Heard /\ e.kind = "ZCHALLENGE"
  BY <1>2, HeaderHeard DEF HeaderKinds
<1> HIDE DEF r2, e
<1>6. r2 \in Alive
  BY <1>1, <1>4, AliveIs DEF Keeps, Running
<1>7. /\ r2.prior = "ZSKIP" \/ ~Running(r2) => r2.open = FALSE
      /\ r2.junk = "NO" /\ r2.xfer # "END" /\ ~Filing(rcv)
  BY <1>4, ReceiverFacts DEF Keeps, Wearies, Running, Filing
<1>8. Running(snd) => snd.state = "ZRQINIT_WAIT"
  BY ReceiverFacts DEF Stage, Filing, Listens, Sends
<1>9. Running(snd) => /\ Stage(snd, r2, disk, saved)
                      /\ \A D : Answer(snd, r2, D, disk, saved, e)
  BY <1>4, <1>5, <1>8 DEF Stage, Answer, AnswerKinds
<1>10. QED
  BY <1>3, <1>4, <1>5, <1>6, <1>7, <1>9, ReceiverWaits

LEMMA SendZrinitMoves ==
  ASSUME ReceiverActs, Kept, NEW r, Wearies(rcv, r), NEW lefts, Listens(lefts),
         SendZrinit(r, lefts), rcv.state # "ZDATA", ~Filing(rcv),
         Running(snd) => snd.state = "ZRQINIT_WAIT" \/ rcv.state = "ZRINIT_WAIT"
  PROVE  ReceiverKeeps
<1> DEFINE r2 == [r EXCEPT !.state = "ZRINIT_WAIT"]
           e == Header("ZRINIT", 0)
<1>1. r \in Alive /\ "ZRINIT_WAIT" \in States
  BY Names1 DEF Wearies
<1>2. ReceiverStep(r2, lefts, <<e>>)
  BY DEF SendZrinit
<1>3. Keeps(r, r2) /\ r2 \in Alive /\ r2.state = "ZRINIT_WAIT" /\ r2.open = r.open
      /\ r2.xfer = r.xfer
  BY <1>1, Placed
<1>4. e \in Heard /\ e.kind = "ZRINIT"
  BY HeaderHeard DEF HeaderKinds
<1> HIDE DEF r2, e
<1>5. /\ r2.prior = "ZSKIP" \/ ~Running(r2) => r2.open = FALSE
      /\ r2.junk = "NO" /\ r2.xfer # "END"
  BY <1>3, ReceiverFacts DEF Keeps, Wearies, Running
<1>6. Running(snd) => Stage(snd, r2, disk, saved)
  BY <1>3, ReceiverFacts DEF Stage, Filing
<1>7. Running(snd) => \A D : Answer(snd, r2, D, disk, saved, e)
  <2>1. SUFFICES ASSUME Running(snd), NEW D PROVE Answer(snd, r2, D, disk, saved, e)
    OBVIOUS
  <2>2. snd.state \notin {"ZDATA", "ZRPOS"}
        /\ (snd.state = "ZEOF_WAIT" => IsWhole(snd.file, disk) /\ saved[snd.file] # <<>>)
    BY <1>3, <1>6, <2>1 DEF Stage, Filing
  <2>3. QED
    BY <1>3, <1>4, <2>2 DEF Answer, AnswerKinds
<1>8. QED
  BY <1>2, <1>3, <1>4, <1>5, <1>6, <1>7, ReceiverWaits

\* A program that dies of an assertion, or of a file that is closed.
LEMMA ReceiverCrashes ==
  ASSUME ReceiverActs, Kept, NEW r \in Alive, NEW lefts, Listens(lefts), r.open = FALSE,
         r.state # "INIT", ReceiverStep([r EXCEPT !.xfer = "CRASH"], lefts, <<>>)
  PROVE  ReceiverKeeps
<1> DEFINE r2 == [r EXCEPT !.xfer = "CRASH"]
<1>1. /\ Keeps(r, r2) /\ r2 \in Alive
      /\ r2.state = r.state /\ r2.open = r.open /\ r2.xfer = "CRASH"
  BY Crashed
<1>2. ReceiverStep(r2, lefts, <<>>)
  OBVIOUS
<1> HIDE DEF r2
<1>3. ~Running(r2) /\ r2.xfer # "END"
  BY <1>1 DEF Running
<1>4. Storing /\ saved' = saved
  BY KeptStores DEF ReceiverActs, Kept
<1>5. <<>> \in Line /\ Len(<<>>) <= 1
  BY EmptyLine
<1>6. QED
  BY <1>1, <1>2, <1>3, <1>4, <1>5, ReceiverEnds

LEMMA SendZskipMoves ==
  ASSUME ReceiverActs, Kept, NEW r, Wearies(rcv, r), NEW lefts, Listens(lefts),
         SendZskip(r, lefts), rcv.state # "ZDATA", rcv.state # "INIT", ~Filing(rcv),
         r.open = TRUE /\ Running(snd) => snd.state = "ZFILE_WAIT" /\ IsWhole(snd.file, disk)
  PROVE  ReceiverKeeps
<1>1. r \in Alive /\ r \in Status /\ r.open \in BOOLEAN /\ r.state # "INIT"
  BY AliveIs, FieldTypes DEF Wearies
<1>2. CASE r.open
  <2> DEFINE r2 == [r EXCEPT !.open = FALSE, !.prior = "ZSKIP", !.state = "ZRINIT_WAIT"]
             e == Header("ZSKIP", 0)
  <2>1. ReceiverStep(r2, lefts, <<e>>)
    BY <1>2 DEF SendZskip
  <2>2. /\ r2 \in Status /\ r2.open = FALSE /\ r2.prior = "ZSKIP"
        /\ r2.state = "ZRINIT_WAIT" /\ r2.junk = r.junk /\ r2.xfer = r.xfer
        /\ r2.timeouts = r.timeouts
    <3>1. "ZSKIP" \in Priors /\ "ZRINIT_WAIT" \in States
      BY Names1
    <3>2. QED
      BY <1>1, <3>1, StatusIs DEF StatusOf
  <2>3. e \in Heard /\ e.kind = "ZSKIP"
    BY HeaderHeard DEF HeaderKinds
  <2> HIDE DEF r2, e
  <2>4. r2 \in Alive
    BY <1>1, <2>2, AliveIs DEF Running
  <2>5. r2.junk = "NO" /\ r2.xfer # "END"
    BY <2>2, ReceiverFacts DEF Wearies, Running
  <2>6. Running(snd) => /\ Stage(snd, r2, disk, saved)
                        /\ \A D : Answer(snd, r2, D, disk, saved, e)
    BY <1>1, <1>2, <2>2, <2>3 DEF Stage, Answer, AnswerKinds
  <2>7. QED
    BY <2>1, <2>2, <2>3, <2>4, <2>5, <2>6, ReceiverWaits
<1>3. CASE ~r.open
  <2>1. r.open = FALSE
    BY <1>1, <1>3
  <2>2. ReceiverStep([r EXCEPT !.xfer = "CRASH"], lefts, <<>>)
    BY <1>3 DEF SendZskip
  <2>3. QED
    BY <1>1, <2>1, <2>2, ReceiverCrashes
<1>4. QED
  BY <1>2, <1>3

LEMMA RepeatZrinitMoves ==
  ASSUME ReceiverActs, Kept, NEW r, Wearies(rcv, r), NEW lefts, Listens(lefts),
         RepeatZrinit(r, lefts), rcv.state = "ZRINIT_WAIT"
  PROVE  ReceiverKeeps
<1>1. rcv.state # "ZDATA" /\ rcv.state # "INIT" /\ ~Filing(rcv)
  BY DEF Filing
<1>2. CASE r.prior = "ZSKIP"
  <2>1. r.open = FALSE
    BY <1>2, ReceiverFacts DEF Wearies
  <2>2. SendZskip(r, lefts)
    BY <1>2 DEF RepeatZrinit
  <2>3. QED
    BY <1>1, <2>1, <2>2, SendZskipMoves
<1>3. CASE r.prior # "ZSKIP"
  BY <1>1, <1>3, SendZrinitMoves DEF RepeatZrinit
<1>4. QED
  BY <1>2, <1>3

LEMMA SendZrposMoves ==
  ASSUME ReceiverActs, Storing, saved' = saved,
         NEW lefts, Listens(lefts), NEW r \in Alive, SendZrpos(r, lefts),
         r.prior = "ZSKIP" \/ ~Running(r) => r.open = FALSE, r.xfer # "END",
         Running(r) =>
           /\ r.junk = "NO" /\ HasPart(snd, r, disk')
           /\ Filing(rcv) => r.file = rcv.file /\ rcv.pos <= r.pos,
         Running(snd) =>
           /\ snd.state \in {"ZFILE_WAIT", "ZDATA", "ZEOF_WAIT"} /\ r.pos <= Size(snd.file)
           /\ Running(r) /\ snd.state = "ZEOF_WAIT" => r.pos = Size(snd.file)
  PROVE  ReceiverKeeps
<1> DEFINE r2 == [r EXCEPT !.state = "ZRPOS_WAIT"]
           e == Header("ZRPOS", r.pos)
           out == <<e>>
<1>1. "ZRPOS_WAIT" \in States /\ r.pos \in Nat
  BY Names1, FieldTypes, AliveIs
<1>2. ReceiverStep(r2, lefts, out)
  BY DEF SendZrpos
<1>3. Keeps(r, r2) /\ r2 \in Alive /\ r2.state = "ZRPOS_WAIT" /\ r2.open = r.open
      /\ r2.xfer = r.xfer
  BY <1>1, Placed
<1>4. e \in Heard /\ e.kind = "ZRPOS" /\ e.n = r.pos
  BY <1>1, HeaderHeard DEF HeaderKinds
<1> HIDE DEF r2, e
<1>5. out \in Line /\ Len(out) <= 1 /\ out[1] = e /\ out # <<>>
  BY <1>4, OneSaid
<1> HIDE DEF out
<1>6. Running(r2) <=> Running(r)
  BY <1>3 DEF Running
<1>7. Filing(r2) /\ r2.state \in Hunting /\ r2.state # "INIT" /\ r2.state # "ZCRC_WAIT"
      /\ r2.state # "ZDATA"
  BY <1>3 DEF Filing, Hunting
<1>8. Receives(snd, r2, disk')
  BY <1>3, <1>6, <1>7 DEF Receives, HasPart, Keeps
<1>9. \A X : Collecting(snd, r2, X)
  BY <1>7 DEF Collecting
<1>10. Proceeds(r2)
  BY <1>3, <1>6, <1>7 DEF Proceeds, Keeps, Running
<1>11. Running(snd) /\ Running(r2) => Stage(snd, r2, disk', saved')
  BY <1>3, <1>6, <1>7 DEF Stage, Keeps, HasPart
<1>12. Running(snd) => \A D : Answer(snd, r2, D, disk', saved', e)
  BY <1>3, <1>4 DEF Answer, AnswerKinds, Keeps
<1>13. Agrees(r2, lefts, out)
  BY <1>5, <1>7, <1>8, <1>9, <1>10, <1>11, <1>12 DEF Agrees
<1>14. QED
  BY <1>2, <1>3, <1>5, <1>13, ReceiverMoves

LEMMA SendZcrcMoves ==
  ASSUME ReceiverActs, Kept, NEW lefts, Listens(lefts), NEW r \in Alive, SendZcrc(r, lefts),
         r.prior # "ZSKIP", r.state # "INIT", ~Filing(rcv),
         r.open = FALSE \/ (Running(r) /\ r.junk = "NO" /\ Compares(snd, r, disk)),
         Running(snd) => snd.state = "ZFILE_WAIT"
  PROVE  ReceiverKeeps
<1>1. r \in Status /\ r.open \in BOOLEAN
  BY AliveIs, FieldTypes
<1>2. Storing /\ disk' = disk /\ saved' = saved
  BY KeptStores DEF ReceiverActs, Kept
<1>3. CASE r.open
  <2> DEFINE r2 == [r EXCEPT !.state = "ZCRC_WAIT"]
             n == Len(disk[r.file][r.version])
             e == Header("ZCRC", n)
             out == <<e>>
  <2>1. r.open # FALSE /\ Running(r) /\ r.junk = "NO" /\ Compares(snd, r, disk)
    BY <1>1, <1>3
  <2>2. n = r.pos /\ n \in Nat
    <3>1. r.pos = Len(disk[r.file][1]) /\ r.version = 1 /\ r.pos \in Nat
      BY <1>1, <2>1, FieldTypes DEF Compares
    <3>2. QED
      BY <3>1
  <2>3. ReceiverStep(r2, lefts, out)
    BY <1>3 DEF SendZcrc
  <2>4. Keeps(r, r2) /\ r2 \in Alive /\ r2.state = "ZCRC_WAIT" /\ r2.open = r.open
        /\ r2.xfer = r.xfer
    BY Names1, Placed
  <2> HIDE DEF n
  <2>5. e \in Heard /\ e.kind = "ZCRC" /\ e.n = n
    BY <2>2, HeaderHeard DEF HeaderKinds
  <2> HIDE DEF r2, e
  <2>6. out \in Line /\ Len(out) <= 1 /\ out[1] = e /\ out # <<>>
    BY <2>5, OneSaid
  <2> HIDE DEF out
  <2>7. Running(r2)
    BY <2>1, <2>4 DEF Running
  <2>8. ~Filing(r2) /\ r2.state \in Hunting /\ r2.state # "INIT" /\ r2.state # "ZDATA"
    BY <2>4 DEF Filing, Hunting
  <2>9. Compares(snd, r2, disk')
    BY <1>2, <2>1, <2>4 DEF Compares, Keeps
  <2>10. Receives(snd, r2, disk')
    BY <2>1, <2>4, <2>7, <2>8, <2>9 DEF Receives, Keeps
  <2>11. \A X : Collecting(snd, r2, X)
    BY <2>8 DEF Collecting
  <2>12. Proceeds(r2)
    BY <1>2, <2>7 DEF Proceeds, Running
  <2>13. Running(snd) => Stage(snd, r2, disk', saved')
    BY <2>4 DEF Stage
  <2>14. Running(snd) => \A D : Answer(snd, r2, D, disk', saved', e)
    BY <2>1, <2>2, <2>4, <2>5 DEF Answer, AnswerKinds, Keeps, Compares
  <2>15. Agrees(r2, lefts, out)
    BY <2>5, <2>6, <2>8, <2>10, <2>11, <2>12, <2>13, <2>14 DEF Agrees
  <2>16. QED
    BY <1>2, <2>3, <2>4, <2>6, <2>15, ReceiverMoves
<1>4. CASE ~r.open
  <2>1. r.open = FALSE
    BY <1>1, <1>4
  <2>2. ReceiverStep([r EXCEPT !.xfer = "CRASH"], lefts, <<>>)
    BY <1>4 DEF SendZcrc
  <2>3. QED
    BY <2>1, <2>2, ReceiverCrashes
<1>5. QED
  BY <1>3, <1>4

\* Where the sender is while the receiver waits for something.
LEMMA SenderStages ==
  ASSUME ReceiverActs, NEW lefts, Listens(lefts), Running(snd)
  PROVE  /\ rcv.state = "ZCRC_WAIT" => snd.state = "ZFILE_WAIT"
         /\ Filing(rcv) =>
              /\ snd.state \in {"ZFILE_WAIT", "ZDATA", "ZEOF_WAIT"}
              /\ snd.state = "ZEOF_WAIT" => rcv.pos = Size(snd.file)
         /\ rcv.state = "ZDATA" /\ rcv.prior # "ZRPOS_WAIT" =>
              /\ rcv.type = "ZFILE" => snd.state = "ZFILE_WAIT"
              /\ rcv.type = "ZSINIT" => snd.state = "ZSINIT_WAIT"
<1>1. Stage(snd, rcv, disk, saved) /\ Sends(scenario, snd)
  BY ReceiverFacts
<1>2. snd.state \notin {"INIT", "ZRPOS"}
  BY DEF Listens
<1>3. snd.state \in {"ZRQINIT_WAIT", "ZSINIT_WAIT", "ZFILE_WAIT", "ZDATA", "ZEOF_WAIT",
                     "ZFIN_WAIT"}
  BY <1>1, <1>2 DEF Sends
<1>4. rcv.state = "ZCRC_WAIT" => snd.state = "ZFILE_WAIT"
  BY <1>1, <1>3 DEF Stage, Filing
<1>5. Filing(rcv) =>
        /\ snd.state \in {"ZFILE_WAIT", "ZDATA", "ZEOF_WAIT"}
        /\ snd.state = "ZEOF_WAIT" => rcv.pos = Size(snd.file)
  <2>1. rcv.state = "ZDATA" /\ rcv.prior = "ZRPOS_WAIT" => rcv.type = "ZDATA"
    BY ReceiverFacts DEF Receives
  <2>2. QED
    BY <1>1, <1>3, <2>1 DEF Stage, Filing
<1>6. rcv.state = "ZDATA" /\ rcv.prior # "ZRPOS_WAIT" =>
        /\ rcv.type = "ZFILE" => snd.state = "ZFILE_WAIT"
        /\ rcv.type = "ZSINIT" => snd.state = "ZSINIT_WAIT"
  BY <1>1, <1>3 DEF Stage, Filing
<1>7. QED
  BY <1>4, <1>5, <1>6

LEMMA CollectsFacts ==
  ASSUME NEW type \in Types, NEW prior \in Priors, rcv \in Alive
  PROVE  LET r == Collects(prior, type)
         IN  /\ r \in Alive /\ r.prior = prior /\ r.state = "ZDATA" /\ r.type = type
             /\ r.xfer = rcv.xfer /\ r.junk = rcv.junk /\ r.open = rcv.open
             /\ r.file = rcv.file /\ r.version = rcv.version /\ r.pos = rcv.pos
<1> DEFINE r == Collects(prior, type)
<1>1. /\ r \in Status /\ r.prior = prior /\ r.state = "ZDATA" /\ r.type = type
      /\ r.xfer = rcv.xfer /\ r.junk = rcv.junk /\ r.open = rcv.open
      /\ r.file = rcv.file /\ r.version = rcv.version /\ r.pos = rcv.pos
      /\ r.timeouts = rcv.timeouts
  <2>1. "ZDATA" \in States /\ rcv \in Status
    BY Names1, AliveIs
  <2>2. QED
    BY <2>1, StatusIs DEF StatusOf, Collects
<1> HIDE DEF r
<1>2. r \in Alive
  BY <1>1, AliveIs DEF Running
<1>3. QED
  BY <1>1, <1>2 DEF r

\* A header that is not data is heard.
LEMMA ReceiverOtherStops ==
  ASSUME ReceiverActs, Kept, NEW kinds, ArrivesOther(down, kinds),
         ReceiverStep(Stopped(rcv), ReceiverNext, <<>>)
  PROVE  ReceiverKeeps
<1>1. down # <<>> /\ ~IsData(Head(down))
  BY DEF ArrivesOther, IsData
<1>2. down \in Seq(Heard)
  BY DEF ReceiverActs, IInv, Typed, Line
<1>3. Head(down) = down[1]
  BY <1>1, <1>2, TailFacts
<1>4. Listens(ReceiverNext)
  BY <1>1, <1>3, HeardFacts
<1>5. QED
  BY <1>4, ReceiverStops

\* An error while data are collected does not stop the program.
LEMMA ErredInData ==
  ASSUME NEW x \in Status, x.state = "ZDATA"
  PROVE  Erred(x, 1).state = "ZDATA" /\ Erred(x, 1).xfer = x.xfer
<1> DEFINE e == AtMost(ErrorsMax, x.errors + 1)
           y == [x EXCEPT !.errors = e, !.reliable = FALSE]
<1>1. y.state = "ZDATA" /\ y.xfer = x.xfer
  BY StatusIs DEF StatusOf
<1>2. Erred(x, 1) = IF y.errors = ErrorsMax /\ y.state # "ZDATA" THEN Stopped(y) ELSE y
  BY DEF Erred
<1> HIDE DEF y
<1>3. QED
  BY <1>1, <1>2

\* A comparison goes on, or ends for good.
LEMMA WearyCompares ==
  ASSUME ReceiverActs, Kept, NEW lefts, Listens(lefts), rcv.state = "ZCRC_WAIT",
         NEW r, Wearies(rcv, r), SendZcrc(r, lefts),
         Running(snd) => snd.state = "ZFILE_WAIT"
  PROVE  ReceiverKeeps
<1>1. /\ rcv.state # "ZDATA" /\ rcv.state # "INIT" /\ ~Filing(rcv)
      /\ Compares(snd, rcv, disk) /\ rcv.open = TRUE
  BY ReceiverFacts DEF Receives, Filing, Compares
<1>2. rcv.prior # "ZSKIP" /\ rcv.junk = "NO"
  BY <1>1, ReceiverFacts
<1>3. /\ r \in Alive /\ r.prior # "ZSKIP" /\ r.junk = "NO"
      /\ \/ Running(r) /\ r.state = rcv.state /\ r.open = rcv.open
         \/ ~Running(r) /\ r.state = "ABORT" /\ r.open = FALSE
      /\ r.file = rcv.file /\ r.version = rcv.version /\ r.pos = rcv.pos
  BY <1>2 DEF Wearies
<1>4. CASE Running(r)
  <2>1. Compares(snd, r, disk)
    BY <1>1, <1>3, <1>4 DEF Compares
  <2>2. r.state # "INIT"
    BY <1>1, <1>3
  <2>3. QED
    BY <1>1, <1>3, <1>4, <2>1, <2>2, SendZcrcMoves
<1>5. CASE ~Running(r)
  <2>1. r.open = FALSE /\ r.state # "INIT"
    BY <1>3, <1>5
  <2>2. QED
    BY <1>1, <1>3, <2>1, SendZcrcMoves
<1>6. QED
  BY <1>4, <1>5

Versioned(x, v, p) == [x EXCEPT !.version = v, !.pos = p]

LEMMA VersionedFacts ==
  ASSUME NEW x \in Alive, NEW v \in Nat, NEW p \in Nat
  PROVE  LET y == Versioned(x, v, p)
         IN  /\ y \in Status /\ y.version = v /\ y.pos = p /\ y.file = x.file
             /\ y.open = x.open /\ y.prior = x.prior /\ y.junk = x.junk
             /\ y.xfer = x.xfer /\ y.timeouts = x.timeouts /\ y.state = x.state
<1>1. x \in Status
  BY AliveIs
<1>2. QED
  BY <1>1, StatusIs DEF StatusOf, Versioned

\* What the receiver closes is the whole file.
LEMMA SavesWhole ==
  ASSUME NEW v \in Disks, Saved(v), NEW f \in Files,
         NEW w, w = [v EXCEPT ![f] = Append(@, Batch[f])]
  PROVE  w \in Disks /\ Saved(w) /\ SavedGrows(v, w) /\ w[f] # <<>>
<1> DEFINE n == Len(v[f])
           a == Append(v[f], Batch[f])
<1>1. v[f] \in Seq(Seq(Units)) /\ Batch[f] \in Seq(Units) /\ n \in Nat
  BY DiskFacts, FileFacts
<1>2. /\ a \in Seq(Seq(Units)) /\ Len(a) = n + 1 /\ a[n + 1] = Batch[f]
      /\ \A k \in 1 .. n : a[k] = v[f][k]
  BY <1>1, AppendProperties
<1>3. w = [v EXCEPT ![f] = a]
  OBVIOUS
<1>4. \A k \in 1 .. n : v[f][k] = Batch[f]
  BY <1>1 DEF Saved
<1> HIDE DEF a, n
<1>5. w \in Disks /\ w[f] = a /\ \A g \in Files : g # f => w[g] = v[g]
  BY <1>2, <1>3 DEF Disks
<1>6. a # <<>> /\ DOMAIN a = 1 .. n + 1
  BY <1>1, <1>2, EmptySeq
<1>7. \A k \in 1 .. n + 1 : a[k] = Batch[f]
  <2>1. \A k \in 1 .. n + 1 : k \in 1 .. n \/ k = n + 1
    BY <1>1
  <2>2. QED
    BY <1>2, <1>4, <2>1
<1>8. Saved(w)
  BY <1>5, <1>6, <1>7 DEF Saved
<1>9. QED
  BY <1>5, <1>6, <1>8 DEF SavedGrows

\* The receiver asks once more for what it has asked for.
LEMMA WearyAsks ==
  ASSUME ReceiverActs, Kept, NEW lefts, Listens(lefts), Filing(rcv),
         NEW r \in Alive, r.prior = rcv.prior, r.file = rcv.file, r.version = rcv.version,
         r.pos = rcv.pos, r.xfer # "END",
         Running(r) => r.open = rcv.open /\ r.junk = "NO",
         ~Running(r) => r.open = FALSE,
         SendZrpos(r, lefts)
  PROVE  ReceiverKeeps
<1>1. HasPart(snd, rcv, disk) /\ (rcv.prior = "ZSKIP" => rcv.open = FALSE)
  BY ReceiverFacts
<1>2. disk' = disk /\ saved' = saved /\ Storing
  BY KeptStores DEF Kept, ReceiverActs
<1>3. rcv.prior # "ZSKIP" /\ rcv.file = snd.file /\ rcv.pos <= Size(rcv.file)
      /\ rcv.pos \in Nat
  BY <1>1, ReceiverFacts, FieldTypes DEF HasPart
<1>4. Running(r) => HasPart(snd, r, disk')
  BY <1>1, <1>2 DEF HasPart
<1>5. Running(snd) =>
        /\ snd.state \in {"ZFILE_WAIT", "ZDATA", "ZEOF_WAIT"}
        /\ snd.state = "ZEOF_WAIT" => rcv.pos = Size(snd.file)
  BY SenderStages
<1>6. r.prior = "ZSKIP" \/ ~Running(r) => r.open = FALSE
  BY <1>3
<1>7. Running(r) => /\ r.junk = "NO" /\ HasPart(snd, r, disk')
                    /\ Filing(rcv) => r.file = rcv.file /\ rcv.pos <= r.pos
  BY <1>3, <1>4
<1>8. Running(snd) =>
        /\ snd.state \in {"ZFILE_WAIT", "ZDATA", "ZEOF_WAIT"} /\ r.pos <= Size(snd.file)
        /\ Running(r) /\ snd.state = "ZEOF_WAIT" => r.pos = Size(snd.file)
  BY <1>3, <1>5
<1>9. QED
  BY <1>2, <1>6, <1>7, <1>8, SendZrposMoves

LEMMA ScenarioFacts ==
  ASSUME Typed
  PROVE  /\ scenario.most \in Nat /\ scenario.sessions \in Nat /\ scenario.sessions >= 1
         /\ faults \in Nat /\ session \in Nat
         /\ scenario.disk \in Disks /\ scenario.autostart = TRUE
         /\ scenario.faults \subseteq FaultKinds
         /\ "late" \notin scenario.faults /\ "cut" \notin scenario.faults
<1>1. ScenarioOK(scenario) /\ Calm(scenario)
  BY ZmodemAssumption DEF Typed
<1>2. MaxFaults \in Nat /\ SessionsMax \in Nat
  BY ZmodemAssumption
<1>3. scenario.most \in 0 .. MaxFaults /\ scenario.sessions \in 1 .. SessionsMax
  BY <1>1 DEF ScenarioOK
<1>4. faults \in 0 .. scenario.most /\ session \in 1 .. scenario.sessions
  BY DEF Typed
<1>5. scenario.most \in Nat /\ scenario.sessions \in Nat /\ scenario.sessions >= 1
  BY <1>2, <1>3
<1>6. faults \in Nat /\ session \in Nat
  BY <1>4, <1>5
<1>7. QED
  BY <1>1, <1>5, <1>6 DEF ScenarioOK, Calm, Disks

LEMMA ReceiveZchallengeWaitKeeps ==
  ASSUME ReceiverActs, Kept, ReceiveZchallengeWait
  PROVE  ReceiverKeeps
<1>1. rcv.state = "ZCHALLENGE_WAIT" /\ rcv.state # "ZDATA" /\ ~Filing(rcv)
  BY DEF ReceiveZchallengeWait, Filing
<1>2. Wearies(rcv, rcv) /\ Wearies(rcv, Erred(rcv, 1))
  BY ReceiverFacts, ErredFacts
<1>3. CASE Arrives(down, "ZACK") /\ SendZrinit(rcv, ReceiverCleared)
  <2>1. /\ down[1].kind = "ZACK" /\ Pending(snd, rcv, down[1], Tail(down))
        /\ Listens(ReceiverCleared)
    BY <1>3, HeaderArrives DEF HeaderKinds
  <2>2. Running(snd) => snd.state = "ZRQINIT_WAIT"
    BY <2>1 DEF Pending, SentIn
  <2>3. QED
    BY <1>1, <1>2, <1>3, <2>1, <2>2, SendZrinitMoves
<1>4. CASE Arrives(down, "ZACK") /\ ReceiverStep(Stopped(rcv), ReceiverNext, <<>>)
  <2>1. Listens(ReceiverNext)
    BY <1>4, HeaderArrives DEF HeaderKinds
  <2>2. QED
    BY <1>4, <2>1, ReceiverStops
<1>5. CASE Arrives(down, "ZNAK") /\ SendZchallenge(Erred(rcv, 1), ReceiverCleared)
  <2>1. Listens(ReceiverCleared)
    BY <1>5, HeaderArrives DEF HeaderKinds
  <2>2. QED
    BY <1>1, <1>2, <1>5, <2>1, SendZchallengeMoves
<1>6. CASE Arrives(down, "ZRQINIT") /\ SendZchallenge(rcv, ReceiverCleared)
  <2>1. Listens(ReceiverCleared)
    BY <1>6, HeaderArrives DEF HeaderKinds
  <2>2. QED
    BY <1>1, <1>2, <1>6, <2>1, SendZchallengeMoves
<1>7. CASE ArrivesOther(down, {"ZACK", "ZNAK", "ZRQINIT"})
           /\ ReceiverStep(Stopped(rcv), ReceiverNext, <<>>)
  BY <1>7, ReceiverOtherStops
<1>8. QED
  BY <1>3, <1>4, <1>5, <1>6, <1>7 DEF ReceiveZchallengeWait

LEMMA ReceiveZrinitWaitKeeps ==
  ASSUME ReceiverActs, Kept, ReceiveZrinitWait
  PROVE  ReceiverKeeps
<1>1. rcv.state = "ZRINIT_WAIT" /\ rcv.state # "ZDATA" /\ ~Filing(rcv)
  BY DEF ReceiveZrinitWait, Filing
<1>2. Wearies(rcv, rcv) /\ Wearies(rcv, Erred(rcv, 1)) /\ rcv \in Status /\ rcv \in Alive
  BY ReceiverFacts, ErredFacts
<1>3. CASE Arrives(down, "ZFIN")
           /\ ReceiverStep(Ended(rcv, "COMPLETE", "END"), ReceiverNext, <<Header("ZFIN", 0)>>)
  <2> DEFINE r2 == Ended(rcv, "COMPLETE", "END")
             e == Header("ZFIN", 0)
             out == <<e>>
  <2>1. /\ down[1].kind = "ZFIN" /\ Pending(snd, rcv, down[1], Tail(down))
        /\ Listens(ReceiverNext)
    BY <1>3, HeaderArrives DEF HeaderKinds
  <2>2. Keeps(rcv, r2) /\ r2.xfer = "END" /\ r2.state = "COMPLETE" /\ r2.open = FALSE
    <3>1. "COMPLETE" \in States /\ "END" \in Xfers
      BY Names1
    <3>2. QED
      BY <1>2, <3>1, EndedFacts
  <2>3. e \in Heard /\ e.kind = "ZFIN"
    BY HeaderHeard DEF HeaderKinds
  <2>4. ReceiverStep(r2, ReceiverNext, out)
    BY <1>3
  <2> HIDE DEF r2, e
  <2>5. out \in Line /\ Len(out) <= 1 /\ out[1] = e
    BY <2>3, OneSaid
  <2> HIDE DEF out
  <2>6. ~Running(r2) /\ r2.state # "INIT" /\ r2 \in Alive
    BY <2>2, AliveIs DEF Running, Keeps
  <2>7. Len(result) = Len(Batch)
    <3>1. snd.file = Len(Batch) + 1 /\ Len(result) = snd.file - 1
      BY <2>1 DEF Pending, ReceiverActs, IInv, Stored, Logged
    <3>2. Len(Batch) \in Nat
      BY FileFacts
    <3>3. QED
      BY <3>1, <3>2
  <2>8. \A D : Answer(snd, r2, D, disk', saved', e)
    BY <2>3, <2>6 DEF Answer, AnswerKinds
  <2>9. Storing /\ saved' = saved
    BY KeptStores DEF ReceiverActs, Kept
  <2>10. QED
    BY <2>1, <2>2, <2>4, <2>5, <2>6, <2>7, <2>8, <2>9, ReceiverEnds
<1>4. CASE Arrives(down, "ZRQINIT") /\ SendZrinit(rcv, ReceiverCleared)
  <2>1. Listens(ReceiverCleared)
    BY <1>4, HeaderArrives DEF HeaderKinds
  <2>2. QED
    BY <1>1, <1>2, <1>4, <2>1, SendZrinitMoves
<1>5. ASSUME NEW type \in {"ZSINIT", "ZFILE"}, Arrives(down, type),
             ReceiverStep(Collects("ZRINIT_WAIT", type), ReceiverNext, <<>>)
      PROVE  ReceiverKeeps
  <2>1. /\ down[1].kind = type /\ Pending(snd, rcv, down[1], Tail(down))
        /\ Listens(ReceiverNext)
    BY <1>5, HeaderArrives DEF HeaderKinds
  <2> DEFINE r2 == Collects("ZRINIT_WAIT", type)
             out == <<>>
  <2>2. /\ r2 \in Alive /\ r2.prior = "ZRINIT_WAIT" /\ r2.state = "ZDATA" /\ r2.type = type
        /\ r2.xfer = rcv.xfer
    <3>1. type \in Types /\ "ZRINIT_WAIT" \in Priors
      BY Names1
    <3>2. QED
      BY <1>2, <3>1, CollectsFacts
  <2>3. ReceiverStep(r2, ReceiverNext, out)
    BY <1>5
  <2>4. out \in Line /\ Len(out) <= 1 /\ out = <<>>
    BY EmptyLine
  <2> HIDE DEF r2, out
  <2>5. Running(r2) /\ ~Filing(r2) /\ r2.state \notin Hunting
    BY <2>2 DEF Running, ReceiverActs, Filing, Hunting
  <2>6. Storing /\ disk' = disk /\ saved' = saved
    BY KeptStores DEF ReceiverActs, Kept
  <2>7. Receives(snd, r2, disk')
    BY <2>2, <2>5 DEF Receives
  <2>8. Running(snd) => Stage(snd, r2, disk', saved')
    BY <1>5, <2>1, <2>2 DEF Pending, SentIn, Stage
  <2>9. Collecting(snd, r2, Tail(down))
    BY <1>5, <2>1, <2>2 DEF Collecting, Pending
  <2>10. Proceeds(r2)
    BY <1>1, <2>5, <2>6 DEF Proceeds, Running
  <2>11. Agrees(r2, ReceiverNext, out)
    BY <2>2, <2>4, <2>5, <2>7, <2>8, <2>9, <2>10 DEF Agrees, ReceiverNext
  <2>12. QED
    BY <2>1, <2>2, <2>3, <2>4, <2>6, <2>11, ReceiverMoves
<1>6. CASE Arrives(down, "ZNAK") /\ RepeatZrinit(Erred(rcv, 1), ReceiverCleared)
  <2>1. Listens(ReceiverCleared)
    BY <1>6, HeaderArrives DEF HeaderKinds
  <2>2. QED
    BY <1>1, <1>2, <1>6, <2>1, RepeatZrinitMoves
<1>7. CASE ArrivesOther(down, {"ZFIN", "ZRQINIT", "ZSINIT", "ZFILE", "ZNAK"})
           /\ ReceiverStep(Stopped(rcv), ReceiverNext, <<>>)
  BY <1>7, ReceiverOtherStops
<1>8. QED
  BY <1>3, <1>4, <1>5, <1>6, <1>7 DEF ReceiveZrinitWait

\* The file is received under a name that is free.
LEMMA RenamedMoves ==
  ASSUME ReceiverActs, saved' = saved, NEW lefts, Listens(lefts),
         NEW r \in Alive, Running(r), r.file \in Files, r.file = snd.file, r.open = TRUE,
         r.prior # "ZSKIP", r.junk = "NO", SendZrpos(Renamed(r), lefts), NewVersion,
         ~Filing(rcv), Running(snd) => snd.state = "ZFILE_WAIT"
  PROVE  ReceiverKeeps
<1> DEFINE n == Len(disk[r.file])
           v == n + 1
           f == r.file
           r2 == Renamed(r)
<1>1. disk \in Disks /\ saved \in Disks /\ Saved(saved)
  BY DEF ReceiverActs, IInv, Typed, Stored, Disks
<1>2. n \in Nat /\ v \in Nat /\ v \in 1 .. n + 1
  <2>1. n \in Nat
    BY <1>1, DiskFacts
  <2>2. QED
    BY <2>1
<1>3. r2 = [r EXCEPT !.version = v, !.pos = 0]
  BY DEF Renamed
<1>4. SendZrpos(r2, lefts)
  OBVIOUS
<1> HIDE DEF v, r2
<1>5. /\ r2 \in Status /\ r2.version = v /\ r2.pos = 0 /\ r2.file = f /\ r2.open = TRUE
      /\ r2.prior = r.prior /\ r2.junk = r.junk /\ r2.xfer = r.xfer
      /\ r2.timeouts = r.timeouts
  <2> DEFINE z == 0
  <2>1. z \in Nat /\ r2 = Versioned(r, v, z)
    BY <1>3 DEF Versioned
  <2> HIDE DEF z
  <2>2. /\ r2 \in Status /\ r2.version = v /\ r2.pos = z /\ r2.file = r.file
        /\ r2.open = r.open /\ r2.prior = r.prior /\ r2.junk = r.junk
        /\ r2.xfer = r.xfer /\ r2.timeouts = r.timeouts
    BY <1>2, <2>1, VersionedFacts
  <2>3. QED
    BY <2>2 DEF z
<1>6. r2 \in Alive /\ Running(r2)
  BY <1>5, AliveIs DEF Running
<1>7. rcv'.file = f
  <2>1. rcv' = [r2 EXCEPT !.state = "ZRPOS_WAIT"]
    BY <1>4 DEF SendZrpos, ReceiverStep
  <2>2. QED
    BY <1>5, <2>1, StatusIs DEF StatusOf
<1>8. disk' = [disk EXCEPT ![f] = Append(@, <<>>)]
  BY <1>7 DEF NewVersion
<1>9. /\ disk' \in Disks /\ DiskGrows(disk, disk')
      /\ Len(disk'[f]) = n + 1 /\ disk'[f][n + 1] = <<>>
  BY <1>1, <1>8, GrowsNew
<1>10. Storing
  BY <1>1, <1>9 DEF Storing, SavedGrows
<1>11. Size(f) \in Nat /\ Beginning(f, 0) = <<>> /\ 0 <= Size(f)
  <2>1. Size(f) \in Nat
    BY FileFacts
  <2>2. 0 \in 0 .. Size(f)
    BY <2>1
  <2>3. QED
    BY <2>1, <2>2, BeginningFacts
<1>12. HasPart(snd, r2, disk')
  <2>1. v \in DOMAIN disk'[f] /\ disk'[f][v] = <<>>
    BY <1>2, <1>9, DiskFacts DEF v
  <2>2. QED
    BY <1>5, <1>11, <2>1 DEF HasPart
<1>13. r2.prior # "ZSKIP" /\ r2.xfer # "END" /\ r2.junk = "NO"
  BY <1>5, <1>6 DEF Running
<1>14. Running(snd) => r2.pos <= Size(snd.file)
  BY <1>5, <1>11
<1>15. QED
  BY <1>4, <1>6, <1>10, <1>12, <1>13, <1>14, SendZrposMoves

LEMMA ReceiveZcrcWaitKeeps ==
  ASSUME ReceiverActs, saved' = saved, ReceiveZcrcWait
  PROVE  ReceiverKeeps
<1> DEFINE f == rcv.file
           n == rcv.pos
           same == Head(down).data = disk[rcv.file][rcv.version]
<1>1. rcv.state = "ZCRC_WAIT" /\ rcv.state # "ZDATA" /\ rcv.state # "INIT" /\ ~Filing(rcv)
  BY DEF ReceiveZcrcWait, Filing
<1>2. /\ Wearies(rcv, rcv) /\ Wearies(rcv, Erred(rcv, 1)) /\ rcv \in Status /\ rcv \in Alive
      /\ Running(rcv) /\ rcv.xfer # "END"
  BY ReceiverFacts, ErredFacts DEF Running
<1>3. Compares(snd, rcv, disk) /\ rcv.prior # "ZSKIP" /\ rcv.junk = "NO"
  <2>1. Compares(snd, rcv, disk)
    BY <1>1, <1>2, ReceiverFacts DEF Receives
  <2>2. rcv.open = TRUE
    BY <2>1 DEF Compares
  <2>3. QED
    BY <1>1, <2>1, <2>2, ReceiverFacts
<1>4. /\ rcv.open = TRUE /\ f = snd.file /\ f \in Files /\ rcv.version = 1 /\ disk[f] # <<>>
      /\ n = Len(disk[f][1]) /\ n <= Size(f)
  BY <1>3 DEF Compares
<1>5. 1 \in DOMAIN disk[f] /\ n \in Nat /\ Size(f) \in Nat /\ n \in 0 .. Size(f)
  <2>1. disk \in Disks
    BY DEF ReceiverActs, IInv, Typed, Disks
  <2>2. 1 \in DOMAIN disk[f] /\ n \in Nat /\ Size(f) \in Nat
    BY <1>2, <1>4, <2>1, DiskFacts, FieldTypes, FileFacts
  <2>3. QED
    BY <1>4, <2>2
<1>6. ASSUME Arrives(down, "ZCRC")
      PROVE  /\ Listens(ReceiverCleared)
             /\ same <=> disk[f][1] = Beginning(f, n)
             /\ Running(snd) => snd.state = "ZFILE_WAIT"
  <2>1. /\ Head(down) = down[1] /\ down[1].kind = "ZCRC"
        /\ Pending(snd, rcv, down[1], Tail(down)) /\ Listens(ReceiverCleared)
    BY <1>6, HeaderArrives DEF HeaderKinds
  <2>2. down[1].data = Beginning(f, n) /\ SentIn("ZFILE_WAIT", snd)
    BY <1>1, <2>1 DEF Pending
  <2>3. QED
    BY <1>4, <2>1, <2>2 DEF SentIn
<1>7. CASE Arrives(down, "ZCRC") /\ same /\ n = Size(f) /\ UNCHANGED disk
           /\ SendZskip(rcv, ReceiverCleared)
  <2>1. disk[f][1] = Batch[f]
    BY <1>4, <1>5, <1>6, <1>7, BeginningFacts
  <2>2. IsWhole(snd.file, disk)
    BY <1>4, <1>5, <2>1 DEF IsWhole
  <2>3. Kept
    BY <1>7 DEF Kept
  <2>4. QED
    BY <1>1, <1>2, <1>6, <1>7, <2>2, <2>3, SendZskipMoves
<1>8. ASSUME UNCHANGED disk, Listens(ReceiverCleared),
             disk[f][1] = Beginning(f, n), Running(snd) => snd.state = "ZFILE_WAIT",
             NEW r \in Alive, r.open = TRUE, r.file = f, r.version = 1, r.pos = n,
             r.junk = "NO", r.prior # "ZSKIP", r.xfer = "RUN", SendZrpos(r, ReceiverCleared)
      PROVE  ReceiverKeeps
  <2>1. HasPart(snd, r, disk')
    BY <1>4, <1>5, <1>8 DEF HasPart
  <2>2. Storing
    BY <1>8, KeptStores DEF ReceiverActs, Kept
  <2>3. Running(r) /\ r.xfer # "END"
    BY <1>8 DEF Running
  <2>4. QED
    BY <1>1, <1>4, <1>8, <2>1, <2>2, <2>3, SendZrposMoves
<1>9. CASE Arrives(down, "ZCRC") /\ same /\ UNCHANGED disk /\ SendZrpos(rcv, ReceiverCleared)
  BY <1>2, <1>3, <1>4, <1>6, <1>8, <1>9 DEF Running
<1>10. CASE Arrives(down, "ZCRC") /\ SendZrpos(Renamed(rcv), ReceiverCleared) /\ NewVersion
  BY <1>1, <1>2, <1>3, <1>4, <1>6, <1>10, RenamedMoves
<1>11. CASE Arrives(down, "ZNAK") /\ SendZcrc(Erred(rcv, 1), ReceiverCleared)
            /\ UNCHANGED disk
  <2> DEFINE r == Erred(rcv, 1)
  <2>1. Listens(ReceiverCleared)
    BY <1>11, HeaderArrives DEF HeaderKinds
  <2>2. Running(snd) => snd.state = "ZFILE_WAIT"
    BY <1>1, <2>1, SenderStages
  <2>3. SendZcrc(r, ReceiverCleared) /\ Wearies(rcv, r)
    BY <1>2, <1>11
  <2> HIDE DEF r
  <2>4. QED
    BY <1>1, <1>11, <2>1, <2>2, <2>3, WearyCompares DEF Kept
<1>12. CASE Arrives(down, "ZFILE")
            /\ SendZrpos(Erred(Collects("ZCRC_WAIT", "ZFILE"), 1), ReceiverCleared)
            /\ UNCHANGED disk
  <2> DEFINE t == Collects("ZCRC_WAIT", "ZFILE")
             r == Erred(t, 1)
  <2>1. /\ Head(down) = down[1] /\ down[1].kind = "ZFILE" /\ down # <<>>
        /\ Pending(snd, rcv, down[1], Tail(down)) /\ Listens(ReceiverCleared)
    BY <1>12, HeaderArrives DEF HeaderKinds
  <2>2. Running(snd) => snd.state = "ZFILE_WAIT"
    BY <2>1 DEF Pending, SentIn
  <2>3. HeadersFail(scenario)
    <3>1. Comparing(scenario, snd, rcv, down, up) /\ 1 \in 1 .. Len(down)
      <4>1. down \in Line
        BY DEF ReceiverActs, IInv, Typed
      <4>2. Len(down) \in Nat /\ Len(down) >= 1
        BY <2>1, <4>1, LineFacts
      <4>3. QED
        BY <4>2 DEF ReceiverActs, IInv, Conversation, Conv
    <3>2. QED
      BY <1>1, <1>2, <2>1, <3>1 DEF Comparing
  <2>4. disk[f][1] = Beginning(f, n)
    <3>1. Ours(f, disk[f])
      BY <1>4, <2>3 DEF ReceiverActs, IInv, Stored, OursKept
    <3>2. ~(n > Size(f))
      BY <1>5
    <3>3. QED
      BY <1>4, <3>1, <3>2 DEF Ours
  <2>5. /\ t \in Alive /\ t.prior = "ZCRC_WAIT" /\ t.state = "ZDATA"
        /\ t.xfer = rcv.xfer /\ t.junk = rcv.junk /\ t.open = rcv.open
        /\ t.file = f /\ t.version = rcv.version /\ t.pos = n
    <3>1. "ZFILE" \in Types /\ "ZCRC_WAIT" \in Priors
      BY Names1
    <3>2. QED
      BY <1>2, <3>1, CollectsFacts
  <2>6. SendZrpos(r, ReceiverCleared)
    BY <1>12
  <2> HIDE DEF t
  <2>7. Wearies(t, r) /\ r.state = "ZDATA"
    <3>1. t \in Status /\ Running(t) /\ 1 \in {1, 2}
      BY <1>2, <2>5, AliveIs DEF Running
    <3>2. Erred(t, 1).state = "ZDATA"
      BY <2>5, <3>1, ErredInData
    <3>3. Wearies(t, Erred(t, 1))
      BY <2>5, <3>1, ErredFacts
    <3>4. QED
      BY <3>2, <3>3
  <2> HIDE DEF r
  <2>8. Running(r) /\ r.open = TRUE
    BY <1>4, <2>5, <2>7 DEF Wearies
  <2>9. r \in Alive /\ r.file = f /\ r.version = 1 /\ r.pos = n /\ r.junk = "NO"
        /\ r.prior # "ZSKIP" /\ r.xfer = "RUN"
    BY <1>3, <1>4, <2>5, <2>7, <2>8 DEF Wearies, Running
  <2>10. QED
    BY <1>8, <1>12, <2>1, <2>2, <2>4, <2>6, <2>8, <2>9
<1>13. CASE ArrivesOther(down, {"ZCRC", "ZNAK", "ZFILE"})
            /\ ReceiverStep(Stopped(rcv), ReceiverNext, <<>>) /\ UNCHANGED disk
  BY <1>13, ReceiverOtherStops DEF Kept
<1>14. QED
  BY <1>7, <1>9, <1>10, <1>11, <1>12, <1>13 DEF ReceiveZcrcWait

\* A line of which all data are good or bad, and an element of it taken.
LEMMA AsksLastTail ==
  ASSUME NEW D \in Line, D # <<>>, NEW s, AsksLast(s, D)
  PROVE  AsksLast(s, Tail(D)) /\ (D[1].kind \in {"ZCRCQ", "ZCRCW"} => Tail(D) = <<>>)
<1>1. /\ Len(D) \in Nat /\ Len(D) >= 1
      /\ Tail(D) \in Seq(Heard) /\ Len(Tail(D)) = Len(D) - 1
      /\ \A i \in 1 .. Len(D) - 1 : Tail(D)[i] = D[i + 1]
  BY TailFacts DEF Line
<1> DEFINE n == Len(D)
           T == Tail(D)
<1> HIDE DEF n, T
<1>2. /\ n \in Nat /\ n >= 1 /\ Len(T) = n - 1 /\ T \in Seq(Heard)
      /\ \A i \in 1 .. n - 1 : T[i] = D[i + 1]
      /\ \A i \in 1 .. n :
           D[i].kind \in {"ZCRCQ", "ZCRCW"} =>
             /\ i = n
             /\ Running(s) => s.state = "ZDATA" /\ s.waiting = TRUE
             /\ Running(s) /\ D[i].kind = "ZCRCQ" => s.streaming = TRUE
  BY <1>1 DEF n, T, AsksLast
<1>3. AsksLast(s, T)
  <2>1. SUFFICES ASSUME NEW i \in 1 .. n - 1, T[i].kind \in {"ZCRCQ", "ZCRCW"}
                 PROVE  /\ i = n - 1
                        /\ Running(s) => s.state = "ZDATA" /\ s.waiting = TRUE
                        /\ Running(s) /\ T[i].kind = "ZCRCQ" => s.streaming = TRUE
    BY <1>2 DEF AsksLast
  <2>2. i + 1 \in 1 .. n /\ T[i] = D[i + 1]
    BY <1>2
  <2>3. i + 1 = n
    BY <1>2, <2>1, <2>2
  <2>4. i = n - 1
    BY <2>3
  <2>5. QED
    BY <1>2, <2>1, <2>2, <2>4
<1>4. ASSUME D[1].kind \in {"ZCRCQ", "ZCRCW"} PROVE T = <<>>
  <2>1. 1 \in 1 .. n
    BY <1>2
  <2>2. 1 = n
    BY <1>2, <1>4, <2>1
  <2>3. Len(T) = 0
    BY <1>2, <2>2
  <2>4. QED
    BY <1>2, <2>3, EmptySeq
<1>5. QED
  BY <1>3, <1>4 DEF T

LEMMA ReceiveZrposWaitKeeps ==
  ASSUME ReceiverActs, disk' = disk, ReceiveZrposWait
  PROVE  ReceiverKeeps
<1> DEFINE f == rcv.file
           n == rcv.pos
           v == rcv.version
<1>1. rcv.state = "ZRPOS_WAIT" /\ rcv.state # "ZDATA" /\ rcv.state # "INIT" /\ Filing(rcv)
  BY DEF ReceiveZrposWait, Filing
<1>2. /\ Wearies(rcv, rcv) /\ Wearies(rcv, Erred(rcv, 1)) /\ rcv \in Status /\ rcv \in Alive
      /\ Running(rcv) /\ rcv.xfer = "RUN" /\ HasPart(snd, rcv, disk)
      /\ rcv.junk = "NO" /\ (rcv.prior = "ZSKIP" => rcv.open = FALSE)
  BY <1>1, ReceiverFacts, ErredFacts DEF Running
<1>3. /\ rcv.open = TRUE /\ f = snd.file /\ f \in Files
      /\ v \in DOMAIN disk[f] /\ n <= Size(f) /\ disk[f][v] = Beginning(f, n)
      /\ n \in Nat /\ Size(f) \in Nat /\ rcv.prior # "ZSKIP"
  BY <1>2, FieldTypes, FileFacts DEF HasPart
<1>4. disk \in Disks /\ saved \in Disks /\ Saved(saved) /\ DiskGrows(disk, disk')
  BY GrowsSame DEF ReceiverActs, IInv, Typed, Stored, Disks
<1>5. CASE /\ Arrives(down, "ZEOF")
           /\ ReceiverStep([rcv EXCEPT !.open = FALSE, !.state = "ZRINIT_WAIT"],
                           ReceiverNext, <<Header("ZRINIT", 0)>>)
           /\ saved' = [saved EXCEPT ![rcv.file] = Append(@, disk[rcv.file][rcv.version])]
  <2> DEFINE r2 == [rcv EXCEPT !.open = FALSE, !.state = "ZRINIT_WAIT"]
             e == Header("ZRINIT", 0)
             out == <<e>>
  <2>1. /\ Head(down) = down[1] /\ down[1].kind = "ZEOF"
        /\ Pending(snd, rcv, down[1], Tail(down)) /\ Listens(ReceiverNext)
    BY <1>5, HeaderArrives DEF HeaderKinds
  <2>2. n = Size(f) /\ SentIn("ZEOF_WAIT", snd)
    BY <1>1, <2>1 DEF Pending
  <2>3. disk[f][v] = Batch[f]
    <3>1. Size(f) \in 0 .. Size(f)
      BY <1>3
    <3>2. QED
      BY <1>3, <2>2, <3>1, BeginningFacts
  <2>4. saved' = [saved EXCEPT ![f] = Append(@, Batch[f])]
    BY <1>5, <2>3
  <2>5. saved' \in Disks /\ Saved(saved') /\ SavedGrows(saved, saved') /\ saved'[f] # <<>>
    BY <1>3, <1>4, <2>4, SavesWhole
  <2>6. /\ r2 \in Status /\ r2.open = FALSE /\ r2.state = "ZRINIT_WAIT"
        /\ r2.prior = rcv.prior /\ r2.junk = rcv.junk /\ r2.xfer = rcv.xfer
        /\ r2.timeouts = rcv.timeouts
    <3>1. "ZRINIT_WAIT" \in States
      BY Names1
    <3>2. QED
      BY <1>2, <3>1, StatusIs DEF StatusOf
  <2>7. e \in Heard /\ e.kind = "ZRINIT"
    BY HeaderHeard DEF HeaderKinds
  <2>8. ReceiverStep(r2, ReceiverNext, out)
    BY <1>5
  <2> HIDE DEF r2, e
  <2>9. out \in Line /\ Len(out) <= 1 /\ out[1] = e /\ out # <<>>
    BY <2>7, OneSaid
  <2> HIDE DEF out
  <2>10. r2 \in Alive /\ Running(r2)
    BY <1>2, <2>6, AliveIs DEF Running
  <2>11. ~Filing(r2) /\ r2.state \in Hunting /\ r2.state # "INIT" /\ r2.state # "ZDATA"
         /\ r2.state # "ZCRC_WAIT"
    BY <2>6 DEF Filing, Hunting
  <2>12. Receives(snd, r2, disk')
    BY <1>2, <2>6, <2>11 DEF Receives
  <2>13. \A X : Collecting(snd, r2, X)
    BY <2>11 DEF Collecting
  <2>14. Proceeds(r2)
    BY <1>1, <2>2, <2>4, <2>10, <2>11 DEF Proceeds
  <2>15. IsWhole(snd.file, disk') /\ saved'[snd.file] # <<>>
    BY <1>3, <2>3, <2>5 DEF IsWhole
  <2>16. Running(snd) => Stage(snd, r2, disk', saved')
    BY <2>2, <2>6, <2>15 DEF Stage, SentIn
  <2>17. Running(snd) => \A D : Answer(snd, r2, D, disk', saved', e)
    BY <2>2, <2>6, <2>7, <2>15 DEF Answer, AnswerKinds, SentIn
  <2>18. Agrees(r2, ReceiverNext, out)
    BY <2>9, <2>11, <2>12, <2>13, <2>14, <2>16, <2>17 DEF Agrees
  <2>19. Storing
    BY <1>4, <2>5 DEF Storing
  <2>20. QED
    BY <2>1, <2>8, <2>9, <2>10, <2>18, <2>19, ReceiverMoves
<1>6. CASE /\ Arrives(down, "ZEOF") \/ Arrives(down, "ZNAK")
           /\ SendZrpos(Erred(rcv, 1), ReceiverCleared) /\ UNCHANGED saved
  <2> DEFINE r == Erred(rcv, 1)
  <2>1. Listens(ReceiverCleared)
    BY <1>6, HeaderArrives DEF HeaderKinds
  <2>2. SendZrpos(r, ReceiverCleared) /\ Wearies(rcv, r)
    BY <1>2, <1>6
  <2> HIDE DEF r
  <2>3. /\ r \in Alive /\ r.prior = rcv.prior /\ r.file = rcv.file
        /\ r.version = rcv.version /\ r.pos = rcv.pos /\ r.xfer # "END"
        /\ Running(r) => r.open = rcv.open /\ r.junk = "NO"
        /\ ~Running(r) => r.open = FALSE
    BY <1>2, <2>2 DEF Wearies, Running
  <2>4. Kept
    BY <1>6 DEF Kept
  <2>5. QED
    BY <1>1, <2>1, <2>2, <2>3, <2>4, WearyAsks
<1>7. CASE /\ Arrives(down, "ZDATA")
           /\ ReceiverStep(Collects("ZRPOS_WAIT", "ZDATA"), ReceiverNext, <<>>)
           /\ UNCHANGED saved
  <2> DEFINE r2 == Collects("ZRPOS_WAIT", "ZDATA")
             out == <<>>
  <2>1. /\ down[1].kind = "ZDATA" /\ Pending(snd, rcv, down[1], Tail(down))
        /\ Listens(ReceiverNext)
    BY <1>7, HeaderArrives DEF HeaderKinds
  <2>2. /\ r2 \in Alive /\ r2.prior = "ZRPOS_WAIT" /\ r2.state = "ZDATA"
        /\ r2.type = "ZDATA" /\ r2.xfer = rcv.xfer /\ r2.open = rcv.open
        /\ r2.file = f /\ r2.version = v /\ r2.pos = n
    <3>1. "ZDATA" \in Types /\ "ZRPOS_WAIT" \in Priors
      BY Names1
    <3>2. QED
      BY <1>2, <3>1, CollectsFacts
  <2>3. ReceiverStep(r2, ReceiverNext, out)
    BY <1>7
  <2>4. out \in Line /\ Len(out) <= 1 /\ out = <<>>
    BY EmptyLine
  <2> HIDE DEF r2, out
  <2>5. Running(r2) /\ Filing(r2) /\ r2.state \notin Hunting
    BY <1>2, <2>2 DEF Running, Filing, Hunting
  <2>6. Storing /\ saved' = saved
    BY <1>7, KeptStores DEF ReceiverActs, Kept
  <2>7. HasPart(snd, r2, disk')
    BY <1>3, <2>2 DEF HasPart
  <2>8. Receives(snd, r2, disk')
    BY <2>2, <2>5, <2>7 DEF Receives
  <2>9. Running(snd) => Stage(snd, r2, disk', saved')
    BY <2>1, <2>5 DEF Pending, SentIn, Stage
  <2>10. Collecting(snd, r2, Tail(down))
    BY <2>1, <2>2 DEF Collecting, Pending
  <2>11. Proceeds(r2)
    BY <1>3, <2>2, <2>5, <2>6 DEF Proceeds, Running
  <2>12. Agrees(r2, ReceiverNext, out)
    BY <2>2, <2>4, <2>5, <2>8, <2>9, <2>10, <2>11 DEF Agrees, ReceiverNext
  <2>13. QED
    BY <2>1, <2>2, <2>3, <2>4, <2>6, <2>12, ReceiverMoves
<1>8. CASE ArrivesOther(down, {"ZEOF", "ZNAK", "ZDATA"})
           /\ ReceiverStep(Stopped(rcv), ReceiverNext, <<>>) /\ UNCHANGED saved
  BY <1>8, ReceiverOtherStops DEF Kept
<1>9. QED
  BY <1>5, <1>6, <1>7, <1>8 DEF ReceiveZrposWait

\* What the receiver collects.
LEMMA CollectsData ==
  ASSUME ReceiverActs, rcv.state = "ZDATA", down # <<>>
  PROVE  /\ Head(down) = down[1] /\ down[1] \in Heard /\ down[1].data \in Seq(Units)
         /\ down[1].n \in Nat /\ Collecting(snd, rcv, down) /\ Tail(down) \in Line
         /\ Listens(ReceiverNext) /\ Listens(ReceiverCleared)
         /\ rcv.prior = "ZRPOS_WAIT" => Filing(rcv)
         /\ rcv.prior # "ZRPOS_WAIT" =>
              ~Filing(rcv) /\ rcv.prior = "ZRINIT_WAIT" /\ rcv.type \in {"ZSINIT", "ZFILE"}
<1>1. rcv.prior # "ZRPOS_WAIT" =>
        ~Filing(rcv) /\ rcv.prior = "ZRINIT_WAIT" /\ rcv.type \in {"ZSINIT", "ZFILE"}
  BY ReceiverFacts DEF Receives, Filing
<1>2. rcv.prior = "ZRPOS_WAIT" => Filing(rcv)
  BY DEF Filing
<1>3. QED
  BY <1>1, <1>2, HeardFacts

LEMMA ReceiveJunkKeeps ==
  ASSUME ReceiverActs, ReceiveJunk
  PROVE  ReceiverKeeps
<1>1. rcv.state = "ZDATA" /\ down # <<>> /\ Kept
  BY DEF ReceiveJunk
<1>2. PICK junk \in {"YES", "SHORT", "FULL"} :
        ReceiverStep([rcv EXCEPT !.junk = junk], ReceiverNext, <<>>)
  <2> DEFINE kind == Head(down).kind
             held == IF rcv.junk = "FULL" THEN "FULL"
                     ELSE IF kind = "SHORT" THEN "SHORT" ELSE "YES"
  <2>1. \/ ReceiverStep([rcv EXCEPT !.junk = held], ReceiverNext, <<>>)
        \/ ReceiverStep([rcv EXCEPT !.junk = "FULL"], ReceiverNext, <<>>)
    BY DEF ReceiveJunk
  <2>2. held \in {"YES", "SHORT", "FULL"}
    OBVIOUS
  <2> HIDE DEF held
  <2>3. QED
    BY <2>1, <2>2
<1> DEFINE r2 == [rcv EXCEPT !.junk = junk]
           out == <<>>
<1>3. /\ r2 \in Status /\ r2.junk = junk /\ r2.state = "ZDATA" /\ r2.prior = rcv.prior
      /\ r2.type = rcv.type /\ r2.open = rcv.open /\ r2.file = rcv.file
      /\ r2.version = rcv.version /\ r2.pos = rcv.pos /\ r2.xfer = rcv.xfer
      /\ r2.timeouts = rcv.timeouts
  <2>1. junk \in Junks /\ rcv \in Status
    BY Names1, ReceiverFacts
  <2>2. QED
    BY <1>1, <2>1, StatusIs DEF StatusOf
<1>4. ReceiverStep(r2, ReceiverNext, out)
  BY <1>2
<1>5. out \in Line /\ Len(out) <= 1 /\ out = <<>>
  BY EmptyLine
<1> HIDE DEF r2, out
<1>6. Running(r2) /\ Running(rcv) /\ (Filing(r2) <=> Filing(rcv)) /\ r2.state \notin Hunting
      /\ r2.junk # "NO"
  BY <1>1, <1>3, ReceiverFacts DEF Running, Filing, Hunting
<1>7. r2 \in Alive
  BY <1>3, <1>6, ReceiverFacts, AliveIs
<1>8. Storing /\ disk' = disk /\ saved' = saved
  BY <1>1, KeptStores DEF ReceiverActs, Kept
<1>9. Receives(snd, r2, disk')
  BY <1>1, <1>3, <1>6, <1>8, ReceiverFacts DEF Receives, HasPart
<1>10. Running(snd) => Stage(snd, r2, disk', saved')
  BY <1>1, <1>3, <1>6, <1>8, ReceiverFacts DEF Stage
<1>11. \A X : Collecting(snd, r2, X)
  BY <1>6 DEF Collecting
<1>12. Proceeds(r2)
  <2>1. rcv.pos \in Nat
    BY ReceiverFacts, FieldTypes
  <2>2. QED
    BY <1>3, <1>6, <1>8, <2>1 DEF Proceeds, Running
<1>13. Agrees(r2, ReceiverNext, out)
  BY <1>3, <1>5, <1>6, <1>9, <1>10, <1>11, <1>12 DEF Agrees
<1>14. Listens(ReceiverNext)
  BY <1>1, CollectsData
<1>15. QED
  BY <1>4, <1>5, <1>7, <1>8, <1>13, <1>14, ReceiverMoves

LEMMA ReceiveBadDataKeeps ==
  ASSUME ReceiverActs, ReceiveBadData
  PROVE  ReceiverKeeps
<1> DEFINE y == Erred(rcv, 1)
           r == [y EXCEPT !.junk = "NO"]
<1>1. rcv.state = "ZDATA" /\ down # <<>> /\ Kept
  BY DEF ReceiveBadData
<1>2. /\ rcv \in Alive /\ rcv \in Status /\ Running(rcv)
      /\ (rcv.prior = "ZSKIP" => rcv.open = FALSE)
  BY ReceiverFacts
<1>3. Wearies(rcv, y) /\ y.state = "ZDATA" /\ y.xfer = rcv.xfer
  BY <1>1, <1>2, ErredFacts, ErredInData
<1>4. IF rcv.prior = "ZRPOS_WAIT"
      THEN SendZrpos(r, ReceiverCleared)
      ELSE ReceiverStep([r EXCEPT !.state = "ZRINIT_WAIT"], ReceiverCleared,
                        <<Header("ZNAK", 0)>>)
  BY DEF ReceiveBadData
<1> HIDE DEF y
<1>5. Running(y) /\ y.open = rcv.open /\ y \in Status /\ y.timeouts < TimeoutMax
  BY <1>2, <1>3, AliveIs DEF Wearies, Running
<1>6. /\ r \in Status /\ r.junk = "NO" /\ r.state = "ZDATA" /\ r.prior = rcv.prior
      /\ r.open = rcv.open /\ r.file = rcv.file /\ r.version = rcv.version
      /\ r.pos = rcv.pos /\ r.xfer = rcv.xfer /\ r.timeouts = y.timeouts
  <2>1. /\ y.prior = rcv.prior /\ y.open = rcv.open /\ y.file = rcv.file
        /\ y.version = rcv.version /\ y.pos = rcv.pos /\ y.xfer = rcv.xfer
        /\ y.state = "ZDATA"
    BY <1>3, <1>5 DEF Wearies
  <2>2. "NO" \in Junks
    BY Names1
  <2>3. /\ r \in Status /\ r.junk = "NO" /\ r.state = y.state /\ r.prior = y.prior
        /\ r.open = y.open /\ r.file = y.file /\ r.version = y.version
        /\ r.pos = y.pos /\ r.xfer = y.xfer /\ r.timeouts = y.timeouts
    BY <1>5, <2>2, StatusIs DEF StatusOf
  <2>4. QED
    BY <2>1, <2>3
<1> HIDE DEF r
<1>7. r \in Alive /\ Running(r) /\ r.xfer # "END"
  BY <1>2, <1>5, <1>6, AliveIs DEF Running
<1>8. Listens(ReceiverCleared)
  BY <1>1, CollectsData
<1>9. CASE rcv.prior = "ZRPOS_WAIT"
  BY <1>1, <1>4, <1>6, <1>7, <1>8, <1>9, CollectsData, WearyAsks
<1>10. CASE rcv.prior # "ZRPOS_WAIT"
  <2> DEFINE r2 == [r EXCEPT !.state = "ZRINIT_WAIT"]
             e == Header("ZNAK", 0)
  <2>1. ReceiverStep(r2, ReceiverCleared, <<e>>)
    BY <1>4, <1>10
  <2>2. Keeps(r, r2) /\ r2 \in Alive /\ r2.state = "ZRINIT_WAIT" /\ r2.open = r.open
        /\ r2.xfer = r.xfer
    BY <1>7, Names1, Placed
  <2>3. e \in Heard /\ e.kind = "ZNAK"
    BY HeaderHeard DEF HeaderKinds
  <2> HIDE DEF r2, e
  <2>4. ~Filing(rcv) /\ rcv.prior = "ZRINIT_WAIT" /\ rcv.type \in {"ZSINIT", "ZFILE"}
    BY <1>1, <1>10, CollectsData
  <2>5. Running(snd) => snd.state \in {"ZFILE_WAIT", "ZSINIT_WAIT"}
    BY <1>1, <1>8, <1>10, <2>4, SenderStages
  <2>6. r2.prior # "ZSKIP" /\ Running(r2) /\ r2.junk = "NO" /\ r2.xfer # "END"
    BY <1>6, <1>7, <2>2, <2>4 DEF Keeps, Running
  <2>7. Running(snd) => /\ Stage(snd, r2, disk, saved)
                        /\ \A D : Answer(snd, r2, D, disk, saved, e)
    BY <2>2, <2>3, <2>5 DEF Stage, Answer, AnswerKinds, Hunting
  <2>8. QED
    BY <1>1, <1>8, <2>1, <2>2, <2>3, <2>4, <2>6, <2>7, ReceiverWaits
<1>11. QED
  BY <1>9, <1>10

LEMMA ReceiverGarbledKeeps ==
  ASSUME ReceiverActs, Kept, ReceiverGarbled
  PROVE  ReceiverKeeps
<1>1. rcv.state \in Hunting /\ Arrives(down, "GARBLED")
  BY DEF ReceiverGarbled
<1>2. /\ Head(down) = down[1] /\ down # <<>> /\ down[1].kind = "GARBLED" /\ ~IsData(down[1])
      /\ Listens(ReceiverNext) /\ Listens(ReceiverCleared)
  BY <1>1, HeaderArrives DEF HeaderKinds
<1>3. rcv \in Alive /\ rcv \in Status /\ Running(rcv) /\ Receives(snd, rcv, disk)
      /\ (rcv.prior = "ZSKIP" => rcv.open = FALSE)
  BY ReceiverFacts
<1>4. rcv.state # "INIT" /\ rcv.state # "ZDATA" /\ rcv.state # "COMPLETE" /\ rcv.state # "ABORT"
  BY <1>1 DEF Hunting
<1>5. Storing /\ disk' = disk /\ saved' = saved
  BY KeptStores DEF ReceiverActs, Kept
<1>6. CASE ReceiverStep(Stopped(rcv), ReceiverNext, <<>>)
  BY <1>2, <1>6, ReceiverStops
<1>7. CASE ReceiverStep(Ended(rcv, rcv.state, "HANG"), ReceiverNext, <<>>)
  <2> DEFINE r2 == Ended(rcv, rcv.state, "HANG")
             out == <<>>
  <2>1. Keeps(rcv, r2) /\ r2.xfer = "HANG" /\ r2.state = rcv.state /\ r2.open = FALSE
    <3> DEFINE st == rcv.state
               how == "HANG"
    <3>1. st \in States /\ how \in Xfers
      BY <1>3, Names1, FieldTypes
    <3> HIDE DEF st, how
    <3>2. Keeps(rcv, Ended(rcv, st, how)) /\ Ended(rcv, st, how).xfer = how
          /\ Ended(rcv, st, how).state = st /\ Ended(rcv, st, how).open = FALSE
      BY <1>3, <3>1, EndedFacts
    <3>3. QED
      BY <3>2 DEF st, how
  <2>2. ReceiverStep(r2, ReceiverNext, out) /\ out \in Line /\ Len(out) <= 1 /\ out = <<>>
    BY <1>7, EmptyLine
  <2> HIDE DEF r2, out
  <2>3. ~Running(r2) /\ r2 \in Alive /\ r2.state # "INIT" /\ r2.xfer # "END"
    BY <1>4, <2>1, AliveIs DEF Running, Keeps
  <2>4. QED
    BY <1>2, <1>5, <2>1, <2>2, <2>3, ReceiverEnds
<1>8. ASSUME NEW n \in {1, 2},
             ReceiverStep(Erred(rcv, n), ReceiverCleared, <<Header("ZNAK", 0)>>)
      PROVE  ReceiverKeeps
  <2> DEFINE r2 == Erred(rcv, n)
             e == Header("ZNAK", 0)
             out == <<e>>
  <2>1. Wearies(rcv, r2)
    BY <1>3, ErredFacts
  <2>2. e \in Heard /\ e.kind = "ZNAK"
    BY HeaderHeard DEF HeaderKinds
  <2>3. ReceiverStep(r2, ReceiverCleared, out)
    BY <1>8
  <2> HIDE DEF r2, e
  <2>4. out \in Line /\ Len(out) <= 1 /\ out[1] = e /\ out # <<>>
    BY <2>2, OneSaid
  <2> HIDE DEF out
  <2>5. /\ r2 \in Alive /\ r2.prior = rcv.prior /\ r2.junk = rcv.junk /\ r2.file = rcv.file
        /\ r2.version = rcv.version /\ r2.pos = rcv.pos /\ r2.type = rcv.type
    BY <2>1 DEF Wearies
  <2>6. CASE Running(r2)
    <3>1. r2.state = rcv.state /\ r2.open = rcv.open
      BY <2>1, <2>6 DEF Wearies
    <3>2. Filing(r2) <=> Filing(rcv)
      BY <2>5, <3>1 DEF Filing
    <3>3. Receives(snd, r2, disk')
      <4>1. Filing(r2) => HasPart(snd, r2, disk)
        <5>1. Filing(rcv) => HasPart(snd, rcv, disk)
          BY <1>3 DEF Receives
        <5>2. QED
          BY <2>5, <3>1, <3>2, <5>1 DEF HasPart
      <4>2. r2.state = "ZCRC_WAIT" => Compares(snd, r2, disk)
        <5>1. rcv.state = "ZCRC_WAIT" => Compares(snd, rcv, disk)
          BY <1>3 DEF Receives
        <5>2. QED
          BY <2>5, <3>1, <5>1 DEF Compares
      <4>3. Receives(snd, r2, disk)
        <5>1. r2.prior = "ZSKIP" => r2.open = FALSE
          BY <1>3, <2>5, <3>1
        <5>2. r2.state \in Hunting /\ r2.state # "ZDATA" /\ r2.junk = "NO"
          BY <1>1, <1>3, <1>4, <2>5, <3>1 DEF Receives
        <5>3. QED
          BY <2>6, <4>1, <4>2, <5>1, <5>2 DEF Receives
      <4>4. QED
        BY <1>5, <4>3
    <3>4. Running(snd) => Stage(snd, r2, disk', saved')
      BY <1>4, <1>5, <2>5, <3>1, <3>2, ReceiverFacts DEF Stage
    <3>5. \A X : Collecting(snd, r2, X)
      BY <1>4, <3>1 DEF Collecting
    <3>6. Proceeds(r2)
      <4>1. rcv.pos \in Nat
        BY <1>3, FieldTypes
      <4>2. QED
        BY <1>5, <2>5, <2>6, <3>2, <4>1 DEF Proceeds, Running
    <3>7. \A D : Answer(snd, r2, D, disk', saved', e)
      BY <1>1, <2>2, <3>1 DEF Answer, AnswerKinds
    <3>8. ~(~HeadersFail(scenario) /\ Running(snd) /\ rcv.state = "ZCRC_WAIT")
      <4>1. SUFFICES ASSUME ~HeadersFail(scenario), Running(snd), rcv.state = "ZCRC_WAIT"
                     PROVE  FALSE
        OBVIOUS
      <4>2. up = <<>> /\ Comparing(scenario, snd, rcv, down, up) /\ down \in Line
        BY <1>2 DEF Listens, ReceiverActs, IInv, Typed, Conversation, Conv
      <4>3. PICK i \in 1 .. Len(down) : down[i].kind = "ZCRC"
        BY <1>3, <4>1, <4>2 DEF Comparing
      <4>4. i # 1 /\ ~IsData(down[i])
        BY <1>2, <4>3, KindFacts
      <4>5. 1 \in 1 .. Len(down) /\ OneHeader(down)
        <5>1. Len(down) \in Nat /\ Len(down) >= 1
          BY <1>2, <4>2, LineFacts
        <5>2. QED
          BY <5>1, ReceiverFacts DEF Turns
      <4>6. QED
        BY <1>2, <4>4, <4>5 DEF OneHeader
    <3>9. Agrees(r2, ReceiverCleared, out)
      BY <1>1, <1>4, <2>4, <2>6, <3>1, <3>3, <3>4, <3>5, <3>6, <3>7, <3>8 DEF Agrees
    <3>10. QED
      BY <1>2, <1>5, <2>3, <2>4, <2>5, <3>9, ReceiverMoves
  <2>7. CASE ~Running(r2)
    <3>1. r2.state = "ABORT" /\ r2.open = FALSE /\ r2.xfer = "ABORT"
      BY <2>1, <2>7 DEF Wearies
    <3>2. \A D : Answer(snd, r2, D, disk', saved', e)
      BY <2>2, <2>7 DEF Answer, AnswerKinds
    <3>3. r2.state # "INIT" /\ r2.xfer # "END"
      BY <3>1
    <3>4. QED
      BY <1>2, <1>5, <2>3, <2>4, <2>5, <2>7, <3>1, <3>2, <3>3, ReceiverEnds
  <2>8. QED
    BY <2>6, <2>7
<1>9. QED
  BY <1>6, <1>7, <1>8 DEF ReceiverGarbled

\* The next block of the file.
LEMMA ReceiveBlockKeeps ==
  ASSUME ReceiverActs, ReceiveGoodData, rcv.prior = "ZRPOS_WAIT",
         NEW packet, packet = Head(down),
         NEW r, r = [rcv EXCEPT !.pos = @ + Len(packet.data), !.errors = 0,
                                !.state = IF packet.kind = "ZCRCW" THEN "ZRPOS_WAIT" ELSE @],
         ReceiverStep(r, ReceiverNext,
                      IF packet.kind = "ZCRCG" THEN <<>> ELSE <<Header("ZACK", r.pos)>>),
         disk' = [disk EXCEPT ![rcv.file][rcv.version] = @ \o packet.data],
         saved' = saved
  PROVE  ReceiverKeeps
<1> DEFINE f == rcv.file
           n == rcv.pos
           v == rcv.version
<1>1. /\ rcv.state = "ZDATA" /\ rcv.junk = "NO" /\ down # <<>> /\ packet.kind \in Good
  BY DEF ReceiveGoodData, Arrives, Good
<1>2. /\ packet = down[1] /\ packet.data \in Seq(Units)
      /\ Collecting(snd, rcv, down) /\ Tail(down) \in Line /\ Listens(ReceiverNext)
      /\ Filing(rcv)
  BY <1>1, CollectsData
<1>3. /\ rcv \in Alive /\ rcv \in Status /\ Running(rcv) /\ HasPart(snd, rcv, disk)
      /\ Receives(snd, rcv, disk)
      /\ (Running(snd) => Stage(snd, rcv, disk, saved))
  BY <1>2, ReceiverFacts
<1>4. /\ rcv.open = TRUE /\ f = snd.file /\ f \in Files
      /\ v \in DOMAIN disk[f] /\ n <= Size(f) /\ disk[f][v] = Beginning(f, n)
      /\ n \in Nat /\ Size(f) \in Nat /\ n \in 0 .. Size(f) /\ rcv.type = "ZDATA"
  <2>1. n \in Nat /\ (f \in Files => Size(f) \in Nat)
    BY <1>3, FieldTypes, FileFacts
  <2>2. rcv.type = "ZDATA"
    BY <1>1, <1>3 DEF Receives
  <2>3. QED
    BY <1>3, <2>1, <2>2 DEF HasPart
<1>5. disk \in Disks /\ saved \in Disks /\ Saved(saved) /\ down \in Line
  BY DEF ReceiverActs, IInv, Typed, Stored, Disks
<1>6. Track(f, down, n, snd.pos) /\ AsksLast(snd, down)
  BY <1>1, <1>2 DEF Collecting
<1>7. PICK m \in 0 .. Size(f) : Carries(f, packet, n, m) /\ Track(f, Tail(down), m, snd.pos)
  <2>1. down \in Seq(Heard)
    BY <1>5 DEF Line
  <2>2. QED
    BY <1>1, <1>2, <1>4, <1>6, <2>1, TrackHead
<1>8. m \in n .. Size(f) /\ m \in Nat /\ packet.data = SubSeq(Batch[f], n + 1, m)
  BY <1>1, <1>4, <1>7 DEF Carries
<1>9. n + Len(packet.data) = m
  <2>1. Len(packet.data) = m - n
    BY <1>4, <1>8, PartFacts
  <2>2. QED
    BY <1>4, <1>8, <2>1
<1>10. /\ disk' \in Disks /\ DiskGrows(disk, disk')
       /\ v \in 1 .. Len(disk'[f]) /\ disk'[f][v] = Beginning(f, m)
  <2>1. disk' = Written(disk, f, v, SubSeq(Batch[f], n + 1, m))
    BY <1>8 DEF Written
  <2>2. v \in 1 .. Len(disk[f])
    BY <1>4, <1>5, DiskFacts
  <2> DEFINE e == Written(disk, f, v, SubSeq(Batch[f], n + 1, m))
  <2>3. /\ e \in Disks /\ DiskGrows(disk, e)
        /\ v \in 1 .. Len(e[f]) /\ e[f][v] = Beginning(f, m)
    <3> HIDE DEF f, n, v
    <3>1. QED
      BY <1>4, <1>5, <1>8, <2>2, GrowsBlock
  <2> HIDE DEF e
  <2>4. disk' = e
    BY <2>1 DEF e
  <2> HIDE DEF f, n, v
  <2>5. QED
    BY <2>3, <2>4
<1>11. Storing /\ v \in DOMAIN disk'[f]
  BY <1>4, <1>5, <1>10, DiskFacts DEF Storing, SavedGrows
<1> DEFINE st == IF packet.kind = "ZCRCW" THEN "ZRPOS_WAIT" ELSE rcv.state
<1>12. r = [rcv EXCEPT !.pos = m, !.errors = 0, !.state = st]
  BY <1>9
<1>13. st \in States /\ 0 \in Errors /\ (packet.kind = "ZCRCW" => st = "ZRPOS_WAIT")
       /\ (packet.kind # "ZCRCW" => st = "ZDATA")
  BY <1>1, Names1, ConstantFacts DEF Errors
<1> HIDE DEF st
<1>14. /\ r \in Status /\ r.pos = m /\ r.state = st /\ r.prior = rcv.prior
       /\ r.type = rcv.type /\ r.open = rcv.open /\ r.file = f /\ r.version = v
       /\ r.junk = rcv.junk /\ r.xfer = rcv.xfer /\ r.timeouts = rcv.timeouts
  BY <1>3, <1>8, <1>12, <1>13, StatusIs DEF StatusOf
<1>15. r \in Alive /\ Running(r) /\ Filing(r) /\ r.state \in Hunting \cup {"ZDATA"}
       /\ r.state # "INIT" /\ r.state # "ZCRC_WAIT"
  BY <1>3, <1>13, <1>14, AliveIs DEF Running, Filing, Hunting
<1>16. HasPart(snd, r, disk')
  <2> DEFINE e == disk'
  <2>1. v \in DOMAIN e[f] /\ e[f][v] = Beginning(f, m)
    BY <1>10, <1>11
  <2>2. m <= Size(f) /\ f = snd.file /\ f \in Files /\ r.open = TRUE
        /\ r.file = f /\ r.version = v /\ r.pos = m
    BY <1>4, <1>8, <1>14
  <2> HIDE DEF e, f, v
  <2>3. HasPart(snd, r, e)
    BY <2>1, <2>2 DEF HasPart
  <2>4. QED
    BY <2>3 DEF e
<1>17. Receives(snd, r, disk')
  <2>1. r.prior # "ZSKIP" /\ r.junk = "NO" /\ r.prior = "ZRPOS_WAIT" /\ r.type = "ZDATA"
    BY <1>1, <1>4, <1>14
  <2>2. QED
    BY <1>15, <1>16, <2>1 DEF Receives
<1>18. AsksLast(snd, Tail(down))
       /\ (packet.kind \in {"ZCRCQ", "ZCRCW"} => Tail(down) = <<>>)
  BY <1>1, <1>2, <1>5, <1>6, AsksLastTail
<1>19. Collecting(snd, r, Tail(down))
  BY <1>4, <1>7, <1>14, <1>18 DEF Collecting
<1>20. Proceeds(r)
  BY <1>8, <1>14, <1>15 DEF Proceeds, Running
<1>21. Running(snd) => Stage(snd, r, disk', saved')
  <2>1. SUFFICES ASSUME Running(snd) PROVE Stage(snd, r, disk', saved')
    OBVIOUS
  <2>2. /\ snd.state \in {"ZFILE_WAIT", "ZDATA", "ZEOF_WAIT"}
        /\ snd.state = "ZEOF_WAIT" => n = Size(snd.file)
    BY <1>2, <2>1, SenderStages
  <2>3. snd.state # "ZFILE_WAIT"
    BY <1>1, <1>3, <1>4, <2>1 DEF Stage
  <2>4. snd.state = "ZEOF_WAIT" => m = Size(snd.file)
    BY <1>4, <1>8, <2>2
  <2>5. QED
    BY <1>14, <1>15, <2>2, <2>3, <2>4 DEF Stage
<1> DEFINE e == Header("ZACK", r.pos)
           out == IF packet.kind = "ZCRCG" THEN <<>> ELSE <<e>>
<1>22. e \in Heard /\ e.kind = "ZACK" /\ e.n = m
  BY <1>8, <1>14, HeaderHeard DEF HeaderKinds
<1>23. ReceiverStep(r, ReceiverNext, out)
  OBVIOUS
<1> HIDE DEF e
<1>24. out \in Line /\ Len(out) <= 1
       /\ (out # <<>> => out[1] = e /\ packet.kind \in {"ZCRCQ", "ZCRCW"})
  BY <1>1, <1>22, OneSaid, EmptyLine DEF Good
<1> HIDE DEF out
<1>25. ASSUME Running(snd), packet.kind \in {"ZCRCQ", "ZCRCW"}
       PROVE  /\ Answer(snd, r, <<>>, disk', saved', e)
              /\ r.state = "ZDATA" =>
                   snd.state = "ZDATA" /\ snd.waiting = TRUE /\ snd.streaming = TRUE
  <2>1. 1 \in 1 .. Len(down)
    BY <1>1, <1>5, LineFacts
  <2>2. /\ snd.state = "ZDATA" /\ snd.waiting = TRUE
        /\ (packet.kind = "ZCRCQ" => snd.streaming = TRUE)
    BY <1>2, <1>6, <1>25, <2>1 DEF AsksLast
  <2>3. r.state = "ZDATA" => packet.kind = "ZCRCQ"
    BY <1>13, <1>14, <1>25
  <2>4. m <= Size(snd.file)
    BY <1>4, <1>8
  <2>5. QED
    BY <1>14, <1>15, <1>22, <2>2, <2>3, <2>4 DEF Answer, AnswerKinds
<1>26. Agrees(r, ReceiverNext, out)
  BY <1>15, <1>17, <1>18, <1>19, <1>20, <1>21, <1>24, <1>25 DEF Agrees, ReceiverNext
<1>27. QED
  BY <1>2, <1>11, <1>15, <1>23, <1>24, <1>26, ReceiverMoves

LEMMA ReceiveGoodDataKeeps ==
  ASSUME ReceiverActs, ReceiveGoodData
  PROVE  ReceiverKeeps
<1> DEFINE packet == Head(down)
           f == packet.n
<1>1. /\ rcv.state = "ZDATA" /\ rcv.junk = "NO" /\ down # <<>> /\ packet.kind \in Good
      /\ saved' = saved
  BY DEF ReceiveGoodData, Arrives, Good
<1>2. /\ packet = down[1] /\ Collecting(snd, rcv, down)
      /\ Listens(ReceiverNext) /\ Listens(ReceiverCleared)
      /\ rcv.prior # "ZRPOS_WAIT" =>
           ~Filing(rcv) /\ rcv.prior = "ZRINIT_WAIT" /\ rcv.type \in {"ZSINIT", "ZFILE"}
  BY <1>1, CollectsData
<1>3. /\ rcv \in Alive /\ rcv \in Status /\ Running(rcv)
  BY ReceiverFacts
<1>4. CASE rcv.prior = "ZRPOS_WAIT"
  BY <1>1, <1>4, ReceiveBlockKeeps DEF ReceiveGoodData
<1>5. CASE /\ rcv.prior # "ZRPOS_WAIT" /\ rcv.type = "ZSINIT"
           /\ ReceiverStep([rcv EXCEPT !.state = "ZRINIT_WAIT"], ReceiverNext,
                           <<Header("ZACK", 0)>>)
           /\ UNCHANGED disk
  <2> DEFINE r2 == [rcv EXCEPT !.state = "ZRINIT_WAIT"]
             e == Header("ZACK", 0)
  <2>1. ReceiverStep(r2, ReceiverNext, <<e>>)
    BY <1>5
  <2>2. Keeps(rcv, r2) /\ r2 \in Alive /\ r2.state = "ZRINIT_WAIT" /\ r2.open = rcv.open
        /\ r2.xfer = rcv.xfer
    BY <1>3, Names1, Placed
  <2>3. e \in Heard /\ e.kind = "ZACK"
    BY HeaderHeard DEF HeaderKinds
  <2> HIDE DEF r2, e
  <2>4. Running(snd) => snd.state = "ZSINIT_WAIT"
    BY <1>1, <1>2, <1>5, SenderStages
  <2>5. r2.prior # "ZSKIP" /\ Running(r2) /\ r2.junk = "NO" /\ r2.xfer # "END"
    BY <1>1, <1>2, <1>3, <1>5, <2>2 DEF Keeps, Running
  <2>6. Running(snd) => /\ Stage(snd, r2, disk, saved)
                        /\ \A D : Answer(snd, r2, D, disk, saved, e)
    BY <2>2, <2>3, <2>4 DEF Stage, Answer, AnswerKinds
  <2>7. Kept
    BY <1>1, <1>5 DEF Kept
  <2>8. QED
    BY <1>2, <1>5, <2>1, <2>2, <2>3, <2>5, <2>6, <2>7, ReceiverWaits
<1>6. CASE rcv.prior # "ZRPOS_WAIT" /\ rcv.type = "ZFILE" /\ ReceiveZfile(packet.n)
  <2> DEFINE r == [rcv EXCEPT !.file = f, !.open = TRUE]
             there == disk[f]
  <2>1. f = snd.file /\ f \in Files /\ f \in Nat
    <3>1. Names(snd, down) /\ down \in Line
      BY <1>1, <1>2, <1>6 DEF Collecting, ReceiverActs, IInv, Typed
    <3>2. 1 \in 1 .. Len(down)
      BY <1>1, <3>1, LineFacts
    <3>3. packet = NameOf(snd) /\ snd.file \in Files
      BY <1>1, <1>2, <3>1, <3>2 DEF Names
    <3>4. NameOf(snd).n = snd.file
      BY DEF NameOf, Packet
    <3>5. \A g \in Files : g \in Nat
      BY FileFacts
    <3>6. QED
      BY <3>3, <3>4, <3>5
  <2>2. Running(snd) => snd.state = "ZFILE_WAIT"
    BY <1>1, <1>2, <1>6, SenderStages
  <2> HIDE DEF f
  <2>3. /\ r \in Status /\ r.file = f /\ r.open = TRUE /\ r.state = rcv.state
        /\ r.prior = rcv.prior /\ r.junk = rcv.junk /\ r.xfer = rcv.xfer
        /\ r.timeouts = rcv.timeouts
    BY <1>3, <2>1, StatusIs DEF StatusOf
  <2>4. \/ SendZrpos(Renamed(r), ReceiverCleared) /\ NewVersion
        \/ /\ there # <<>> /\ Len(there[1]) <= Size(f) /\ UNCHANGED disk
           /\ SendZcrc([r EXCEPT !.version = 1, !.pos = Len(there[1])], ReceiverCleared)
    BY <1>6 DEF ReceiveZfile, f
  <2> HIDE DEF r
  <2>5. r \in Alive /\ Running(r)
    BY <1>3, <2>3, AliveIs DEF Running
  <2>6. r.prior # "ZSKIP" /\ r.junk = "NO" /\ ~Filing(rcv) /\ r.state # "INIT"
    BY <1>1, <1>2, <1>6, <2>3
  <2>7. CASE SendZrpos(Renamed(r), ReceiverCleared) /\ NewVersion
    BY <1>1, <1>2, <2>1, <2>2, <2>3, <2>5, <2>6, <2>7, RenamedMoves
  <2>8. CASE /\ there # <<>> /\ Len(there[1]) <= Size(f) /\ UNCHANGED disk
             /\ SendZcrc([r EXCEPT !.version = 1, !.pos = Len(there[1])], ReceiverCleared)
    <3> DEFINE n == Len(there[1])
               one == 1
               r2 == Versioned(r, one, n)
    <3>1. n \in Nat /\ one \in Nat
      <4>1. disk \in Disks
        BY DEF ReceiverActs, IInv, Typed, Disks
      <4>2. 1 \in 1 .. Len(there)
        BY <2>1, <2>8, <4>1, DiskFacts
      <4>3. QED
        BY <2>1, <4>1, <4>2, DiskFacts
    <3>2. SendZcrc(r2, ReceiverCleared)
      BY <2>8 DEF Versioned
    <3> HIDE DEF n, one
    <3>3. /\ r2 \in Status /\ r2.version = one /\ r2.pos = n /\ r2.file = r.file
          /\ r2.open = r.open /\ r2.prior = r.prior /\ r2.junk = r.junk
          /\ r2.xfer = r.xfer /\ r2.timeouts = r.timeouts /\ r2.state = r.state
      BY <2>5, <3>1, VersionedFacts
    <3> HIDE DEF r2
    <3>4. r2 \in Alive /\ Running(r2)
      BY <2>5, <3>3, AliveIs DEF Running
    <3>5. Compares(snd, r2, disk)
      BY <2>1, <2>3, <2>8, <3>3 DEF Compares, n, one
    <3>6. Kept
      BY <1>1, <2>8 DEF Kept
    <3>7. QED
      BY <1>2, <2>2, <2>6, <3>2, <3>3, <3>4, <3>5, <3>6, SendZcrcMoves
  <2>9. QED
    BY <2>4, <2>7, <2>8
<1>7. QED
  BY <1>4, <1>5, <1>6 DEF ReceiveGoodData

LEMMA CannotCreateKeeps ==
  ASSUME IInv, CannotCreate
  PROVE  ReceiverKeeps
<1>1. ReceiverActs
  <2>1. faults \in Nat /\ scenario.most \in Nat /\ faults < scenario.most
        /\ faults' = faults + 1
    BY ScenarioFacts DEF CannotCreate, Spend, IInv, Typed
  <2>2. faults' \in 0 .. scenario.most
    BY <2>1
  <2>3. QED
    BY <2>2 DEF CannotCreate, ReceiverActs
<1>2. Kept /\ ReceiverStep(Stopped(rcv), ReceiverNext, <<>>)
  BY DEF CannotCreate
<1>3. Listens(ReceiverNext)
  <2>1. CASE rcv.state = "ZDATA" /\ Arrives(down, "ZCRCW")
    BY <1>1, <2>1, CollectsData DEF Arrives
  <2>2. CASE Arrives(down, "ZCRC")
    BY <1>1, <2>2, HeaderArrives DEF HeaderKinds
  <2>3. QED
    BY <2>1, <2>2 DEF CannotCreate
<1>4. QED
  BY <1>1, <1>2, <1>3, ReceiverStops

LEMMA ReceiverTimesOutKeeps ==
  ASSUME IInv, ReceiverTimesOut
  PROVE  ReceiverKeeps
<1> DEFINE r == TimedOut(rcv)
<1>1. Running(rcv) /\ Quiet /\ UNCHANGED faults /\ Kept /\ ReceiverUnchanged
  BY DEF ReceiverTimesOut, ReceiverTimeout, OnTime
<1>2. ReceiverActs
  BY <1>1 DEF ReceiverActs, IInv, Typed
<1>3. ReceiverResends(r)
  BY DEF ReceiverTimesOut, ReceiverTimeout
<1>4. up = <<>> /\ down = <<>>
  BY <1>1, QuietFacts
<1>5. Listens({down})
  <2>1. Running(snd) => snd.state \notin {"INIT", "ZRPOS"}
    BY <1>1 DEF Quiet
  <2>2. QED
    BY <1>4, <2>1, EmptyLine DEF Listens
<1>6. Wearies(rcv, r)
  BY <1>2, ReceiverFacts, TimedOutFacts
<1> HIDE DEF r
<1>7. CASE rcv.state = "ZCHALLENGE_WAIT" /\ SendZchallenge(r, {down})
  BY <1>1, <1>2, <1>5, <1>6, <1>7, SendZchallengeMoves
<1>8. CASE rcv.state = "ZCRC_WAIT" /\ SendZcrc(r, {down})
  <2>1. Running(snd) => snd.state = "ZFILE_WAIT"
    BY <1>2, <1>5, <1>8, SenderStages
  <2>2. QED
    BY <1>1, <1>2, <1>5, <1>6, <1>8, <2>1, WearyCompares
<1>9. CASE rcv.state = "ZRINIT_WAIT" /\ RepeatZrinit(r, {down})
  BY <1>1, <1>2, <1>5, <1>6, <1>9, RepeatZrinitMoves
<1>10. CASE rcv.state = "ZRPOS_WAIT" /\ SendZrpos(r, {down})
  <2>1. Filing(rcv) /\ rcv.junk = "NO"
    BY <1>2, <1>10, ReceiverFacts DEF Filing
  <2>2. /\ r \in Alive /\ r.prior = rcv.prior /\ r.file = rcv.file
        /\ r.version = rcv.version /\ r.pos = rcv.pos /\ r.xfer # "END"
        /\ Running(r) => r.open = rcv.open /\ r.junk = "NO"
        /\ ~Running(r) => r.open = FALSE
    BY <1>6, <2>1 DEF Wearies, Running
  <2>3. QED
    BY <1>1, <1>2, <1>5, <1>10, <2>1, <2>2, WearyAsks
<1>11. QED
  BY <1>3, <1>7, <1>8, <1>9, <1>10 DEF ReceiverResends

-----------------------------------------------------------------------------
(***************************************************************************)
(* A step that only changes what is on its way to the receiver.            *)
(***************************************************************************)
OnlyLines ==
  /\ UNCHANGED <<scenario, snd, rcv, disk, saved, result, session>>
  /\ faults' \in 0 .. scenario.most

LEMMA DownMoves ==
  ASSUME IInv, OnlyLines, up' = up, down # <<>>, NEW D \in Line, down' = D,
         Turns(snd, rcv, D, up), Downward(snd, rcv, D),
         Comparing(scenario, snd, rcv, D, up)
  PROVE  IInv'
<1>1. /\ scenario' = scenario /\ snd' = snd /\ rcv' = rcv /\ disk' = disk /\ saved' = saved
      /\ result' = result /\ session' = session /\ faults' \in 0 .. scenario.most
  BY DEF OnlyLines
<1>2. Typed /\ Stored /\ Conv(scenario, snd, rcv, down, up, disk, saved)
  BY DEF IInv, Conversation
<1>3. Typed'
  BY <1>1, <1>2 DEF Typed
<1>4. Stored'
  BY <1>1, <1>2 DEF Stored
<1>5. Upward(snd, rcv, D, up, disk, saved)
  <2>1. SUFFICES ASSUME up # <<>> PROVE Answer(snd, rcv, D, disk, saved, up[1])
    BY DEF Upward
  <2>2. Answer(snd, rcv, down, disk, saved, up[1])
    BY <1>2, <2>1 DEF Conv, Upward
  <2>3. QED
    BY <2>2 DEF Answer
<1>6. Conv(scenario, snd, rcv, D, up, disk, saved)
  BY <1>2, <1>5 DEF Conv
<1>7. Conversation'
  BY <1>1, <1>6 DEF Conversation
<1>8. QED
  BY <1>3, <1>4, <1>7 DEF IInv

\* An element that is run over, or a header that is lost.
LEMMA TailDown ==
  ASSUME IInv, OnlyLines, up' = up, down # <<>>, down' = Tail(down),
         \/ IsData(down[1]) /\ rcv.state # "ZDATA"
         \/ ~IsData(down[1]) /\ (HeadersFail(scenario) \/ rcv.state # "ZCRC_WAIT")
  PROVE  IInv'
<1> DEFINE T == Tail(down)
<1>1. /\ down \in Seq(Heard) /\ Turns(snd, rcv, down, up) /\ Downward(snd, rcv, down)
      /\ Comparing(scenario, snd, rcv, down, up) /\ Receives(snd, rcv, disk)
      /\ rcv \in Status
  BY AliveIs DEF IInv, Typed, Line, Conversation, Conv
<1>2. /\ Len(down) \in Nat /\ Len(down) >= 1 /\ down[1] \in Heard
      /\ T \in Seq(Heard) /\ Len(T) = Len(down) - 1
      /\ \A i \in 1 .. Len(down) - 1 : T[i] = down[i + 1]
  BY <1>1, TailFacts
<1>3. \A h \in 1 .. Len(T) : /\ h + 1 \in 1 .. Len(down) /\ T[h] = down[h + 1]
                             /\ Behind(T, h) = Behind(down, h + 1)
  <2>1. SUFFICES ASSUME NEW h \in 1 .. Len(T)
                 PROVE  /\ h + 1 \in 1 .. Len(down) /\ T[h] = down[h + 1]
                        /\ Behind(T, h) = Behind(down, h + 1)
    OBVIOUS
  <2>2. T[h] = down[h + 1] /\ Behind(T, h) = Behind(down, h + 1)
    BY <1>1, BehindTail
  <2>3. QED
    BY <1>2, <2>2
<1>4. T \in Line
  BY <1>2 DEF Line
<1>5. down' = T /\ Running(rcv) /\ snd.state # "INIT"
  BY <1>1 DEF Turns
<1>6. AsksLast(snd, down) => AsksLast(snd, T)
  BY <1>1, AsksLastTail DEF Line
<1>7. ASSUME NEW f \in Files, NEW from, NEW to, Track(f, down, from, to), ~IsData(down[1])
      PROVE  Track(f, T, from, to)
  <2>1. PICK m \in 0 .. Size(f) : Carries(f, down[1], from, m) /\ Track(f, T, m, to)
    BY <1>1, <1>7, TrackHead
  <2>2. m = from
    BY <1>7, <2>1 DEF Carries
  <2>3. QED
    BY <2>1, <2>2
<1> HIDE DEF T
<1>8. Turns(snd, rcv, T, up)
  <2>1. OneHeader(T)
    <3>1. SUFFICES ASSUME NEW i \in 1 .. Len(T), NEW j \in 1 .. Len(T), i # j
                   PROVE  IsData(T[i]) \/ IsData(T[j])
      BY DEF OneHeader
    <3>2. /\ i + 1 \in 1 .. Len(down) /\ j + 1 \in 1 .. Len(down) /\ i + 1 # j + 1
          /\ T[i] = down[i + 1] /\ T[j] = down[j + 1]
      BY <1>3, <3>1
    <3>3. QED
      BY <1>1, <3>2 DEF Turns, OneHeader
  <2>2. NoHeader(down) => NoHeader(T)
    BY <1>3 DEF NoHeader
  <2>3. Mute(rcv, down) => Mute(rcv, T)
    BY <2>2, <1>5 DEF Mute
  <2>4. HeaderFirst(down) => HeaderFirst(T)
    <3>1. SUFFICES ASSUME HeaderFirst(down), NEW i \in 2 .. Len(T) PROVE IsData(T[i])
      BY DEF HeaderFirst
    <3>2. i \in 1 .. Len(T) /\ i + 1 \in 2 .. Len(down)
      BY <1>2
    <3>3. QED
      BY <1>3, <3>1, <3>2 DEF HeaderFirst
  <2>5. QED
    BY <1>1, <1>5, <2>1, <2>3, <2>4 DEF Turns
<1>9. Downward(snd, rcv, T)
  <2>1. Collecting(snd, rcv, T)
    <3>1. SUFFICES ASSUME rcv.state = "ZDATA", rcv.junk = "NO"
                   PROVE  /\ rcv.prior = "ZRPOS_WAIT" =>
                               Track(rcv.file, T, rcv.pos, snd.pos) /\ AsksLast(snd, T)
                          /\ rcv.prior = "ZRINIT_WAIT" /\ rcv.type = "ZFILE" =>
                               Names(snd, T)
      BY DEF Collecting
    <3>2. Collecting(snd, rcv, down) /\ ~IsData(down[1])
      BY <1>1, <1>5, <3>1 DEF Downward
    <3>3. ASSUME rcv.prior = "ZRPOS_WAIT"
          PROVE  Track(rcv.file, T, rcv.pos, snd.pos) /\ AsksLast(snd, T)
      <4>1. Track(rcv.file, down, rcv.pos, snd.pos) /\ AsksLast(snd, down)
        BY <3>1, <3>2, <3>3 DEF Collecting
      <4>2. rcv.file \in Files
        BY <1>1, <1>5, <3>1, <3>3 DEF Receives, Filing, HasPart
      <4>3. QED
        BY <1>6, <1>7, <3>2, <4>1, <4>2
    <3>4. ASSUME rcv.prior = "ZRINIT_WAIT", rcv.type = "ZFILE" PROVE Names(snd, T)
      <4>1. Names(snd, down)
        BY <3>1, <3>2, <3>4 DEF Collecting
      <4>2. QED
        BY <1>3, <4>1 DEF Names
    <3>5. QED
      BY <3>3, <3>4
  <2>2. ASSUME NEW h \in 1 .. Len(T) PROVE Pending(snd, rcv, T[h], Behind(T, h))
    BY <1>1, <1>3, <1>5, <2>2 DEF Downward
  <2>3. QED
    BY <2>1, <2>2 DEF Downward
<1>10. Comparing(scenario, snd, rcv, T, up)
  <2>1. SUFFICES ASSUME ~HeadersFail(scenario), rcv.state = "ZCRC_WAIT"
                 PROVE  /\ \A i \in 1 .. Len(T) : T[i].kind # "ZFILE"
                        /\ Running(snd) => \/ up # <<>> /\ up[1].kind = "ZCRC"
                                           \/ \E i \in 1 .. Len(T) : T[i].kind = "ZCRC"
    BY DEF Comparing
  <2>2. /\ \A i \in 1 .. Len(down) : down[i].kind # "ZFILE"
        /\ Running(snd) => \/ up # <<>> /\ up[1].kind = "ZCRC"
                           \/ \E i \in 1 .. Len(down) : down[i].kind = "ZCRC"
    BY <1>1, <1>5, <2>1 DEF Comparing
  <2>3. \A i \in 1 .. Len(T) : T[i].kind # "ZFILE"
    BY <1>3, <2>2
  <2>4. ASSUME NEW i \in 1 .. Len(down), down[i].kind = "ZCRC"
        PROVE  \E j \in 1 .. Len(T) : T[j].kind = "ZCRC"
    <3>1. IsData(down[1])
      BY <2>1
    <3>2. i # 1
      BY <2>4, <3>1, KindFacts
    <3>3. i - 1 \in 1 .. Len(T) /\ (i - 1) + 1 = i /\ i - 1 \in 1 .. Len(down) - 1
      BY <1>2, <3>2
    <3>4. T[i - 1] = down[(i - 1) + 1]
      BY <1>2, <3>3
    <3>5. T[i - 1].kind = "ZCRC"
      BY <2>4, <3>3, <3>4
    <3>6. QED
      BY <3>3, <3>5
  <2>5. QED
    BY <2>2, <2>3, <2>4
<1>11. QED
  BY <1>4, <1>5, <1>8, <1>9, <1>10, DownMoves

\* The receiver runs over an element.
LEMMA RunsOver ==
  ASSUME ReceiverActs, Kept, ReceiverStep(rcv, ReceiverNext, <<>>), down # <<>>,
         rcv.state = "INIT" \/ (IsData(Head(down)) /\ rcv.state # "ZDATA")
  PROVE  ReceiverKeeps
<1>1. up \in Seq(Heard) /\ down \in Seq(Heard) /\ Running(rcv)
      /\ (~Running(snd) => up = <<>>)
  BY DEF ReceiverActs, IInv, Typed, Line, Conversation, Conv, Turns
<1>2. Head(down) = down[1]
  BY <1>1, TailFacts
<1>3. up \o <<>> = up
  BY <1>1
<1>4. rcv' = rcv /\ down' = Tail(down) /\ up' = up
  BY <1>1, <1>3 DEF ReceiverStep, ReceiverNext
<1>5. OnlyLines
  BY <1>4 DEF OnlyLines, ReceiverActs, ReceiverUnchanged, Kept
<1>6. IInv'
  BY <1>2, <1>4, <1>5, TailDown DEF ReceiverActs
<1>7. Storing /\ saved' = saved
  BY KeptStores DEF ReceiverActs, Kept
<1>8. Proceeds(rcv')
  <2>1. rcv.pos \in Nat /\ rcv.xfer # "END"
    BY <1>1, ReceiverFacts, FieldTypes DEF Running
  <2>2. QED
    BY <1>4, <1>7, <2>1 DEF Proceeds
<1>9. QED
  BY <1>6, <1>7, <1>8 DEF ReceiverKeeps, Storing

LEMMA ReceiverOpensKeeps ==
  ASSUME ReceiverActs, Kept, ReceiverOpens
  PROVE  ReceiverKeeps
<1>1. rcv.state = "INIT" /\ scenario.autostart = TRUE
  BY ScenarioFacts DEF ReceiverOpens, ReceiverActs, IInv
<1>2. CASE /\ Arrives(down, "ZRQINIT")
           /\ IF scenario.challenge THEN SendZchallenge(rcv, ReceiverCleared)
                                    ELSE SendZrinit(rcv, ReceiverCleared)
  <2>1. /\ Pending(snd, rcv, down[1], Tail(down)) /\ down[1].kind = "ZRQINIT"
        /\ Listens(ReceiverCleared)
    BY <1>2, HeaderArrives DEF HeaderKinds
  <2>2. Running(snd) => snd.state = "ZRQINIT_WAIT"
    BY <2>1 DEF Pending, SentIn
  <2>3. Wearies(rcv, rcv)
    BY ReceiverFacts
  <2>4. CASE SendZchallenge(rcv, ReceiverCleared)
    BY <1>1, <2>1, <2>3, <2>4, SendZchallengeMoves
  <2>5. CASE SendZrinit(rcv, ReceiverCleared)
    <3>1. rcv.state # "ZDATA" /\ ~Filing(rcv)
      BY <1>1 DEF Filing
    <3>2. QED
      BY <2>1, <2>2, <2>3, <2>5, <3>1, SendZrinitMoves
  <2>6. QED
    BY <1>2, <2>4, <2>5
<1>3. CASE /\ down # <<>> /\ Head(down).kind # "ZRQINIT"
           /\ ReceiverStep(rcv, ReceiverNext, <<>>)
  BY <1>1, <1>3, RunsOver
<1>4. QED
  BY <1>1, <1>2, <1>3 DEF ReceiverOpens

LEMMA ReceiverHandlesKeeps ==
  ASSUME IInv, ReceiverHandles
  PROVE  ReceiverKeeps
<1>1. ReceiverActs
  BY DEF ReceiverHandles, ReceiverActs, IInv, Typed
<1>2. CASE ReceiverOpens /\ Kept
  BY <1>1, <1>2, ReceiverOpensKeeps
<1>3. CASE ReceiveZchallengeWait /\ Kept
  BY <1>1, <1>3, ReceiveZchallengeWaitKeeps
<1>4. CASE ReceiveZrinitWait /\ Kept
  BY <1>1, <1>4, ReceiveZrinitWaitKeeps
<1>5. CASE ReceiverSkipsData /\ Kept
  <2>1. /\ down # <<>> /\ IsData(Head(down)) /\ rcv.state # "ZDATA"
        /\ ReceiverStep(rcv, ReceiverNext, <<>>)
    BY <1>5 DEF ReceiverSkipsData, Arrives, IsData, Hunting
  <2>2. QED
    BY <1>1, <1>5, <2>1, RunsOver
<1>6. CASE ReceiverGarbled /\ Kept
  BY <1>1, <1>6, ReceiverGarbledKeeps
<1>7. CASE ReceiveZcrcWait /\ UNCHANGED saved
  BY <1>1, <1>7, ReceiveZcrcWaitKeeps
<1>8. CASE ReceiveZrposWait /\ UNCHANGED disk
  BY <1>1, <1>8, ReceiveZrposWaitKeeps
<1>9. CASE ReceiveJunk
  BY <1>1, <1>9, ReceiveJunkKeeps
<1>10. CASE ReceiveBadData
  BY <1>1, <1>10, ReceiveBadDataKeeps
<1>11. CASE ReceiveGoodData
  BY <1>1, <1>11, ReceiveGoodDataKeeps
<1>12. QED
  BY <1>2, <1>3, <1>4, <1>5, <1>6, <1>7, <1>8, <1>9, <1>10, <1>11 DEF ReceiverHandles

-----------------------------------------------------------------------------
(***************************************************************************)
(* What the line does.                                                     *)
(***************************************************************************)
LEMMA HarmedFacts ==
  ASSUME NEW kind \in FaultKinds, NEW S, NEW L \in Seq(S), L # <<>>, NEW M \in Harmed(kind, L)
  PROVE  \/ /\ IsData(L[1])
            /\ \E into \in {"DAMAGED", "JUNK"} : M = <<Header(into, 0)>> \o Tail(L)
         \/ kind = "garble" /\ ~IsData(L[1]) /\ M = <<Header("GARBLED", 0)>> \o Tail(L)
         \/ kind = "cut"
         \/ kind = "lose" /\ ~IsData(L[1]) /\ M = Tail(L)
<1> DEFINE e == Head(L)
           IsHeader == e.kind \notin DataKinds \cup UnreadableKinds
           Turned(into) == {<<Header(into, 0)>> \o Tail(L)}
<1>1. e = L[1]
  BY TailFacts
<1>2. /\ e.kind \in SubpacketKinds \cup {"SHORT"} => IsData(L[1])
      /\ IsHeader => ~IsData(L[1])
  BY <1>1 DEF IsData, DataKinds
<1>3. M \in CASE kind = "damage" /\ e.kind \in SubpacketKinds -> Turned("DAMAGED")
              [] kind = "junk" /\ e.kind \in SubpacketKinds \cup {"SHORT"} -> Turned("JUNK")
              [] kind = "garble" /\ IsHeader -> Turned("GARBLED")
              [] kind = "cut" /\ IsHeader -> Turned("CUT")
              [] kind = "lose" /\ IsHeader -> {Tail(L)}
              [] OTHER -> {}
  BY DEF Harmed
<1> DEFINE T == Tail(L)
           good == e.kind \in SubpacketKinds
           sub == e.kind \in SubpacketKinds \cup {"SHORT"}
<1> HIDE DEF e, T, good, sub
<1>4. M \in CASE kind = "damage" /\ good -> Turned("DAMAGED")
              [] kind = "junk" /\ sub -> Turned("JUNK")
              [] kind = "garble" /\ IsHeader -> Turned("GARBLED")
              [] kind = "cut" /\ IsHeader -> Turned("CUT")
              [] kind = "lose" /\ IsHeader -> {T}
              [] OTHER -> {}
  BY <1>3 DEF T, good, sub
<1> HIDE DEF IsHeader
<1>5. \/ sub /\ (M \in Turned("DAMAGED") \/ M \in Turned("JUNK"))
      \/ kind = "garble" /\ IsHeader /\ M \in Turned("GARBLED")
      \/ kind = "cut"
      \/ kind = "lose" /\ IsHeader /\ M \in {T}
  <2> HIDE DEF Turned
  <2>1. CASE kind = "damage" /\ good
    BY <1>4, <2>1 DEF good, sub
  <2>2. CASE kind = "junk" /\ sub
    BY <1>4, <2>2
  <2>3. CASE kind = "garble" /\ IsHeader
    BY <1>4, <2>3
  <2>4. CASE kind = "cut" /\ IsHeader
    BY <2>4
  <2>5. CASE kind = "lose" /\ IsHeader
    BY <1>4, <2>5
  <2>6. QED
    BY <1>4, <2>1, <2>2, <2>3, <2>4, <2>5
<1>6. QED
  BY <1>2, <1>5 DEF T, sub

\* An element that is turned into one that cannot be read.
LEMMA HeadChanges ==
  ASSUME NEW D \in Line, D # <<>>, NEW g \in Heard
  PROVE  LET E == <<g>> \o Tail(D)
         IN  /\ E \in Line /\ Len(E) = Len(D) /\ E[1] = g /\ Tail(E) = Tail(D)
             /\ \A i \in 1 .. Len(D) : i # 1 => E[i] = D[i]
             /\ \A h \in 1 .. Len(D) : Behind(E, h) = Behind(D, h)
<1> DEFINE T == Tail(D)
           n == Len(D)
           E == <<g>> \o T
<1>1. /\ D \in Seq(Heard) /\ n \in Nat /\ n >= 1 /\ T \in Seq(Heard) /\ Len(T) = n - 1
      /\ \A i \in 1 .. n - 1 : T[i] = D[i + 1]
      /\ Behind(D, 1) = T
  BY TailFacts DEF Line
<1> HIDE DEF T, n
<1>2. /\ E \in Seq(Heard) /\ Len(E) = n /\ E[1] = g
      /\ \A i \in 1 .. n - 1 : E[i + 1] = T[i]
  BY <1>1
<1>3. E # <<>>
  BY <1>1, <1>2
<1> HIDE DEF E
<1>4. /\ Tail(E) \in Seq(Heard) /\ Len(Tail(E)) = n - 1 /\ Behind(E, 1) = Tail(E)
      /\ \A i \in 1 .. n - 1 : Tail(E)[i] = E[i + 1]
  BY <1>2, <1>3, TailFacts
<1>5. Tail(E) = T
  BY <1>1, <1>2, <1>4, SeqEqual
<1>6. ASSUME NEW i \in 1 .. n, i # 1 PROVE E[i] = D[i] /\ Behind(E, i) = Behind(D, i)
  <2>1. i - 1 \in 1 .. n - 1 /\ (i - 1) + 1 = i
    BY <1>1, <1>6
  <2>2. T[i - 1] = D[(i - 1) + 1] /\ Behind(T, i - 1) = Behind(D, (i - 1) + 1)
    BY <1>1, <2>1, BehindTail DEF T
  <2>3. T[i - 1] = E[(i - 1) + 1] /\ Behind(T, i - 1) = Behind(E, (i - 1) + 1)
    BY <1>1, <1>2, <1>3, <1>5, <2>1, BehindTail
  <2>4. QED
    BY <2>1, <2>2, <2>3
<1>7. QED
  BY <1>1, <1>2, <1>4, <1>5, <1>6 DEF E, T, n, Line

\* An element that cannot be read takes the place of one of its kind.
LEMMA HeadDown ==
  ASSUME IInv, OnlyLines, up' = up, down # <<>>,
         NEW g \in Heard, down' = <<g>> \o Tail(down),
         \/ IsData(down[1]) /\ g.kind \in {"DAMAGED", "JUNK"}
         \/ ~IsData(down[1]) /\ g.kind = "GARBLED" /\ HeadersFail(scenario)
  PROVE  IInv'
<1> DEFINE E == <<g>> \o Tail(down)
<1>1. /\ down \in Line /\ Turns(snd, rcv, down, up) /\ Downward(snd, rcv, down)
      /\ Comparing(scenario, snd, rcv, down, up) /\ Receives(snd, rcv, disk)
      /\ rcv \in Status
  BY AliveIs DEF IInv, Typed, Conversation, Conv
<1>2. /\ E \in Line /\ Len(E) = Len(down) /\ E[1] = g /\ Tail(E) = Tail(down)
      /\ \A i \in 1 .. Len(down) : i # 1 => E[i] = down[i]
      /\ \A h \in 1 .. Len(down) : Behind(E, h) = Behind(down, h)
  BY <1>1, HeadChanges
<1>3. down' = E /\ Running(rcv) /\ snd.state # "INIT"
  BY <1>1 DEF Turns
<1>4. Len(down) \in Nat /\ Len(down) >= 1 /\ 1 \in 1 .. Len(down)
  <2>1. Len(down) \in Nat /\ Len(down) >= 1
    BY <1>1, LineFacts
  <2>2. QED
    BY <2>1
<1>5. /\ IsData(g) <=> IsData(down[1])
      /\ g.kind \notin Good
      /\ g.kind \notin {"ZRQINIT", "ZACK", "ZSINIT", "ZFILE", "ZCRC", "ZDATA", "ZEOF", "ZFIN"}
  BY KindFacts DEF IsData, DataKinds, SubpacketKinds, Good
<1>6. ASSUME NEW f \in Files, NEW from, NEW to, Track(f, down, from, to)
      PROVE  Track(f, E, from, to)
  <2>1. down \in Seq(Heard) /\ Tail(down) \in Seq(Heard)
    BY <1>1, TailFacts DEF Line
  <2>2. PICK m \in 0 .. Size(f) : Carries(f, down[1], from, m) /\ Track(f, Tail(down), m, to)
    BY <1>6, <2>1, TrackHead
  <2>3. Carries(f, g, from, m)
    BY <1>5, <2>2 DEF Carries
  <2>4. from \in 0 .. Size(f)
    BY <1>6, <2>1, TrackEnds
  <2>5. QED
    BY <2>1, <2>2, <2>3, <2>4, TrackCons
<1> HIDE DEF E
<1>7. \A i \in 1 .. Len(down) : IsData(E[i]) <=> IsData(down[i])
  BY <1>2, <1>5
<1>8. Turns(snd, rcv, E, up)
  <2>1. OneHeader(E)
    BY <1>1, <1>2, <1>7 DEF Turns, OneHeader
  <2>2. NoHeader(down) => NoHeader(E)
    BY <1>2, <1>7 DEF NoHeader
  <2>3. Mute(rcv, down) => Mute(rcv, E)
    BY <2>2 DEF Mute
  <2>4. HeaderFirst(down) => HeaderFirst(E)
    <3>1. \A i \in 2 .. Len(down) : i \in 1 .. Len(down)
      BY <1>4
    <3>2. QED
      BY <1>2, <1>7, <3>1 DEF HeaderFirst
  <2>5. QED
    BY <1>1, <1>3, <2>1, <2>3, <2>4 DEF Turns
<1>9. Downward(snd, rcv, E)
  <2>1. Collecting(snd, rcv, E)
    <3>1. SUFFICES ASSUME rcv.state = "ZDATA", rcv.junk = "NO"
                   PROVE  /\ rcv.prior = "ZRPOS_WAIT" =>
                               Track(rcv.file, E, rcv.pos, snd.pos) /\ AsksLast(snd, E)
                          /\ rcv.prior = "ZRINIT_WAIT" /\ rcv.type = "ZFILE" =>
                               Names(snd, E)
      BY DEF Collecting
    <3>2. Collecting(snd, rcv, down)
      BY <1>1, <1>3 DEF Downward
    <3>3. ASSUME rcv.prior = "ZRPOS_WAIT"
          PROVE  Track(rcv.file, E, rcv.pos, snd.pos) /\ AsksLast(snd, E)
      <4>1. Track(rcv.file, down, rcv.pos, snd.pos) /\ AsksLast(snd, down)
        BY <3>1, <3>2, <3>3 DEF Collecting
      <4>2. rcv.file \in Files
        BY <1>1, <1>3, <3>1, <3>3 DEF Receives, Filing, HasPart
      <4>3. AsksLast(snd, E)
        <5>1. SUFFICES ASSUME NEW i \in 1 .. Len(down), E[i].kind \in {"ZCRCQ", "ZCRCW"}
                       PROVE  /\ i = Len(down)
                              /\ Running(snd) => snd.state = "ZDATA" /\ snd.waiting = TRUE
                              /\ Running(snd) /\ E[i].kind = "ZCRCQ" => snd.streaming = TRUE
          BY <1>2 DEF AsksLast
        <5>2. i # 1
          BY <1>2, <1>5, <5>1 DEF Good
        <5>3. E[i] = down[i]
          BY <1>2, <5>2
        <5>4. QED
          BY <4>1, <5>1, <5>3 DEF AsksLast
      <4>4. QED
        BY <1>6, <4>1, <4>2, <4>3
    <3>4. ASSUME rcv.prior = "ZRINIT_WAIT", rcv.type = "ZFILE" PROVE Names(snd, E)
      <4>1. Names(snd, down)
        BY <3>1, <3>2, <3>4 DEF Collecting
      <4>2. QED
        BY <1>2, <1>5, <4>1 DEF Names
    <3>5. QED
      BY <3>3, <3>4
  <2>2. ASSUME NEW h \in 1 .. Len(down) PROVE Pending(snd, rcv, E[h], Behind(E, h))
    <3>1. CASE h = 1
      BY <1>2, <1>5, <3>1 DEF Pending
    <3>2. CASE h # 1
      BY <1>1, <1>2, <1>3, <3>2 DEF Downward
    <3>3. QED
      BY <3>1, <3>2
  <2>3. QED
    BY <1>2, <2>1, <2>2 DEF Downward
<1>10. Comparing(scenario, snd, rcv, E, up)
  <2>1. SUFFICES ASSUME ~HeadersFail(scenario), rcv.state = "ZCRC_WAIT"
                 PROVE  /\ \A i \in 1 .. Len(E) : E[i].kind # "ZFILE"
                        /\ Running(snd) => \/ up # <<>> /\ up[1].kind = "ZCRC"
                                           \/ \E i \in 1 .. Len(E) : E[i].kind = "ZCRC"
    BY DEF Comparing
  <2>2. /\ \A i \in 1 .. Len(down) : down[i].kind # "ZFILE"
        /\ Running(snd) => \/ up # <<>> /\ up[1].kind = "ZCRC"
                           \/ \E i \in 1 .. Len(down) : down[i].kind = "ZCRC"
    BY <1>1, <1>3, <2>1 DEF Comparing
  <2>3. down[1].kind # "ZCRC" /\ E[1].kind # "ZFILE"
    BY <1>2, <1>5, <2>1, KindFacts
  <2>4. QED
    BY <1>2, <2>2, <2>3
<1>11. QED
  BY <1>2, <1>3, <1>8, <1>9, <1>10, DownMoves

\* An answer that is lost or garbled.
LEMMA UpFails ==
  ASSUME IInv, OnlyLines, down' = down, up # <<>>, HeadersFail(scenario),
         \/ up' = <<>>
         \/ \E g \in Heard : g.kind = "GARBLED" /\ up' = <<g>>
  PROVE  IInv'
<1>1. /\ scenario' = scenario /\ snd' = snd /\ rcv' = rcv /\ disk' = disk /\ saved' = saved
      /\ result' = result /\ session' = session /\ faults' \in 0 .. scenario.most
  BY DEF OnlyLines
<1>2. Typed /\ Stored /\ Conv(scenario, snd, rcv, down, up, disk, saved)
  BY DEF IInv, Conversation
<1>3. ASSUME NEW U \in Line, up' = U, Len(U) <= 1,
             U # <<>> => U[1].kind = "GARBLED"
      PROVE  IInv'
  <2>1. Typed'
    BY <1>1, <1>2, <1>3 DEF Typed
  <2>2. Stored'
    BY <1>1, <1>2 DEF Stored
  <2>3. Turns(snd, rcv, down, U)
    BY <1>2, <1>3 DEF Conv, Turns
  <2>4. Upward(snd, rcv, down, U, disk, saved)
    BY <1>3 DEF Upward, Answer, AnswerKinds
  <2>5. Comparing(scenario, snd, rcv, down, U)
    BY DEF Comparing
  <2>6. Conv(scenario, snd, rcv, down, U, disk, saved)
    BY <1>2, <2>3, <2>4, <2>5 DEF Conv
  <2>7. Conversation'
    BY <1>1, <1>3, <2>6 DEF Conversation
  <2>8. QED
    BY <2>1, <2>2, <2>7 DEF IInv
<1>4. CASE up' = <<>>
  <2> DEFINE U == <<>>
  <2>1. U \in Line /\ Len(U) <= 1 /\ U = <<>> /\ up' = U
    BY <1>4, EmptyLine
  <2> HIDE DEF U
  <2>2. QED
    BY <1>3, <2>1
<1>5. ASSUME NEW g \in Heard, g.kind = "GARBLED", up' = <<g>>
      PROVE  IInv'
  <2> DEFINE U == <<g>>
  <2>1. U \in Line /\ Len(U) <= 1 /\ U[1] = g /\ up' = U
    BY <1>5, OneSaid
  <2> HIDE DEF U
  <2>2. QED
    BY <1>3, <1>5, <2>1
<1>6. QED
  BY <1>4, <1>5

LEMMA LineFailsKeeps ==
  ASSUME IInv, LineFails
  PROVE  IInv'
<1>1. PICK kind \in FaultKinds :
        /\ Spend(kind)
        /\ \/ down # <<>> /\ down' \in Harmed(kind, down) /\ up' = up
           \/ up # <<>> /\ up' \in Harmed(kind, up) /\ down' = down
  BY DEF LineFails
<1>2. Typed /\ down \in Line /\ down \in Seq(Heard) /\ up \in Line /\ up \in Seq(Heard)
  BY DEF IInv, Typed, Line
<1>3. OnlyLines
  <2>1. faults \in Nat /\ scenario.most \in Nat /\ faults < scenario.most
        /\ faults' = faults + 1
    BY <1>1, <1>2, ScenarioFacts DEF Spend
  <2>2. faults' \in 0 .. scenario.most
    BY <2>1
  <2>3. QED
    BY <2>2 DEF LineFails, OnlyLines
<1>4. kind # "cut" /\ (kind \in {"garble", "lose"} => HeadersFail(scenario))
  BY <1>1, <1>2, ScenarioFacts DEF Spend, HeadersFail
<1>5. /\ Header("GARBLED", 0) \in Heard /\ Header("GARBLED", 0).kind = "GARBLED"
      /\ \A into \in {"DAMAGED", "JUNK"} : Header(into, 0) \in Heard /\ Header(into, 0).kind = into
  <2>1. 0 \in Nat /\ {"DAMAGED", "JUNK"} \subseteq DataKinds
    BY DEF DataKinds, SubpacketKinds
  <2> DEFINE zero == 0
             garbled == "GARBLED"
  <2> HIDE DEF zero, garbled
  <2>2. zero \in Nat /\ garbled \in {"GARBLED"}
    BY DEF zero, garbled
  <2>3. Header(garbled, zero) \in Heard /\ Header(garbled, zero).kind = garbled
    BY <2>2, HeaderHeard
  <2>4. \A into \in {"DAMAGED", "JUNK"} :
          Header(into, zero) \in Heard /\ Header(into, zero).kind = into
    BY <2>1, <2>2, HeaderHeard
  <2>5. QED
    BY <2>3, <2>4 DEF zero, garbled
<1>6. CASE down # <<>> /\ down' \in Harmed(kind, down) /\ up' = up
  <2>1. CASE kind = "lose" /\ ~IsData(down[1]) /\ down' = Tail(down)
    BY <1>3, <1>4, <1>6, <2>1, TailDown
  <2>2. CASE /\ kind = "garble" /\ ~IsData(down[1])
             /\ down' = <<Header("GARBLED", 0)>> \o Tail(down)
    BY <1>3, <1>4, <1>5, <1>6, <2>2, HeadDown
  <2>3. ASSUME IsData(down[1]), NEW into \in {"DAMAGED", "JUNK"},
               down' = <<Header(into, 0)>> \o Tail(down)
        PROVE  IInv'
    BY <1>3, <1>5, <1>6, <2>3, HeadDown
  <2>4. QED
    BY <1>2, <1>4, <1>6, <2>1, <2>2, <2>3, HarmedFacts
<1>7. CASE up # <<>> /\ up' \in Harmed(kind, up) /\ down' = down
  <2>1. Tail(up) = <<>>
    <3>1. Len(up) <= 1
      BY DEF IInv, Conversation, Conv, Turns
    <3>2. Tail(up) \in Seq(Heard) /\ Len(Tail(up)) = Len(up) - 1 /\ Len(up) >= 1
          /\ Len(up) \in Nat
      BY <1>2, <1>7, TailFacts
    <3>3. Len(Tail(up)) = 0
      BY <3>1, <3>2
    <3>4. QED
      BY <3>2, <3>3, EmptySeq
  <2>2. ~IsData(up[1])
    <3>1. up[1].kind \in AnswerKinds
      BY <1>7 DEF IInv, Conversation, Conv, Upward, Answer
    <3>2. QED
      BY <3>1, KindFacts DEF AnswerKinds
  <2>3. CASE kind = "lose" /\ up' = Tail(up)
    BY <1>3, <1>4, <1>7, <2>1, <2>3, UpFails
  <2>4. CASE kind = "garble" /\ up' = <<Header("GARBLED", 0)>> \o Tail(up)
    <3> DEFINE g == Header("GARBLED", 0)
    <3>1. g \in Heard /\ g.kind = "GARBLED"
      BY <1>5
    <3>2. up' = <<g>> \o Tail(up)
      BY <2>4
    <3> HIDE DEF g
    <3>3. <<g>> \o <<>> = <<g>>
      BY <3>1
    <3>4. up' = <<g>>
      BY <2>1, <3>2, <3>3
    <3>5. QED
      BY <1>3, <1>4, <1>7, <2>4, <3>1, <3>4, UpFails
  <2>5. QED
    BY <1>2, <1>4, <1>7, <2>2, <2>3, <2>4, HarmedFacts
<1>8. QED
  BY <1>1, <1>6, <1>7

\* A user gives up.
LEMMA SenderEscapes ==
  ASSUME IInv, NEW s2 \in Alive, ~Running(s2), Keeps(snd, s2), s2.state = snd.state,
         snd' = s2, up' = <<>>,
         UNCHANGED <<scenario, rcv, down, disk, saved, result, faults, session>>
  PROVE  IInv'
<1>1. Typed /\ Stored /\ Conv(scenario, snd, rcv, down, up, disk, saved)
  BY DEF IInv, Conversation
<1> DEFINE U == <<>>
<1>2. U \in Line /\ Len(U) <= 1 /\ U = <<>> /\ up' = U
  BY EmptyLine
<1> HIDE DEF U
<1>3. s2.file = snd.file /\ s2.pos = snd.pos
  BY DEF Keeps
<1>4. Typed'
  BY <1>1, <1>2 DEF Typed
<1>5. Stored'
  <2>1. Logged(s2, result, disk, saved)
    BY <1>1, <1>3 DEF Stored, Logged
  <2>2. QED
    BY <1>1, <2>1 DEF Stored
<1>6. Turns(s2, rcv, down, U)
  BY <1>1, <1>2 DEF Conv, Turns
<1>7. Receives(s2, rcv, disk)
  BY <1>1, <1>3 DEF Conv, Receives, HasPart, Compares
<1>8. Downward(s2, rcv, down)
  <2>1. SUFFICES ASSUME Running(rcv)
                 PROVE  /\ Collecting(s2, rcv, down)
                        /\ \A h \in 1 .. Len(down) :
                             Pending(s2, rcv, down[h], Behind(down, h))
    BY DEF Downward
  <2>2. /\ Collecting(snd, rcv, down)
        /\ \A h \in 1 .. Len(down) : Pending(snd, rcv, down[h], Behind(down, h))
    BY <1>1, <2>1 DEF Conv, Downward
  <2>3. \A R : AsksLast(snd, R) => AsksLast(s2, R)
    BY DEF AsksLast
  <2>4. \A R : Names(snd, R) => Names(s2, R)
    BY <1>3 DEF Names, NameOf
  <2>5. \A state : SentIn(state, s2)
    BY DEF SentIn
  <2>6. Collecting(s2, rcv, down)
    BY <1>3, <2>2, <2>3, <2>4 DEF Collecting
  <2>7. \A e, R : Pending(snd, rcv, e, R) => Pending(s2, rcv, e, R)
    BY <1>3, <2>3, <2>4, <2>5 DEF Pending
  <2>8. QED
    BY <2>2, <2>6, <2>7
<1>9. /\ Sends(scenario, s2) /\ Upward(s2, rcv, down, U, disk, saved)
      /\ Comparing(scenario, s2, rcv, down, U)
  BY <1>1, <1>2 DEF Conv, Sends, Upward, Comparing
<1>10. Conv(scenario, s2, rcv, down, U, disk, saved)
  BY <1>6, <1>7, <1>8, <1>9 DEF Conv
<1>11. Conversation'
  BY <1>2, <1>10 DEF Conversation
<1>12. QED
  BY <1>4, <1>5, <1>11 DEF IInv

LEMMA ReceiverEscapes ==
  ASSUME IInv, Running(rcv), NEW r2 \in Alive, ~Running(r2), Keeps(rcv, r2),
         r2.state = rcv.state, r2.open = FALSE, rcv' = r2, down' = <<>>,
         UNCHANGED <<scenario, snd, up, disk, saved, result, faults, session>>
  PROVE  IInv'
<1>1. Typed /\ Stored /\ Conv(scenario, snd, rcv, down, up, disk, saved)
  BY DEF IInv, Conversation
<1> DEFINE D == <<>>
<1>2. D \in Line /\ D = <<>> /\ Len(D) = 0 /\ down' = D /\ OneHeader(D)
  BY EmptyLine
<1> HIDE DEF D
<1>3. Typed'
  BY <1>1, <1>2 DEF Typed
<1>4. Stored'
  BY <1>1 DEF Stored
<1>5. Turns(snd, r2, D, up)
  BY <1>1, <1>2 DEF Conv, Turns, Mute
<1>6. Receives(snd, r2, disk) /\ Downward(snd, r2, D) /\ Comparing(scenario, snd, r2, D, up)
  BY DEF Receives, Downward, Comparing
<1>7. Upward(snd, r2, D, up, disk, saved)
  <2>1. SUFFICES ASSUME up # <<>> PROVE Answer(snd, r2, D, disk, saved, up[1])
    BY DEF Upward
  <2>2. Answer(snd, rcv, down, disk, saved, up[1])
    BY <1>1, <2>1 DEF Conv, Upward
  <2>3. r2.pos = rcv.pos /\ (Filing(rcv) => Filing(r2))
    BY DEF Keeps, Filing
  <2>4. QED
    BY <1>2, <2>2, <2>3 DEF Answer
<1>8. Conv(scenario, snd, r2, D, up, disk, saved)
  BY <1>1, <1>5, <1>6, <1>7 DEF Conv
<1>9. Conversation'
  BY <1>2, <1>8 DEF Conversation
<1>10. QED
  BY <1>3, <1>4, <1>9 DEF IInv

LEMMA EscapedFacts ==
  ASSUME NEW x \in Alive
  PROVE  LET y == Ended(x, x.state, "ESC")
         IN  /\ y \in Alive /\ ~Running(y) /\ Keeps(x, y) /\ y.state = x.state
             /\ y.open = FALSE /\ y.xfer = "ESC"
<1> DEFINE st == x.state
           how == "ESC"
           y == Ended(x, st, how)
<1>1. x \in Status /\ st \in States /\ how \in Xfers
  BY AliveIs, Names1, FieldTypes
<1>2. how # "RUN"
  OBVIOUS
<1> HIDE DEF st, how
<1>3. Keeps(x, y) /\ y.xfer = how /\ y.state = st /\ y.open = FALSE
  BY <1>1, EndedFacts
<1> HIDE DEF y
<1>4. y \in Alive /\ ~Running(y)
  BY <1>2, <1>3, AliveIs DEF Keeps, Running
<1>5. QED
  BY <1>3, <1>4 DEF y, st, how

LEMMA EscapesKeeps ==
  ASSUME IInv, Escapes
  PROVE  IInv'
<1>1. snd \in Alive /\ rcv \in Alive
  BY DEF IInv, Typed
<1>2. CASE /\ Running(snd)
           /\ snd' = Ended(snd, snd.state, "ESC") /\ up' = <<>>
           /\ UNCHANGED <<rcv, down>>
  <2> DEFINE s2 == Ended(snd, snd.state, "ESC")
  <2>1. s2 \in Alive /\ ~Running(s2) /\ Keeps(snd, s2) /\ s2.state = snd.state
    BY <1>1, EscapedFacts
  <2>2. snd' = s2 /\ up' = <<>>
    BY <1>2
  <2>3. UNCHANGED <<scenario, rcv, down, disk, saved, result, faults, session>>
    BY <1>2 DEF Escapes
  <2> HIDE DEF s2
  <2>4. QED
    BY <2>1, <2>2, <2>3, SenderEscapes
<1>3. CASE /\ Running(rcv)
           /\ rcv' = Ended(rcv, rcv.state, "ESC") /\ down' = <<>>
           /\ UNCHANGED <<snd, up>>
  <2> DEFINE r2 == Ended(rcv, rcv.state, "ESC")
  <2>1. r2 \in Alive /\ ~Running(r2) /\ Keeps(rcv, r2) /\ r2.state = rcv.state
        /\ r2.open = FALSE
    BY <1>1, EscapedFacts
  <2>2. rcv' = r2 /\ down' = <<>> /\ Running(rcv)
    BY <1>3
  <2>3. UNCHANGED <<scenario, snd, up, disk, saved, result, faults, session>>
    BY <1>3 DEF Escapes
  <2> HIDE DEF r2
  <2>4. QED
    BY <2>1, <2>2, <2>3, ReceiverEscapes
<1>4. QED
  BY <1>2, <1>3 DEF Escapes

-----------------------------------------------------------------------------
(***************************************************************************)
(* How sessions begin.                                                     *)
(***************************************************************************)
Begun(x, sending) ==
  /\ x \in Alive /\ Running(x) /\ x.state = "INIT" /\ x.file = 1 /\ x.junk = "NO"
  /\ x.open = sending

LEMMA StartedFacts ==
  ASSUME NEW x \in Status, NEW sending \in BOOLEAN
  PROVE  Begun(Started(x, sending), sending)
<1> DEFINE y == Started(x, sending)
<1>1. /\ "INIT" \in States /\ "NO" \in Junks /\ "RUN" \in Xfers
      /\ ReliableWindow \in Nat /\ 0 \in Errors /\ 0 \in Timeouts /\ 0 < TimeoutMax
  BY Names1, ConstantFacts DEF Errors, Timeouts
<1>2. /\ y \in Status /\ y.state = "INIT" /\ y.file = 1 /\ y.junk = "NO"
      /\ y.open = sending /\ y.xfer = "RUN" /\ y.timeouts = 0
  BY <1>1, StatusIs DEF StatusOf, Started
<1> HIDE DEF y
<1>3. y \in Alive /\ Running(y)
  BY <1>1, <1>2, AliveIs DEF Running
<1>4. QED
  BY <1>2, <1>3 DEF Begun, y

LEMMA FreshFacts == Fresh \in Status
<1>1. /\ "INIT" \in States /\ "INIT" \in Priors /\ "NO" \in Junks /\ "END" \in Xfers
      /\ "ZFILE" \in Types
      /\ ReliableWindow \in Nat /\ 0 \in Errors /\ 0 \in Timeouts /\ 0 \in Values
  BY Names1, ConstantFacts DEF Errors, Timeouts, Values
<1>2. QED
  BY <1>1, StatusIs DEF StatusOf, Fresh

LEMMA BegunConverse ==
  ASSUME NEW c, NEW s, Begun(s, TRUE), NEW r, Begun(r, FALSE), NEW dsk, NEW svd
  PROVE  Conv(c, s, r, <<>>, <<>>, dsk, svd) /\ Logged(s, <<>>, dsk, svd)
<1> DEFINE D == <<>>
<1>1. D \in Line /\ D = <<>> /\ Len(D) = 0 /\ OneHeader(D)
  BY EmptyLine
<1>2. 1 \in Files /\ 1 \in 1 .. Len(Batch) + 1
  <2>1. Len(Batch) \in Nat /\ Len(Batch) >= 1 /\ Files = 1 .. Len(Batch)
    BY FileFacts
  <2>2. QED
    BY <2>1
<1> HIDE DEF D
<1>3. Turns(s, r, D, D)
  BY <1>1 DEF Begun, Turns
<1>4. Receives(s, r, dsk) /\ Sends(c, s) /\ Stage(s, r, dsk, svd)
  BY <1>2 DEF Begun, Receives, Sends, Stage, Filing, Running
<1>5. Downward(s, r, D) /\ Upward(s, r, D, D, dsk, svd) /\ Comparing(c, s, r, D, D)
  BY <1>1 DEF Begun, Downward, Collecting, Upward, Comparing
<1>6. Conv(c, s, r, D, D, dsk, svd)
  BY <1>3, <1>4, <1>5 DEF Conv
<1>7. Logged(s, D, dsk, svd)
  <2>1. Len(D) = s.file - 1 /\ s.file \in 1 .. Len(Batch) + 1 /\ 1 .. Len(D) = {}
    BY <1>1, <1>2 DEF Begun
  <2>2. QED
    BY <2>1 DEF Logged
<1>8. QED
  BY <1>6, <1>7 DEF D

LEMMA NewSessionKeeps ==
  ASSUME IInv, NewSession
  PROVE  IInv'
<1>1. Typed /\ Stored
  BY DEF IInv
<1>2. snd \in Status /\ rcv \in Status
  BY <1>1, AliveIs DEF Typed
<1>3. Begun(snd', TRUE) /\ Begun(rcv', FALSE)
  BY <1>2, StartedFacts, FreshFacts DEF NewSession, Restarted
<1>4. /\ down' = <<>> /\ up' = <<>> /\ result' = <<>> /\ scenario' = scenario
      /\ disk' = disk /\ saved' = saved /\ faults' = faults
  BY DEF NewSession
<1>5. session' \in 1 .. scenario.sessions
  <2>1. session \in Nat /\ scenario.sessions \in Nat /\ session \in 1 .. scenario.sessions
    BY <1>1, ScenarioFacts DEF Typed
  <2>2. session' = session + 1 /\ session < scenario.sessions
    BY DEF NewSession
  <2>3. QED
    BY <2>1, <2>2
<1>6. Conv(scenario, snd', rcv', <<>>, <<>>, disk, saved) /\ Logged(snd', <<>>, disk, saved)
  BY <1>3, BegunConverse
<1>7. Typed'
  <2>1. <<>> \in Seq({"OK", "SKIP"}) /\ <<>> \in Line
    BY EmptyLine
  <2>2. QED
    BY <1>1, <1>3, <1>4, <1>5, <2>1 DEF Typed, Begun
<1>8. Conversation'
  BY <1>4, <1>6 DEF Conversation
<1>9. Stored'
  BY <1>1, <1>4, <1>6 DEF Stored
<1>10. QED
  BY <1>7, <1>8, <1>9 DEF IInv

LEMMA InitHolds ==
  ASSUME Init, Calm(scenario)
  PROVE  IInv
<1>1. /\ scenario \in Scenarios /\ Calm(scenario) /\ ScenarioOK(scenario)
  BY ZmodemAssumption DEF Init
<1>2. /\ disk = scenario.disk /\ saved = [f \in Files |-> <<>>] /\ result = <<>>
      /\ down = <<>> /\ up = <<>> /\ faults = 0 /\ session = 1
      /\ snd = Started(Fresh, TRUE) /\ rcv = Started(Fresh, FALSE)
  BY DEF Init
<1>3. Begun(snd, TRUE) /\ Begun(rcv, FALSE)
  BY <1>2, StartedFacts, FreshFacts
<1>4. Conv(scenario, snd, rcv, <<>>, <<>>, disk, saved) /\ Logged(snd, <<>>, disk, saved)
  BY <1>3, BegunConverse
<1>5. Typed
  <2>1. <<>> \in Seq({"OK", "SKIP"}) /\ <<>> \in Line /\ <<>> \in Seq(Seq(Units))
    BY EmptyLine
  <2>2. faults \in 0 .. scenario.most /\ session \in 1 .. scenario.sessions
    <3>1. MaxFaults \in Nat /\ SessionsMax \in Nat
      BY ZmodemAssumption
    <3>2. scenario.most \in 0 .. MaxFaults /\ scenario.sessions \in 1 .. SessionsMax
      BY <1>1 DEF ScenarioOK
    <3>3. QED
      BY <1>2, <3>1, <3>2
  <2>3. disk \in [Files -> Seq(Seq(Units))] /\ saved \in [Files -> Seq(Seq(Units))]
    BY <1>1, <1>2, <2>1 DEF ScenarioOK
  <2>4. QED
    BY <1>1, <1>2, <1>3, <2>1, <2>2, <2>3 DEF Typed, Begun
<1>6. Conversation
  BY <1>2, <1>4 DEF Conversation
<1>7. Stored
  <2>1. OursKept(scenario, disk)
    BY <1>1, <1>2 DEF Calm, OursKept
  <2>2. Saved(saved)
    BY <1>2 DEF Saved
  <2>3. QED
    BY <1>2, <1>4, <2>1, <2>2 DEF Stored
<1>8. QED
  BY <1>5, <1>6, <1>7 DEF IInv

-----------------------------------------------------------------------------
(***************************************************************************)
(* Every step.                                                             *)
(***************************************************************************)

\* A header that breaks off is not among the faults.
LEMMA NothingCut ==
  ASSUME IInv
  PROVE  ~TimesOutEarly /\ ~HeadersJoin
<1>1. "late" \notin scenario.faults /\ up \in Seq(Heard) /\ down \in Seq(Heard)
  BY ScenarioFacts DEF IInv, Typed, Line
<1>2. ASSUME NEW L \in Seq(Heard) PROVE ~Arrives(L, "CUT")
  <2>1. SUFFICES ASSUME L # <<>> PROVE Head(L).kind # "CUT"
    BY DEF Arrives
  <2>2. Head(L) = L[1] /\ L[1] \in Heard
    BY <1>2, <2>1, TailFacts
  <2>3. QED
    BY <2>2 DEF Heard
<1>3. ~TimesOutEarly
  BY <1>1 DEF TimesOutEarly, Early, Spend
<1>4. QED
  BY <1>1, <1>2, <1>3 DEF HeadersJoin

\* What is not a step of the receiver leaves its files alone.
Elsewhere ==
  \/ SenderHandles \/ SenderTimesOut \/ LineFails \/ Escapes \/ NewSession

LEMMA ElsewhereKeeps ==
  ASSUME IInv, Elsewhere
  PROVE  IInv' /\ disk' = disk /\ saved' = saved
<1>1. CASE SenderHandles
  BY <1>1, SenderHandlesKeeps DEF SenderHandles, SenderUnchanged
<1>2. CASE SenderTimesOut
  BY <1>2, SenderTimesOutKeeps DEF SenderTimesOut, SenderTimeout
<1>3. CASE LineFails
  BY <1>3, LineFailsKeeps DEF LineFails
<1>4. CASE Escapes
  BY <1>4, EscapesKeeps DEF Escapes
<1>5. CASE NewSession
  BY <1>5, NewSessionKeeps DEF NewSession
<1>6. QED
  BY <1>1, <1>2, <1>3, <1>4, <1>5 DEF Elsewhere

ByReceiver == ReceiverHandles \/ ReceiverTimesOut \/ CannotCreate

LEMMA ByReceiverKeeps ==
  ASSUME IInv, ByReceiver
  PROVE  ReceiverActs /\ ReceiverKeeps
<1>1. ReceiverKeeps
  BY ReceiverHandlesKeeps, ReceiverTimesOutKeeps, CannotCreateKeeps DEF ByReceiver
<1>2. Running(rcv) /\ ReceiverUnchanged
  BY DEF ByReceiver, ReceiverHandles, ReceiverTimesOut, ReceiverTimeout, CannotCreate
<1>3. faults' \in 0 .. scenario.most
  <2>1. IInv' /\ scenario' = scenario
    BY <1>1, <1>2 DEF ReceiverKeeps, ReceiverUnchanged
  <2>2. QED
    BY <2>1 DEF IInv, Typed
<1>4. QED
  BY <1>1, <1>2, <1>3 DEF ReceiverActs

LEMMA StepIs ==
  ASSUME IInv, Next
  PROVE  Elsewhere \/ ByReceiver
  BY NothingCut DEF Next, Elsewhere, ByReceiver

LEMMA StepKeeps ==
  ASSUME IInv, [Next]_vars
  PROVE  IInv' /\ DiskGrows(disk, disk')
<1>1. disk \in Disks
  BY DEF IInv, Typed, Disks
<1>2. CASE UNCHANGED vars
  <2>1. IInv'
    BY <1>2 DEF vars, IInv, Typed, Conversation, Stored
  <2>2. disk' = disk
    BY <1>2 DEF vars
  <2>3. QED
    BY <1>1, <2>1, <2>2, GrowsSame
<1>3. CASE Elsewhere
  BY <1>1, <1>3, ElsewhereKeeps, GrowsSame
<1>4. CASE ByReceiver
  BY <1>4, ByReceiverKeeps DEF ReceiverKeeps
<1>5. QED
  BY <1>2, <1>3, <1>4, StepIs

LEMMA Inductive == Spec /\ Calm(scenario) => []IInv
<1>1. Init /\ Calm(scenario) => IInv
  BY InitHolds
<1>2. IInv /\ [Next]_vars => IInv'
  BY StepKeeps
<1>3. QED
  BY <1>1, <1>2, PTL DEF Spec

-----------------------------------------------------------------------------
(***************************************************************************)
(* What follows.                                                           *)
(***************************************************************************)
\* The status variables of both programs stay in the ranges of their types, and timeouts
\* and errors at their limits: check_timeout() and stats_increment_errors() stop in time.
THEOREM TypeCorrect == Spec /\ Calm(scenario) => []TypeOK
<1>1. IInv => TypeOK
  <2>1. SUFFICES ASSUME IInv PROVE TypeOK
    OBVIOUS
  <2>2. snd \in Status /\ rcv \in Status
    BY <2>1, AliveIs DEF IInv, Typed
  <2>3. down \in Seq(Elements) /\ up \in Seq(Elements)
    <3>1. \A x : x \in Heard => x \in Elements
      BY DEF Heard
    <3>2. \A L : L \in Seq(Heard) => L \in Seq(Elements)
      BY <3>1
    <3>3. QED
      BY <2>1, <3>2 DEF IInv, Typed, Line
  <2>4. QED
    BY <2>1, <2>2, <2>3 DEF IInv, Typed, TypeOK
<1>2. QED
  BY <1>1, Inductive, PTL

\* What receive_zrpos_wait() closes at a ZEOF is the sender's file, and what the sender
\* has logged as sent or skipped is on the receiver's disk.
THEOREM WholeFiles == Spec /\ Calm(scenario) => []CompleteIsWhole
<1>1. IInv => CompleteIsWhole
  <2>1. SUFFICES ASSUME IInv PROVE CompleteIsWhole
    OBVIOUS
  <2>2. Saved(saved) /\ Logged(snd, result, disk, saved) /\ result \in Seq({"OK", "SKIP"})
    BY <2>1 DEF IInv, Typed, Stored
  <2>3. \A f \in DOMAIN result : IsWhole(f, disk)
    BY <2>2 DEF Logged
  <2>4. QED
    BY <2>2, <2>3 DEF CompleteIsWhole, Saved, IsWhole
<1>2. QED
  BY <1>1, Inductive, PTL

LEMMA BeginningIsPrefix ==
  ASSUME NEW f \in Files, NEW m \in 0 .. Size(f), NEW n \in 0 .. Size(f), m < n
  PROVE  /\ IsStrictPrefix(Beginning(f, m), Beginning(f, n))
         /\ IsPrefix(Beginning(f, n), Batch[f])
<1>1. /\ Batch[f] \in Seq(Units) /\ Size(f) \in Nat
      /\ \A k \in 0 .. Size(f) : Beginning(f, k) \in Seq(Units) /\ Len(Beginning(f, k)) = k
  BY FileFacts, BeginningFacts
<1>2. ASSUME NEW k \in 0 .. Size(f) PROVE SubSeq(Beginning(f, k), 1, k) = Beginning(f, k)
  BY <1>1, SubSeqFull
<1>3. SubSeq(Beginning(f, n), 1, m) = Beginning(f, m)
  <2>1. CASE m = 0
    BY <1>1, <2>1, SubSeqEmpty, 1 \in Int, 0 \in Int, 0 < 1, BeginningFacts
  <2>2. CASE m # 0
    <3>1. /\ 1 \in 1 .. Len(Batch[f]) /\ n \in 1 .. Len(Batch[f])
          /\ 1 \in 1 .. n - 1 + 1 /\ m \in 1 .. n - 1 + 1
          /\ 1 + 1 - 1 = 1 /\ 1 + m - 1 = m
      BY <1>1, <2>2 DEF Size
    <3>2. SubSeq(SubSeq(Batch[f], 1, n), 1, m) = SubSeq(Batch[f], 1 + 1 - 1, 1 + m - 1)
      BY <1>1, <3>1, SubSeqOfSubSeq
    <3>3. QED
      BY <3>1, <3>2 DEF Beginning
  <2>3. QED
    BY <2>1, <2>2
<1>4. IsPrefix(Beginning(f, m), Beginning(f, n))
  BY <1>1, <1>2, <1>3 DEF IsPrefix
<1>5. Beginning(f, m) # Beginning(f, n)
  BY <1>1
<1>6. IsPrefix(Beginning(f, n), Batch[f])
  <2>1. SubSeq(Batch[f], 1, n) = Beginning(f, n)
    BY DEF Beginning
  <2>2. n <= Len(Batch[f])
    BY <1>1 DEF Size
  <2>3. QED
    BY <1>1, <1>2, <2>1, <2>2 DEF IsPrefix
<1>7. QED
  BY <1>4, <1>5, <1>6 DEF IsStrictPrefix

\* fwrite() in receive_zdata(), after crash recovery or renaming, changes no file but by
\* making it a longer beginning of the file that is sent.
THEOREM OthersKept == Spec /\ Calm(scenario) => OwnFilesKept
<1>1. ASSUME IInv, [Next]_vars
      PROVE  [\A f \in Files : \A k \in DOMAIN disk[f] :
                \/ disk'[f][k] = disk[f][k]
                \/ /\ IsStrictPrefix(disk[f][k], disk'[f][k])
                   /\ IsPrefix(disk'[f][k], Batch[f])]_vars
  <2>1. SUFFICES ASSUME NEW f \in Files, NEW k \in DOMAIN disk[f]
                 PROVE  \/ disk'[f][k] = disk[f][k]
                        \/ /\ IsStrictPrefix(disk[f][k], disk'[f][k])
                           /\ IsPrefix(disk'[f][k], Batch[f])
    OBVIOUS
  <2>2. disk \in Disks /\ disk' \in Disks /\ DiskGrows(disk, disk')
    BY <1>1, StepKeeps DEF IInv, Typed, Disks
  <2>3. k \in 1 .. Len(disk[f]) /\ k \in 1 .. Len(disk'[f])
    <3>1. DOMAIN disk[f] = 1 .. Len(disk[f]) /\ Len(disk[f]) \in Nat /\ Len(disk'[f]) \in Nat
      BY <2>2, DiskFacts
    <3>2. Len(disk[f]) <= Len(disk'[f])
      BY <2>2 DEF DiskGrows
    <3>3. QED
      BY <3>1, <3>2
  <2>4. GrownOf(f, disk[f][k], disk'[f][k])
    BY <2>2, <2>3 DEF DiskGrows
  <2>5. QED
    BY <2>4, BeginningIsPrefix DEF GrownOf
<1>2. QED
  BY <1>1, Inductive, PTL DEF Spec, OwnFilesKept

-----------------------------------------------------------------------------
(***************************************************************************)
(* The abstract transfer.  The sender has no files of its own, so of every *)
(* pair of values one is that of the sender and one that of the receiver.  *)
(***************************************************************************)
Two == {"snd", "rcv"}
Pair(a, b) == [snd |-> a, rcv |-> b]

PartNow == [f \in Files |-> IF Receiving(f) THEN disk[f][rcv.version] ELSE <<>>]
Nothing == [f \in Files |-> <<>>]

LEMMA PairFacts ==
  ASSUME NEW a, NEW b
  PROVE  /\ Pair(a, b)["snd"] = a /\ Pair(a, b)["rcv"] = b
         /\ \A x : [Pair(a, b) EXCEPT !["snd"] = x] = Pair(x, b)
         /\ \A x : [Pair(a, b) EXCEPT !["rcv"] = x] = Pair(a, x)
         /\ DOMAIN Pair(a, b) = Two
  BY DEF Pair, Two

At(P, f, x) == [P EXCEPT ![f] = x]
Puts(R, f, x) == [R EXCEPT !["rcv"][f] = x]

LEMMA PairPuts ==
  ASSUME NEW none, NEW P, NEW f, NEW x
  PROVE  Pair(none, At(P, f, x)) = Puts(Pair(none, P), f, x)
<1> DEFINE Q == At(P, f, x)
<1>1. Q = [P EXCEPT ![f] = x]
  BY DEF At
<1> HIDE DEF Q
<1>2. [[snd |-> none, rcv |-> P] EXCEPT !["rcv"][f] = x] = [snd |-> none, rcv |-> Q]
  BY <1>1
<1>3. QED
  BY <1>2 DEF Pair, Puts, Q

LEMMA PeersFacts ==
  /\ Batches!Other("snd") = "rcv" /\ Batches!Other("rcv") = "snd"
  /\ Batches!FilesOf("snd") = Files /\ Batches!FilesOf("rcv") = {}
<1>1. Batches!Other("snd") = "rcv"
  BY DEF Batches!Other
<1>2. Batches!Other("rcv") = "snd"
  BY DEF Batches!Other
<1>3. Batches!FilesOf("snd") = Files
  BY FileFacts DEF Batches!FilesOf
<1>4. Batches!FilesOf("rcv") = {}
  BY DEF Batches!FilesOf
<1>5. QED
  BY <1>1, <1>2, <1>3, <1>4

LEMMA OutcomeFacts ==
  /\ \A x : Running(x) <=> Outcome(x) = "none"
  /\ \A x : ~Running(x) => Outcome(x) \in {"XFER_OK", "XFER_ABORT"}
  /\ \A x : Outcome(x) = "XFER_OK" => x.xfer = "END"
<1>1. ASSUME NEW x PROVE /\ Running(x) <=> Outcome(x) = "none"
                         /\ ~Running(x) => Outcome(x) \in {"XFER_OK", "XFER_ABORT"}
                         /\ Outcome(x) = "XFER_OK" => x.xfer = "END"
  <2>1. CASE x.xfer = "RUN"
    BY <2>1 DEF Outcome, Running
  <2>2. CASE x.xfer = "END"
    BY <2>2 DEF Outcome, Running
  <2>3. CASE x.xfer # "RUN" /\ x.xfer # "END"
    BY <2>3 DEF Outcome, Running
  <2>4. QED
    BY <2>1, <2>2, <2>3
<1>2. QED
  BY <1>1

LEMMA PrefixFacts ==
  /\ \A s, t : Batches!IsPrefix(s, t) <=> IsPrefix(s, t)
  /\ \A s, t : Batches!IsStrictPrefix(s, t) <=> IsStrictPrefix(s, t)
<1>1. \A s, t : Batches!IsPrefix(s, t) <=> IsPrefix(s, t)
  BY DEF Batches!IsPrefix, IsPrefix
<1>2. QED
  BY <1>1 DEF Batches!IsStrictPrefix, IsStrictPrefix

LEMMA IsGrow ==
  ASSUME Running(rcv), NEW f \in Files, PartNow' = [PartNow EXCEPT ![f] = PartNow'[f]],
         IsStrictPrefix(PartNow[f], PartNow'[f]), IsPrefix(PartNow'[f], Batch[f]),
         saved' = saved, result' = result,
         Outcome(snd') = Outcome(snd), Outcome(rcv') = Outcome(rcv)
  PROVE  Batches!Grow("rcv", f)
<1> DEFINE P == PartNow
           Q == PartNow'
           a == Outcome(snd)
           b == Outcome(rcv)
<1>1. b = "none"
  BY OutcomeFacts
<1>2. Q = [P EXCEPT ![f] = Q[f]] /\ IsStrictPrefix(P[f], Q[f]) /\ IsPrefix(Q[f], Batch[f])
  OBVIOUS
<1>3. Pair(<<>>, Q) = [Pair(<<>>, P) EXCEPT !["rcv"][f] = Pair(<<>>, Q)["rcv"][f]]
  <2> HIDE DEF P, Q
  <2>1. Pair(<<>>, Q)["rcv"] = Q /\ Pair(<<>>, P)["rcv"] = P
    BY PairFacts
  <2>2. QED
    BY <1>2, <2>1, PairFacts
<1>4. Batches!Grow("rcv", f) <=>
        /\ Pair(a, b)["rcv"] = "none"
        /\ Pair(<<>>, Q) = [Pair(<<>>, P) EXCEPT !["rcv"][f] = Pair(<<>>, Q)["rcv"][f]]
        /\ Batches!IsStrictPrefix(Pair(<<>>, P)["rcv"][f], Pair(<<>>, Q)["rcv"][f])
        /\ Batches!IsPrefix(Pair(<<>>, Q)["rcv"][f],
                            Pair(Batch, <<>>)[Batches!Other("rcv")][f])
        /\ Pair(<<>>, saved') = Pair(<<>>, saved)
        /\ Pair(result', <<>>) = Pair(result, <<>>)
        /\ Pair(Outcome(snd'), Outcome(rcv')) = Pair(a, b)
  BY DEF Batches!Grow, Pair, PartNow
<1> HIDE DEF P, Q, a, b
<1>5. QED
  BY <1>1, <1>2, <1>3, <1>4, PairFacts, PeersFacts, PrefixFacts DEF a, b

LEMMA IsSave ==
  ASSUME Running(rcv), NEW f \in Files, PartNow[f] = Batch[f],
         PartNow' = [PartNow EXCEPT ![f] = <<>>],
         saved' = [saved EXCEPT ![f] = Append(@, Batch[f])], result' = result,
         Outcome(snd') = Outcome(snd), Outcome(rcv') = Outcome(rcv)
  PROVE  Batches!Save("rcv", f)
<1> DEFINE P == PartNow
           Q == PartNow'
           a == Outcome(snd)
           b == Outcome(rcv)
           file == Pair(Batch, <<>>)[Batches!Other("rcv")][f]
<1>1. b = "none"
  BY OutcomeFacts
<1>2. Q = [P EXCEPT ![f] = <<>>] /\ P[f] = Batch[f]
  OBVIOUS
<1>3. file = Batch[f]
  BY PairFacts, PeersFacts
<1>4. Batches!Save("rcv", f) <=>
        /\ Pair(a, b)["rcv"] = "none"
        /\ Pair(<<>>, P)["rcv"][f] = file
        /\ Pair(<<>>, Q) = [Pair(<<>>, P) EXCEPT !["rcv"][f] = <<>>]
        /\ Pair(<<>>, saved') = [Pair(<<>>, saved) EXCEPT !["rcv"][f] = Append(@, file)]
        /\ Pair(result', <<>>) = Pair(result, <<>>)
        /\ Pair(Outcome(snd'), Outcome(rcv')) = Pair(a, b)
  BY DEF Batches!Save, Pair, PartNow
<1> HIDE DEF P, Q, a, b, file
<1>5. Pair(<<>>, Q) = [Pair(<<>>, P) EXCEPT !["rcv"][f] = <<>>]
  <2> DEFINE none == <<>>
  <2>1. Q = At(P, f, none)
    BY <1>2 DEF At
  <2> HIDE DEF none
  <2>2. Pair(none, Q) = Puts(Pair(none, P), f, none)
    BY <2>1, PairPuts
  <2>3. QED
    BY <2>2 DEF none, Puts
<1>6. Pair(<<>>, saved') = [Pair(<<>>, saved) EXCEPT !["rcv"][f] = Append(@, file)]
  <2> DEFINE none == <<>>
             new == Append(saved[f], Batch[f])
  <2>1. saved' = At(saved, f, new)
    BY DEF At
  <2> HIDE DEF none, new
  <2>2. Pair(none, saved') = Puts(Pair(none, saved), f, new)
    <3> DEFINE old == saved
    <3> HIDE DEF old
    <3>1. Pair(none, At(old, f, new)) = Puts(Pair(none, old), f, new)
      BY ONLY PairPuts
    <3>2. QED
      BY ONLY <2>1, <3>1 DEF old
  <2>3. Pair(none, saved)["rcv"] = saved
    BY PairFacts
  <2>4. [Pair(none, saved) EXCEPT !["rcv"][f] = Append(@, file)]
          = [Pair(none, saved) EXCEPT !["rcv"][f] = Append(saved[f], file)]
    BY <2>3
  <2>5. QED
    BY <1>3, <2>2, <2>4 DEF none, new, Puts
<1>7. QED
  BY <1>1, <1>2, <1>3, <1>4, <1>5, <1>6, PairFacts DEF a, b

LEMMA IsReport ==
  ASSUME Running(snd), IsStrictPrefix(result, result'), Len(result') <= Len(Batch),
         \A k \in DOMAIN result' : result'[k] = "OK" => saved[k] # <<>>,
         PartNow' = PartNow, saved' = saved,
         Outcome(snd') = Outcome(snd), Outcome(rcv') = Outcome(rcv)
  PROVE  Batches!Report("snd")
<1> DEFINE P == PartNow
           Q == PartNow'
           a == Outcome(snd)
           b == Outcome(rcv)
           new == Pair(result', <<>>)
<1>1. a = "none" /\ P = Q
  BY OutcomeFacts
<1>2. new["snd"] = result' /\ new = [Pair(result, <<>>) EXCEPT !["snd"] = new["snd"]]
  BY PairFacts
<1>3. Batches!Report("snd") <=>
        /\ Pair(a, b)["snd"] = "none"
        /\ new = [Pair(result, <<>>) EXCEPT !["snd"] = new["snd"]]
        /\ Batches!IsStrictPrefix(Pair(result, <<>>)["snd"], new["snd"])
        /\ Len(new["snd"]) <= Len(Pair(Batch, <<>>)["snd"])
        /\ \A k \in DOMAIN new["snd"] :
             new["snd"][k] = "OK" => Pair(<<>>, saved)[Batches!Other("snd")][k] # <<>>
        /\ Pair(<<>>, Q) = Pair(<<>>, P)
        /\ Pair(<<>>, saved') = Pair(<<>>, saved)
        /\ Pair(Outcome(snd'), Outcome(rcv')) = Pair(a, b)
  BY DEF Batches!Report, Pair, PartNow
<1> HIDE DEF P, Q, a, b, new
<1>4. Pair(<<>>, saved)[Batches!Other("snd")] = saved /\ Pair(Batch, <<>>)["snd"] = Batch
      /\ Pair(result, <<>>)["snd"] = result /\ Pair(a, b)["snd"] = a
  BY PairFacts, PeersFacts
<1>5. Batches!IsStrictPrefix(result, result')
  BY PrefixFacts
<1>6. QED
  BY <1>1, <1>2, <1>3, <1>4, <1>5 DEF a, b

\* One program ends, and what the receiver had of a file is forgotten or not.
LEMMA IsEnd ==
  ASSUME NEW p \in Two, NEW how \in {"XFER_OK", "XFER_ABORT"},
         Pair(Outcome(snd), Outcome(rcv))[p] = "none",
         how = "XFER_OK" => Len(result) = Len(Batch),
         Pair(Outcome(snd'), Outcome(rcv'))
           = [Pair(Outcome(snd), Outcome(rcv)) EXCEPT ![p] = how],
         \/ PartNow' = PartNow
         \/ p = "rcv" /\ \E f \in Files : PartNow' = [PartNow EXCEPT ![f] = <<>>],
         saved' = saved, result' = result
  PROVE  Batches!End(p, how)
<1> DEFINE P == PartNow
           Q == PartNow'
           a == Outcome(snd)
           b == Outcome(rcv)
<1>1. Batches!Discards(p) <=>
        \/ Pair(<<>>, Q) = Pair(<<>>, P)
        \/ \E k \in Batches!FilesOf(Batches!Other(p)) :
             Pair(<<>>, Q) = [Pair(<<>>, P) EXCEPT ![p][k] = <<>>]
  BY DEF Batches!Discards, Pair, PartNow
<1>2. Batches!End(p, how) <=>
        /\ Pair(a, b)[p] = "none"
        /\ how = "XFER_OK" =>
             \A q \in Two : Len(Pair(result, <<>>)[q]) = Len(Pair(Batch, <<>>)[q])
        /\ Pair(Outcome(snd'), Outcome(rcv')) = [Pair(a, b) EXCEPT ![p] = how]
        /\ Batches!Discards(p)
        /\ Pair(<<>>, saved') = Pair(<<>>, saved)
        /\ Pair(result', <<>>) = Pair(result, <<>>)
  BY DEF Batches!End, Pair, Two
<1>3. Q = P \/ (p = "rcv" /\ \E f \in Files : Q = [P EXCEPT ![f] = <<>>])
  OBVIOUS
<1> HIDE DEF P, Q
<1>4. Batches!Discards(p)
  <2>1. CASE Q = P
    BY <1>1, <2>1
  <2>2. ASSUME p = "rcv", NEW f \in Files, Q = [P EXCEPT ![f] = <<>>]
        PROVE  Batches!Discards(p)
    <3>1. f \in Batches!FilesOf(Batches!Other(p))
      BY <2>2, PeersFacts
    <3>2. Pair(<<>>, Q) = [Pair(<<>>, P) EXCEPT !["rcv"][f] = <<>>]
      <4> DEFINE none == <<>>
      <4>1. Q = At(P, f, none)
        BY <2>2 DEF At
      <4> HIDE DEF none
      <4>2. Pair(none, Q) = Puts(Pair(none, P), f, none)
        BY <4>1, PairPuts
      <4>3. QED
        BY <4>2 DEF none, Puts
    <3>3. QED
      BY <1>1, <2>2, <3>1, <3>2
  <2>3. QED
    BY <1>3, <2>1, <2>2
<1>5. how = "XFER_OK" =>
        \A q \in Two : Len(Pair(result, <<>>)[q]) = Len(Pair(Batch, <<>>)[q])
  BY PairFacts DEF Two
<1>6. QED
  BY <1>2, <1>4, <1>5

LEMMA IsNewSession ==
  ASSUME ~Running(snd), ~Running(rcv), Running(snd'), Running(rcv'), result' = <<>>,
         PartNow' = PartNow, saved' = saved
  PROVE  Batches!NewSession
<1> DEFINE P == PartNow
           Q == PartNow'
           a == Outcome(snd)
           b == Outcome(rcv)
           a2 == Outcome(snd')
           b2 == Outcome(rcv')
<1>1. a # "none" /\ b # "none" /\ a2 = "none" /\ b2 = "none" /\ P = Q
  BY OutcomeFacts
<1>2. Batches!NewSession <=>
        /\ \A p \in Two : Pair(a, b)[p] # "none"
        /\ Pair(a2, b2) = [p \in Two |-> "none"]
        /\ DOMAIN Pair(result', <<>>) = Two
        /\ \A p \in Two : Batches!AllSkipped(Pair(result', <<>>)[p])
        /\ Pair(<<>>, Q) = Pair(<<>>, P)
        /\ Pair(<<>>, saved') = Pair(<<>>, saved)
  BY DEF Batches!NewSession, Pair, PartNow, Two
<1> HIDE DEF P, Q, a, b, a2, b2
<1>3. \A p \in Two : Pair(a, b)[p] # "none"
  BY <1>1, PairFacts DEF Two
<1>4. Pair(a2, b2) = [p \in Two |-> "none"]
  BY <1>1 DEF Pair, Two
<1>5. \A p \in Two : Batches!AllSkipped(Pair(result', <<>>)[p])
  BY PairFacts DEF Two, Batches!AllSkipped
<1>6. QED
  BY <1>1, <1>2, <1>3, <1>4, <1>5, PairFacts

LEMMA IsInit ==
  ASSUME Running(snd), Running(rcv), result = <<>>, PartNow = Nothing, saved = Nothing
  PROVE  Batches!Init
<1> DEFINE a == Outcome(snd)
           b == Outcome(rcv)
           P == PartNow
<1>1. a = "none" /\ b = "none"
  BY OutcomeFacts
<1>2. Batches!Init <=>
        /\ Pair(<<>>, P) = [p \in Two |-> [k \in Batches!FilesOf(Batches!Other(p)) |-> <<>>]]
        /\ Pair(<<>>, saved) =
             [p \in Two |-> [k \in Batches!FilesOf(Batches!Other(p)) |-> <<>>]]
        /\ \A p \in Two : Batches!AllSkipped(Pair(result, <<>>)[p])
        /\ Pair(a, b) = [p \in Two |-> "none"]
  BY DEF Batches!Init, Pair, PartNow, Two
<1> HIDE DEF a, b, P
<1>3. \A p \in Two : Batches!AllSkipped(Pair(result, <<>>)[p])
  BY PairFacts DEF Two, Batches!AllSkipped
<1>4. Pair(a, b) = [p \in Two |-> "none"]
  BY <1>1 DEF Pair, Two
<1>5. Pair(<<>>, Nothing) = [p \in Two |-> [k \in Batches!FilesOf(Batches!Other(p)) |-> <<>>]]
  <2>1. [k \in Batches!FilesOf(Batches!Other("rcv")) |-> <<>>] = Nothing
    BY PeersFacts DEF Nothing
  <2>2. [k \in Batches!FilesOf(Batches!Other("snd")) |-> <<>>] = <<>>
    <3>1. [k \in {} |-> <<>>] = <<>>
      OBVIOUS
    <3>2. QED
      BY <3>1, PeersFacts
  <2> DEFINE Of(p) == [k \in Batches!FilesOf(Batches!Other(p)) |-> <<>>]
             none == <<>>
  <2>3. Of("rcv") = Nothing /\ Of("snd") = none
    BY <2>1, <2>2
  <2> HIDE DEF Of, none
  <2>4. Pair(none, Nothing) = [p \in Two |-> Of(p)]
    BY <2>3 DEF Pair, Two
  <2>5. QED
    BY <2>4 DEF Of, none
<1>6. QED
  BY <1>2, <1>3, <1>4, <1>5 DEF P

-----------------------------------------------------------------------------
(***************************************************************************)
(* What the receiver has of the file it receives.                          *)
(***************************************************************************)
PartOf(r, dsk) ==
  [f \in Files |-> IF /\ r.open /\ r.file = f
                      /\ \/ r.state = "ZRPOS_WAIT"
                         \/ r.state = "ZDATA" /\ r.prior = "ZRPOS_WAIT"
                   THEN dsk[f][r.version] ELSE <<>>]

LEMMA PartIs == PartNow = PartOf(rcv, disk) /\ PartNow' = PartOf(rcv', disk')
  BY DEF PartNow, PartOf, Receiving

Held(f, n) == [g \in Files |-> IF g = f THEN Beginning(f, n) ELSE <<>>]

LEMMA PartOfFacts ==
  ASSUME NEW s, NEW r \in Status, NEW dsk, Receives(s, r, dsk)
  PROVE  /\ ~Running(r) \/ ~Filing(r) => PartOf(r, dsk) = Nothing
         /\ Running(r) /\ Filing(r) =>
              /\ r.file \in Files /\ r.pos \in 0 .. Size(r.file)
              /\ PartOf(r, dsk) = Held(r.file, r.pos)
<1>1. CASE ~Running(r) \/ ~Filing(r)
  <2>1. ~(r.open /\ Filing(r))
    BY <1>1 DEF Receives
  <2>2. QED
    BY <2>1, <1>1 DEF PartOf, Nothing, Filing
<1>2. CASE Running(r) /\ Filing(r)
  <2>1. /\ r.open = TRUE /\ r.file \in Files /\ r.pos <= Size(r.file)
        /\ dsk[r.file][r.version] = Beginning(r.file, r.pos)
    BY <1>2 DEF Receives, HasPart
  <2>2. r.pos \in 0 .. Size(r.file)
    BY <2>1, FieldTypes, FileFacts
  <2>3. PartOf(r, dsk) = Held(r.file, r.pos)
    BY <1>2, <2>1 DEF PartOf, Held, Filing
  <2>4. QED
    BY <1>2, <2>1, <2>2, <2>3
<1>3. QED
  BY <1>1, <1>2

LEMMA HeldFacts ==
  ASSUME NEW f \in Files, NEW m \in 0 .. Size(f), NEW n \in 0 .. Size(f), m <= n
  PROVE  /\ Held(f, 0) = Nothing
         /\ Held(f, n)[f] = Beginning(f, n) /\ Nothing[f] = <<>>
         /\ Nothing = [Held(f, m) EXCEPT ![f] = <<>>]
         /\ Held(f, n) = [Held(f, m) EXCEPT ![f] = Held(f, n)[f]]
         /\ m # n => IsStrictPrefix(Held(f, m)[f], Held(f, n)[f])
         /\ IsPrefix(Held(f, n)[f], Batch[f])
<1>1. Beginning(f, 0) = <<>>
  BY BeginningFacts
<1>2. /\ Held(f, n)[f] = Beginning(f, n) /\ Held(f, m)[f] = Beginning(f, m)
      /\ Nothing[f] = <<>> /\ Held(f, 0) = Nothing
  BY <1>1 DEF Held, Nothing
<1>3. Nothing = [Held(f, m) EXCEPT ![f] = <<>>]
  BY DEF Held, Nothing
<1>4. Held(f, n) = [Held(f, m) EXCEPT ![f] = Held(f, n)[f]]
  <2> DEFINE b == Beginning(f, n)
  <2> HIDE DEF b
  <2>1. [g \in Files |-> IF g = f THEN b ELSE <<>>] = [Held(f, m) EXCEPT ![f] = b]
    BY DEF Held
  <2>2. Held(f, n) = [g \in Files |-> IF g = f THEN b ELSE <<>>]
    BY DEF Held, b
  <2>3. QED
    BY <1>2, <2>1, <2>2 DEF b
<1>5. m # n => IsStrictPrefix(Beginning(f, m), Beginning(f, n))
  <2>1. Size(f) \in Nat
    BY FileFacts
  <2>2. m # n => m < n
    BY <2>1
  <2>3. QED
    BY <2>2, BeginningIsPrefix
<1>6. IsPrefix(Beginning(f, n), Batch[f])
  <2>1. CASE n = 0
    <3>1. Batch[f] \in Seq(Units) /\ Len(<<>>) = 0 /\ SubSeq(Batch[f], 1, 0) = <<>>
          /\ Len(Batch[f]) \in Nat
      BY <1>1, FileFacts DEF Beginning
    <3>2. QED
      BY <1>1, <2>1, <3>1 DEF IsPrefix
  <2>2. CASE n # 0
    <3>1. 0 \in 0 .. Size(f) /\ 0 < n
      BY <2>2, FileFacts
    <3>2. QED
      BY <3>1, BeginningIsPrefix
  <2>3. QED
    BY <2>1, <2>2
<1>7. QED
  BY <1>2, <1>3, <1>4, <1>5, <1>6

-----------------------------------------------------------------------------
(***************************************************************************)
(* The receiver's steps.                                                   *)
(***************************************************************************)
ToBatch == [Batches!Next]_(Batches!vars)

LEMMA IsStutter ==
  ASSUME PartNow' = PartNow, saved' = saved, result' = result,
         Outcome(snd') = Outcome(snd), Outcome(rcv') = Outcome(rcv)
  PROVE  ToBatch
<1>1. UNCHANGED Batches!vars
  BY DEF Batches!vars, PartNow
<1>2. QED
  BY <1>1 DEF ToBatch

LEMMA IsDiscard ==
  ASSUME Running(rcv), NEW f \in Files, PartNow' = [PartNow EXCEPT ![f] = <<>>],
         saved' = saved, result' = result,
         Outcome(snd') = Outcome(snd), Outcome(rcv') = Outcome(rcv)
  PROVE  Batches!Discard("rcv")
<1> DEFINE P == PartNow
           Q == PartNow'
           a == Outcome(snd)
           b == Outcome(rcv)
           none == <<>>
<1>1. b = "none" /\ Q = At(P, f, none)
  BY OutcomeFacts DEF At
<1>2. Batches!Discards("rcv") <=>
        \/ Pair(<<>>, Q) = Pair(<<>>, P)
        \/ \E k \in Batches!FilesOf(Batches!Other("rcv")) :
             Pair(<<>>, Q) = [Pair(<<>>, P) EXCEPT !["rcv"][k] = <<>>]
  BY DEF Batches!Discards, Pair, PartNow
<1>3. Batches!Discard("rcv") <=>
        /\ Pair(a, b)["rcv"] = "none" /\ Batches!Discards("rcv")
        /\ Pair(<<>>, saved') = Pair(<<>>, saved)
        /\ Pair(result', <<>>) = Pair(result, <<>>)
        /\ Pair(Outcome(snd'), Outcome(rcv')) = Pair(a, b)
  BY DEF Batches!Discard, Pair
<1> HIDE DEF P, Q, a, b
<1>4. Pair(<<>>, Q) = [Pair(<<>>, P) EXCEPT !["rcv"][f] = <<>>]
  <2> HIDE DEF none
  <2>1. Pair(none, Q) = Puts(Pair(none, P), f, none)
    BY <1>1, PairPuts
  <2>2. QED
    BY <2>1 DEF none, Puts
<1>5. Batches!Discards("rcv")
  BY <1>2, <1>4, PeersFacts
<1>6. QED
  BY <1>1, <1>3, <1>5, PairFacts DEF a, b

LEMMA ToBatchBy ==
  /\ Batches!Discard("rcv") => ToBatch
  /\ Batches!Report("snd") => ToBatch
  /\ \A f \in Files : Batches!Grow("rcv", f) \/ Batches!Save("rcv", f) => ToBatch
  /\ \A p \in Two : \A how \in {"XFER_OK", "XFER_ABORT"} : Batches!End(p, how) => ToBatch
  /\ Batches!NewSession => ToBatch
<1>1. "snd" \in Two /\ "rcv" \in Two
  BY DEF Two
<1>2. Batches!Next <=>
        \/ \E p \in Two :
             \/ Batches!Discard(p) \/ Batches!Report(p)
             \/ \E f \in Batches!FilesOf(Batches!Other(p)) :
                  Batches!Grow(p, f) \/ Batches!Save(p, f)
             \/ \E how \in {"XFER_OK", "XFER_ABORT"} : Batches!End(p, how)
        \/ Batches!NewSession
  BY DEF Batches!Next, Two
<1>3. Batches!FilesOf(Batches!Other("rcv")) = Files
  BY PeersFacts
<1>4. Batches!Next => ToBatch
  BY DEF ToBatch
<1>5. QED
  BY <1>1, <1>2, <1>3, <1>4

LEMMA ReceiverRefines ==
  ASSUME IInv, IInv', Proceeds(rcv'), Running(rcv), snd' = snd, result' = result
  PROVE  ToBatch
<1> DEFINE P == PartNow
           Q == PartNow'
<1>1. IInv /\ IInv' /\ Proceeds(rcv') /\ Running(rcv)
  OBVIOUS
<1>2. /\ rcv \in Status /\ Receives(snd, rcv, disk)
      /\ rcv' \in Status /\ Receives(snd', rcv', disk')
  BY <1>1, AliveIs DEF IInv, Typed, Conversation, Conv
<1>3. /\ ~Filing(rcv) => P = Nothing
      /\ Filing(rcv) => /\ rcv.file \in Files /\ rcv.pos \in 0 .. Size(rcv.file)
                        /\ P = Held(rcv.file, rcv.pos)
  BY <1>1, <1>2, PartIs, PartOfFacts
<1>4. /\ ~Running(rcv') \/ ~Filing(rcv') => Q = Nothing
      /\ Running(rcv') /\ Filing(rcv') =>
           /\ rcv'.file \in Files /\ rcv'.pos \in 0 .. Size(rcv'.file)
           /\ Q = Held(rcv'.file, rcv'.pos)
  BY <1>2, PartIs, PartOfFacts
<1>5. snd' = snd /\ result' = result /\ Outcome(snd') = Outcome(snd)
  OBVIOUS
<1>6. Running(rcv') => Outcome(rcv') = Outcome(rcv)
  BY <1>1, OutcomeFacts
<1>7. 1 \in Files /\ \A f \in Files : Size(f) \in Nat
  BY FileFacts
<1>8. P # Nothing => Filing(rcv)
  BY <1>3
<1>9. P = Nothing \/ \E f \in Files : P = Held(f, rcv.pos) /\ rcv.pos \in 0 .. Size(f)
  BY <1>3
<1>10. \A f \in Files : P = Held(f, rcv.pos) /\ rcv.pos \in 0 .. Size(f) =>
         Nothing = [P EXCEPT ![f] = <<>>]
  BY HeldFacts, <1>7
<1>11. Q = Nothing => Q = P \/ \E f \in Files : Q = [P EXCEPT ![f] = <<>>]
  BY <1>9, <1>10
<1> HIDE DEF P, Q
<1>12. CASE /\ saved' = saved /\ Running(rcv') /\ Q = Nothing
  <2>1. CASE Q = P
    BY <1>5, <1>6, <1>12, <2>1, IsStutter DEF P, Q
  <2>2. CASE \E f \in Files : Q = [P EXCEPT ![f] = <<>>]
    <3>1. PICK f \in Files : Q = [P EXCEPT ![f] = <<>>]
      BY <2>2
    <3>2. Batches!Discard("rcv")
      BY <1>1, <1>5, <1>6, <1>12, <3>1, IsDiscard DEF P, Q
    <3>3. QED
      BY <3>2, ToBatchBy
  <2>3. QED
    BY <1>11, <1>12, <2>1, <2>2
<1>13. CASE saved' = saved /\ Running(rcv') /\ Filing(rcv')
  <2>a. PICK f \in Files : \E n \in 0 .. Size(f) : f = rcv'.file /\ n = rcv'.pos
    BY <1>4, <1>13
  <2>b. PICK n \in 0 .. Size(f) : f = rcv'.file /\ n = rcv'.pos
    BY <2>a
  <2>1. f \in Files /\ n \in 0 .. Size(f) /\ Q = Held(f, n) /\ Size(f) \in Nat
    BY <1>4, <1>7, <1>13, <2>b
  <2>2. \E m \in 0 .. Size(f) : P = Held(f, m) /\ m <= n
    <3>1. CASE Filing(rcv)
      <4>1. saved' = saved => (Running(rcv') => rcv.file = f /\ rcv.pos <= n)
        BY <1>1, <1>13, <2>b, <3>1 DEF Proceeds
      <4>2. QED
        BY <1>3, <1>13, <3>1, <4>1
    <3>2. CASE ~Filing(rcv)
      <4>1. P = Held(f, 0) /\ 0 \in 0 .. Size(f) /\ 0 <= n
        BY <1>3, <2>1, <3>2, HeldFacts
      <4>2. QED
        BY <4>1
    <3>3. QED
      BY <3>1, <3>2
  <2>3. PICK m \in 0 .. Size(f) : P = Held(f, m) /\ m <= n
    BY <2>2
  <2>4. CASE m = n
    BY <1>5, <1>6, <1>13, <2>1, <2>3, <2>4, IsStutter DEF P, Q
  <2>5. CASE m # n
    <3>1. /\ Q = [P EXCEPT ![f] = Q[f]] /\ IsStrictPrefix(P[f], Q[f])
          /\ IsPrefix(Q[f], Batch[f])
      BY <2>1, <2>3, <2>5, HeldFacts
    <3>2. Batches!Grow("rcv", f)
      BY <1>1, <1>5, <1>6, <1>13, <2>1, <3>1, IsGrow DEF P, Q
    <3>3. QED
      BY <2>1, <3>2, ToBatchBy
  <2>6. QED
    BY <2>4, <2>5
<1>14. CASE saved' = saved /\ ~Running(rcv')
  <2> DEFINE how == Outcome(rcv')
  <2>1. how \in {"XFER_OK", "XFER_ABORT"} /\ (how = "XFER_OK" => rcv'.xfer = "END")
    BY <1>14, OutcomeFacts
  <2>2. how = "XFER_OK" => Len(result) = Len(Batch)
    BY <1>1, <1>14, <2>1 DEF Proceeds
  <2>3. Pair(Outcome(snd), Outcome(rcv))["rcv"] = "none"
    BY <1>1, OutcomeFacts, PairFacts
  <2>4. Pair(Outcome(snd'), Outcome(rcv'))
          = [Pair(Outcome(snd), Outcome(rcv)) EXCEPT !["rcv"] = how]
    BY <1>5, PairFacts
  <2>5. "rcv" \in Two
    BY DEF Two
  <2>6. Q = P \/ \E f \in Files : Q = [P EXCEPT ![f] = <<>>]
    BY <1>4, <1>11, <1>14
  <2>7. \/ PartNow' = PartNow
        \/ \E f \in Files : PartNow' = [PartNow EXCEPT ![f] = <<>>]
    BY <2>6 DEF P, Q
  <2> DEFINE p == "rcv"
  <2> HIDE DEF how, p
  <2>8. Batches!End(p, how)
    BY <1>5, <1>14, <2>1, <2>2, <2>3, <2>4, <2>5, <2>7, IsEnd DEF p, how
  <2>9. QED
    BY <2>1, <2>5, <2>8, ToBatchBy DEF p
<1>15. CASE /\ Running(rcv') /\ ~Filing(rcv') /\ Filing(rcv) /\ rcv.pos = Size(rcv.file)
            /\ saved' = [saved EXCEPT ![rcv.file] = Append(@, Batch[rcv.file])]
  <2>a. PICK f \in Files : \E n \in 0 .. Size(f) : f = rcv.file /\ n = rcv.pos
    BY <1>3, <1>15
  <2>b. PICK n \in 0 .. Size(f) : f = rcv.file /\ n = rcv.pos
    BY <2>a
  <2>1. f \in Files /\ n \in 0 .. Size(f) /\ P = Held(f, n) /\ n = Size(f)
        /\ saved' = [saved EXCEPT ![f] = Append(@, Batch[f])]
    BY <1>3, <1>15, <2>b
  <2>2. P[f] = Batch[f] /\ Q = [P EXCEPT ![f] = <<>>]
    <3>1. Held(f, n)[f] = Batch[f] /\ Nothing = [Held(f, n) EXCEPT ![f] = <<>>]
      BY <2>1, HeldFacts, BeginningFacts, <1>7
    <3>2. QED
      BY <1>4, <1>15, <2>1, <3>1
  <2>3. PartNow[f] = Batch[f] /\ PartNow' = [PartNow EXCEPT ![f] = <<>>]
    BY <2>2 DEF P, Q
  <2>4. Batches!Save("rcv", f)
    BY <1>1, <1>5, <1>6, <1>15, <2>1, <2>3, IsSave
  <2>5. QED
    BY <2>1, <2>4, ToBatchBy
<1>16. \/ saved' = saved
      \/ /\ Running(rcv') /\ ~Filing(rcv') /\ Filing(rcv) /\ rcv.pos = Size(rcv.file)
         /\ saved' = [saved EXCEPT ![rcv.file] = Append(@, Batch[rcv.file])]
  BY <1>1 DEF Proceeds
<1>17. QED
  BY <1>4, <1>12, <1>13, <1>14, <1>15, <1>16

-----------------------------------------------------------------------------
(***************************************************************************)
(* The sender's steps.                                                     *)
(***************************************************************************)
Goes(x) == "xfer" \in DOMAIN x /\ x.xfer # "END"

LEMMA GoesOn ==
  ASSUME NEW x, Goes(x)
  PROVE  /\ Goes(Stopped(x)) /\ (\A n : Goes(Erred(x, n))) /\ Goes(TimedOut(x))
<1>1. ASSUME NEW y, Goes(y) PROVE Goes(Stopped(y))
  BY <1>1 DEF Goes, Stopped, Ended
<1>2. ASSUME NEW y, Goes(y), NEW n PROVE Goes(Erred(y, n))
  <2> DEFINE z == [y EXCEPT !.errors = AtMost(ErrorsMax, @ + n), !.reliable = FALSE]
  <2>1. Goes(z)
    BY <1>2 DEF Goes
  <2>2. Erred(y, n) = IF z.errors = ErrorsMax /\ z.state # "ZDATA" THEN Stopped(z) ELSE z
    BY DEF Erred
  <2> HIDE DEF z
  <2>3. QED
    BY <1>1, <2>1, <2>2
<1>3. Goes(TimedOut(x))
  <2> DEFINE z == [x EXCEPT !.timeouts = @ + 1]
             y == Erred(z, 1)
  <2>1. Goes(z)
    BY DEF Goes
  <2>2. TimedOut(x) = IF y.timeouts >= TimeoutMax THEN Stopped(y) ELSE y
    BY DEF TimedOut
  <2> HIDE DEF z
  <2>3. Goes(y)
    BY <1>2, <2>1
  <2> HIDE DEF y
  <2>4. QED
    BY <1>1, <2>2, <2>3
<1>4. QED
  BY <1>1, <1>2, <1>3

LEMMA SaysGoes ==
  ASSUME NEW s, Goes(s), NEW lefts
  PROVE  /\ \A sents, out : SenderStep(s, lefts, sents, out) => Goes(snd')
         /\ \A out : Answers(s, lefts, out) => Goes(snd')
         /\ SendZrqinit(s, lefts) \/ SendZfile(s, lefts) \/ SendZsinit(s, lefts) => Goes(snd')
         /\ SendZfin(s, lefts) => Goes(snd')
         /\ \A sents, out : SendZeof(s, lefts, sents, out) \/ SendBlock(s, lefts, sents, out)
                            => Goes(snd')
<1>1. ASSUME NEW y, Goes(y), NEW sents, NEW out, SenderStep(y, lefts, sents, out)
      PROVE  Goes(snd')
  BY <1>1 DEF SenderStep
<1>2. ASSUME NEW y, Goes(y), NEW out, Answers(y, lefts, out) PROVE Goes(snd')
  BY <1>1, <1>2 DEF Answers
<1>3. /\ \A state : Goes([s EXCEPT !.state = state])
      /\ Goes([s EXCEPT !.xfer = "CRASH"])
  BY DEF Goes
<1>4. SendZrqinit(s, lefts) => Goes(snd')
  BY <1>2, <1>3 DEF SendZrqinit
<1>5. SendZfile(s, lefts) => Goes(snd')
  BY <1>2, <1>3 DEF SendZfile
<1>6. SendZsinit(s, lefts) => Goes(snd')
  BY <1>2, <1>3, <1>5 DEF SendZsinit
<1>7. SendZfin(s, lefts) => Goes(snd')
  BY <1>2, <1>3 DEF SendZfin
<1>8. ASSUME NEW sents, NEW out, SendZeof(s, lefts, sents, out) PROVE Goes(snd')
  BY <1>1, <1>3, <1>8 DEF SendZeof
<1>9. ASSUME NEW sents, NEW out, SendBlock(s, lefts, sents, out) PROVE Goes(snd')
  <2>1. PICK b \in 1 .. BlockMax :
          LET file == Batch[s.file]
              n == AtMost(Len(file) - s.pos, b)
              t == [s EXCEPT !.pos = @ + n, !.errors = 0]
              window == IF s.reliable THEN ReliableWindow ELSE UnreliableWindow
          IN \/ \E kind, block :
                  SenderStep([t EXCEPT !.waiting = TRUE], lefts, sents,
                             Append(out, Packet(kind, 0, block)))
             \/ \E kind, block :
                  SenderStep([t EXCEPT !.waiting = TRUE, !.streaming = TRUE, !.acks = window],
                             lefts, sents, Append(out, Packet(kind, 0, block)))
             \/ \E kind, block :
                  SenderStep([t EXCEPT !.acks = @ - 1], lefts, sents,
                             Append(out, Packet(kind, 0, block)))
    BY <1>9 DEF SendBlock
  <2> DEFINE n == AtMost(Len(Batch[s.file]) - s.pos, b)
             t == [s EXCEPT !.pos = @ + n, !.errors = 0]
             window == IF s.reliable THEN ReliableWindow ELSE UnreliableWindow
             t1 == [t EXCEPT !.waiting = TRUE]
             t2 == [t EXCEPT !.waiting = TRUE, !.streaming = TRUE, !.acks = window]
             t3 == [t EXCEPT !.acks = @ - 1]
  <2>2. \E y \in {t1, t2, t3} : \E o : SenderStep(y, lefts, sents, o)
    BY <2>1
  <2>3. Goes(t)
    BY DEF Goes
  <2> HIDE DEF t, window
  <2>4. Goes(t1) /\ Goes(t2) /\ Goes(t3)
    BY <2>3 DEF Goes
  <2> HIDE DEF t1, t2, t3
  <2>5. QED
    BY <1>1, <2>2, <2>4
<1>10. QED
  BY <1>1, <1>2, <1>4, <1>5, <1>6, <1>7, <1>8, <1>9

\* The sender goes on with what it has logged, or logs one file more, or has ended.
SenderProceeds ==
  \/ result' = result /\ Goes(snd')
  \/ result' = result /\ Len(result) = Len(Batch)
  \/ Running(snd') /\ \E x : result' = Append(result, x)

LEMMA RunsFacts ==
  ASSUME IInv, Running(snd)
  PROVE  /\ Goes(snd) /\ snd \in Status /\ Sends(scenario, snd)
         /\ Len(result) = snd.file - 1 /\ result \in Seq({"OK", "SKIP"})
         /\ \A state : Goes([snd EXCEPT !.state = state])
<1>1. snd \in Status /\ Sends(scenario, snd) /\ Logged(snd, result, disk, saved)
      /\ result \in Seq({"OK", "SKIP"})
  BY AliveIs DEF IInv, Typed, Conversation, Conv, Stored
<1>2. Goes(snd)
  BY <1>1, StatusIs DEF StatusOf, Goes, Running
<1>3. \A state : Goes([snd EXCEPT !.state = state])
  BY <1>2 DEF Goes
<1>4. QED
  BY <1>1, <1>2, <1>3 DEF Logged

LEMMA NextFileProceeds ==
  ASSUME IInv, Running(snd), snd.open = TRUE, NEW lefts, NextFile(snd, lefts),
         NEW x, result' = Append(result, x)
  PROVE  SenderProceeds
<1> DEFINE s == [snd EXCEPT !.file = @ + 1]
           t == [snd EXCEPT !.file = @ + 1, !.open = FALSE]
<1>1. snd \in Status
  BY RunsFacts
<1>2. /\ s.open = TRUE /\ s.xfer = "RUN" /\ "xfer" \in DOMAIN s
      /\ t.xfer = "RUN" /\ "xfer" \in DOMAIN t
  BY <1>1, StatusIs DEF StatusOf, Running
<1>3. SendZfile(s, lefts) \/ SendZfin(t, lefts)
  BY DEF NextFile
<1> HIDE DEF s, t
<1>4. \/ snd' = [s EXCEPT !.state = "ZFILE_WAIT"]
      \/ snd' = [t EXCEPT !.state = "ZFIN_WAIT"]
  BY <1>2, <1>3 DEF SendZfile, SendZfin, Answers, SenderStep
<1>5. Running(snd')
  BY <1>2, <1>4 DEF Running
<1>6. QED
  BY <1>5 DEF SenderProceeds

LEMMA SenderHandlesProceeds ==
  ASSUME IInv, SenderHandles
  PROVE  SenderProceeds
<1>1. Running(snd)
  BY DEF SenderHandles
<1>2. /\ Goes(snd) /\ Goes(Stopped(snd)) /\ \A n : Goes(Erred(snd, n))
      /\ \A state : Goes([snd EXCEPT !.state = state])
  BY <1>1, RunsFacts, GoesOn
<1>3. SenderOpens \/ SendZrqinitWait \/ SendZsinitWait \/ SendZdata \/ SendZdataOther
        \/ SenderGarbled => Goes(snd')
  <2>1. SenderOpens => Goes(snd')
    BY <1>2, SaysGoes DEF SenderOpens
  <2>2. SendZrqinitWait => Goes(snd')
    BY <1>2, SaysGoes DEF SendZrqinitWait
  <2>3. SendZsinitWait => Goes(snd')
    BY <1>2, SaysGoes DEF SendZsinitWait
  <2>4. SendZdata => Goes(snd')
    BY <1>2, SaysGoes DEF SendZdata
  <2>5. SendZdataOther => Goes(snd')
    BY <1>2, SaysGoes DEF SendZdataOther
  <2>6. SenderGarbled => Goes(snd')
    BY <1>2, SaysGoes DEF SenderGarbled
  <2>7. QED
    BY <2>1, <2>2, <2>3, <2>4, <2>5, <2>6
<1>4. SendZdataSkip \/ SendZdataRpos \/ SendZdataAck \/ SendZdataNak \/ SenderAborts
        => Goes(snd')
  <2>1. SendZdataSkip => Goes(snd')
    BY <1>2, SaysGoes DEF SendZdataSkip
  <2>2. SendZdataRpos => Goes(snd')
    <3> DEFINE n == Head(up).n
               e == Erred(snd, 1)
               s == [e EXCEPT !.ackReq = TRUE, !.waiting = TRUE, !.streaming = FALSE,
                              !.pos = n, !.acks = UnreliableWindow]
               t == [snd EXCEPT !.ackReq = FALSE, !.waiting = FALSE, !.pos = n]
    <3>1. Goes(t)
      BY <1>2 DEF Goes
    <3>2. Goes(e)
      BY <1>2
    <3>3. SendZdataRpos =>
            \/ Answers(Stopped(snd), SenderNext, <<>>)
            \/ \E sents, out : SenderStep(s, SenderCleared, sents, out)
            \/ \E sents, out : SendBlock(t, SenderNext, sents, out)
      BY DEF SendZdataRpos
    <3> HIDE DEF e, t
    <3>4. Goes(s)
      BY <3>2 DEF Goes
    <3> HIDE DEF s
    <3>5. QED
      BY <1>2, <3>1, <3>3, <3>4, SaysGoes
  <2>3. SendZdataAck => Goes(snd')
    <3> DEFINE n == Head(up).n
               s == [snd EXCEPT !.ackReq = FALSE, !.waiting = FALSE]
               p == IF n > Size(snd.file) THEN s.pos ELSE n
               s1 == [s EXCEPT !.pos = p]
               s2 == [s EXCEPT !.pos = n]
               s3 == [s EXCEPT !.pos = n, !.streaming = TRUE]
    <3>1. SendZdataAck =>
            \/ SendZeof(s1, SenderCleared, {down}, <<>>)
            \/ \E out : SendBlock(s2, SenderNext, {down}, out)
            \/ \E out : SendBlock(s3, SenderNext, {down}, out)
      BY DEF SendZdataAck
    <3>2. Goes(s)
      BY <1>2 DEF Goes
    <3> HIDE DEF n, s, p
    <3>3. Goes(s1) /\ Goes(s2) /\ Goes(s3)
      BY <3>2 DEF Goes
    <3> HIDE DEF s1, s2, s3
    <3>4. QED
      BY <3>1, <3>3, SaysGoes
  <2>4. SendZdataNak => Goes(snd')
    <3> DEFINE e == Erred(snd, 1)
               s == [e EXCEPT !.state = "ZRPOS"]
    <3>1. SendZdataNak =>
            Answers(s, SenderNext, <<>>) \/ SendBlock(s, SenderNext, {down}, <<>>)
      BY DEF SendZdataNak
    <3>2. Goes(e)
      BY <1>2
    <3> HIDE DEF e
    <3>3. Goes(s)
      BY <3>2 DEF Goes
    <3> HIDE DEF s
    <3>4. QED
      BY <3>1, <3>3, SaysGoes
  <2>5. SenderAborts => Goes(snd')
    <3> DEFINE s == [snd EXCEPT !.xfer = "CRASH"]
    <3>1. Goes(s)
      BY <1>2 DEF Goes
    <3>2. SenderAborts => Answers(s, {up}, <<>>)
      BY DEF SenderAborts
    <3> HIDE DEF s
    <3>3. QED
      BY <3>1, <3>2, SaysGoes
  <2>6. QED
    BY <2>1, <2>2, <2>3, <2>4, <2>5
<1>5. SendZfinWait => Goes(snd') \/ Len(result) = Len(Batch)
  <2>1. SendZfinWait => Len(result) = Len(Batch)
    <3>1. SUFFICES ASSUME SendZfinWait PROVE Len(result) = Len(Batch)
      OBVIOUS
    <3>2. snd.file = Len(Batch) + 1 /\ Len(result) = snd.file - 1 /\ Len(Batch) \in Nat
      BY <1>1, <3>1, RunsFacts, FileFacts DEF SendZfinWait, Sends
    <3>3. QED
      BY <3>2
  <2>2. QED
    BY <2>1
<1>6. SendZfileWait => SenderProceeds
  <2>1. SUFFICES ASSUME SendZfileWait PROVE SenderProceeds
    OBVIOUS
  <2>2. CASE result' = Append(result, "SKIP") /\ NextFile(snd, SenderCleared)
    <3>1. snd.open = TRUE
      BY <1>1, <2>1, RunsFacts DEF SendZfileWait, Sends
    <3>2. QED
      BY <1>1, <2>2, <3>1, NextFileProceeds
  <2>3. CASE result' = result
    <3> DEFINE n == Head(up).n
               s == [snd EXCEPT !.pos = n, !.prior = "ZFILE_WAIT", !.state = "ZDATA",
                                !.ackReq = FALSE]
    <3>1. Goes(s)
      BY <1>2 DEF Goes
    <3>2. \/ Answers(Stopped(snd), SenderNext, <<>>)
          \/ \E out : Answers(s, SenderNext, out)
          \/ SendZfile(Erred(snd, 1), SenderCleared)
          \/ \E out : Answers(snd, SenderNext, out)
          \/ result' = Append(result, "SKIP") /\ NextFile(snd, SenderCleared)
      BY <2>1 DEF SendZfileWait
    <3> HIDE DEF s
    <3>3. CASE result' = Append(result, "SKIP") /\ NextFile(snd, SenderCleared)
      BY <2>2, <3>3
    <3>4. CASE Goes(snd')
      BY <2>3, <3>4 DEF SenderProceeds
    <3>5. QED
      BY <1>2, <3>1, <3>2, <3>3, <3>4, SaysGoes
  <2>4. QED
    BY <2>1, <2>2, <2>3 DEF SendZfileWait
<1>7. SendZeofWait => SenderProceeds
  <2>1. SUFFICES ASSUME SendZeofWait PROVE SenderProceeds
    OBVIOUS
  <2>2. CASE result' = Append(result, "OK") /\ NextFile(snd, SenderCleared)
    <3>1. snd.open = TRUE
      BY <1>1, <2>1, RunsFacts DEF SendZeofWait, Sends
    <3>2. QED
      BY <1>1, <2>2, <3>1, NextFileProceeds
  <2>3. CASE result' = result /\ SendZeof(Erred(snd, 1), SenderCleared, {down}, <<>>)
    BY <1>2, <2>3, SaysGoes DEF SenderProceeds
  <2>4. CASE result' = result /\ Answers(Stopped(snd), SenderNext, <<>>)
    BY <1>2, <2>4, SaysGoes DEF SenderProceeds
  <2>5. QED
    BY <2>1, <2>2, <2>3, <2>4 DEF SendZeofWait
<1>8. QED
  BY <1>3, <1>4, <1>5, <1>6, <1>7 DEF SenderHandles, SenderProceeds

LEMMA SenderTimesOutProceeds ==
  ASSUME IInv, SenderTimesOut
  PROVE  SenderProceeds
<1>1. /\ Running(snd) /\ result' = result /\ SenderResends(TimedOut(snd))
  BY DEF SenderTimesOut, SenderTimeout
<1> DEFINE s == TimedOut(snd)
           t == [s EXCEPT !.ackReq = TRUE, !.waiting = TRUE]
<1>2. Goes(s)
  BY <1>1, RunsFacts, GoesOn
<1>3. \/ SendZrqinit(s, {up}) \/ SendZsinit(s, {up}) \/ SendZfile(s, {up})
      \/ \E out : Answers(t, {up}, out)
      \/ SendZeof(s, {up}, {down}, <<>>) \/ SendZfin(s, {up})
  BY <1>1 DEF SenderResends
<1> HIDE DEF s
<1>4. Goes(t)
  BY <1>2 DEF Goes
<1> HIDE DEF t
<1>5. Goes(snd')
  BY <1>2, <1>3, <1>4, SaysGoes
<1>6. QED
  BY <1>1, <1>5 DEF SenderProceeds

LEMMA SenderRefines ==
  ASSUME IInv, IInv', Running(snd), SenderProceeds, UNCHANGED <<rcv, disk, saved>>
  PROVE  ToBatch
<1>1. /\ PartNow' = PartNow /\ saved' = saved /\ Outcome(rcv') = Outcome(rcv)
      /\ Outcome(snd) = "none"
  BY OutcomeFacts DEF PartNow, Receiving
<1>2. CASE result' = result /\ Running(snd')
  <2>1. Outcome(snd') = Outcome(snd)
    BY <1>1, <1>2, OutcomeFacts
  <2>2. QED
    BY <1>1, <1>2, <2>1, IsStutter
<1>3. CASE result' = result /\ ~Running(snd')
  <2> DEFINE how == Outcome(snd')
             p == "snd"
  <2>1. how \in {"XFER_OK", "XFER_ABORT"} /\ (how = "XFER_OK" => snd'.xfer = "END")
    BY <1>3, OutcomeFacts
  <2>2. how = "XFER_OK" => Len(result) = Len(Batch)
    BY <1>3, <2>1 DEF SenderProceeds, Goes
  <2>3. Pair(Outcome(snd), Outcome(rcv))["snd"] = "none"
    BY <1>1, PairFacts
  <2>4. Pair(Outcome(snd'), Outcome(rcv'))
          = [Pair(Outcome(snd), Outcome(rcv)) EXCEPT !["snd"] = how]
    BY <1>1, PairFacts
  <2>5. p \in Two
    BY DEF Two
  <2> HIDE DEF how
  <2>6. Batches!End("snd", how)
    <3>1. Pair(Outcome(snd), Outcome(rcv))[p] = "none"
          /\ Pair(Outcome(snd'), Outcome(rcv'))
               = [Pair(Outcome(snd), Outcome(rcv)) EXCEPT ![p] = how]
      BY <2>3, <2>4
    <3> HIDE DEF p
    <3>2. Batches!End(p, how)
      BY <1>1, <1>3, <2>1, <2>2, <2>5, <3>1, IsEnd DEF how
    <3>3. QED
      BY <3>2 DEF p
  <2>7. QED
    BY <2>1, <2>5, <2>6, ToBatchBy
<1>4. CASE Running(snd') /\ \E x : result' = Append(result, x)
  <2>1. /\ result \in Seq({"OK", "SKIP"}) /\ result' \in Seq({"OK", "SKIP"})
        /\ Logged(snd', result', disk', saved')
    BY DEF IInv, Typed, Stored
  <2>2. Len(result') <= Len(Batch)
    <3>1. /\ Len(result') = snd'.file - 1 /\ snd'.file \in 1 .. Len(Batch) + 1
          /\ Len(Batch) \in Nat
      BY <2>1, FileFacts DEF Logged
    <3>2. QED
      BY <3>1
  <2>3. \A k \in DOMAIN result' : result'[k] = "OK" => saved[k] # <<>>
    <3>1. DOMAIN result' = 1 .. Len(result')
      BY <2>1
    <3>2. QED
      BY <1>1, <2>1, <3>1 DEF Logged
  <2>4. IsStrictPrefix(result, result')
    <3>1. PICK x : result' = Append(result, x)
      BY <1>4
    <3> DEFINE n == Len(result)
    <3>2. /\ n \in Nat /\ Len(result') = n + 1
          /\ \A i \in 1 .. n : result'[i] = result[i]
      BY <2>1, <3>1
    <3>3. SubSeq(result', 1, n) = result
      <4>1. CASE n = 0
        BY <2>1, <3>2, <4>1, SubSeqEmpty, EmptySeq, 1 \in Int, 0 \in Int, 0 < 1
      <4>2. CASE n # 0
        <5>1. 1 \in 1 .. Len(result) /\ n \in 1 .. Len(result)
          BY <3>2, <4>2
        <5>2. x \in {"OK", "SKIP"} 
          <6>1. result'[n + 1] = x /\ n + 1 \in 1 .. Len(result')
            BY <2>1, <3>1, <3>2
          <6>2. QED
            BY <2>1, <6>1
        <5>3. <<x>> \in Seq({"OK", "SKIP"}) /\ result' = result \o <<x>>
          BY <2>1, <3>1, <5>2, AppendIsConcat
        <5>4. SubSeq(result \o <<x>>, 1, n) = SubSeq(result, 1, n)
          BY <2>1, <5>1, <5>3, SubSeqOfConcat1
        <5>5. QED
          BY <2>1, <5>3, <5>4, SubSeqFull
      <4>3. QED
        BY <4>1, <4>2
    <3>4. SubSeq(result, 1, n) = result
      BY <2>1, SubSeqFull
    <3> HIDE DEF n
    <3>5. n <= n + 1 /\ n # n + 1
      BY <3>2
    <3>6. QED
      BY <3>2, <3>3, <3>4, <3>5 DEF IsStrictPrefix, IsPrefix, n
  <2>5. Outcome(snd') = Outcome(snd)
    BY <1>1, <1>4, OutcomeFacts
  <2>6. Batches!Report("snd")
    BY <1>1, <2>2, <2>3, <2>4, <2>5, IsReport
  <2>7. QED
    BY <2>6, ToBatchBy
<1>5. QED
  BY <1>2, <1>3, <1>4 DEF SenderProceeds

LEMMA EscapesRefines ==
  ASSUME IInv, IInv', Escapes
  PROVE  ToBatch
<1>1. snd \in Alive /\ rcv \in Alive /\ UNCHANGED <<disk, saved, result>>
  BY DEF IInv, Typed, Escapes
<1>2. CASE Running(snd) /\ snd' = Ended(snd, snd.state, "ESC") /\ rcv' = rcv
  <2>1. Goes(snd')
    <3> DEFINE y == Ended(snd, snd.state, "ESC")
    <3>1. y \in Alive /\ y.xfer = "ESC"
      BY <1>1, EscapedFacts
    <3> HIDE DEF y
    <3>2. Goes(y)
      BY <3>1, AliveIs, StatusIs DEF StatusOf, Goes
    <3>3. QED
      BY <1>2, <3>2 DEF y
  <2>2. SenderProceeds
    BY <1>1, <2>1 DEF SenderProceeds
  <2>3. QED
    BY <1>1, <1>2, <2>2, SenderRefines
<1>3. CASE Running(rcv) /\ rcv' = Ended(rcv, rcv.state, "ESC") /\ snd' = snd
  <2>1. ~Running(rcv') /\ rcv'.xfer = "ESC"
    BY <1>1, <1>3, EscapedFacts
  <2>2. Proceeds(rcv')
    BY <1>1, <2>1 DEF Proceeds
  <2>3. QED
    BY <1>1, <1>3, <2>2, ReceiverRefines
<1>4. QED
  BY <1>2, <1>3 DEF Escapes

LEMMA NewSessionRefines ==
  ASSUME IInv, NewSession
  PROVE  ToBatch
<1>1. snd \in Status /\ rcv \in Status /\ Receives(snd, rcv, disk)
  BY AliveIs DEF IInv, Typed, Conversation, Conv
<1>2. Begun(snd', TRUE) /\ Begun(rcv', FALSE)
  BY <1>1, StartedFacts, FreshFacts DEF NewSession, Restarted
<1>3. /\ ~Running(snd) /\ ~Running(rcv) /\ Running(snd') /\ Running(rcv')
      /\ result' = <<>> /\ saved' = saved
  BY <1>2 DEF NewSession, Begun
<1>4. PartNow = Nothing
  BY <1>1, <1>3, PartIs, PartOfFacts
<1>5. PartNow' = Nothing
  BY <1>2, PartIs DEF PartOf, Nothing, Begun
<1>6. Batches!NewSession
  BY <1>3, <1>4, <1>5, IsNewSession
<1>7. QED
  BY <1>6, ToBatchBy

LEMMA StepRefines ==
  ASSUME IInv, IInv', [Next]_vars
  PROVE  ToBatch
<1>1. CASE UNCHANGED vars
  BY <1>1, IsStutter DEF vars, PartNow, Receiving
<1>2. CASE ByReceiver
  <2>1. Proceeds(rcv') /\ Running(rcv) /\ ReceiverUnchanged
    BY <1>2, ByReceiverKeeps DEF ReceiverKeeps, ReceiverActs
  <2>2. QED
    BY <2>1, ReceiverRefines DEF ReceiverUnchanged
<1>3. CASE SenderHandles
  <2>1. SenderProceeds
    BY <1>3, SenderHandlesProceeds
  <2>2. QED
    BY <1>3, <2>1, SenderRefines DEF SenderHandles, SenderUnchanged
<1>4. CASE SenderTimesOut
  <2>1. SenderProceeds
    BY <1>4, SenderTimesOutProceeds
  <2>2. QED
    BY <1>4, <2>1, SenderRefines DEF SenderTimesOut, SenderTimeout
<1>5. CASE LineFails
  BY <1>5, IsStutter DEF LineFails, PartNow, Receiving
<1>6. CASE Escapes
  BY <1>6, EscapesRefines
<1>7. CASE NewSession
  BY <1>7, NewSessionRefines
<1>8. QED
  BY <1>1, <1>2, <1>3, <1>4, <1>5, <1>6, <1>7, StepIs DEF Elsewhere

LEMMA InitRefines ==
  ASSUME Init
  PROVE  Batches!Init
<1>1. snd = Started(Fresh, TRUE) /\ rcv = Started(Fresh, FALSE)
      /\ saved = Nothing /\ result = <<>>
  BY DEF Init, Nothing
<1>2. Begun(snd, TRUE) /\ Begun(rcv, FALSE)
  BY <1>1, StartedFacts, FreshFacts
<1>3. PartNow = Nothing
  BY <1>2, PartIs DEF PartOf, Nothing, Begun
<1>4. QED
  BY <1>1, <1>2, <1>3, IsInit DEF Begun

\* zmodem_send() and zmodem_receive() together are a transfer of a batch: the user at the
\* receiver sees files that grow in order and are saved whole, the user at the sender a
\* file logged as sent only after that, and both see how their transfer ends.
THEOREM RefinesBatch == Spec /\ Calm(scenario) => RefinesBatchTransfer
<1>1. Init => Batches!Init
  BY InitRefines
<1>2. IInv /\ IInv' /\ [Next]_vars => [Batches!Next]_(Batches!vars)
  BY StepRefines DEF ToBatch
<1>3. QED
  BY <1>1, <1>2, Inductive, PTL DEF Spec, RefinesBatchTransfer, Batches!Spec

-----------------------------------------------------------------------------
(***************************************************************************)
(* A transfer that begins with a ZSINIT.  The sender asks and is told to   *)
(* ask again: no ZACK is on its way, so it never leaves ZSINIT_WAIT for a  *)
(* ZFILE, and without one the receiver opens nothing.  In any              *)
(* circumstances, not only calm ones.                                      *)
(***************************************************************************)
Asked == {e \in Elements : e.kind \in {"ZRQINIT", "ZACK", "ZNAK", "ZSINIT", "SHORT", "JUNK",
                                       "GARBLED", "CUT"}}
Replied == {e \in Elements : e.kind \in {"ZRINIT", "ZNAK", "ZCHALLENGE", "GARBLED", "CUT"}}

Asks(s) ==
  /\ s \in Alive /\ s.xfer # "END"
  /\ s.state \in {"INIT", "ZRQINIT_WAIT", "ZSINIT_WAIT", "ABORT"}

Replies(r) ==
  /\ r \in Alive /\ r.xfer # "END"
  /\ r.state \in {"INIT", "ZCHALLENGE_WAIT", "ZRINIT_WAIT", "ZDATA", "ABORT"}
  /\ r.prior \in {"INIT", "ZRINIT_WAIT"}
  /\ r.state = "ZDATA" => r.prior = "ZRINIT_WAIT" /\ r.type = "ZSINIT"

Untouched == disk = scenario.disk /\ (\A f \in Files : saved[f] = <<>>) /\ result = <<>>

Stuck ==
  /\ Asks(snd) /\ Replies(rcv)
  /\ down \in Seq(Asked) /\ up \in Seq(Replied)
  /\ Untouched

OnlySender == UNCHANGED <<scenario, rcv, disk, saved, result>>
OnlyReceiver == UNCHANGED <<scenario, snd, disk, saved, result>>

Lefts(lefts, S) == \A X \in lefts : X \in Seq(S)

LEMMA LeftFacts ==
  ASSUME NEW S, NEW D \in Seq(S)
  PROVE  /\ Lefts(Rests(D), S) /\ Lefts({D}, S)
         /\ D # <<>> => /\ Tail(D) \in Seq(S) /\ Head(D) \in S
                        /\ Lefts({Tail(D)}, S) /\ Lefts(Rests(Tail(D)), S)
<1>1. ASSUME NEW L \in Seq(S) PROVE Lefts(Rests(L), S) /\ Lefts({L}, S)
  BY <1>1, RestsFacts DEF Lefts
<1>2. ASSUME D # <<>> PROVE Tail(D) \in Seq(S) /\ Head(D) \in S
  BY <1>2, TailFacts
<1>3. QED
  BY <1>1, <1>2

LEMMA AskedFacts ==
  /\ \A kind \in {"ZRQINIT", "ZACK", "ZNAK", "ZSINIT", "JUNK", "GARBLED", "CUT"} :
       \A n \in Nat : Header(kind, n) \in Asked
  /\ Packet("SHORT", 0, <<>>) \in Asked
  /\ \A kind \in {"ZRINIT", "ZNAK", "ZCHALLENGE", "GARBLED", "CUT"} :
       \A n \in Nat : Header(kind, n) \in Replied
<1> DEFINE none == <<>>
<1>1. none \in Seq(Units)
  OBVIOUS
<1>2. {"SHORT", "JUNK"} \subseteq DataKinds /\ {"GARBLED", "CUT"} \subseteq UnreadableKinds
  BY DEF DataKinds, UnreadableKinds
<1> HIDE DEF none
<1>3. ASSUME NEW kind \in {"ZRQINIT", "ZACK", "ZNAK", "ZSINIT", "SHORT", "JUNK", "GARBLED", "CUT"},
             NEW n \in Nat
      PROVE  [kind |-> kind, n |-> n, data |-> none] \in Asked
  BY <1>1, <1>2 DEF Asked, Elements
<1>4. ASSUME NEW kind \in {"ZRINIT", "ZNAK", "ZCHALLENGE", "GARBLED", "CUT"}, NEW n \in Nat
      PROVE  [kind |-> kind, n |-> n, data |-> none] \in Replied
  BY <1>1, <1>2 DEF Replied, Elements
<1>5. QED
  BY <1>3, <1>4, 0 \in Nat DEF none, Header, Packet

\* What a program is after an error or a timeout, and where it is put then.
LEMMA AsksStill ==
  ASSUME NEW s, Asks(s)
  PROVE  /\ Asks(Stopped(s))
         /\ Running(s) => Asks(TimedOut(s)) /\ \A n \in {1, 2} : Asks(Erred(s, n))
         /\ \A st \in {"ZRQINIT_WAIT", "ZSINIT_WAIT"} : Asks([s EXCEPT !.state = st])
<1>1. s \in Alive /\ s \in Status /\ s.xfer # "END"
      /\ s.state \in {"INIT", "ZRQINIT_WAIT", "ZSINIT_WAIT", "ABORT"}
  BY AliveIs DEF Asks
<1>2. ASSUME NEW y, Wearies(s, y) PROVE Asks(y)
  BY <1>1, <1>2 DEF Asks, Wearies, Running
<1>3. Asks(Stopped(s))
  BY <1>1, <1>2, StoppedFacts
<1>4. ASSUME Running(s), NEW n \in {1, 2} PROVE Asks(TimedOut(s)) /\ Asks(Erred(s, n))
  BY <1>1, <1>2, <1>4, TimedOutFacts, ErredFacts
<1>5. ASSUME NEW st \in {"ZRQINIT_WAIT", "ZSINIT_WAIT"} PROVE Asks([s EXCEPT !.state = st])
  <2>1. st \in States
    BY Names1
  <2> DEFINE y == [s EXCEPT !.state = st]
  <2>2. y \in Alive /\ y.state = st /\ y.xfer = s.xfer
    BY <1>1, <2>1, Placed
  <2> HIDE DEF y
  <2>3. Asks(y)
    BY <1>1, <2>2 DEF Asks
  <2>4. QED
    BY <2>3 DEF y
<1>6. QED
  BY <1>3, <1>4, <1>5

LEMMA RepliesStill ==
  ASSUME NEW r, Replies(r)
  PROVE  /\ Replies(Stopped(r))
         /\ Running(r) => Replies(TimedOut(r)) /\ \A n \in {1, 2} : Replies(Erred(r, n))
         /\ Replies([r EXCEPT !.state = "ZRINIT_WAIT"])
<1>1. r \in Alive /\ r \in Status /\ r.xfer # "END"
      /\ r.state \in {"INIT", "ZCHALLENGE_WAIT", "ZRINIT_WAIT", "ZDATA", "ABORT"}
      /\ r.prior \in {"INIT", "ZRINIT_WAIT"}
      /\ (r.state = "ZDATA" => r.prior = "ZRINIT_WAIT" /\ r.type = "ZSINIT")
  BY AliveIs DEF Replies
<1>2. ASSUME NEW y, Wearies(r, y) PROVE Replies(y)
  BY <1>1, <1>2 DEF Replies, Wearies, Running
<1>3. Replies(Stopped(r))
  BY <1>1, <1>2, StoppedFacts
<1>4. ASSUME Running(r), NEW n \in {1, 2} PROVE Replies(TimedOut(r)) /\ Replies(Erred(r, n))
  BY <1>1, <1>2, <1>4, TimedOutFacts, ErredFacts
<1>5. Replies([r EXCEPT !.state = "ZRINIT_WAIT"])
  <2> DEFINE st == "ZRINIT_WAIT"
             y == [r EXCEPT !.state = st]
  <2>1. st \in States
    BY Names1
  <2>2. y \in Alive /\ y.state = st /\ y.xfer = r.xfer /\ y.prior = r.prior
    BY <1>1, <2>1, Placed DEF Keeps
  <2> HIDE DEF y
  <2>3. Replies(y)
    BY <1>1, <2>2 DEF Replies
  <2>4. QED
    BY <2>3 DEF y
<1>6. QED
  BY <1>3, <1>4, <1>5

\* A step of the sender, and of the receiver.
LEMMA AskerSteps ==
  ASSUME Stuck, NEW s, Asks(s), NEW lefts, Lefts(lefts, Replied), NEW out \in Seq(Asked),
         Answers(s, lefts, out), OnlySender
  PROVE  Stuck'
<1>1. PICK left \in lefts :
        /\ snd' = s
        /\ up' = IF Running(s) THEN left ELSE <<>>
        /\ down' = IF Running(rcv) THEN down \o out ELSE <<>>
  BY DEF Answers, SenderStep
<1>2. up' \in Seq(Replied) /\ down' \in Seq(Asked)
  <2>1. down \in Seq(Asked) /\ down \o out \in Seq(Asked)
    BY ConcatProperties DEF Stuck
  <2>2. left \in Seq(Replied)
    BY DEF Lefts
  <2>3. QED
    BY <1>1, <2>1, <2>2
<1>3. QED
  BY <1>1, <1>2 DEF Stuck, OnlySender, Untouched

LEMMA ReplierSteps ==
  ASSUME Stuck, NEW r, Replies(r), NEW lefts, Lefts(lefts, Asked), NEW out \in Seq(Replied),
         ReceiverStep(r, lefts, out), OnlyReceiver
  PROVE  Stuck'
<1>1. PICK left \in lefts :
        /\ rcv' = r
        /\ down' = IF Running(r) THEN left ELSE <<>>
        /\ up' = IF Running(snd) THEN up \o out ELSE <<>>
  BY DEF ReceiverStep
<1>2. up' \in Seq(Replied) /\ down' \in Seq(Asked)
  <2>1. up \in Seq(Replied) /\ up \o out \in Seq(Replied)
    BY ConcatProperties DEF Stuck
  <2>2. left \in Seq(Asked)
    BY DEF Lefts
  <2>3. QED
    BY <1>1, <2>1, <2>2
<1>3. QED
  BY <1>1, <1>2 DEF Stuck, OnlyReceiver, Untouched

LEMMA AskerSays ==
  ASSUME Stuck, scenario.zsinit, NEW s, Asks(s), NEW lefts, Lefts(lefts, Replied),
         SendZrqinit(s, lefts) \/ SendZsinit(s, lefts), OnlySender
  PROVE  Stuck'
<1>1. CASE SendZrqinit(s, lefts)
  <2> DEFINE t == [s EXCEPT !.state = "ZRQINIT_WAIT"]
             out == <<Header("ZRQINIT", 0)>>
  <2>1. Asks(t) /\ Answers(t, lefts, out)
    BY <1>1, AsksStill DEF SendZrqinit
  <2>2. out \in Seq(Asked)
    BY AskedFacts, 0 \in Nat
  <2> HIDE DEF t, out
  <2>3. QED
    BY <2>1, <2>2, AskerSteps
<1>2. CASE SendZsinit(s, lefts)
  <2> DEFINE t == [s EXCEPT !.state = "ZSINIT_WAIT"]
             out == <<Header("ZSINIT", 0), Packet("SHORT", 0, <<>>)>>
  <2>1. Asks(t) /\ Answers(t, lefts, out)
    BY <1>2, AsksStill DEF SendZsinit
  <2>2. out \in Seq(Asked)
    BY AskedFacts, 0 \in Nat
  <2> HIDE DEF t, out
  <2>3. QED
    BY <2>1, <2>2, AskerSteps
<1>3. QED
  BY <1>1, <1>2

LEMMA AskerHandles ==
  ASSUME Stuck, scenario.zsinit, SenderHandles
  PROVE  Stuck'
<1>1. /\ Running(snd) /\ Asks(snd) /\ SenderUnchanged /\ up \in Seq(Replied)
      /\ snd.state \in {"INIT", "ZRQINIT_WAIT", "ZSINIT_WAIT", "ABORT"}
  BY DEF Stuck, Asks, SenderHandles
<1>2. /\ Lefts(Rests(up), Replied)
      /\ up # <<>> => /\ Head(up) \in Replied /\ Lefts(SenderNext, Replied)
                      /\ Lefts(SenderCleared, Replied)
  BY <1>1, LeftFacts DEF SenderNext, SenderCleared
<1>3. Asks(Stopped(snd)) /\ \A n \in {1, 2} : Asks(Erred(snd, n))
  BY <1>1, AsksStill
<1>4. \A kind : Arrives(up, kind) => up # <<>>
  BY DEF Arrives
<1>5. <<>> \in Seq(Asked)
  OBVIOUS
<1>6. (SenderOpens \/ SendZrqinitWait \/ SendZsinitWait \/ SenderGarbled) /\ OnlySender
  <2>1. /\ ~SendZfileWait /\ ~SendZeofWait /\ ~SendZdata /\ ~SendZdataSkip /\ ~SendZdataRpos
        /\ ~SendZdataAck /\ ~SendZdataNak /\ ~SendZdataOther /\ ~SendZfinWait /\ ~SenderAborts
    BY <1>1 DEF SendZfileWait, SendZeofWait, SendZdata, SendZdataSkip, SendZdataRpos,
                SendZdataAck, SendZdataNak, SendZdataOther, SendZfinWait, SenderAborts
  <2>2. QED
    BY <1>1, <2>1 DEF SenderHandles, SenderUnchanged, OnlySender
<1>7. ASSUME up # <<>>, Answers(Stopped(snd), SenderNext, <<>>) PROVE Stuck'
  BY <1>1, <1>2, <1>3, <1>5, <1>6, <1>7, AskerSteps
<1>8. CASE SenderOpens
  BY <1>1, <1>2, <1>6, <1>8, AskerSays DEF SenderOpens
<1>9. CASE SendZrqinitWait
  <2>1. CASE Arrives(up, "ZRINIT") /\ SendZsinit(snd, SenderCleared)
    BY <1>1, <1>2, <1>4, <1>6, <2>1, AskerSays
  <2>2. CASE Arrives(up, "ZCHALLENGE") /\ Answers(snd, SenderNext, <<Header("ZACK", Head(up).n)>>)
    <3>1. Head(up).n \in Nat
      BY <1>2, <1>4, <2>2 DEF Replied, Elements
    <3> DEFINE out == <<Header("ZACK", Head(up).n)>>
    <3>2. out \in Seq(Asked)
      BY <3>1, AskedFacts
    <3>3. Answers(snd, SenderNext, out)
      BY <2>2
    <3> HIDE DEF out
    <3>4. QED
      BY <1>1, <1>2, <1>4, <1>6, <2>2, <3>2, <3>3, AskerSteps
  <2>3. CASE Arrives(up, "ZNAK") /\ SendZrqinit(Erred(snd, 1), SenderCleared)
    BY <1>1, <1>2, <1>3, <1>4, <1>6, <2>3, AskerSays
  <2>4. CASE ArrivesOther(up, {"ZRINIT", "ZCHALLENGE", "ZNAK"})
             /\ Answers(Stopped(snd), SenderNext, <<>>)
    BY <1>7, <2>4 DEF ArrivesOther
  <2>5. QED
    BY <1>9, <2>1, <2>2, <2>3, <2>4 DEF SendZrqinitWait
<1>10. CASE SendZsinitWait
  <2>1. ~Arrives(up, "ZACK")
    BY <1>2 DEF Arrives, Replied
  <2>2. CASE Arrives(up, "ZNAK") /\ SendZsinit(Erred(snd, 1), SenderCleared)
    BY <1>1, <1>2, <1>3, <1>4, <1>6, <2>2, AskerSays
  <2>3. CASE ArrivesOther(up, {"ZACK", "ZNAK"}) /\ Answers(Stopped(snd), SenderNext, <<>>)
    BY <1>7, <2>3 DEF ArrivesOther
  <2>4. QED
    BY <1>10, <2>1, <2>2, <2>3 DEF SendZsinitWait
<1>11. CASE SenderGarbled
  <2> DEFINE out == <<Header("ZNAK", 0)>>
  <2>1. out \in Seq(Asked)
    BY AskedFacts, 0 \in Nat
  <2>2. PICK n \in {1, 2} : Answers(Erred(snd, n), SenderCleared, out)
    BY <1>11 DEF SenderGarbled
  <2>3. up # <<>>
    BY <1>4, <1>11 DEF SenderGarbled
  <2> HIDE DEF out
  <2>4. QED
    BY <1>1, <1>2, <1>3, <1>6, <2>1, <2>2, <2>3, AskerSteps
<1>12. QED
  BY <1>6, <1>8, <1>9, <1>10, <1>11

LEMMA AskerTimesOut ==
  ASSUME Stuck, scenario.zsinit, SenderTimeout
  PROVE  Stuck'
<1> DEFINE s == TimedOut(snd)
<1>1. Running(snd) /\ Asks(snd) /\ up \in Seq(Replied) /\ SenderResends(s)
      /\ snd.state \in {"INIT", "ZRQINIT_WAIT", "ZSINIT_WAIT", "ABORT"}
  BY DEF Stuck, Asks, SenderTimeout
<1>2. Asks(s)
  BY <1>1, AsksStill
<1> HIDE DEF s
<1>3. SendZrqinit(s, {up}) \/ SendZsinit(s, {up})
  BY <1>1 DEF SenderResends
<1>4. OnlySender
  BY DEF SenderTimeout, OnlySender
<1>5. Lefts({up}, Replied)
  BY <1>1, LeftFacts
<1>6. QED
  BY <1>2, <1>3, <1>4, <1>5, AskerSays

LEMMA ReplierSays ==
  ASSUME Stuck, NEW r, Replies(r), NEW lefts, Lefts(lefts, Asked),
         SendZrinit(r, lefts) \/ SendZchallenge(r, lefts), OnlyReceiver
  PROVE  Stuck'
<1>1. CASE SendZrinit(r, lefts)
  <2> DEFINE t == [r EXCEPT !.state = "ZRINIT_WAIT"]
             out == <<Header("ZRINIT", 0)>>
  <2>1. Replies(t) /\ ReceiverStep(t, lefts, out)
    BY <1>1, RepliesStill DEF SendZrinit
  <2>2. out \in Seq(Replied)
    BY AskedFacts, 0 \in Nat
  <2> HIDE DEF t, out
  <2>3. QED
    BY <2>1, <2>2, ReplierSteps
<1>2. CASE SendZchallenge(r, lefts)
  <2> DEFINE v == 1 - r.value
             st == "ZCHALLENGE_WAIT"
             t == [r EXCEPT !.state = st, !.value = v]
             out == <<Header("ZCHALLENGE", v)>>
  <2>1. ReceiverStep(t, lefts, out)
    BY <1>2 DEF SendZchallenge
  <2>2. /\ r \in Status /\ (Running(r) => r.timeouts < TimeoutMax) /\ r.xfer # "END"
        /\ r.prior \in {"INIT", "ZRINIT_WAIT"}
    BY AliveIs DEF Replies
  <2>3. v \in Values /\ v \in Nat /\ st \in States
    BY <2>2, FieldTypes, Names1 DEF Values
  <2>4. out \in Seq(Replied)
    BY <2>3, AskedFacts
  <2> HIDE DEF v, out
  <2>5. /\ t \in Status /\ t.state = st /\ t.prior = r.prior /\ t.xfer = r.xfer
        /\ t.timeouts = r.timeouts
    BY <2>2, <2>3, StatusIs DEF StatusOf
  <2> HIDE DEF t
  <2>6. Replies(t)
    BY <2>2, <2>5, AliveIs DEF Replies, Running, st
  <2>7. QED
    BY <2>1, <2>4, <2>6, ReplierSteps
<1>3. QED
  BY <1>1, <1>2

\* What the receiver is about to hear.
LEMMA ReplierFacts ==
  ASSUME Stuck, Running(rcv), ReceiverUnchanged, Kept
  PROVE  /\ OnlyReceiver /\ Replies(rcv) /\ down \in Seq(Asked)
         /\ rcv \in Alive /\ rcv \in Status
         /\ rcv.state \in {"INIT", "ZCHALLENGE_WAIT", "ZRINIT_WAIT", "ZDATA", "ABORT"}
         /\ rcv.prior \in {"INIT", "ZRINIT_WAIT"}
         /\ rcv.state = "ZDATA" => rcv.prior = "ZRINIT_WAIT" /\ rcv.type = "ZSINIT"
         /\ Replies(Stopped(rcv)) /\ \A n \in {1, 2} : Replies(Erred(rcv, n))
         /\ Lefts(Rests(down), Asked) /\ Lefts({down}, Asked)
         /\ down # <<>> => /\ Head(down) \in Asked /\ Lefts(ReceiverNext, Asked)
                           /\ Lefts(ReceiverCleared, Asked)
         /\ \A kind : Arrives(down, kind) => down # <<>>
         /\ <<>> \in Seq(Replied) /\ <<Header("ZNAK", 0)>> \in Seq(Replied)
<1>1. OnlyReceiver
  BY DEF ReceiverUnchanged, Kept, OnlyReceiver
<1>2. /\ Replies(rcv) /\ down \in Seq(Asked) /\ rcv \in Alive
      /\ rcv.state \in {"INIT", "ZCHALLENGE_WAIT", "ZRINIT_WAIT", "ZDATA", "ABORT"}
      /\ rcv.prior \in {"INIT", "ZRINIT_WAIT"}
      /\ rcv.state = "ZDATA" => rcv.prior = "ZRINIT_WAIT" /\ rcv.type = "ZSINIT"
  BY DEF Stuck, Replies
<1>3. Replies(Stopped(rcv)) /\ \A n \in {1, 2} : Replies(Erred(rcv, n))
  BY <1>2, RepliesStill
<1>4. /\ Lefts(Rests(down), Asked) /\ Lefts({down}, Asked)
      /\ down # <<>> => /\ Head(down) \in Asked /\ Lefts(ReceiverNext, Asked)
                        /\ Lefts(ReceiverCleared, Asked)
  BY <1>2, LeftFacts DEF ReceiverNext, ReceiverCleared
<1>5. \A kind : Arrives(down, kind) => down # <<>>
  BY DEF Arrives
<1>6. <<>> \in Seq(Replied) /\ <<Header("ZNAK", 0)>> \in Seq(Replied)
  BY AskedFacts, 0 \in Nat
<1>7. QED
  BY <1>1, <1>2, <1>3, <1>4, <1>5, <1>6, AliveIs

LEMMA ReplierOpens ==
  ASSUME Stuck, Running(rcv), ReceiverUnchanged, Kept, ReceiverOpens
  PROVE  Stuck'
<1>1. \/ SendZchallenge(rcv, Rests(down))
      \/ SendZrinit(rcv, Rests(down))
      \/ down # <<>> /\ SendZchallenge(rcv, ReceiverCleared)
      \/ down # <<>> /\ SendZrinit(rcv, ReceiverCleared)
      \/ down # <<>> /\ ReceiverStep(rcv, ReceiverNext, <<>>)
  BY DEF ReceiverOpens, Arrives
<1>2. ASSUME NEW lefts, SendZchallenge(rcv, lefts) \/ SendZrinit(rcv, lefts),
             lefts = Rests(down) \/ (down # <<>> /\ lefts = ReceiverCleared)
      PROVE  Stuck'
  BY <1>2, ReplierFacts, ReplierSays
<1>3. CASE down # <<>> /\ ReceiverStep(rcv, ReceiverNext, <<>>)
  BY <1>3, ReplierFacts, ReplierSteps
<1>4. QED
  BY <1>1, <1>2, <1>3

LEMMA ReplierStops ==
  ASSUME Stuck, Running(rcv), ReceiverUnchanged, Kept, down # <<>>,
         ReceiverStep(Stopped(rcv), ReceiverNext, <<>>)
  PROVE  Stuck'
  BY ReplierFacts, ReplierSteps

LEMMA ReplierChallenges ==
  ASSUME Stuck, Running(rcv), ReceiverUnchanged, Kept, ReceiveZchallengeWait
  PROVE  Stuck'
<1>1. CASE Arrives(down, "ZACK") /\ SendZrinit(rcv, ReceiverCleared)
  BY <1>1, ReplierFacts, ReplierSays
<1>2. CASE Arrives(down, "ZNAK") /\ SendZchallenge(Erred(rcv, 1), ReceiverCleared)
  BY <1>2, ReplierFacts, ReplierSays
<1>3. CASE Arrives(down, "ZRQINIT") /\ SendZchallenge(rcv, ReceiverCleared)
  BY <1>3, ReplierFacts, ReplierSays
<1>4. CASE down # <<>> /\ ReceiverStep(Stopped(rcv), ReceiverNext, <<>>)
  BY <1>4, ReplierStops
<1>5. QED
  BY <1>1, <1>2, <1>3, <1>4 DEF ReceiveZchallengeWait, ArrivesOther, Arrives

LEMMA ReplierWaits ==
  ASSUME Stuck, Running(rcv), ReceiverUnchanged, Kept, ReceiveZrinitWait
  PROVE  Stuck'
<1>1. ~Arrives(down, "ZFIN") /\ ~Arrives(down, "ZFILE")
  BY ReplierFacts DEF Arrives, Asked
<1>2. CASE Arrives(down, "ZRQINIT") /\ SendZrinit(rcv, ReceiverCleared)
  BY <1>2, ReplierFacts, ReplierSays
<1>3. CASE Arrives(down, "ZSINIT")
           /\ ReceiverStep(Collects("ZRINIT_WAIT", "ZSINIT"), ReceiverNext, <<>>)
  <2> DEFINE st == "ZDATA"
             prior == "ZRINIT_WAIT"
             type == "ZSINIT"
             r == [rcv EXCEPT !.prior = prior, !.state = st, !.type = type]
  <2>1. ReceiverStep(r, ReceiverNext, <<>>)
    BY <1>3 DEF Collects
  <2>2. st \in States /\ prior \in Priors /\ type \in Types
    BY Names1
  <2>3. rcv \in Status /\ rcv.timeouts < TimeoutMax /\ rcv.xfer # "END"
    BY ReplierFacts, AliveIs DEF Replies
  <2>4. /\ r \in Status /\ r.state = st /\ r.prior = prior /\ r.type = type
        /\ r.xfer = rcv.xfer /\ r.timeouts = rcv.timeouts
    BY <2>2, <2>3, StatusIs DEF StatusOf
  <2> HIDE DEF r
  <2>5. Replies(r)
    BY <2>3, <2>4, AliveIs DEF Replies, st, prior, type
  <2>6. QED
    BY <1>3, <2>1, <2>5, ReplierFacts, ReplierSteps
<1>4. CASE Arrives(down, "ZNAK") /\ RepeatZrinit(Erred(rcv, 1), ReceiverCleared)
  <2>1. Replies(Erred(rcv, 1))
    BY ReplierFacts
  <2>2. Erred(rcv, 1).prior # "ZSKIP"
    BY <2>1 DEF Replies
  <2>3. SendZrinit(Erred(rcv, 1), ReceiverCleared)
    BY <1>4, <2>2 DEF RepeatZrinit
  <2>4. QED
    BY <1>4, <2>1, <2>3, ReplierFacts, ReplierSays
<1>5. CASE down # <<>> /\ ReceiverStep(Stopped(rcv), ReceiverNext, <<>>)
  BY <1>5, ReplierStops
<1>6. QED
  BY <1>1, <1>2, <1>3, <1>4, <1>5 DEF ReceiveZrinitWait, ArrivesOther

\* What the receiver collects behind a ZSINIT.
LEMMA ReplierCollects ==
  ASSUME Stuck, Running(rcv), ReceiverUnchanged, ReceiveJunk \/ ReceiveBadData
  PROVE  Stuck'
<1>1. rcv.state = "ZDATA" /\ down # <<>> /\ Kept
  BY DEF ReceiveJunk, ReceiveBadData
<1>2. rcv \in Status /\ rcv.timeouts < TimeoutMax /\ rcv.xfer # "END"
      /\ rcv.prior = "ZRINIT_WAIT" /\ rcv.type = "ZSINIT"
  BY <1>1, ReplierFacts, AliveIs DEF Replies
<1>3. ASSUME NEW y \in Status, y.state = "ZDATA", y.prior = rcv.prior, y.type = rcv.type,
             y.xfer = rcv.xfer, y.timeouts < TimeoutMax, NEW junk \in Junks
      PROVE  Replies([y EXCEPT !.junk = junk])
  <2> DEFINE r == [y EXCEPT !.junk = junk]
  <2>1. /\ r \in Status /\ r.state = y.state /\ r.prior = y.prior /\ r.type = y.type
        /\ r.xfer = y.xfer /\ r.timeouts = y.timeouts
    BY <1>3, StatusIs DEF StatusOf
  <2> HIDE DEF r
  <2>2. Replies(r)
    BY <1>2, <1>3, <2>1, AliveIs DEF Replies
  <2>3. QED
    BY <2>2 DEF r
<1>4. CASE ReceiveJunk
  <2>1. PICK junk \in {"YES", "SHORT", "FULL"} :
          ReceiverStep([rcv EXCEPT !.junk = junk], ReceiverNext, <<>>)
    <3> DEFINE held == IF rcv.junk = "FULL" THEN "FULL"
                       ELSE IF Head(down).kind = "SHORT" THEN "SHORT" ELSE "YES"
    <3>1. \/ ReceiverStep([rcv EXCEPT !.junk = held], ReceiverNext, <<>>)
          \/ ReceiverStep([rcv EXCEPT !.junk = "FULL"], ReceiverNext, <<>>)
      BY <1>4 DEF ReceiveJunk
    <3>2. held \in {"YES", "SHORT", "FULL"}
      OBVIOUS
    <3> HIDE DEF held
    <3>3. QED
      BY <3>1, <3>2
  <2>2. junk \in Junks
    BY Names1
  <2>3. Replies([rcv EXCEPT !.junk = junk])
    BY <1>1, <1>2, <1>3, <2>2
  <2>4. QED
    BY <1>1, <2>1, <2>3, ReplierFacts, ReplierSteps
<1>5. CASE ReceiveBadData
  <2> DEFINE y == Erred(rcv, 1)
             r == [y EXCEPT !.junk = "NO"]
             t == [r EXCEPT !.state = "ZRINIT_WAIT"]
  <2>1. ReceiverStep(t, ReceiverCleared, <<Header("ZNAK", 0)>>)
    BY <1>2, <1>5 DEF ReceiveBadData
  <2>2. Wearies(rcv, y) /\ y.state = "ZDATA" /\ y.xfer = rcv.xfer
    BY <1>1, ReplierFacts, ErredFacts, ErredInData
  <2> HIDE DEF y
  <2>3. y \in Status /\ y.prior = rcv.prior /\ y.type = rcv.type /\ y.timeouts < TimeoutMax
    BY <2>2, AliveIs DEF Wearies, Running
  <2>4. Replies(r)
    BY <1>3, <2>2, <2>3, Names1
  <2> HIDE DEF r
  <2>5. Replies(t)
    BY <2>4, RepliesStill
  <2> HIDE DEF t
  <2>6. QED
    BY <1>1, <2>1, <2>5, ReplierFacts, ReplierSteps
<1>6. QED
  BY <1>4, <1>5

LEMMA ReplierHandles ==
  ASSUME Stuck, ReceiverHandles
  PROVE  Stuck'
<1>1. Running(rcv) /\ ReceiverUnchanged
  BY DEF ReceiverHandles
<1>2. ~ReceiveZcrcWait /\ ~ReceiveZrposWait
  BY DEF Stuck, Replies, ReceiveZcrcWait, ReceiveZrposWait
<1>3. ~ReceiveGoodData
  BY DEF Stuck, Asked, Arrives, ReceiveGoodData
<1>4. CASE ReceiverSkipsData /\ Kept
  <2>1. down # <<>> /\ ReceiverStep(rcv, ReceiverNext, <<>>)
    BY <1>4 DEF ReceiverSkipsData, Arrives
  <2>2. QED
    BY <1>1, <1>4, <2>1, ReplierFacts, ReplierSteps
<1>5. CASE ReceiverGarbled /\ Kept
  <2>1. rcv.state # "ZRPOS_WAIT" /\ down # <<>>
    BY <1>1, <1>5, ReplierFacts DEF ReceiverGarbled
  <2>2. PICK n \in {1, 2} :
          ReceiverStep(Erred(rcv, n), ReceiverCleared, <<Header("ZNAK", 0)>>)
    BY <1>5, <2>1 DEF ReceiverGarbled
  <2>3. QED
    BY <1>1, <1>5, <2>1, <2>2, ReplierFacts, ReplierSteps
<1>6. QED
  BY <1>1, <1>2, <1>3, <1>4, <1>5, ReplierOpens, ReplierChallenges, ReplierWaits,
     ReplierCollects DEF ReceiverHandles

LEMMA ReplierTimesOut ==
  ASSUME Stuck, ReceiverTimeout
  PROVE  Stuck'
<1> DEFINE r == TimedOut(rcv)
<1>1. Running(rcv) /\ ReceiverUnchanged /\ Kept /\ ReceiverResends(r)
  BY DEF ReceiverTimeout
<1>2. /\ Replies(rcv) /\ OnlyReceiver /\ Lefts({down}, Asked)
      /\ rcv.state # "ZCRC_WAIT" /\ rcv.state # "ZRPOS_WAIT"
  BY <1>1, ReplierFacts
<1>3. Replies(r)
  BY <1>1, <1>2, RepliesStill
<1> HIDE DEF r
<1>4. r.prior # "ZSKIP"
  BY <1>3 DEF Replies
<1>5. SendZchallenge(r, {down}) \/ SendZrinit(r, {down})
  BY <1>1, <1>2, <1>4 DEF ReceiverResends, RepeatZrinit
<1>6. QED
  BY <1>2, <1>3, <1>5, ReplierSays

\* What the line makes of what is on it.
LEMMA HarmStays ==
  ASSUME NEW S, NEW L \in Seq(S), L # <<>>,
         \A into \in {"GARBLED", "CUT"} : Header(into, 0) \in S,
         (\E e \in S : e.kind \in DataKinds) => Header("JUNK", 0) \in S,
         \A e \in S : e.kind \notin SubpacketKinds,
         NEW kind, NEW M \in Harmed(kind, L)
  PROVE  M \in Seq(S)
<1> DEFINE e == Head(L)
<1>1. e \in S /\ Tail(L) \in Seq(S)
  BY TailFacts
<1>2. ASSUME NEW g \in S PROVE <<g>> \o Tail(L) \in Seq(S)
  BY <1>1, ConcatProperties
<1>3. \/ M = <<Header("JUNK", 0)>> \o Tail(L) /\ e.kind \in DataKinds
      \/ M = <<Header("GARBLED", 0)>> \o Tail(L)
      \/ M = <<Header("CUT", 0)>> \o Tail(L)
      \/ M = Tail(L)
  <2> DEFINE T == Tail(L)
             sub == e.kind \in SubpacketKinds
             junk == e.kind \in SubpacketKinds \cup {"SHORT"}
             head == e.kind \notin DataKinds \cup UnreadableKinds
             Turned(into) == {<<Header(into, 0)>> \o T}
  <2>1. M \in CASE kind = "damage" /\ sub -> Turned("DAMAGED")
                [] kind = "junk" /\ junk -> Turned("JUNK")
                [] kind = "garble" /\ head -> Turned("GARBLED")
                [] kind = "cut" /\ head -> Turned("CUT")
                [] kind = "lose" /\ head -> {T}
                [] OTHER -> {}
    BY DEF Harmed
  <2>2. ~sub /\ (junk => e.kind \in DataKinds)
    BY <1>1 DEF DataKinds
  <2> HIDE DEF sub, junk, head
  <2>3. (junk /\ M \in Turned("JUNK")) \/ M \in Turned("GARBLED") \/ M \in Turned("CUT") \/ M = T
    <3> HIDE DEF Turned, T
    <3>1. CASE kind = "junk" /\ junk
      BY <2>1, <2>2, <3>1
    <3>2. CASE kind = "garble" /\ head
      BY <2>1, <2>2, <3>2
    <3>3. CASE kind = "cut" /\ head
      BY <2>1, <2>2, <3>3
    <3>4. CASE kind = "lose" /\ head
      BY <2>1, <2>2, <3>4
    <3>5. QED
      BY <2>1, <2>2, <3>1, <3>2, <3>3, <3>4
  <2>4. QED
    BY <2>2, <2>3
<1>4. QED
  BY <1>1, <1>2, <1>3

LEMMA JoinStays ==
  ASSUME NEW S, NEW L \in Seq(S), Len(L) > 1, Header("GARBLED", 0) \in S,
         NEW M \in Joined(L)
  PROVE  M \in Seq(S)
<1> DEFINE after == SubSeq(L, 3, Len(L))
           g == Header("GARBLED", 0)
<1>1. Len(L) \in Nat /\ L # <<>>
  BY EmptySeq
<1>2. after \in Seq(S)
  <2>1. \A i \in 3 .. Len(L) : L[i] \in S
    BY <1>1
  <2>2. QED
    BY <1>1, <2>1, SubSeqProperties, 3 \in Int, Len(L) \in Int
<1>3. M = <<g>> \o after \/ M = Tail(L)
  BY DEF Joined
<1> HIDE DEF after, g
<1>4. g \in S
  BY DEF g
<1>5. <<g>> \o after \in Seq(S)
  BY <1>2, <1>4, ConcatProperties
<1>6. Tail(L) \in Seq(S)
  BY <1>1, TailFacts
<1>7. QED
  BY <1>3, <1>5, <1>6

LEMMA LineStuck ==
  ASSUME Stuck, LineFails \/ HeadersJoin
  PROVE  Stuck'
<1>1. UNCHANGED <<scenario, snd, rcv, disk, saved, result>>
  BY DEF LineFails, HeadersJoin
<1>2. down \in Seq(Asked) /\ up \in Seq(Replied)
  BY DEF Stuck
<1>3. /\ \A into \in {"GARBLED", "CUT"} : Header(into, 0) \in Asked /\ Header(into, 0) \in Replied
      /\ Header("JUNK", 0) \in Asked
  BY AskedFacts, 0 \in Nat
<1>4. /\ \A e \in Asked : e.kind \notin SubpacketKinds
      /\ \A e \in Replied : e.kind \notin DataKinds /\ e.kind \notin SubpacketKinds
  BY DEF Asked, Replied, DataKinds, SubpacketKinds
<1>5. ASSUME LineFails PROVE down' \in Seq(Asked) /\ up' \in Seq(Replied)
  <2>1. PICK kind \in FaultKinds :
          \/ down # <<>> /\ down' \in Harmed(kind, down) /\ up' = up
          \/ up # <<>> /\ up' \in Harmed(kind, up) /\ down' = down
    BY <1>5 DEF LineFails
  <2>2. down # <<>> /\ down' \in Harmed(kind, down) => down' \in Seq(Asked)
    BY <1>2, <1>3, <1>4, HarmStays
  <2>3. up # <<>> /\ up' \in Harmed(kind, up) => up' \in Seq(Replied)
    BY <1>2, <1>3, <1>4, HarmStays
  <2>4. QED
    BY <1>2, <2>1, <2>2, <2>3
<1>6. ASSUME HeadersJoin PROVE down' \in Seq(Asked) /\ up' \in Seq(Replied)
  <2>1. \/ Len(up) > 1 /\ up' \in Joined(up) /\ down' = down
        \/ Len(down) > 1 /\ down' \in Joined(down) /\ up' = up
    BY <1>6 DEF HeadersJoin
  <2>2. Len(down) > 1 /\ down' \in Joined(down) => down' \in Seq(Asked)
    BY <1>2, <1>3, JoinStays
  <2>3. Len(up) > 1 /\ up' \in Joined(up) => up' \in Seq(Replied)
    BY <1>2, <1>3, JoinStays
  <2>4. QED
    BY <1>2, <2>1, <2>2, <2>3
<1>7. QED
  BY <1>1, <1>5, <1>6 DEF Stuck, Untouched

LEMMA EscapesStuck ==
  ASSUME Stuck, Escapes
  PROVE  Stuck'
<1>1. snd \in Alive /\ rcv \in Alive
  BY DEF Stuck, Asks, Replies
<1>2. UNCHANGED <<scenario, disk, saved, result>>
  BY DEF Escapes
<1>3. <<>> \in Seq(Asked) /\ <<>> \in Seq(Replied)
  OBVIOUS
<1>4. CASE snd' = Ended(snd, snd.state, "ESC") /\ up' = <<>> /\ UNCHANGED <<rcv, down>>
  <2> DEFINE y == Ended(snd, snd.state, "ESC")
  <2>1. y \in Alive /\ y.state = snd.state /\ y.xfer = "ESC"
    BY <1>1, EscapedFacts
  <2>2. snd' = y
    BY <1>4
  <2> HIDE DEF y
  <2>3. Asks(snd')
    BY <2>1, <2>2 DEF Stuck, Asks
  <2>4. QED
    BY <1>2, <1>3, <1>4, <2>3 DEF Stuck, Untouched
<1>5. CASE rcv' = Ended(rcv, rcv.state, "ESC") /\ down' = <<>> /\ UNCHANGED <<snd, up>>
  <2> DEFINE y == Ended(rcv, rcv.state, "ESC")
  <2>1. /\ y \in Alive /\ y.state = rcv.state /\ y.xfer = "ESC" /\ y.prior = rcv.prior
        /\ y.type = rcv.type
    BY <1>1, EscapedFacts DEF Keeps
  <2>2. rcv' = y
    BY <1>5
  <2> HIDE DEF y
  <2>3. Replies(rcv')
    BY <2>1, <2>2 DEF Stuck, Replies
  <2>4. QED
    BY <1>2, <1>3, <1>5, <2>3 DEF Stuck, Untouched
<1>6. QED
  BY <1>4, <1>5 DEF Escapes

\* A session begins with what the last one has left of "status".
LEMMA BeginsStuck ==
  ASSUME NEW x \in Status, NEW sending \in BOOLEAN
  PROVE  /\ Asks(Started(x, sending))
         /\ x.prior \in {"INIT", "ZRINIT_WAIT"} => Replies(Started(x, sending))
<1> DEFINE y == Started(x, sending)
<1>1. y \in Alive /\ Running(y) /\ y.state = "INIT"
  BY StartedFacts DEF Begun
<1>2. y.prior = x.prior
  BY StatusIs DEF Started, StatusOf
<1> HIDE DEF y
<1>3. Asks(y) /\ (x.prior \in {"INIT", "ZRINIT_WAIT"} => Replies(y))
  BY <1>1, <1>2 DEF Asks, Replies, Running
<1>4. QED
  BY <1>3 DEF y

LEMMA SessionStuck ==
  ASSUME Stuck, NewSession
  PROVE  Stuck'
<1>1. snd \in Status /\ rcv \in Status /\ rcv.prior \in {"INIT", "ZRINIT_WAIT"}
  BY AliveIs DEF Stuck, Asks, Replies
<1>2. Fresh \in Status /\ Fresh.prior = "INIT"
  BY FreshFacts DEF Fresh
<1>3. Asks(snd') /\ Replies(rcv')
  BY <1>1, <1>2, BeginsStuck DEF NewSession, Restarted
<1>4. /\ down' = <<>> /\ up' = <<>> /\ result' = <<>>
      /\ UNCHANGED <<scenario, disk, saved>>
  BY DEF NewSession
<1>5. down' \in Seq(Asked) /\ up' \in Seq(Replied)
  BY <1>4
<1>6. QED
  BY <1>3, <1>4, <1>5 DEF Stuck, Untouched

LEMMA StuckInductive ==
  ASSUME scenario.zsinit => Stuck, [Next]_vars
  PROVE  scenario'.zsinit => Stuck'
<1>1. scenario' = scenario
  BY DEF Next, vars, SenderHandles, SenderUnchanged, ReceiverHandles, ReceiverUnchanged,
         SenderTimesOut, ReceiverTimesOut, TimesOutEarly, SenderTimeout, ReceiverTimeout,
         HeadersJoin, LineFails, CannotCreate, Escapes, NewSession
<1>2. SUFFICES ASSUME scenario.zsinit, Stuck PROVE Stuck'
  BY <1>1
<1>3. CASE UNCHANGED vars
  BY <1>2, <1>3 DEF vars, Stuck, Untouched
<1>4. ~CannotCreate
  BY <1>2 DEF CannotCreate, Stuck, Asked, Replies, Arrives
<1>5. CASE SenderHandles
  BY <1>2, <1>5, AskerHandles
<1>6. CASE ReceiverHandles
  BY <1>2, <1>6, ReplierHandles
<1>7. CASE SenderTimeout
  BY <1>2, <1>7, AskerTimesOut
<1>8. CASE ReceiverTimeout
  BY <1>2, <1>8, ReplierTimesOut
<1>9. CASE LineFails \/ HeadersJoin
  BY <1>2, <1>9, LineStuck
<1>10. CASE Escapes
  BY <1>2, <1>10, EscapesStuck
<1>11. CASE NewSession
  BY <1>2, <1>11, SessionStuck
<1>12. QED
  BY <1>3, <1>4, <1>5, <1>6, <1>7, <1>8, <1>9, <1>10, <1>11
     DEF Next, SenderTimesOut, ReceiverTimesOut, TimesOutEarly

\* Where the sender begins with a ZSINIT (zmodem_escape_ctrl), nothing is ever transferred,
\* in any circumstances: receive_zdata() cannot take the subpacket send_zsinit() writes.
THEOREM ZsinitFails == Spec => []StuckAtZsinit
<1>1. Init => (scenario.zsinit => Stuck)
  <2>1. SUFFICES ASSUME Init PROVE Stuck
    OBVIOUS
  <2>2. Fresh \in Status /\ Fresh.prior = "INIT"
    BY FreshFacts DEF Fresh
  <2>3. Asks(snd) /\ Replies(rcv)
    BY <2>1, <2>2, BeginsStuck DEF Init
  <2>4. down = <<>> /\ up = <<>> /\ disk = scenario.disk /\ result = <<>>
        /\ saved = [f \in Files |-> <<>>]
    BY <2>1 DEF Init
  <2>5. down \in Seq(Asked) /\ up \in Seq(Replied)
    BY <2>4
  <2>6. QED
    BY <2>3, <2>4, <2>5 DEF Stuck, Untouched
<1>2. (scenario.zsinit => Stuck) /\ [Next]_vars => (scenario.zsinit => Stuck)'
  BY StuckInductive
<1>3. (scenario.zsinit => Stuck) => StuckAtZsinit
  BY DEF Stuck, Asks, Replies, Untouched, StuckAtZsinit
<1>4. QED
  BY <1>1, <1>2, <1>3, PTL DEF Spec
=============================================================================
