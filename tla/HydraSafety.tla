---------------------------- MODULE HydraSafety ----------------------------
(***************************************************************************)
(* The inductive invariant for the files of Hydra.  The first half is      *)
(* about the files that one program sends to the other, and what each way  *)
(* to change a line or a machine leaves of that; it has no variables.  The *)
(* second half applies it to the steps: every action of either program     *)
(* keeps it for the files of both.                                         *)
(*                                                                         *)
(* There are two assumptions.  OnTime: no timer expires while the answer   *)
(* it waits for is still under way (otherwise a late second answer to a    *)
(* FINFO is taken for the answer to the next one).  FirstReadable: no      *)
(* program begins its batch with a file that it cannot open, which would   *)
(* make it skip the handshake.                                             *)
(***************************************************************************)
EXTENDS HydraTypes

-----------------------------------------------------------------------------
(***************************************************************************)
(* The inductive invariant, for the files that p sends: t and r are its    *)
(* transmitter and the receiver of the other program, D the line there, R  *)
(* the line back, pt and sv the parts and saved files of the receiver, u   *)
(* the state that tells whether the receiver's program still runs.         *)
(***************************************************************************)

\* Packets that the transmitter of a file sends, and those that answer them.
FileTypes == {"FINFO", "DATA", "EOF"}
AnswerTypes == {"FINFOACK", "RPOS", "EOFACK"}

None(s, types) == \A i \in 1 .. Len(s) : s[i].type \notin types

LastOf(s, i, types) == \A j \in 1 .. Len(s) : s[j].type \in types => j <= i

FileId(p, t) == IF t.file <= Len(Batch[p]) THEN t.file ELSE 0

IsPiece(m, file) ==
  /\ m.pos >= 0
  /\ m.pos + Len(m.data) <= Len(file)
  /\ m.data = SubSeq(file, m.pos + 1, m.pos + Len(m.data))

\* A FINFO is the last thing a transmitter has sent, and not yet answered.
Offers(p, t, D, R) ==
  \A i \in 1 .. Len(D) : D[i].type = "FINFO" =>
    /\ t.state \in {"FINFOACK", "DONE"}
    /\ D[i].id = FileId(p, t)
    /\ LastOf(D, i, FileTypes)
    /\ None(R, {"FINFOACK"})

\* The answer to it is the last thing that the receiver has sent.
Answered(p, t, r, D, R, sv) ==
  \A i \in 1 .. Len(R) : R[i].type = "FINFOACK" =>
    /\ t.state = "FINFOACK"
    /\ None(D, {"DATA", "EOF"})
    /\ LastOf(R, i, AnswerTypes)
    /\ t.open = TRUE /\ R[i].pos >= 0 =>
         r.state = "DATA" /\ R[i].pos <= Len(Batch[p][t.file])
    /\ t.open = TRUE /\ R[i].pos < 0 =>
         r.state # "DATA" /\ (R[i].pos = HaveIt => sv[t.file] # <<>>)

\* A receiver that writes a file writes the one being sent, from its pieces.
Copies(p, t, r, D, pt, u) ==
  r.state = "DATA" =>
    /\ t.state \in {"FINFO", "FINFOACK", "DONE"} \cup Sending
    /\ r.file = t.file
    /\ t.file <= Len(Batch[p])
    /\ t.state \in {"FINFO", "FINFOACK"} => r.pos >= 0 /\ None(D, {"DATA", "EOF"})
    /\ u # "DONE" /\ r.pos >= 0 => Len(pt[t.file]) = r.pos
    /\ \A i \in 1 .. Len(D) :
         /\ D[i].type = "DATA" => IsPiece(D[i], Batch[p][t.file])
         /\ D[i].type = "EOF" => D[i].pos < 0 \/ D[i].pos = Len(Batch[p][t.file])

\* While a file is sent it is open or skipped; where the receiver has come to
\* the end of an open file, it has saved it.
Streams(p, t, r, D, R, sv) ==
  t.state \in Sending =>
    /\ r.state \in {"FINFO", "DATA"}
    /\ t.open = TRUE <=> t.pos >= 0
    /\ t.pos <= Len(Batch[p][t.file])
    /\ t.state \in {"EOF", "EOFACK"} =>
         t.pos < 0 \/ t.pos = Len(Batch[p][t.file])
    /\ r.state = "FINFO" /\ t.open = TRUE => sv[t.file] # <<>>
    /\ t.open = TRUE => \A i \in 1 .. Len(D) : D[i].type = "EOF" => D[i].pos >= 0
    /\ \A i \in 1 .. Len(R) :
         /\ R[i].type = "EOFACK" => r.state = "FINFO"
         /\ R[i].type = "RPOS" => R[i].pos <= Len(Batch[p][t.file])

\* The transmitter has heard, or will hear, that the receiver is ready.
Met(t, D, R) ==
  \/ t.state \notin Handshake \cup {"DONE"}
  \/ t.state = "RINIT"
  \/ ~None(R, {"INITACK"})
  \/ ~None(D, {"FINFO"})

\* No file is offered to a receiver that is not ready.
Greets(p, t, r, D, R) ==
  /\ Met(t, D, R) => r.state # "INIT"
  /\ t.state \in Handshake \cup {"FINFO", "FINFOACK"} =>
       (t.open = TRUE <=> t.file <= Len(Batch[p]))

Files(p, t, r, D, R, pt, sv, u) ==
  /\ Offers(p, t, D, R)
  /\ Answered(p, t, r, D, R, sv)
  /\ Copies(p, t, r, D, pt, u)
  /\ Streams(p, t, r, D, R, sv)
  /\ Greets(p, t, r, D, R)

-----------------------------------------------------------------------------
(***************************************************************************)
(* How a line changes: packets go from its head (taken, lost) or from its  *)
(* end (dumped by an abort), and packets of some types are added.          *)
(***************************************************************************)
Follows(new, old, types) ==
  \E n, o \in Nat : \A i \in 1 .. Len(new) :
    \/ i <= n /\ i + o \in 1 .. Len(old) /\ new[i] = old[i + o]
    \/ i > n /\ new[i].type \in types

LEMMA FollowsNone ==
  ASSUME NEW new, NEW old, NEW S, NEW T, S \cap T = {},
         Follows(new, old, S), None(old, T)
  PROVE  None(new, T)
BY DEF Follows, None

LEMMA FollowsOld ==
  ASSUME NEW new, NEW old, NEW S, NEW T, S \cap T = {}, Len(new) \in Nat,
         Follows(new, old, S), NEW i \in 1 .. Len(new), new[i].type \in T,
         NEW U, S \cap U = {}
  PROVE  \E j \in 1 .. Len(old) :
           new[i] = old[j] /\ (LastOf(old, j, U) => LastOf(new, i, U))
<1>1. PICK n \in Nat, o \in Nat : \A k \in 1 .. Len(new) :
        \/ k <= n /\ k + o \in 1 .. Len(old) /\ new[k] = old[k + o]
        \/ k > n /\ new[k].type \in S
  BY DEF Follows
<1>2. i <= n /\ i + o \in 1 .. Len(old) /\ new[i] = old[i + o]
  BY <1>1
<1>3. ASSUME LastOf(old, i + o, U) PROVE LastOf(new, i, U)
  <2>1. SUFFICES ASSUME NEW k \in 1 .. Len(new), new[k].type \in U
                 PROVE  k <= i
    BY DEF LastOf
  <2>2. k + o \in 1 .. Len(old) /\ old[k + o].type \in U
    BY <1>1, <2>1
  <2>3. k + o <= i + o
    BY <1>3, <2>2 DEF LastOf
  <2>4. QED
    BY <2>3
<1>4. QED
  BY <1>2, <1>3

LEMMA FollowsOnly ==
  ASSUME NEW new, NEW old, Len(new) \in Nat, Follows(new, old, {}),
         NEW i \in 1 .. Len(new), NEW U, new[i].type \in U
  PROVE  \E j \in 1 .. Len(old) :
           new[i] = old[j] /\ (LastOf(old, j, U) => LastOf(new, i, U))
<1>1. {} \cap U = {}
  OBVIOUS
<1>2. QED
  BY <1>1, FollowsOld

LEMMA FollowsEmpty ==
  ASSUME NEW old, NEW types
  PROVE  Follows(<<>>, old, types)
BY DEF Follows

LEMMA FollowsSame ==
  ASSUME NEW S, NEW old \in Seq(S), NEW types
  PROVE  Follows(old, old, types)
<1>1. Len(old) \in Nat
  BY LenProperties
<1>2. \A i \in 1 .. Len(old) : i <= Len(old) /\ i + 0 \in 1 .. Len(old) /\ old[i] = old[i + 0]
  BY <1>1
<1>3. QED
  BY <1>1, <1>2 DEF Follows

LEMMA FollowsTail ==
  ASSUME NEW S, NEW old \in Seq(S), old # <<>>, NEW types
  PROVE  Follows(Tail(old), old, types)
<1>1. /\ Len(old) \in Nat
      /\ Len(Tail(old)) = Len(old) - 1
      /\ \A i \in 1 .. Len(Tail(old)) : Tail(old)[i] = old[i + 1]
  BY LenProperties, HeadTailProperties
<1>2. \A i \in 1 .. Len(Tail(old)) :
        i <= Len(old) /\ i + 1 \in 1 .. Len(old) /\ Tail(old)[i] = old[i + 1]
  BY <1>1
<1>3. QED
  BY <1>1, <1>2 DEF Follows

LEMMA FollowsConcat ==
  ASSUME NEW S, NEW old \in Seq(S), NEW s \in Seq(S), NEW types,
         \A i \in 1 .. Len(s) : s[i].type \in types
  PROVE  Follows(old \o s, old, types)
<1>1. /\ Len(old) \in Nat /\ Len(s) \in Nat
      /\ Len(old \o s) = Len(old) + Len(s)
      /\ \A i \in 1 .. (Len(old) + Len(s)) :
           (old \o s)[i] = IF i <= Len(old) THEN old[i] ELSE s[i - Len(old)]
  BY LenProperties, ConcatProperties
<1>2. ASSUME NEW i \in 1 .. Len(old \o s)
      PROVE  \/ i <= Len(old) /\ i + 0 \in 1 .. Len(old) /\ (old \o s)[i] = old[i + 0]
             \/ i > Len(old) /\ (old \o s)[i].type \in types
  <2>1. CASE i <= Len(old)
    BY <1>1, <2>1
  <2>2. CASE i > Len(old)
    <3>1. i - Len(old) \in 1 .. Len(s) /\ (old \o s)[i] = s[i - Len(old)]
      BY <1>1, <2>2
    <3>2. QED
      BY <2>2, <3>1
  <2>3. QED
    BY <1>1, <2>1, <2>2
<1>3. QED
  BY <1>1, <1>2 DEF Follows

LEMMA FollowsCut ==
  ASSUME NEW S, NEW old \in Seq(S), NEW n \in 0 .. Len(old), NEW m \in S,
         NEW types, m.type \in types
  PROVE  Follows(SubSeq(old, 1, n) \o <<m>>, old, types)
<1> DEFINE s == SubSeq(old, 1, n)
           new == s \o <<m>>
<1>1. Len(old) \in Nat /\ n \in Nat /\ \A i \in 1 .. n : old[i] \in S
  BY LenProperties, ElementOfSeq
<1>2. s \in Seq(S) /\ Len(s) = n /\ \A i \in 1 .. n : s[i] = old[i]
  BY <1>1, SubSeqProperties
<1>3. /\ Len(new) = n + 1
      /\ \A i \in 1 .. (n + 1) : new[i] = IF i <= n THEN s[i] ELSE <<m>>[i - n]
  BY <1>1, <1>2, ConcatProperties
<1>4. ASSUME NEW i \in 1 .. Len(new)
      PROVE  \/ i <= n /\ i + 0 \in 1 .. Len(old) /\ new[i] = old[i + 0]
             \/ i > n /\ new[i].type \in types
  <2>1. CASE i <= n
    BY <1>1, <1>2, <1>3, <2>1
  <2>2. CASE i > n
    BY <1>1, <1>3, <2>2
  <2>3. QED
    BY <1>1, <1>3, <2>1, <2>2
<1> HIDE DEF new
<1>5. QED
  BY <1>1, <1>4 DEF Follows, new

-----------------------------------------------------------------------------
(***************************************************************************)
(* Steps that are none of the business of p's files: the transmitter of p  *)
(* at most goes on within one phase, the other receiver stays as it is,    *)
(* and no packet about files is added.                                     *)
(***************************************************************************)
Moves(s, t) ==
  \/ s = t
  \/ {s, t} \subseteq {"START", "SWAIT", "INIT", "INITACK"}
  \/ s = "RINIT" /\ t = "FINFO"
  \/ {s, t} \subseteq {"XDATA", "DATAACK", "XWAIT"}
  \/ {s, t} \subseteq {"REND", "END", "ENDACK"}

Resembles(t, t2) == /\ t2.file = t.file /\ t2.open = t.open /\ t2.pos = t.pos
                    /\ Moves(t.state, t2.state)

SameFile(r, r2) == r2.state = r.state /\ r2.file = r.file /\ r2.pos = r.pos

CalmStep(t, t2, r, r2, D, D2, S, R, R2, T, pt, pt2, u, u2) ==
  /\ Resembles(t, t2) /\ SameFile(r, r2)
  /\ Len(D2) \in Nat /\ S \cap FileTypes = {} /\ Follows(D2, D, S)
  /\ Len(R2) \in Nat /\ T \cap (AnswerTypes \cup {"INITACK"}) = {}
  /\ Follows(R2, R, T)
  /\ u2 # "DONE" => u # "DONE" /\ pt2 = pt

LEMMA CalmFiles ==
  ASSUME NEW p \in Peers, NEW t, NEW t2, NEW r, NEW r2, NEW D, NEW D2, NEW S,
         NEW R, NEW R2, NEW T, NEW pt, NEW pt2, NEW sv, NEW u, NEW u2,
         CalmStep(t, t2, r, r2, D, D2, S, R, R2, T, pt, pt2, u, u2),
         Files(p, t, r, D, R, pt, sv, u)
  PROVE  Files(p, t2, r2, D2, R2, pt2, sv, u2)
<1>a. /\ Resembles(t, t2) /\ SameFile(r, r2)
      /\ Len(D2) \in Nat /\ S \cap FileTypes = {} /\ Follows(D2, D, S)
      /\ Len(R2) \in Nat /\ T \cap (AnswerTypes \cup {"INITACK"}) = {}
      /\ Follows(R2, R, T)
      /\ u2 # "DONE" => u # "DONE" /\ pt2 = pt
  BY DEF CalmStep
<1> DEFINE file == Batch[p][t.file]
<1>1. ASSUME NEW U, U \subseteq FileTypes, None(D, U) PROVE None(D2, U)
  <2>1. S \cap U = {}
    BY <1>a, <1>1
  <2>2. QED
    BY <1>a, <1>1, <2>1, FollowsNone
<1>2. ASSUME NEW U, U \subseteq AnswerTypes \cup {"INITACK"}, None(R, U)
      PROVE  None(R2, U)
  <2>1. T \cap U = {}
    BY <1>a, <1>2
  <2>2. QED
    BY <1>a, <1>2, <2>1, FollowsNone
<1>3. ASSUME NEW i \in 1 .. Len(D2), D2[i].type \in FileTypes
      PROVE  \E j \in 1 .. Len(D) :
               D2[i] = D[j] /\ (LastOf(D, j, FileTypes) => LastOf(D2, i, FileTypes))
  BY <1>a, <1>3, FollowsOld
<1>4. ASSUME NEW i \in 1 .. Len(R2), R2[i].type \in AnswerTypes
      PROVE  \E j \in 1 .. Len(R) :
               R2[i] = R[j] /\ (LastOf(R, j, AnswerTypes) => LastOf(R2, i, AnswerTypes))
  <2>1. T \cap AnswerTypes = {}
    BY <1>a
  <2>2. QED
    BY <1>a, <1>4, <2>1, FollowsOld
<1>5. Offers(p, t2, D2, R2)
  <2>1. SUFFICES ASSUME NEW i \in 1 .. Len(D2), D2[i].type = "FINFO"
                 PROVE  /\ t2.state \in {"FINFOACK", "DONE"}
                        /\ D2[i].id = FileId(p, t2)
                        /\ LastOf(D2, i, FileTypes)
                        /\ None(R2, {"FINFOACK"})
    BY DEF Offers
  <2>2. D2[i].type \in FileTypes
    BY <2>1 DEF FileTypes
  <2>3. PICK j \in 1 .. Len(D) :
          D2[i] = D[j] /\ (LastOf(D, j, FileTypes) => LastOf(D2, i, FileTypes))
    BY <1>3, <2>2
  <2>4. /\ t.state \in {"FINFOACK", "DONE"}
        /\ D[j].id = FileId(p, t)
        /\ LastOf(D, j, FileTypes)
        /\ None(R, {"FINFOACK"})
    BY <2>1, <2>3 DEF Files, Offers
  <2>5. None(R2, {"FINFOACK"})
    BY <1>2, <2>4 DEF AnswerTypes
  <2>6. t2.state = t.state /\ FileId(p, t2) = FileId(p, t)
    BY <1>a, <2>4 DEF Resembles, Moves, FileId
  <2>7. QED
    BY <2>3, <2>4, <2>5, <2>6
<1>6. Answered(p, t2, r2, D2, R2, sv)
  <2>1. SUFFICES ASSUME NEW i \in 1 .. Len(R2), R2[i].type = "FINFOACK"
        PROVE  /\ t2.state = "FINFOACK"
               /\ None(D2, {"DATA", "EOF"})
               /\ LastOf(R2, i, AnswerTypes)
               /\ t2.open = TRUE /\ R2[i].pos >= 0 =>
                    r2.state = "DATA" /\ R2[i].pos <= Len(Batch[p][t2.file])
               /\ t2.open = TRUE /\ R2[i].pos < 0 =>
                    r2.state # "DATA" /\ (R2[i].pos = HaveIt => sv[t2.file] # <<>>)
    BY DEF Answered
  <2>2. R2[i].type \in AnswerTypes
    BY <2>1 DEF AnswerTypes
  <2>3. PICK j \in 1 .. Len(R) :
          R2[i] = R[j] /\ (LastOf(R, j, AnswerTypes) => LastOf(R2, i, AnswerTypes))
    BY <1>4, <2>2
  <2>4. /\ t.state = "FINFOACK"
        /\ None(D, {"DATA", "EOF"})
        /\ LastOf(R, j, AnswerTypes)
        /\ t.open = TRUE /\ R[j].pos >= 0 =>
             r.state = "DATA" /\ R[j].pos <= Len(Batch[p][t.file])
        /\ t.open = TRUE /\ R[j].pos < 0 =>
             r.state # "DATA" /\ (R[j].pos = HaveIt => sv[t.file] # <<>>)
    BY <2>1, <2>3 DEF Files, Answered
  <2>5. None(D2, {"DATA", "EOF"})
    BY <1>1, <2>4 DEF FileTypes
  <2>6. t2.state = t.state /\ t2.file = t.file /\ t2.open = t.open
    BY <1>a, <2>4 DEF Resembles, Moves
  <2>7. QED
    BY <1>a, <2>3, <2>4, <2>5, <2>6 DEF SameFile
<1>7. Copies(p, t2, r2, D2, pt2, u2)
  <2>1. SUFFICES ASSUME r2.state = "DATA" PROVE Copies(p, t2, r2, D2, pt2, u2)
    BY DEF Copies
  <2>2. r.state = "DATA" /\ r2.file = r.file /\ r2.pos = r.pos
    BY <1>a, <2>1 DEF SameFile
  <2>3. /\ t.state \in {"FINFO", "FINFOACK", "DONE"} \cup Sending
        /\ r.file = t.file /\ t.file <= Len(Batch[p])
        /\ t.state \in {"FINFO", "FINFOACK"} =>
             r.pos >= 0 /\ None(D, {"DATA", "EOF"})
        /\ u # "DONE" /\ r.pos >= 0 => Len(pt[t.file]) = r.pos
        /\ \A i \in 1 .. Len(D) :
             /\ D[i].type = "DATA" => IsPiece(D[i], file)
             /\ D[i].type = "EOF" => D[i].pos < 0 \/ D[i].pos = Len(file)
    BY <2>2 DEF Files, Copies
  <2>4. /\ t2.state \in {"FINFO", "FINFOACK", "DONE"} \cup Sending
        /\ t2.state \in {"FINFO", "FINFOACK"} => t2.state = t.state
        /\ t2.file = t.file
    BY <1>a, <2>3 DEF Resembles, Moves, Sending
  <2>5. t2.state \in {"FINFO", "FINFOACK"} =>
          r2.pos >= 0 /\ None(D2, {"DATA", "EOF"})
    BY <1>1, <2>2, <2>3, <2>4 DEF FileTypes
  <2>6. ASSUME NEW i \in 1 .. Len(D2)
        PROVE  /\ D2[i].type = "DATA" => IsPiece(D2[i], file)
               /\ D2[i].type = "EOF" => D2[i].pos < 0 \/ D2[i].pos = Len(file)
    <3>1. CASE D2[i].type \in {"DATA", "EOF"}
      <4>1. D2[i].type \in FileTypes
        BY <3>1 DEF FileTypes
      <4>2. PICK j \in 1 .. Len(D) : D2[i] = D[j]
        BY <1>3, <4>1
      <4>3. QED
        BY <2>3, <4>2
    <3>2. QED
      BY <3>1
  <2>7. u2 # "DONE" /\ r2.pos >= 0 => Len(pt2[t2.file]) = r2.pos
    BY <1>a, <2>2, <2>3, <2>4
  <2>8. QED
    BY <2>2, <2>3, <2>4, <2>5, <2>6, <2>7 DEF Copies
<1>8. Streams(p, t2, r2, D2, R2, sv)
  <2>1. SUFFICES ASSUME t2.state \in Sending PROVE Streams(p, t2, r2, D2, R2, sv)
    BY DEF Streams
  <2>2. /\ t.state \in Sending
        /\ t2.state \in {"EOF", "EOFACK"} => t2.state = t.state
        /\ t2.pos = t.pos /\ t2.open = t.open /\ t2.file = t.file
        /\ r2.state = r.state
    BY <1>a, <2>1 DEF Resembles, SameFile, Moves, Sending
  <2>3. /\ r.state \in {"FINFO", "DATA"}
        /\ t.open = TRUE <=> t.pos >= 0
        /\ t.pos <= Len(file)
        /\ t.state \in {"EOF", "EOFACK"} => t.pos < 0 \/ t.pos = Len(file)
        /\ r.state = "FINFO" /\ t.open = TRUE => sv[t.file] # <<>>
        /\ t.open = TRUE => \A i \in 1 .. Len(D) : D[i].type = "EOF" => D[i].pos >= 0
        /\ \A i \in 1 .. Len(R) :
             /\ R[i].type = "EOFACK" => r.state = "FINFO"
             /\ R[i].type = "RPOS" => R[i].pos <= Len(file)
    BY <2>2 DEF Files, Streams
  <2>4. ASSUME t.open = TRUE, NEW i \in 1 .. Len(D2), D2[i].type = "EOF"
        PROVE  D2[i].pos >= 0
    <3>1. D2[i].type \in FileTypes
      BY <2>4 DEF FileTypes
    <3>2. PICK j \in 1 .. Len(D) : D2[i] = D[j]
      BY <1>3, <3>1
    <3>3. QED
      BY <2>3, <2>4, <3>2
  <2>5. ASSUME NEW i \in 1 .. Len(R2)
        PROVE  /\ R2[i].type = "EOFACK" => r.state = "FINFO"
               /\ R2[i].type = "RPOS" => R2[i].pos <= Len(file)
    <3>1. CASE R2[i].type \in {"EOFACK", "RPOS"}
      <4>1. R2[i].type \in AnswerTypes
        BY <3>1 DEF AnswerTypes
      <4>2. PICK j \in 1 .. Len(R) : R2[i] = R[j]
        BY <1>4, <4>1
      <4>3. QED
        BY <2>3, <4>2
    <3>2. QED
      BY <3>1
  <2>6. QED
    BY <2>1, <2>2, <2>3, <2>4, <2>5 DEF Streams
<1>9. Greets(p, t2, r2, D2, R2)
  <2>1. ~None(R2, {"INITACK"}) => ~None(R, {"INITACK"})
    BY <1>2
  <2>2. ~None(D2, {"FINFO"}) => ~None(D, {"FINFO"})
    BY <1>1 DEF FileTypes
  <2>3. /\ t2.state \notin Handshake \cup {"DONE"} =>
             t.state = "RINIT" \/ t.state \notin Handshake \cup {"DONE"}
        /\ t2.state = "RINIT" => t.state = "RINIT"
        /\ t2.state \in Handshake \cup {"FINFO", "FINFOACK"} =>
             t.state \in Handshake \cup {"FINFO", "FINFOACK"}
    BY <1>a DEF Resembles, Moves, Handshake
  <2>4. r2.state = r.state /\ t2.open = t.open /\ t2.file = t.file
    BY <1>a DEF Resembles, SameFile
  <2>5. Greets(p, t, r, D, R)
    BY DEF Files
  <2>6. Met(t2, D2, R2) => Met(t, D, R)
    BY <2>1, <2>2, <2>3 DEF Met
  <2>7. QED
    BY <2>3, <2>4, <2>5, <2>6 DEF Greets
<1>10. QED
  BY <1>5, <1>6, <1>7, <1>8, <1>9 DEF Files

-----------------------------------------------------------------------------
(***************************************************************************)
(* One packet goes out, or nobody is there any more to receive it.         *)
(***************************************************************************)
Adds(new, old, x) ==
  \/ new = <<>>
  \/ /\ Len(new) = Len(old) + 1
     /\ new[Len(new)] = x
     /\ \A i \in 1 .. Len(old) : new[i] = old[i]

LEMMA AddsOne ==
  ASSUME NEW S, NEW old \in Seq(S), NEW x \in S
  PROVE  Adds(old \o <<x>>, old, x)
<1>1. Len(old) \in Nat /\ <<x>> \in Seq(S) /\ Len(<<x>>) = 1
  BY LenProperties, OneInSeq
<1>2. /\ Len(old \o <<x>>) = Len(old) + 1
      /\ \A i \in 1 .. (Len(old) + 1) :
           (old \o <<x>>)[i] = IF i <= Len(old) THEN old[i] ELSE <<x>>[i - Len(old)]
  BY <1>1, ConcatProperties
<1>3. (old \o <<x>>)[Len(old) + 1] = x
  BY <1>1, <1>2
<1>4. QED
  BY <1>1, <1>2, <1>3 DEF Adds

LEMMA AddsCases ==
  ASSUME NEW new, NEW old, NEW x, Len(old) \in Nat, Adds(new, old, x),
         NEW i \in 1 .. Len(new)
  PROVE  /\ Len(new) = Len(old) + 1
         /\ \/ i \in 1 .. Len(old) /\ new[i] = old[i]
            \/ i = Len(new) /\ new[i] = x
<1>1. new # <<>>
  OBVIOUS
<1>2. QED
  BY <1>1 DEF Adds

LEMMA AddsLen ==
  ASSUME NEW new, NEW old, NEW x, Len(old) \in Nat, Adds(new, old, x)
  PROVE  Len(new) \in Nat
<1>1. CASE new = <<>>
  BY <1>1
<1>2. CASE Len(new) = Len(old) + 1
  BY <1>2
<1>3. QED
  BY <1>1, <1>2 DEF Adds

LEMMA AddsNone ==
  ASSUME NEW new, NEW old, NEW x, Len(old) \in Nat, Adds(new, old, x),
         NEW types, x.type \notin types, None(old, types)
  PROVE  None(new, types)
<1>1. SUFFICES ASSUME NEW i \in 1 .. Len(new) PROVE new[i].type \notin types
  BY DEF None
<1>2. \/ i \in 1 .. Len(old) /\ new[i] = old[i]
      \/ i = Len(new) /\ new[i] = x
  BY <1>1, AddsCases
<1>3. QED
  BY <1>2 DEF None

\* What is of none of the types is not what has been added.
LEMMA AddsNew ==
  ASSUME NEW new, NEW old, NEW x, Len(old) \in Nat, Adds(new, old, x),
         NEW types, None(old, types), NEW i \in 1 .. Len(new),
         new[i].type \in types
  PROVE  i = Len(new) /\ new[i] = x
<1>1. \/ i \in 1 .. Len(old) /\ new[i] = old[i]
      \/ i = Len(new) /\ new[i] = x
  BY AddsCases
<1>2. QED
  BY <1>1 DEF None

-----------------------------------------------------------------------------
(***************************************************************************)
(* Between two files nothing about the last one is of interest any more.   *)
(***************************************************************************)
LEMMA BetweenFiles ==
  ASSUME NEW p \in Peers, NEW t, NEW r, NEW D, NEW R, NEW pt, NEW sv, NEW u,
         t.state \notin Sending, None(D, {"FINFO"}), None(R, {"FINFOACK"}),
         r.state # "DATA", Greets(p, t, r, D, R)
  PROVE  Files(p, t, r, D, R, pt, sv, u)
<1>1. Offers(p, t, D, R)
  BY DEF Offers, None
<1>2. Answered(p, t, r, D, R, sv)
  BY DEF Answered, None
<1>3. Copies(p, t, r, D, pt, u) /\ Streams(p, t, r, D, R, sv)
  BY DEF Copies, Streams
<1>4. QED
  BY <1>1, <1>2, <1>3 DEF Files

\* While no FINFO is unanswered, none is on either line.
LEMMA NotAsked ==
  ASSUME NEW p \in Peers, NEW t, NEW r, NEW D, NEW R, NEW pt, NEW sv, NEW u,
         Files(p, t, r, D, R, pt, sv, u), t.state \notin {"FINFOACK", "DONE"}
  PROVE  None(D, {"FINFO"}) /\ None(R, {"FINFOACK"})
BY DEF Files, Offers, Answered, None

-----------------------------------------------------------------------------
(***************************************************************************)
(* The transmitter.                                                        *)
(***************************************************************************)
LEMMA FinfoSent ==
  ASSUME NEW p \in Peers, NEW t, NEW t2, t.state = "FINFO",
         t2.state = "FINFOACK", t2.file = t.file, t2.open = t.open,
         NEW D, NEW D2, Len(D) \in Nat, NEW x, x.type = "FINFO",
         x.id = FileId(p, t), Adds(D2, D, x),
         NEW r, NEW R, NEW pt, NEW sv, NEW u, Files(p, t, r, D, R, pt, sv, u)
  PROVE  Files(p, t2, r, D2, R, pt, sv, u)
<1>1. None(D, {"FINFO"}) /\ None(R, {"FINFOACK"})
  BY NotAsked
<1>2. Offers(p, t2, D2, R)
  <2>1. SUFFICES ASSUME NEW i \in 1 .. Len(D2), D2[i].type = "FINFO"
                 PROVE  /\ D2[i].id = FileId(p, t2)
                        /\ LastOf(D2, i, FileTypes)
    BY <1>1 DEF Offers
  <2>2. i = Len(D2) /\ D2[i] = x
    BY <1>1, <2>1, AddsNew
  <2>3. Len(D2) \in Nat
    BY AddsLen
  <2>4. QED
    BY <2>2, <2>3 DEF LastOf, FileId
<1>3. Answered(p, t2, r, D2, R, sv)
  BY <1>1 DEF Answered, None
<1>4. Copies(p, t2, r, D2, pt, u)
  <2>1. SUFFICES ASSUME r.state = "DATA" PROVE Copies(p, t2, r, D2, pt, u)
    BY DEF Copies
  <2>2. /\ r.file = t.file /\ t.file <= Len(Batch[p])
        /\ r.pos >= 0 /\ None(D, {"DATA", "EOF"})
        /\ u # "DONE" /\ r.pos >= 0 => Len(pt[t.file]) = r.pos
    BY <2>1 DEF Files, Copies
  <2>3. None(D2, {"DATA", "EOF"})
    BY <2>2, AddsNone
  <2>4. QED
    BY <2>2, <2>3 DEF Copies, None
<1>5. Streams(p, t2, r, D2, R, sv)
  BY DEF Streams, Sending
<1>6. Greets(p, t2, r, D2, R)
  <2>1. Met(t, D, R)
    BY DEF Met, Handshake
  <2>2. QED
    BY <2>1 DEF Files, Greets
<1>7. QED
  BY <1>2, <1>3, <1>4, <1>5, <1>6 DEF Files

\* The FINFO, its answer, or both have been lost, and nothing is on the lines.
LEMMA FinfoAgain ==
  ASSUME NEW p \in Peers, NEW t, NEW t2, t.state = "FINFOACK",
         t2.state = "FINFO", t2.file = t.file, t2.open = t.open,
         NEW r, NEW pt, NEW sv, NEW u, Files(p, t, r, <<>>, <<>>, pt, sv, u)
  PROVE  Files(p, t2, r, <<>>, <<>>, pt, sv, u)
<1>1. Offers(p, t2, <<>>, <<>>) /\ Answered(p, t2, r, <<>>, <<>>, sv)
  BY DEF Offers, Answered
<1>2. Copies(p, t2, r, <<>>, pt, u)
  BY DEF Files, Copies
<1>3. Streams(p, t2, r, <<>>, <<>>, sv)
  BY DEF Streams, Sending
<1>4. Greets(p, t2, r, <<>>, <<>>)
  <2>1. Met(t, <<>>, <<>>)
    BY DEF Met, Handshake
  <2>2. QED
    BY <2>1 DEF Files, Greets
<1>5. QED
  BY <1>1, <1>2, <1>3, <1>4 DEF Files

\* DATA and EOF packets that the transmitter of t may send.
Fits(p, t, x) ==
  \/ x.type = "DATA" /\ IsPiece(x, Batch[p][t.file])
  \/ /\ x.type = "EOF"
     /\ x.pos < 0 \/ x.pos = Len(Batch[p][t.file])
     /\ t.open = TRUE => x.pos >= 0

SendingStep(p, t, t2, D, D2, x, R, R2) ==
  /\ t.state \in Sending /\ t2.state \in Sending
  /\ t2.file = t.file
  /\ t2.open = TRUE <=> t2.pos >= 0
  /\ t2.open = TRUE => t.open = TRUE
  /\ t2.pos <= Len(Batch[p][t.file])
  /\ t2.state \in {"EOF", "EOFACK"} =>
       t2.pos < 0 \/ t2.pos = Len(Batch[p][t.file])
  /\ Len(D) \in Nat /\ Len(D2) \in Nat
  /\ Follows(D2, D, {}) \/ (Fits(p, t2, x) /\ Adds(D2, D, x))
  /\ Len(R2) \in Nat /\ Follows(R2, R, {})

LEMMA SendingFiles ==
  ASSUME NEW p \in Peers, NEW t, NEW t2, NEW D, NEW D2, NEW x, NEW R, NEW R2,
         NEW r, NEW pt, NEW sv, NEW u, Files(p, t, r, D, R, pt, sv, u),
         SendingStep(p, t, t2, D, D2, x, R, R2)
  PROVE  Files(p, t2, r, D2, R2, pt, sv, u)
<1> USE DEF SendingStep
<1> DEFINE file == Batch[p][t.file]
<1>1. None(D, {"FINFO"}) /\ None(R, {"FINFOACK"})
  BY NotAsked DEF Sending
<1>2. ASSUME NEW i \in 1 .. Len(D2), D2[i].type \in FileTypes
      PROVE  (\E j \in 1 .. Len(D) : D2[i] = D[j]) \/ (Fits(p, t2, x) /\ D2[i] = x)
  <2>1. CASE Follows(D2, D, {})
    BY <2>1 DEF Follows
  <2>2. CASE Fits(p, t2, x) /\ Adds(D2, D, x)
    BY <2>2, AddsCases
  <2>3. QED
    BY <2>1, <2>2
<1>3. ASSUME NEW i \in 1 .. Len(R2)
      PROVE  \E j \in 1 .. Len(R) : R2[i] = R[j]
  BY <1>3 DEF Follows
<1>4. None(D2, {"FINFO"}) /\ None(R2, {"FINFOACK"})
  <2>1. None(D2, {"FINFO"})
    <3>1. SUFFICES ASSUME NEW i \in 1 .. Len(D2), D2[i].type = "FINFO" PROVE FALSE
      BY DEF None
    <3>2. D2[i].type \in FileTypes
      BY <3>1 DEF FileTypes
    <3>3. QED
      BY <1>1, <1>2, <3>1, <3>2 DEF None, Fits
  <2>2. None(R2, {"FINFOACK"})
    BY <1>1, <1>3 DEF None
  <2>3. QED
    BY <2>1, <2>2
<1>5. Offers(p, t2, D2, R2) /\ Answered(p, t2, r, D2, R2, sv)
  BY <1>4 DEF Offers, Answered, None
<1>6. Copies(p, t2, r, D2, pt, u)
  <2>1. SUFFICES ASSUME r.state = "DATA" PROVE Copies(p, t2, r, D2, pt, u)
    BY DEF Copies
  <2>2. /\ r.file = t.file /\ t.file <= Len(Batch[p])
        /\ u # "DONE" /\ r.pos >= 0 => Len(pt[t.file]) = r.pos
        /\ \A i \in 1 .. Len(D) :
             /\ D[i].type = "DATA" => IsPiece(D[i], file)
             /\ D[i].type = "EOF" => D[i].pos < 0 \/ D[i].pos = Len(file)
    BY <2>1 DEF Files, Copies
  <2>3. ASSUME NEW i \in 1 .. Len(D2)
        PROVE  /\ D2[i].type = "DATA" => IsPiece(D2[i], file)
               /\ D2[i].type = "EOF" => D2[i].pos < 0 \/ D2[i].pos = Len(file)
    <3>1. CASE D2[i].type \in {"DATA", "EOF"}
      <4>1. D2[i].type \in FileTypes
        BY <3>1 DEF FileTypes
      <4>2. QED
        BY <1>2, <2>2, <3>1, <4>1 DEF Fits
    <3>2. QED
      BY <3>1
  <2>4. t2.state \notin {"FINFO", "FINFOACK"}
    BY DEF Sending
  <2>5. QED
    BY <2>2, <2>3, <2>4 DEF Copies
<1>7. Streams(p, t2, r, D2, R2, sv)
  <2>1. /\ r.state \in {"FINFO", "DATA"}
        /\ r.state = "FINFO" /\ t.open = TRUE => sv[t.file] # <<>>
        /\ t.open = TRUE => \A i \in 1 .. Len(D) : D[i].type = "EOF" => D[i].pos >= 0
        /\ \A i \in 1 .. Len(R) :
             /\ R[i].type = "EOFACK" => r.state = "FINFO"
             /\ R[i].type = "RPOS" => R[i].pos <= Len(file)
    BY DEF Files, Streams
  <2>2. ASSUME t2.open = TRUE, NEW i \in 1 .. Len(D2), D2[i].type = "EOF"
        PROVE  D2[i].pos >= 0
    <3>1. D2[i].type \in FileTypes
      BY <2>2 DEF FileTypes
    <3>2. QED
      BY <1>2, <2>1, <2>2, <3>1 DEF Fits
  <2>3. \A i \in 1 .. Len(R2) :
             /\ R2[i].type = "EOFACK" => r.state = "FINFO"
             /\ R2[i].type = "RPOS" => R2[i].pos <= Len(file)
    BY <1>3, <2>1
  <2>4. QED
    BY <2>1, <2>2, <2>3 DEF Streams
<1>8. Greets(p, t2, r, D2, R2)
  <2>1. Met(t, D, R) /\ t2.state \notin Handshake \cup {"FINFO", "FINFOACK"}
    BY DEF Met, Handshake, Sending
  <2>2. QED
    BY <2>1 DEF Files, Greets
<1>9. QED
  BY <1>5, <1>6, <1>7, <1>8 DEF Files

\* The transmitter's program ends, whatever it has just sent.
LEMMA EndedFiles ==
  ASSUME NEW p \in Peers, NEW t, NEW t2, t2.state = "DONE", t2.file = t.file,
         NEW D, NEW D2, Len(D2) \in Nat, NEW S, S \cap FileTypes = {},
         Follows(D2, D, S),
         NEW R, NEW r, NEW pt, NEW sv, NEW u, Files(p, t, r, D, R, pt, sv, u)
  PROVE  Files(p, t2, r, D2, <<>>, pt, sv, u)
<1> DEFINE file == Batch[p][t.file]
<1>1. ASSUME NEW i \in 1 .. Len(D2), D2[i].type \in FileTypes
      PROVE  \E j \in 1 .. Len(D) :
               D2[i] = D[j] /\ (LastOf(D, j, FileTypes) => LastOf(D2, i, FileTypes))
  BY <1>1, FollowsOld
<1>2. Offers(p, t2, D2, <<>>)
  <2>1. SUFFICES ASSUME NEW i \in 1 .. Len(D2), D2[i].type = "FINFO"
                 PROVE  /\ D2[i].id = FileId(p, t2)
                        /\ LastOf(D2, i, FileTypes)
    BY DEF Offers, None
  <2>2. PICK j \in 1 .. Len(D) :
          D2[i] = D[j] /\ (LastOf(D, j, FileTypes) => LastOf(D2, i, FileTypes))
    BY <1>1, <2>1 DEF FileTypes
  <2>3. D[j].id = FileId(p, t) /\ LastOf(D, j, FileTypes)
    BY <2>1, <2>2 DEF Files, Offers
  <2>4. QED
    BY <2>2, <2>3 DEF FileId
<1>3. Answered(p, t2, r, D2, <<>>, sv) /\ Streams(p, t2, r, D2, <<>>, sv)
  BY DEF Answered, Streams, Sending
<1>4. Copies(p, t2, r, D2, pt, u)
  <2>1. SUFFICES ASSUME r.state = "DATA" PROVE Copies(p, t2, r, D2, pt, u)
    BY DEF Copies
  <2>2. /\ r.file = t.file /\ t.file <= Len(Batch[p])
        /\ u # "DONE" /\ r.pos >= 0 => Len(pt[t.file]) = r.pos
        /\ \A i \in 1 .. Len(D) :
             /\ D[i].type = "DATA" => IsPiece(D[i], file)
             /\ D[i].type = "EOF" => D[i].pos < 0 \/ D[i].pos = Len(file)
    BY <2>1 DEF Files, Copies
  <2>3. ASSUME NEW i \in 1 .. Len(D2)
        PROVE  /\ D2[i].type = "DATA" => IsPiece(D2[i], file)
               /\ D2[i].type = "EOF" => D2[i].pos < 0 \/ D2[i].pos = Len(file)
    <3>1. CASE D2[i].type \in {"DATA", "EOF"}
      <4>1. D2[i].type \in FileTypes
        BY <3>1 DEF FileTypes
      <4>2. QED
        BY <1>1, <2>2, <4>1
    <3>2. QED
      BY <3>1
  <2>4. QED
    BY <2>2, <2>3 DEF Copies
<1>5. Greets(p, t2, r, D2, <<>>)
  <2>1. None(D, {"FINFO"}) => None(D2, {"FINFO"})
    <3>1. S \cap {"FINFO"} = {}
      BY DEF FileTypes
    <3>2. QED
      BY <3>1, FollowsNone
  <2>2. Met(t2, D2, <<>>) => Met(t, D, R)
    BY <2>1 DEF Met, Handshake, None
  <2>3. QED
    BY <2>2 DEF Files, Greets, Handshake
<1>6. QED
  BY <1>2, <1>3, <1>4, <1>5 DEF Files

-----------------------------------------------------------------------------
(***************************************************************************)
(* Answers to the transmitter.                                             *)
(***************************************************************************)
LEMMA NextFile ==
  ASSUME NEW p \in Peers, NEW t, NEW r, NEW D, NEW R, NEW pt, NEW sv, NEW u,
         None(D, {"FINFO"}), None(R, {"FINFOACK"}), t.state \notin Sending,
         r.state \notin {"DATA", "INIT"},
         t.state \in Handshake \cup {"FINFO", "FINFOACK"} =>
           (t.open = TRUE <=> t.file <= Len(Batch[p]))
  PROVE  Files(p, t, r, D, R, pt, sv, u)
<1>1. Greets(p, t, r, D, R)
  BY DEF Greets
<1>2. QED
  BY <1>1, BetweenFiles

\* What is known when a FINFOACK is the next packet on the line R.
Agreed(p, t, r, D, R, sv) ==
  /\ t.state = "FINFOACK"
  /\ None(D, {"FINFO"}) /\ None(D, {"DATA", "EOF"})
  /\ None(Tail(R), AnswerTypes)
  /\ t.open = TRUE /\ Head(R).pos >= 0 =>
       r.state = "DATA" /\ Head(R).pos <= Len(Batch[p][t.file])
  /\ t.open = TRUE /\ Head(R).pos < 0 =>
       r.state # "DATA" /\ (Head(R).pos = HaveIt => sv[t.file] # <<>>)
  /\ r.state # "INIT"
  /\ t.open = TRUE <=> t.file <= Len(Batch[p])

LEMMA FinfoackFacts ==
  ASSUME NEW p \in Peers, NEW S, NEW R \in Seq(S), R # <<>>,
         Head(R).type = "FINFOACK",
         NEW t, NEW r, NEW D, NEW pt, NEW sv, NEW u,
         Files(p, t, r, D, R, pt, sv, u)
  PROVE  Agreed(p, t, r, D, R, sv)
<1>1. /\ Len(R) \in Nat /\ 1 \in 1 .. Len(R) /\ R[1] = Head(R)
      /\ Len(Tail(R)) = Len(R) - 1
      /\ \A i \in 1 .. Len(Tail(R)) : i + 1 \in 1 .. Len(R) /\ Tail(R)[i] = R[i + 1]
  BY LenProperties, HeadTailProperties
<1>2. /\ t.state = "FINFOACK"
      /\ None(D, {"DATA", "EOF"})
      /\ LastOf(R, 1, AnswerTypes)
      /\ t.open = TRUE /\ R[1].pos >= 0 =>
           r.state = "DATA" /\ R[1].pos <= Len(Batch[p][t.file])
      /\ t.open = TRUE /\ R[1].pos < 0 =>
           r.state # "DATA" /\ (R[1].pos = HaveIt => sv[t.file] # <<>>)
  BY <1>1 DEF Files, Answered
<1>3. None(D, {"FINFO"})
  BY <1>1 DEF Files, Offers, None
<1>4. None(Tail(R), AnswerTypes)
  BY <1>1, <1>2 DEF LastOf, None
<1>5. r.state # "INIT" /\ (t.open = TRUE <=> t.file <= Len(Batch[p]))
  <2>1. Met(t, D, R)
    BY <1>2 DEF Met, Handshake
  <2>2. QED
    BY <1>2, <2>1 DEF Files, Greets
<1>6. QED
  BY <1>1, <1>2, <1>3, <1>4, <1>5 DEF Agreed

\* The receiver wants the file from some position on.
LEMMA StartedFiles ==
  ASSUME NEW p \in Peers, NEW t, NEW t2, t2.state = "XDATA", t2.file = t.file,
         t2.open = TRUE, t2.pos >= 0, t2.pos <= Len(Batch[p][t.file]),
         t.state = "FINFOACK",
         NEW r, r.state = "DATA",
         NEW D, None(D, {"FINFO"}), None(D, {"DATA", "EOF"}),
         NEW R, NEW R2, None(R2, AnswerTypes),
         NEW pt, NEW sv, NEW u, Files(p, t, r, D, R, pt, sv, u)
  PROVE  Files(p, t2, r, D, R2, pt, sv, u)
<1>1. Offers(p, t2, D, R2) /\ Answered(p, t2, r, D, R2, sv)
  BY DEF Offers, Answered, None, AnswerTypes
<1>2. Copies(p, t2, r, D, pt, u)
  <2>1. /\ r.file = t.file /\ t.file <= Len(Batch[p])
        /\ u # "DONE" /\ r.pos >= 0 => Len(pt[t.file]) = r.pos
    BY DEF Files, Copies
  <2>2. QED
    BY <2>1 DEF Copies, Sending, None
<1>3. Streams(p, t2, r, D, R2, sv)
  BY DEF Streams, None, AnswerTypes
<1>4. Greets(p, t2, r, D, R2)
  BY DEF Greets, Handshake
<1>5. QED
  BY <1>1, <1>2, <1>3, <1>4 DEF Files

-----------------------------------------------------------------------------
(***************************************************************************)
(* The receiver.                                                           *)
(***************************************************************************)

\* It has received an INIT, perhaps once more, and acknowledges it.
LEMMA ReadyFiles ==
  ASSUME NEW p \in Peers, NEW r, NEW r2, r2.file = r.file, r2.pos = r.pos,
         r2.state = IF r.state = "INIT" THEN "FINFO" ELSE r.state,
         NEW D, NEW D2, Len(D2) \in Nat, Follows(D2, D, {}),
         NEW R, NEW R2, Len(R2) \in Nat, Follows(R2, R, {"INITACK"}),
         NEW t, NEW pt, NEW sv, NEW u, Files(p, t, r, D, R, pt, sv, u)
  PROVE  Files(p, t, r2, D2, R2, pt, sv, u)
<1>1. CASE r.state # "INIT"
  <2>1. /\ Offers(p, t, D, R) /\ Answered(p, t, r, D, R, sv)
        /\ Copies(p, t, r, D, pt, u) /\ Streams(p, t, r, D, R, sv)
    BY DEF Files
  <2>2. /\ Greets(p, t, r, D, R2)
    BY <1>1 DEF Files, Greets
  <2>3. Follows(R2, R, {"INITACK"}) /\ {"INITACK"} \cap AnswerTypes = {}
    BY DEF AnswerTypes
  <2>4. ASSUME NEW i \in 1 .. Len(R2), R2[i].type \in AnswerTypes
        PROVE  \E j \in 1 .. Len(R) :
                 R2[i] = R[j] /\ (LastOf(R, j, AnswerTypes) => LastOf(R2, i, AnswerTypes))
    BY <2>3, <2>4, FollowsOld
  <2>5. None(R, {"FINFOACK"}) => None(R2, {"FINFOACK"})
    <3>1. {"INITACK"} \cap {"FINFOACK"} = {}
      OBVIOUS
    <3>2. QED
      BY <3>1, FollowsNone
  <2>6. Offers(p, t, D, R2)
    BY <2>1, <2>5 DEF Offers
  <2>7. Answered(p, t, r, D, R2, sv)
    <3>1. SUFFICES ASSUME NEW i \in 1 .. Len(R2), R2[i].type = "FINFOACK"
          PROVE  /\ t.state = "FINFOACK"
                 /\ None(D, {"DATA", "EOF"})
                 /\ LastOf(R2, i, AnswerTypes)
                 /\ t.open = TRUE /\ R2[i].pos >= 0 =>
                      r.state = "DATA" /\ R2[i].pos <= Len(Batch[p][t.file])
                 /\ t.open = TRUE /\ R2[i].pos < 0 =>
                      r.state # "DATA" /\ (R2[i].pos = HaveIt => sv[t.file] # <<>>)
      BY DEF Answered
    <3>2. PICK j \in 1 .. Len(R) :
            R2[i] = R[j] /\ (LastOf(R, j, AnswerTypes) => LastOf(R2, i, AnswerTypes))
      BY <2>4, <3>1 DEF AnswerTypes
    <3>3. QED
      BY <2>1, <3>1, <3>2 DEF Answered
  <2>8. Streams(p, t, r, D, R2, sv)
    <3>1. SUFFICES ASSUME t.state \in Sending PROVE Streams(p, t, r, D, R2, sv)
      BY DEF Streams
    <3>2. ASSUME NEW i \in 1 .. Len(R2)
          PROVE  /\ R2[i].type = "EOFACK" => r.state = "FINFO"
                 /\ R2[i].type = "RPOS" => R2[i].pos <= Len(Batch[p][t.file])
      <4>1. CASE R2[i].type \in {"EOFACK", "RPOS"}
        <5>1. PICK j \in 1 .. Len(R) : R2[i] = R[j]
          BY <2>4, <4>1 DEF AnswerTypes
        <5>2. QED
          BY <2>1, <3>1, <5>1 DEF Streams
      <4>2. QED
        BY <4>1
    <3>3. QED
      BY <2>1, <3>2 DEF Streams
  <2>9. Files(p, t, r, D, R2, pt, sv, u)
    BY <2>1, <2>2, <2>6, <2>7, <2>8 DEF Files
  <2>10. Resembles(t, t) /\ SameFile(r, r2) /\ Follows(R2, R2, {})
    <3>1. \A i \in 1 .. Len(R2) :
            i <= Len(R2) /\ i + 0 \in 1 .. Len(R2) /\ R2[i] = R2[i + 0]
      OBVIOUS
    <3>2. Follows(R2, R2, {})
      BY <3>1 DEF Follows
    <3>3. QED
      BY <1>1, <3>2 DEF Resembles, Moves, SameFile
  <2>11. CalmStep(t, t, r, r2, D, D2, {}, R2, R2, {}, pt, pt, u, u)
    BY <2>10 DEF CalmStep
  <2>12. QED
    BY <2>9, <2>11, CalmFiles
<1>2. CASE r.state = "INIT"
  <2>1. ~Met(t, D, R)
    BY <1>2 DEF Files, Greets
  <2>2. t.state \in Handshake \cup {"DONE"} /\ None(D, {"FINFO"})
    BY <2>1 DEF Met
  <2>3. None(D2, {"FINFO"})
    <3>1. {} \cap {"FINFO"} = {}
      OBVIOUS
    <3>2. QED
      BY <2>2, <3>1, FollowsNone
  <2>4. None(R, {"FINFOACK"}) /\ {"INITACK"} \cap {"FINFOACK"} = {}
    BY <2>2 DEF Files, Answered, None, Handshake
  <2>5. None(R2, {"FINFOACK"})
    BY <2>4, FollowsNone
  <2>6. t.state \notin Sending /\ r2.state \notin {"DATA", "INIT"}
    BY <1>2, <2>2 DEF Handshake, Sending
  <2>7. t.state \in Handshake \cup {"FINFO", "FINFOACK"} =>
           (t.open = TRUE <=> t.file <= Len(Batch[p]))
    BY DEF Files, Greets
  <2>8. QED
    BY <2>3, <2>5, <2>6, <2>7, NextFile
<1>3. QED
  BY <1>1, <1>2

\* It answers a FINFO, with the position it has in the file from now on.
FinfoStep(p, t, D, r2, R, R2, x, pt, sv, u2) ==
  /\ t.file \in Nat \ {0} /\ Len(Batch[p]) \in Nat
  /\ D # <<>> /\ Head(D).type = "FINFO"
  /\ r2.state # "INIT" /\ r2.pos \in Int
  /\ r2.state = "DATA" =>
       /\ r2.file = t.file /\ t.file <= Len(Batch[p])
       /\ t.state # "DONE" => r2.pos >= 0
       /\ r2.pos <= Len(Batch[p][t.file])
       /\ u2 # "DONE" /\ r2.pos >= 0 => Len(pt[t.file]) = r2.pos
  /\ Head(D).id # 0 /\ r2.state # "DATA" =>
       r2.pos < 0 /\ (r2.pos = HaveIt => sv[Head(D).id] # <<>>)
  /\ Len(R) \in Nat /\ Adds(R2, R, x) /\ (R2 # <<>> => t.state # "DONE")
  /\ x.type = "FINFOACK" /\ x.pos = r2.pos

LEMMA FinfoFiles ==
  ASSUME NEW p \in Peers, NEW t, NEW S, NEW D \in Seq(S), NEW r, NEW r2, NEW R,
         NEW R2, NEW x, NEW pt, NEW sv, NEW u, NEW u2,
         Files(p, t, r, D, R, pt, sv, u),
         FinfoStep(p, t, D, r2, R, R2, x, pt, sv, u2)
  PROVE  Files(p, t, r2, Tail(D), R2, pt, sv, u2)
<1> USE DEF FinfoStep
<1> DEFINE D2 == Tail(D)
<1>1. /\ Len(D) \in Nat /\ 1 \in 1 .. Len(D) /\ D[1] = Head(D)
      /\ Len(D2) = Len(D) - 1
      /\ \A i \in 1 .. Len(D2) : i + 1 \in 1 .. Len(D) /\ D2[i] = D[i + 1]
  BY LenProperties, HeadTailProperties
<1>2. /\ t.state \in {"FINFOACK", "DONE"}
      /\ Head(D).id = FileId(p, t)
      /\ LastOf(D, 1, FileTypes)
      /\ None(R, {"FINFOACK"})
  BY <1>1 DEF Files, Offers
<1>3. None(D2, FileTypes)
  BY <1>1, <1>2 DEF LastOf, None
<1> HIDE DEF D2
<1>4. /\ \A i \in 1 .. Len(D2) : D2[i].type \notin FileTypes
      /\ None(D2, {"DATA", "EOF"}) /\ None(D2, {"FINFO"})
  BY <1>3 DEF None, FileTypes
<1>5. Offers(p, t, D2, R2)
  BY <1>4 DEF Offers, FileTypes
<1>6. Answered(p, t, r2, D2, R2, sv)
  <2>1. SUFFICES ASSUME NEW i \in 1 .. Len(R2), R2[i].type = "FINFOACK"
        PROVE  /\ t.state = "FINFOACK"
               /\ LastOf(R2, i, AnswerTypes)
               /\ t.open = TRUE /\ R2[i].pos >= 0 =>
                    r2.state = "DATA" /\ R2[i].pos <= Len(Batch[p][t.file])
               /\ t.open = TRUE /\ R2[i].pos < 0 =>
                    r2.state # "DATA" /\ (R2[i].pos = HaveIt => sv[t.file] # <<>>)
    BY <1>4 DEF Answered
  <2>2. i = Len(R2) /\ R2[i] = x
    BY <1>2, <2>1, AddsNew
  <2>3. Len(R2) \in Nat
    BY AddsLen
  <2>4. t.state = "FINFOACK"
    BY <1>2, <2>1
  <2>5. LastOf(R2, i, AnswerTypes)
    BY <2>2, <2>3 DEF LastOf
  <2>6. ASSUME t.open = TRUE
        PROVE  /\ r2.pos >= 0 => r2.state = "DATA" /\ r2.pos <= Len(Batch[p][t.file])
               /\ r2.pos < 0 => r2.state # "DATA" /\ (r2.pos = HaveIt => sv[t.file] # <<>>)
    <3>1. t.file <= Len(Batch[p])
      BY <2>4, <2>6 DEF Files, Greets
    <3>2. Head(D).id = t.file /\ t.file # 0
      BY <1>2, <3>1 DEF FileId
    <3>3. CASE r2.state = "DATA"
      BY <2>4, <3>3
    <3>4. CASE r2.state # "DATA"
      <4>1. r2.pos < 0 /\ (r2.pos = HaveIt => sv[t.file] # <<>>)
        BY <3>2, <3>4
      <4>2. QED
        BY <3>4, <4>1
    <3>5. QED
      BY <3>3, <3>4
  <2>7. QED
    BY <2>2, <2>4, <2>5, <2>6
<1>7. Copies(p, t, r2, D2, pt, u2)
  <2>1. SUFFICES ASSUME r2.state = "DATA" PROVE Copies(p, t, r2, D2, pt, u2)
    BY DEF Copies
  <2>2. \A i \in 1 .. Len(D2) : D2[i].type # "DATA" /\ D2[i].type # "EOF"
    BY <1>4 DEF None
  <2>3. t.state \in {"FINFO", "FINFOACK"} => r2.pos >= 0 /\ None(D2, {"DATA", "EOF"})
    BY <1>4, <2>1
  <2>4. QED
    BY <1>2, <2>1, <2>2, <2>3 DEF Copies
<1>8. Streams(p, t, r2, D2, R2, sv)
  BY <1>2 DEF Streams, Sending
<1>9. Greets(p, t, r2, D2, R2)
  BY DEF Files, Greets
<1>10. QED
  BY <1>5, <1>6, <1>7, <1>8, <1>9 DEF Files, D2

\* It has come upon DATA or EOF while it writes: what it asks for is in the
\* file, and what it has is as long as it says.
WriteStep(p, t, D, D2, r, r2, R, R2, x, pt2, u2) ==
  /\ Len(D) \in Nat /\ Len(D) >= 1 /\ D[1].type \in {"DATA", "EOF"}
  /\ Len(D2) \in Nat /\ Follows(D2, D, {})
  /\ r.state = "DATA" /\ r2.state = "DATA" /\ r2.file = r.file
  /\ u2 # "DONE" /\ r2.pos >= 0 => Len(pt2[t.file]) = r2.pos
  /\ Len(R) \in Nat /\ Adds(R2, R, x)
  /\ \/ x.type = "DATAACK"
     \/ x.type = "RPOS" /\ x.pos <= Len(Batch[p][t.file])

LEMMA WriteFiles ==
  ASSUME NEW p \in Peers, NEW t, NEW D, NEW D2, NEW r, NEW r2, NEW R, NEW R2,
         NEW x, NEW pt, NEW pt2, NEW sv, NEW u, NEW u2,
         Files(p, t, r, D, R, pt, sv, u),
         WriteStep(p, t, D, D2, r, r2, R, R2, x, pt2, u2)
  PROVE  Files(p, t, r2, D2, R2, pt2, sv, u2)
<1> USE DEF WriteStep
<1> DEFINE file == Batch[p][t.file]
<1>1. ASSUME NEW i \in 1 .. Len(D2) PROVE \E j \in 1 .. Len(D) : D2[i] = D[j]
  BY <1>1 DEF Follows
<1>2. ~None(D, {"DATA", "EOF"})
  BY DEF None
<1>3. /\ t.state \in {"DONE"} \cup Sending
      /\ r.file = t.file
      /\ t.file <= Len(Batch[p])
      /\ \A i \in 1 .. Len(D) :
           /\ D[i].type = "DATA" => IsPiece(D[i], file)
           /\ D[i].type = "EOF" => D[i].pos < 0 \/ D[i].pos = Len(file)
  BY <1>2 DEF Files, Copies
<1>4. None(R, {"FINFOACK"})
  BY <1>2 DEF Files, Answered, None
<1>5. None(R2, {"FINFOACK"})
  BY <1>4, AddsNone
<1>6. Offers(p, t, D2, R2)
  <2>1. SUFFICES ASSUME NEW i \in 1 .. Len(D2), D2[i].type = "FINFO"
                 PROVE  /\ t.state \in {"FINFOACK", "DONE"}
                        /\ D2[i].id = FileId(p, t)
                        /\ LastOf(D2, i, FileTypes)
    BY <1>5 DEF Offers
  <2>2. D2[i].type \in FileTypes
    BY <2>1 DEF FileTypes
  <2>3. PICK j \in 1 .. Len(D) :
          D2[i] = D[j] /\ (LastOf(D, j, FileTypes) => LastOf(D2, i, FileTypes))
    BY <2>2, FollowsOnly
  <2>4. QED
    BY <2>1, <2>3 DEF Files, Offers
<1>7. Answered(p, t, r2, D2, R2, sv)
  BY <1>5 DEF Answered, None
<1>8. Copies(p, t, r2, D2, pt2, u2)
  <2>1. \A i \in 1 .. Len(D2) :
          /\ D2[i].type = "DATA" => IsPiece(D2[i], file)
          /\ D2[i].type = "EOF" => D2[i].pos < 0 \/ D2[i].pos = Len(file)
    BY <1>1, <1>3
  <2>2. t.state \notin {"FINFO", "FINFOACK"}
    BY <1>3 DEF Sending
  <2>3. QED
    BY <1>3, <2>1, <2>2 DEF Copies
<1>9. Streams(p, t, r2, D2, R2, sv)
  <2>1. SUFFICES ASSUME t.state \in Sending PROVE Streams(p, t, r2, D2, R2, sv)
    BY DEF Streams
  <2>2. Streams(p, t, r, D, R, sv)
    BY DEF Files
  <2>3. t.open = TRUE => \A i \in 1 .. Len(D2) : D2[i].type = "EOF" => D2[i].pos >= 0
    BY <1>1, <2>1, <2>2 DEF Streams
  <2>4. ASSUME NEW i \in 1 .. Len(R2)
        PROVE  /\ R2[i].type = "EOFACK" => r2.state = "FINFO"
               /\ R2[i].type = "RPOS" => R2[i].pos <= Len(file)
    <3>1. CASE i \in 1 .. Len(R) /\ R2[i] = R[i]
      BY <2>1, <2>2, <3>1 DEF Streams
    <3>2. CASE R2[i] = x
      BY <3>2
    <3>3. QED
      BY <3>1, <3>2, AddsCases
  <2>5. QED
    BY <2>1, <2>2, <2>3, <2>4 DEF Streams
<1>10. Greets(p, t, r2, D2, R2)
  BY DEF Files, Greets
<1>11. QED
  BY <1>6, <1>7, <1>8, <1>9, <1>10 DEF Files

\* It acknowledges an EOF and waits for the next FINFO.
EofStep(t, D, D2, r, r2, R, R2, x, sv2) ==
  /\ Len(D) \in Nat /\ Len(D) >= 1 /\ D[1].type = "EOF"
  /\ Len(D2) \in Nat /\ Follows(D2, D, {})
  /\ r.state \in {"FINFO", "DATA"} /\ r2.state = "FINFO"
  /\ t.state \in Sending /\ t.open = TRUE => sv2[t.file] # <<>>
  /\ Len(R) \in Nat /\ Adds(R2, R, x) /\ x.type = "EOFACK"

LEMMA EofFiles ==
  ASSUME NEW p \in Peers, NEW t, NEW D, NEW D2, NEW r, NEW r2, NEW R, NEW R2,
         NEW x, NEW pt, NEW pt2, NEW sv, NEW sv2, NEW u, NEW u2,
         Files(p, t, r, D, R, pt, sv, u),
         EofStep(t, D, D2, r, r2, R, R2, x, sv2)
  PROVE  Files(p, t, r2, D2, R2, pt2, sv2, u2)
<1> USE DEF EofStep
<1> DEFINE file == Batch[p][t.file]
<1>1. ASSUME NEW i \in 1 .. Len(D2) PROVE \E j \in 1 .. Len(D) : D2[i] = D[j]
  BY <1>1 DEF Follows
<1>2. ~None(D, {"DATA", "EOF"})
  BY DEF None
<1>3. None(R, {"FINFOACK"})
  BY <1>2 DEF Files, Answered, None
<1>4. None(R2, {"FINFOACK"})
  BY <1>3, AddsNone
<1>5. Offers(p, t, D2, R2)
  <2>1. SUFFICES ASSUME NEW i \in 1 .. Len(D2), D2[i].type = "FINFO"
                 PROVE  /\ t.state \in {"FINFOACK", "DONE"}
                        /\ D2[i].id = FileId(p, t)
                        /\ LastOf(D2, i, FileTypes)
    BY <1>4 DEF Offers
  <2>2. D2[i].type \in FileTypes
    BY <2>1 DEF FileTypes
  <2>3. PICK j \in 1 .. Len(D) :
          D2[i] = D[j] /\ (LastOf(D, j, FileTypes) => LastOf(D2, i, FileTypes))
    BY <2>2, FollowsOnly
  <2>4. QED
    BY <2>1, <2>3 DEF Files, Offers
<1>6. Answered(p, t, r2, D2, R2, sv2) /\ Copies(p, t, r2, D2, pt2, u2)
  BY <1>4 DEF Answered, None, Copies
<1>7. Streams(p, t, r2, D2, R2, sv2)
  <2>1. SUFFICES ASSUME t.state \in Sending PROVE Streams(p, t, r2, D2, R2, sv2)
    BY DEF Streams
  <2>2. Streams(p, t, r, D, R, sv)
    BY DEF Files
  <2>3. t.open = TRUE => \A i \in 1 .. Len(D2) : D2[i].type = "EOF" => D2[i].pos >= 0
    BY <1>1, <2>1, <2>2 DEF Streams
  <2>4. ASSUME NEW i \in 1 .. Len(R2), R2[i].type = "RPOS"
        PROVE  R2[i].pos <= Len(file)
    <3>1. i \in 1 .. Len(R) /\ R2[i] = R[i]
      BY <2>4, AddsCases
    <3>2. QED
      BY <2>1, <2>2, <2>4, <3>1 DEF Streams
  <2>5. QED
    BY <2>1, <2>2, <2>3, <2>4 DEF Streams
<1>8. Greets(p, t, r2, D2, R2)
  BY DEF Files, Greets
<1>9. QED
  BY <1>5, <1>6, <1>7, <1>8 DEF Files

-----------------------------------------------------------------------------
(***************************************************************************)
(* A new session, and the switch on txstate at the end of a pass.          *)
(***************************************************************************)
LEMMA FreshFiles ==
  ASSUME NEW p \in Peers, NEW t, t.state = "START",
         t.open = TRUE <=> t.file <= Len(Batch[p]),
         NEW r, r.state = "INIT", NEW pt, NEW sv, NEW u
  PROVE  Files(p, t, r, <<>>, <<>>, pt, sv, u)
<1>1. Greets(p, t, r, <<>>, <<>>)
  BY DEF Greets, Met, Handshake, None
<1>2. None(<<>>, {"FINFO"}) /\ None(<<>>, {"FINFOACK"}) /\ t.state \notin Sending
  BY DEF None, Sending
<1>3. QED
  BY <1>1, <1>2, BetweenFiles

LEMMA SettledResembles ==
  ASSUME NEW p \in Peers, NEW t \in TxOf(p), NEW r, NEW d, NEW h
  PROVE  /\ Resembles(t, Settled(t, r, d, h))
         /\ t.state = "DONE" <=> Settled(t, r, d, h).state = "DONE"
<1>1. t \in TxSet
  BY DEF TxOf
<1>2. ASSUME NEW s
      PROVE  /\ Restarted(t, s).state = s /\ Restarted(t, s).file = t.file
             /\ Restarted(t, s).open = t.open /\ Restarted(t, s).pos = t.pos
  BY <1>1 DEF Restarted, TxSet
<1>3. CASE t.state \in {"START", "SWAIT"} /\ r.state = "FINFO"
  <2>1. Settled(t, r, d, h) = Restarted(t, "INIT")
    BY <1>3 DEF Settled, FallsBack
  <2>2. QED
    BY <1>2, <1>3, <2>1 DEF Resembles, Moves
<1>4. CASE t.state = "RINIT" /\ r.state = "FINFO"
  <2>1. Settled(t, r, d, h) = Restarted(t, "FINFO")
    BY <1>4 DEF Settled, FallsBack
  <2>2. QED
    BY <1>2, <1>4, <2>1 DEF Resembles, Moves
<1>5. CASE FallsBack(t, r, h)
  <2>1. Settled(t, r, d, h) = [t EXCEPT !.state = "XWAIT", !.timing = TRUE]
    BY <1>5 DEF Settled, FallsBack
  <2>2. QED
    BY <1>1, <1>5, <2>1 DEF Resembles, Moves, FallsBack, TxSet
<1>6. CASE t.state = "XWAIT" /\ r.state = "DONE"
  <2>1. Settled(t, r, d, h) = Restarted(t, "XDATA")
    BY <1>6 DEF Settled, FallsBack
  <2>2. QED
    BY <1>2, <1>6, <2>1 DEF Resembles, Moves
<1>7. CASE t.state = "REND" /\ NothingMore(r, d)
  <2>1. Settled(t, r, d, h) = Restarted(t, "END")
    BY <1>7 DEF Settled, FallsBack
  <2>2. QED
    BY <1>2, <1>7, <2>1 DEF Resembles, Moves
<1>8. CASE /\ ~(t.state \in {"START", "SWAIT"} /\ r.state = "FINFO")
           /\ ~(t.state = "RINIT" /\ r.state = "FINFO")
           /\ ~FallsBack(t, r, h)
           /\ ~(t.state = "XWAIT" /\ r.state = "DONE")
           /\ ~(t.state = "REND" /\ NothingMore(r, d))
  <2>1. Settled(t, r, d, h) = t
    BY <1>8 DEF Settled
  <2>2. QED
    BY <2>1 DEF Resembles, Moves
<1>9. QED
  BY <1>3, <1>4, <1>5, <1>6, <1>7, <1>8

LEMMA FollowsItself ==
  ASSUME NEW s, Len(s) \in Nat, NEW types PROVE Follows(s, s, types)
<1>1. \A i \in 1 .. Len(s) : i <= Len(s) /\ i + 0 \in 1 .. Len(s) /\ s[i] = s[i + 0]
  OBVIOUS
<1>2. QED
  BY <1>1 DEF Follows

\* What the switch on txstate does is nobody else's business, and does not
\* concern the file.
LEMMA SettledFiles ==
  ASSUME NEW p \in Peers, NEW t \in TxOf(p), NEW s, NEW d, NEW h,
         NEW r, NEW D, Len(D) \in Nat, NEW R, Len(R) \in Nat,
         NEW pt, NEW sv, NEW u, Files(p, t, r, D, R, pt, sv, u)
  PROVE  Files(p, Settled(t, s, d, h), r, D, R, pt, sv, u)
<1> DEFINE t2 == Settled(t, s, d, h)
<1>1. Resembles(t, t2)
  BY SettledResembles
<1> HIDE DEF t2
<1>2. SameFile(r, r) /\ Follows(D, D, {}) /\ Follows(R, R, {})
  BY FollowsItself DEF SameFile
<1>3. CalmStep(t, t2, r, r, D, D, {}, R, R, {}, pt, pt, u, u)
  BY <1>1, <1>2 DEF CalmStep
<1>4. Files(p, t2, r, D, R, pt, sv, u)
  BY <1>3, CalmFiles
<1>5. QED
  BY <1>4 DEF t2

-----------------------------------------------------------------------------
(* The assumptions *)

OnTime == "late" \notin FaultKinds
FirstReadable == \A p \in Peers : 1 \notin Unreadable[p]

-----------------------------------------------------------------------------
(***************************************************************************)
(* The inductive invariant, for the files of both programs.                *)
(***************************************************************************)
FilesHold ==
  \A p \in Peers : Files(p, tx[p], rx[Other(p)], line[Other(p)], line[p],
                         part[Other(p)], saved[Other(p)], tx[Other(p)].state)

\* The transmitter goes through the batch.
Proceeds(p) ==
  /\ tx[p].file \in 1 .. (Len(Batch[p]) + 1)
  /\ Len(result[p]) = tx[p].file - 1
  /\ rx[Other(p)].state = "DONE" \/ tx[p].state \in {"REND", "END", "ENDACK"}
       => tx[p].file = Len(Batch[p]) + 1

BatchesProceed == \A p \in Peers : Proceeds(p)

-----------------------------------------------------------------------------
(***************************************************************************)
(* What the actions do to the lines.                                       *)
(***************************************************************************)
LEMMA LineSeq ==
  ASSUME LineTyped, NEW p \in Peers
  PROVE  /\ line[p] \in Seq(Packets) /\ Len(line[p]) \in Nat
         /\ line[Other(p)] \in Seq(Packets) /\ Len(line[Other(p)]) \in Nat
         /\ Other(p) \in Peers /\ Other(p) # p /\ Other(Other(p)) = p
BY OtherFacts, LenProperties DEF LineTyped

LEMMA SentFollows ==
  ASSUME LineTyped, NEW p \in Peers, NEW s \in Seq(Packets), NEW types,
         \A i \in 1 .. Len(s) : s[i].type \in types
  PROVE  Follows(Sent(p, s), line[Other(p)], types)
<1>1. line[Other(p)] \in Seq(Packets)
  BY LineSeq
<1>2. Follows(line[Other(p)] \o s, line[Other(p)], types)
  BY <1>1, FollowsConcat
<1>3. QED
  BY <1>2, FollowsEmpty DEF Sent

LEMMA OutFollows ==
  ASSUME LineTyped, NEW p \in Peers, NEW s \in Seq(Packets), NEW types,
         \A i \in 1 .. Len(s) : s[i].type \in types, Out(p, s)
  PROVE  line'[p] = line[p] /\ Follows(line'[Other(p)], line[Other(p)], types)
<1>1. line'[p] = line[p] /\ line'[Other(p)] = Sent(p, s)
  BY LineSeq DEF Out, LineTyped
<1>2. QED
  BY <1>1, SentFollows

LEMMA InFollows ==
  ASSUME LineTyped, NEW p \in Peers, line[p] # <<>>, NEW s \in Seq(Packets),
         NEW types, \A i \in 1 .. Len(s) : s[i].type \in types, In(p, s)
  PROVE  /\ line'[p] = Tail(line[p])
         /\ Follows(line'[p], line[p], {})
         /\ line'[Other(p)] = Sent(p, s)
         /\ Follows(line'[Other(p)], line[Other(p)], types)
<1>1. line'[p] = Tail(line[p]) /\ line'[Other(p)] = Sent(p, s)
  BY LineSeq DEF In, LineTyped
<1>2. Follows(Tail(line[p]), line[p], {})
  BY LineSeq, FollowsTail
<1>3. QED
  BY <1>1, <1>2, SentFollows

LEMMA SentSeq ==
  ASSUME LineTyped, NEW p \in Peers, NEW s \in Seq(Packets)
  PROVE  Sent(p, s) \in Seq(Packets) /\ Len(Sent(p, s)) \in Nat
<1>1. line[Other(p)] \o s \in Seq(Packets)
  BY LineSeq, ConcatProperties
<1>2. Sent(p, s) \in Seq(Packets)
  BY <1>1, EmptySeq DEF Sent
<1>3. QED
  BY <1>2, LenProperties

LEMMA SentAdds ==
  ASSUME LineTyped, NEW p \in Peers, NEW x \in Packets
  PROVE  /\ Adds(Sent(p, <<x>>), line[Other(p)], x)
         /\ Sent(p, <<x>>) # <<>> => Running(Other(p))
<1>1. line[Other(p)] \in Seq(Packets)
  BY LineSeq
<1>2. Adds(line[Other(p)] \o <<x>>, line[Other(p)], x)
  BY <1>1, AddsOne
<1>3. QED
  BY <1>2 DEF Sent, Adds

LEMMA SentNothing ==
  ASSUME LineTyped, NEW p \in Peers, NEW types
  PROVE  Follows(Sent(p, <<>>), line[Other(p)], types)
<1>1. <<>> \in Seq(Packets) /\ \A i \in 1 .. Len(<<>>) : <<>>[i].type \in types
  BY EmptySeq
<1>2. QED
  BY <1>1, SentFollows

LEMMA TailFacts ==
  ASSUME LineTyped, NEW p \in Peers, line[p] # <<>>
  PROVE  /\ Tail(line[p]) \in Seq(Packets) /\ Len(Tail(line[p])) \in Nat
         /\ Follows(Tail(line[p]), line[p], {})
         /\ Len(line[p]) \in Nat /\ Len(line[p]) >= 1
         /\ line[p][1] = Head(line[p])
<1>1. line[p] \in Seq(Packets)
  BY LineSeq
<1>2. Tail(line[p]) \in Seq(Packets) /\ Len(line[p]) \in Nat /\ Len(line[p]) >= 1
  BY <1>1, HeadTailProperties, LenProperties, EmptySeq
<1>3. QED
  BY <1>1, <1>2, FollowsTail, LenProperties

-----------------------------------------------------------------------------
(***************************************************************************)
(* A step of p and what it means for the files of both programs.           *)
(***************************************************************************)
LEMMA BothWays ==
  ASSUME NEW p \in Peers,
         Files(p, tx'[p], rx'[Other(p)], line'[Other(p)], line'[p],
               part'[Other(p)], saved'[Other(p)], tx'[Other(p)].state),
         Files(Other(p), tx'[Other(p)], rx'[p], line'[p], line'[Other(p)],
               part'[p], saved'[p], tx'[p].state)
  PROVE  FilesHold'
<1>1. SUFFICES ASSUME NEW q \in Peers
      PROVE  Files(q, tx'[q], rx'[Other(q)], line'[Other(q)], line'[q],
                   part'[Other(q)], saved'[Other(q)], tx'[Other(q)].state)
  BY DEF FilesHold
<1>2. q = p \/ (q = Other(p) /\ Other(q) = p)
  BY OtherFacts
<1>3. QED
  BY <1>2

LEMMA Both ==
  ASSUME FilesHold, NEW p \in Peers
  PROVE  /\ Files(p, tx[p], rx[Other(p)], line[Other(p)], line[p],
                  part[Other(p)], saved[Other(p)], tx[Other(p)].state)
         /\ Files(Other(p), tx[Other(p)], rx[p], line[p], line[Other(p)],
                  part[p], saved[p], tx[p].state)
<1>1. Other(p) \in Peers /\ Other(Other(p)) = p
  BY OtherFacts
<1>2. QED
  BY <1>1 DEF FilesHold

\* Nothing that concerns the files of p itself.
LEMMA CalmOwn ==
  ASSUME TypeInv, FilesHold, NEW p \in Peers,
         NEW t2, Resembles(tx[p], t2),
         NEW D2, Len(D2) \in Nat, NEW S, S \cap FileTypes = {},
         Follows(D2, line[Other(p)], S),
         NEW R2, Len(R2) \in Nat, Follows(R2, line[p], {})
  PROVE  Files(p, t2, rx[Other(p)], D2, R2, part[Other(p)], saved[Other(p)],
               tx[Other(p)].state)
<1>1. Files(p, tx[p], rx[Other(p)], line[Other(p)], line[p],
            part[Other(p)], saved[Other(p)], tx[Other(p)].state)
  BY Both
<1>2. CalmStep(tx[p], t2, rx[Other(p)], rx[Other(p)], line[Other(p)], D2, S,
               line[p], R2, {}, part[Other(p)], part[Other(p)],
               tx[Other(p)].state, tx[Other(p)].state)
  BY DEF CalmStep, SameFile
<1>3. QED
  BY <1>1, <1>2, CalmFiles

\* Nothing that concerns the files that p receives.
LEMMA CalmOther ==
  ASSUME TypeInv, FilesHold, NEW p \in Peers,
         NEW r2, SameFile(rx[p], r2),
         NEW D2, Len(D2) \in Nat, Follows(D2, line[p], {}),
         NEW R2, Len(R2) \in Nat, NEW T,
         T \cap (AnswerTypes \cup {"INITACK"}) = {},
         Follows(R2, line[Other(p)], T),
         NEW pt2, NEW u2, u2 # "DONE" => tx[p].state # "DONE" /\ pt2 = part[p]
  PROVE  Files(Other(p), tx[Other(p)], r2, D2, R2, pt2, saved[p], u2)
<1>1. Files(Other(p), tx[Other(p)], rx[p], line[p], line[Other(p)], part[p],
            saved[p], tx[p].state)
  BY Both
<1>2. CalmStep(tx[Other(p)], tx[Other(p)], rx[p], r2, line[p], D2, {},
               line[Other(p)], R2, T, part[p], pt2, tx[p].state, u2)
  BY DEF CalmStep, Resembles, Moves
<1>3. QED
  BY <1>1, <1>2, OtherFacts, CalmFiles

\* A step that ends with the switch on txstate.
LEMMA SettledStep ==
  ASSUME TypeInv, TypeInv', NEW p \in Peers,
         NEW t \in TxOf(p), NEW r, NEW d, NEW h, Settle(p, t, r, d, h),
         part'[Other(p)] = part[Other(p)], saved'[Other(p)] = saved[Other(p)],
         Files(p, t, rx[Other(p)], line'[Other(p)], line'[p],
               part[Other(p)], saved[Other(p)], tx[Other(p)].state),
         Files(Other(p), tx[Other(p)], r, line'[p], line'[Other(p)],
               part'[p], saved'[p], t.state)
  PROVE  FilesHold'
<1> DEFINE q == Other(p)
           t2 == Settled(t, r, d, h)
<1>1. q \in Peers /\ q # p /\ Other(q) = p
  BY OtherFacts
<1>2. tx'[p] = t2 /\ tx'[q] = tx[q] /\ rx'[p] = r /\ rx'[q] = rx[q]
  BY <1>1 DEF Settle, TypeInv, TxTyped, RxTyped
<1>3. Len(line'[p]) \in Nat /\ Len(line'[q]) \in Nat
  BY <1>1, LenProperties DEF TypeInv, LineTyped
<1>4. Files(p, t2, rx[q], line'[q], line'[p], part'[q], saved'[q], tx[q].state)
  BY <1>3, SettledFiles
<1>5. Files(q, tx[q], r, line'[p], line'[q], part'[p], saved'[p], t2.state)
  <2>1. t2.state # "DONE" => t.state # "DONE" /\ part'[p] = part'[p]
    BY SettledResembles
  <2>2. SameFile(r, r) /\ Resembles(tx[q], tx[q])
        /\ Follows(line'[p], line'[p], {}) /\ Follows(line'[q], line'[q], {})
    BY <1>3, FollowsItself DEF SameFile, Resembles, Moves
  <2>3. CalmStep(tx[q], tx[q], r, r, line'[p], line'[p], {}, line'[q], line'[q],
                 {}, part'[p], part'[p], t.state, t2.state)
    BY <1>3, <2>1, <2>2 DEF CalmStep
  <2>4. Files(q, tx[q], r, line'[p], line'[q], part'[p], saved'[p], t.state)
    OBVIOUS
  <2> HIDE DEF t2, q
  <2>5. QED
    BY <1>1, <2>3, <2>4, CalmFiles
<1> HIDE DEF t2
<1>6. QED
  BY <1>2, <1>4, <1>5, BothWays

-----------------------------------------------------------------------------
(***************************************************************************)
(* The transmitter sends.                                                  *)
(***************************************************************************)
LEMMA DevSeq ==
  ASSUME TypeInv, NEW p \in Peers
  PROVE  /\ DevPackets(p) \in Seq(Packets)
         /\ \A i \in 1 .. Len(DevPackets(p)) : DevPackets(p)[i].type = "DEVDATA"
<1>1. dev[p].id \in Nat
  BY OwnTypes DEF DevSet
<1>2. Device("DEVDATA", dev[p].id) \in Packets
  BY <1>1, EmptySeq DEF Device, Packet, Packets, PacketTypes
<1>3. CASE DevDue(p)
  <2>1. DevPackets(p) = <<Device("DEVDATA", dev[p].id)>>
    BY <1>3 DEF DevPackets
  <2>2. Device("DEVDATA", dev[p].id).type = "DEVDATA"
    BY DEF Device, Packet
  <2>3. QED
    BY <1>2, <2>1, <2>2, OneInSeq
<1>4. CASE ~DevDue(p)
  BY <1>4, EmptySeq DEF DevPackets
<1>5. QED
  BY <1>3, <1>4

LEMMA SendLine ==
  ASSUME TypeInv, NEW p \in Peers, NEW s \in Seq(Packets), NEW types,
         \A i \in 1 .. Len(s) : s[i].type \in types,
         Out(p, DevPackets(p) \o s)
  PROVE  /\ line'[p] = line[p]
         /\ Follows(line'[Other(p)], line[Other(p)], types \cup {"DEVDATA"})
<1> DEFINE d == DevPackets(p)
<1>1. d \in Seq(Packets) /\ \A i \in 1 .. Len(d) : d[i].type = "DEVDATA"
  BY DevSeq
<1> HIDE DEF d
<1>2. d \o s \in Seq(Packets)
  BY <1>1, ConcatProperties
<1>3. \A i \in 1 .. Len(d \o s) : (d \o s)[i].type \in types \cup {"DEVDATA"}
  <2>1. SUFFICES ASSUME NEW i \in 1 .. Len(d \o s)
                 PROVE  (d \o s)[i].type \in types \cup {"DEVDATA"}
    OBVIOUS
  <2>2. /\ Len(d) \in Nat /\ Len(s) \in Nat
        /\ Len(d \o s) = Len(d) + Len(s)
        /\ \A j \in 1 .. (Len(d) + Len(s)) :
             (d \o s)[j] = IF j <= Len(d) THEN d[j] ELSE s[j - Len(d)]
    BY <1>1, LenProperties, ConcatProperties
  <2>3. CASE i <= Len(d)
    BY <1>1, <2>2, <2>3
  <2>4. CASE i > Len(d)
    <3>1. (d \o s)[i] = s[i - Len(d)] /\ i - Len(d) \in 1 .. Len(s)
      BY <2>2, <2>4
    <3>2. QED
      BY <3>1
  <2>5. QED
    BY <2>2, <2>3, <2>4
<1>4. Out(p, d \o s)
  BY DEF d
<1>5. QED
  BY <1>2, <1>3, <1>4, OutFollows DEF TypeInv

LEMMA SendTwo ==
  ASSUME TypeInv, NEW p \in Peers, NEW x \in Packets,
         Out(p, DevPackets(p) \o <<x>>)
  PROVE  \E D \in Seq(Packets) :
           /\ Len(D) \in Nat
           /\ Follows(D, line[Other(p)], {"DEVDATA"})
           /\ Adds(line'[Other(p)], D, x)
<1> DEFINE d == DevPackets(p)
           l == line[Other(p)]
<1>1. d \in Seq(Packets) /\ \A i \in 1 .. Len(d) : d[i].type \in {"DEVDATA"}
  BY DevSeq
<1>2. l \in Seq(Packets) /\ <<x>> \in Seq(Packets)
  BY LineSeq, OneInSeq DEF TypeInv
<1>3. line'[Other(p)] = Sent(p, d \o <<x>>)
  BY LineSeq DEF Out, TypeInv, LineTyped
<1>4. line'[Other(p)] = IF Running(Other(p)) THEN l \o (d \o <<x>>) ELSE <<>>
  BY <1>3 DEF Sent
<1> HIDE DEF d, l
<1>5. l \o (d \o <<x>>) = (l \o d) \o <<x>>
  BY <1>1, <1>2, ConcatAssociative
<1>6. l \o d \in Seq(Packets) /\ Len(l \o d) \in Nat
  BY <1>1, <1>2, ConcatProperties, LenProperties
<1>7. Follows(l \o d, l, {"DEVDATA"})
  BY <1>1, <1>2, FollowsConcat
<1>8. Adds((l \o d) \o <<x>>, l \o d, x)
  BY <1>6, AddsOne
<1>9. Adds(line'[Other(p)], l \o d, x)
  BY <1>4, <1>5, <1>8 DEF Adds
<1>10. QED
  BY <1>6, <1>7, <1>9 DEF l

SentTypes == {"START", "INIT", "FINFO", "DATA", "EOF", "END"}

LEMMA SendStep ==
  ASSUME TypeInv, TypeInv', FilesHold, NEW p \in Peers, Running(p),
         NEW t, t.state # "DONE", NEW s \in Seq(Packets),
         \A i \in 1 .. Len(s) : s[i].type \in SentTypes, Send(p, t, s),
         Files(p, t, rx[Other(p)], line'[Other(p)], line[p],
               part[Other(p)], saved[Other(p)], tx[Other(p)].state)
  PROVE  FilesHold'
<1> DEFINE q == Other(p)
<1>1. q \in Peers /\ q # p /\ Other(q) = p
  BY OtherFacts
<1>2. /\ tx'[p] = t /\ tx'[q] = tx[q] /\ rx'[p] = rx[p] /\ rx'[q] = rx[q]
      /\ part' = part /\ saved' = saved
  BY <1>1 DEF Send, Session, TypeInv, TxTyped, RxTyped
<1>3. /\ line'[p] = line[p]
      /\ Follows(line'[q], line[q], SentTypes \cup {"DEVDATA"})
  BY SendLine DEF Send
<1>4. Len(line'[p]) \in Nat /\ Len(line'[q]) \in Nat
  BY <1>1, LenProperties DEF TypeInv, LineTyped
<1>5. Files(q, tx[q], rx[p], line'[p], line'[q], part[p], saved[p], t.state)
  <2>1. (SentTypes \cup {"DEVDATA"}) \cap (AnswerTypes \cup {"INITACK"}) = {}
    BY DEF SentTypes, AnswerTypes
  <2>2. SameFile(rx[p], rx[p]) /\ Follows(line'[p], line[p], {})
    BY <1>3, <1>4, FollowsItself DEF SameFile
  <2>3. t.state # "DONE" => tx[p].state # "DONE" /\ part[p] = part[p]
    BY DEF Running
  <2>4. QED
    BY <1>3, <1>4, <2>1, <2>2, <2>3, CalmOther
<1>6. QED
  BY <1>2, <1>3, <1>5, BothWays

\* What is not about a file.
LEMMA SendCalm ==
  ASSUME TypeInv, TypeInv', FilesHold, NEW p \in Peers, Running(p),
         NEW t, t.state # "DONE", Resembles(tx[p], t), NEW s \in Seq(Packets),
         \A i \in 1 .. Len(s) : s[i].type \in SentTypes \ FileTypes,
         Send(p, t, s)
  PROVE  FilesHold'
<1>1. /\ line'[p] = line[p]
      /\ Follows(line'[Other(p)], line[Other(p)],
                 (SentTypes \ FileTypes) \cup {"DEVDATA"})
  BY SendLine DEF Send
<1>2. Len(line[p]) \in Nat /\ Len(line'[Other(p)]) \in Nat
  BY OtherFacts, LenProperties DEF TypeInv, LineTyped
<1>3. ((SentTypes \ FileTypes) \cup {"DEVDATA"}) \cap FileTypes = {}
  BY DEF FileTypes
<1>4. Follows(line[p], line[p], {})
  BY <1>2, FollowsItself
<1>5. Files(p, t, rx[Other(p)], line'[Other(p)], line[p],
            part[Other(p)], saved[Other(p)], tx[Other(p)].state)
  BY <1>1, <1>2, <1>3, <1>4, CalmOwn
<1>6. QED
  BY <1>5, SendStep

\* A single packet about the file.
LEMMA SendOne ==
  ASSUME TypeInv, TypeInv', FilesHold, NEW p \in Peers, Running(p),
         NEW t, t.state # "DONE", NEW x \in Packets, x.type \in SentTypes,
         Send(p, t, <<x>>),
         \A D : \A D2 : /\ Len(D) \in Nat /\ Len(D2) \in Nat /\ Adds(D2, D, x)
                        /\ Files(p, tx[p], rx[Other(p)], D, line[p],
                             part[Other(p)], saved[Other(p)], tx[Other(p)].state)
           => Files(p, t, rx[Other(p)], D2, line[p], part[Other(p)],
                    saved[Other(p)], tx[Other(p)].state)
  PROVE  FilesHold'
<1>1. PICK D \in Seq(Packets) :
        /\ Len(D) \in Nat
        /\ Follows(D, line[Other(p)], {"DEVDATA"})
        /\ Adds(line'[Other(p)], D, x)
  BY SendTwo DEF Send
<1>2. Len(line[p]) \in Nat /\ Len(line'[Other(p)]) \in Nat
  BY OtherFacts, LenProperties DEF TypeInv, LineTyped
<1>3. Files(p, tx[p], rx[Other(p)], D, line[p], part[Other(p)],
            saved[Other(p)], tx[Other(p)].state)
  <2>1. {"DEVDATA"} \cap FileTypes = {}
    BY DEF FileTypes
  <2>2. Follows(line[p], line[p], {}) /\ Resembles(tx[p], tx[p])
    BY <1>2, FollowsItself DEF Resembles, Moves
  <2>3. QED
    BY <1>1, <1>2, <2>1, <2>2, CalmOwn
<1>4. Files(p, t, rx[Other(p)], line'[Other(p)], line[p], part[Other(p)],
            saved[Other(p)], tx[Other(p)].state)
  BY <1>1, <1>2, <1>3
<1>5. <<x>> \in Seq(Packets) /\ \A i \in 1 .. Len(<<x>>) : <<x>>[i].type \in SentTypes
  BY OneInSeq
<1>6. QED
  BY <1>4, <1>5, SendStep

LEMMA WaitingFields ==
  ASSUME TypeInv, NEW p \in Peers, NEW state
  PROVE  /\ Waiting(p, state).state = state
         /\ Waiting(p, state).file = tx[p].file
         /\ Waiting(p, state).open = tx[p].open
         /\ Waiting(p, state).pos = tx[p].pos
BY OwnTypes DEF Waiting, TxOf, TxSet

LEMMA SignalSeq ==
  ASSUME NEW type \in PacketTypes
  PROVE  /\ Signal(type) \in Packets /\ Signal(type).type = type
         /\ <<Signal(type)>> \in Seq(Packets)
         /\ <<Signal(type), Signal(type)>> \in Seq(Packets)
         /\ <<Signal(type), Signal(type), Signal(type)>> \in Seq(Packets)
<1>1. Signal(type) \in Packets /\ Signal(type).type = type
  BY EmptySeq DEF Signal, Packet, Packets
<1>2. QED
  BY <1>1

LEMMA SendDataFiles ==
  ASSUME TypeInv, TypeInv', FilesHold, NEW p \in Peers, SendData(p)
  PROVE  FilesHold'
<1> DEFINE t == tx[p]
           file == Batch[p][t.file]
           x(n) == Packet("DATA", t.pos, 0, SubSeq(file, t.pos + 1, t.pos + n))
           u(n, full) == [t EXCEPT !.pos = @ + n,
                            !.state = IF full THEN "DATAACK" ELSE @,
                            !.timing = IF full THEN TRUE ELSE @]
<1>1. PICK n \in 1 .. BlockMax, full \in BOOLEAN :
        /\ t.state = "XDATA" /\ t.pos >= 0 /\ t.pos + n <= Len(file)
        /\ Send(p, u(n, full), <<x(n)>>)
  BY DEF SendData
<1>2. /\ t \in TxSet /\ t.file \in FilesOf(p) /\ t.pos \in Nat /\ n \in Nat
      /\ file \in Seq(Units) /\ Len(file) \in Nat
  <2>1. t \in TxOf(p) /\ t.state \in Sending
    BY <1>1, OwnTypes DEF Sending
  <2>2. t \in TxSet /\ t.file \in FilesOf(p) /\ t.pos \in Nat
    BY <1>1, <2>1 DEF TxOf, TxSet
  <2>3. BlockMax \in Nat
    BY HydraAssumption DEF HydraAssumption
  <2>4. file \in Seq(Units)
    BY <2>2, BatchType
  <2>5. QED
    BY <2>2, <2>3, <2>4, LenProperties
<1> DEFINE piece == SubSeq(file, t.pos + 1, t.pos + n)
<1>3. piece \in Seq(Units) /\ Len(piece) = n
  <2>1. \A i \in (t.pos + 1) .. (t.pos + n) : file[i] \in Units
    BY <1>1, <1>2, ElementOfSeq
  <2>2. t.pos + 1 \in Int /\ t.pos + n \in Int
    BY <1>2
  <2>3. QED
    BY <1>2, <2>1, <2>2, SubSeqProperties
<1>4. /\ x(n) \in Packets /\ x(n).type = "DATA" /\ x(n).pos = t.pos
      /\ x(n).data = piece
  <2>1. x(n) = [type |-> "DATA", pos |-> t.pos, id |-> 0, data |-> piece]
    BY DEF Packet
  <2>2. t.pos \in Int /\ 0 \in Nat /\ "DATA" \in PacketTypes
    BY <1>2 DEF PacketTypes
  <2> HIDE DEF x, piece
  <2>3. QED
    BY <1>3, <2>1, <2>2 DEF Packets
<1>5. /\ u(n, full).state \in {"XDATA", "DATAACK"}
      /\ u(n, full).file = t.file /\ u(n, full).open = t.open
      /\ u(n, full).pos = t.pos + n
  BY <1>1, <1>2 DEF TxSet
<1> DEFINE y == x(n)
           v == u(n, full)
<1>6. IsPiece(y, file)
  <2>1. y.pos >= 0 /\ y.pos + Len(y.data) <= Len(file)
    BY <1>1, <1>2, <1>3, <1>4
  <2>2. y.data = SubSeq(file, y.pos + 1, y.pos + Len(y.data))
    BY <1>3, <1>4
  <2>3. QED
    BY <2>1, <2>2 DEF IsPiece
<1>7. Send(p, v, <<y>>) /\ y \in Packets /\ y.type = "DATA"
  BY <1>1, <1>4
<1>8. /\ v.state \in {"XDATA", "DATAACK"} /\ v.file = t.file /\ v.open = t.open
      /\ v.pos = t.pos + n
  BY <1>5
<1>9. t.open = TRUE
  BY <1>1, Both DEF Files, Streams, Sending
<1> HIDE DEF x, u, y, v, piece
<1>10. Fits(p, v, y)
  BY <1>6, <1>7, <1>8 DEF Fits
<1>11. /\ v.state \in Sending /\ v.open = TRUE /\ v.pos >= 0
       /\ v.pos <= Len(file) /\ v.state \notin {"EOF", "EOFACK"}
       /\ t.state \in Sending
  BY <1>1, <1>2, <1>8, <1>9 DEF Sending
<1>12. ASSUME NEW D, NEW D2, Len(D) \in Nat, Len(D2) \in Nat, Adds(D2, D, y),
              Files(p, t, rx[Other(p)], D, line[p],
                    part[Other(p)], saved[Other(p)], tx[Other(p)].state)
       PROVE  Files(p, v, rx[Other(p)], D2, line[p], part[Other(p)],
                    saved[Other(p)], tx[Other(p)].state)
  <2>1. Len(line[p]) \in Nat
    BY LineSeq DEF TypeInv
  <2>2. Follows(line[p], line[p], {})
    BY <2>1, FollowsItself
  <2>3. SendingStep(p, t, v, D, D2, y, line[p], line[p])
    BY <1>8, <1>9, <1>10, <1>11, <1>12, <2>1, <2>2 DEF SendingStep
  <2>4. QED
    BY <1>12, <2>3, SendingFiles
<1>13. y.type \in SentTypes /\ v.state # "DONE" /\ Running(p)
  BY <1>1, <1>7, <1>8 DEF SentTypes, Running
<1>14. QED
  BY <1>7, <1>12, <1>13, SendOne

\* A DATA or EOF packet that ends or goes on with the file.
LEMMA SendSending ==
  ASSUME TypeInv, TypeInv', FilesHold, NEW p \in Peers, tx[p].state \in Sending,
         NEW t, t.state \in Sending, t.file = tx[p].file,
         t.open = TRUE <=> t.pos >= 0, t.open = TRUE => tx[p].open = TRUE,
         t.pos <= Len(Batch[p][t.file]),
         t.state \in {"EOF", "EOFACK"} => t.pos < 0 \/ t.pos = Len(Batch[p][t.file]),
         NEW x \in Packets, x.type \in SentTypes, Fits(p, t, x), Send(p, t, <<x>>)
  PROVE  FilesHold'
<1>1. ASSUME NEW D, NEW D2, Len(D) \in Nat, Len(D2) \in Nat, Adds(D2, D, x),
             Files(p, tx[p], rx[Other(p)], D, line[p],
                   part[Other(p)], saved[Other(p)], tx[Other(p)].state)
      PROVE  Files(p, t, rx[Other(p)], D2, line[p], part[Other(p)],
                   saved[Other(p)], tx[Other(p)].state)
  <2>1. Len(line[p]) \in Nat
    BY LineSeq DEF TypeInv
  <2>2. Follows(line[p], line[p], {})
    BY <2>1, FollowsItself
  <2>3. SendingStep(p, tx[p], t, D, D2, x, line[p], line[p])
    BY <1>1, <2>1, <2>2 DEF SendingStep
  <2>4. QED
    BY <1>1, <2>3, SendingFiles
<1>2. t.state # "DONE" /\ Running(p)
  BY DEF Sending, Running
<1>3. QED
  BY <1>1, <1>2, SendOne

LEMMA PositionPacket ==
  ASSUME NEW type \in PacketTypes, NEW n \in Int
  PROVE  /\ Position(type, n) \in Packets
         /\ Position(type, n).type = type /\ Position(type, n).pos = n
BY EmptySeq DEF Position, Packet, Packets

LEMMA OwnSending ==
  ASSUME TypeInv, FilesHold, NEW p \in Peers, tx[p].state \in Sending
  PROVE  /\ tx[p].open = TRUE <=> tx[p].pos >= 0
         /\ tx[p].pos \in Int /\ Len(Batch[p][tx[p].file]) \in Nat
         /\ tx[p].pos <= Len(Batch[p][tx[p].file])
         /\ tx[p].state \in {"EOF", "EOFACK"} =>
              tx[p].pos < 0 \/ tx[p].pos = Len(Batch[p][tx[p].file])
<1>1. tx[p].file \in FilesOf(p) /\ tx[p].pos \in Int
  BY OwnTypes DEF TxOf, TxSet
<1>2. Batch[p][tx[p].file] \in Seq(Units)
  BY <1>1, BatchType
<1>3. Len(Batch[p][tx[p].file]) \in Nat
  BY <1>2, LenProperties
<1>4. Streams(p, tx[p], rx[Other(p)], line[Other(p)], line[p], saved[Other(p)])
  BY Both DEF Files
<1>5. QED
  BY <1>1, <1>3, <1>4 DEF Streams

LEMMA SendEofFiles ==
  ASSUME TypeInv, TypeInv', FilesHold, NEW p \in Peers, SendEof(p) \/ ReadError(p)
  PROVE  FilesHold'
<1> DEFINE file == Batch[p][tx[p].file]
<1>1. tx[p].state \in Sending
  BY DEF SendEof, ReadError, Sending
<1>2. /\ tx[p].open = TRUE <=> tx[p].pos >= 0
      /\ tx[p].pos \in Int /\ Len(file) \in Nat
      /\ tx[p].pos <= Len(file)
      /\ tx[p].state \in {"EOF", "EOFACK"} => tx[p].pos < 0 \/ tx[p].pos = Len(file)
  BY <1>1, OwnSending
<1>3. "EOF" \in PacketTypes /\ "EOF" \in SentTypes /\ "EOFACK" \in Sending
  BY DEF PacketTypes, SentTypes, Sending
<1>4. CASE SendEof(p)
  <2> DEFINE x == Position("EOF", tx[p].pos)
             t == Waiting(p, "EOFACK")
  <2>1. x \in Packets /\ x.type = "EOF" /\ x.pos = tx[p].pos
    BY <1>2, <1>3, PositionPacket
  <2>2. /\ t.state = "EOFACK" /\ t.file = tx[p].file
        /\ t.open = tx[p].open /\ t.pos = tx[p].pos
    BY WaitingFields
  <2>3. Send(p, t, <<x>>)
    BY <1>4 DEF SendEof
  <2>4. tx[p].pos < 0 \/ tx[p].pos = Len(file)
    BY <1>2, <1>4 DEF SendEof
  <2> HIDE DEF x, t
  <2>5. Fits(p, t, x)
    BY <1>2, <2>1, <2>2, <2>4 DEF Fits
  <2>6. QED
    BY <1>1, <1>2, <1>3, <2>1, <2>2, <2>3, <2>4, <2>5, SendSending
<1>5. CASE ReadError(p)
  <2> DEFINE x == Position("EOF", Skip)
             t == [Waiting(p, "EOFACK") EXCEPT !.open = FALSE, !.pos = Skip]
  <2>1. x \in Packets /\ x.type = "EOF" /\ x.pos = -2
    BY <1>3, PositionPacket DEF Skip
  <2>2. /\ t.state = "EOFACK" /\ t.file = tx[p].file
        /\ t.open = FALSE /\ t.pos = -2
    BY OwnTypes DEF Waiting, TxOf, TxSet, Skip
  <2>3. Send(p, t, <<x>>)
    BY <1>5 DEF ReadError
  <2> HIDE DEF x, t
  <2>4. Fits(p, t, x)
    BY <2>1, <2>2 DEF Fits
  <2>5. t.pos <= Len(file) /\ t.pos < 0 /\ ~(t.pos >= 0)
    BY <1>2, <2>2
  <2>6. QED
    BY <1>1, <1>3, <2>1, <2>2, <2>3, <2>4, <2>5, SendSending
<1>6. QED
  BY <1>4, <1>5

LEMMA SendFinfoFiles ==
  ASSUME TypeInv, TypeInv', FilesHold, NEW p \in Peers, SendFinfo(p)
  PROVE  FilesHold'
<1> DEFINE x == Info(IF tx[p].open THEN tx[p].file ELSE 0)
           t == Waiting(p, "FINFOACK")
<1>1. tx[p].state = "FINFO" /\ Send(p, t, <<x>>)
  BY DEF SendFinfo
<1>2. /\ t.state = "FINFOACK" /\ t.file = tx[p].file
      /\ t.open = tx[p].open
  BY WaitingFields
<1>3. tx[p].open \in BOOLEAN /\ tx[p].file \in Nat
  BY OwnTypes DEF TxOf, TxSet
<1>4. tx[p].open = TRUE <=> tx[p].file <= Len(Batch[p])
  BY <1>1, Both DEF Files, Greets
<1>5. x = Info(FileId(p, tx[p]))
  BY <1>3, <1>4 DEF FileId
<1>6. FileId(p, tx[p]) \in Nat
  BY <1>3 DEF FileId
<1>7. x \in Packets /\ x.type = "FINFO" /\ x.id = FileId(p, tx[p])
  BY <1>5, <1>6, EmptySeq DEF Info, Packet, Packets, PacketTypes
<1> HIDE DEF x, t
<1>8. ASSUME NEW D, NEW D2, Len(D) \in Nat, Len(D2) \in Nat, Adds(D2, D, x),
             Files(p, tx[p], rx[Other(p)], D, line[p],
                   part[Other(p)], saved[Other(p)], tx[Other(p)].state)
      PROVE  Files(p, t, rx[Other(p)], D2, line[p], part[Other(p)],
                   saved[Other(p)], tx[Other(p)].state)
  BY <1>1, <1>2, <1>7, <1>8, FinfoSent
<1>9. t.state # "DONE" /\ Running(p) /\ x.type \in SentTypes
  BY <1>1, <1>2, <1>7 DEF Running, SentTypes
<1>10. QED
  BY <1>1, <1>7, <1>8, <1>9, SendOne

LEMMA TransmitFiles ==
  ASSUME TypeInv, TypeInv', FilesHold, NEW p \in Peers,
         Transmit(p) \/ ReadError(p)
  PROVE  FilesHold'
<1>1. ASSUME NEW s \in {"SWAIT", "INITACK", "ENDACK"}, Moves(tx[p].state, s)
      PROVE  Resembles(tx[p], Waiting(p, s)) /\ Waiting(p, s).state # "DONE"
  BY <1>1, WaitingFields DEF Resembles
<1>2. ASSUME NEW type \in {"START", "INIT", "END"}
      PROVE  /\ <<Signal(type)>> \in Seq(Packets)
             /\ <<Signal(type), Signal(type)>> \in Seq(Packets)
             /\ \A i \in 1 .. Len(<<Signal(type)>>) :
                  <<Signal(type)>>[i].type \in SentTypes \ FileTypes
             /\ \A i \in 1 .. Len(<<Signal(type), Signal(type)>>) :
                  <<Signal(type), Signal(type)>>[i].type \in SentTypes \ FileTypes
  <2>1. type \in PacketTypes /\ type \in SentTypes \ FileTypes
    BY DEF PacketTypes, SentTypes, FileTypes
  <2>2. QED
    BY <2>1, SignalSeq
<1>3. CASE SendStart(p)
  <2>1. Moves(tx[p].state, "SWAIT") /\ Running(p)
    BY <1>3 DEF SendStart, Moves, Running
  <2>2. QED
    BY <1>1, <1>2, <1>3, <2>1, SendCalm DEF SendStart
<1>4. CASE SendInit(p)
  <2>1. Moves(tx[p].state, "INITACK") /\ Running(p)
    BY <1>4 DEF SendInit, Moves, Running
  <2>2. QED
    BY <1>1, <1>2, <1>4, <2>1, SendCalm DEF SendInit
<1>5. CASE SendEnd(p)
  <2>1. Moves(tx[p].state, "ENDACK") /\ Running(p)
    BY <1>5 DEF SendEnd, Moves, Running
  <2>2. QED
    BY <1>1, <1>2, <1>5, <2>1, SendCalm DEF SendEnd
<1>6. CASE SendDevice(p)
  <2>1. Resembles(tx[p], tx[p]) /\ Running(p) /\ <<>> \in Seq(Packets)
    BY <1>6, EmptySeq DEF SendDevice, Resembles, Moves, Running
  <2>2. \A i \in 1 .. Len(<<>>) : <<>>[i].type \in SentTypes \ FileTypes
    OBVIOUS
  <2>3. QED
    BY <1>6, <2>1, <2>2, SendCalm DEF SendDevice, Running
<1>7. QED
  BY <1>3, <1>4, <1>5, <1>6, SendFinfoFiles, SendDataFiles, SendEofFiles
     DEF Transmit

-----------------------------------------------------------------------------
(***************************************************************************)
(* The session ends for p.                                                 *)
(***************************************************************************)
LEMMA EndsFiles ==
  ASSUME TypeInv, TypeInv', FilesHold, NEW p \in Peers, NEW why, Ends(p, why),
         line'[p] = <<>>,
         Follows(line'[Other(p)], line[Other(p)], {"CANCEL", "END"})
  PROVE  FilesHold'
<1> DEFINE q == Other(p)
           t == tx'[p]
<1>1. q \in Peers /\ q # p /\ Other(q) = p
  BY OtherFacts
<1>2. /\ t.state = "DONE" /\ t.file = tx[p].file /\ tx'[q] = tx[q]
      /\ rx' = rx /\ saved' = saved
  <2>1. tx[p] \in TxSet
    BY OwnTypes DEF TxOf
  <2>2. tx' = [tx EXCEPT ![p] = [@ EXCEPT !.state = "DONE", !.open = FALSE,
                                          !.timing = FALSE]]
    BY DEF Ends
  <2>3. t = [tx[p] EXCEPT !.state = "DONE", !.open = FALSE, !.timing = FALSE]
    BY <2>2 DEF TypeInv, TxTyped
  <2>4. QED
    BY <1>1, <2>1, <2>2, <2>3 DEF Ends, TypeInv, TxTyped, TxSet
<1>3. part'[q] = part[q]
  BY <1>1 DEF Ends, Closed, TypeInv, DiskTyped
<1>4. Len(line'[q]) \in Nat
  BY <1>1, LenProperties DEF TypeInv, LineTyped
<1>5. Files(p, t, rx[q], line'[q], <<>>, part[q], saved[q], tx[q].state)
  <2>1. {"CANCEL", "END"} \cap FileTypes = {}
    BY DEF FileTypes
  <2>2. Files(p, tx[p], rx[q], line[q], line[p], part[q], saved[q], tx[q].state)
    BY Both
  <2> HIDE DEF t, q
  <2>3. Follows(line'[q], line[q], {"CANCEL", "END"})
    BY DEF q
  <2>4. QED
    BY <1>2, <1>4, <2>1, <2>2, <2>3, EndedFiles
<1>6. Files(q, tx[q], rx[p], <<>>, line'[q], part'[p], saved[p], "DONE")
  <2>1. {"CANCEL", "END"} \cap (AnswerTypes \cup {"INITACK"}) = {}
    BY DEF AnswerTypes
  <2>2. SameFile(rx[p], rx[p]) /\ Follows(<<>>, line[p], {}) /\ Len(<<>>) \in Nat
    BY FollowsEmpty DEF SameFile
  <2>3. QED
    BY <1>4, <2>1, <2>2, CalmOther
<1>7. QED
  BY <1>2, <1>3, <1>5, <1>6, BothWays

LEMMA AbortFiles ==
  ASSUME TypeInv, TypeInv', FilesHold, NEW p \in Peers, Abort(p) \/ CarrierLost(p)
  PROVE  FilesHold'
<1> DEFINE q == Other(p)
<1>1. q \in Peers /\ q # p /\ line[q] \in Seq(Packets) /\ Len(line[q]) \in Nat
  BY LineSeq DEF TypeInv
<1>2. CASE Abort(p)
  <2>1. PICK n \in 0 .. Len(line[q]) :
          line' = [line EXCEPT ![p] = <<>>,
                     ![q] = IF Running(q)
                            THEN SubSeq(@, 1, n) \o <<Signal("CANCEL")>> ELSE <<>>]
    BY <1>2 DEF Abort
  <2>2. /\ line'[p] = <<>>
        /\ line'[q] = IF Running(q)
                      THEN SubSeq(line[q], 1, n) \o <<Signal("CANCEL")>> ELSE <<>>
    BY <1>1, <2>1 DEF TypeInv, LineTyped
  <2>3. Signal("CANCEL") \in Packets /\ Signal("CANCEL").type = "CANCEL"
    BY SignalSeq DEF PacketTypes
  <2>4. Follows(SubSeq(line[q], 1, n) \o <<Signal("CANCEL")>>, line[q],
                {"CANCEL", "END"})
    BY <1>1, <2>3, FollowsCut
  <2>5. Follows(line'[q], line[q], {"CANCEL", "END"})
    BY <2>2, <2>4, FollowsEmpty
  <2>6. QED
    BY <1>2, <2>2, <2>5, EndsFiles DEF Abort
<1>3. CASE CarrierLost(p)
  <2>1. line'[p] = <<>> /\ line'[q] = line[q]
    BY <1>1, <1>3 DEF CarrierLost, TypeInv, LineTyped
  <2>2. Follows(line'[q], line[q], {"CANCEL", "END"})
    BY <1>1, <2>1, FollowsItself
  <2>3. QED
    BY <1>3, <2>1, <2>2, EndsFiles DEF CarrierLost
<1>4. QED
  BY <1>2, <1>3

-----------------------------------------------------------------------------
(***************************************************************************)
(* Steps that are not about files, and the timers.                         *)
(***************************************************************************)
LEMMA CalmSettle ==
  ASSUME TypeInv, TypeInv', FilesHold, NEW p \in Peers,
         NEW t \in TxOf(p), NEW r, NEW d, NEW h, Settle(p, t, r, d, h),
         Resembles(tx[p], t), SameFile(rx[p], r), part' = part, saved' = saved,
         NEW types, types \cap (FileTypes \cup AnswerTypes \cup {"INITACK"}) = {},
         Follows(line'[Other(p)], line[Other(p)], types),
         Follows(line'[p], line[p], {})
  PROVE  FilesHold'
<1>1. Len(line'[p]) \in Nat /\ Len(line'[Other(p)]) \in Nat
  BY OtherFacts, LenProperties DEF TypeInv, LineTyped
<1>2. Files(p, t, rx[Other(p)], line'[Other(p)], line'[p], part[Other(p)],
            saved[Other(p)], tx[Other(p)].state)
  <2>1. types \cap FileTypes = {}
    OBVIOUS
  <2>2. QED
    BY <1>1, <2>1, CalmOwn
<1>3. Files(Other(p), tx[Other(p)], r, line'[p], line'[Other(p)], part[p],
            saved[p], t.state)
  <2>1. types \cap (AnswerTypes \cup {"INITACK"}) = {}
    OBVIOUS
  <2>2. t.state # "DONE" => tx[p].state # "DONE" /\ part[p] = part[p]
    BY DEF Resembles, Moves
  <2>3. QED
    BY <1>1, <2>1, <2>2, CalmOther
<1>4. QED
  BY <1>2, <1>3, SettledStep

\* With OnTime, a timer that expires finds the lines empty.
LEMMA ExpiresQuiet ==
  ASSUME OnTime, NEW p \in Peers, NEW running, NEW also,
         Expires(p, running, Quiet) \/ Expires(p, running, Quiet /\ also)
  PROVE  Quiet /\ Running(p)
<1>1. ~Fault("late")
  BY DEF OnTime, Fault
<1>2. QED
  BY <1>1, Zenon DEF Expires, Late

\* The state to which a timer sends the transmitter back.
LEMMA RetryMoves ==
  ASSUME NEW s \in TxStates, s \notin {"FINFOACK", "EOFACK"}
  PROVE  Moves(s, RetryOf(s))
<1>1. CASE s \in {"SWAIT", "INITACK", "DATAACK", "ENDACK"}
  BY <1>1 DEF RetryOf, Moves
<1>2. CASE s \notin {"SWAIT", "INITACK", "FINFOACK", "DATAACK", "EOFACK", "ENDACK"}
  <2>1. RetryOf(s) = s
    BY <1>2 DEF RetryOf
  <2>2. QED
    BY <2>1 DEF Moves
<1>3. QED
  BY <1>1, <1>2

LEMMA RetryFiles ==
  ASSUME TypeInv, TypeInv', FilesHold, OnTime, NEW p \in Peers, Retry(p)
  PROVE  FilesHold'
<1> DEFINE q == Other(p)
           t == [tx[p] EXCEPT !.retries = @ + 1, !.timing = FALSE,
                              !.state = RetryOf(@)]
<1>1. Running(p) /\ line[p] = <<>> /\ line[q] = <<>>
  <2>1. Quiet /\ Running(p)
    BY ExpiresQuiet DEF Retry
  <2>2. QED
    BY <2>1, OtherFacts DEF Quiet
<1>2. tx[p] \in TxOf(p) /\ tx[p] \in TxSet /\ tx[p].state \in TxStates
  BY OwnTypes DEF TxOf, TxSet
<1>3. /\ t.file = tx[p].file /\ t.open = tx[p].open /\ t.pos = tx[p].pos
      /\ t.state = RetryOf(tx[p].state)
  BY <1>2 DEF TxSet
<1>4. t \in TxOf(p)
  <2>1. tx[p].retries + 1 \in Nat
    BY <1>2 DEF TxSet
  <2>2. RetryOf(tx[p].state) \in TxStates
    BY <1>2 DEF RetryOf, TxStates, BeforeRend, Handshake, Sending
  <2>3. t \in TxSet
    BY <1>2, <2>1, <2>2 DEF TxSet
  <2>4. t.state \in Sending => tx[p].state \in Sending
    BY <1>3 DEF RetryOf, Sending
  <2>5. t.open <=> tx[p].open
    BY <1>3
  <2> HIDE DEF t
  <2>6. (t.state \in Sending \/ t.open) => t.file \in FilesOf(p)
    BY <1>2, <1>3, <2>4, <2>5, Zenon DEF TxOf
  <2>7. QED
    BY <2>3, <2>6 DEF TxOf
<1>5. CASE Abort(p)
  BY <1>5, AbortFiles
<1>6. CASE Settle(p, t, rx[p], dev[p], hdxlink[p]) /\ UNCHANGED <<line, Session>>
  <2> HIDE DEF t
  <2>1. /\ line' = line /\ part' = part /\ saved' = saved
    BY <1>6 DEF Session
  <2>2. SameFile(rx[p], rx[p]) /\ Follows(<<>>, <<>>, {})
    BY FollowsEmpty DEF SameFile
  <2>3. CASE tx[p].state \notin {"FINFOACK", "EOFACK"}
    <3>1. Resembles(tx[p], t)
      BY <1>2, <1>3, <2>3, RetryMoves DEF Resembles
    <3>2. {} \cap (FileTypes \cup AnswerTypes \cup {"INITACK"}) = {}
      OBVIOUS
    <3>3. Settle(p, t, rx[p], dev[p], hdxlink[p])
      BY <1>6
    <3>4. Follows(line'[q], line[q], {}) /\ Follows(line'[p], line[p], {})
      BY <1>1, <2>1, <2>2
    <3>5. QED
      BY <1>4, <2>1, <2>2, <3>1, <3>2, <3>3, <3>4, CalmSettle
  <2>4. CASE tx[p].state \in {"FINFOACK", "EOFACK"}
    <3>1. Files(p, tx[p], rx[q], <<>>, <<>>, part[q], saved[q], tx[q].state)
      BY <1>1, Both
    <3>2. Files(p, t, rx[q], <<>>, <<>>, part[q], saved[q], tx[q].state)
      <4>1. CASE tx[p].state = "FINFOACK"
        <5>1. t.state = "FINFO"
          BY <1>3, <4>1 DEF RetryOf
        <5>2. QED
          BY <1>3, <3>1, <4>1, <5>1, FinfoAgain
      <4>2. CASE tx[p].state = "EOFACK"
        <5>1. t.state = "EOF" /\ tx[p].state \in Sending /\ t.state \in Sending
          BY <1>3, <4>2 DEF RetryOf, Sending
        <5>2. SendingStep(p, tx[p], t, <<>>, <<>>, 0, <<>>, <<>>)
          <6>1. /\ tx[p].open = TRUE <=> tx[p].pos >= 0
                /\ tx[p].pos <= Len(Batch[p][tx[p].file])
                /\ tx[p].pos < 0 \/ tx[p].pos = Len(Batch[p][tx[p].file])
            BY <4>2, <5>1, OwnSending
          <6>2. Len(<<>>) \in Nat
            OBVIOUS
          <6>3. QED
            BY <1>3, <2>2, <5>1, <6>1, <6>2 DEF SendingStep
        <5>3. QED
          BY <3>1, <5>2, SendingFiles
      <4>3. QED
        BY <2>4, <4>1, <4>2
    <3>3. Files(q, tx[q], rx[p], <<>>, <<>>, part[p], saved[p], t.state)
      <4>1. Files(q, tx[q], rx[p], line[p], line[q], part[p], saved[p], tx[p].state)
        BY Both
      <4>2. {} \cap (AnswerTypes \cup {"INITACK"}) = {} /\ Len(<<>>) \in Nat
        OBVIOUS
      <4>3. t.state # "DONE" => tx[p].state # "DONE" /\ part[p] = part[p]
        BY <1>1 DEF Running
      <4>4. QED
        BY <1>1, <2>2, <4>2, <4>3, CalmOther
    <3>4. Settle(p, t, rx[p], dev[p], hdxlink[p])
      BY <1>6
    <3>5. line'[p] = <<>> /\ line'[q] = <<>> /\ part'[q] = part[q]
          /\ saved'[q] = saved[q] /\ part'[p] = part[p] /\ saved'[p] = saved[p]
      BY <1>1, <2>1
    <3>6. QED
      BY <1>4, <3>2, <3>3, <3>4, <3>5, SettledStep
  <2>5. QED
    BY <2>3, <2>4
<1>7. QED
  BY <1>5, <1>6 DEF Retry

LEMMA TimersFiles ==
  ASSUME TypeInv, TypeInv', FilesHold, OnTime, NEW p \in Peers, Timers(p)
  PROVE  FilesHold'
<1>1. SameFile(rx[p], rx[p]) /\ tx[p] \in TxOf(p) /\ Resembles(tx[p], tx[p])
      /\ {} \cap (FileTypes \cup AnswerTypes \cup {"INITACK"}) = {}
  BY OwnTypes DEF SameFile, Resembles, Moves
<1>2. CASE StillHere(p)
  <2> DEFINE x == Signal("IDLE")
  <2>1. <<x>> \in Seq(Packets) /\ x.type = "IDLE"
    BY SignalSeq DEF PacketTypes
  <2>2. \A i \in 1 .. Len(<<x>>) : <<x>>[i].type \in {"IDLE"}
    BY <2>1
  <2>3. line'[p] = line[p] /\ Follows(line'[Other(p)], line[Other(p)], {"IDLE"})
    BY <1>2, <2>1, <2>2, OutFollows DEF StillHere, TypeInv
  <2>4. Follows(line'[p], line[p], {})
    BY <2>3, LineSeq, FollowsItself DEF TypeInv
  <2>5. {"IDLE"} \cap (FileTypes \cup AnswerTypes \cup {"INITACK"}) = {}
    BY DEF FileTypes, AnswerTypes
  <2>6. /\ Settle(p, tx[p], rx[p], dev[p], hdxlink[p])
        /\ part' = part /\ saved' = saved
    BY <1>2 DEF StillHere, Session
  <2>7. QED
    BY <1>1, <2>3, <2>4, <2>5, <2>6, CalmSettle
<1>3. CASE DevRetry(p)
  <2>1. CASE Abort(p)
    BY <2>1, AbortFiles
  <2>2. CASE \E d : Settle(p, tx[p], rx[p], d, hdxlink[p])
                    /\ UNCHANGED <<line, Session>>
    <3>1. PICK d : Settle(p, tx[p], rx[p], d, hdxlink[p])
                   /\ UNCHANGED <<line, Session>>
      BY <2>2
    <3>2. line' = line /\ part' = part /\ saved' = saved
      BY <3>1 DEF Session
    <3>3. /\ Follows(line'[p], line[p], {})
          /\ Follows(line'[Other(p)], line[Other(p)], {})
      BY <3>2, LineSeq, FollowsItself DEF TypeInv
    <3>4. QED
      BY <1>1, <3>1, <3>2, <3>3, CalmSettle
  <2>3. QED
    BY <1>3, <2>1, <2>2 DEF DevRetry
<1>4. CASE BrainDead(p)
  BY <1>4, AbortFiles DEF BrainDead
<1>5. QED
  BY <1>2, <1>3, <1>4, RetryFiles DEF Timers

-----------------------------------------------------------------------------
(***************************************************************************)
(* Packets that are not about files.                                       *)
(***************************************************************************)
CalmTypes == {"DEVDACK", "DATAACK"}

LEMMA CalmReceive ==
  ASSUME TypeInv, TypeInv', FilesHold, NEW p \in Peers, line[p] # <<>>,
         NEW t \in TxOf(p), NEW r, NEW d, NEW h, Settle(p, t, r, d, h),
         Resembles(tx[p], t), SameFile(rx[p], r), part' = part, saved' = saved,
         NEW s \in Seq(Packets), \A i \in 1 .. Len(s) : s[i].type \in CalmTypes,
         In(p, s)
  PROVE  FilesHold'
<1>1. /\ Follows(line'[p], line[p], {})
      /\ Follows(line'[Other(p)], line[Other(p)], CalmTypes)
  BY InFollows DEF TypeInv
<1>2. CalmTypes \cap (FileTypes \cup AnswerTypes \cup {"INITACK"}) = {}
  BY DEF CalmTypes, FileTypes, AnswerTypes
<1>3. QED
  BY <1>1, <1>2, CalmSettle

\* The packet is taken, and that is all.
LEMMA TakenFiles ==
  ASSUME TypeInv, TypeInv', FilesHold, NEW p \in Peers, line[p] # <<>>,
         NEW t \in TxOf(p), NEW r, NEW d, NEW h, Settle(p, t, r, d, h),
         Resembles(tx[p], t), SameFile(rx[p], r), UNCHANGED Session, In(p, <<>>)
  PROVE  FilesHold'
<1>1. <<>> \in Seq(Packets) /\ \A i \in 1 .. Len(<<>>) : <<>>[i].type \in CalmTypes
  BY EmptySeq
<1>2. part' = part /\ saved' = saved
  BY DEF Session
<1>3. QED
  BY <1>1, <1>2, CalmReceive

LEMMA RestartedFields ==
  ASSUME NEW p \in Peers, NEW t \in TxOf(p), NEW s
  PROVE  /\ Restarted(t, s).state = s /\ Restarted(t, s).file = t.file
         /\ Restarted(t, s).open = t.open /\ Restarted(t, s).pos = t.pos
BY DEF Restarted, TxOf, TxSet

LEMMA Itself ==
  ASSUME TypeInv, NEW p \in Peers
  PROVE  tx[p] \in TxOf(p) /\ Resembles(tx[p], tx[p]) /\ SameFile(rx[p], rx[p])
BY OwnTypes DEF Resembles, Moves, SameFile

LEMMA ReceiveStartFiles ==
  ASSUME TypeInv, TypeInv', FilesHold, NEW p \in Peers,
         ReceiveStart(p) \/ ReceiveIdle(p)
  PROVE  FilesHold'
<1>1. line[p] # <<>> /\ In(p, <<>>) /\ UNCHANGED Session
  BY DEF ReceiveStart, ReceiveIdle, Arrived
<1>2. ASSUME NEW s \in TxStates, Moves(tx[p].state, s),
             s \in Sending => tx[p].state \in Sending,
             NEW h, Settle(p, Restarted(tx[p], s), rx[p], dev[p], h)
      PROVE  FilesHold'
  <2>1. s \in Sending => tx[p].file \in FilesOf(p)
    BY <1>2, Itself DEF TxOf
  <2>2. Restarted(tx[p], s) \in TxOf(p)
    BY <2>1, Itself, RestartedType
  <2>3. Resembles(tx[p], Restarted(tx[p], s))
    BY <1>2, Itself, RestartedFields DEF Resembles
  <2>4. QED
    BY <1>1, <1>2, <2>2, <2>3, Itself, TakenFiles
<1>3. ASSUME NEW h, Settle(p, tx[p], rx[p], dev[p], h)
      PROVE  FilesHold'
  BY <1>1, <1>3, Itself, TakenFiles
<1>4. CASE ReceiveStart(p) /\ tx[p].state \in {"START", "SWAIT"}
  <2>1. "INIT" \in TxStates /\ "INIT" \notin Sending /\ Moves(tx[p].state, "INIT")
    BY <1>4 DEF TxStates, BeforeRend, Handshake, Moves, Sending
  <2>2. Settle(p, Restarted(tx[p], "INIT"), rx[p], dev[p], hdxlink[p])
    BY <1>4 DEF ReceiveStart
  <2>3. QED
    BY <1>2, <2>1, <2>2
<1>5. CASE ReceiveStart(p) /\ tx[p].state \notin {"START", "SWAIT"}
  BY <1>3, <1>5 DEF ReceiveStart
<1>6. CASE ReceiveIdle(p) /\ tx[p].state = "XWAIT"
  <2>1. /\ "XDATA" \in TxStates /\ tx[p].state \in Sending
        /\ Moves(tx[p].state, "XDATA")
    BY <1>6 DEF TxStates, BeforeRend, Moves, Sending
  <2>2. Settle(p, Restarted(tx[p], "XDATA"), rx[p], dev[p], hdxlink[p] /\ ~TRUE)
    BY <1>6, Zenon DEF ReceiveIdle
  <2>3. QED
    BY <1>2, <2>1, <2>2
<1>7. CASE ReceiveIdle(p) /\ tx[p].state # "XWAIT"
  <2>1. Settle(p, tx[p], rx[p], dev[p], hdxlink[p] /\ ~FALSE)
    BY <1>7, Zenon DEF ReceiveIdle
  <2>2. QED
    BY <1>3, <2>1
<1>8. QED
  BY <1>4, <1>5, <1>6, <1>7

LEMMA ReceiveDeviceFiles ==
  ASSUME TypeInv, TypeInv', FilesHold, NEW p \in Peers,
         ReceiveDevdata(p) \/ ReceiveDevdack(p)
  PROVE  FilesHold'
<1>1. CASE ReceiveDevdata(p)
  <2> DEFINE x == Device("DEVDACK", Head(line[p]).id)
  <2>1. line[p] # <<>> /\ In(p, <<x>>) /\ part' = part /\ saved' = saved
    BY <1>1 DEF ReceiveDevdata, Arrived
  <2>2. Head(line[p]).id \in Nat
    BY <2>1, HeadType DEF TypeInv
  <2>3. x \in Packets /\ x.type = "DEVDACK"
    BY <2>2, EmptySeq DEF Device, Packet, Packets, PacketTypes
  <2>4. PICK d : Settle(p, tx[p], rx[p], d, hdxlink[p])
    BY <1>1 DEF ReceiveDevdata
  <2> HIDE DEF x
  <2>5. <<x>> \in Seq(Packets) /\ \A i \in 1 .. Len(<<x>>) : <<x>>[i].type \in CalmTypes
    BY <2>3, OneInSeq DEF CalmTypes
  <2>6. QED
    BY <2>1, <2>4, <2>5, Itself, CalmReceive
<1>2. CASE ReceiveDevdack(p)
  <2>1. line[p] # <<>> /\ In(p, <<>>) /\ UNCHANGED Session
    BY <1>2 DEF ReceiveDevdack, Arrived
  <2>2. PICK d : Settle(p, tx[p], rx[p], d, hdxlink[p])
    BY <1>2 DEF ReceiveDevdack
  <2>3. QED
    BY <2>1, <2>2, Itself, TakenFiles
<1>3. QED
  BY <1>1, <1>2

LEMMA ReceiveEndFiles ==
  ASSUME TypeInv, TypeInv', FilesHold, NEW p \in Peers,
         ReceiveEnd(p) \/ ReceiveCancel(p)
  PROVE  FilesHold'
<1> DEFINE q == Other(p)
           s == <<Signal("END"), Signal("END"), Signal("END")>>
<1>1. CASE ReceiveCancel(p)
  BY <1>1, AbortFiles DEF ReceiveCancel
<1>2. CASE /\ ReceiveEnd(p)
           /\ Ends(p, "XFER_OK")
           /\ line' = [line EXCEPT ![p] = <<>>, ![q] = Sent(p, s)]
  <2>1. s \in Seq(Packets) /\ Signal("END").type = "END"
    BY SignalSeq DEF PacketTypes
  <2>2. \A i \in 1 .. Len(s) : s[i].type \in {"CANCEL", "END"}
    BY <2>1
  <2> HIDE DEF s
  <2>3. line'[p] = <<>> /\ line'[q] = Sent(p, s)
    BY <1>2, OtherFacts DEF TypeInv, LineTyped
  <2>4. Follows(line'[q], line[q], {"CANCEL", "END"})
    BY <2>1, <2>2, <2>3, SentFollows DEF TypeInv
  <2>5. QED
    BY <1>2, <2>3, <2>4, EndsFiles
<1>3. CASE /\ ReceiveEnd(p)
           /\ Settle(p, tx[p], rx[p], dev[p], hdxlink[p])
           /\ In(p, <<>>)
           /\ UNCHANGED Session
  <2>1. line[p] # <<>>
    BY <1>3 DEF ReceiveEnd, Arrived
  <2>2. QED
    BY <1>3, <2>1, Itself, TakenFiles
<1>4. QED
  BY <1>1, <1>2, <1>3 DEF ReceiveEnd

LEMMA ReceiveInitFiles ==
  ASSUME TypeInv, TypeInv', FilesHold, NEW p \in Peers, ReceiveInit(p)
  PROVE  FilesHold'
<1> DEFINE q == Other(p)
           x == Signal("INITACK")
           r == IF rx[p].state = "INIT" THEN [rx[p] EXCEPT !.state = "FINFO"]
                                        ELSE rx[p]
<1>1. /\ line[p] # <<>> /\ In(p, <<x>>) /\ part' = part /\ saved' = saved
      /\ Settle(p, tx[p], r, dev[p], hdxlink[p])
  BY DEF ReceiveInit, Arrived, Session
<1>2. /\ r.file = rx[p].file /\ r.pos = rx[p].pos
      /\ r.state = IF rx[p].state = "INIT" THEN "FINFO" ELSE rx[p].state
  BY OwnTypes DEF RxOf, RxSet
<1> HIDE DEF r
<1>3. x \in Packets /\ x.type = "INITACK" /\ <<x>> \in Seq(Packets)
  BY SignalSeq DEF PacketTypes
<1>4. \A i \in 1 .. Len(<<x>>) : <<x>>[i].type \in {"INITACK"}
  BY <1>3
<1> HIDE DEF x
<1>5. /\ Follows(line'[p], line[p], {})
      /\ Follows(line'[q], line[q], {"INITACK"})
  BY <1>1, <1>3, <1>4, InFollows DEF TypeInv
<1>6. Len(line'[p]) \in Nat /\ Len(line'[q]) \in Nat
  BY OtherFacts, LenProperties DEF TypeInv, LineTyped
<1>7. Files(p, tx[p], rx[q], line'[q], line'[p], part[q], saved[q], tx[q].state)
  <2>1. {"INITACK"} \cap FileTypes = {}
    BY DEF FileTypes
  <2>2. QED
    BY <1>5, <1>6, <2>1, Itself, CalmOwn
<1>8. Files(q, tx[q], r, line'[p], line'[q], part[p], saved[p], tx[p].state)
  <2>1. Files(q, tx[q], rx[p], line[p], line[q], part[p], saved[p], tx[p].state)
    BY Both
  <2>2. QED
    BY <1>2, <1>5, <1>6, <2>1, OtherFacts, ReadyFiles
<1>9. QED
  BY <1>1, <1>7, <1>8, Itself, SettledStep

\* The answer of p's own transmitter to a packet: what the other sends is not
\* concerned.
LEMMA OwnStep ==
  ASSUME TypeInv, TypeInv', FilesHold, NEW p \in Peers, Running(p),
         line[p] # <<>>, NEW t \in TxOf(p), NEW r, NEW d, NEW h,
         Settle(p, t, r, d, h), SameFile(rx[p], r), UNCHANGED Session,
         In(p, <<>>),
         Files(p, t, rx[Other(p)], Sent(p, <<>>), Tail(line[p]),
               part[Other(p)], saved[Other(p)], tx[Other(p)].state)
  PROVE  FilesHold'
<1> DEFINE q == Other(p)
<1>1. /\ line'[p] = Tail(line[p]) /\ line'[q] = Sent(p, <<>>)
      /\ Follows(line'[p], line[p], {}) /\ Follows(line'[q], line[q], {})
  <2>1. <<>> \in Seq(Packets) /\ \A i \in 1 .. Len(<<>>) : <<>>[i].type \in {}
    BY EmptySeq
  <2>2. QED
    BY <2>1, InFollows DEF TypeInv
<1>2. Len(line'[p]) \in Nat /\ Len(line'[q]) \in Nat
  BY OtherFacts, LenProperties DEF TypeInv, LineTyped
<1>3. Files(q, tx[q], r, line'[p], line'[q], part[p], saved[p], t.state)
  <2>1. {} \cap (AnswerTypes \cup {"INITACK"}) = {}
    OBVIOUS
  <2>2. t.state # "DONE" => tx[p].state # "DONE" /\ part[p] = part[p]
    BY DEF Running
  <2>3. QED
    BY <1>1, <1>2, <2>1, <2>2, CalmOther
<1>4. part' = part /\ saved' = saved
  BY DEF Session
<1>5. QED
  BY <1>1, <1>3, <1>4, SettledStep

LEMMA ReceiveInitackFiles ==
  ASSUME TypeInv, TypeInv', FilesHold, NEW p \in Peers, ReceiveInitack(p)
  PROVE  FilesHold'
<1> DEFINE q == Other(p)
<1>1. /\ Running(p) /\ line[p] # <<>> /\ Head(line[p]).type = "INITACK"
      /\ In(p, <<>>) /\ UNCHANGED Session
  BY DEF ReceiveInitack, Arrived
<1>2. CASE tx[p].state \notin {"INIT", "INITACK"}
  <2>1. Settle(p, tx[p], rx[p], dev[p], hdxlink[p])
    BY <1>2 DEF ReceiveInitack
  <2>2. QED
    BY <1>1, <2>1, Itself, TakenFiles
<1>3. CASE tx[p].state \in {"INIT", "INITACK"}
  <2> DEFINE t == Restarted(tx[p], "RINIT")
  <2>1. Settle(p, t, rx[p], dev[p], hdxlink[p])
    BY <1>3 DEF ReceiveInitack
  <2>2. t.state = "RINIT" /\ t.file = tx[p].file /\ t.open = tx[p].open
    BY Itself, RestartedFields
  <2>3. t \in TxOf(p)
    BY Itself, RestartedType DEF TxStates, BeforeRend, Handshake, Sending
  <2> HIDE DEF t
  <2>4. Files(p, tx[p], rx[q], line[q], line[p], part[q], saved[q], tx[q].state)
    BY Both
  <2>5. None(line[q], {"FINFO"}) /\ None(line[p], {"FINFOACK"})
    BY <1>3, <2>4, NotAsked
  <2>6. rx[q].state # "INIT"
    <3>1. 1 \in 1 .. Len(line[p]) /\ line[p][1].type = "INITACK"
      BY <1>1, TailFacts DEF TypeInv
    <3>2. Met(tx[p], line[q], line[p])
      BY <3>1 DEF Met, None
    <3>3. QED
      BY <2>4, <3>2 DEF Files, Greets
  <2>7. rx[q].state # "DATA"
    BY <1>3, <2>4 DEF Files, Copies, Sending
  <2>8. tx[p].open = TRUE <=> tx[p].file <= Len(Batch[p])
    BY <1>3, <2>4 DEF Files, Greets, Handshake
  <2>9. None(Sent(p, <<>>), {"FINFO"}) /\ None(Tail(line[p]), {"FINFOACK"})
    <3>1. /\ Follows(Sent(p, <<>>), line[q], {})
          /\ Follows(Tail(line[p]), line[p], {})
      BY <1>1, SentNothing, TailFacts DEF TypeInv
    <3>2. {} \cap {"FINFO"} = {} /\ {} \cap {"FINFOACK"} = {}
      OBVIOUS
    <3>3. QED
      BY <2>5, <3>1, <3>2, FollowsNone
  <2>10. t.state \notin Sending
    BY <2>2 DEF Sending
  <2>11. Files(p, t, rx[q], Sent(p, <<>>), Tail(line[p]), part[q], saved[q],
               tx[q].state)
    BY <2>2, <2>6, <2>7, <2>8, <2>9, <2>10, NextFile
  <2>12. QED
    BY <1>1, <2>1, <2>3, <2>11, Itself, OwnStep
<1>4. QED
  BY <1>2, <1>3

\* A DATAACK does not change where the transmitter is.
LEMMA DataackTx ==
  ASSUME TypeInv, NEW p \in Peers, ReceiveDataack(p)
  PROVE  \E u \in TxOf(p) :
           /\ Settle(p, u, rx[p], dev[p], hdxlink[p]) /\ Resembles(tx[p], u)
           /\ \/ u.state = tx[p].state
              \/ tx[p].state = "DATAACK" /\ u.state = "XDATA"
<1> DEFINE t == tx[p]
           pos == Head(line[p]).pos
           acked == [t EXCEPT !.lastack = pos]
<1>1. line[p] # <<>> /\ In(p, <<>>) /\ UNCHANGED Session
  BY DEF ReceiveDataack, Arrived
<1>2. t \in TxOf(p) /\ t \in TxSet /\ pos \in Int
  BY <1>1, OwnTypes, HeadType DEF TxOf, TypeInv
<1>3. /\ acked \in TxOf(p) /\ acked.state = t.state /\ acked.file = t.file
      /\ acked.open = t.open /\ acked.pos = t.pos
  <2>1. acked \in TxSet
    BY <1>2 DEF TxSet
  <2>2. /\ acked.state = t.state /\ acked.file = t.file
        /\ acked.open = t.open /\ acked.pos = t.pos
    BY <1>2 DEF TxSet
  <2> HIDE DEF acked, t
  <2>3. acked \in TxOf(p)
    BY <1>2, <2>1, <2>2 DEF TxOf
  <2>4. QED
    BY <2>2, <2>3
<1>4. PICK u : /\ Settle(p, u, rx[p], dev[p], hdxlink[p])
               /\ \/ u = t \/ u = acked
                  \/ t.state = "DATAACK" /\ u = Restarted(acked, "XDATA")
                  \/ t.state = "DATAACK" /\ u = Restarted(t, "XDATA")
  BY Zenon DEF ReceiveDataack
<1> HIDE DEF acked, t
<1>5. ASSUME NEW a \in TxOf(p), t.state = "DATAACK", a.state = t.state,
             a.file = t.file, a.open = t.open, a.pos = t.pos
      PROVE  /\ Restarted(a, "XDATA") \in TxOf(p)
             /\ Resembles(t, Restarted(a, "XDATA"))
             /\ Restarted(a, "XDATA").state = "XDATA"
  <2>1. "XDATA" \in TxStates /\ a.file \in FilesOf(p) /\ Moves(t.state, "XDATA")
    BY <1>2, <1>5 DEF TxOf, TxStates, BeforeRend, Sending, Moves
  <2>2. Restarted(a, "XDATA") \in TxOf(p)
    BY <2>1, RestartedType
  <2>3. QED
    BY <1>5, <2>1, <2>2, RestartedFields DEF Resembles
<1>6. /\ u \in TxOf(p) /\ Resembles(t, u)
      /\ u.state = t.state \/ (t.state = "DATAACK" /\ u.state = "XDATA")
  BY <1>2, <1>3, <1>4, <1>5 DEF Resembles, Moves
<1>7. QED
  BY <1>4, <1>6 DEF t

LEMMA ReceiveDataackFiles ==
  ASSUME TypeInv, TypeInv', FilesHold, NEW p \in Peers, ReceiveDataack(p)
  PROVE  FilesHold'
<1>1. line[p] # <<>> /\ In(p, <<>>) /\ UNCHANGED Session
  BY DEF ReceiveDataack, Arrived
<1>2. PICK u \in TxOf(p) :
        Settle(p, u, rx[p], dev[p], hdxlink[p]) /\ Resembles(tx[p], u)
  BY DataackTx
<1>3. QED
  BY <1>1, <1>2, Itself, TakenFiles

-----------------------------------------------------------------------------
(***************************************************************************)
(* Answers to p's transmitter.                                             *)
(***************************************************************************)
LEMMA BegunFields ==
  ASSUME NEW p \in Peers, NEW t \in TxSet, t.state # "DONE",
         NEW k \in 1 .. (Len(Batch[p]) + 1)
  PROVE  /\ Begun(p, t, k).state = "FINFO"
         /\ Begun(p, t, k).file = Openable(p, k)
         /\ Begun(p, t, k).open = TRUE <=> Openable(p, k) <= Len(Batch[p])
<1> DEFINE j == Openable(p, k)
           m == Len(Batch[p])
<1>1. j \in Nat /\ m \in Nat
  BY OpenableFacts, BatchType
<1>2. Begun(p, t, k) =
        [t EXCEPT !.state = IF @ = "DONE" /\ j = k THEN "START" ELSE "FINFO",
                  !.file = j, !.open = j <= m,
                  !.syncid = IF j <= m THEN 0 ELSE @,
                  !.retries = 0, !.timing = FALSE]
  BY DEF Begun
<1> HIDE DEF j, m
<1>3. /\ Begun(p, t, k).state = "FINFO" /\ Begun(p, t, k).file = j
      /\ Begun(p, t, k).open = (j <= m)
  BY <1>2 DEF TxSet
<1>4. Begun(p, t, k).open = TRUE <=> j <= m
  BY <1>3, Zenon
<1>5. QED
  BY <1>3, <1>4 DEF j, m

LEMMA ReturnsTx ==
  ASSUME TypeInv, NEW p \in Peers, NEW x, Returns(p, x), Running(p),
         tx[p].file \in FilesOf(p)
  PROVE  /\ tx'[p] = Begun(p, tx[p], tx[p].file + 1)
         /\ tx'[Other(p)] = tx[Other(p)] /\ rx' = rx
         /\ part' = part /\ saved' = saved
         /\ tx'[p].state = "FINFO"
         /\ tx'[p].file = Openable(p, tx[p].file + 1)
         /\ tx'[p].open = TRUE <=> tx'[p].file <= Len(Batch[p])
<1>1. tx[p] \in TxSet /\ Other(p) # p /\ Other(p) \in Peers
  BY OwnTypes, OtherFacts DEF TxOf
<1>2. /\ tx'[p] = Begun(p, tx[p], tx[p].file + 1)
      /\ tx'[Other(p)] = tx[Other(p)] /\ rx' = rx
      /\ part' = part /\ saved' = saved
  BY <1>1 DEF Returns, TypeInv, TxTyped
<1>3. tx[p].file + 1 \in 1 .. (Len(Batch[p]) + 1)
  BY FileBefore
<1> DEFINE k == tx[p].file + 1
           b == Begun(p, tx[p], k)
<1>4. /\ b.state = "FINFO" /\ b.file = Openable(p, k)
      /\ b.open = TRUE <=> Openable(p, k) <= Len(Batch[p])
  BY <1>1, <1>3, BegunFields DEF Running
<1> HIDE DEF b, k
<1>5. tx'[p] = b
  BY <1>2 DEF b, k
<1>6. tx'[p].open = TRUE <=> tx'[p].file <= Len(Batch[p])
  BY <1>4, <1>5
<1>7. QED
  BY <1>2, <1>4, <1>5, <1>6 DEF k

LEMMA ReturnsFiles ==
  ASSUME TypeInv, TypeInv', FilesHold, NEW p \in Peers, Running(p),
         line[p] # <<>>, NEW x, Returns(p, x), In(p, <<>>),
         tx[p].file \in FilesOf(p), None(line[Other(p)], {"FINFO"}),
         None(Tail(line[p]), {"FINFOACK"}),
         rx[Other(p)].state \notin {"DATA", "INIT"}
  PROVE  FilesHold'
<1> DEFINE q == Other(p)
<1>1. /\ line'[p] = Tail(line[p]) /\ line'[q] = Sent(p, <<>>)
      /\ Follows(line'[p], line[p], {}) /\ Follows(line'[q], line[q], {})
  <2>1. <<>> \in Seq(Packets) /\ \A i \in 1 .. Len(<<>>) : <<>>[i].type \in {}
    BY EmptySeq
  <2>2. QED
    BY <2>1, InFollows DEF TypeInv
<1>2. Len(line'[p]) \in Nat /\ Len(line'[q]) \in Nat
  BY OtherFacts, LenProperties DEF TypeInv, LineTyped
<1>3. /\ tx'[q] = tx[q] /\ rx' = rx /\ part' = part /\ saved' = saved
      /\ tx'[p].state = "FINFO"
      /\ tx'[p].open = TRUE <=> tx'[p].file <= Len(Batch[p])
  BY ReturnsTx
<1>4. Files(p, tx'[p], rx[q], line'[q], line'[p], part[q], saved[q], tx[q].state)
  <2>1. {} \cap {"FINFO"} = {} /\ "FINFO" \notin Sending
    BY DEF Sending
  <2>2. None(line'[q], {"FINFO"}) /\ None(line'[p], {"FINFOACK"})
    BY <1>1, <2>1, FollowsNone
  <2>3. QED
    BY <1>3, <2>1, <2>2, NextFile
<1>5. Files(q, tx[q], rx[p], line'[p], line'[q], part[p], saved[p], tx'[p].state)
  <2>1. {} \cap (AnswerTypes \cup {"INITACK"}) = {} /\ SameFile(rx[p], rx[p])
    BY DEF SameFile
  <2>2. tx'[p].state # "DONE" => tx[p].state # "DONE" /\ part[p] = part[p]
    BY DEF Running
  <2>3. QED
    BY <1>1, <1>2, <2>1, <2>2, CalmOther
<1>6. QED
  BY <1>3, <1>4, <1>5, BothWays

\* What p knows when a FINFOACK is the next packet.
LEMMA FinfoackNow ==
  ASSUME TypeInv, FilesHold, NEW p \in Peers, Arrived(p, "FINFOACK")
  PROVE  /\ tx[p].state = "FINFOACK"
         /\ None(line[Other(p)], {"FINFO"}) /\ None(line[Other(p)], {"DATA", "EOF"})
         /\ None(Tail(line[p]), AnswerTypes) /\ None(Tail(line[p]), {"FINFOACK"})
         /\ tx[p].open = TRUE /\ Head(line[p]).pos >= 0 =>
              /\ rx[Other(p)].state = "DATA"
              /\ Head(line[p]).pos <= Len(Batch[p][tx[p].file])
         /\ tx[p].open = TRUE /\ Head(line[p]).pos < 0 =>
              /\ rx[Other(p)].state # "DATA"
              /\ Head(line[p]).pos = HaveIt => saved[Other(p)][tx[p].file] # <<>>
         /\ rx[Other(p)].state # "INIT"
         /\ tx[p].open = TRUE <=> tx[p].file <= Len(Batch[p])
<1>1. /\ Files(p, tx[p], rx[Other(p)], line[Other(p)], line[p], part[Other(p)],
               saved[Other(p)], tx[Other(p)].state)
      /\ line[p] \in Seq(Packets) /\ line[p] # <<>>
      /\ Head(line[p]).type = "FINFOACK"
  BY Both, LineSeq DEF Arrived, TypeInv
<1>2. None(Tail(line[p]), AnswerTypes) => None(Tail(line[p]), {"FINFOACK"})
  BY DEF None, AnswerTypes
<1>3. Agreed(p, tx[p], rx[Other(p)], line[Other(p)], line[p], saved[Other(p)])
  BY <1>1, FinfoackFacts
<1>4. QED
  BY <1>2, <1>3 DEF Agreed

LEMMA ReceiveFinfoackFiles ==
  ASSUME TypeInv, TypeInv', FilesHold, NEW p \in Peers, ReceiveFinfoack(p)
  PROVE  FilesHold'
<1> DEFINE q == Other(p)
           pos == Head(line[p]).pos
           closing == [tx[p] EXCEPT !.state = "REND", !.retries = 0,
                                    !.timing = TRUE]
           started == [Restarted(tx[p], "XDATA") EXCEPT !.pos = pos,
                                                        !.lastack = pos]
<1>1. Arrived(p, "FINFOACK") /\ In(p, <<>>) /\ Running(p) /\ line[p] # <<>>
  BY DEF ReceiveFinfoack, Arrived
<1>2. /\ tx[p].state = "FINFOACK" /\ None(line[q], {"FINFO"})
      /\ None(line[q], {"DATA", "EOF"}) /\ None(Tail(line[p]), AnswerTypes)
      /\ None(Tail(line[p]), {"FINFOACK"})
      /\ tx[p].open = TRUE /\ pos >= 0 =>
           rx[q].state = "DATA" /\ pos <= Len(Batch[p][tx[p].file])
      /\ tx[p].open = TRUE /\ pos < 0 => rx[q].state # "DATA"
      /\ rx[q].state # "INIT"
      /\ tx[p].open = TRUE <=> tx[p].file <= Len(Batch[p])
  BY <1>1, FinfoackNow
<1>3. tx[p] \in TxOf(p) /\ tx[p] \in TxSet /\ pos \in Int /\ tx[p].open \in BOOLEAN
  BY <1>1, OwnTypes, HeadType DEF TxOf, TypeInv, TxSet
<1>4. /\ Follows(Sent(p, <<>>), line[q], {})
      /\ None(Sent(p, <<>>), {"FINFO"}) /\ None(Sent(p, <<>>), {"DATA", "EOF"})
  <2>1. {} \cap {"FINFO"} = {} /\ {} \cap {"DATA", "EOF"} = {}
    OBVIOUS
  <2>2. Follows(Sent(p, <<>>), line[q], {})
    BY SentNothing DEF TypeInv
  <2>3. QED
    BY <1>2, <2>1, <2>2, FollowsNone
<1>5. Files(p, tx[p], rx[q], line[q], line[p], part[q], saved[q], tx[q].state)
  BY Both
<1>6. CASE tx[p].open = TRUE /\ pos < 0
  <2>1. PICK x : Returns(p, x)
    BY <1>2, <1>6, Zenon DEF ReceiveFinfoack
  <2>2. tx[p].file \in FilesOf(p) /\ rx[q].state \notin {"DATA", "INIT"}
    BY <1>2, <1>3, <1>6 DEF TxOf
  <2>3. QED
    BY <1>1, <1>2, <2>1, <2>2, ReturnsFiles
<1>7. CASE tx[p].open = FALSE
  <2>1. Settle(p, closing, rx[p], dev[p], hdxlink[p]) /\ UNCHANGED Session
    BY <1>2, <1>7, Zenon DEF ReceiveFinfoack
  <2>2. closing.state = "REND" /\ closing.file = tx[p].file /\ closing.open = FALSE
    BY <1>3, <1>7 DEF TxSet
  <2>3. closing \in TxSet
    BY <1>3 DEF TxSet, TxStates
  <2> HIDE DEF closing
  <2>4. closing \in TxOf(p)
    BY <2>2, <2>3 DEF TxOf, Sending
  <2>5. rx[q].state # "DATA"
    BY <1>2, <1>5, <1>7 DEF Files, Copies
  <2>6. closing.state \notin Handshake \cup {"FINFO", "FINFOACK"} \cup Sending
    BY <2>2 DEF Handshake, Sending
  <2>7. Files(p, closing, rx[q], Sent(p, <<>>), Tail(line[p]), part[q], saved[q],
              tx[q].state)
    BY <1>2, <1>4, <2>5, <2>6, NextFile
  <2>8. QED
    BY <1>1, <2>1, <2>4, <2>7, Itself, OwnStep
<1>8. CASE tx[p].open = TRUE /\ ~(pos < 0)
  <2>1. Settle(p, started, rx[p], dev[p], hdxlink[p]) /\ UNCHANGED Session
    BY <1>2, <1>8, Zenon DEF ReceiveFinfoack
  <2>2. /\ started.state = "XDATA" /\ started.file = tx[p].file
        /\ started.open = TRUE /\ started.pos = pos
    BY <1>3, <1>8 DEF Restarted, TxSet
  <2>3. started \in TxSet
    BY <1>3 DEF Restarted, TxSet, TxStates, BeforeRend, Sending
  <2>4. tx[p].file \in FilesOf(p)
    BY <1>3, <1>8 DEF TxOf
  <2> HIDE DEF started
  <2>5. started \in TxOf(p)
    BY <2>2, <2>3, <2>4 DEF TxOf
  <2>6. rx[q].state = "DATA" /\ pos >= 0 /\ pos <= Len(Batch[p][tx[p].file])
    BY <1>2, <1>3, <1>8
  <2>7. Files(p, started, rx[q], line[q], Tail(line[p]), part[q], saved[q],
              tx[q].state)
    BY <1>2, <1>5, <2>2, <2>6, StartedFiles
  <2>8. Files(p, started, rx[q], Sent(p, <<>>), Tail(line[p]), part[q], saved[q],
              tx[q].state)
    <3>1. /\ Len(Sent(p, <<>>)) \in Nat /\ Len(Tail(line[p])) \in Nat
      BY <1>1, SentSeq, EmptySeq, TailFacts DEF TypeInv
    <3>2. /\ Follows(Tail(line[p]), Tail(line[p]), {})
          /\ Resembles(started, started) /\ SameFile(rx[q], rx[q])
      BY <3>1, FollowsItself DEF Resembles, Moves, SameFile
    <3>3. CalmStep(started, started, rx[q], rx[q], line[q], Sent(p, <<>>), {},
                   Tail(line[p]), Tail(line[p]), {}, part[q], part[q],
                   tx[q].state, tx[q].state)
      BY <1>4, <3>1, <3>2 DEF CalmStep
    <3>4. QED
      BY <2>7, <3>3, CalmFiles
  <2>9. QED
    BY <1>1, <2>1, <2>5, <2>8, Itself, OwnStep
<1>9. QED
  BY <1>3, <1>6, <1>7, <1>8

\* What p knows of its file and of the next packet while it sends.
LEMMA SendingNow ==
  ASSUME TypeInv, FilesHold, NEW p \in Peers, tx[p].state \in Sending,
         line[p] # <<>>
  PROVE  /\ Head(line[p]).type = "EOFACK" => rx[Other(p)].state = "FINFO"
         /\ Head(line[p]).type = "RPOS" =>
              Head(line[p]).pos <= Len(Batch[p][tx[p].file])
         /\ rx[Other(p)].state = "FINFO" /\ tx[p].open = TRUE =>
              saved[Other(p)][tx[p].file] # <<>>
         /\ None(line[Other(p)], {"FINFO"}) /\ None(line[p], {"FINFOACK"})
<1>1. Files(p, tx[p], rx[Other(p)], line[Other(p)], line[p], part[Other(p)],
            saved[Other(p)], tx[Other(p)].state)
  BY Both
<1>2. Streams(p, tx[p], rx[Other(p)], line[Other(p)], line[p], saved[Other(p)])
  BY <1>1 DEF Files
<1>3. 1 \in 1 .. Len(line[p]) /\ line[p][1] = Head(line[p])
  BY TailFacts DEF TypeInv
<1>4. tx[p].state \notin {"FINFOACK", "DONE"}
  BY DEF Sending
<1>5. None(line[Other(p)], {"FINFO"}) /\ None(line[p], {"FINFOACK"})
  BY <1>1, <1>4, NotAsked
<1>6. QED
  BY <1>2, <1>3, <1>5 DEF Streams

LEMMA RewoundFields ==
  ASSUME NEW p \in Peers, NEW t \in TxOf(p), t.state \in Sending,
         t.open = TRUE <=> t.pos >= 0, NEW n \in Nat, t.pos <= n,
         NEW pos \in Int, pos <= n, NEW id \in Nat
  PROVE  /\ Rewound(t, pos, id).state \in Sending
         /\ Rewound(t, pos, id).file = t.file
         /\ Rewound(t, pos, id).open = TRUE <=> Rewound(t, pos, id).pos >= 0
         /\ Rewound(t, pos, id).open = TRUE => t.open = TRUE
         /\ Rewound(t, pos, id).pos <= n
         /\ Rewound(t, pos, id).state \in {"EOF", "EOFACK"} =>
              Rewound(t, pos, id).pos < 0
<1> DEFINE u == Rewound(t, pos, id)
           s == [t EXCEPT !.syncid = id, !.retries = 1, !.timing = FALSE]
<1>1. t \in TxSet /\ t.open \in BOOLEAN /\ t.pos \in Int
  BY DEF TxOf, TxSet
<1>2. /\ s \in TxSet /\ s.state = t.state /\ s.file = t.file
      /\ s.open = t.open /\ s.pos = t.pos
  BY <1>1 DEF TxSet
<1>3. u = CASE pos < 0 -> [s EXCEPT !.pos = Skip, !.open = FALSE,
                                    !.state = IF t.open THEN "EOF" ELSE @]
            [] pos >= 0 /\ ~t.open -> [s EXCEPT !.pos = Skip, !.state = "EOF"]
            [] OTHER -> [s EXCEPT !.pos = pos,
                                  !.state = IF @ = "XWAIT" THEN @ ELSE "XDATA"]
  BY DEF Rewound
<1> HIDE DEF s, u
<1>4. CASE pos < 0
  <2>1. u = [s EXCEPT !.pos = Skip, !.open = FALSE,
                      !.state = IF t.open THEN "EOF" ELSE @]
    BY <1>3, <1>4
  <2>2. u.file = t.file /\ u.open = FALSE /\ u.pos = -2
        /\ u.state \in {"EOF", t.state}
    BY <1>2, <2>1 DEF TxSet, Skip
  <2>3. u.state \in Sending /\ -2 <= n /\ ~(-2 >= 0) /\ -2 < 0
    BY <2>2 DEF Sending
  <2>4. QED
    BY <2>2, <2>3 DEF u
<1>5. CASE ~(pos < 0) /\ t.open = FALSE
  <2>1. u = [s EXCEPT !.pos = Skip, !.state = "EOF"]
    BY <1>3, <1>5
  <2>2. u.file = t.file /\ u.open = FALSE /\ u.pos = -2 /\ u.state = "EOF"
    BY <1>2, <1>5, <2>1 DEF TxSet, Skip
  <2>3. u.state \in Sending /\ -2 <= n /\ ~(-2 >= 0) /\ -2 < 0
    BY <2>2 DEF Sending
  <2>4. QED
    BY <2>2, <2>3 DEF u
<1>6. CASE ~(pos < 0) /\ t.open = TRUE
  <2>1. u = [s EXCEPT !.pos = pos, !.state = IF @ = "XWAIT" THEN @ ELSE "XDATA"]
    BY <1>3, <1>6
  <2>2. u.file = t.file /\ u.open = TRUE /\ u.pos = pos
        /\ u.state \in {"XWAIT", "XDATA"}
    BY <1>2, <1>6, <2>1 DEF TxSet
  <2>3. u.state \in Sending /\ pos >= 0 /\ u.state \notin {"EOF", "EOFACK"}
    BY <1>6, <2>2 DEF Sending
  <2>4. QED
    BY <1>6, <2>2, <2>3 DEF u
<1>7. QED
  BY <1>1, <1>4, <1>5, <1>6

LEMMA ReceiveRposFiles ==
  ASSUME TypeInv, TypeInv', FilesHold, NEW p \in Peers, ReceiveRpos(p)
  PROVE  FilesHold'
<1> DEFINE q == Other(p)
           t == tx[p]
           m == Head(line[p])
           again == [t EXCEPT !.retries = @ + 1]
           u == CASE t.state \in Sending /\ ~Repeats(t, m) ->
                       Rewound(t, m.pos, m.id)
                  [] Repeats(t, m) -> again
                  [] OTHER -> t
<1>1. Running(p) /\ line[p] # <<>> /\ m.type = "RPOS"
  BY DEF ReceiveRpos, Arrived
<1>2. t \in TxOf(p) /\ t \in TxSet /\ m.pos \in Int /\ m.id \in Nat
  BY <1>1, OwnTypes, HeadType DEF TxOf, TypeInv
<1>3. CASE Abort(p)
  BY <1>3, AbortFiles
<1>4. CASE Settle(p, u, rx[p], dev[p], hdxlink[p]) /\ In(p, <<>>)
           /\ UNCHANGED Session
  <2>1. CASE t.state \in Sending /\ ~Repeats(t, m)
    <3> DEFINE n == Len(Batch[p][t.file])
               v == Rewound(t, m.pos, m.id)
    <3>1. u = v
      BY <2>1
    <3>2. v \in TxOf(p)
      BY <1>2, <2>1, RewoundType
    <3>3. /\ t.open = TRUE <=> t.pos >= 0
          /\ n \in Nat /\ t.pos <= n /\ m.pos <= n
      BY <1>1, <2>1, OwnSending, SendingNow
    <3>4. /\ v.state \in Sending /\ v.file = t.file
          /\ v.open = TRUE <=> v.pos >= 0
          /\ v.open = TRUE => t.open = TRUE
          /\ v.pos <= n
          /\ v.state \in {"EOF", "EOFACK"} => v.pos < 0
      <4> HIDE DEF n, t, m
      <4>1. QED
        BY <1>2, <2>1, <3>3, RewoundFields
    <3> HIDE DEF v, u
    <3>5. /\ Follows(Sent(p, <<>>), line[q], {}) /\ Len(line[q]) \in Nat
          /\ Follows(Tail(line[p]), line[p], {}) /\ Len(Tail(line[p])) \in Nat
          /\ Len(Sent(p, <<>>)) \in Nat
      BY <1>1, SentNothing, SentSeq, EmptySeq, TailFacts, LineSeq DEF TypeInv
    <3>6. SendingStep(p, t, v, line[q], Sent(p, <<>>), 0, line[p], Tail(line[p]))
      BY <2>1, <3>4, <3>5 DEF SendingStep
    <3>7. Files(p, v, rx[q], Sent(p, <<>>), Tail(line[p]), part[q], saved[q],
                tx[q].state)
      BY <3>6, Both, SendingFiles
    <3>8. QED
      BY <1>1, <1>4, <3>1, <3>2, <3>7, Itself, OwnStep
  <2>2. CASE Repeats(t, m)
    <3>1. u = again
      BY <2>2
    <3>2. again \in TxSet /\ again.state = t.state /\ again.file = t.file
          /\ again.open = t.open /\ again.pos = t.pos
      <4>1. t.retries + 1 \in Nat
        BY <1>2 DEF TxSet
      <4>2. QED
        BY <1>2, <4>1 DEF TxSet
    <3> HIDE DEF again, u
    <3>3. again \in TxOf(p) /\ Resembles(t, again)
      BY <1>2, <3>2 DEF TxOf, Resembles, Moves
    <3>4. QED
      BY <1>1, <1>4, <3>1, <3>3, Itself, TakenFiles
  <2>3. CASE t.state \notin Sending /\ ~Repeats(t, m)
    <3>1. u = t
      BY <2>3
    <3>2. QED
      BY <1>1, <1>4, <3>1, Itself, TakenFiles
  <2>4. QED
    BY <2>1, <2>2, <2>3
<1>5. QED
  BY <1>3, <1>4 DEF ReceiveRpos

LEMMA ReceiveEofackFiles ==
  ASSUME TypeInv, TypeInv', FilesHold, NEW p \in Peers, ReceiveEofack(p)
  PROVE  FilesHold'
<1>1. Running(p) /\ line[p] # <<>> /\ Head(line[p]).type = "EOFACK" /\ In(p, <<>>)
  BY DEF ReceiveEofack, Arrived
<1>2. CASE tx[p].state \in {"EOF", "EOFACK"}
  <2>1. PICK x : Returns(p, x)
    BY <1>2 DEF ReceiveEofack
  <2>2. tx[p].state \in Sending /\ tx[p].file \in FilesOf(p)
    BY <1>2, Itself DEF Sending, TxOf
  <2>3. /\ rx[Other(p)].state = "FINFO"
        /\ None(line[Other(p)], {"FINFO"}) /\ None(line[p], {"FINFOACK"})
    BY <1>1, <2>2, SendingNow
  <2>4. None(Tail(line[p]), {"FINFOACK"})
    <3>1. {} \cap {"FINFOACK"} = {} /\ Follows(Tail(line[p]), line[p], {})
      BY <1>1, TailFacts DEF TypeInv
    <3>2. QED
      BY <2>3, <3>1, FollowsNone
  <2>5. QED
    BY <1>1, <2>1, <2>2, <2>3, <2>4, ReturnsFiles
<1>3. CASE tx[p].state \notin {"EOF", "EOFACK"}
  <2>1. Settle(p, tx[p], rx[p], dev[p], hdxlink[p]) /\ UNCHANGED Session
    BY <1>3 DEF ReceiveEofack
  <2>2. QED
    BY <1>1, <2>1, Itself, TakenFiles
<1>4. QED
  BY <1>2, <1>3

-----------------------------------------------------------------------------
(***************************************************************************)
(* The receiver of p answers: only the files of the other are concerned.   *)
(***************************************************************************)
LEMMA AnswerStep ==
  ASSUME TypeInv, TypeInv', FilesHold, NEW p \in Peers, line[p] # <<>>,
         NEW x \in Packets, x.type \notin FileTypes,
         NEW r, NEW d, NEW h, Settle(p, tx[p], r, d, h), In(p, <<x>>),
         part'[Other(p)] = part[Other(p)], saved'[Other(p)] = saved[Other(p)],
         \A R2 : /\ Len(R2) \in Nat /\ Adds(R2, line[Other(p)], x)
                 /\ R2 # <<>> => Running(Other(p))
           => Files(Other(p), tx[Other(p)], r, Tail(line[p]), R2, part'[p],
                    saved'[p], tx[p].state)
  PROVE  FilesHold'
<1> DEFINE q == Other(p)
<1>1. <<x>> \in Seq(Packets) /\ \A i \in 1 .. Len(<<x>>) : <<x>>[i].type \in {x.type}
  BY OneInSeq
<1>2. /\ line'[p] = Tail(line[p]) /\ line'[q] = Sent(p, <<x>>)
      /\ Follows(line'[p], line[p], {})
      /\ Follows(line'[q], line[q], {x.type})
  BY <1>1, InFollows DEF TypeInv
<1>3. Len(line'[p]) \in Nat /\ Len(line'[q]) \in Nat
  BY OtherFacts, LenProperties DEF TypeInv, LineTyped
<1>4. Files(p, tx[p], rx[q], line'[q], line'[p], part[q], saved[q], tx[q].state)
  <2>1. {x.type} \cap FileTypes = {}
    OBVIOUS
  <2>2. QED
    BY <1>2, <1>3, <2>1, Itself, CalmOwn
<1>5. Adds(line'[q], line[q], x) /\ (line'[q] # <<>> => Running(q))
  BY <1>2, SentAdds DEF TypeInv
<1>6. Files(q, tx[q], r, line'[p], line'[q], part'[p], saved'[p], tx[p].state)
  BY <1>2, <1>3, <1>5
<1>7. QED
  BY <1>4, <1>6, Itself, SettledStep

\* What a receiver may answer to a FINFO for file k.
Rightly(p, k, r) ==
  LET t == tx[Other(p)]
  IN /\ r.pos \in Int /\ r.state # "INIT"
     /\ r.state = "DATA" =>
          /\ r.file = t.file /\ t.file <= Len(Batch[Other(p)])
          /\ t.state # "DONE" => r.pos >= 0
          /\ r.pos <= Len(Batch[Other(p)][t.file])
          /\ r.pos >= 0 => Len(part[p][t.file]) = r.pos
     /\ k # 0 /\ r.state # "DATA" =>
          r.pos < 0 /\ (r.pos = HaveIt => saved[p][k] # <<>>)

LEMMA ReceiveFinfoFiles ==
  ASSUME TypeInv, TypeInv', FilesHold, BatchesProceed, PartIsPrefix,
         NEW p \in Peers, ReceiveFinfo(p)
  PROVE  FilesHold'
<1> DEFINE q == Other(p)
           k == Head(line[p]).id
           r == rx[p]
           begun == [r EXCEPT !.state = "DATA", !.file = k,
                        !.pos = Len(part[p][k]), !.timing = FALSE,
                        !.retries = 0, !.lastsync = 0, !.syncid = 0]
<1>1. /\ Running(p) /\ line[p] # <<>> /\ Head(line[p]).type = "FINFO"
      /\ line[p] \in Seq(Packets) /\ q \in Peers /\ Other(q) = p
      /\ line[q] \in Seq(Packets) /\ Len(line[q]) \in Nat
  BY LineSeq DEF ReceiveFinfo, Arrived, TypeInv
<1>2. Files(q, tx[q], r, line[p], line[q], part[p], saved[p], tx[p].state)
  BY Both
<1>3. /\ tx[q].state \in {"FINFOACK", "DONE"} /\ k = FileId(q, tx[q])
      /\ r.state # "INIT"
  <2>1. 1 \in 1 .. Len(line[p]) /\ line[p][1] = Head(line[p])
    BY <1>1, TailFacts DEF TypeInv
  <2>2. Met(tx[q], line[p], line[q])
    BY <1>1, <2>1 DEF Met, None
  <2>3. QED
    BY <1>1, <1>2, <2>1, <2>2 DEF Files, Offers, Greets
<1>4. tx[q].file \in Nat \ {0} /\ Len(Batch[q]) \in Nat
  BY <1>1, BatchType DEF BatchesProceed, Proceeds
<1>5. /\ k \in Nat /\ r \in RxSet /\ r.pos \in Int
      /\ \A j \in FilesOf(q) : Len(part[p][j]) \in Nat
                               /\ Len(part[p][j]) <= Len(Batch[q][j])
  <2>1. k \in Nat /\ r \in RxSet
    BY <1>1, HeadType, OwnTypes DEF RxOf, TypeInv
  <2>2. ASSUME NEW j \in FilesOf(q)
        PROVE  Len(part[p][j]) \in Nat /\ Len(part[p][j]) <= Len(Batch[q][j])
    <3>1. IsPrefix(part[p][j], Batch[q][j])
      BY <2>2 DEF PartIsPrefix
    <3>2. part[p][j] \in Seq(Units)
      BY DEF TypeInv, DiskTyped
    <3>3. QED
      BY <3>1, <3>2, LenProperties DEF IsPrefix
  <2>3. QED
    BY <2>1, <2>2 DEF RxSet
<1>6. k # 0 => k = tx[q].file /\ k \in FilesOf(q)
  BY <1>3, <1>4 DEF FileId, FilesOf
<1>7. ASSUME NEW r2, Answers(p, r2), Rightly(p, k, r2)
      PROVE  FilesHold'
  <2> DEFINE x == Position("FINFOACK", r2.pos)
  <2>1. x \in Packets /\ x.type = "FINFOACK" /\ x.pos = r2.pos
    BY <1>7, PositionPacket DEF PacketTypes, Rightly
  <2>2. x.type \notin FileTypes
    BY <2>1 DEF FileTypes
  <2>3. /\ Settle(p, tx[p], r2, dev[p], hdxlink[p]) /\ In(p, <<x>>)
        /\ part' = part /\ saved' = saved
    BY <1>7 DEF Answers, Session
  <2> HIDE DEF x
  <2>4. ASSUME NEW R2, Len(R2) \in Nat, Adds(R2, line[q], x),
               R2 # <<>> => Running(q)
        PROVE  Files(q, tx[q], r2, Tail(line[p]), R2, part'[p], saved'[p],
                     tx[p].state)
    <3>1. FinfoStep(q, tx[q], line[p], r2, line[q], R2, x, part[p], saved[p],
                    tx[p].state)
      BY <1>1, <1>4, <1>7, <2>1, <2>4 DEF FinfoStep, Running, Rightly
    <3>2. QED
      BY <1>1, <1>2, <2>3, <3>1, FinfoFiles
  <2>5. QED
    BY <1>1, <2>1, <2>2, <2>3, <2>4, AnswerStep
<1>8. CASE r.state = "FINFO" /\ k = 0
           /\ Answers(p, [r EXCEPT !.pos = 0, !.state = "DONE"])
  <2>1. Rightly(p, k, [r EXCEPT !.pos = 0, !.state = "DONE"])
    BY <1>5, <1>8 DEF RxSet, Rightly
  <2>2. QED
    BY <1>7, <1>8, <2>1
<1>9. CASE r.state = "FINFO" /\ k # 0 /\ AlreadyHave(p, k)
           /\ Answers(p, [r EXCEPT !.pos = HaveIt])
  <2>1. Rightly(p, k, [r EXCEPT !.pos = HaveIt])
    BY <1>5, <1>9 DEF RxSet, HaveIt, AlreadyHave, Rightly
  <2>2. QED
    BY <1>7, <1>9, <2>1
<1>10. CASE r.state = "FINFO" /\ k # 0 /\ Answers(p, begun)
  <2>1. /\ begun.state = "DATA" /\ begun.file = k
        /\ begun.pos = Len(part[p][k])
    BY <1>5 DEF RxSet
  <2>2. /\ Len(part[p][k]) \in Nat /\ Len(part[p][k]) <= Len(Batch[q][k])
        /\ k = tx[q].file /\ k <= Len(Batch[q])
    BY <1>5, <1>6, <1>10 DEF FilesOf
  <2> HIDE DEF begun
  <2>3. Rightly(p, k, begun)
    BY <2>1, <2>2 DEF Rightly
  <2>4. QED
    BY <1>7, <1>10, <2>3
<1>11. CASE r.state = "FINFO" /\ k # 0 /\ Answers(p, [r EXCEPT !.pos = Skip])
  <2>1. Rightly(p, k, [r EXCEPT !.pos = Skip])
    BY <1>5, <1>11 DEF RxSet, HaveIt, Skip, Rightly
  <2>2. QED
    BY <1>7, <1>11, <2>1
<1>12. CASE r.state = "DONE"
            /\ Answers(p, [r EXCEPT !.pos = IF k = 0 THEN 0 ELSE Skip])
  <2>1. Rightly(p, k, [r EXCEPT !.pos = IF k = 0 THEN 0 ELSE Skip])
    BY <1>5, <1>12 DEF RxSet, HaveIt, Skip, Rightly
  <2>2. QED
    BY <1>7, <1>12, <2>1
<1>13. CASE r.state = "DATA" /\ Answers(p, r)
  <2>1. /\ r.file = tx[q].file /\ tx[q].file <= Len(Batch[q])
        /\ tx[q].state = "FINFOACK" => r.pos >= 0
        /\ tx[p].state # "DONE" /\ r.pos >= 0 => Len(part[p][tx[q].file]) = r.pos
    BY <1>2, <1>13 DEF Files, Copies
  <2>2. /\ tx[q].state # "DONE" => r.pos >= 0
        /\ r.pos >= 0 => Len(part[p][tx[q].file]) = r.pos
    BY <1>1, <1>3, <2>1 DEF Running
  <2>3. tx[q].file \in FilesOf(q) /\ Len(Batch[q][tx[q].file]) \in Nat
    <3>1. tx[q].file \in FilesOf(q)
      BY <1>4, <2>1 DEF FilesOf
    <3>2. Batch[q][tx[q].file] \in Seq(Units)
      BY <1>1, <3>1, BatchType
    <3>3. QED
      BY <3>1, <3>2, LenProperties
  <2>4. r.pos <= Len(Batch[q][tx[q].file])
    <3>1. /\ Len(part[p][tx[q].file]) \in Nat
          /\ Len(part[p][tx[q].file]) <= Len(Batch[q][tx[q].file])
      BY <1>5, <2>3
    <3> HIDE DEF r, q
    <3>2. QED
      BY <1>5, <2>2, <2>3, <3>1
  <2>5. Rightly(p, k, r)
    BY <1>5, <1>13, <2>1, <2>2, <2>4 DEF Rightly
  <2>6. QED
    BY <1>7, <1>13, <2>5
<1>14. QED
  BY <1>3, <1>8, <1>9, <1>10, <1>11, <1>12, <1>13 DEF ReceiveFinfo

\* What p knows of the file that it writes.
LEMMA WriterNow ==
  ASSUME TypeInv, FilesHold, PartIsPrefix, NEW p \in Peers, Running(p),
         rx[p].state = "DATA"
  PROVE  /\ rx[p] \in RxSet /\ rx[p].pos \in Int
         /\ rx[p].file = tx[Other(p)].file
         /\ rx[p].file \in FilesOf(Other(p))
         /\ Batch[Other(p)][rx[p].file] \in Seq(Units)
         /\ part[p][rx[p].file] \in Seq(Units)
         /\ Len(Batch[Other(p)][rx[p].file]) \in Nat
         /\ rx[p].pos >= 0 => Len(part[p][rx[p].file]) = rx[p].pos
         /\ rx[p].pos <= Len(Batch[Other(p)][rx[p].file])
<1> DEFINE q == Other(p)
           k == rx[p].file
           n == Len(Batch[q][k])
<1>1. rx[p] \in RxSet /\ rx[p].pos \in Int /\ k \in FilesOf(q) /\ q \in Peers
  BY OwnTypes, OtherFacts DEF RxOf, RxSet
<1>2. /\ Batch[q][k] \in Seq(Units) /\ n \in Nat
      /\ part[p][k] \in Seq(Units) /\ Len(part[p][k]) \in Nat
      /\ Len(part[p][k]) <= n
  <2>1. Batch[q][k] \in Seq(Units)
    BY <1>1, BatchType
  <2>2. part[p][k] \in Seq(Units)
    BY <1>1 DEF TypeInv, DiskTyped
  <2>3. IsPrefix(part[p][k], Batch[q][k])
    BY <1>1 DEF PartIsPrefix
  <2>4. QED
    BY <2>1, <2>2, <2>3, LenProperties DEF IsPrefix
<1>3. k = tx[q].file /\ (rx[p].pos >= 0 => Len(part[p][k]) = rx[p].pos)
  <2>1. Files(q, tx[q], rx[p], line[p], line[q], part[p], saved[p], tx[p].state)
    BY Both
  <2>2. QED
    BY <2>1 DEF Files, Copies, Running
<1>4. rx[p].pos <= n
  <2> HIDE DEF k, n
  <2>1. QED
    BY <1>1, <1>2, <1>3
<1>5. QED
  BY <1>1, <1>2, <1>3, <1>4

\* The receiver that writes goes on writing and sends x.
LEMMA WritesOn ==
  ASSUME TypeInv, TypeInv', FilesHold, PartIsPrefix, NEW p \in Peers, Running(p),
         line[p] # <<>>, Head(line[p]).type \in {"DATA", "EOF"},
         rx[p].state = "DATA", NEW x \in Packets,
         \/ x.type = "DATAACK"
         \/ x.type = "RPOS" /\ x.pos <= Len(Batch[Other(p)][rx[p].file]),
         NEW r, r.state = "DATA", r.file = rx[p].file,
         r.pos >= 0 => Len(part'[p][r.file]) = r.pos,
         NEW R, Len(R) \in Nat, Adds(R, line[Other(p)], x)
  PROVE  Files(Other(p), tx[Other(p)], r, Tail(line[p]), R, part'[p], saved[p],
               tx[p].state)
<1> DEFINE q == Other(p)
<1>1. Files(q, tx[q], rx[p], line[p], line[q], part[p], saved[p], tx[p].state)
  BY Both
<1>2. /\ q \in Peers /\ Len(line[p]) \in Nat /\ Len(line[p]) >= 1
      /\ line[p][1] = Head(line[p]) /\ Len(Tail(line[p])) \in Nat
      /\ Follows(Tail(line[p]), line[p], {}) /\ Len(line[q]) \in Nat
  BY TailFacts, LineSeq DEF TypeInv
<1>3. rx[p].file = tx[q].file
  BY WriterNow
<1>4. WriteStep(q, tx[q], line[p], Tail(line[p]), rx[p], r, line[q], R, x,
                part'[p], tx[p].state)
  BY <1>2, <1>3 DEF WriteStep
<1>5. QED
  BY <1>1, <1>2, <1>4, WriteFiles

LEMMA RposPacket ==
  ASSUME NEW n \in Int, NEW id \in Nat
  PROVE  /\ Rpos(n, id) \in Packets /\ Rpos(n, id).type = "RPOS"
         /\ Rpos(n, id).pos = n /\ Rpos(n, id).type \notin FileTypes
BY EmptySeq DEF Rpos, Packet, Packets, PacketTypes, FileTypes

\* A receiver that asks for the file again.
LEMMA AsksFiles ==
  ASSUME TypeInv, TypeInv', FilesHold, PartIsPrefix, NEW p \in Peers, Running(p),
         line[p] # <<>>, Head(line[p]).type \in {"DATA", "EOF"},
         rx[p].state = "DATA", NEW r, r.state = "DATA", r.file = rx[p].file,
         NEW n \in Int, n <= Len(Batch[Other(p)][rx[p].file]), NEW id \in Nat,
         r.pos >= 0 => Len(part'[p][r.file]) = r.pos,
         part'[Other(p)] = part[Other(p)], saved' = saved,
         NEW d, NEW h, Settle(p, tx[p], r, d, h), In(p, <<Rpos(n, id)>>)
  PROVE  FilesHold'
<1> DEFINE x == Rpos(n, id)
<1>1. /\ x \in Packets /\ x.type = "RPOS" /\ x.pos = n /\ x.type \notin FileTypes
  BY RposPacket
<1>2. In(p, <<x>>)
  OBVIOUS
<1> HIDE DEF x
<1>3. ASSUME NEW R, Len(R) \in Nat, Adds(R, line[Other(p)], x),
             R # <<>> => Running(Other(p))
      PROVE  Files(Other(p), tx[Other(p)], r, Tail(line[p]), R, part'[p],
                   saved'[p], tx[p].state)
  BY <1>1, <1>3, WritesOn
<1>4. QED
  BY <1>1, <1>2, <1>3, AnswerStep

LEMMA MisplacedFiles ==
  ASSUME TypeInv, TypeInv', FilesHold, PartIsPrefix, NEW p \in Peers, Running(p),
         line[p] # <<>>, Head(line[p]).type \in {"DATA", "EOF"},
         rx[p].state = "DATA", NEW pos, NEW may, Misplaced(p, pos, may)
  PROVE  FilesHold'
<1> DEFINE r == IF pos <= rx[p].lastsync
                THEN [rx[p] EXCEPT !.lastsync = pos, !.timing = FALSE,
                                   !.retries = 0]
                ELSE [rx[p] EXCEPT !.lastsync = pos]
<1>1. /\ rx[p] \in RxSet /\ rx[p].pos \in Int
      /\ rx[p].pos >= 0 => Len(part[p][rx[p].file]) = rx[p].pos
      /\ rx[p].pos <= Len(Batch[Other(p)][rx[p].file])
  BY WriterNow
<1>2. r.state = "DATA" /\ r.file = rx[p].file /\ r.pos = rx[p].pos
      /\ r.retries \in Nat /\ r.syncid \in Nat
  BY <1>1 DEF RxSet
<1>3. CASE Abort(p)
  BY <1>3, AbortFiles
<1>4. CASE /\ Settle(p, tx[p], r, dev[p], hdxlink[p])
           /\ In(p, <<>>) /\ UNCHANGED Session
  <2>1. SameFile(rx[p], r)
    BY <1>2 DEF SameFile
  <2> HIDE DEF r
  <2>2. QED
    BY <1>4, <2>1, Itself, TakenFiles
<1>5. ASSUME NEW tries, NEW h, NEW asked,
             asked = [r EXCEPT !.retries = tries, !.timing = TRUE,
                               !.syncid = IF tries = 1 THEN @ + 1 ELSE @],
             Settle(p, tx[p], asked, dev[p], h),
             In(p, <<Rpos(r.pos, asked.syncid)>>), UNCHANGED Session
      PROVE  FilesHold'
  <2>1. asked.state = "DATA" /\ asked.file = rx[p].file /\ asked.pos = rx[p].pos
        /\ asked.syncid \in Nat
    <3>1. /\ "state" \in DOMAIN r /\ "file" \in DOMAIN r /\ "pos" \in DOMAIN r
          /\ "syncid" \in DOMAIN r
      BY <1>1 DEF RxSet
    <3> HIDE DEF r
    <3>2. QED
      BY <1>2, <1>5, <3>1
  <2>2. In(p, <<Rpos(rx[p].pos, asked.syncid)>>) /\ part' = part /\ saved' = saved
    BY <1>2, <1>5 DEF Session
  <2> HIDE DEF r
  <2>3. QED
    BY <1>1, <1>5, <2>1, <2>2, AsksFiles
<1> DEFINE falls == /\ may /\ r.retries > OneWayRetries
                    /\ tx[p].state \in BeforeRend
                    /\ p \notin Originators /\ ~hdxlink[p]
           tries == IF falls THEN 1 ELSE r.retries + 1
           asked == [r EXCEPT !.retries = tries, !.timing = TRUE,
                              !.syncid = IF tries = 1 THEN @ + 1 ELSE @]
<1>6. \/ Abort(p)
      \/ /\ Settle(p, tx[p], r, dev[p], hdxlink[p])
         /\ In(p, <<>>) /\ UNCHANGED Session
      \/ /\ Settle(p, tx[p], asked, dev[p], hdxlink[p] \/ falls)
         /\ In(p, <<Rpos(r.pos, asked.syncid)>>) /\ UNCHANGED Session
  BY Zenon DEF Misplaced
<1> DEFINE h == hdxlink[p] \/ falls
<1>7. CASE /\ Settle(p, tx[p], asked, dev[p], h)
           /\ In(p, <<Rpos(r.pos, asked.syncid)>>) /\ UNCHANGED Session
  <2>1. asked = [r EXCEPT !.retries = tries, !.timing = TRUE,
                          !.syncid = IF tries = 1 THEN @ + 1 ELSE @]
    OBVIOUS
  <2> HIDE DEF asked, tries, h, falls, r
  <2>2. QED
    BY <1>5, <1>7, <2>1
<1>8. QED
  BY <1>3, <1>4, <1>6, <1>7, Zenon DEF h

\* What changes when p puts s in the place of the part that it has of a file.
Puts(p, k, s) == part' = [part EXCEPT ![p][k] = s]

LEMMA AppendedPart ==
  ASSUME TypeInv, NEW p \in Peers, NEW k \in FilesOf(Other(p)), NEW s,
         Puts(p, k, s)
  PROVE  /\ part'[p][k] = s
         /\ part'[Other(p)] = part[Other(p)]
         /\ \A j \in FilesOf(Other(p)) : j # k => part'[p][j] = part[p][j]
BY OtherFacts DEF TypeInv, DiskTyped, Puts

LEMMA ClosedPart ==
  ASSUME TypeInv, NEW p \in Peers, part' = Closed(p)
  PROVE  /\ part'[Other(p)] = part[Other(p)]
         /\ \A j \in FilesOf(Other(p)) : part'[p][j] \in {part[p][j], <<>>}
<1>1. CASE Receiving(p)
  <2>1. rx[p].file \in FilesOf(Other(p))
    BY <1>1, OwnTypes DEF Receiving, RxOf
  <2>2. part' = [part EXCEPT ![p][rx[p].file] = Kept(part[p][rx[p].file])]
    BY <1>1, <2>1 DEF Closed, TypeInv, DiskTyped
  <2>3. Kept(part[p][rx[p].file]) \in {part[p][rx[p].file], <<>>}
    BY DEF Kept
  <2>4. QED
    <3> DEFINE k == rx[p].file
               s == Kept(part[p][rx[p].file])
    <3>1. k \in FilesOf(Other(p)) /\ Puts(p, k, s) /\ s \in {part[p][k], <<>>}
      BY <2>1, <2>2, <2>3 DEF Puts
    <3> HIDE DEF k, s
    <3>2. /\ part'[Other(p)] = part[Other(p)] /\ part'[p][k] = s
          /\ \A j \in FilesOf(Other(p)) : j # k => part'[p][j] = part[p][j]
      BY <3>1, AppendedPart
    <3>3. QED
      BY <3>1, <3>2
<1>2. CASE ~Receiving(p)
  BY <1>2 DEF Closed
<1>3. QED
  BY <1>1, <1>2

LEMMA ReceiveDataFiles ==
  ASSUME TypeInv, TypeInv', FilesHold, PartIsPrefix, NEW p \in Peers,
         ReceiveData(p)
  PROVE  FilesHold'
<1> DEFINE q == Other(p)
           m == Head(line[p])
           k == rx[p].file
           pos == rx[p].pos + Len(m.data)
           r == [rx[p] EXCEPT !.pos = pos, !.lastsync = rx[p].pos,
                              !.retries = 0, !.timing = FALSE]
           x == Position("DATAACK", pos)
<1>1. Running(p) /\ line[p] # <<>> /\ m.type = "DATA"
  BY DEF ReceiveData, Arrived
<1>2. CASE rx[p].state # "DATA"
  <2>1. Settle(p, tx[p], rx[p], dev[p], hdxlink[p]) /\ In(p, <<>>)
        /\ UNCHANGED Session
    BY <1>2 DEF ReceiveData
  <2>2. QED
    BY <1>1, <2>1, Itself, TakenFiles
<1>3. CASE rx[p].state = "DATA" /\ ~InPlace(p)
  <2>1. Misplaced(p, m.pos, TRUE)
    BY <1>3 DEF ReceiveData
  <2>2. QED
    BY <1>1, <1>3, <2>1, MisplacedFiles
<1>4. CASE rx[p].state = "DATA" /\ InPlace(p)
  <2>1. /\ Settle(p, tx[p], r, dev[p], hdxlink[p])
        /\ part' = [part EXCEPT ![p][k] = @ \o m.data]
        /\ In(p, IF Window(q) # 0 THEN <<x>> ELSE <<>>)
        /\ saved' = saved
    BY <1>4 DEF ReceiveData
  <2>2. /\ rx[p] \in RxSet /\ rx[p].pos \in Int /\ k \in FilesOf(q)
        /\ part[p][k] \in Seq(Units)
        /\ rx[p].pos >= 0 => Len(part[p][k]) = rx[p].pos
        /\ k = tx[q].file
    BY <1>1, <1>4, WriterNow
  <2>3. m.data \in Seq(Units) /\ Len(m.data) \in Nat
    BY <1>1, HeadType, LenProperties DEF TypeInv
  <2>4. rx[p].pos >= 0
    <3>1. Files(q, tx[q], rx[p], line[p], line[q], part[p], saved[p], tx[p].state)
      BY Both
    <3>2. 1 \in 1 .. Len(line[p]) /\ line[p][1] = m
      BY <1>1, TailFacts DEF TypeInv
    <3>3. IsPiece(m, Batch[q][tx[q].file])
      BY <1>1, <1>4, <3>1, <3>2 DEF Files, Copies
    <3>4. QED
      BY <1>4, <3>3 DEF IsPiece, InPlace
  <2>5. r.state = "DATA" /\ r.file = k /\ r.pos = pos /\ pos \in Int
    BY <1>4, <2>2, <2>3 DEF RxSet
  <2>6. part' = [part EXCEPT ![p][k] = part[p][k] \o m.data]
    BY <2>1, <2>2 DEF TypeInv, DiskTyped
  <2>7. part'[p][k] = part[p][k] \o m.data /\ part'[q] = part[q]
    <3> DEFINE s == part[p][k] \o m.data
    <3>1. k \in FilesOf(q) /\ Puts(p, k, s)
      BY <2>2, <2>6 DEF Puts
    <3> HIDE DEF s, k
    <3>2. part'[p][k] = s /\ part'[q] = part[q]
      BY <3>1, AppendedPart
    <3>3. QED
      BY <3>2 DEF s
  <2>8. Len(part'[p][k]) = pos
    <3>1. Len(part[p][k] \o m.data) = Len(part[p][k]) + Len(m.data)
      <4> HIDE DEF k, m
      <4>1. QED
        BY <2>2, <2>3, ConcatProperties
    <3>2. QED
      BY <2>2, <2>3, <2>4, <2>7, <3>1
  <2>9. x \in Packets /\ x.type = "DATAACK" /\ x.type \notin FileTypes
    BY <2>5, PositionPacket DEF PacketTypes, FileTypes
  <2> HIDE DEF r, x, pos
  <2>10. ASSUME NEW R, Len(R) \in Nat, Adds(R, line[q], x)
         PROVE  Files(q, tx[q], r, Tail(line[p]), R, part'[p], saved[p],
                      tx[p].state)
    BY <1>1, <1>4, <2>5, <2>8, <2>9, <2>10, WritesOn
  <2>11. CASE In(p, <<x>>)
    BY <1>1, <2>1, <2>7, <2>9, <2>10, <2>11, AnswerStep
  <2>12. CASE In(p, <<>>)
    <3> DEFINE R == line[q] \o <<x>>
    <3>1. line[q] \in Seq(Packets) /\ Len(line[q]) \in Nat
      BY LineSeq DEF TypeInv
    <3>2. R \in Seq(Packets) /\ Len(R) = Len(line[q]) + 1 /\ Adds(R, line[q], x)
          /\ \A i \in 1 .. Len(line[q]) : R[i] = line[q][i]
      BY <2>9, <3>1, AddsOne, ConcatProperties
    <3> HIDE DEF R
    <3>3. Files(q, tx[q], r, Tail(line[p]), R, part'[p], saved[p], tx[p].state)
      BY <2>10, <3>1, <3>2
    <3>4. /\ <<>> \in Seq(Packets)
          /\ \A i \in 1 .. Len(<<>>) : <<>>[i].type \in {}
      BY EmptySeq
    <3>5. /\ line'[p] = Tail(line[p]) /\ line'[q] = Sent(p, <<>>)
          /\ Follows(line'[p], line[p], {}) /\ Follows(line'[q], line[q], {})
      BY <1>1, <2>12, <3>4, InFollows DEF TypeInv
    <3>6. Len(line'[p]) \in Nat /\ Len(line'[q]) \in Nat
      BY OtherFacts, LenProperties DEF TypeInv, LineTyped
    <3>7. Files(p, tx[p], rx[q], line'[q], line'[p], part[q], saved[q], tx[q].state)
      <4>1. {} \cap FileTypes = {}
        OBVIOUS
      <4>2. QED
        BY <3>5, <3>6, <4>1, Itself, CalmOwn
    <3>8. Follows(line'[q], R, {})
      <4>1. PICK n \in Nat, o \in Nat : \A i \in 1 .. Len(line'[q]) :
              \/ i <= n /\ i + o \in 1 .. Len(line[q]) /\ line'[q][i] = line[q][i + o]
              \/ i > n /\ line'[q][i].type \in {}
        BY <3>5 DEF Follows
      <4>2. \A i \in 1 .. Len(line'[q]) :
              i <= n /\ i + o \in 1 .. Len(R) /\ line'[q][i] = R[i + o]
        <5>1. SUFFICES ASSUME NEW i \in 1 .. Len(line'[q])
                       PROVE  /\ i <= n /\ i + o \in 1 .. Len(R)
                              /\ line'[q][i] = R[i + o]
          OBVIOUS
        <5>2. i <= n /\ i + o \in 1 .. Len(line[q]) /\ line'[q][i] = line[q][i + o]
          BY <4>1
        <5>3. QED
          BY <3>1, <3>2, <5>2
      <4>3. QED
        BY <4>2 DEF Follows
    <3>9. Files(q, tx[q], r, line'[p], line'[q], part'[p], saved[p], tx[p].state)
      <4>1. /\ Follows(line'[p], line'[p], {}) /\ SameFile(r, r)
            /\ Resembles(tx[q], tx[q])
        BY <3>6, FollowsItself DEF SameFile, Resembles, Moves
      <4>2. CalmStep(tx[q], tx[q], r, r, line'[p], line'[p], {}, R, line'[q], {},
                     part'[p], part'[p], tx[p].state, tx[p].state)
        BY <3>6, <3>8, <4>1 DEF CalmStep
      <4>3. Files(q, tx[q], r, line'[p], R, part'[p], saved[p], tx[p].state)
        BY <3>3, <3>5
      <4>4. QED
        BY <4>2, <4>3, OtherFacts, CalmFiles
    <3>10. QED
      BY <2>1, <2>7, <3>7, <3>9, Itself, SettledStep
  <2>13. QED
    BY <2>1, <2>11, <2>12
<1>5. QED
  BY <1>2, <1>3, <1>4

LEMMA WriteErrorFiles ==
  ASSUME TypeInv, TypeInv', FilesHold, PartIsPrefix, NEW p \in Peers,
         WriteError(p)
  PROVE  FilesHold'
<1> DEFINE r == [rx[p] EXCEPT !.pos = Skip, !.retries = 1, !.timing = TRUE,
                              !.syncid = @ + 1]
<1>1. /\ Running(p) /\ line[p] # <<>> /\ Head(line[p]).type = "DATA"
      /\ rx[p].state = "DATA" /\ Settle(p, tx[p], r, dev[p], hdxlink[p])
      /\ part' = Closed(p) /\ saved' = saved
      /\ In(p, <<Rpos(Skip, r.syncid)>>)
  BY DEF WriteError, Arrived
<1>2. rx[p] \in RxSet /\ Len(Batch[Other(p)][rx[p].file]) \in Nat
  BY <1>1, WriterNow
<1>3. r.state = "DATA" /\ r.file = rx[p].file /\ r.pos = -2 /\ r.syncid \in Nat
  BY <1>1, <1>2 DEF RxSet, Skip
<1>4. Skip \in Int /\ Skip <= Len(Batch[Other(p)][rx[p].file]) /\ ~(r.pos >= 0)
  BY <1>2, <1>3 DEF Skip
<1>5. part'[Other(p)] = part[Other(p)]
  BY <1>1, ClosedPart
<1> HIDE DEF r
<1>6. QED
  BY <1>1, <1>3, <1>4, <1>5, AsksFiles

\* The receiver of p acknowledges an EOF.
LEMMA AcknowledgesFiles ==
  ASSUME TypeInv, TypeInv', FilesHold, NEW p \in Peers, Running(p),
         line[p] # <<>>, Head(line[p]).type = "EOF",
         rx[p].state \in {"FINFO", "DATA"}, Acknowledges(p),
         part'[Other(p)] = part[Other(p)], saved'[Other(p)] = saved[Other(p)],
         tx[Other(p)].state \in Sending /\ tx[Other(p)].open = TRUE =>
           saved'[p][tx[Other(p)].file] # <<>>
  PROVE  FilesHold'
<1> DEFINE q == Other(p)
           x == Signal("EOFACK")
           r == [rx[p] EXCEPT !.state = "FINFO"]
<1>1. Settle(p, tx[p], r, dev[p], hdxlink[p]) /\ In(p, <<x>>)
  BY DEF Acknowledges
<1>2. x \in Packets /\ x.type = "EOFACK" /\ x.type \notin FileTypes
  BY SignalSeq DEF PacketTypes, FileTypes
<1>3. r.state = "FINFO"
  BY OwnTypes DEF RxOf, RxSet
<1> HIDE DEF r, x
<1>4. ASSUME NEW R, Len(R) \in Nat, Adds(R, line[q], x), R # <<>> => Running(q)
      PROVE  Files(q, tx[q], r, Tail(line[p]), R, part'[p], saved'[p], tx[p].state)
  <2>1. Files(q, tx[q], rx[p], line[p], line[q], part[p], saved[p], tx[p].state)
    BY Both
  <2>2. /\ q \in Peers /\ Len(line[p]) \in Nat /\ Len(line[p]) >= 1
        /\ line[p][1] = Head(line[p]) /\ Len(Tail(line[p])) \in Nat
        /\ Follows(Tail(line[p]), line[p], {}) /\ Len(line[q]) \in Nat
    BY TailFacts, LineSeq DEF TypeInv
  <2>3. EofStep(tx[q], line[p], Tail(line[p]), rx[p], r, line[q], R, x, saved'[p])
    BY <1>2, <1>3, <1>4, <2>2 DEF EofStep
  <2>4. QED
    BY <2>1, <2>2, <2>3, EofFiles
<1>5. QED
  BY <1>1, <1>2, <1>4, AnswerStep

\* What changes when p saves the file that it has received.
Saves(p, k, s) == saved' = [saved EXCEPT ![p][k] = Append(@, s)]

LEMMA SavedNow ==
  ASSUME TypeInv, NEW p \in Peers, NEW k \in FilesOf(Other(p)),
         NEW s \in Seq(Units), Saves(p, k, s)
  PROVE  /\ saved'[p][k] = Append(saved[p][k], s)
         /\ saved[p][k] \in Seq(Seq(Units)) /\ Len(saved[p][k]) \in Nat
         /\ Len(saved'[p][k]) = Len(saved[p][k]) + 1
         /\ saved'[p][k] # <<>>
         /\ saved'[p][k][Len(saved[p][k]) + 1] = s
         /\ \A i \in 1 .. Len(saved[p][k]) : saved'[p][k][i] = saved[p][k][i]
         /\ saved'[Other(p)] = saved[Other(p)]
         /\ \A j \in FilesOf(Other(p)) : j # k => saved'[p][j] = saved[p][j]
<1> DEFINE old == saved[p][k]
<1>1. saved'[p][k] = Append(old, s)
      /\ saved'[Other(p)] = saved[Other(p)]
      /\ \A j \in FilesOf(Other(p)) : j # k => saved'[p][j] = saved[p][j]
  BY OtherFacts DEF Saves, TypeInv, DiskTyped
<1>2. old \in Seq(Seq(Units))
  BY DEF TypeInv, DiskTyped
<1> HIDE DEF old
<1>3. /\ Len(old) \in Nat /\ Len(Append(old, s)) = Len(old) + 1
      /\ Append(old, s)[Len(old) + 1] = s /\ Append(old, s) # <<>>
      /\ \A i \in 1 .. Len(old) : Append(old, s)[i] = old[i]
  BY <1>2, LenProperties, AppendProperties
<1>4. QED
  BY <1>1, <1>2, <1>3 DEF old

LEMMA ReceiveEofFiles ==
  ASSUME TypeInv, TypeInv', FilesHold, PartIsPrefix, NEW p \in Peers,
         ReceiveEof(p)
  PROVE  FilesHold'
<1> DEFINE q == Other(p)
           pos == Head(line[p]).pos
           r == rx[p]
<1>1. Running(p) /\ line[p] # <<>> /\ Head(line[p]).type = "EOF" /\ q # p
  BY OtherFacts DEF ReceiveEof, Arrived
<1>2. Streams(q, tx[q], r, line[p], line[q], saved[p])
  BY Both DEF Files
<1>3. 1 \in 1 .. Len(line[p]) /\ line[p][1] = Head(line[p]) /\ pos \in Int
  BY <1>1, TailFacts, HeadType DEF TypeInv
<1>4. CASE r.state = "FINFO" /\ Acknowledges(p) /\ UNCHANGED <<part, saved>>
  <2>1. tx[q].state \in Sending /\ tx[q].open = TRUE => saved[p][tx[q].file] # <<>>
    BY <1>2, <1>4 DEF Streams
  <2>2. QED
    BY <1>1, <1>4, <2>1, AcknowledgesFiles
<1>5. CASE r.state = "DATA" /\ pos < 0 /\ Acknowledges(p) /\ part' = Closed(p)
           /\ UNCHANGED saved
  <2>1. ~(tx[q].state \in Sending /\ tx[q].open = TRUE)
    BY <1>1, <1>2, <1>3, <1>5 DEF Streams
  <2>2. part'[q] = part[q]
    BY <1>5, ClosedPart
  <2>3. QED
    BY <1>1, <1>5, <2>1, <2>2, AcknowledgesFiles
<1>6. CASE r.state = "DATA" /\ pos >= 0 /\ InPlace(p) /\ Acknowledges(p)
           /\ part' = [part EXCEPT ![p][r.file] = <<>>]
           /\ saved' = [saved EXCEPT ![p][r.file] = Append(@, part[p][r.file])]
  <2>1. r.file = tx[q].file /\ r.file \in FilesOf(q)
        /\ part[p][r.file] \in Seq(Units)
    BY <1>1, <1>6, WriterNow
  <2>2. Saves(p, r.file, part[p][r.file]) /\ Puts(p, r.file, <<>>)
    BY <1>6 DEF Saves, Puts
  <2>3. saved'[p][tx[q].file] # <<>> /\ saved'[q] = saved[q]
    BY <2>1, <2>2, SavedNow
  <2>4. part'[q] = part[q]
    BY <2>1, <2>2, AppendedPart
  <2>5. QED
    BY <1>1, <1>6, <2>3, <2>4, AcknowledgesFiles
<1>7. CASE r.state = "DATA" /\ Misplaced(p, pos, FALSE)
  BY <1>1, <1>7, MisplacedFiles
<1>8. CASE Settle(p, tx[p], r, dev[p], hdxlink[p]) /\ In(p, <<>>)
           /\ UNCHANGED Session
  BY <1>1, <1>8, Itself, TakenFiles
<1>9. QED
  BY <1>4, <1>5, <1>6, <1>7, <1>8 DEF ReceiveEof

-----------------------------------------------------------------------------
(***************************************************************************)
(* The files in every step.                                                *)
(***************************************************************************)
LEMMA FirstOpenable ==
  ASSUME FirstReadable, NEW p \in Peers
  PROVE  Openable(p, 1) = 1
<1> DEFINE Least(j) == /\ j \notin Unreadable[p]
                       /\ \A i \in 1 .. (j - 1) : i \in Unreadable[p]
           S == 1 .. (Len(Batch[p]) + 1)
<1>1. Len(Batch[p]) \in Nat
  BY BatchType
<1>2. 1 \in S /\ Least(1)
  BY <1>1 DEF FirstReadable
<1>3. ASSUME NEW j \in S, Least(j) PROVE j = 1
  BY <1>1, <1>3 DEF FirstReadable
<1>4. Openable(p, 1) = CHOOSE j \in S : Least(j)
  BY DEF Openable
<1> HIDE DEF Least, S
<1>5. QED
  BY <1>2, <1>3, <1>4

LEMMA BegunFirst ==
  ASSUME FirstReadable, NEW p \in Peers
  PROVE  /\ Begun(p, Idle, 1).state = "START" /\ Begun(p, Idle, 1).file = 1
         /\ Begun(p, Idle, 1).open = TRUE <=> 1 <= Len(Batch[p])
         /\ Len(Skipped(p, 1)) = 0
<1> DEFINE m == Len(Batch[p])
<1>1. m \in Nat /\ Openable(p, 1) = 1
  BY BatchType, FirstOpenable
<1>2. Begun(p, Idle, 1) =
        [Idle EXCEPT !.state = IF @ = "DONE" /\ 1 = 1 THEN "START" ELSE "FINFO",
                     !.file = 1, !.open = 1 <= m,
                     !.syncid = IF 1 <= m THEN 0 ELSE @,
                     !.retries = 0, !.timing = FALSE]
  BY <1>1 DEF Begun
<1> HIDE DEF m
<1>3. /\ Begun(p, Idle, 1).state = "START" /\ Begun(p, Idle, 1).file = 1
      /\ Begun(p, Idle, 1).open = (1 <= m)
  BY <1>2 DEF Idle
<1>4. Begun(p, Idle, 1).open = TRUE <=> 1 <= m
  BY <1>3, Zenon
<1>5. Len(Skipped(p, 1)) = 0
  <2>1. 1 \in 1 .. (Len(Batch[p]) + 1)
    BY <1>1 DEF m
  <2>2. Len(Skipped(p, 1)) = Openable(p, 1) - 1
    BY <2>1, OpenableFacts
  <2>3. QED
    BY <1>1, <2>2
<1>6. QED
  BY <1>3, <1>4, <1>5 DEF m

\* What hydra_init() leaves, in new programs and in those that go on running.
LEMMA BeginsFiles ==
  ASSUME FirstReadable,
         tx' = [p \in Peers |-> Begun(p, Idle, 1)] /\ rx' = [p \in Peers |-> FreshRx]
           /\ line' = [p \in Peers |-> <<>>]
  PROVE  FilesHold'
<1>1. SUFFICES ASSUME NEW p \in Peers
      PROVE  Files(p, tx'[p], rx'[Other(p)], line'[Other(p)], line'[p],
                   part'[Other(p)], saved'[Other(p)], tx'[Other(p)].state)
  BY DEF FilesHold
<1>2. /\ tx'[p] = Begun(p, Idle, 1) /\ rx'[Other(p)] = FreshRx
      /\ line'[p] = <<>> /\ line'[Other(p)] = <<>>
  BY OtherFacts
<1>3. FreshRx.state = "INIT"
  BY DEF FreshRx
<1>4. tx'[p].state = "START" /\ (tx'[p].open = TRUE <=> tx'[p].file <= Len(Batch[p]))
  BY <1>2, BegunFirst
<1> DEFINE t == tx'[p]
           r == rx'[Other(p)]
<1>5. t.state = "START" /\ (t.open = TRUE <=> t.file <= Len(Batch[p])) /\ r.state = "INIT"
  BY <1>2, <1>3, <1>4
<1> HIDE DEF t, r
<1>6. Files(p, t, r, <<>>, <<>>, part'[Other(p)], saved'[Other(p)],
            tx'[Other(p)].state)
  BY <1>5, FreshFiles
<1>7. QED
  BY <1>2, <1>6 DEF t, r

LEMMA InitFiles == FirstReadable /\ Init => FilesHold
<1>1. SUFFICES ASSUME FirstReadable, Init, NEW p \in Peers
      PROVE  Files(p, tx[p], rx[Other(p)], line[Other(p)], line[p],
                   part[Other(p)], saved[Other(p)], tx[Other(p)].state)
  BY DEF FilesHold
<1>2. /\ tx[p] = Begun(p, Idle, 1) /\ rx[Other(p)] = FreshRx
      /\ line[p] = <<>> /\ line[Other(p)] = <<>>
  BY <1>1, OtherFacts DEF Init
<1>3. FreshRx.state = "INIT"
  BY DEF FreshRx
<1>4. tx[p].state = "START" /\ (tx[p].open = TRUE <=> tx[p].file <= Len(Batch[p]))
  BY <1>1, <1>2, BegunFirst
<1>5. QED
  BY <1>2, <1>3, <1>4, FreshFiles

LEMMA LoseFiles ==
  ASSUME TypeInv, TypeInv', FilesHold, NEW p \in Peers, Lose(p)
  PROVE  FilesHold'
<1> DEFINE q == Other(p)
<1>1. /\ line[p] # <<>> /\ tx' = tx /\ rx' = rx /\ part' = part /\ saved' = saved
      /\ line' = [line EXCEPT ![p] = Tail(@)]
  BY DEF Lose, Session
<1>2. line'[p] = Tail(line[p]) /\ line'[q] = line[q]
  BY <1>1, OtherFacts DEF TypeInv, LineTyped
<1>3. /\ Len(Tail(line[p])) \in Nat /\ Follows(Tail(line[p]), line[p], {})
      /\ Len(line[q]) \in Nat /\ Follows(line[q], line[q], {})
  BY <1>1, TailFacts, LineSeq, FollowsItself DEF TypeInv
<1>4. Files(p, tx[p], rx[q], line[q], Tail(line[p]), part[q], saved[q], tx[q].state)
  <2>1. {} \cap FileTypes = {}
    OBVIOUS
  <2>2. QED
    BY <1>3, <2>1, Itself, CalmOwn
<1>5. Files(q, tx[q], rx[p], Tail(line[p]), line[q], part[p], saved[p], tx[p].state)
  <2>1. {} \cap (AnswerTypes \cup {"INITACK"}) = {}
    OBVIOUS
  <2>2. QED
    BY <1>3, <2>1, Itself, CalmOther
<1>6. QED
  BY <1>1, <1>2, <1>4, <1>5, BothWays

LEMMA SameFiles ==
  ASSUME FilesHold, UNCHANGED <<tx, rx, line, part, saved>>
  PROVE  FilesHold'
BY DEF FilesHold

LEMMA ReceiveFiles ==
  ASSUME TypeInv, TypeInv', FilesHold, BatchesProceed, PartIsPrefix,
         NEW p \in Peers, Receive(p)
  PROVE  FilesHold'
BY ReceiveStartFiles, ReceiveInitFiles, ReceiveInitackFiles, ReceiveEndFiles,
   ReceiveDeviceFiles, ReceiveFinfoackFiles, ReceiveDataackFiles,
   ReceiveRposFiles, ReceiveEofackFiles, ReceiveFinfoFiles, ReceiveDataFiles,
   ReceiveEofFiles
   DEF Receive

LEMMA FilesStep ==
  ASSUME OnTime, FirstReadable, TypeInv, TypeInv', FilesHold, BatchesProceed,
         PartIsPrefix, [Next]_vars
  PROVE  FilesHold'
<1>1. CASE UNCHANGED vars
  BY <1>1, SameFiles DEF vars
<1>2. CASE NewSession
  BY <1>2, BeginsFiles DEF NewSession
<1>3. ASSUME NEW p \in Peers, Chat(p) PROVE FilesHold'
  BY <1>3, SameFiles DEF Chat, Session
<1>4. ASSUME NEW p \in Peers, UserAbort(p) PROVE FilesHold'
  BY <1>4, AbortFiles DEF UserAbort
<1>5. QED
  BY <1>1, <1>2, <1>3, <1>4, TransmitFiles, TimersFiles, ReceiveFiles,
     WriteErrorFiles, LoseFiles
     DEF Next

=============================================================================
