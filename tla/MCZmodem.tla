------------------------------ MODULE MCZmodem ------------------------------
(***************************************************************************)
(* Small instances of Zmodem for TLC.                                      *)
(***************************************************************************)
EXTENDS Zmodem

CONSTANTS a, b

MCUnits == {a, b}

TwoFiles == <<<<a, b, a>>, <<b>>>>
OneFile == <<<<a, b>>>>

\* What is on disk, how often the users try, which of the options "challenge", "zsinit",
\* "autostart" and "aborts" are on, what may go wrong, and how often.
With(first, second, sessions, options, kinds, most) ==
  [disk |-> <<first, second>>, sessions |-> sessions,
   challenge |-> "challenge" \in options, zsinit |-> "zsinit" \in options,
   autostart |-> "autostart" \in options, aborts |-> "aborts" \in options,
   faults |-> kinds, most |-> most]

Damage == {"damage", "junk"}
Noise == Damage \cup {"garble", "lose", "create"}

Begun == <<<<a>>>>          \* the beginning of the first file
Whole == <<<<a, b, a>>>>    \* all of it
Foreign == <<<<b>>>>        \* somebody else's files, smaller and of the same size
Alien == <<<<b, b, a>>>>

\* A download that begins itself, with data damaged: what Completes is about.
DataDamaged ==
  {With(first, <<>>, 1, {"autostart"} \cup options, {"damage"}, 2) :
     first \in {<<>>, Begun, Foreign, Alien},
     options \in {{}, {"challenge"}}}

\* Anything may go wrong but what hurts a file of another's: once in two sessions that
\* users may end, twice in one that begins by itself.
Retried ==
  {With(<<>>, <<>>, 2, {"autostart", "aborts"}, Noise, 1),
   With(Whole, <<>>, 2, {"challenge"}, Noise, 1),
   With(Begun, <<>>, 2, {"autostart"}, Noise, 1),
   With(Begun, <<>>, 1, {"autostart", "challenge"}, Noise, 2)}

\* Somebody else's file has the name; a header breaks off; the line is slow.
Others ==
  {With(Foreign, <<>>, 2, {"aborts"}, Damage \cup {"create"}, 1),
   With(Begun, <<>>, 2, {"autostart"}, {"cut"}, 1),
   With(Begun, <<>>, 1, {"challenge"}, {"late"}, 1)}

\* The sender asks for control characters to be escaped.
Escaping ==
  {With(Begun, <<>>, 2, {"autostart", "zsinit"}, Noise, 1),
   With(<<>>, <<>>, 1, {"autostart", "challenge", "zsinit", "aborts"}, Noise, 2),
   With(Begun, <<>>, 1, {"challenge", "zsinit"}, {"late", "cut"}, 2)}

MCScenarios == DataDamaged \cup Retried \cup Others \cup Escaping

\* Nothing goes wrong.
Clean == {With(<<>>, <<>>, 1, {"autostart"} \cup options, {}, 0) :
            options \in SUBSET {"challenge"}}

=============================================================================
