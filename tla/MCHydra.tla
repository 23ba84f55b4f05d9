------------------------------ MODULE MCHydra ------------------------------
(***************************************************************************)
(* Small instances of Hydra for TLC: A is the caller, B the board.         *)
(***************************************************************************)
EXTENDS Hydra

CONSTANTS A, B, a, b, c

MCPeers == {A, B}
MCUnits == {a, b, c}

Each(x, y) == [p \in MCPeers |-> IF p = A THEN x ELSE y]

OneEach == Each(<<<<a, b>>>>, <<<<c>>>>)
TwoAndOne == Each(<<<<a, b>>, <<a>>, <<c>>>>, <<<<c>>>>)

SecondLocked == Each({2}, {})
AllReadable == Each({}, {})
Streaming == Each(0, 0)
WindowOfOne == Each(1, 2)
NobodyWaits == {{}}
AnybodyWaits == SUBSET MCPeers

NoChat == Each(0, 0)
CallerChats == Each(1, 0)
=============================================================================
