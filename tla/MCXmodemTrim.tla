---------------------------- MODULE MCXmodemTrim ----------------------------
(***************************************************************************)
(* Small instances of XmodemTrim for TLC.                                  *)
(***************************************************************************)
EXTENDS XmodemTrim

CONSTANTS a, b     \* bytes of data
CONSTANT MaxSize   \* bound: the length of a file

AllBytes == {a, b, Sub}
AllFiles == UNION {[1..n -> AllBytes] : n \in 0..MaxSize}
FilesWithData == {f \in AllFiles : \E i \in DOMAIN f : f[i] # Sub}
=============================================================================
