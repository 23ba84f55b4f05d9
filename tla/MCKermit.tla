------------------------------ MODULE MCKermit ------------------------------
(***************************************************************************)
(* Small instances of Kermit for TLC.                                      *)
(***************************************************************************)
EXTENDS Kermit

\* A file with more packets than the window has slots, and a short one.
MCBatch == <<<<1, 2, 3, 4, 5>>, <<6, 7, 8>>>>

Empty == <<<<>>, <<>>>>
Begun == <<<<1>>, <<6>>>>                 \* the beginnings of both files
Whole == <<<<1, 2, 3, 4, 5>>, <<>>>>      \* all of it
Disks == {Empty, Begun, Whole}

With(streaming, disks, kinds, most) ==
  {[streaming |-> streaming, prompt |-> prompt, disk |-> disk, faults |-> kinds, most |-> most] :
     prompt \in BOOLEAN, disk \in disks}

Clean == With(TRUE, Disks, {}, 0) \cup With(FALSE, Disks, {}, 0)

\* One of the things that may go wrong.
Windows ==
  With(FALSE, Disks, {"lose"}, 1) \cup With(FALSE, Disks, {"damage"}, 1)
    \cup With(FALSE, Disks, {"late"}, 1) \cup With(FALSE, Disks, {"skip"}, 1)
Streams ==
  With(TRUE, Disks, {"lose"}, 1) \cup With(TRUE, Disks, {"damage"}, 1)
    \cup With(TRUE, Disks, {"late"}, 1) \cup With(TRUE, Disks, {"skip"}, 1)

Twice == With(FALSE, {Empty}, {"lose"}, 2) \cup With(FALSE, {Empty, Begun}, {"late"}, 2)
           \cup With(TRUE, {Whole}, {"late"}, 2)

MCScenarios == Clean \cup Windows \cup Streams \cup Twice

\* A packet with data is lost.
DataLost == With(FALSE, {Empty}, {"lose data"}, 1)

=============================================================================
