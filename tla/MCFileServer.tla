---------------------------- MODULE MCFileServer ----------------------------
(* Instances of FileServer for TLC.                                         *)
EXTENDS FileServer, TLC

CONSTANTS w1, w2, p1, p2

TwoWorkers == {w1, w2}
SecondPath == {p2}
TwoPaths == {p1, p2}

\* How many requests of each kind arrive.
Requests(c, m, w, r, h) ==
  [create |-> c, mkdir |-> m, write |-> w, read |-> r, hash |-> h]

Mixed == Requests(2, 1, 2, 1, 2)

\* Workers are interchangeable.
WorkerSymmetry == Permutations(Workers)
=============================================================================
