-------------------------- MODULE MCSessionWorker --------------------------
(***************************************************************************)
(* Small instances of SessionWorker.                                       *)
(***************************************************************************)
EXTENDS SessionWorker, TLC

CONSTANTS w1, w2, v1, v2, c1, c2, start, decision, complete

OneWorker  == {w1}
TwoWorkers == {w1, w2}
OneVisit    == {v1}
TwoVisits   == {v1, v2}
TwoCommands == {c1, c2}

StartOnly    == {start}
Completion   == {complete}

TinySession  == {start, complete}
ShortSession == {start, decision, complete}

(* Workers, visits and commands are interchangeable.                       *)
Symmetry ==
  Permutations(Workers) \cup Permutations(Visits) \cup Permutations(Commands)
=============================================================================
