---------------------------- MODULE MCChatClient ----------------------------
(***************************************************************************)
(* A small instance of ChatClient: both pages, two new conversations, two  *)
(* tasks, and a project that has had a session.                            *)
(***************************************************************************)
EXTENDS ChatClient, TLC

CONSTANTS l1, l2, s1, s2, o1

TwoLocal    == {l1, l2}
TwoSessions == {s1, s2}
OneOld      == {o1}

(* In the order of: new conversations, questions, changes of followLatest, *)
(* refreshes, renamings, events, interruptions.                            *)
Mix(of, l, q, f, y, r, e, d) ==
  [page |-> of,
   left |-> [local |-> l, question |-> q, follow |-> f, sync |-> y, rename |-> r,
             event |-> e, drop |-> d]]

SmallMixes ==
  { Mix("chat", 1, 1, 0, 0, 0, 3, 2),
    Mix("chat", 2, 2, 1, 0, 1, 1, 0),
    Mix("chat", 1, 2, 0, 1, 0, 2, 1),
    Mix("project", 1, 1, 0, 1, 1, 1, 1),
    Mix("project", 1, 3, 0, 0, 0, 0, 0) }

Symmetric == Permutations(TwoLocal) \cup Permutations(TwoSessions)
=============================================================================
