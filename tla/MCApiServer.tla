---------------------------- MODULE MCApiServer -----------------------------
(***************************************************************************)
(* Instances of ApiServer for TLC: one user is logged in, another may       *)
(* register; the slots are interchangeable.                                *)
(***************************************************************************)
EXTENDS ApiServer

CONSTANT ann

OneUser  == <<ann>>
Mix(account, project, session, message, update, fault) ==
    [account |-> account, project |-> project, session |-> session,
     message |-> message, update |-> update, fault |-> fault]

(* Two people registering; a shared draft of two users; three messages on  *)
(* one thread; starts and renames against the orchestrator; a project      *)
(* deleted under a request.                                                *)
SmallMixes == {Mix(2, 0, 0, 0, 0, 0), Mix(1, 0, 0, 2, 0, 1), Mix(0, 0, 0, 3, 0, 1),
               Mix(0, 0, 2, 0, 1, 1), Mix(0, 0, 1, 1, 1, 1), Mix(0, 1, 1, 1, 0, 0),
               Mix(0, 0, 3, 0, 1, 0), Mix(0, 0, 1, 2, 0, 1)}

Symmetry == Permutations(Slots)

=============================================================================
