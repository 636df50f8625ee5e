---------------------------- MODULE CommandQueue ----------------------------
(***************************************************************************)
(* What the queue of project/modules/infra/types/command-queue.ts promises *)
(* its users, whichever backend holds the items: each item goes to exactly *)
(* one call of dequeue, items leave in the order they came, and a call     *)
(* returns empty-handed only when there was nothing to give.               *)
(***************************************************************************)
EXTENDS Sequences

CONSTANTS
  Items,    (* ids that may be enqueued                                    *)
  Callers   (* who calls dequeue, each with one call at a time             *)

Idle    == "idle"      (* the caller has never called                      *)
Waiting == "waiting"   (* its call has not returned                        *)
Empty   == "null"      (* its call returned null                           *)

VARIABLES
  backlog,  (* items accepted and not given to a call                      *)
  answer    (* per caller, what became of its latest call                  *)

Answers == Items \cup {Idle, Waiting, Empty}

Init ==
  /\ backlog = <<>>
  /\ answer = [c \in Callers |-> Idle]

(* An item waits behind the others, or meets a call that waits for one;    *)
(* never both: it must not overtake.                                       *)
Accept(i) ==
  /\ \A c \in Callers : answer[c] # Waiting
  /\ backlog' = Append(backlog, i)
  /\ UNCHANGED answer

HandOver(i, c) ==
  /\ backlog = <<>>
  /\ answer[c] = Waiting
  /\ answer' = [answer EXCEPT ![c] = i]
  /\ UNCHANGED backlog

Take(c) ==
  /\ answer[c] # Waiting
  /\ backlog # <<>>
  /\ answer' = [answer EXCEPT ![c] = Head(backlog)]
  /\ backlog' = Tail(backlog)

Wait(c) ==
  /\ answer[c] # Waiting
  /\ backlog = <<>>
  /\ answer' = [answer EXCEPT ![c] = Waiting]
  /\ UNCHANGED backlog

(* Some calls that wait, one that times out or all of them when the queue  *)
(* is closed, return empty-handed.                                         *)
GiveUp(who) ==
  /\ who # {}
  /\ \A c \in who : answer[c] = Waiting
  /\ backlog = <<>>
  /\ answer' = [c \in Callers |-> IF c \in who THEN Empty ELSE answer[c]]
  /\ UNCHANGED backlog

Next ==
  \/ \E i \in Items : Accept(i) \/ \E c \in Callers : HandOver(i, c)
  \/ \E c \in Callers : Take(c) \/ Wait(c)
  \/ \E who \in SUBSET Callers : GiveUp(who)

Spec == Init /\ [][Next]_<<backlog, answer>>
=============================================================================
