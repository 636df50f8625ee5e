------------------------------ MODULE Progress ------------------------------
(***************************************************************************)
(* What the view of a session makes of its tasks (utils/progress.ts, with  *)
(* session-view.ts and getSessionView around it): the step it is at, and   *)
(* how much of it is done, in percent.                                     *)
(***************************************************************************)
EXTENDS Naturals, Sequences, FiniteSets

STEP_ORDER == <<"PLAN", "IMPLEMENT", "TEST", "REVIEW">>

(* The first step that has no task, or one that is not done.               *)
GetCurrentStep(list) ==
  LET todo == { k \in DOMAIN STEP_ORDER :
                  LET own == { t \in DOMAIN list : list[t].type = STEP_ORDER[k] } IN
                    own = {} \/ \E t \in own : list[t].status # "DONE" }
  IN IF todo = {} THEN "COMPLETED"
     ELSE STEP_ORDER[CHOOSE k \in todo : \A j \in todo : k <= j]

(* Math.round of the ratio, in whole numbers.                              *)
GetProgress(list) ==
  LET done == Cardinality({ t \in DOMAIN list : list[t].status = "DONE" }) IN
    IF list = <<>> THEN 0
    ELSE (200 * done + Len(list)) \div (2 * Len(list))

BuildSessionView(status, list) ==
  [status |-> status, currentStep |-> GetCurrentStep(list), progress |-> GetProgress(list)]
=============================================================================
