------------------------- MODULE PublicationContract -------------------------
(***************************************************************************)
(* What preparing and publishing come to, seen from outside: the step that *)
(* Orchestration takes for each of the two, with the context of the        *)
(* session, the provider and the bindings before and after it, and the     *)
(* events it tells.  Publication implements this specification.            *)
(*                                                                         *)
(* Changed, Unchanged and Rejected are the outcomes of Publish in          *)
(* Orchestration ("feedbackLost" is a Rejected with a pull request);       *)
(* Interrupted is what is left when a repository or the bus rejects after  *)
(* the context has been saved.                                             *)
(***************************************************************************)
VARIABLES
  scm,   (* workspace and pullRequest of the context, request, bound       *)
  told   (* the events of the last publication                             *)

Init ==
  /\ scm = [workspace |-> FALSE, pullRequest |-> FALSE, request |-> FALSE, bound |-> FALSE]
  /\ told = {}

Prepare ==
  /\ scm' = [scm EXCEPT !.workspace = TRUE, !.pullRequest = FALSE]
  /\ UNCHANGED told

(* The provider refuses a second pull request of the branch.               *)
CanOpenOrReusePr == scm.pullRequest \/ ~scm.request

Opened == [scm EXCEPT !.pullRequest = TRUE, !.request = TRUE]

Changed ==
  /\ CanOpenOrReusePr
  /\ scm' = [Opened EXCEPT !.bound = TRUE]
  /\ told' = {"SCM_PR_CREATED", "SCM_FEEDBACK_SYNCED"}

Unchanged ==
  /\ scm' = [scm EXCEPT !.pullRequest = FALSE]
  /\ told' = {"SCM_NO_CHANGES", "SCM_FEEDBACK_SYNCED"}

Rejected ==
  /\ scm' \in {scm, [scm EXCEPT !.request = TRUE]}
  /\ told' = {"SCM_PUBLISH_FAILED"}

Interrupted ==
  \/ /\ CanOpenOrReusePr
     /\ \/ scm' = Opened /\ told' = {"SCM_PUBLISH_FAILED"}
        \/ /\ scm' = [Opened EXCEPT !.bound = TRUE]
           /\ told' \in {{"SCM_PUBLISH_FAILED"}, {"SCM_PR_CREATED", "SCM_PUBLISH_FAILED"}}
  \/ /\ scm' = [scm EXCEPT !.pullRequest = FALSE]
     /\ told' \in {{"SCM_PUBLISH_FAILED"}, {"SCM_NO_CHANGES", "SCM_PUBLISH_FAILED"}}

Next == Prepare \/ (scm.workspace /\ (Changed \/ Unchanged \/ Rejected \/ Interrupted))

Spec == Init /\ [][Next]_<<scm, told>>
=============================================================================
