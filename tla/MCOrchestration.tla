-------------------------- MODULE MCOrchestration --------------------------
(***************************************************************************)
(* Small instances of Orchestration.  The values of the constants that are *)
(* not literals; each .cfg picks a workflow and what the environment does. *)
(***************************************************************************)
EXTENDS Orchestration

OnlyWithRepo       == {TRUE}
WithAndWithoutRepo == {TRUE, FALSE}
NoRetryOff         == {}
AllFeedback        == {"SCM_PIPELINE_FAILED", "SCM_PIPELINE_PASSED", "SCM_REVIEW_COMMENT_ADDED"}
AnyPublish         == {"changed", "unchanged", "rejected", "feedbackLost"}
FixFeedback        == {"SCM_PIPELINE_FAILED", "SCM_REVIEW_COMMENT_ADDED"}
OnlyPr             == {"changed"}
PublishChanged     == {"changed", "rejected", "feedbackLost"}
=============================================================================
