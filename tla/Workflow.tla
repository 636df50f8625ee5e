------------------------------ MODULE Workflow ------------------------------
(***************************************************************************)
(* The workflow configuration: which steps a session goes through and      *)
(* which events the orchestrator reacts to because of them.                *)
(*                                                                         *)
(* Models project/modules/orchestration/types.ts, the tables of            *)
(* project/config/workflow-config.ts and the pure part of                  *)
(* project/modules/orchestration/orchestration-service.ts.                 *)
(***************************************************************************)
EXTENDS Sequences, Functions

CONSTANTS
  Steps,    (* WorkflowConfig.steps, a sequence of steps                   *)
  RetryOff  (* the steps whose retryOnFailure entry is false               *)

WorkflowStep ==
  { "PREPARE", "PLANNING", "IMPLEMENTATION", "REACT", "TESTING", "REVIEW",
    "PUBLISH", "SCM_PIPELINE", "SCM_REVIEW" }

ASSUME WorkflowAssumption ==
  /\ Steps \in Seq(WorkflowStep)
  /\ RetryOff \subseteq {"TESTING", "REVIEW"}

STEP_COMPLETION_EVENTS(step) ==
  CASE step = "PREPARE"        -> "SCM_WORKSPACE_PREPARED"
    [] step = "PLANNING"       -> "PLAN_COMPLETED"
    [] step = "IMPLEMENTATION" -> "IMPLEMENT_COMPLETED"
    [] step = "REACT"          -> "REACT_COMPLETED"
    [] step = "TESTING"        -> "TEST_PASSED"
    [] step = "REVIEW"         -> "REVIEW_COMPLETED"
    [] step = "PUBLISH"        -> "SCM_PR_CREATED"
    [] step = "SCM_PIPELINE"   -> "SCM_PIPELINE_PASSED"
    [] step = "SCM_REVIEW"     -> "SCM_REVIEW_COMMENT_ADDED"

(* The steps that have a failure event, with that event.                   *)
STEP_FAILURE_EVENTS ==
  [TESTING      |-> "TEST_FAILED",
   REVIEW       |-> "REVIEW_FAILED",
   SCM_PIPELINE |-> "SCM_PIPELINE_FAILED"]

IsStepEnabled(step) == step \in Range(Steps)

(* The events the orchestrator reacts to; it skips every other one.        *)
EnabledTransitions ==
  {"SESSION_STARTED", "COMMAND_FAILED", "SCM_PUBLISH_FAILED"}
    \cup { STEP_COMPLETION_EVENTS(s) : s \in Range(Steps) }
    \cup { STEP_FAILURE_EVENTS[s] :
             s \in (Range(Steps) \cap DOMAIN STEP_FAILURE_EVENTS) \ RetryOff }

(* The event that completes the last step of the workflow.                 *)
IsLastEnabledTransition(type) ==
  /\ Steps # <<>>
  /\ type = STEP_COMPLETION_EVENTS(Steps[Len(Steps)])

(* The workflows of workflow-config.ts.                                    *)
DefaultWorkflow ==
  <<"PREPARE", "PLANNING", "IMPLEMENTATION", "TESTING", "REVIEW", "PUBLISH">>
PlanningOnlyWorkflow == <<"PLANNING">>
ImplementationOnlyWorkflow ==
  <<"PREPARE", "PLANNING", "IMPLEMENTATION", "PUBLISH">>
ScmWorkflow == DefaultWorkflow \o <<"SCM_PIPELINE", "SCM_REVIEW">>
QuickScmWorkflow ==
  ImplementationOnlyWorkflow \o <<"SCM_PIPELINE", "SCM_REVIEW">>
ReactWorkflow     == <<"PREPARE", "REACT", "PUBLISH">>
FastScmWorkflow   == ReactWorkflow \o <<"SCM_PIPELINE", "SCM_REVIEW">>
ReactFullWorkflow == <<"PREPARE", "REACT", "TESTING", "REVIEW", "PUBLISH">>
=============================================================================
