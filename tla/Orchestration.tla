--------------------------- MODULE Orchestration ---------------------------
(***************************************************************************)
(* One session driven by OrchestrationService: every handler of            *)
(* project/modules/orchestration/orchestration-service.ts, the role agents *)
(* that execute the commands it dispatches, and the SCM feedback that      *)
(* arrives from outside.                                                   *)
(*                                                                         *)
(* A process is a running program that subscribes an orchestrator to the   *)
(* event bus and executes commands: the single process of project/index.ts *)
(* or a worker that holds the session.  Each process handles each event    *)
(* published while it listens once.  One handler is one action: awaits     *)
(* inside a handler are the subject of other modules.  Events may be       *)
(* handled in any order, because the Redis bus does not wait for the       *)
(* handler of one message before it starts the handler of the next.        *)
(*                                                                         *)
(* The session is the only one: handlers of one session touch no other.    *)
(***************************************************************************)
EXTENDS Naturals, FiniteSets, Workflow, Progress

CONSTANTS
  Processes,       (* processes that listen to the session's events        *)
  Repository,      (* whether the session's context may name a repository  *)
  PrepareMayFail,  (* prepareWorkspace may reject (clone, fetch, worktree) *)
  PublishOutcomes, (* what publishAndCollectFeedback may do                *)
  AgentMayThrow,   (* a provider run may reject                            *)
  Feedback,        (* events the SCM webhooks may emit                     *)
  MaxStarts,       (* bound: SESSION_STARTED events                        *)
  MaxRejections,   (* bound: TEST_FAILED and REVIEW_FAILED events          *)
  MaxFeedback      (* bound: feedback events                               *)

ASSUME OrchestrationAssumption ==
  /\ Repository \subseteq BOOLEAN
  /\ PrepareMayFail \in BOOLEAN
  /\ AgentMayThrow \in BOOLEAN
  /\ PublishOutcomes \subseteq {"changed", "unchanged", "rejected", "feedbackLost"}
  /\ Feedback \subseteq {"SCM_PIPELINE_FAILED", "SCM_PIPELINE_PASSED",
                         "SCM_REVIEW_COMMENT_ADDED"}
  /\ MaxStarts \in Nat /\ MaxRejections \in Nat /\ MaxFeedback \in Nat

VARIABLES
  status,     (* Session.status                                            *)
  scm,        (* session.context.scm: repository, workspace, PR reference  *)
  remotePr,   (* the provider holds a pull request for the session branch  *)
  bound,      (* the PR binding repository maps that PR to the session     *)
  tasks,      (* the session's tasks in creation order                     *)
  commands,   (* the session's commands in creation order                  *)
  log,        (* the session's events in the order they were appended      *)
  unhandled,  (* per process, the positions in log it has still to handle  *)
  executing   (* per process, the command it executes, or 0                *)

sessionVars == <<scm, remotePr, bound>>
vars == <<status, scm, remotePr, bound, tasks, commands, log, unhandled, executing>>

SessionStatus == {"CREATED", "RUNNING", "FAILED", "COMPLETED"}
TaskType      == {"PLAN", "IMPLEMENT", "TEST", "REVIEW"}
TaskStatus    == {"PENDING", "IN_PROGRESS", "DONE", "FAILED"}
CommandType   == {"PLAN", "GENERATE", "FIX", "REACT", "VERIFY", "REVIEW"}
CommandStatus == {"PENDING", "RUNNING", "DONE", "FAILED"}

EventType ==
  { STEP_COMPLETION_EVENTS(s) : s \in WorkflowStep } \cup Range(STEP_FAILURE_EVENTS)
    \cup {"SESSION_STARTED", "SESSION_COMPLETED", "COMMAND_FAILED",
          "SCM_PUBLISH_FAILED", "SCM_NO_CHANGES", "SCM_FEEDBACK_SYNCED"}

Task == [type : TaskType, status : TaskStatus]

(* cause is the event whose handling dispatched the command, by whom: the  *)
(* process that handled it.  The code stores neither.                      *)
Command == [type : CommandType, task : Nat, status : CommandStatus,
            cause : Nat, by : Processes]

(* What normalizeSessionContext makes of the scm entry of the request: it  *)
(* is dropped unless it names a repository of a known provider; a client   *)
(* sends no workspace and no publish result, though it could.              *)
ScmContext(known) == [repository |-> known, workspace |-> FALSE, pr |-> FALSE]

(* The task a handler creates with each type of command.                   *)
TaskTypeOf(type) ==
  CASE type = "PLAN"                        -> "PLAN"
    [] type \in {"GENERATE", "FIX", "REACT"} -> "IMPLEMENT"
    [] type = "VERIFY"                      -> "TEST"
    [] type = "REVIEW"                      -> "REVIEW"

(* The role agent that a command of each type is given to.                 *)
AgentFor(type) ==
  CASE type = "PLAN"               -> "planning"
    [] type \in {"GENERATE", "FIX"} -> "generate"
    [] type = "REACT"              -> "react"
    [] type = "VERIFY"             -> "verify"
    [] type = "REVIEW"             -> "review"

(* The events it may end the command with.                                 *)
DecisionEvents(type) ==
  LET role == AgentFor(type) IN
  CASE role = "planning" -> {"PLAN_COMPLETED"}
    [] role = "generate" -> {"IMPLEMENT_COMPLETED"}
    [] role = "react"    -> {"REACT_COMPLETED"}
    [] role = "verify"   -> {"TEST_PASSED", "TEST_FAILED"}
    [] role = "review"   -> {"REVIEW_COMPLETED", "REVIEW_FAILED"}

Rejections == {"TEST_FAILED", "REVIEW_FAILED"}

CountOf(types) == Cardinality({i \in DOMAIN log : log[i] \in types})
Ids(type) == {t \in DOMAIN tasks : tasks[t].type = type}
AllDone(type) == \A t \in Ids(type) : tasks[t].status = "DONE"

-----------------------------------------------------------------------------
Init ==
  /\ status = "CREATED"
  /\ \E known \in Repository :
       scm = ScmContext(known)
  /\ remotePr = FALSE
  /\ bound = FALSE
  /\ tasks = <<>>
  /\ commands = <<>>
  /\ log = <<>>
  /\ unhandled = [p \in Processes |-> {}]
  /\ executing = [p \in Processes |-> 0]

(* EventService.emit: append to the log, then publish to every listener.   *)
(* handleEvent returns at once for an event of no enabled transition, so   *)
(* such an event is not counted among those a process has to handle.       *)
Publication(events) ==
  { Len(log) + i : i \in {k \in DOMAIN events : events[k] \in EnabledTransitions} }

Emit(events) ==
  /\ log' = log \o events
  /\ unhandled' = [p \in Processes |-> unhandled[p] \cup Publication(events)]

(***************************************************************************)
(* The frame of handleEvent.  When the handler is through, and the event   *)
(* completes the last step, the session is completed, whatever the handler *)
(* did.                                                                    *)
(***************************************************************************)
Receives(p, e, type) ==
  /\ e \in unhandled[p]
  /\ log[e] = type

CompletesSession(type) ==
  IsLastEnabledTransition(type) /\ type # "REVIEW_COMPLETED"

(* completeSession: the status is COMPLETED, and then this is emitted.     *)
CompletedWith(emitted) == Append(emitted, "SESSION_COMPLETED")

(* Mutant: a handled event stays due.                                      *)
HandledAgain(p, e, newStatus, emitted) ==
  LET last   == CompletesSession(log[e])
      events == IF last THEN CompletedWith(emitted) ELSE emitted
  IN  /\ status' = IF last THEN "COMPLETED" ELSE newStatus
      /\ log' = log \o events
      /\ unhandled' = [q \in Processes |-> unhandled[q] \cup Publication(events)]
      /\ UNCHANGED executing

Handled(p, e, newStatus, emitted) ==
  LET last   == CompletesSession(log[e])
      events == IF last THEN CompletedWith(emitted) ELSE emitted
  IN  /\ status' = IF last THEN "COMPLETED" ELSE newStatus
      /\ log' = log \o events
      /\ unhandled' = [q \in Processes |->
                         (unhandled[q] \ (IF q = p THEN {e} ELSE {}))
                           \cup Publication(events)]
      /\ UNCHANGED executing

CreateTask(type) ==
  tasks' = Append(tasks, [type |-> type, status |-> "PENDING"])

(* createTask, then dispatch of a command for that task.                   *)
Dispatch(p, e, type) ==
  /\ CreateTask(TaskTypeOf(type))
  /\ commands' = Append(commands, [type |-> type, task |-> Len(tasks) + 1,
                                   status |-> "PENDING", cause |-> e, by |-> p])

StartStep(p, e, type, newStatus) ==
  /\ Dispatch(p, e, type)
  /\ Handled(p, e, newStatus, <<>>)
  /\ UNCHANGED sessionVars

NothingToDo(p, e, newStatus) ==
  /\ Handled(p, e, newStatus, <<>>)
  /\ UNCHANGED <<sessionVars, tasks, commands>>

(***************************************************************************)
(* publishChanges.  The SCM service pushes and opens a pull request, finds *)
(* nothing to commit, fails before there is a pull request, or fails while *)
(* it collects feedback, after opening it.  The provider refuses a second  *)
(* open pull request for the branch.  Either way the whole scm entry of    *)
(* the context is rewritten from the publish result.                       *)
(***************************************************************************)
CanOpenOrReusePr == scm.pr \/ ~remotePr

(* Mutant: the PR binding is not saved.                                    *)
PublishUnbound(p, e, outcome) ==
  /\ outcome \in {"changed", "feedbackLost"} /\ CanOpenOrReusePr
  /\ scm' = [scm EXCEPT !.pr = TRUE]
  /\ remotePr' = TRUE
  /\ Handled(p, e, status, <<"SCM_PR_CREATED", "SCM_FEEDBACK_SYNCED">>)
  /\ UNCHANGED bound

Publish(p, e, outcome) ==
  \/ /\ outcome = "changed" /\ CanOpenOrReusePr
     /\ scm' = [scm EXCEPT !.pr = TRUE]
     /\ remotePr' = TRUE
     /\ bound' = TRUE
     /\ Handled(p, e, status, <<"SCM_PR_CREATED", "SCM_FEEDBACK_SYNCED">>)
  \/ /\ outcome = "unchanged"
     /\ scm' = [scm EXCEPT !.pr = FALSE]
     /\ Handled(p, e, status, <<"SCM_NO_CHANGES", "SCM_FEEDBACK_SYNCED">>)
     /\ UNCHANGED <<remotePr, bound>>
  \/ /\ \/ outcome = "rejected"
        \/ outcome = "changed" /\ ~CanOpenOrReusePr
     /\ Handled(p, e, status, <<"SCM_PUBLISH_FAILED">>)
     /\ UNCHANGED sessionVars
  \/ /\ outcome = "feedbackLost" /\ CanOpenOrReusePr
     /\ remotePr' = TRUE
     /\ Handled(p, e, status, <<"SCM_PUBLISH_FAILED">>)
     /\ UNCHANGED <<scm, bound>>

PublishChanges(p, e) ==
  IF scm.repository /\ scm.workspace
  THEN /\ \E outcome \in PublishOutcomes : Publish(p, e, outcome)
       /\ UNCHANGED <<tasks, commands>>
  ELSE NothingToDo(p, e, status)

(* What follows a step whose successor is not in the workflow.             *)
PublishIfEnabled(p, e) ==
  IF IsStepEnabled("PUBLISH") THEN PublishChanges(p, e)
                              ELSE NothingToDo(p, e, status)
-----------------------------------------------------------------------------
(* The event handlers.                                                     *)

TriggerFirstStep(p, e) ==
  CASE IsStepEnabled("REACT")    -> StartStep(p, e, "REACT", status)
    [] ~IsStepEnabled("REACT") /\ IsStepEnabled("PLANNING")
                                 -> StartStep(p, e, "PLAN", status)
    [] OTHER                     -> NothingToDo(p, e, status)

(* With PREPARE in the workflow the handler prepares a workspace if the    *)
(* session has a repository and returns in any case.                       *)
HandleSessionStarted(p, e) ==
  /\ Receives(p, e, "SESSION_STARTED")
  /\ \/ /\ ~IsStepEnabled("PREPARE")
        /\ TriggerFirstStep(p, e)
     \/ /\ IsStepEnabled("PREPARE") /\ ~scm.repository
        /\ NothingToDo(p, e, status)
     \/ /\ IsStepEnabled("PREPARE") /\ scm.repository
        /\ scm' = [scm EXCEPT !.workspace = TRUE, !.pr = FALSE]
        /\ Handled(p, e, status, <<"SCM_WORKSPACE_PREPARED">>)
        /\ UNCHANGED <<remotePr, bound, tasks, commands>>
     \/ /\ IsStepEnabled("PREPARE") /\ scm.repository /\ PrepareMayFail
        /\ NothingToDo(p, e, status)

HandlePrepareCompleted(p, e) ==
  /\ Receives(p, e, "SCM_WORKSPACE_PREPARED")
  /\ TriggerFirstStep(p, e)

HandlePlanCompleted(p, e) ==
  /\ Receives(p, e, "PLAN_COMPLETED")
  /\ IF IsStepEnabled("IMPLEMENTATION") THEN StartStep(p, e, "GENERATE", status)
                                        ELSE NothingToDo(p, e, status)

TestOrPublish(p, e) ==
  IF IsStepEnabled("TESTING") THEN StartStep(p, e, "VERIFY", status)
                              ELSE PublishIfEnabled(p, e)

(* Mutant: nothing follows REACT but TESTING.                              *)
HandleReactCompletedUnpublished(p, e) ==
  /\ Receives(p, e, "REACT_COMPLETED")
  /\ IF IsStepEnabled("TESTING") THEN StartStep(p, e, "VERIFY", status)
                                 ELSE NothingToDo(p, e, status)

HandleReactCompleted(p, e) ==
  /\ Receives(p, e, "REACT_COMPLETED")
  /\ TestOrPublish(p, e)

(* Mutant: the gate that waits for every implementation task is gone.      *)
HandleImplementCompletedUngated(p, e) ==
  /\ Receives(p, e, "IMPLEMENT_COMPLETED")
  /\ TestOrPublish(p, e)

HandleImplementCompleted(p, e) ==
  /\ Receives(p, e, "IMPLEMENT_COMPLETED")
  /\ IF AllDone("IMPLEMENT") THEN TestOrPublish(p, e)
                             ELSE NothingToDo(p, e, status)

HandleTestFailed(p, e) ==
  /\ Receives(p, e, "TEST_FAILED")
  /\ StartStep(p, e, "FIX", status)

(* Mutant: a passed test is published at once.                             *)
HandleTestPassedUnreviewed(p, e) ==
  /\ Receives(p, e, "TEST_PASSED")
  /\ PublishIfEnabled(p, e)

HandleTestPassed(p, e) ==
  /\ Receives(p, e, "TEST_PASSED")
  /\ IF IsStepEnabled("REVIEW") THEN StartStep(p, e, "REVIEW", status)
                                ELSE PublishIfEnabled(p, e)

HandleReviewCompleted(p, e) ==
  /\ Receives(p, e, "REVIEW_COMPLETED")
  /\ IF IsStepEnabled("PUBLISH")
     THEN PublishChanges(p, e)
     ELSE /\ Handled(p, e, "COMPLETED", CompletedWith(<<>>))
          /\ UNCHANGED <<sessionVars, tasks, commands>>

HandleReviewFailed(p, e) ==
  /\ Receives(p, e, "REVIEW_FAILED")
  /\ StartStep(p, e, "FIX", status)

(* Mutant: a failed command does not fail the session.                     *)
HandleCommandFailedIgnored(p, e) ==
  /\ Receives(p, e, "COMMAND_FAILED")
  /\ NothingToDo(p, e, status)

HandleCommandFailed(p, e) ==
  /\ Receives(p, e, "COMMAND_FAILED")
  /\ NothingToDo(p, e, "FAILED")

HandleScmPublishFailed(p, e) ==
  /\ Receives(p, e, "SCM_PUBLISH_FAILED")
  /\ NothingToDo(p, e, "FAILED")

HandleScmPipelineFailed(p, e) ==
  /\ Receives(p, e, "SCM_PIPELINE_FAILED")
  /\ StartStep(p, e, "FIX", "RUNNING")

HandleScmReviewCommentAdded(p, e) ==
  /\ Receives(p, e, "SCM_REVIEW_COMMENT_ADDED")
  /\ StartStep(p, e, "FIX", "RUNNING")

(* SCM_PIPELINE_PASSED and SCM_PR_CREATED have no work of their own.       *)
HandleStepWithoutWork(p, e) ==
  /\ \E type \in {"SCM_PIPELINE_PASSED", "SCM_PR_CREATED"} : Receives(p, e, type)
  /\ NothingToDo(p, e, status)

HandleEvent(p, e) ==
  \/ HandleSessionStarted(p, e)     \/ HandlePrepareCompleted(p, e)
  \/ HandlePlanCompleted(p, e)      \/ HandleReactCompleted(p, e)
  \/ HandleImplementCompleted(p, e) \/ HandleTestFailed(p, e)
  \/ HandleTestPassed(p, e)         \/ HandleReviewCompleted(p, e)
  \/ HandleReviewFailed(p, e)       \/ HandleCommandFailed(p, e)
  \/ HandleScmPublishFailed(p, e)   \/ HandleScmPipelineFailed(p, e)
  \/ HandleScmReviewCommentAdded(p, e)
  \/ HandleStepWithoutWork(p, e)
-----------------------------------------------------------------------------
(* The role agents.  A command is claimed and its task marked in progress; *)
(* the agent records the task's outcome and emits its decision; then the   *)
(* command is marked done.  Handlers may run between the last two steps.   *)

(* markInProgress, markDone and markFailed of the task service.            *)
MarkTask(t, newStatus) == tasks' = [tasks EXCEPT ![t].status = newStatus]

ClaimCommand(p, c) ==
  /\ executing[p] = 0
  /\ commands[c].status = "PENDING"
  /\ executing' = [executing EXCEPT ![p] = c]
  /\ commands' = [commands EXCEPT ![c].status = "RUNNING"]
  /\ MarkTask(commands[c].task, "IN_PROGRESS")
  /\ UNCHANGED <<status, sessionVars, log, unhandled>>

InProgress(p, c) ==
  /\ executing[p] = c
  /\ tasks[commands[c].task].status = "IN_PROGRESS"

(* Mutant: the decision is emitted twice.                                  *)
AgentDecidesTwice(p, c, event) ==
  /\ InProgress(p, c)
  /\ event \in DecisionEvents(commands[c].type)
  /\ event \in Rejections => CountOf(Rejections) < MaxRejections
  /\ MarkTask(commands[c].task, IF event \in Rejections THEN "FAILED" ELSE "DONE")
  /\ Emit(<<event, event>>)
  /\ UNCHANGED <<status, sessionVars, commands, executing>>

AgentDecides(p, c, event) ==
  /\ InProgress(p, c)
  /\ event \in DecisionEvents(commands[c].type)
  /\ event \in Rejections => CountOf(Rejections) < MaxRejections
  /\ MarkTask(commands[c].task, IF event \in Rejections THEN "FAILED" ELSE "DONE")
  /\ Emit(<<event>>)
  /\ UNCHANGED <<status, sessionVars, commands, executing>>

(* The provider run rejects: the task is left as it is.                    *)
AgentThrows(p, c) ==
  /\ AgentMayThrow
  /\ InProgress(p, c)
  /\ commands' = [commands EXCEPT ![c].status = "FAILED"]
  /\ executing' = [executing EXCEPT ![p] = 0]
  /\ Emit(<<"COMMAND_FAILED">>)
  /\ UNCHANGED <<status, sessionVars, tasks>>

FinishCommand(p, c) ==
  /\ executing[p] = c
  /\ tasks[commands[c].task].status \in {"DONE", "FAILED"}
  /\ commands' = [commands EXCEPT ![c].status = "DONE"]
  /\ executing' = [executing EXCEPT ![p] = 0]
  /\ UNCHANGED <<status, sessionVars, tasks, log, unhandled>>

Execute(p, c) ==
  \/ ClaimCommand(p, c)
  \/ \E event \in EventType : AgentDecides(p, c, event)
  \/ AgentThrows(p, c)
  \/ FinishCommand(p, c)
-----------------------------------------------------------------------------
(* SessionService.startSession.                                            *)
StartSession ==
  /\ status # "COMPLETED"
  /\ CountOf({"SESSION_STARTED"}) < MaxStarts
  /\ status' = "RUNNING"
  /\ Emit(<<"SESSION_STARTED">>)
  /\ UNCHANGED <<sessionVars, tasks, commands, executing>>

(* A webhook delivery for the session's pull request.                      *)
ReceiveFeedback(event) ==
  /\ bound
  /\ CountOf(Feedback) < MaxFeedback
  /\ Emit(<<event>>)
  /\ UNCHANGED <<status, sessionVars, tasks, commands, executing>>

Next ==
  \/ StartSession
  \/ \E event \in Feedback : ReceiveFeedback(event)
  \/ \E p \in Processes :
       \/ \E e \in unhandled[p] : HandleEvent(p, e)
       \/ \E c \in DOMAIN commands : Execute(p, c)

Spec == Init /\ [][Next]_vars

(* The event loop runs every callback it has queued, and a process that    *)
(* sees a pending command executes it.  Nobody has to start the session or *)
(* to send feedback.                                                       *)
Fairness ==
  \A p \in Processes :
    /\ WF_vars(\E e \in unhandled[p] : HandleEvent(p, e))
    /\ WF_vars(\E c \in DOMAIN commands : Execute(p, c))

FairSpec == Spec /\ Fairness
-----------------------------------------------------------------------------
(* The properties.                                                         *)

(* Every variable holds a value of its type; a task belongs to every       *)
(* command, and a process only executes commands that exist.               *)
TypeOK ==
  /\ status \in SessionStatus
  /\ scm \in [repository : BOOLEAN, workspace : BOOLEAN, pr : BOOLEAN]
  /\ remotePr \in BOOLEAN
  /\ bound \in BOOLEAN
  /\ tasks \in Seq(Task)
  /\ commands \in Seq(Command)
  /\ \A c \in DOMAIN commands : commands[c].task \in DOMAIN tasks
  /\ log \in Seq(EventType)
  /\ unhandled \in [Processes -> SUBSET (DOMAIN log)]
  /\ executing \in [Processes -> {0} \cup DOMAIN commands]

ActiveCommands ==
  { c \in DOMAIN commands :
      \/ commands[c].status = "PENDING"
      \/ /\ commands[c].status = "RUNNING"
         /\ tasks[commands[c].task].status = "IN_PROGRESS" }

(* Nothing will happen to the session any more, unless from outside.       *)
Quiescent ==
  /\ log # <<>>
  /\ \A c \in DOMAIN commands : commands[c].status \in {"DONE", "FAILED"}
  /\ \A p \in Processes : unhandled[p] = {}

(* The workflow is a sequence of steps (WorkflowConfig.steps): a session   *)
(* never has two pieces of work in hand, be it a command to execute or a   *)
(* transition to make.  A handler that dispatches twice, an agent whose    *)
(* event is published twice, or a failure handler that goes on break it.   *)
OneStepAtATime ==
  \A p \in Processes : Cardinality(ActiveCommands) + Cardinality(unhandled[p]) <= 1

(* An event makes each process dispatch at most one command, however its   *)
(* handling interleaves with the handling of others.                       *)
OneCommandPerEvent ==
  \A c, d \in DOMAIN commands :
    commands[c].cause = commands[d].cause /\ commands[c].by = commands[d].by => c = d

(* GET /sessions/:id, whose two reads are taken as one.                    *)
View == BuildSessionView(status, tasks)

(* What a session that PUBLISH completes tells is so: it has a pull        *)
(* request at the provider, knows it, and can be found by the webhooks of  *)
(* that pull request; and its view has come to the last step and to 100    *)
(* percent, unless a test or a review of it has failed, whose task stays   *)
(* FAILED beside the one that came after (utils/progress.ts:18-41).        *)
CompletedIsPublished ==
  status = "COMPLETED" =>
    /\ remotePr /\ scm.pr /\ bound
    /\ View.currentStep = "COMPLETED" /\ View.progress = 100 <=>
         \A t \in DOMAIN tasks : tasks[t].status # "FAILED"

(* What every implementation task that was begun has produced has been     *)
(* through the steps that follow it: a test that passed, after it, and a   *)
(* review, after the test.                                                 *)
Reviewed ==
  \A t \in Ids("IMPLEMENT") : tasks[t].status # "PENDING" =>
    /\ tasks[t].status = "DONE"
    /\ \E v \in Ids("TEST"), r \in Ids("REVIEW") :
         /\ t < v /\ v < r
         /\ tasks[v].status = "DONE" /\ tasks[r].status = "DONE"

Appears(event) == \E i \in DOMAIN log' \ DOMAIN log : log'[i] = event

(* With TESTING and REVIEW in the workflow nothing is published that was   *)
(* not tested and reviewed since it was last changed.                      *)
PublishOnlyReviewed == [][Appears("SCM_PR_CREATED") => Reviewed]_vars

(* Nothing is tested while a part of it is still to be implemented: the    *)
(* gate of handleImplementCompleted.                                       *)
VerifyOnlyImplemented ==
  [][\A c \in DOMAIN commands' \ DOMAIN commands :
       commands'[c].type = "VERIFY" => AllDone("IMPLEMENT")]_vars

(* A session that nothing will move any more is not RUNNING: every path    *)
(* through the workflow ends in COMPLETED or FAILED.                       *)
NotStranded == Quiescent => status # "RUNNING"

PublishEvents == {"SCM_PR_CREATED", "SCM_NO_CHANGES", "SCM_PUBLISH_FAILED"}

(* When a session comes to rest, and has not failed, the last thing that   *)
(* was implemented has been published after it was finished: no fix is     *)
(* made and then left in the worktree.                                     *)
NoWorkLeftBehind ==
  Quiescent /\ status # "FAILED" =>
    \A i \in DOMAIN log :
      log[i] \in {"IMPLEMENT_COMPLETED", "REACT_COMPLETED"} =>
        \E j \in DOMAIN log : i < j /\ log[j] \in PublishEvents

(* Every session that is started comes to an end.                          *)
SessionEnds == [](status = "RUNNING" => <>(status \in {"COMPLETED", "FAILED"}))
=============================================================================
