------------------------ MODULE OrchestrationProofs ------------------------
(***************************************************************************)
(* What holds of Orchestration for every workflow and any number of        *)
(* processes.  The argument: a process has to handle only events of the    *)
(* log, of which each is a transition of the workflow, and once it has     *)
(* handled one, and perhaps dispatched a command for it, that event never  *)
(* comes back to it.                                                       *)
(***************************************************************************)
EXTENDS Orchestration, SequenceTheorems, FiniteSetTheorems, TLAPS

(* The events that the model emits by name are events.                     *)
LEMMA NamedEvents ==
  /\ {"SESSION_STARTED", "SESSION_COMPLETED", "COMMAND_FAILED", "SCM_PUBLISH_FAILED",
      "SCM_NO_CHANGES", "SCM_FEEDBACK_SYNCED", "SCM_PR_CREATED",
      "SCM_WORKSPACE_PREPARED"} \subseteq EventType
  /\ Feedback \subseteq EventType
<1>1. /\ STEP_COMPLETION_EVENTS("PUBLISH") \in EventType
      /\ STEP_COMPLETION_EVENTS("PREPARE") \in EventType
      /\ STEP_COMPLETION_EVENTS("SCM_PIPELINE") \in EventType
      /\ STEP_COMPLETION_EVENTS("SCM_REVIEW") \in EventType
  BY DEF EventType, WorkflowStep
<1>2. "SCM_PIPELINE_FAILED" \in EventType
  <2>1. STEP_FAILURE_EVENTS["SCM_PIPELINE"] \in Range(STEP_FAILURE_EVENTS)
    BY DEF STEP_FAILURE_EVENTS, Range
  <2>2. STEP_FAILURE_EVENTS["SCM_PIPELINE"] = "SCM_PIPELINE_FAILED"
    BY DEF STEP_FAILURE_EVENTS
  <2> QED
    BY <2>1, <2>2 DEF EventType
<1>3. {"SCM_PR_CREATED", "SCM_WORKSPACE_PREPARED", "SCM_PIPELINE_PASSED",
       "SCM_REVIEW_COMMENT_ADDED"} \subseteq EventType
  BY <1>1 DEF STEP_COMPLETION_EVENTS
<1>4. {"SESSION_STARTED", "SESSION_COMPLETED", "COMMAND_FAILED", "SCM_PUBLISH_FAILED",
       "SCM_NO_CHANGES", "SCM_FEEDBACK_SYNCED"} \subseteq EventType
  BY DEF EventType
<1> QED
  BY <1>2, <1>3, <1>4, OrchestrationAssumption

(* What is emitted comes after everything in the log, and a process has to *)
(* handle only what is a transition of the workflow.                       *)
LEMMA PublicationIsNew ==
  ASSUME log \in Seq(EventType), NEW events \in Seq(EventType)
  PROVE  /\ log \o events \in Seq(EventType)
         /\ DOMAIN log \subseteq DOMAIN (log \o events)
         /\ \A i \in DOMAIN log : (log \o events)[i] = log[i]
         /\ Publication(events) \subseteq DOMAIN (log \o events)
         /\ Publication(events) \cap DOMAIN log = {}
         /\ \A i \in Publication(events) : (log \o events)[i] \in EnabledTransitions
<1>1. /\ log \o events \in Seq(EventType)
      /\ Len(log \o events) = Len(log) + Len(events)
      /\ \A i \in 1 .. Len(log) + Len(events) :
           (log \o events)[i] = IF i <= Len(log) THEN log[i] ELSE events[i - Len(log)]
  BY ConcatProperties
<1>2. /\ DOMAIN log = 1 .. Len(log) /\ DOMAIN events = 1 .. Len(events)
      /\ DOMAIN (log \o events) = 1 .. Len(log) + Len(events)
      /\ Len(log) \in Nat /\ Len(events) \in Nat
  BY <1>1, LenProperties
<1>3. ASSUME NEW i \in Publication(events)
      PROVE  /\ i \in DOMAIN (log \o events) /\ i \notin DOMAIN log
             /\ (log \o events)[i] \in EnabledTransitions
  <2>1. PICK k \in DOMAIN events : i = Len(log) + k /\ events[k] \in EnabledTransitions
    BY <1>3 DEF Publication
  <2>2. i \in 1 .. Len(log) + Len(events) /\ ~(i <= Len(log)) /\ i - Len(log) = k
    BY <1>2, <2>1
  <2> QED
    BY <1>1, <1>2, <2>1, <2>2
<1> QED
  BY <1>1, <1>2, <1>3
-----------------------------------------------------------------------------
(* A handler that is due handles a transition of the workflow.             *)
DueIsTransition ==
  \A p \in Processes : \A e \in unhandled[p] : log[e] \in EnabledTransitions

(* An event for which a process dispatched a command is not due again.     *)
CauseIsHandled ==
  \A c \in DOMAIN commands :
    commands[c].cause \in DOMAIN log /\ commands[c].cause \notin unhandled[commands[c].by]

IInv == TypeOK /\ DueIsTransition /\ CauseIsHandled /\ OneCommandPerEvent

(* What every step does to the log and to what is due: the log is only     *)
(* appended to, and what becomes due is new.                               *)
LogGrows ==
  /\ log' \in Seq(EventType)
  /\ DOMAIN log \subseteq DOMAIN log'
  /\ unhandled' \in [Processes -> SUBSET (DOMAIN log')]
  /\ \A p \in Processes : unhandled'[p] \cap DOMAIN log \subseteq unhandled[p]
  /\ \A p \in Processes : \A e \in unhandled'[p] : log'[e] \in EnabledTransitions

(* An emit only appends, and what it makes due is new.                     *)
LEMMA EmitGrows ==
  ASSUME TypeOK, DueIsTransition, NEW events \in Seq(EventType), Emit(events)
  PROVE  LogGrows
BY PublicationIsNew DEF Emit, LogGrows, TypeOK, DueIsTransition

(* The frame of handleEvent takes the event from what is due.              *)
LEMMA HandledGrows ==
  ASSUME TypeOK, DueIsTransition, NEW p \in Processes, NEW e \in unhandled[p],
         NEW s \in SessionStatus, NEW emitted \in Seq(EventType), Handled(p, e, s, emitted)
  PROVE  /\ LogGrows /\ status' \in SessionStatus /\ executing' = executing
         /\ e \in DOMAIN log /\ e \notin unhandled'[p]
<1> DEFINE last   == CompletesSession(log[e])
           events == IF last THEN CompletedWith(emitted) ELSE emitted
<1>1. events \in Seq(EventType)
  BY NamedEvents, AppendProperties DEF CompletedWith
<1>2. /\ status' = IF last THEN "COMPLETED" ELSE s
      /\ log' = log \o events
      /\ unhandled' = [q \in Processes |->
                         (unhandled[q] \ (IF q = p THEN {e} ELSE {})) \cup Publication(events)]
      /\ executing' = executing
  BY DEF Handled
<1> HIDE DEF last, events
<1>3. /\ log \o events \in Seq(EventType)
      /\ DOMAIN log \subseteq DOMAIN (log \o events)
      /\ \A i \in DOMAIN log : (log \o events)[i] = log[i]
      /\ Publication(events) \subseteq DOMAIN (log \o events)
      /\ Publication(events) \cap DOMAIN log = {}
      /\ \A i \in Publication(events) : (log \o events)[i] \in EnabledTransitions
  BY <1>1, PublicationIsNew DEF TypeOK
<1>4. \A q \in Processes : unhandled[q] \subseteq DOMAIN log
  BY DEF TypeOK
<1>5. LogGrows
  BY <1>2, <1>3, <1>4 DEF LogGrows, DueIsTransition
<1>6. e \in DOMAIN log /\ e \notin unhandled'[p]
  BY <1>2, <1>3, <1>4
<1>7. status' \in SessionStatus
  BY <1>2 DEF SessionStatus
<1> QED
  BY <1>2, <1>5, <1>6, <1>7
-----------------------------------------------------------------------------
(* What every handler of handleEvent is: one pass through the frame, with  *)
(* at most one command dispatched for the event.                           *)
ScmTypeOK ==
  /\ scm \in [repository : BOOLEAN, workspace : BOOLEAN, pr : BOOLEAN]
  /\ remotePr \in BOOLEAN /\ bound \in BOOLEAN

HandlerShape(p, e) ==
  /\ \E s \in SessionStatus, emitted \in Seq(EventType) : Handled(p, e, s, emitted)
  /\ (\E type \in CommandType : Dispatch(p, e, type)) \/ UNCHANGED <<tasks, commands>>
  /\ ScmTypeOK'

(* A handler that starts a step.                                           *)
LEMMA StartStepShape ==
  ASSUME TypeOK, NEW p, NEW e, NEW type \in CommandType, NEW s \in SessionStatus,
         StartStep(p, e, type, s)
  PROVE  HandlerShape(p, e)
<1>1. <<>> \in Seq(EventType)
  OBVIOUS
<1> QED
  BY <1>1 DEF StartStep, HandlerShape, ScmTypeOK, TypeOK, sessionVars

(* A handler without work of its own.                                      *)
LEMMA NothingToDoShape ==
  ASSUME TypeOK, NEW p, NEW e, NEW s \in SessionStatus, NothingToDo(p, e, s)
  PROVE  HandlerShape(p, e)
<1>1. <<>> \in Seq(EventType)
  OBVIOUS
<1> QED
  BY <1>1 DEF NothingToDo, HandlerShape, ScmTypeOK, TypeOK, sessionVars

(* A publication, whatever its outcome.                                    *)
LEMMA PublishChangesShape ==
  ASSUME TypeOK, NEW p, NEW e, PublishChanges(p, e)
  PROVE  HandlerShape(p, e)
<1> status \in SessionStatus
  BY DEF TypeOK
<1>1. CASE scm.repository /\ scm.workspace
  <2>1. PICK outcome \in PublishOutcomes : Publish(p, e, outcome)
    BY <1>1 DEF PublishChanges
  <2>2. UNCHANGED <<tasks, commands>>
    BY <1>1 DEF PublishChanges
  <2>3. /\ <<"SCM_PR_CREATED", "SCM_FEEDBACK_SYNCED">> \in Seq(EventType)
        /\ <<"SCM_NO_CHANGES", "SCM_FEEDBACK_SYNCED">> \in Seq(EventType)
        /\ <<"SCM_PUBLISH_FAILED">> \in Seq(EventType)
    BY NamedEvents
  <2>4. \E emitted \in Seq(EventType) : Handled(p, e, status, emitted)
    BY <2>1, <2>3 DEF Publish
  <2>5. ScmTypeOK'
    BY <2>1 DEF Publish, ScmTypeOK, TypeOK, sessionVars
  <2> QED
    BY <2>2, <2>4, <2>5 DEF HandlerShape
<1>2. CASE ~(scm.repository /\ scm.workspace)
  BY <1>2, NothingToDoShape DEF PublishChanges
<1> QED
  BY <1>1, <1>2

(* So every handler has this shape.                                        *)
LEMMA HandleEventShape ==
  ASSUME TypeOK, NEW p \in Processes, NEW e \in unhandled[p], HandleEvent(p, e)
  PROVE  HandlerShape(p, e)
<1> /\ status \in SessionStatus /\ {"RUNNING", "FAILED", "COMPLETED"} \subseteq SessionStatus
    /\ {"PLAN", "GENERATE", "FIX", "REACT", "VERIFY", "REVIEW"} \subseteq CommandType
  BY DEF TypeOK, SessionStatus, CommandType
<1>1. ASSUME PublishIfEnabled(p, e) PROVE HandlerShape(p, e)
  BY <1>1, PublishChangesShape, NothingToDoShape DEF PublishIfEnabled
<1>2. ASSUME TestOrPublish(p, e) PROVE HandlerShape(p, e)
  BY <1>1, <1>2, StartStepShape DEF TestOrPublish
<1>3. ASSUME TriggerFirstStep(p, e) PROVE HandlerShape(p, e)
  <2>1. \/ StartStep(p, e, "REACT", status)
        \/ StartStep(p, e, "PLAN", status)
        \/ NothingToDo(p, e, status)
    BY <1>3 DEF TriggerFirstStep
  <2> QED
    BY <2>1, StartStepShape, NothingToDoShape
<1>4. CASE HandleSessionStarted(p, e)
  <2>1. CASE TriggerFirstStep(p, e)
    BY <1>3, <2>1
  <2>2. CASE NothingToDo(p, e, status)
    BY <2>2, NothingToDoShape
  <2>3. CASE /\ scm' = [scm EXCEPT !.workspace = TRUE, !.pr = FALSE]
             /\ Handled(p, e, status, <<"SCM_WORKSPACE_PREPARED">>)
             /\ UNCHANGED <<remotePr, bound, tasks, commands>>
    <3>1. <<"SCM_WORKSPACE_PREPARED">> \in Seq(EventType)
      BY NamedEvents
    <3>2. ScmTypeOK'
      BY <2>3 DEF ScmTypeOK, TypeOK
    <3> QED
      BY <2>3, <3>1, <3>2 DEF HandlerShape
  <2> QED
    BY <1>4, <2>1, <2>2, <2>3 DEF HandleSessionStarted
<1>5. CASE HandlePrepareCompleted(p, e)
  BY <1>3, <1>5 DEF HandlePrepareCompleted
<1>6. CASE HandlePlanCompleted(p, e)
  BY <1>6, StartStepShape, NothingToDoShape DEF HandlePlanCompleted
<1>7. CASE HandleReactCompleted(p, e)
  BY <1>2, <1>7 DEF HandleReactCompleted
<1>8. CASE HandleImplementCompleted(p, e)
  BY <1>2, <1>8, NothingToDoShape DEF HandleImplementCompleted
<1>9. CASE HandleTestFailed(p, e) \/ HandleReviewFailed(p, e)
  BY <1>9, StartStepShape DEF HandleTestFailed, HandleReviewFailed
<1>10. CASE HandleTestPassed(p, e)
  BY <1>1, <1>10, StartStepShape DEF HandleTestPassed
<1>11. CASE HandleReviewCompleted(p, e)
  <2>1. CASE PublishChanges(p, e)
    BY <2>1, PublishChangesShape
  <2>2. CASE /\ Handled(p, e, "COMPLETED", CompletedWith(<<>>))
             /\ UNCHANGED <<sessionVars, tasks, commands>>
    <3>1. CompletedWith(<<>>) \in Seq(EventType)
      BY NamedEvents, AppendProperties DEF CompletedWith
    <3>2. ScmTypeOK'
      BY <2>2 DEF ScmTypeOK, TypeOK, sessionVars
    <3> QED
      BY <2>2, <3>1, <3>2 DEF HandlerShape
  <2> QED
    BY <1>11, <2>1, <2>2 DEF HandleReviewCompleted
<1>12. CASE HandleCommandFailed(p, e) \/ HandleScmPublishFailed(p, e)
  BY <1>12, NothingToDoShape DEF HandleCommandFailed, HandleScmPublishFailed
<1>13. CASE HandleScmPipelineFailed(p, e) \/ HandleScmReviewCommentAdded(p, e)
  BY <1>13, StartStepShape DEF HandleScmPipelineFailed, HandleScmReviewCommentAdded
<1>14. CASE HandleStepWithoutWork(p, e)
  BY <1>14, NothingToDoShape DEF HandleStepWithoutWork
<1> QED
  BY <1>4, <1>5, <1>6, <1>7, <1>8, <1>9, <1>10, <1>11, <1>12, <1>13, <1>14
  DEF HandleEvent
-----------------------------------------------------------------------------
(* The parts of TypeOK that are about tasks and commands.                  *)
WorkTypeOK ==
  /\ tasks \in Seq(Task)
  /\ commands \in Seq(Command)
  /\ \A c \in DOMAIN commands : commands[c].task \in DOMAIN tasks
  /\ executing \in [Processes -> {0} \cup DOMAIN commands]

(* A dispatch adds one task and one command for it, behind the others.     *)
LEMMA DispatchWork ==
  ASSUME TypeOK, NEW p \in Processes, NEW e \in DOMAIN log, NEW type \in CommandType,
         Dispatch(p, e, type), executing' = executing
  PROVE  /\ WorkTypeOK'
         /\ \A c \in DOMAIN commands' :
              \/ c \in DOMAIN commands /\ commands'[c] = commands[c]
              \/ c = Len(commands) + 1 /\ commands'[c].cause = e /\ commands'[c].by = p
                 /\ commands'[c].type = type
<1> DEFINE task    == [type |-> TaskTypeOf(type), status |-> "PENDING"]
           command == [type |-> type, task |-> Len(tasks) + 1, status |-> "PENDING",
                       cause |-> e, by |-> p]
<1>1. tasks' = Append(tasks, task) /\ commands' = Append(commands, command)
  BY DEF Dispatch, CreateTask
<1>2. task \in Task
  BY DEF Task, TaskTypeOf, TaskType, TaskStatus, CommandType
<1>3. Len(tasks) \in Nat /\ Len(commands) \in Nat /\ DOMAIN log = 1 .. Len(log)
      /\ DOMAIN tasks = 1 .. Len(tasks) /\ DOMAIN commands = 1 .. Len(commands)
  BY LenProperties DEF TypeOK
<1>4. command \in Command
  BY <1>3 DEF Command, CommandStatus
<1>5. command.cause = e /\ command.by = p /\ command.task = Len(tasks) + 1
      /\ command.type = type
  OBVIOUS
<1> HIDE DEF task, command
<1>6. /\ tasks' \in Seq(Task) /\ DOMAIN tasks' = 1 .. Len(tasks) + 1
  BY <1>1, <1>2, AppendProperties, LenProperties DEF TypeOK
<1>7. /\ commands' \in Seq(Command) /\ DOMAIN commands' = 1 .. Len(commands) + 1
      /\ \A c \in 1 .. Len(commands) : commands'[c] = commands[c]
      /\ commands'[Len(commands) + 1] = command
  BY <1>1, <1>4, AppendProperties, LenProperties DEF TypeOK
<1>8. \A c \in DOMAIN commands' : commands'[c].task \in DOMAIN tasks'
  <2>1. ASSUME NEW c \in 1 .. Len(commands) PROVE commands'[c].task \in 1 .. Len(tasks) + 1
    <3>1. commands[c].task \in 1 .. Len(tasks)
      BY <1>3 DEF TypeOK
    <3> QED
      BY <1>3, <1>7, <3>1
  <2>2. commands'[Len(commands) + 1].task \in 1 .. Len(tasks) + 1
    BY <1>3, <1>5, <1>7
  <2> QED
    BY <1>3, <1>6, <1>7, <2>1, <2>2
<1>9. executing' \in [Processes -> {0} \cup DOMAIN commands']
  BY <1>3, <1>7 DEF TypeOK
<1> QED
  BY <1>3, <1>5, <1>6, <1>7, <1>8, <1>9 DEF WorkTypeOK

(* A command has the fields of its type.                                   *)
LEMMA CommandFields ==
  ASSUME commands \in Seq(Command), NEW c \in DOMAIN commands
  PROVE  /\ commands[c].type \in CommandType /\ commands[c].task \in Nat
         /\ commands[c].by \in Processes
<1>1. commands[c] \in Command
  BY LenProperties, ElementOfSeq
<1> QED
  BY <1>1 DEF Command

(* Commands that keep their number, cause and origin keep the invariant.   *)
LEMMA SameCausesKept ==
  ASSUME IInv, LogGrows, commands' \in Seq(Command),
         DOMAIN commands' = DOMAIN commands,
         \A c \in DOMAIN commands : commands'[c].cause = commands[c].cause
                                   /\ commands'[c].by = commands[c].by
  PROVE  DueIsTransition' /\ CauseIsHandled' /\ OneCommandPerEvent'
<1>1. \A c \in DOMAIN commands : commands[c].by \in Processes
  BY CommandFields DEF IInv, TypeOK
<1>2. DueIsTransition'
  BY DEF LogGrows, DueIsTransition
<1>3. CauseIsHandled'
  BY <1>1 DEF LogGrows, CauseIsHandled, IInv
<1>4. OneCommandPerEvent'
  BY DEF OneCommandPerEvent, IInv
<1> QED
  BY <1>2, <1>3, <1>4

(* A step that leaves the log and what is due alone.                       *)
LEMMA LogUnchanged ==
  ASSUME TypeOK, DueIsTransition, UNCHANGED <<log, unhandled>>
  PROVE  LogGrows
BY DEF LogGrows, TypeOK, DueIsTransition

(* Handling an event keeps the invariant: it is no longer due, and the     *)
(* command it causes is the first one.                                     *)
LEMMA HandleEventStep ==
  ASSUME IInv, NEW p \in Processes, NEW e \in unhandled[p], HandleEvent(p, e)
  PROVE  IInv'
<1>1. TypeOK /\ DueIsTransition /\ CauseIsHandled /\ OneCommandPerEvent
  BY DEF IInv
<1>2. HandlerShape(p, e)
  BY <1>1, HandleEventShape
<1>3. PICK s \in SessionStatus, emitted \in Seq(EventType) : Handled(p, e, s, emitted)
  BY <1>2 DEF HandlerShape
<1>4. /\ LogGrows /\ status' \in SessionStatus /\ executing' = executing
      /\ e \in DOMAIN log /\ e \notin unhandled'[p]
  BY <1>1, <1>3, HandledGrows
<1>5. CASE UNCHANGED <<tasks, commands>>
  <2>1. WorkTypeOK'
    BY <1>1, <1>4, <1>5 DEF WorkTypeOK, TypeOK
  <2>2. DueIsTransition' /\ CauseIsHandled' /\ OneCommandPerEvent'
    BY <1>1, <1>4, <1>5, SameCausesKept DEF TypeOK
  <2> QED
    BY <1>2, <1>4, <2>1, <2>2 DEF HandlerShape, ScmTypeOK, WorkTypeOK, IInv, TypeOK, LogGrows
<1>6. CASE \E type \in CommandType : Dispatch(p, e, type)
  <2>1. PICK type \in CommandType : Dispatch(p, e, type)
    BY <1>6
  <2>2. /\ WorkTypeOK'
        /\ \A c \in DOMAIN commands' :
             \/ c \in DOMAIN commands /\ commands'[c] = commands[c]
             \/ c = Len(commands) + 1 /\ commands'[c].cause = e /\ commands'[c].by = p
    BY <1>1, <1>4, <2>1, DispatchWork
  <2>3. \A c \in DOMAIN commands : commands[c].by \in Processes
    BY <1>1, CommandFields DEF TypeOK
  <2>4. CauseIsHandled'
    BY <1>1, <1>4, <2>2, <2>3 DEF CauseIsHandled, LogGrows
  <2>5. \A c \in DOMAIN commands : ~(commands[c].cause = e /\ commands[c].by = p)
    BY <1>1 DEF CauseIsHandled
  <2>6. OneCommandPerEvent'
    BY <1>1, <2>2, <2>5 DEF OneCommandPerEvent
  <2>7. DueIsTransition'
    BY <1>4 DEF LogGrows, DueIsTransition
  <2>8. TypeOK'
    BY <1>2, <1>4, <2>2 DEF HandlerShape, ScmTypeOK, WorkTypeOK, TypeOK, LogGrows
  <2> QED
    BY <2>4, <2>6, <2>7, <2>8 DEF IInv
<1> QED
  BY <1>2, <1>5, <1>6 DEF HandlerShape
-----------------------------------------------------------------------------
(* A task or a command that changes its status is still one.               *)
LEMMA TaskStatusSet ==
  ASSUME tasks \in Seq(Task), NEW t \in DOMAIN tasks, NEW s \in TaskStatus
  PROVE  /\ [tasks EXCEPT ![t].status = s] \in Seq(Task)
         /\ DOMAIN [tasks EXCEPT ![t].status = s] = DOMAIN tasks
<1>1. t \in 1 .. Len(tasks)
  BY LenProperties
<1>2. tasks[t] \in Task
  BY <1>1, ElementOfSeq
<1>3. [tasks[t] EXCEPT !.status = s] \in Task
  BY <1>2 DEF Task
<1>4. [tasks EXCEPT ![t] = [tasks[t] EXCEPT !.status = s]] \in Seq(Task)
  BY <1>1, <1>3, ExceptSeq
<1> QED
  BY <1>4

(* The same of a command, which keeps its task, cause and origin.          *)
LEMMA CommandStatusSet ==
  ASSUME commands \in Seq(Command), NEW c \in DOMAIN commands, NEW s \in CommandStatus
  PROVE  LET after == [commands EXCEPT ![c].status = s]
         IN  /\ after \in Seq(Command) /\ DOMAIN after = DOMAIN commands
             /\ \A d \in DOMAIN commands :
                  /\ after[d].task = commands[d].task /\ after[d].type = commands[d].type
                  /\ after[d].cause = commands[d].cause /\ after[d].by = commands[d].by
<1> DEFINE after == [commands EXCEPT ![c].status = s]
<1>1. c \in 1 .. Len(commands)
  BY LenProperties
<1>2. commands[c] \in Command
  BY <1>1, ElementOfSeq
<1>3. [commands[c] EXCEPT !.status = s] \in Command
  BY <1>2 DEF Command
<1>4. after = [commands EXCEPT ![c] = [commands[c] EXCEPT !.status = s]]
  OBVIOUS
<1>5. after \in Seq(Command)
  BY <1>1, <1>3, <1>4, ExceptSeq
<1>6. ASSUME NEW d \in DOMAIN commands
      PROVE  /\ after[d].task = commands[d].task /\ after[d].type = commands[d].type
             /\ after[d].cause = commands[d].cause /\ after[d].by = commands[d].by
  BY <1>2 DEF Command
<1> QED
  BY <1>4, <1>5, <1>6

(* What the agents and the outside do keeps the invariant.                 *)
LEMMA ExecuteStep ==
  ASSUME IInv, NEW p \in Processes, NEW c \in DOMAIN commands, Execute(p, c)
  PROVE  IInv'
<1>1. TypeOK /\ DueIsTransition
  BY DEF IInv
<1>2. /\ commands[c].task \in DOMAIN tasks
      /\ {"IN_PROGRESS", "DONE", "FAILED"} \subseteq TaskStatus
      /\ {"RUNNING", "DONE", "FAILED"} \subseteq CommandStatus
  BY <1>1 DEF TypeOK, TaskStatus, CommandStatus
<1>3. SUFFICES LogGrows /\ TypeOK' /\ DueIsTransition' /\ CauseIsHandled' /\ OneCommandPerEvent'
  BY DEF IInv
<1>4. CASE ClaimCommand(p, c)
  <2>1. LogGrows
    BY <1>1, <1>4, LogUnchanged DEF ClaimCommand, MarkTask
  <2>2. /\ commands' \in Seq(Command) /\ DOMAIN commands' = DOMAIN commands
        /\ \A d \in DOMAIN commands :
             /\ commands'[d].task = commands[d].task
             /\ commands'[d].cause = commands[d].cause /\ commands'[d].by = commands[d].by
    BY <1>1, <1>2, <1>4, CommandStatusSet DEF ClaimCommand, MarkTask, TypeOK
  <2>3. tasks' \in Seq(Task) /\ DOMAIN tasks' = DOMAIN tasks
    BY <1>1, <1>2, <1>4, TaskStatusSet DEF ClaimCommand, MarkTask, TypeOK
  <2>4. TypeOK'
    BY <1>1, <1>4, <2>1, <2>2, <2>3 DEF ClaimCommand, MarkTask, TypeOK, LogGrows, sessionVars
  <2> QED
    BY <2>1, <2>2, <2>4, SameCausesKept
<1>5. ASSUME NEW event \in EventType, AgentDecides(p, c, event)
      PROVE  LogGrows /\ TypeOK' /\ DueIsTransition' /\ CauseIsHandled' /\ OneCommandPerEvent'
  <2>1. LogGrows
    <3>1. <<event>> \in Seq(EventType)
      OBVIOUS
    <3> QED
      BY <1>1, <1>5, <3>1, EmitGrows DEF AgentDecides, MarkTask
  <2>2. tasks' \in Seq(Task) /\ DOMAIN tasks' = DOMAIN tasks
    BY <1>1, <1>2, <1>5, TaskStatusSet DEF AgentDecides, MarkTask, TypeOK
  <2>3. TypeOK'
    BY <1>1, <1>5, <2>1, <2>2 DEF AgentDecides, MarkTask, TypeOK, LogGrows, sessionVars
  <2> QED
    BY <1>1, <1>5, <2>1, <2>3, SameCausesKept DEF AgentDecides, MarkTask, TypeOK
<1>6. CASE AgentThrows(p, c)
  <2>1. <<"COMMAND_FAILED">> \in Seq(EventType)
    BY NamedEvents
  <2>2. LogGrows
    BY <1>1, <1>6, <2>1, EmitGrows DEF AgentThrows
  <2>3. /\ commands' \in Seq(Command) /\ DOMAIN commands' = DOMAIN commands
        /\ \A d \in DOMAIN commands :
             /\ commands'[d].task = commands[d].task
             /\ commands'[d].cause = commands[d].cause /\ commands'[d].by = commands[d].by
    BY <1>1, <1>2, <1>6, CommandStatusSet DEF AgentThrows, TypeOK
  <2>4. TypeOK'
    BY <1>1, <1>6, <2>2, <2>3 DEF AgentThrows, TypeOK, LogGrows, sessionVars
  <2> QED
    BY <2>2, <2>3, <2>4, SameCausesKept
<1>7. CASE FinishCommand(p, c)
  <2>1. LogGrows
    BY <1>1, <1>7, LogUnchanged DEF FinishCommand
  <2>2. /\ commands' \in Seq(Command) /\ DOMAIN commands' = DOMAIN commands
        /\ \A d \in DOMAIN commands :
             /\ commands'[d].task = commands[d].task
             /\ commands'[d].cause = commands[d].cause /\ commands'[d].by = commands[d].by
    BY <1>1, <1>2, <1>7, CommandStatusSet DEF FinishCommand, TypeOK
  <2>3. TypeOK'
    BY <1>1, <1>7, <2>1, <2>2 DEF FinishCommand, TypeOK, LogGrows, sessionVars
  <2> QED
    BY <2>1, <2>2, <2>3, SameCausesKept
<1> QED
  BY <1>4, <1>5, <1>6, <1>7 DEF Execute

(* What comes from outside is an event like any other.                     *)
LEMMA OutsideStep ==
  ASSUME IInv, StartSession \/ \E event \in Feedback : ReceiveFeedback(event)
  PROVE  IInv'
<1>1. TypeOK /\ DueIsTransition
  BY DEF IInv
<1>2. PICK event \in EventType : Emit(<<event>>)
  BY NamedEvents DEF StartSession, ReceiveFeedback
<1>3. LogGrows
  <2>1. <<event>> \in Seq(EventType)
    OBVIOUS
  <2> QED
    BY <1>1, <1>2, <2>1, EmitGrows
<1>4. UNCHANGED <<scm, remotePr, bound, tasks, commands, executing>> /\ status' \in SessionStatus
  BY <1>1 DEF StartSession, ReceiveFeedback, sessionVars, SessionStatus, TypeOK
<1>5. TypeOK'
  BY <1>1, <1>3, <1>4 DEF TypeOK, LogGrows
<1> QED
  BY <1>1, <1>3, <1>4, <1>5, SameCausesKept DEF IInv, TypeOK

(* Nothing has happened at first.                                          *)
LEMMA InitIInv == Init => IInv
<1> SUFFICES ASSUME Init PROVE IInv
  OBVIOUS
<1>1. /\ tasks = <<>> /\ commands = <<>> /\ log = <<>>
      /\ unhandled = [p \in Processes |-> {}] /\ executing = [p \in Processes |-> 0]
  BY DEF Init, ScmContext
<1>2. /\ status \in SessionStatus /\ remotePr \in BOOLEAN /\ bound \in BOOLEAN
      /\ scm \in [repository : BOOLEAN, workspace : BOOLEAN, pr : BOOLEAN]
  <2>1. PICK known \in Repository :
          scm = [repository |-> known, workspace |-> FALSE, pr |-> FALSE]
    BY DEF Init, ScmContext
  <2>2. known \in BOOLEAN
    BY OrchestrationAssumption
  <2> QED
    BY <2>1, <2>2 DEF Init, ScmContext, SessionStatus
<1>3. TypeOK
  BY <1>1, <1>2 DEF TypeOK
<1>4. DueIsTransition /\ CauseIsHandled /\ OneCommandPerEvent
  BY <1>1 DEF DueIsTransition, CauseIsHandled, OneCommandPerEvent
<1> QED
  BY <1>3, <1>4 DEF IInv

(* Every step of Next keeps the invariant.                                 *)
LEMMA NextIInv == IInv /\ [Next]_vars => IInv'
<1> SUFFICES ASSUME IInv, [Next]_vars PROVE IInv'
  OBVIOUS
<1>1. CASE UNCHANGED vars
  BY <1>1 DEF vars, IInv, TypeOK, DueIsTransition, CauseIsHandled, OneCommandPerEvent
<1> QED
  BY <1>1, HandleEventStep, ExecuteStep, OutsideStep DEF Next

(* The inductive invariant of the orchestration model.                     *)
THEOREM Invariance == Spec => []IInv
BY InitIInv, NextIInv, PTL DEF Spec

(* Every record and every reference between records keeps its type.        *)
THEOREM TypeCorrect == Spec => []TypeOK
BY Invariance, PTL DEF IInv

(* Whatever the workflow, the order of the events and the number of        *)
(* processes: a process dispatches at most one command for an event.       *)
THEOREM EventsCauseOneCommand == Spec => []OneCommandPerEvent
BY Invariance, PTL DEF IInv
-----------------------------------------------------------------------------
(* Without REACT in the workflow its event is no transition.               *)
LEMMA ReactIsNoTransition ==
  ASSUME ~IsStepEnabled("REACT")
  PROVE  "REACT_COMPLETED" \notin EnabledTransitions
<1>1. \A i \in DOMAIN Steps : Steps[i] \in WorkflowStep
  BY WorkflowAssumption, LenProperties, ElementOfSeq
<1>2. Range(Steps) \subseteq WorkflowStep
  BY <1>1 DEF Range
<1>3. ASSUME NEW s \in Range(Steps) PROVE STEP_COMPLETION_EVENTS(s) # "REACT_COMPLETED"
  <2>1. s \in WorkflowStep /\ s # "REACT"
    BY <1>2 DEF IsStepEnabled
  <2> QED
    BY <2>1 DEF WorkflowStep, STEP_COMPLETION_EVENTS
<1>4. \A s \in DOMAIN STEP_FAILURE_EVENTS : STEP_FAILURE_EVENTS[s] # "REACT_COMPLETED"
  BY DEF STEP_FAILURE_EVENTS
<1> QED
  BY <1>3, <1>4 DEF EnabledTransitions

(* A handler that starts VERIFY has seen every implementation task done.   *)
LEMMA VerifyIsGated ==
  ASSUME IInv, ~IsStepEnabled("REACT"), NEW p \in Processes, NEW e \in unhandled[p],
         HandleEvent(p, e)
  PROVE  \/ UNCHANGED commands
         \/ \E type \in CommandType : Dispatch(p, e, type) /\ type # "VERIFY"
         \/ AllDone("IMPLEMENT")
<1> DEFINE Goal == \/ UNCHANGED commands
                   \/ \E type \in CommandType : Dispatch(p, e, type) /\ type # "VERIFY"
                   \/ AllDone("IMPLEMENT")
<1> {"PLAN", "GENERATE", "FIX", "REACT", "REVIEW"} \subseteq CommandType
  BY DEF CommandType
<1>1. ASSUME NEW type \in CommandType \ {"VERIFY"}, NEW s, StartStep(p, e, type, s)
      PROVE  Goal
  BY <1>1 DEF StartStep
<1>2. ASSUME NEW s, NothingToDo(p, e, s) PROVE Goal
  BY <1>2 DEF NothingToDo
<1>3. ASSUME PublishChanges(p, e) PROVE Goal
  BY <1>2, <1>3 DEF PublishChanges
<1>4. ASSUME PublishIfEnabled(p, e) PROVE Goal
  BY <1>2, <1>3, <1>4 DEF PublishIfEnabled
<1>5. ASSUME TriggerFirstStep(p, e) PROVE Goal
  <2>1. \/ StartStep(p, e, "REACT", status)
        \/ StartStep(p, e, "PLAN", status)
        \/ NothingToDo(p, e, status)
    BY <1>5 DEF TriggerFirstStep
  <2> QED
    BY <1>1, <1>2, <2>1
<1> SUFFICES Goal
  OBVIOUS
<1> HIDE DEF Goal
<1>6. CASE HandleSessionStarted(p, e)
  <2>1. TriggerFirstStep(p, e) \/ NothingToDo(p, e, status) \/ UNCHANGED commands
    BY <1>6 DEF HandleSessionStarted
  <2> QED
    BY <1>2, <1>5, <2>1 DEF Goal
<1>7. CASE HandlePrepareCompleted(p, e)
  BY <1>5, <1>7 DEF HandlePrepareCompleted
<1>8. CASE HandlePlanCompleted(p, e)
  BY <1>1, <1>2, <1>8 DEF HandlePlanCompleted
<1>9. CASE HandleReactCompleted(p, e)
  <2>1. log[e] = "REACT_COMPLETED" /\ log[e] \in EnabledTransitions
    BY <1>9 DEF HandleReactCompleted, Receives, IInv, DueIsTransition
  <2> QED
    BY <2>1, ReactIsNoTransition
<1>10. CASE HandleImplementCompleted(p, e)
  BY <1>2, <1>10 DEF HandleImplementCompleted, Goal
<1>11. CASE HandleTestFailed(p, e) \/ HandleReviewFailed(p, e)
  BY <1>1, <1>11 DEF HandleTestFailed, HandleReviewFailed
<1>12. CASE HandleTestPassed(p, e)
  BY <1>1, <1>4, <1>12 DEF HandleTestPassed
<1>13. CASE HandleReviewCompleted(p, e)
  <2>1. PublishChanges(p, e) \/ UNCHANGED commands
    BY <1>13 DEF HandleReviewCompleted
  <2> QED
    BY <1>3, <2>1 DEF Goal
<1>14. CASE HandleCommandFailed(p, e) \/ HandleScmPublishFailed(p, e)
  BY <1>2, <1>14 DEF HandleCommandFailed, HandleScmPublishFailed
<1>15. CASE HandleScmPipelineFailed(p, e) \/ HandleScmReviewCommentAdded(p, e)
  BY <1>1, <1>15 DEF HandleScmPipelineFailed, HandleScmReviewCommentAdded
<1>16. CASE HandleStepWithoutWork(p, e)
  BY <1>2, <1>16 DEF HandleStepWithoutWork
<1> QED
  BY <1>6, <1>7, <1>8, <1>9, <1>10, <1>11, <1>12, <1>13, <1>14, <1>15, <1>16
  DEF HandleEvent, Goal

(* In every workflow without REACT, and however fixes overlap, VERIFY is   *)
(* dispatched only when no implementation task is unfinished: the gate of  *)
(* handleImplementCompleted.                                               *)
THEOREM VerifyWaits ==
  ASSUME ~IsStepEnabled("REACT")
  PROVE  Spec => VerifyOnlyImplemented
<1> DEFINE Gated == \A c \in DOMAIN commands' \ DOMAIN commands :
                      commands'[c].type = "VERIFY" => AllDone("IMPLEMENT")
<1>1. IInv /\ [Next]_vars => Gated
  <2> SUFFICES ASSUME IInv, [Next]_vars PROVE Gated
    OBVIOUS
  <2>1. ASSUME NEW p \in Processes, NEW e \in unhandled[p], HandleEvent(p, e) PROVE Gated
    <3>1. CASE \E type \in CommandType : Dispatch(p, e, type) /\ type # "VERIFY"
      <4>1. PICK type \in CommandType : Dispatch(p, e, type) /\ type # "VERIFY"
        BY <3>1
      <4>2. HandlerShape(p, e) /\ TypeOK /\ DueIsTransition
        BY <2>1, HandleEventShape DEF IInv
      <4>3. executing' = executing /\ e \in DOMAIN log
        BY <4>2, HandledGrows DEF HandlerShape
      <4> QED
        BY <4>1, <4>2, <4>3, DispatchWork
    <3> QED
      BY <2>1, <3>1, VerifyIsGated
  <2>2. ASSUME NEW p \in Processes, NEW c \in DOMAIN commands, Execute(p, c)
        PROVE  DOMAIN commands' = DOMAIN commands
    BY <2>2 DEF Execute, ClaimCommand, MarkTask, AgentDecides, MarkTask, AgentThrows, FinishCommand
  <2>3. CASE StartSession \/ \E event \in Feedback : ReceiveFeedback(event)
    BY <2>3 DEF StartSession, ReceiveFeedback
  <2>4. CASE UNCHANGED vars
    BY <2>4 DEF vars
  <2> QED
    BY <2>1, <2>2, <2>3, <2>4 DEF Next
<1>2. IInv /\ [Next]_vars => [Gated]_vars
  BY <1>1
<1> QED
  BY <1>2, Invariance, PTL DEF Spec, VerifyOnlyImplemented
-----------------------------------------------------------------------------
(***************************************************************************)
(* What every handler does, by the event it handles: it starts a step,     *)
(* prepares the workspace, publishes, completes the session, or rests.     *)
(***************************************************************************)
Follows(type, event) ==
  \/ /\ event \in {"SESSION_STARTED", "SCM_WORKSPACE_PREPARED"}
     /\ event = "SESSION_STARTED" => ~IsStepEnabled("PREPARE")
     /\ \/ type = "REACT" /\ IsStepEnabled("REACT")
        \/ type = "PLAN" /\ IsStepEnabled("PLANNING") /\ ~IsStepEnabled("REACT")
  \/ event = "PLAN_COMPLETED" /\ type = "GENERATE" /\ IsStepEnabled("IMPLEMENTATION")
  \/ /\ event = "REACT_COMPLETED" \/ (event = "IMPLEMENT_COMPLETED" /\ AllDone("IMPLEMENT"))
     /\ type = "VERIFY" /\ IsStepEnabled("TESTING")
  \/ event = "TEST_PASSED" /\ type = "REVIEW" /\ IsStepEnabled("REVIEW")
  \/ event \in {"TEST_FAILED", "REVIEW_FAILED"} /\ type = "FIX"

(* No step of the workflow but PUBLISH is left after this event.           *)
EndsSteps(event) ==
  \/ event = "REVIEW_COMPLETED"
  \/ event = "TEST_PASSED" /\ ~IsStepEnabled("REVIEW")
  \/ /\ event = "REACT_COMPLETED" \/ (event = "IMPLEMENT_COMPLETED" /\ AllDone("IMPLEMENT"))
     /\ ~IsStepEnabled("TESTING")

CanPublish == IsStepEnabled("PUBLISH") /\ scm.repository /\ scm.workspace

(* The handler makes nothing of the event.                                 *)
Unfollowed(event) ==
  \/ event \in {"SCM_PIPELINE_PASSED", "SCM_PR_CREATED"}
  \/ event = "SESSION_STARTED" /\ IsStepEnabled("PREPARE") /\ (~scm.repository \/ PrepareMayFail)
  \/ /\ event \in {"SESSION_STARTED", "SCM_WORKSPACE_PREPARED"}
     /\ ~IsStepEnabled("REACT") /\ ~IsStepEnabled("PLANNING")
  \/ event = "PLAN_COMPLETED" /\ ~IsStepEnabled("IMPLEMENTATION")
  \/ event = "IMPLEMENT_COMPLETED" /\ ~AllDone("IMPLEMENT")
  \/ EndsSteps(event) /\ ~CanPublish

StartsStep(p, e) ==
  \E type \in CommandType : Follows(type, log[e]) /\ StartStep(p, e, type, status)

StartsFix(p, e) ==
  /\ log[e] \in {"SCM_PIPELINE_FAILED", "SCM_REVIEW_COMMENT_ADDED"}
  /\ StartStep(p, e, "FIX", "RUNNING")

Prepares(p, e) ==
  /\ log[e] = "SESSION_STARTED" /\ IsStepEnabled("PREPARE") /\ scm.repository
  /\ scm' = [scm EXCEPT !.workspace = TRUE, !.pr = FALSE]
  /\ Handled(p, e, status, <<"SCM_WORKSPACE_PREPARED">>)
  /\ UNCHANGED <<remotePr, bound, tasks, commands>>

Publishes(p, e) ==
  /\ EndsSteps(log[e]) /\ CanPublish
  /\ \E outcome \in PublishOutcomes : Publish(p, e, outcome)
  /\ UNCHANGED <<tasks, commands>>

Completes(p, e) ==
  /\ log[e] = "REVIEW_COMPLETED" /\ ~IsStepEnabled("PUBLISH")
  /\ Handled(p, e, "COMPLETED", <<"SESSION_COMPLETED">>)
  /\ UNCHANGED <<sessionVars, tasks, commands>>

Rests(p, e) ==
  \E s : /\ \/ s = "FAILED" /\ log[e] \in {"COMMAND_FAILED", "SCM_PUBLISH_FAILED"}
            \/ s = status /\ Unfollowed(log[e])
         /\ NothingToDo(p, e, s)

(* The fourteen handlers of handleEvent take one of six forms.             *)
LEMMA HandlerForms ==
  ASSUME NEW p, NEW e, HandleEvent(p, e)
  PROVE  \/ StartsStep(p, e) \/ StartsFix(p, e) \/ Prepares(p, e)
         \/ Publishes(p, e) \/ Completes(p, e) \/ Rests(p, e)
<1> {"PLAN", "GENERATE", "FIX", "REACT", "VERIFY", "REVIEW"} \subseteq CommandType
  BY DEF CommandType
<1> DEFINE Goal == \/ StartsStep(p, e) \/ StartsFix(p, e) \/ Prepares(p, e)
                   \/ Publishes(p, e) \/ Completes(p, e) \/ Rests(p, e)
<1> SUFFICES Goal
  OBVIOUS
<1>1. ASSUME NEW type \in CommandType, Follows(type, log[e]), StartStep(p, e, type, status)
      PROVE  Goal
  BY <1>1 DEF StartsStep
<1>2. ASSUME Unfollowed(log[e]), NothingToDo(p, e, status) PROVE Goal
  BY <1>2 DEF Rests
<1>3. ASSUME log[e] \in {"COMMAND_FAILED", "SCM_PUBLISH_FAILED"}, NothingToDo(p, e, "FAILED")
      PROVE  Goal
  BY <1>3 DEF Rests
<1>4. ASSUME EndsSteps(log[e]), IsStepEnabled("PUBLISH"), PublishChanges(p, e) PROVE Goal
  <2>1. CASE scm.repository /\ scm.workspace
    BY <1>4, <2>1 DEF PublishChanges, Publishes, CanPublish
  <2>2. CASE ~(scm.repository /\ scm.workspace)
    <3>1. Unfollowed(log[e]) /\ NothingToDo(p, e, status)
      BY <1>4, <2>2 DEF PublishChanges, Unfollowed, CanPublish
    <3> QED
      BY <1>2, <3>1
  <2> QED
    BY <2>1, <2>2
<1>5. ASSUME EndsSteps(log[e]), PublishIfEnabled(p, e) PROVE Goal
  <2>1. CASE IsStepEnabled("PUBLISH")
    BY <1>4, <1>5, <2>1 DEF PublishIfEnabled
  <2>2. CASE ~IsStepEnabled("PUBLISH")
    <3>1. Unfollowed(log[e]) /\ NothingToDo(p, e, status)
      BY <1>5, <2>2 DEF PublishIfEnabled, Unfollowed, CanPublish
    <3> QED
      BY <1>2, <3>1
  <2> QED
    BY <2>1, <2>2
<1>6. ASSUME log[e] = "REACT_COMPLETED" \/ (log[e] = "IMPLEMENT_COMPLETED" /\ AllDone("IMPLEMENT")),
             TestOrPublish(p, e)
      PROVE  Goal
  <2>1. CASE IsStepEnabled("TESTING")
    <3>1. Follows("VERIFY", log[e]) /\ StartStep(p, e, "VERIFY", status)
      BY <1>6, <2>1 DEF TestOrPublish, Follows
    <3> QED
      BY <1>1, <3>1
  <2>2. CASE ~IsStepEnabled("TESTING")
    BY <1>5, <1>6, <2>2 DEF TestOrPublish, EndsSteps
  <2> QED
    BY <2>1, <2>2
<1>7. ASSUME TriggerFirstStep(p, e),
             \/ log[e] = "SCM_WORKSPACE_PREPARED"
             \/ log[e] = "SESSION_STARTED" /\ ~IsStepEnabled("PREPARE")
      PROVE  Goal
  <2>1. CASE IsStepEnabled("REACT")
    <3>1. Follows("REACT", log[e]) /\ StartStep(p, e, "REACT", status)
      BY <1>7, <2>1 DEF TriggerFirstStep, Follows
    <3> QED
      BY <1>1, <3>1
  <2>2. CASE ~IsStepEnabled("REACT") /\ IsStepEnabled("PLANNING")
    <3>1. Follows("PLAN", log[e]) /\ StartStep(p, e, "PLAN", status)
      BY <1>7, <2>2 DEF TriggerFirstStep, Follows
    <3> QED
      BY <1>1, <3>1
  <2>3. CASE ~IsStepEnabled("REACT") /\ ~IsStepEnabled("PLANNING")
    <3>1. Unfollowed(log[e]) /\ NothingToDo(p, e, status)
      BY <1>7, <2>3 DEF TriggerFirstStep, Unfollowed
    <3> QED
      BY <1>2, <3>1
  <2> QED
    BY <2>1, <2>2, <2>3
<1>8. CASE HandleSessionStarted(p, e)
  <2>1. CASE TriggerFirstStep(p, e) /\ ~IsStepEnabled("PREPARE")
    BY <1>7, <1>8, <2>1 DEF HandleSessionStarted, Receives
  <2>2. CASE IsStepEnabled("PREPARE") /\ (~scm.repository \/ PrepareMayFail)
             /\ NothingToDo(p, e, status)
    BY <1>2, <1>8, <2>2 DEF HandleSessionStarted, Receives, Unfollowed
  <2>3. CASE /\ IsStepEnabled("PREPARE") /\ scm.repository
             /\ scm' = [scm EXCEPT !.workspace = TRUE, !.pr = FALSE]
             /\ Handled(p, e, status, <<"SCM_WORKSPACE_PREPARED">>)
             /\ UNCHANGED <<remotePr, bound, tasks, commands>>
    BY <1>8, <2>3 DEF HandleSessionStarted, Receives, Prepares
  <2> QED
    BY <1>8, <2>1, <2>2, <2>3 DEF HandleSessionStarted
<1>9. CASE HandlePrepareCompleted(p, e)
  BY <1>7, <1>9 DEF HandlePrepareCompleted, Receives
<1>10. CASE HandlePlanCompleted(p, e)
  <2>1. CASE IsStepEnabled("IMPLEMENTATION")
    <3>1. Follows("GENERATE", log[e]) /\ StartStep(p, e, "GENERATE", status)
      BY <1>10, <2>1 DEF HandlePlanCompleted, Receives, Follows
    <3> QED
      BY <1>1, <3>1
  <2>2. CASE ~IsStepEnabled("IMPLEMENTATION")
    <3>1. Unfollowed(log[e]) /\ NothingToDo(p, e, status)
      BY <1>10, <2>2 DEF HandlePlanCompleted, Receives, Unfollowed
    <3> QED
      BY <1>2, <3>1
  <2> QED
    BY <2>1, <2>2
<1>11. CASE HandleReactCompleted(p, e)
  BY <1>6, <1>11 DEF HandleReactCompleted, Receives
<1>12. CASE HandleImplementCompleted(p, e)
  <2>1. CASE AllDone("IMPLEMENT")
    BY <1>6, <1>12, <2>1 DEF HandleImplementCompleted, Receives
  <2>2. CASE ~AllDone("IMPLEMENT")
    <3>1. Unfollowed(log[e]) /\ NothingToDo(p, e, status)
      BY <1>12, <2>2 DEF HandleImplementCompleted, Receives, Unfollowed
    <3> QED
      BY <1>2, <3>1
  <2> QED
    BY <2>1, <2>2
<1>13. CASE HandleTestFailed(p, e) \/ HandleReviewFailed(p, e)
  <2>1. Follows("FIX", log[e]) /\ StartStep(p, e, "FIX", status)
    BY <1>13 DEF HandleTestFailed, HandleReviewFailed, Receives, Follows
  <2> QED
    BY <1>1, <2>1
<1>14. CASE HandleTestPassed(p, e)
  <2>1. CASE IsStepEnabled("REVIEW")
    <3>1. Follows("REVIEW", log[e]) /\ StartStep(p, e, "REVIEW", status)
      BY <1>14, <2>1 DEF HandleTestPassed, Receives, Follows
    <3> QED
      BY <1>1, <3>1
  <2>2. CASE ~IsStepEnabled("REVIEW")
    BY <1>5, <1>14, <2>2 DEF HandleTestPassed, Receives, EndsSteps
  <2> QED
    BY <2>1, <2>2
<1>15. CASE HandleReviewCompleted(p, e)
  <2>1. CASE IsStepEnabled("PUBLISH")
    BY <1>4, <1>15, <2>1 DEF HandleReviewCompleted, Receives, EndsSteps
  <2>2. CASE ~IsStepEnabled("PUBLISH")
    <3>1. CompletedWith(<<>>) = <<"SESSION_COMPLETED">>
      BY DEF CompletedWith
    <3> QED
      BY <1>15, <2>2, <3>1 DEF HandleReviewCompleted, Receives, Completes
  <2> QED
    BY <2>1, <2>2
<1>16. CASE HandleCommandFailed(p, e) \/ HandleScmPublishFailed(p, e)
  BY <1>3, <1>16 DEF HandleCommandFailed, HandleScmPublishFailed, Receives
<1>17. CASE HandleScmPipelineFailed(p, e) \/ HandleScmReviewCommentAdded(p, e)
  BY <1>17 DEF HandleScmPipelineFailed, HandleScmReviewCommentAdded, Receives, StartsFix
<1>18. CASE HandleStepWithoutWork(p, e)
  BY <1>2, <1>18 DEF HandleStepWithoutWork, Receives, Unfollowed
<1> HIDE DEF Goal
<1> QED
  BY <1>8, <1>9, <1>10, <1>11, <1>12, <1>13, <1>14, <1>15, <1>16, <1>17, <1>18 DEF HandleEvent
-----------------------------------------------------------------------------
(* The transitions a workflow enables are those of its steps.              *)
LEMMA Transitions ==
  /\ {"SESSION_STARTED", "COMMAND_FAILED", "SCM_PUBLISH_FAILED"} \subseteq EnabledTransitions
  /\ {"SCM_FEEDBACK_SYNCED", "SESSION_COMPLETED", "SCM_NO_CHANGES"}
       \cap EnabledTransitions = {}
  /\ "SCM_WORKSPACE_PREPARED" \in EnabledTransitions <=> IsStepEnabled("PREPARE")
  /\ "PLAN_COMPLETED" \in EnabledTransitions <=> IsStepEnabled("PLANNING")
  /\ "IMPLEMENT_COMPLETED" \in EnabledTransitions <=> IsStepEnabled("IMPLEMENTATION")
  /\ "REACT_COMPLETED" \in EnabledTransitions <=> IsStepEnabled("REACT")
  /\ "TEST_PASSED" \in EnabledTransitions <=> IsStepEnabled("TESTING")
  /\ "REVIEW_COMPLETED" \in EnabledTransitions <=> IsStepEnabled("REVIEW")
  /\ "SCM_PR_CREATED" \in EnabledTransitions <=> IsStepEnabled("PUBLISH")
  /\ "SCM_PIPELINE_PASSED" \in EnabledTransitions <=> IsStepEnabled("SCM_PIPELINE")
  /\ "SCM_REVIEW_COMMENT_ADDED" \in EnabledTransitions <=> IsStepEnabled("SCM_REVIEW")
  /\ "TEST_FAILED" \in EnabledTransitions
       <=> IsStepEnabled("TESTING") /\ "TESTING" \notin RetryOff
  /\ "REVIEW_FAILED" \in EnabledTransitions
       <=> IsStepEnabled("REVIEW") /\ "REVIEW" \notin RetryOff
  /\ "SCM_PIPELINE_FAILED" \in EnabledTransitions <=> IsStepEnabled("SCM_PIPELINE")
<1>1. Range(Steps) \subseteq WorkflowStep
  BY WorkflowAssumption, LenProperties, ElementOfSeq DEF Range
<1> DEFINE Completions == { STEP_COMPLETION_EVENTS(s) : s \in Range(Steps) }
           Failures == { STEP_FAILURE_EVENTS[s] :
                           s \in (Range(Steps) \cap DOMAIN STEP_FAILURE_EVENTS) \ RetryOff }
<1>8. /\ STEP_COMPLETION_EVENTS("PREPARE") = "SCM_WORKSPACE_PREPARED"
      /\ STEP_COMPLETION_EVENTS("PLANNING") = "PLAN_COMPLETED"
      /\ STEP_COMPLETION_EVENTS("IMPLEMENTATION") = "IMPLEMENT_COMPLETED"
      /\ STEP_COMPLETION_EVENTS("REACT") = "REACT_COMPLETED"
      /\ STEP_COMPLETION_EVENTS("TESTING") = "TEST_PASSED"
      /\ STEP_COMPLETION_EVENTS("REVIEW") = "REVIEW_COMPLETED"
      /\ STEP_COMPLETION_EVENTS("PUBLISH") = "SCM_PR_CREATED"
      /\ STEP_COMPLETION_EVENTS("SCM_PIPELINE") = "SCM_PIPELINE_PASSED"
      /\ STEP_COMPLETION_EVENTS("SCM_REVIEW") = "SCM_REVIEW_COMMENT_ADDED"
  BY DEF STEP_COMPLETION_EVENTS
<1>2. \A s \in WorkflowStep :
        /\ STEP_COMPLETION_EVENTS(s) \in
             {"SCM_WORKSPACE_PREPARED", "PLAN_COMPLETED", "IMPLEMENT_COMPLETED",
              "REACT_COMPLETED", "TEST_PASSED", "REVIEW_COMPLETED", "SCM_PR_CREATED",
              "SCM_PIPELINE_PASSED", "SCM_REVIEW_COMMENT_ADDED"}
        /\ STEP_COMPLETION_EVENTS(s) = "SCM_WORKSPACE_PREPARED" <=> s = "PREPARE"
        /\ STEP_COMPLETION_EVENTS(s) = "PLAN_COMPLETED" <=> s = "PLANNING"
        /\ STEP_COMPLETION_EVENTS(s) = "IMPLEMENT_COMPLETED" <=> s = "IMPLEMENTATION"
        /\ STEP_COMPLETION_EVENTS(s) = "REACT_COMPLETED" <=> s = "REACT"
        /\ STEP_COMPLETION_EVENTS(s) = "TEST_PASSED" <=> s = "TESTING"
        /\ STEP_COMPLETION_EVENTS(s) = "REVIEW_COMPLETED" <=> s = "REVIEW"
        /\ STEP_COMPLETION_EVENTS(s) = "SCM_PR_CREATED" <=> s = "PUBLISH"
        /\ STEP_COMPLETION_EVENTS(s) = "SCM_PIPELINE_PASSED" <=> s = "SCM_PIPELINE"
        /\ STEP_COMPLETION_EVENTS(s) = "SCM_REVIEW_COMMENT_ADDED" <=> s = "SCM_REVIEW"
  BY <1>8 DEF WorkflowStep
<1>3. /\ DOMAIN STEP_FAILURE_EVENTS = {"TESTING", "REVIEW", "SCM_PIPELINE"}
      /\ STEP_FAILURE_EVENTS["TESTING"] = "TEST_FAILED"
      /\ STEP_FAILURE_EVENTS["REVIEW"] = "REVIEW_FAILED"
      /\ STEP_FAILURE_EVENTS["SCM_PIPELINE"] = "SCM_PIPELINE_FAILED"
  BY DEF STEP_FAILURE_EVENTS
<1>4. /\ Completions \subseteq
           {"SCM_WORKSPACE_PREPARED", "PLAN_COMPLETED", "IMPLEMENT_COMPLETED",
            "REACT_COMPLETED", "TEST_PASSED", "REVIEW_COMPLETED", "SCM_PR_CREATED",
            "SCM_PIPELINE_PASSED", "SCM_REVIEW_COMMENT_ADDED"}
      /\ "SCM_WORKSPACE_PREPARED" \in Completions <=> IsStepEnabled("PREPARE")
      /\ "PLAN_COMPLETED" \in Completions <=> IsStepEnabled("PLANNING")
      /\ "IMPLEMENT_COMPLETED" \in Completions <=> IsStepEnabled("IMPLEMENTATION")
      /\ "REACT_COMPLETED" \in Completions <=> IsStepEnabled("REACT")
      /\ "TEST_PASSED" \in Completions <=> IsStepEnabled("TESTING")
      /\ "REVIEW_COMPLETED" \in Completions <=> IsStepEnabled("REVIEW")
      /\ "SCM_PR_CREATED" \in Completions <=> IsStepEnabled("PUBLISH")
      /\ "SCM_PIPELINE_PASSED" \in Completions <=> IsStepEnabled("SCM_PIPELINE")
      /\ "SCM_REVIEW_COMMENT_ADDED" \in Completions <=> IsStepEnabled("SCM_REVIEW")
  BY <1>1, <1>2 DEF IsStepEnabled, WorkflowStep
<1>5. "SCM_PIPELINE" \notin RetryOff
  BY WorkflowAssumption
<1>6. /\ Failures \subseteq {"TEST_FAILED", "REVIEW_FAILED", "SCM_PIPELINE_FAILED"}
      /\ "TEST_FAILED" \in Failures <=> IsStepEnabled("TESTING") /\ "TESTING" \notin RetryOff
      /\ "REVIEW_FAILED" \in Failures <=> IsStepEnabled("REVIEW") /\ "REVIEW" \notin RetryOff
      /\ "SCM_PIPELINE_FAILED" \in Failures <=> IsStepEnabled("SCM_PIPELINE")
  BY <1>3, <1>5 DEF IsStepEnabled
<1>7. EnabledTransitions = {"SESSION_STARTED", "COMMAND_FAILED", "SCM_PUBLISH_FAILED"}
                             \cup Completions \cup Failures
  BY DEF EnabledTransitions
<1> HIDE DEF Completions, Failures
<1> QED
  BY <1>4, <1>6, <1>7

(* Of what a handler or an agent emits, one event at most is a transition. *)
LEMMA PublicationOf ==
  /\ Publication(<<>>) = {}
  /\ \A x : Publication(<<x>>) = IF x \in EnabledTransitions THEN {Len(log) + 1} ELSE {}
  /\ \A x, y : y \notin EnabledTransitions =>
       Publication(<<x, y>>) = IF x \in EnabledTransitions THEN {Len(log) + 1} ELSE {}
  /\ \A s \in Seq(EventType) : Publication(Append(s, "SESSION_COMPLETED")) = Publication(s)
<1>1. Publication(<<>>) = {}
  BY DEF Publication
<1>2. ASSUME NEW x
      PROVE  Publication(<<x>>) = IF x \in EnabledTransitions THEN {Len(log) + 1} ELSE {}
  <2>1. DOMAIN <<x>> = {1} /\ <<x>>[1] = x
    OBVIOUS
  <2> QED
    BY <2>1 DEF Publication
<1>3. ASSUME NEW x, NEW y, y \notin EnabledTransitions
      PROVE  Publication(<<x, y>>) = IF x \in EnabledTransitions THEN {Len(log) + 1} ELSE {}
  <2>1. DOMAIN <<x, y>> = {1, 2} /\ <<x, y>>[1] = x /\ <<x, y>>[2] = y
    OBVIOUS
  <2> QED
    BY <1>3, <2>1 DEF Publication
<1>4. ASSUME NEW s \in Seq(EventType)
      PROVE  Publication(Append(s, "SESSION_COMPLETED")) = Publication(s)
  <2> DEFINE t == Append(s, "SESSION_COMPLETED")
  <2>1. /\ DOMAIN s = 1 .. Len(s) /\ Len(s) \in Nat
        /\ DOMAIN t = 1 .. Len(s) + 1
        /\ \A k \in 1 .. Len(s) : t[k] = s[k]
        /\ t[Len(s) + 1] = "SESSION_COMPLETED"
    BY AppendProperties, LenProperties, NamedEvents
  <2> HIDE DEF t
  <2>2. {k \in DOMAIN t : t[k] \in EnabledTransitions}
          = {k \in DOMAIN s : s[k] \in EnabledTransitions}
    BY <2>1, Transitions
  <2> QED
    BY <2>2 DEF Publication, t
<1> QED
  BY <1>1, <1>2, <1>3, <1>4
-----------------------------------------------------------------------------
(***************************************************************************)
(* A session of one process p that is started once, in a workflow without  *)
(* steps for the feedback of the SCM: the sessions of index.ts.  Such a    *)
(* session has one thing in hand, a command or an event that is due, and   *)
(* what it is tells how far the workflow has come.                         *)
(***************************************************************************)
OneRun(p) ==
  /\ Processes = {p} /\ MaxStarts <= 1
  /\ ~IsStepEnabled("SCM_PIPELINE") /\ ~IsStepEnabled("SCM_REVIEW")

Begun == \E i \in DOMAIN log : log[i] = "SESSION_STARTED"

(* The task of a command is the one of its number.                         *)
Numbered ==
  /\ Len(tasks) = Len(commands)
  /\ \A c \in DOMAIN commands :
       commands[c].task = c /\ tasks[c].type = TaskTypeOf(commands[c].type)

ExecutesRunning(p) == executing[p] # 0 => commands[executing[p]].status = "RUNNING"

OneInHand(p) ==
  /\ \A c \in ActiveCommands : c = Len(commands)
  /\ \A e, f \in unhandled[p] : e = f
  /\ unhandled[p] # {} => ActiveCommands = {}
  /\ ~Begun => commands = <<>> /\ unhandled[p] = {}

OneInHandInv(p) == IInv /\ Numbered /\ ExecutesRunning(p) /\ OneInHand(p)

(* The log is only appended to.                                            *)
LogKept == DOMAIN log \subseteq DOMAIN log' /\ \A i \in DOMAIN log : log'[i] = log[i]

(* The next thing to be handled is x, if x is a transition at all.         *)
NowDue(p, x) ==
  IF x \in EnabledTransitions
  THEN /\ unhandled'[p] = {Len(log) + 1}
       /\ Len(log) + 1 \in DOMAIN log' /\ log'[Len(log) + 1] = x
  ELSE unhandled'[p] = {}

NothingDue(p) == unhandled'[p] = {}

(* An emit appends what it is given.                                       *)
LEMMA LogAppended ==
  ASSUME log \in Seq(EventType), NEW events \in Seq(EventType), log' = log \o events
  PROVE  /\ LogKept
         /\ events # <<>> => Len(log) + 1 \in DOMAIN log' /\ log'[Len(log) + 1] = events[1]
<1>1. /\ Len(log \o events) = Len(log) + Len(events)
      /\ \A i \in 1 .. Len(log) + Len(events) :
           (log \o events)[i] = IF i <= Len(log) THEN log[i] ELSE events[i - Len(log)]
      /\ DOMAIN log = 1 .. Len(log) /\ Len(log) \in Nat /\ Len(events) \in Nat
      /\ DOMAIN (log \o events) = 1 .. Len(log) + Len(events)
  BY ConcatProperties, LenProperties
<1>2. LogKept
  BY <1>1 DEF LogKept
<1>3. ASSUME events # <<>>
      PROVE  Len(log) + 1 \in DOMAIN log' /\ log'[Len(log) + 1] = events[1]
  <2>1. Len(events) >= 1
    BY <1>1, <1>3, EmptySeq
  <2>2. Len(log) + 1 \in 1 .. Len(log) + Len(events) /\ ~(Len(log) + 1 <= Len(log))
        /\ (Len(log) + 1) - Len(log) = 1
    BY <1>1, <2>1
  <2> QED
    BY <1>1, <2>2
<1> QED
  BY <1>2, <1>3

(* What an agent, a start or a webhook emits when nothing is due.          *)
LEMMA EmitDue ==
  ASSUME TypeOK, NEW p \in Processes, NEW x \in EventType, Emit(<<x>>)
  PROVE  /\ LogKept
         /\ Len(log) + 1 \in DOMAIN log' /\ log'[Len(log) + 1] = x
         /\ unhandled[p] = {} => NowDue(p, x)
         /\ x \notin EnabledTransitions => unhandled'[p] = unhandled[p]
<1>1. /\ log' = log \o <<x>> /\ <<x>> \in Seq(EventType) /\ <<x>> # <<>> /\ <<x>>[1] = x
      /\ unhandled' = [q \in Processes |-> unhandled[q] \cup Publication(<<x>>)]
  BY DEF Emit
<1>2. /\ LogKept
      /\ Len(log) + 1 \in DOMAIN log' /\ log'[Len(log) + 1] = x
  BY <1>1, LogAppended DEF TypeOK
<1>3. Publication(<<x>>) = IF x \in EnabledTransitions THEN {Len(log) + 1} ELSE {}
  BY PublicationOf
<1>4. unhandled'[p] = unhandled[p] \cup Publication(<<x>>)
  BY <1>1
<1> QED
  BY <1>2, <1>3, <1>4 DEF NowDue

(* What the frame of handleEvent leaves due of the one event that was.     *)
LEMMA HandledDue ==
  ASSUME TypeOK, NEW p \in Processes, NEW e, unhandled[p] = {e}, NEW s,
         NEW emitted \in Seq(EventType), Handled(p, e, s, emitted)
  PROVE  /\ LogKept /\ executing' = executing
         /\ status' = IF CompletesSession(log[e]) THEN "COMPLETED" ELSE s
         /\ emitted = <<>> => NothingDue(p)
         /\ \A x : emitted = <<x>> => NowDue(p, x)
         /\ \A x, y : emitted = <<x, y>> /\ y \notin EnabledTransitions => NowDue(p, x)
<1> DEFINE events == IF CompletesSession(log[e]) THEN CompletedWith(emitted) ELSE emitted
<1>1. /\ log' = log \o events /\ executing' = executing
      /\ status' = IF CompletesSession(log[e]) THEN "COMPLETED" ELSE s
      /\ unhandled'[p] = (unhandled[p] \ {e}) \cup Publication(events)
  BY DEF Handled
<1>2. /\ events \in Seq(EventType)
      /\ emitted # <<>> => events # <<>> /\ events[1] = emitted[1]
  <2>1. CASE CompletesSession(log[e])
    <3>1. /\ events = Append(emitted, "SESSION_COMPLETED")
          /\ "SESSION_COMPLETED" \in EventType
      BY <2>1, NamedEvents DEF CompletedWith
    <3>2. /\ events \in Seq(EventType) /\ Len(events) = Len(emitted) + 1
          /\ \A k \in 1 .. Len(emitted) : events[k] = emitted[k]
          /\ Len(emitted) \in Nat
      BY <3>1, AppendProperties, LenProperties
    <3>3. emitted # <<>> => 1 \in 1 .. Len(emitted)
      BY <3>2, EmptySeq
    <3> QED
      BY <3>2, <3>3, EmptySeq
  <2>2. CASE ~CompletesSession(log[e])
    BY <2>2
  <2> QED
    BY <2>1, <2>2
<1>3. Publication(events) = Publication(emitted)
  BY PublicationOf DEF CompletedWith
<1> HIDE DEF events
<1>4. /\ LogKept
      /\ events # <<>> => Len(log) + 1 \in DOMAIN log' /\ log'[Len(log) + 1] = events[1]
  BY <1>1, <1>2, LogAppended DEF TypeOK
<1>5. unhandled'[p] = Publication(emitted)
  BY <1>1, <1>3
<1>6. emitted = <<>> => NothingDue(p)
  BY <1>5, PublicationOf DEF NothingDue
<1>7. ASSUME NEW x, emitted = <<x>> PROVE NowDue(p, x)
  <2>1. emitted # <<>> /\ emitted[1] = x
    BY <1>7
  <2>2. Publication(emitted) = IF x \in EnabledTransitions THEN {Len(log) + 1} ELSE {}
    BY <1>7, PublicationOf
  <2> QED
    BY <1>2, <1>4, <1>5, <2>1, <2>2 DEF NowDue
<1>8. ASSUME NEW x, NEW y, emitted = <<x, y>>, y \notin EnabledTransitions PROVE NowDue(p, x)
  <2>1. emitted # <<>> /\ emitted[1] = x
    BY <1>8
  <2>2. Publication(emitted) = IF x \in EnabledTransitions THEN {Len(log) + 1} ELSE {}
    BY <1>8, PublicationOf
  <2> QED
    BY <1>2, <1>4, <1>5, <2>1, <2>2 DEF NowDue
<1> QED
  BY <1>1, <1>4, <1>6, <1>7, <1>8
-----------------------------------------------------------------------------
(* A task and a command of a type come behind the others.                  *)
Added(type) ==
  /\ Len(tasks') = Len(tasks) + 1 /\ Len(commands') = Len(commands) + 1
  /\ DOMAIN tasks' = 1 .. Len(tasks) + 1 /\ DOMAIN commands' = 1 .. Len(commands) + 1
  /\ \A t \in DOMAIN tasks : tasks'[t] = tasks[t]
  /\ \A c \in DOMAIN commands : commands'[c] = commands[c]
  /\ tasks'[Len(tasks) + 1].type = TaskTypeOf(type)
  /\ tasks'[Len(tasks) + 1].status = "PENDING"
  /\ commands'[Len(commands) + 1].type = type
  /\ commands'[Len(commands) + 1].task = Len(tasks) + 1
  /\ commands'[Len(commands) + 1].status = "PENDING"

(* dispatchTask appends one task and its command, both PENDING.            *)
LEMMA DispatchAdds ==
  ASSUME TypeOK, NEW p \in Processes, NEW e \in DOMAIN log, NEW type \in CommandType,
         Dispatch(p, e, type)
  PROVE  Added(type)
<1> DEFINE task    == [type |-> TaskTypeOf(type), status |-> "PENDING"]
           command == [type |-> type, task |-> Len(tasks) + 1, status |-> "PENDING",
                       cause |-> e, by |-> p]
<1>1. tasks' = Append(tasks, task) /\ commands' = Append(commands, command)
  BY DEF Dispatch, CreateTask
<1>2. task \in Task
  BY DEF Task, TaskTypeOf, TaskType, TaskStatus, CommandType
<1>3. Len(tasks) \in Nat /\ DOMAIN log = 1 .. Len(log) /\ Len(log) \in Nat
      /\ DOMAIN tasks = 1 .. Len(tasks) /\ DOMAIN commands = 1 .. Len(commands)
      /\ Len(commands) \in Nat
  BY LenProperties DEF TypeOK
<1>4. command \in Command
  BY <1>3 DEF Command, CommandStatus
<1>5. /\ command.type = type /\ command.task = Len(tasks) + 1 /\ command.status = "PENDING"
      /\ task.type = TaskTypeOf(type) /\ task.status = "PENDING"
  OBVIOUS
<1> HIDE DEF task, command
<1>6. /\ Len(tasks') = Len(tasks) + 1 /\ DOMAIN tasks' = 1 .. Len(tasks) + 1
      /\ \A t \in 1 .. Len(tasks) : tasks'[t] = tasks[t]
      /\ tasks'[Len(tasks) + 1] = task
  BY <1>1, <1>2, AppendProperties, LenProperties DEF TypeOK
<1>7. /\ Len(commands') = Len(commands) + 1 /\ DOMAIN commands' = 1 .. Len(commands) + 1
      /\ \A c \in 1 .. Len(commands) : commands'[c] = commands[c]
      /\ commands'[Len(commands) + 1] = command
  BY <1>1, <1>4, AppendProperties, LenProperties DEF TypeOK
<1> QED
  BY <1>3, <1>5, <1>6, <1>7 DEF Added

(* A command is active while it or its task waits for its agent.           *)
LEMMA ActiveMeans ==
  ASSUME Numbered
  PROVE  ActiveCommands =
           { c \in DOMAIN commands :
               \/ commands[c].status = "PENDING"
               \/ commands[c].status = "RUNNING" /\ tasks[c].status = "IN_PROGRESS" }
  BY DEF Numbered, ActiveCommands

(* The new command is the one more that is active.                         *)
LEMMA AddedActive ==
  ASSUME TypeOK, Numbered, NEW type \in CommandType, Added(type)
  PROVE  Numbered' /\ ActiveCommands' = ActiveCommands \cup {Len(commands')}
<1>1. /\ DOMAIN tasks = 1 .. Len(tasks) /\ Len(tasks) \in Nat
      /\ DOMAIN commands = 1 .. Len(commands) /\ Len(commands) = Len(tasks)
  BY LenProperties DEF TypeOK, Numbered
<1>2. Numbered'
  BY <1>1 DEF Numbered, Added
<1>3. ActiveCommands' =
        { c \in DOMAIN commands' :
            \/ commands'[c].status = "PENDING"
            \/ commands'[c].status = "RUNNING" /\ tasks'[c].status = "IN_PROGRESS" }
  BY <1>2 DEF Numbered, ActiveCommands
<1>4. \A c \in DOMAIN commands' :
        (\/ commands'[c].status = "PENDING"
         \/ commands'[c].status = "RUNNING" /\ tasks'[c].status = "IN_PROGRESS")
          <=> c \in ActiveCommands \cup {Len(commands')}
  BY <1>1, ActiveMeans DEF Added
<1>5. ActiveCommands \cup {Len(commands')} \subseteq DOMAIN commands'
  BY <1>1, ActiveMeans DEF Added
<1> QED
  BY <1>2, <1>3, <1>4, <1>5

(* The steps of an agent, by what they change of the command and its task. *)
Marked(c, s) ==
  /\ DOMAIN tasks' = DOMAIN tasks /\ Len(tasks') = Len(tasks)
  /\ tasks'[c].type = tasks[c].type /\ tasks'[c].status = s
  /\ \A t \in DOMAIN tasks \ {c} : tasks'[t] = tasks[t]

Now(c, s) ==
  /\ DOMAIN commands' = DOMAIN commands /\ Len(commands') = Len(commands)
  /\ commands'[c].type = commands[c].type /\ commands'[c].task = commands[c].task
  /\ commands'[c].status = s
  /\ \A d \in DOMAIN commands \ {c} : commands'[d] = commands[d]

(* markTask changes the status of one task.                                *)
LEMMA MarkTaskMarks ==
  ASSUME TypeOK, NEW c \in DOMAIN tasks, NEW s, MarkTask(c, s)
  PROVE  Marked(c, s)
<1>1. tasks' = [tasks EXCEPT ![c].status = s] /\ tasks \in Seq(Task) /\ c \in 1 .. Len(tasks)
  BY LenProperties DEF TypeOK, MarkTask
<1>2. tasks[c] \in Task
  BY <1>1, ElementOfSeq
<1>3. DOMAIN tasks' = DOMAIN tasks /\ Len(tasks') = Len(tasks)
  <2>1. DOMAIN tasks' = 1 .. Len(tasks) /\ Len(tasks) \in Nat
    BY <1>1, LenProperties
  <2> QED
    BY <1>1, <2>1
<1>4. \A t \in DOMAIN tasks \ {c} : tasks'[t] = tasks[t]
  BY <1>1
<1>5. tasks'[c] = [tasks[c] EXCEPT !.status = s]
  BY <1>1
<1>6. tasks'[c].type = tasks[c].type /\ tasks'[c].status = s
  BY <1>2, <1>5 DEF Task
<1> QED
  BY <1>3, <1>4, <1>6 DEF Marked

(* The same for the status of one command.                                 *)
LEMMA CommandNow ==
  ASSUME TypeOK, NEW c \in DOMAIN commands, NEW s,
         commands' = [commands EXCEPT ![c].status = s]
  PROVE  Now(c, s)
<1>1. commands \in Seq(Command) /\ c \in 1 .. Len(commands)
  BY LenProperties DEF TypeOK
<1>2. commands[c] \in Command
  BY <1>1, ElementOfSeq
<1>3. DOMAIN commands' = DOMAIN commands /\ Len(commands') = Len(commands)
  <2>1. DOMAIN commands' = 1 .. Len(commands) /\ Len(commands) \in Nat
    BY <1>1, LenProperties
  <2> QED
    BY <1>1, <2>1
<1>4. \A d \in DOMAIN commands \ {c} : commands'[d] = commands[d]
  OBVIOUS
<1>5. commands'[c] = [commands[c] EXCEPT !.status = s]
  OBVIOUS
<1>6. /\ commands'[c].type = commands[c].type /\ commands'[c].task = commands[c].task
      /\ commands'[c].status = s
  BY <1>2, <1>5 DEF Command
<1> QED
  BY <1>3, <1>4, <1>6 DEF Now
-----------------------------------------------------------------------------
(***************************************************************************)
(* The steps of such a session, by what they leave in hand.                *)
(***************************************************************************)
StatusAfter(event, s) == IF CompletesSession(event) THEN "COMPLETED" ELSE s

StepMove(p, e) ==
  \E type \in CommandType :
    /\ Follows(type, log[e]) /\ Added(type)
    /\ NothingDue(p) /\ status' = StatusAfter(log[e], status)
    /\ UNCHANGED sessionVars

PrepareMove(p, e) ==
  /\ log[e] = "SESSION_STARTED" /\ IsStepEnabled("PREPARE") /\ scm.repository
  /\ scm' = [scm EXCEPT !.workspace = TRUE, !.pr = FALSE]
  /\ NowDue(p, "SCM_WORKSPACE_PREPARED") /\ status' = StatusAfter(log[e], status)
  /\ UNCHANGED <<remotePr, bound, tasks, commands>>

PublishMove(p, e) ==
  /\ EndsSteps(log[e]) /\ CanPublish
  /\ \/ /\ "changed" \in PublishOutcomes
        /\ scm' = [scm EXCEPT !.pr = TRUE] /\ remotePr' = TRUE /\ bound' = TRUE
        /\ NowDue(p, "SCM_PR_CREATED")
     \/ /\ "unchanged" \in PublishOutcomes
        /\ scm' = [scm EXCEPT !.pr = FALSE] /\ UNCHANGED <<remotePr, bound>>
        /\ NothingDue(p)
     \/ /\ scm' = scm /\ bound' = bound /\ remotePr' \in {remotePr, TRUE}
        /\ NowDue(p, "SCM_PUBLISH_FAILED")
  /\ status' = StatusAfter(log[e], status)
  /\ UNCHANGED <<tasks, commands>>

RestMove(p, e) ==
  /\ \/ log[e] = "REVIEW_COMPLETED" /\ ~IsStepEnabled("PUBLISH") /\ status' = "COMPLETED"
     \/ /\ log[e] \in {"COMMAND_FAILED", "SCM_PUBLISH_FAILED"}
        /\ status' = StatusAfter(log[e], "FAILED")
     \/ Unfollowed(log[e]) /\ status' = StatusAfter(log[e], status)
  /\ NothingDue(p)
  /\ UNCHANGED <<sessionVars, tasks, commands>>

Handles(p, e) ==
  /\ unhandled[p] = {e} /\ ActiveCommands = {} /\ Begun
  /\ LogKept /\ UNCHANGED executing
  /\ StepMove(p, e) \/ PrepareMove(p, e) \/ PublishMove(p, e) \/ RestMove(p, e)

(* What a handler does to tasks, commands and what is due, where one       *)
(* command at most is in hand.                                             *)
LEMMA HandlerMoves ==
  ASSUME NEW p, OneRun(p), OneInHandInv(p), NEW e \in unhandled[p], HandleEvent(p, e)
  PROVE  Handles(p, e)
<1>1. /\ TypeOK /\ DueIsTransition /\ p \in Processes
      /\ unhandled[p] = {e} /\ ActiveCommands = {} /\ Begun
  BY DEF OneInHandInv, IInv, OneInHand, OneRun
<1>2. log[e] \in EnabledTransitions /\ e \in DOMAIN log
  BY <1>1 DEF DueIsTransition, TypeOK
<1>3. log[e] \notin {"SCM_PIPELINE_FAILED", "SCM_REVIEW_COMMENT_ADDED"}
  BY <1>2, Transitions DEF OneRun
<1>4. ASSUME NEW s, Handled(p, e, s, <<>>)
      PROVE  /\ LogKept /\ executing' = executing
             /\ status' = StatusAfter(log[e], s) /\ NothingDue(p)
  <2>1. <<>> \in Seq(EventType)
    OBVIOUS
  <2> QED
    BY <1>1, <1>4, <2>1, HandledDue DEF StatusAfter
<1>5. ASSUME NEW s, NEW x \in EventType, Handled(p, e, s, <<x>>)
      PROVE  /\ LogKept /\ executing' = executing
             /\ status' = StatusAfter(log[e], s) /\ NowDue(p, x)
  <2>1. <<x>> \in Seq(EventType)
    OBVIOUS
  <2> QED
    BY <1>1, <1>5, <2>1, HandledDue DEF StatusAfter
<1>6. ASSUME NEW s, NEW x \in EventType, NEW y \in EventType, y \notin EnabledTransitions,
             Handled(p, e, s, <<x, y>>)
      PROVE  /\ LogKept /\ executing' = executing
             /\ status' = StatusAfter(log[e], s) /\ NowDue(p, x)
  <2>1. <<x, y>> \in Seq(EventType)
    OBVIOUS
  <2> QED
    BY <1>1, <1>6, <2>1, HandledDue DEF StatusAfter
<1>7. CASE StartsStep(p, e)
  <2>1. PICK type \in CommandType : Follows(type, log[e]) /\ StartStep(p, e, type, status)
    BY <1>7 DEF StartsStep
  <2>2. Added(type)
    BY <1>1, <1>2, <2>1, DispatchAdds DEF StartStep
  <2>3. /\ LogKept /\ executing' = executing
        /\ status' = StatusAfter(log[e], status) /\ NothingDue(p)
    BY <1>4, <2>1 DEF StartStep
  <2>4. StepMove(p, e)
    BY <2>1, <2>2, <2>3 DEF StartStep, StepMove
  <2> QED
    BY <1>1, <2>3, <2>4 DEF Handles
<1>8. CASE StartsFix(p, e)
  BY <1>3, <1>8 DEF StartsFix
<1>9. CASE Prepares(p, e)
  <2>1. /\ LogKept /\ executing' = executing
        /\ status' = StatusAfter(log[e], status) /\ NowDue(p, "SCM_WORKSPACE_PREPARED")
    BY <1>5, <1>9, NamedEvents DEF Prepares
  <2> QED
    BY <1>1, <1>9, <2>1 DEF Handles, Prepares, PrepareMove
<1>10. CASE Publishes(p, e)
  <2>1. PICK outcome \in PublishOutcomes : Publish(p, e, outcome)
    BY <1>10 DEF Publishes
  <2>2. {"SCM_PR_CREATED", "SCM_NO_CHANGES", "SCM_PUBLISH_FAILED", "SCM_FEEDBACK_SYNCED"}
          \subseteq EventType
    BY NamedEvents
  <2>3. "SCM_FEEDBACK_SYNCED" \notin EnabledTransitions /\ "SCM_NO_CHANGES" \notin EnabledTransitions
    BY Transitions
  <2>4. CASE /\ outcome = "changed"
             /\ scm' = [scm EXCEPT !.pr = TRUE] /\ remotePr' = TRUE /\ bound' = TRUE
             /\ Handled(p, e, status, <<"SCM_PR_CREATED", "SCM_FEEDBACK_SYNCED">>)
    <3>1. /\ LogKept /\ executing' = executing
          /\ status' = StatusAfter(log[e], status) /\ NowDue(p, "SCM_PR_CREATED")
      BY <1>6, <2>2, <2>3, <2>4
    <3> QED
      BY <1>1, <1>10, <2>1, <2>4, <3>1 DEF Handles, Publishes, PublishMove
  <2>5. CASE /\ outcome = "unchanged"
             /\ scm' = [scm EXCEPT !.pr = FALSE] /\ UNCHANGED <<remotePr, bound>>
             /\ Handled(p, e, status, <<"SCM_NO_CHANGES", "SCM_FEEDBACK_SYNCED">>)
    <3>1. /\ LogKept /\ executing' = executing
          /\ status' = StatusAfter(log[e], status) /\ NowDue(p, "SCM_NO_CHANGES")
      BY <1>6, <2>2, <2>3, <2>5
    <3>2. NothingDue(p)
      BY <2>3, <3>1 DEF NowDue, NothingDue
    <3> QED
      BY <1>1, <1>10, <2>1, <2>5, <3>1, <3>2 DEF Handles, Publishes, PublishMove
  <2>6. CASE /\ scm' = scm /\ bound' = bound /\ remotePr' \in {remotePr, TRUE}
             /\ Handled(p, e, status, <<"SCM_PUBLISH_FAILED">>)
    <3>1. /\ LogKept /\ executing' = executing
          /\ status' = StatusAfter(log[e], status) /\ NowDue(p, "SCM_PUBLISH_FAILED")
      BY <1>5, <2>2, <2>6
    <3> QED
      BY <1>1, <1>10, <2>1, <2>6, <3>1 DEF Handles, Publishes, PublishMove
  <2> QED
    BY <2>1, <2>4, <2>5, <2>6 DEF Publish, sessionVars
<1>11. CASE Completes(p, e)
  <2>1. /\ LogKept /\ executing' = executing
        /\ status' = StatusAfter(log[e], "COMPLETED") /\ NowDue(p, "SESSION_COMPLETED")
    BY <1>5, <1>11, NamedEvents DEF Completes
  <2>2. NothingDue(p)
    BY <2>1, Transitions DEF NowDue, NothingDue
  <2> QED
    BY <1>1, <1>11, <2>1, <2>2 DEF Handles, Completes, RestMove, StatusAfter
<1>12. CASE Rests(p, e)
  <2>1. PICK s : /\ \/ s = "FAILED" /\ log[e] \in {"COMMAND_FAILED", "SCM_PUBLISH_FAILED"}
                    \/ s = status /\ Unfollowed(log[e])
                 /\ NothingToDo(p, e, s)
    BY <1>12 DEF Rests
  <2>2. /\ LogKept /\ executing' = executing
        /\ status' = StatusAfter(log[e], s) /\ NothingDue(p)
    BY <1>4, <2>1 DEF NothingToDo
  <2> QED
    BY <1>1, <2>1, <2>2 DEF Handles, NothingToDo, RestMove
<1> QED
  BY <1>7, <1>8, <1>9, <1>10, <1>11, <1>12, HandlerForms
-----------------------------------------------------------------------------
(* The steps of an agent, of the start and of a webhook in such a session. *)
ClaimMove(p, c) ==
  /\ commands[c].status = "PENDING"
  /\ Marked(c, "IN_PROGRESS") /\ Now(c, "RUNNING")
  /\ executing'[p] = c /\ ActiveCommands' = ActiveCommands
  /\ UNCHANGED <<status, sessionVars, log, unhandled>>

DecideMove(p, c, x) ==
  /\ x \in DecisionEvents(commands[c].type) /\ c \in ActiveCommands
  /\ Marked(c, IF x \in Rejections THEN "FAILED" ELSE "DONE")
  /\ LogKept /\ NowDue(p, x) /\ ActiveCommands' = {}
  /\ UNCHANGED <<status, sessionVars, commands, executing>>

ThrowMove(p, c) ==
  /\ c \in ActiveCommands /\ Now(c, "FAILED")
  /\ executing'[p] = 0
  /\ LogKept /\ NowDue(p, "COMMAND_FAILED") /\ ActiveCommands' = {}
  /\ UNCHANGED <<status, sessionVars, tasks>>

FinishMove(p, c) ==
  /\ tasks[c].status \in {"DONE", "FAILED"} /\ Now(c, "DONE")
  /\ executing'[p] = 0 /\ ActiveCommands' = ActiveCommands
  /\ UNCHANGED <<status, sessionVars, tasks, log, unhandled>>

StartMove(p) ==
  /\ ~Begun /\ status # "COMPLETED" /\ status' = "RUNNING"
  /\ LogKept /\ NowDue(p, "SESSION_STARTED") /\ ActiveCommands' = ActiveCommands
  /\ UNCHANGED <<sessionVars, tasks, commands, executing>>

FeedbackMove(p) ==
  /\ bound /\ LogKept /\ unhandled'[p] = unhandled[p] /\ ActiveCommands' = ActiveCommands
  /\ log'[Len(log) + 1] \in Feedback
  /\ UNCHANGED <<status, sessionVars, tasks, commands, executing>>

(* A command that is being executed, and whose task waits for the agent,   *)
(* is active; it is the last one, and nothing else is in hand.             *)
LEMMA ExecutedIsActive ==
  ASSUME NEW p, OneInHandInv(p), NEW c \in DOMAIN commands, InProgress(p, c)
  PROVE  /\ commands[c].task = c /\ c \in DOMAIN tasks /\ ActiveCommands = {c}
         /\ c = Len(commands) /\ unhandled[p] = {}
<1>1. /\ TypeOK /\ Numbered /\ ExecutesRunning(p) /\ OneInHand(p)
  BY DEF OneInHandInv, IInv
<1>2. c # 0 /\ c \in DOMAIN tasks
  <2>1. c \in 1 .. Len(commands) /\ Len(commands) \in Nat
    BY <1>1, LenProperties DEF TypeOK
  <2> QED
    BY <1>1, <2>1, LenProperties DEF TypeOK, Numbered
<1>3. commands[c].task = c /\ c \in ActiveCommands
  BY <1>1, <1>2 DEF InProgress, ExecutesRunning, Numbered, ActiveCommands
<1> QED
  BY <1>1, <1>2, <1>3 DEF OneInHand

(* Every step of such a session is one of these moves.                     *)
LEMMA ClaimMoves ==
  ASSUME NEW p, OneRun(p), OneInHandInv(p), NEW c \in DOMAIN commands, ClaimCommand(p, c)
  PROVE  ClaimMove(p, c) /\ Numbered'
<1>1. TypeOK /\ Numbered /\ p \in Processes
  BY DEF OneInHandInv, IInv, OneRun
<1>2. commands[c].task = c /\ c \in DOMAIN tasks
  BY <1>1, LenProperties DEF Numbered, TypeOK
<1>3. Marked(c, "IN_PROGRESS") /\ Now(c, "RUNNING")
  BY <1>1, <1>2, MarkTaskMarks, CommandNow DEF ClaimCommand
<1>4. executing'[p] = c /\ UNCHANGED <<status, sessionVars, log, unhandled>>
      /\ commands[c].status = "PENDING"
  BY <1>1 DEF ClaimCommand, TypeOK
<1>5. Numbered'
  <2>1. DOMAIN tasks = DOMAIN commands
    BY <1>1, LenProperties DEF Numbered, TypeOK
  <2> QED
    BY <1>1, <1>3, <2>1 DEF Numbered, Marked, Now
<1>6. ActiveCommands' = ActiveCommands
  <2>1. ActiveCommands' =
          { d \in DOMAIN commands' :
              \/ commands'[d].status = "PENDING"
              \/ commands'[d].status = "RUNNING" /\ tasks'[d].status = "IN_PROGRESS" }
    BY <1>5 DEF Numbered, ActiveCommands
  <2>2. DOMAIN tasks = DOMAIN commands
    BY <1>1, LenProperties DEF Numbered, TypeOK
  <2> QED
    BY <1>1, <1>3, <1>4, <2>1, <2>2, ActiveMeans DEF Marked, Now
<1> QED
  BY <1>3, <1>4, <1>5, <1>6 DEF ClaimMove

(* What the decision of an agent does to them, ...                         *)
LEMMA DecideMoves ==
  ASSUME NEW p, OneRun(p), OneInHandInv(p), NEW c \in DOMAIN commands,
         NEW x \in EventType, AgentDecides(p, c, x)
  PROVE  DecideMove(p, c, x) /\ Numbered'
<1>1. TypeOK /\ Numbered /\ p \in Processes
  BY DEF OneInHandInv, IInv, OneRun
<1>2. InProgress(p, c) /\ Emit(<<x>>) /\ x \in DecisionEvents(commands[c].type)
      /\ MarkTask(commands[c].task, IF x \in Rejections THEN "FAILED" ELSE "DONE")
      /\ UNCHANGED <<status, sessionVars, commands, executing>>
  BY DEF AgentDecides
<1>3. /\ commands[c].task = c /\ c \in DOMAIN tasks /\ ActiveCommands = {c}
      /\ unhandled[p] = {}
  BY <1>2, ExecutedIsActive
<1>4. LogKept /\ NowDue(p, x)
  BY <1>1, <1>2, <1>3, EmitDue
<1>5. Marked(c, IF x \in Rejections THEN "FAILED" ELSE "DONE")
  BY <1>1, <1>2, <1>3, MarkTaskMarks
<1>6. DOMAIN tasks = DOMAIN commands
  BY <1>1, LenProperties DEF Numbered, TypeOK
<1>7. Numbered'
  BY <1>1, <1>2, <1>5, <1>6 DEF Numbered, Marked
<1>8. ActiveCommands' = {}
  <2>1. ActiveCommands' =
          { d \in DOMAIN commands' :
              \/ commands'[d].status = "PENDING"
              \/ commands'[d].status = "RUNNING" /\ tasks'[d].status = "IN_PROGRESS" }
    BY <1>7 DEF Numbered, ActiveCommands
  <2>2. commands[c].status # "PENDING"
    <3>1. c # 0
      BY <1>1, LenProperties DEF TypeOK
    <3> QED
      BY <1>2, <3>1 DEF InProgress, OneInHandInv, ExecutesRunning
  <2>3. tasks'[c].status # "IN_PROGRESS"
    BY <1>5 DEF Marked
  <2> QED
    BY <1>1, <1>2, <1>3, <1>5, <1>6, <2>1, <2>2, <2>3, ActiveMeans DEF Marked
<1> QED
  BY <1>2, <1>3, <1>4, <1>5, <1>7, <1>8 DEF DecideMove

(* ... an agent that throws, ...                                           *)
LEMMA ThrowMoves ==
  ASSUME NEW p, OneRun(p), OneInHandInv(p), NEW c \in DOMAIN commands, AgentThrows(p, c)
  PROVE  ThrowMove(p, c) /\ Numbered'
<1>1. TypeOK /\ Numbered /\ p \in Processes
  BY DEF OneInHandInv, IInv, OneRun
<1>2. InProgress(p, c) /\ Emit(<<"COMMAND_FAILED">>)
      /\ UNCHANGED <<status, sessionVars, tasks>> /\ executing'[p] = 0
  BY <1>1 DEF AgentThrows, TypeOK
<1>3. /\ commands[c].task = c /\ c \in DOMAIN tasks /\ ActiveCommands = {c}
      /\ unhandled[p] = {}
  BY <1>2, ExecutedIsActive
<1>4. LogKept /\ NowDue(p, "COMMAND_FAILED")
  BY <1>1, <1>2, <1>3, EmitDue, NamedEvents
<1>5. Now(c, "FAILED")
  BY <1>1, CommandNow DEF AgentThrows
<1>6. Numbered'
  BY <1>1, <1>2, <1>5 DEF Numbered, Now
<1>7. ActiveCommands' = {}
  <2>1. ActiveCommands' =
          { d \in DOMAIN commands' :
              \/ commands'[d].status = "PENDING"
              \/ commands'[d].status = "RUNNING" /\ tasks'[d].status = "IN_PROGRESS" }
    BY <1>6 DEF Numbered, ActiveCommands
  <2> QED
    BY <1>1, <1>2, <1>3, <1>5, <2>1, ActiveMeans DEF Now
<1> QED
  BY <1>2, <1>3, <1>4, <1>5, <1>6, <1>7 DEF ThrowMove

(* ... the end of executeCommand, ...                                      *)
LEMMA FinishMoves ==
  ASSUME NEW p, OneRun(p), OneInHandInv(p), NEW c \in DOMAIN commands, FinishCommand(p, c)
  PROVE  FinishMove(p, c) /\ Numbered'
<1>1. TypeOK /\ Numbered /\ ExecutesRunning(p) /\ p \in Processes
  BY DEF OneInHandInv, IInv, OneRun
<1>2. commands[c].task = c /\ c # 0
  BY <1>1, LenProperties DEF Numbered, TypeOK
<1>3. /\ tasks[c].status \in {"DONE", "FAILED"} /\ executing'[p] = 0 /\ executing[p] = c
      /\ UNCHANGED <<status, sessionVars, tasks, log, unhandled>>
  BY <1>1, <1>2 DEF FinishCommand, TypeOK
<1>4. Now(c, "DONE")
  BY <1>1, CommandNow DEF FinishCommand
<1>5. Numbered'
  BY <1>1, <1>3, <1>4 DEF Numbered, Now
<1>6. ActiveCommands' = ActiveCommands
  <2>1. ActiveCommands' =
          { d \in DOMAIN commands' :
              \/ commands'[d].status = "PENDING"
              \/ commands'[d].status = "RUNNING" /\ tasks'[d].status = "IN_PROGRESS" }
    BY <1>5 DEF Numbered, ActiveCommands
  <2>2. commands[c].status = "RUNNING" /\ tasks[c].status # "IN_PROGRESS"
    BY <1>1, <1>2, <1>3 DEF ExecutesRunning
  <2> QED
    BY <1>1, <1>3, <1>4, <2>1, <2>2, ActiveMeans DEF Now
<1> QED
  BY <1>3, <1>4, <1>5, <1>6 DEF FinishMove

(* A session that may be started once is started only at first.            *)
LEMMA StartMoves ==
  ASSUME NEW p, OneRun(p), OneInHandInv(p), StartSession
  PROVE  StartMove(p) /\ Numbered'
<1>1. TypeOK /\ Numbered /\ OneInHand(p) /\ p \in Processes
  BY DEF OneInHandInv, IInv, OneRun
<1> DEFINE Starts == {i \in DOMAIN log : log[i] \in {"SESSION_STARTED"}}
<1>2. ~Begun
  <2>1. IsFiniteSet(Starts)
    <3>1. Len(log) \in Int /\ Starts \subseteq 1 .. Len(log)
      BY <1>1, LenProperties DEF TypeOK
    <3>2. IsFiniteSet(1 .. Len(log))
      BY <3>1, FS_Interval
    <3> QED
      BY <3>1, <3>2, FS_Subset
  <2>2. /\ Cardinality(Starts) < MaxStarts /\ Cardinality(Starts) \in Nat
        /\ MaxStarts \in Nat /\ MaxStarts <= 1
    BY <2>1, FS_CardinalityType, OrchestrationAssumption DEF StartSession, CountOf, OneRun
  <2>3. Starts = {}
    <3>1. Cardinality(Starts) = 0
      <4> HIDE DEF Starts
      <4> QED
        BY <2>2
    <3> QED
      BY <2>1, <3>1, FS_EmptySet
  <2> QED
    BY <2>3 DEF Begun
<1>3. unhandled[p] = {} /\ commands = <<>>
  BY <1>1, <1>2 DEF OneInHand
<1>4. LogKept /\ NowDue(p, "SESSION_STARTED")
  BY <1>1, <1>3, EmitDue, NamedEvents DEF StartSession
<1> QED
  BY <1>1, <1>2, <1>4 DEF StartSession, StartMove, Numbered, ActiveCommands

(* ... and feedback that comes from the SCM.                               *)
LEMMA FeedbackMoves ==
  ASSUME NEW p, OneRun(p), OneInHandInv(p), NEW x \in Feedback, ReceiveFeedback(x)
  PROVE  FeedbackMove(p) /\ Numbered'
<1>1. TypeOK /\ Numbered /\ p \in Processes
  BY DEF OneInHandInv, IInv, OneRun
<1>2. x \in EventType /\ x \notin EnabledTransitions
  BY NamedEvents, OrchestrationAssumption, Transitions DEF OneRun
<1>3. LogKept /\ unhandled'[p] = unhandled[p] /\ log'[Len(log) + 1] = x
  BY <1>1, <1>2, EmitDue DEF ReceiveFeedback
<1> QED
  BY <1>1, <1>3 DEF ReceiveFeedback, FeedbackMove, Numbered, ActiveCommands

Move(p) ==
  \/ \E e \in unhandled[p] : Handles(p, e)
  \/ \E c \in DOMAIN commands :
       \/ ClaimMove(p, c) \/ ThrowMove(p, c) \/ FinishMove(p, c)
       \/ \E x \in EventType : DecideMove(p, c, x)
  \/ StartMove(p)
  \/ FeedbackMove(p)

(* What a handler leaves active: the command it dispatches, or nothing.    *)
LEMMA HandledActive ==
  ASSUME NEW p, OneInHandInv(p), NEW e \in unhandled[p], Handles(p, e)
  PROVE  /\ Numbered'
         /\ \A type \in CommandType :
              Added(type) => ActiveCommands' = {Len(commands')} /\ Len(commands') = Len(commands) + 1
         /\ UNCHANGED <<tasks, commands>> => ActiveCommands' = {}
<1>1. TypeOK /\ Numbered /\ ActiveCommands = {}
  BY DEF OneInHandInv, IInv, Handles
<1>2. ASSUME NEW type \in CommandType, Added(type)
      PROVE  /\ Numbered' /\ ActiveCommands' = {Len(commands')}
             /\ Len(commands') = Len(commands) + 1
  BY <1>1, <1>2, AddedActive DEF Added
<1>3. ASSUME UNCHANGED <<tasks, commands>> PROVE Numbered' /\ ActiveCommands' = {}
  BY <1>1, <1>3 DEF Numbered, ActiveCommands
<1>4. (\E type \in CommandType : Added(type)) \/ UNCHANGED <<tasks, commands>>
  BY DEF Handles, StepMove, PrepareMove, PublishMove, RestMove
<1> QED
  BY <1>2, <1>3, <1>4

(* So every step of such a session is a move.                              *)
LEMMA Moves ==
  ASSUME NEW p, OneRun(p), OneInHandInv(p), Next
  PROVE  Move(p) /\ Numbered'
<1>1. Processes = {p}
  BY DEF OneRun
<1>2. ASSUME NEW e \in unhandled[p], HandleEvent(p, e) PROVE Move(p) /\ Numbered'
  BY <1>2, HandlerMoves, HandledActive DEF Move
<1>3. ASSUME NEW c \in DOMAIN commands, Execute(p, c) PROVE Move(p) /\ Numbered'
  BY <1>3, ClaimMoves, DecideMoves, ThrowMoves, FinishMoves DEF Execute, Move
<1>4. CASE StartSession \/ \E x \in Feedback : ReceiveFeedback(x)
  BY <1>4, StartMoves, FeedbackMoves DEF Move
<1> QED
  BY <1>1, <1>2, <1>3, <1>4 DEF Next

(* And a move leaves one thing in hand.                                    *)
LEMMA OneInHandNext ==
  ASSUME NEW p, OneRun(p), OneInHandInv(p), [Next]_vars
  PROVE  OneInHandInv(p)'
<1>1. TypeOK /\ Numbered /\ ExecutesRunning(p) /\ OneInHand(p) /\ IInv
  BY DEF OneInHandInv, IInv
<1>2. IInv' /\ TypeOK'
  BY <1>1, NextIInv DEF IInv
<1>3. CASE UNCHANGED vars
  BY <1>1, <1>2, <1>3 DEF vars, OneInHandInv, Numbered, ExecutesRunning, OneInHand,
     ActiveCommands, Begun
<1>4. CASE Next
  <2>1. Move(p) /\ Numbered'
    BY <1>4, Moves
  <2>2. /\ LogKept => (Begun => Begun')
        /\ \A x : NowDue(p, x) => \A e, f \in unhandled'[p] : e = f
        /\ DOMAIN commands # {} => Begun
    BY <1>1 DEF LogKept, Begun, NowDue, OneInHand
  <2>3. SUFFICES ExecutesRunning(p)' /\ OneInHand(p)'
    BY <1>2, <2>1 DEF OneInHandInv
  <2>4. ASSUME NEW e \in unhandled[p], Handles(p, e) PROVE ExecutesRunning(p)' /\ OneInHand(p)'
    <3>1. Begun' /\ UNCHANGED executing
      BY <2>2, <2>4 DEF Handles
    <3>2. /\ \A type \in CommandType :
               Added(type) => ActiveCommands' = {Len(commands')}
          /\ UNCHANGED <<tasks, commands>> => ActiveCommands' = {}
      BY <2>4, HandledActive
    <3>3. CASE \E type \in CommandType : Added(type) /\ NothingDue(p)
      <4>1. PICK type \in CommandType : Added(type) /\ NothingDue(p)
        BY <3>3
      <4>2. OneInHand(p)'
        BY <3>1, <3>2, <4>1 DEF OneInHand, NothingDue
      <4>3. executing[p] # 0 => executing[p] \in DOMAIN commands
        BY <1>1 DEF TypeOK, OneRun
      <4>4. ExecutesRunning(p)'
        BY <1>1, <3>1, <4>1, <4>3 DEF ExecutesRunning, Added
      <4> QED
        BY <4>2, <4>4
    <3>4. CASE UNCHANGED <<tasks, commands>> /\ (NothingDue(p) \/ \E x : NowDue(p, x))
      BY <1>1, <2>2, <3>1, <3>2, <3>4 DEF OneInHand, NothingDue, ExecutesRunning
    <3> QED
      BY <2>4, <3>3, <3>4 DEF Handles, StepMove, PrepareMove, PublishMove, RestMove
  <2>5. ASSUME NEW c \in DOMAIN commands, ClaimMove(p, c) PROVE ExecutesRunning(p)' /\ OneInHand(p)'
    BY <1>1, <2>2, <2>5 DEF ClaimMove, ExecutesRunning, OneInHand, Now, Begun
  <2>6. ASSUME NEW c \in DOMAIN commands, NEW x \in EventType, DecideMove(p, c, x)
        PROVE  ExecutesRunning(p)' /\ OneInHand(p)'
    BY <1>1, <2>2, <2>6 DEF DecideMove, ExecutesRunning, OneInHand
  <2>7. ASSUME NEW c \in DOMAIN commands, ThrowMove(p, c) PROVE ExecutesRunning(p)' /\ OneInHand(p)'
    BY <1>1, <2>2, <2>7 DEF ThrowMove, ExecutesRunning, OneInHand
  <2>8. ASSUME NEW c \in DOMAIN commands, FinishMove(p, c) PROVE ExecutesRunning(p)' /\ OneInHand(p)'
    BY <1>1, <2>2, <2>8 DEF FinishMove, ExecutesRunning, OneInHand, Now, Begun
  <2>9. CASE StartMove(p)
    <3>1. commands = <<>> /\ unhandled[p] = {} /\ ActiveCommands = {}
      BY <1>1, <2>9 DEF StartMove, OneInHand, ActiveCommands
    <3>2. Begun'
      BY <2>9, Transitions DEF StartMove, NowDue, Begun
    <3> QED
      BY <1>1, <2>2, <2>9, <3>1, <3>2 DEF StartMove, ExecutesRunning, OneInHand
  <2>10. CASE FeedbackMove(p)
    BY <1>1, <2>2, <2>10 DEF FeedbackMove, ExecutesRunning, OneInHand
  <2> QED
    BY <2>1, <2>4, <2>5, <2>6, <2>7, <2>8, <2>9, <2>10 DEF Move
<1> QED
  BY <1>3, <1>4

(* Nothing is in hand at first.                                            *)
LEMMA OneInHandInit ==
  ASSUME NEW p, OneRun(p), Init
  PROVE  OneInHandInv(p)
<1>1. IInv /\ p \in Processes
  BY InitIInv DEF OneRun
<1>2. /\ tasks = <<>> /\ commands = <<>> /\ log = <<>>
      /\ unhandled[p] = {} /\ executing[p] = 0
  BY <1>1 DEF Init
<1> QED
  BY <1>1, <1>2 DEF OneInHandInv, Numbered, ExecutesRunning, OneInHand, ActiveCommands

(* One process and one run never have two commands in hand.                *)
LEMMA OneInHandAlways ==
  ASSUME NEW p, OneRun(p)
  PROVE  Spec => []OneInHandInv(p)
<1>1. Init => OneInHandInv(p)
  BY OneInHandInit
<1>2. OneInHandInv(p) /\ [Next]_vars => OneInHandInv(p)'
  BY OneInHandNext
<1> QED
  BY <1>1, <1>2, PTL DEF Spec

(* Whatever the workflow, as long as nothing comes from the pull request,  *)
(* a session of one process that is started once has never two pieces of   *)
(* work in hand: a handler dispatches one command or publishes, an agent   *)
(* emits one decision, and nothing goes on beside a failure.               *)
THEOREM OneThingAtATime ==
  ASSUME NEW p, OneRun(p)
  PROVE  Spec => []OneStepAtATime
<1>1. OneInHandInv(p) => OneStepAtATime
  <2> SUFFICES ASSUME OneInHandInv(p)
               PROVE  Cardinality(ActiveCommands) + Cardinality(unhandled[p]) <= 1
    BY DEF OneStepAtATime, OneRun
  <2>1. OneInHand(p)
    BY DEF OneInHandInv
  <2>2. /\ Cardinality({}) = 0 /\ \A x : Cardinality({x}) = 1
    BY FS_EmptySet, FS_Singleton
  <2>3. \/ ActiveCommands = {} /\ unhandled[p] = {}
        \/ ActiveCommands = {} /\ \E e : unhandled[p] = {e}
        \/ ActiveCommands = {Len(commands)} /\ unhandled[p] = {}
    BY <2>1 DEF OneInHand
  <2>4. \/ Cardinality(ActiveCommands) = 0 /\ Cardinality(unhandled[p]) = 0
        \/ Cardinality(ActiveCommands) = 0 /\ Cardinality(unhandled[p]) = 1
        \/ Cardinality(ActiveCommands) = 1 /\ Cardinality(unhandled[p]) = 0
    BY <2>2, <2>3, Zenon
  <2> QED
    BY <2>4
<1> QED
  BY <1>1, OneInHandAlways, PTL
-----------------------------------------------------------------------------
(***************************************************************************)
(* What the one thing in hand tells.  A session has an unfinished task     *)
(* only in the command at hand, unless that one threw; what is to be       *)
(* tested or reviewed is all implemented; and the last tasks are the ones  *)
(* the event that is due speaks of.                                        *)
(***************************************************************************)
Due(p) == { log[e] : e \in unhandled[p] }

Closed(t) == tasks[t].status \in {"DONE", "FAILED"}

Unfinished(p) ==
  /\ \/ \A t \in DOMAIN tasks \ ActiveCommands : Closed(t)
     \/ ActiveCommands = {} /\ Due(p) \subseteq {"COMMAND_FAILED"}
  /\ \A t \in DOMAIN tasks : tasks[t].status = "FAILED" => tasks[t].type \in {"TEST", "REVIEW"}

Is(t, type) == t \in DOMAIN tasks /\ tasks[t].type = type /\ tasks[t].status = "DONE"

Implemented(p) ==
  /\ \A c \in ActiveCommands :
       commands[c].type \in {"VERIFY", "REVIEW"} => AllDone("IMPLEMENT")
  /\ Due(p) \cap {"IMPLEMENT_COMPLETED", "REACT_COMPLETED", "TEST_PASSED",
                  "REVIEW_COMPLETED"} # {} => AllDone("IMPLEMENT")

Tested(p) ==
  /\ \A c \in ActiveCommands : commands[c].type = "REVIEW" => Is(c - 1, "TEST")
  /\ "TEST_PASSED" \in Due(p) => Is(Len(tasks), "TEST")
  /\ "REVIEW_COMPLETED" \in Due(p) =>
       Is(Len(tasks), "REVIEW") /\ Is(Len(tasks) - 1, "TEST")

TokenTells(p) == OneInHandInv(p) /\ Unfinished(p) /\ Implemented(p) /\ Tested(p)

(* What is due after a move.                                               *)
LEMMA DueAfter ==
  ASSUME NEW p, OneRun(p), OneInHandInv(p)
  PROVE  /\ \A x : NowDue(p, x) => Due(p)' = IF x \in EnabledTransitions THEN {x} ELSE {}
         /\ NothingDue(p) => Due(p)' = {}
         /\ LogKept /\ unhandled'[p] = unhandled[p] => Due(p)' = Due(p)
         /\ UNCHANGED <<log, unhandled>> => Due(p)' = Due(p)
         /\ \A e \in unhandled[p] : Handles(p, e) => Due(p) = {log[e]}
<1>1. unhandled[p] \subseteq DOMAIN log
  BY DEF OneInHandInv, IInv, TypeOK, OneRun
<1>2. ASSUME NEW x, NowDue(p, x)
      PROVE  Due(p)' = IF x \in EnabledTransitions THEN {x} ELSE {}
  BY <1>2 DEF NowDue, Due
<1> QED
  BY <1>1, <1>2 DEF NothingDue, LogKept, Due, Handles

(* What an agent may decide of a command, and the task the command has.    *)
LEMMA Decisions ==
  ASSUME NEW type \in CommandType, NEW x \in DecisionEvents(type)
  PROVE  \/ type = "PLAN" /\ x = "PLAN_COMPLETED"
         \/ type \in {"GENERATE", "FIX"} /\ x = "IMPLEMENT_COMPLETED"
         \/ type = "REACT" /\ x = "REACT_COMPLETED"
         \/ type = "VERIFY" /\ x \in {"TEST_PASSED", "TEST_FAILED"}
         \/ type = "REVIEW" /\ x \in {"REVIEW_COMPLETED", "REVIEW_FAILED"}
<1>1. /\ DecisionEvents("PLAN") = {"PLAN_COMPLETED"}
      /\ DecisionEvents("GENERATE") = {"IMPLEMENT_COMPLETED"}
      /\ DecisionEvents("FIX") = {"IMPLEMENT_COMPLETED"}
      /\ DecisionEvents("REACT") = {"REACT_COMPLETED"}
      /\ DecisionEvents("VERIFY") = {"TEST_PASSED", "TEST_FAILED"}
      /\ DecisionEvents("REVIEW") = {"REVIEW_COMPLETED", "REVIEW_FAILED"}
  BY DEF DecisionEvents, AgentFor
<1> QED
  BY <1>1 DEF CommandType

(* The type of the task of each command, as taskTypeOf maps it.            *)
LEMMA TaskTypes ==
  /\ TaskTypeOf("PLAN") = "PLAN" /\ TaskTypeOf("VERIFY") = "TEST"
  /\ TaskTypeOf("REVIEW") = "REVIEW"
  /\ \A type \in {"GENERATE", "FIX", "REACT"} : TaskTypeOf(type) = "IMPLEMENT"
BY DEF TaskTypeOf

(* Task and command of the same number belong together, and only the last  *)
(* can be active.                                                          *)
LEMMA Numbers ==
  ASSUME NEW p, OneInHandInv(p)
  PROVE  /\ Len(tasks) = Len(commands) /\ Len(tasks) \in Nat
         /\ DOMAIN tasks = 1 .. Len(tasks) /\ DOMAIN commands = 1 .. Len(tasks)
         /\ ActiveCommands \subseteq DOMAIN commands
         /\ \A c \in ActiveCommands : c = Len(commands)
         /\ \A c \in DOMAIN commands : /\ commands[c].type \in CommandType
                                       /\ tasks[c].type = TaskTypeOf(commands[c].type)
                                       /\ commands[c].status \in CommandStatus
                                       /\ tasks[c].status \in TaskStatus
         /\ AllDone("IMPLEMENT") <=>
              \A t \in DOMAIN tasks : tasks[t].type = "IMPLEMENT" => tasks[t].status = "DONE"
<1>1. TypeOK /\ Numbered /\ OneInHand(p)
  BY DEF OneInHandInv, IInv
<1>2. /\ Len(tasks) = Len(commands) /\ Len(tasks) \in Nat
      /\ DOMAIN tasks = 1 .. Len(tasks) /\ DOMAIN commands = 1 .. Len(tasks)
  BY <1>1, LenProperties DEF TypeOK, Numbered
<1>3. \A c \in DOMAIN commands : commands[c] \in Command /\ tasks[c] \in Task
  BY <1>1, <1>2, ElementOfSeq DEF TypeOK
<1>4. \A c \in DOMAIN commands : /\ commands[c].type \in CommandType
                                 /\ tasks[c].type = TaskTypeOf(commands[c].type)
                                 /\ commands[c].status \in CommandStatus
                                 /\ tasks[c].status \in TaskStatus
  BY <1>1, <1>3 DEF Command, Task, Numbered
<1> QED
  BY <1>1, <1>2, <1>4 DEF OneInHand, ActiveCommands, AllDone, Ids

(* A handler keeps what the thing in hand tells: what it dispatches is     *)
(* what the event that was due speaks of.                                  *)
LEMMA HandleTells ==
  ASSUME NEW p, OneRun(p), TokenTells(p), NEW e \in unhandled[p], Handles(p, e)
  PROVE  (Unfinished(p) /\ Implemented(p) /\ Tested(p))'
<1>1. OneInHandInv(p) /\ Unfinished(p) /\ Implemented(p) /\ Tested(p)
  BY DEF TokenTells
<1>2. ActiveCommands = {} /\ Due(p) = {log[e]}
  BY <1>1, DueAfter DEF Handles
<1>3. CASE UNCHANGED <<tasks, commands>>
           /\ \/ NothingDue(p)
              \/ \E x \in {"SCM_WORKSPACE_PREPARED", "SCM_PR_CREATED", "SCM_PUBLISH_FAILED"} :
                   NowDue(p, x) /\ log[e] # "COMMAND_FAILED"
  <2>1. ActiveCommands' = {}
    BY <1>1, <1>3, HandledActive
  <2>2. Due(p)' \subseteq {"SCM_WORKSPACE_PREPARED", "SCM_PR_CREATED", "SCM_PUBLISH_FAILED"}
        /\ (log[e] = "COMMAND_FAILED" => Due(p)' = {})
    BY <1>1, <1>3, DueAfter
  <2>3. Implemented(p)' /\ Tested(p)'
    BY <2>1, <2>2 DEF Implemented, Tested
  <2>4. Unfinished(p)'
    BY <1>1, <1>2, <1>3, <2>1, <2>2 DEF Unfinished, Closed
  <2> QED
    BY <2>3, <2>4
<1>4. CASE StepMove(p, e)
  <2>1. PICK type \in CommandType : Follows(type, log[e]) /\ Added(type) /\ NothingDue(p)
    BY <1>4 DEF StepMove
  <2>2. ActiveCommands' = {Len(commands')} /\ Len(commands') = Len(commands) + 1 /\ Due(p)' = {}
    BY <1>1, <2>1, HandledActive, DueAfter
  <2>3. /\ Len(tasks) = Len(commands) /\ Len(tasks) \in Nat
        /\ DOMAIN tasks = 1 .. Len(tasks) /\ DOMAIN commands = 1 .. Len(tasks)
        /\ AllDone("IMPLEMENT") <=>
             \A t \in DOMAIN tasks : tasks[t].type = "IMPLEMENT" => tasks[t].status = "DONE"
    BY <1>1, Numbers
  <2> DEFINE n == Len(tasks) + 1
  <2>4. /\ DOMAIN tasks' = 1 .. n /\ DOMAIN commands' = 1 .. n /\ n \in Nat /\ n = Len(commands')
        /\ \A t \in 1 .. Len(tasks) : tasks'[t] = tasks[t]
        /\ tasks'[n].type = TaskTypeOf(type) /\ tasks'[n].status = "PENDING"
        /\ commands'[n].type = type
    BY <2>1, <2>2, <2>3 DEF Added
  <2> HIDE DEF n
  <2>5. Unfinished(p)'
    <3>1. log[e] # "COMMAND_FAILED"
      BY <2>1 DEF Follows
    <3>2. \A t \in DOMAIN tasks : Closed(t)
      BY <1>1, <1>2, <3>1 DEF Unfinished
    <3>3. \A t \in DOMAIN tasks' : t = n \/ t \in DOMAIN tasks
      BY <2>3, <2>4 DEF n
    <3> QED
      BY <1>1, <2>2, <2>3, <2>4, <3>2, <3>3 DEF Unfinished, Closed
  <2>6. Implemented(p)'
    <3>1. ASSUME type \in {"VERIFY", "REVIEW"} PROVE AllDone("IMPLEMENT")'
      <4>1. AllDone("IMPLEMENT")
        BY <1>1, <1>2, <2>1, <3>1 DEF Follows, Implemented
      <4>2. tasks'[n].type # "IMPLEMENT"
        BY <2>4, <3>1, TaskTypes
      <4>3. \A t \in DOMAIN tasks' : t = n \/ t \in DOMAIN tasks
        BY <2>3, <2>4 DEF n
      <4> QED
        BY <2>3, <2>4, <4>1, <4>2, <4>3 DEF AllDone, Ids
    <3> QED
      BY <2>2, <2>4, <3>1 DEF Implemented
  <2>7. Tested(p)'
    <3>1. ASSUME type = "REVIEW"
          PROVE  /\ n - 1 \in DOMAIN tasks'
                 /\ tasks'[n - 1].type = "TEST" /\ tasks'[n - 1].status = "DONE"
      <4>1. Is(Len(tasks), "TEST")
        BY <1>1, <1>2, <2>1, <3>1 DEF Follows, Tested
      <4>2. n - 1 = Len(tasks) /\ Len(tasks) \in DOMAIN tasks' /\ Len(tasks) \in 1 .. Len(tasks)
        BY <2>3, <2>4, <4>1 DEF Is, n
      <4> QED
        BY <2>4, <4>1, <4>2 DEF Is
    <3> QED
      BY <2>2, <2>4, <3>1 DEF Tested, Is
  <2> QED
    BY <2>5, <2>6, <2>7
<1> QED
  BY <1>3, <1>4, Transitions DEF Handles, PrepareMove, PublishMove, RestMove, EndsSteps

(* An agent keeps it: the event it decides on speaks of the command's task,*)
(* and one that throws leaves nothing to go on with.                       *)
LEMMA AgentTells ==
  ASSUME NEW p, OneRun(p), TokenTells(p), NEW c \in DOMAIN commands,
         \/ ClaimMove(p, c) \/ ThrowMove(p, c) \/ FinishMove(p, c)
         \/ \E x \in EventType : DecideMove(p, c, x)
  PROVE  (Unfinished(p) /\ Implemented(p) /\ Tested(p))'
<1>1. OneInHandInv(p) /\ Unfinished(p) /\ Implemented(p) /\ Tested(p)
  BY DEF TokenTells
<1>2. /\ Len(tasks) = Len(commands) /\ Len(tasks) \in Nat
      /\ DOMAIN tasks = 1 .. Len(tasks) /\ DOMAIN commands = 1 .. Len(tasks)
      /\ ActiveCommands \subseteq DOMAIN commands
      /\ \A d \in ActiveCommands : d = Len(commands)
      /\ \A d \in DOMAIN commands : /\ commands[d].type \in CommandType
                                    /\ tasks[d].type = TaskTypeOf(commands[d].type)
      /\ AllDone("IMPLEMENT") <=>
           \A t \in DOMAIN tasks : tasks[t].type = "IMPLEMENT" => tasks[t].status = "DONE"
  BY <1>1, Numbers
<1>3. /\ "COMMAND_FAILED" \in EnabledTransitions
      /\ \A x : NowDue(p, x) => Due(p)' \subseteq {x}
      /\ UNCHANGED <<log, unhandled>> => Due(p)' = Due(p)
  BY <1>1, DueAfter, Transitions
<1>4. CASE ClaimMove(p, c)
  <2>1. c \in ActiveCommands
    BY <1>4 DEF ClaimMove, ActiveCommands
  <2>2. ActiveCommands = {c} /\ c = Len(tasks) /\ unhandled[p] = {}
    BY <1>1, <1>2, <2>1 DEF OneInHandInv, OneInHand
  <2>3. ActiveCommands' = {c} /\ Due(p)' = {} /\ Due(p) = {}
    BY <1>3, <1>4, <2>2 DEF ClaimMove, Due
  <2>4. /\ DOMAIN tasks' = DOMAIN tasks /\ tasks'[c].type = tasks[c].type
        /\ tasks'[c].status = "IN_PROGRESS" /\ Len(tasks') = Len(tasks)
        /\ \A t \in DOMAIN tasks \ {c} : tasks'[t] = tasks[t]
        /\ commands'[c].type = commands[c].type
    BY <1>4 DEF ClaimMove, Marked, Now
  <2>5. Unfinished(p)'
    BY <1>1, <2>2, <2>3, <2>4 DEF Unfinished, Closed
  <2>6. ASSUME commands[c].type \in {"VERIFY", "REVIEW"} PROVE AllDone("IMPLEMENT")'
    <3>1. tasks[c].type # "IMPLEMENT"
      BY <1>2, <2>6, TaskTypes
    <3>2. AllDone("IMPLEMENT")
      BY <1>1, <2>2, <2>6 DEF Implemented
    <3> QED
      BY <1>2, <2>4, <3>1, <3>2 DEF AllDone, Ids
  <2>7. Implemented(p)'
    BY <2>3, <2>4, <2>6 DEF Implemented
  <2>8. Tested(p)'
    BY <1>1, <1>2, <2>2, <2>3, <2>4 DEF Tested, Is
  <2> QED
    BY <2>5, <2>7, <2>8
<1>5. CASE ThrowMove(p, c)
  <2>1. ActiveCommands' = {} /\ Due(p)' \subseteq {"COMMAND_FAILED"} /\ UNCHANGED tasks
    BY <1>3, <1>5 DEF ThrowMove
  <2> QED
    BY <1>1, <2>1 DEF Unfinished, Implemented, Tested
<1>6. CASE FinishMove(p, c)
  <2>1. /\ ActiveCommands' = ActiveCommands /\ Due(p)' = Due(p) /\ UNCHANGED tasks
        /\ \A d \in DOMAIN commands : commands'[d].type = commands[d].type
    BY <1>3, <1>6 DEF FinishMove, Now
  <2>2. AllDone("IMPLEMENT")' <=> AllDone("IMPLEMENT")
    BY <2>1 DEF AllDone, Ids
  <2>3. Unfinished(p)'
    BY <1>1, <2>1 DEF Unfinished, Closed
  <2>4. Implemented(p)'
    BY <1>1, <1>2, <2>1, <2>2 DEF Implemented
  <2>5. Tested(p)'
    BY <1>1, <1>2, <2>1 DEF Tested, Is
  <2> QED
    BY <2>3, <2>4, <2>5
<1>7. ASSUME NEW x \in EventType, DecideMove(p, c, x)
      PROVE  (Unfinished(p) /\ Implemented(p) /\ Tested(p))'
  <2>1. /\ c \in ActiveCommands /\ x \in DecisionEvents(commands[c].type)
        /\ ActiveCommands' = {} /\ Due(p)' \subseteq {x}
    BY <1>3, <1>7 DEF DecideMove
  <2>2. ActiveCommands = {c} /\ c = Len(tasks) /\ Due(p) = {}
    BY <1>1, <1>2, <2>1 DEF OneInHandInv, OneInHand, Due
  <2>3. /\ DOMAIN tasks' = DOMAIN tasks /\ tasks'[c].type = tasks[c].type
        /\ tasks'[c].status = IF x \in Rejections THEN "FAILED" ELSE "DONE"
        /\ Len(tasks') = Len(tasks)
        /\ \A t \in DOMAIN tasks \ {c} : tasks'[t] = tasks[t]
    BY <1>7 DEF DecideMove, Marked
  <2> DEFINE type == commands[c].type
  <2>4. \/ type = "PLAN" /\ x = "PLAN_COMPLETED"
        \/ type \in {"GENERATE", "FIX"} /\ x = "IMPLEMENT_COMPLETED"
        \/ type = "REACT" /\ x = "REACT_COMPLETED"
        \/ type = "VERIFY" /\ x \in {"TEST_PASSED", "TEST_FAILED"}
        \/ type = "REVIEW" /\ x \in {"REVIEW_COMPLETED", "REVIEW_FAILED"}
    BY <1>2, <2>1, Decisions
  <2>5. tasks[c].type = TaskTypeOf(type)
    BY <1>2
  <2> HIDE DEF type
  <2>6. x \in Rejections => tasks[c].type \in {"TEST", "REVIEW"}
    BY <2>4, <2>5, TaskTypes DEF Rejections
  <2>7. ActiveCommands # {}
    BY <2>2
  <2>8. \A t \in DOMAIN tasks \ {c} : Closed(t)
    BY <1>1, <2>2, <2>7 DEF Unfinished
  <2>9. Unfinished(p)'
    BY <1>1, <2>3, <2>6, <2>8 DEF Unfinished, Closed
  <2>10. ASSUME x \in {"IMPLEMENT_COMPLETED", "REACT_COMPLETED", "TEST_PASSED", "REVIEW_COMPLETED"}
         PROVE  AllDone("IMPLEMENT")'
    <3>1. tasks'[c].status = "DONE"
      BY <2>3, <2>10 DEF Rejections
    <3>2. \A t \in DOMAIN tasks \ {c} : tasks[t].type = "IMPLEMENT" => tasks[t].status = "DONE"
      BY <1>1, <2>8 DEF Unfinished, Closed
    <3> QED
      BY <2>3, <3>1, <3>2 DEF AllDone, Ids
  <2>11. Implemented(p)'
    BY <2>1, <2>10 DEF Implemented
  <2>12. x \in {"TEST_PASSED", "REVIEW_COMPLETED"} => x \notin Rejections
    BY DEF Rejections
  <2>13. Tested(p)'
    <3>1. ASSUME x = "TEST_PASSED" PROVE Is(Len(tasks), "TEST")'
      BY <1>2, <2>2, <2>3, <2>4, <2>5, <2>12, <3>1, TaskTypes DEF Is
    <3>2. ASSUME x = "REVIEW_COMPLETED"
          PROVE  Is(Len(tasks), "REVIEW")' /\ Is(Len(tasks) - 1, "TEST")'
      <4>1. type = "REVIEW" /\ Is(c - 1, "TEST")
        BY <1>1, <2>1, <2>4, <3>2 DEF Tested, type
      <4>2. c - 1 # c
        BY <1>2
      <4> QED
        BY <1>2, <2>2, <2>3, <2>5, <2>12, <3>2, <4>1, <4>2, TaskTypes DEF Is
    <3> QED
      BY <2>1, <3>1, <3>2 DEF Tested
  <2> QED
    BY <2>9, <2>11, <2>13
<1> QED
  BY <1>4, <1>5, <1>6, <1>7

(* At first there is no task, and nothing is due.                          *)
LEMMA TokenInit ==
  ASSUME NEW p, OneRun(p), Init
  PROVE  TokenTells(p)
<1>1. OneInHandInv(p)
  BY OneInHandInit
<1>2. tasks = <<>> /\ commands = <<>> /\ unhandled[p] = {}
  BY DEF Init, OneRun
<1> QED
  BY <1>1, <1>2 DEF TokenTells, Unfinished, Implemented, Tested, ActiveCommands, Due

(* Every step keeps what the one event or command in hand tells of the     *)
(* steps done so far.                                                      *)
LEMMA TokenNext ==
  ASSUME NEW p, OneRun(p), TokenTells(p), [Next]_vars
  PROVE  TokenTells(p)'
<1>1. OneInHandInv(p) /\ Unfinished(p) /\ Implemented(p) /\ Tested(p)
  BY DEF TokenTells
<1>2. OneInHandInv(p)'
  BY <1>1, OneInHandNext
<1>3. SUFFICES (Unfinished(p) /\ Implemented(p) /\ Tested(p))'
  BY <1>2 DEF TokenTells
<1>4. CASE /\ UNCHANGED <<tasks, commands>>
           /\ ActiveCommands' = ActiveCommands /\ Due(p)' = Due(p)
  BY <1>1, <1>4 DEF Unfinished, Implemented, Tested, Closed, AllDone, Ids, Is
<1>5. CASE UNCHANGED vars
  BY <1>4, <1>5 DEF vars, ActiveCommands, Due
<1>6. CASE Next
  <2>1. Move(p)
    BY <1>1, <1>6, Moves
  <2>2. CASE StartMove(p)
    <3>1. commands = <<>> /\ ActiveCommands = {} /\ tasks = <<>>
      <4>1. commands = <<>> /\ ActiveCommands = {}
        BY <1>1, <2>2 DEF StartMove, OneInHandInv, OneInHand, ActiveCommands
      <4>2. Len(tasks) = 0 /\ tasks \in Seq(Task)
        BY <1>1, <4>1, Numbers DEF OneInHandInv, IInv, TypeOK
      <4> QED
        BY <4>1, <4>2, EmptySeq
    <3>2. ActiveCommands' = {} /\ Due(p)' = {"SESSION_STARTED"} /\ tasks' = <<>>
      BY <1>1, <2>2, <3>1, DueAfter, Transitions DEF StartMove
    <3> QED
      BY <3>2 DEF Unfinished, Implemented, Tested
  <2>3. CASE FeedbackMove(p)
    BY <1>1, <1>4, <2>3, DueAfter DEF FeedbackMove
  <2> QED
    BY <2>1, <2>2, <2>3, HandleTells, AgentTells DEF Move
<1> QED
  BY <1>5, <1>6

(* It holds in every reachable state.                                      *)
LEMMA TokenAlways ==
  ASSUME NEW p, OneRun(p)
  PROVE  Spec => []TokenTells(p)
<1>1. Init => TokenTells(p)
  BY TokenInit
<1>2. TokenTells(p) /\ [Next]_vars => TokenTells(p)'
  BY TokenNext
<1> QED
  BY <1>1, <1>2, PTL DEF Spec

(* What an emit appends to the log, SESSION_COMPLETED aside, is what the   *)
(* handler emits.                                                          *)
LEMMA Appended ==
  ASSUME log \in Seq(EventType), NEW events \in Seq(EventType), log' = log \o events,
         NEW x, Appears(x)
  PROVE  \E k \in DOMAIN events : events[k] = x
<1>1. /\ \A i \in 1 .. Len(log) + Len(events) :
           (log \o events)[i] = IF i <= Len(log) THEN log[i] ELSE events[i - Len(log)]
      /\ DOMAIN log = 1 .. Len(log) /\ Len(log) \in Nat /\ Len(events) \in Nat
      /\ DOMAIN (log \o events) = 1 .. Len(log) + Len(events)
      /\ DOMAIN events = 1 .. Len(events)
  BY ConcatProperties, LenProperties
<1>2. PICK i \in DOMAIN log' \ DOMAIN log : log'[i] = x
  BY DEF Appears
<1>3. i \in 1 .. Len(log) + Len(events) /\ ~(i <= Len(log)) /\ i - Len(log) \in 1 .. Len(events)
  BY <1>1, <1>2
<1> QED
  BY <1>1, <1>2, <1>3

(* A handler after which SCM_PR_CREATED appears has emitted it itself.     *)
LEMMA HandledAppends ==
  ASSUME TypeOK, NEW p, NEW e, NEW s, NEW emitted \in Seq(EventType), Handled(p, e, s, emitted),
         Appears("SCM_PR_CREATED")
  PROVE  \E k \in DOMAIN emitted : emitted[k] = "SCM_PR_CREATED"
<1>1. CASE log' = log \o emitted
  BY <1>1, Appended DEF TypeOK
<1>2. CASE log' = log \o Append(emitted, "SESSION_COMPLETED")
  <2> DEFINE events == Append(emitted, "SESSION_COMPLETED")
  <2>1. /\ events \in Seq(EventType) /\ DOMAIN emitted = 1 .. Len(emitted)
        /\ Len(emitted) \in Nat /\ DOMAIN events = 1 .. Len(emitted) + 1
        /\ \A k \in 1 .. Len(emitted) : events[k] = emitted[k]
        /\ events[Len(emitted) + 1] = "SESSION_COMPLETED"
    BY NamedEvents, AppendProperties, LenProperties
  <2> HIDE DEF events
  <2>2. PICK k \in DOMAIN events : events[k] = "SCM_PR_CREATED"
    BY <1>2, <2>1, Appended DEF TypeOK, events
  <2>3. k \in 1 .. Len(emitted)
    BY <2>1, <2>2
  <2> QED
    BY <2>1, <2>2, <2>3
<1> QED
  BY <1>1, <1>2 DEF Handled, CompletedWith

(* With TESTING and REVIEW in the workflow, whatever it is otherwise: when *)
(* a session that is started once opens a pull request, all that it has    *)
(* implemented has passed a test and then a review since.                  *)
THEOREM PublishedWasReviewed ==
  ASSUME NEW p, OneRun(p), IsStepEnabled("TESTING"), IsStepEnabled("REVIEW")
  PROVE  Spec => PublishOnlyReviewed
<1>1. TokenTells(p) /\ [Next]_vars => (Appears("SCM_PR_CREATED") => Reviewed)
  <2> SUFFICES ASSUME TokenTells(p), [Next]_vars, Appears("SCM_PR_CREATED") PROVE Reviewed
    OBVIOUS
  <2>1. OneInHandInv(p) /\ Implemented(p) /\ Tested(p) /\ TypeOK /\ Processes = {p}
    BY DEF TokenTells, OneInHandInv, IInv, OneRun
  <2>2. ASSUME "REVIEW_COMPLETED" \in Due(p) PROVE Reviewed
    <3> DEFINE r == Len(tasks)
               v == Len(tasks) - 1
    <3>1. Is(r, "REVIEW") /\ Is(v, "TEST") /\ AllDone("IMPLEMENT")
      BY <2>1, <2>2 DEF Tested, Implemented
    <3>2. /\ DOMAIN tasks = 1 .. Len(tasks) /\ Len(tasks) \in Nat
          /\ \A t \in DOMAIN tasks : tasks[t].type = "IMPLEMENT" => tasks[t].status = "DONE"
      BY <2>1, <3>1, Numbers
    <3>3. v \in Ids("TEST") /\ r \in Ids("REVIEW") /\ v < r
          /\ tasks[v].status = "DONE" /\ tasks[r].status = "DONE"
      BY <3>1, <3>2 DEF Is, Ids
    <3>4. ASSUME NEW t \in Ids("IMPLEMENT") PROVE t < v /\ tasks[t].status = "DONE"
      <4>1. t \in DOMAIN tasks /\ tasks[t].type = "IMPLEMENT" /\ t # r /\ t # v
        BY <3>1 DEF Ids, Is
      <4> QED
        BY <3>2, <4>1
    <3> HIDE DEF r, v
    <3> QED
      BY <3>3, <3>4 DEF Reviewed
  <2>3. ASSUME NEW e \in unhandled[p], HandleEvent(p, e) PROVE Reviewed
    <3>1. CASE Publishes(p, e)
      <4>1. log[e] = "REVIEW_COMPLETED"
        BY <3>1 DEF Publishes, EndsSteps
      <4> QED
        BY <2>2, <2>3, <4>1 DEF Due
    <3>2. ASSUME NEW s, Handled(p, e, s, <<>>) PROVE FALSE
      <4>1. <<>> \in Seq(EventType) /\ DOMAIN <<>> = {}
        OBVIOUS
      <4> QED
        BY <2>1, <3>2, <4>1, HandledAppends
    <3>3. ASSUME NEW s, NEW x \in EventType \ {"SCM_PR_CREATED"}, Handled(p, e, s, <<x>>)
          PROVE  FALSE
      <4>1. <<x>> \in Seq(EventType) /\ DOMAIN <<x>> = {1} /\ <<x>>[1] = x
        OBVIOUS
      <4>2. PICK k \in DOMAIN <<x>> : <<x>>[k] = "SCM_PR_CREATED"
        BY <2>1, <3>3, <4>1, HandledAppends
      <4> QED
        BY <4>1, <4>2
    <3>4. CASE StartsStep(p, e) \/ StartsFix(p, e) \/ Rests(p, e)
      BY <3>2, <3>4 DEF StartsStep, StartsFix, Rests, StartStep, NothingToDo
    <3>5. CASE Prepares(p, e) \/ Completes(p, e)
      BY <3>3, <3>5, NamedEvents DEF Prepares, Completes
    <3> QED
      BY <2>3, <3>1, <3>4, <3>5, HandlerForms
  <2>4. ASSUME NEW x \in EventType \ {"SCM_PR_CREATED"}, Emit(<<x>>) PROVE FALSE
    <3>1. <<x>> \in Seq(EventType) /\ DOMAIN <<x>> = {1} /\ <<x>>[1] = x
      OBVIOUS
    <3>2. PICK k \in DOMAIN <<x>> : <<x>>[k] = "SCM_PR_CREATED"
      BY <2>1, <2>4, <3>1, Appended DEF Emit, TypeOK
    <3> QED
      BY <3>1, <3>2
  <2>5. ASSUME UNCHANGED log PROVE FALSE
    BY <2>5 DEF Appears
  <2>6. ASSUME NEW c \in DOMAIN commands, Execute(p, c) PROVE FALSE
    <3>1. ASSUME NEW x \in EventType, AgentDecides(p, c, x) PROVE FALSE
      <4>1. commands[c].type \in CommandType
        BY <2>1, Numbers
      <4>2. x # "SCM_PR_CREATED"
        BY <3>1, <4>1, Decisions DEF AgentDecides
      <4> QED
        BY <2>4, <3>1, <4>2 DEF AgentDecides
    <3> QED
      BY <2>4, <2>5, <2>6, <3>1, NamedEvents DEF Execute, ClaimCommand, AgentThrows, FinishCommand
  <2>7. CASE StartSession \/ \E x \in Feedback : ReceiveFeedback(x)
    BY <2>4, <2>7, NamedEvents, OrchestrationAssumption DEF StartSession, ReceiveFeedback
  <2>8. CASE UNCHANGED vars
    BY <2>5, <2>8 DEF vars
  <2> QED
    BY <2>1, <2>3, <2>6, <2>7, <2>8 DEF Next
<1>2. TokenTells(p) /\ [Next]_vars => [Appears("SCM_PR_CREATED") => Reviewed]_vars
  BY <1>1
<1> QED
  BY <1>2, TokenAlways, PTL DEF Spec, PublishOnlyReviewed
-----------------------------------------------------------------------------
(***************************************************************************)
(* What a session that is completed by PUBLISH has behind it.              *)
(***************************************************************************)
PublishIsLast == Steps # <<>> /\ Steps[Len(Steps)] = "PUBLISH"

Published(p) ==
  /\ "SCM_PR_CREATED" \in Due(p) => remotePr /\ scm.pr /\ bound
  /\ status = "COMPLETED" =>
       /\ remotePr /\ scm.pr /\ bound
       /\ ActiveCommands = {} /\ Due(p) = {}
       /\ \A t \in DOMAIN tasks : Closed(t)

(* Then it is SCM_PR_CREATED that completes the session.                   *)
LEMMA LastIsPublish ==
  ASSUME PublishIsLast
  PROVE  /\ IsStepEnabled("PUBLISH")
         /\ \A x, s : StatusAfter(x, s) = IF x = "SCM_PR_CREATED" THEN "COMPLETED" ELSE s
<1>1. Len(Steps) \in DOMAIN Steps
  <2>1. Len(Steps) \in Nat /\ DOMAIN Steps = 1 .. Len(Steps)
    BY WorkflowAssumption, LenProperties
  <2>2. Len(Steps) # 0
    BY WorkflowAssumption, EmptySeq DEF PublishIsLast
  <2> QED
    BY <2>1, <2>2
<1>2. STEP_COMPLETION_EVENTS("PUBLISH") = "SCM_PR_CREATED"
  BY DEF STEP_COMPLETION_EVENTS
<1>3. IsStepEnabled("PUBLISH")
  BY <1>1 DEF PublishIsLast, IsStepEnabled, Range
<1>4. \A x : CompletesSession(x) <=> x = "SCM_PR_CREATED"
  BY <1>2 DEF PublishIsLast, CompletesSession, IsLastEnabledTransition
<1> QED
  BY <1>3, <1>4 DEF StatusAfter

(* Every step keeps that a publication follows a passed test or review.    *)
LEMMA PublishedNext ==
  ASSUME NEW p, OneRun(p), PublishIsLast, TokenTells(p), Published(p), [Next]_vars
  PROVE  Published(p)'
<1>1. OneInHandInv(p) /\ Unfinished(p) /\ TypeOK
  BY DEF TokenTells, OneInHandInv, IInv
<1>2. /\ IsStepEnabled("PUBLISH")
      /\ \A x, s : StatusAfter(x, s) = IF x = "SCM_PR_CREATED" THEN "COMPLETED" ELSE s
  BY LastIsPublish
<1>3. /\ \A x : NowDue(p, x) => Due(p)' = IF x \in EnabledTransitions THEN {x} ELSE {}
      /\ NothingDue(p) => Due(p)' = {}
      /\ LogKept /\ unhandled'[p] = unhandled[p] => Due(p)' = Due(p)
      /\ UNCHANGED <<log, unhandled>> => Due(p)' = Due(p)
      /\ \A e \in unhandled[p] : Handles(p, e) => Due(p) = {log[e]}
  BY <1>1, DueAfter
<1>4. CASE UNCHANGED vars
  BY <1>4 DEF vars, Published, ActiveCommands, Due, Closed
<1>5. ASSUME NEW e \in unhandled[p], Handles(p, e) PROVE Published(p)'
  <2>1. ActiveCommands = {} /\ Due(p) = {log[e]} /\ status # "COMPLETED"
    BY <1>3, <1>5 DEF Handles, Published
  <2>2. CASE StepMove(p, e)
    BY <1>2, <1>3, <2>1, <2>2 DEF StepMove, Follows, Published
  <2>3. CASE PrepareMove(p, e)
    BY <1>2, <1>3, <2>1, <2>3 DEF PrepareMove, Published
  <2>4. CASE PublishMove(p, e)
    <3>1. status' # "COMPLETED"
      BY <1>2, <2>1, <2>4 DEF PublishMove, EndsSteps
    <3>2. "SCM_PR_CREATED" \in Due(p)' => remotePr' /\ scm'.pr /\ bound'
      <4>1. CASE scm' = [scm EXCEPT !.pr = TRUE] /\ remotePr' = TRUE /\ bound' = TRUE
        <5>1. scm \in [repository : BOOLEAN, workspace : BOOLEAN, pr : BOOLEAN]
          BY <1>1 DEF TypeOK
        <5>2. scm'.pr = TRUE
          BY <4>1, <5>1
        <5> QED
          BY <4>1, <5>2
      <4>2. CASE NothingDue(p) \/ NowDue(p, "SCM_PUBLISH_FAILED")
        <5>1. Due(p)' \subseteq {"SCM_PUBLISH_FAILED"}
          BY <1>3, <4>2
        <5> QED
          BY <5>1
      <4> QED
        BY <2>4, <4>1, <4>2 DEF PublishMove
    <3> QED
      BY <3>1, <3>2 DEF Published
  <2>5. CASE RestMove(p, e)
    <3>1. Due(p)' = {} /\ UNCHANGED <<scm, remotePr, bound, tasks, commands>>
      BY <1>3, <2>5 DEF RestMove, sessionVars
    <3>2. ActiveCommands' = {}
      BY <1>1, <1>5, <3>1, HandledActive
    <3>3. status' = "COMPLETED" => log[e] = "SCM_PR_CREATED"
      BY <1>2, <2>1, <2>5 DEF RestMove
    <3>4. log[e] = "SCM_PR_CREATED" => \A t \in DOMAIN tasks : Closed(t)
      BY <1>1, <2>1 DEF Unfinished
    <3> QED
      BY <2>1, <3>1, <3>2, <3>3, <3>4 DEF Published, Closed
  <2> QED
    BY <1>5, <2>2, <2>3, <2>4, <2>5 DEF Handles
<1>6. ASSUME NEW c \in DOMAIN commands,
             \/ ClaimMove(p, c) \/ ThrowMove(p, c) \/ FinishMove(p, c)
             \/ \E x \in EventType : DecideMove(p, c, x)
      PROVE  Published(p)'
  <2>1. UNCHANGED <<status, scm, remotePr, bound>>
    BY <1>6 DEF ClaimMove, ThrowMove, FinishMove, DecideMove, sessionVars
  <2>2. CASE FinishMove(p, c)
    BY <1>3, <2>1, <2>2 DEF FinishMove, Published, Closed
  <2>3. CASE ClaimMove(p, c) \/ ThrowMove(p, c) \/ \E x \in EventType : DecideMove(p, c, x)
    <3>1. c \in ActiveCommands
      BY <2>3 DEF ClaimMove, ThrowMove, DecideMove, ActiveCommands
    <3>2. status # "COMPLETED"
      BY <3>1 DEF Published
    <3>3. "SCM_PR_CREATED" \notin Due(p)'
      <4>1. Due(p) = {}
        BY <1>1, <3>1 DEF OneInHandInv, OneInHand, Due
      <4>2. CASE ClaimMove(p, c)
        BY <1>3, <4>1, <4>2 DEF ClaimMove
      <4>3. CASE ThrowMove(p, c)
        BY <1>3, <4>3 DEF ThrowMove
      <4>4. ASSUME NEW x \in EventType, DecideMove(p, c, x) PROVE "SCM_PR_CREATED" \notin Due(p)'
        <5>1. commands[c].type \in CommandType
          BY <1>1, Numbers
        <5>2. x # "SCM_PR_CREATED"
          BY <4>4, <5>1, Decisions DEF DecideMove
        <5> QED
          BY <1>3, <4>4, <5>2 DEF DecideMove
      <4> QED
        BY <2>3, <4>2, <4>3, <4>4
    <3> QED
      BY <2>1, <3>2, <3>3 DEF Published
  <2> QED
    BY <1>6, <2>2, <2>3
<1>7. CASE StartMove(p)
  BY <1>3, <1>7, Transitions DEF StartMove, Published
<1>8. CASE FeedbackMove(p)
  BY <1>3, <1>8 DEF FeedbackMove, Published, sessionVars, Closed
<1>9. CASE Next
  BY <1>1, <1>5, <1>6, <1>7, <1>8, <1>9, Moves DEF Move
<1> QED
  BY <1>4, <1>9
-----------------------------------------------------------------------------
(***************************************************************************)
(* Why a session never comes to rest while it is RUNNING.  The workflow    *)
(* closes: each step is followed by one that is in it, up to PUBLISH,      *)
(* which is last.  The surroundings are smooth: there is a repository, its *)
(* workspace can be prepared, and every publication has changes or fails.  *)
(***************************************************************************)
Closes ==
  /\ PublishIsLast /\ IsStepEnabled("PREPARE")
  /\ IsStepEnabled("REACT") \/ IsStepEnabled("PLANNING")
  /\ IsStepEnabled("PLANNING") \/ IsStepEnabled("TESTING") \/ IsStepEnabled("REVIEW") =>
       IsStepEnabled("IMPLEMENTATION")
  /\ RetryOff = {}

Smooth ==
  Repository \subseteq {TRUE} /\ PrepareMayFail = FALSE /\ "unchanged" \notin PublishOutcomes

(* The step that a command of each type is a part of.                      *)
StepEnabledOf(type) ==
  /\ type = "PLAN" => IsStepEnabled("PLANNING")
  /\ type \in {"GENERATE", "FIX"} => IsStepEnabled("IMPLEMENTATION")
  /\ type = "REACT" => IsStepEnabled("REACT")
  /\ type = "VERIFY" => IsStepEnabled("TESTING")
  /\ type = "REVIEW" => IsStepEnabled("REVIEW")

Moving(p) ==
  /\ status = "RUNNING" => ActiveCommands # {} \/ Due(p) # {}
  /\ scm.repository
  /\ ~scm.workspace => commands = <<>> /\ Due(p) \subseteq {"SESSION_STARTED"}
  /\ \A c \in DOMAIN commands : StepEnabledOf(commands[c].type)

(* What an agent decides is a transition of the workflow.                  *)
LEMMA DecisionsAreTransitions ==
  ASSUME RetryOff = {}, NEW type \in CommandType, StepEnabledOf(type),
         NEW x \in DecisionEvents(type)
  PROVE  x \in EnabledTransitions
BY Decisions, Transitions DEF StepEnabledOf

(* And a handler makes something of it: it goes on or ends the session.    *)
LEMMA NothingIsLost ==
  ASSUME NEW p, OneRun(p), Closes, Smooth, TokenTells(p), Moving(p),
         NEW e \in unhandled[p], Handles(p, e), Unfollowed(log[e])
  PROVE  log[e] = "SCM_PR_CREATED"
<1>1. OneInHandInv(p) /\ Implemented(p)
  BY DEF TokenTells
<1>2. log[e] \in EnabledTransitions /\ Due(p) = {log[e]}
  BY <1>1, DueAfter DEF OneInHandInv, IInv, DueIsTransition, OneRun
<1>3. log[e] # "SESSION_STARTED" => scm.repository /\ scm.workspace
  BY <1>2 DEF Moving
<1>4. IsStepEnabled("PUBLISH")
  BY LastIsPublish DEF Closes
<1>5. ~EndsSteps(log[e])
  <2> SUFFICES ASSUME EndsSteps(log[e]) PROVE FALSE
    OBVIOUS
  <2>1. CanPublish
    BY <1>3, <1>4 DEF EndsSteps, CanPublish
  <2> QED
    BY <2>1 DEF Unfollowed, EndsSteps
<1>6. log[e] # "IMPLEMENT_COMPLETED" \/ AllDone("IMPLEMENT")
  BY <1>1, <1>2 DEF Implemented
<1>7. log[e] = "PLAN_COMPLETED" => IsStepEnabled("IMPLEMENTATION")
  BY <1>2, Transitions DEF Closes
<1>8. log[e] # "SCM_PIPELINE_PASSED"
  BY <1>2, Transitions DEF OneRun
<1>9. scm.repository /\ ~PrepareMayFail /\ (IsStepEnabled("REACT") \/ IsStepEnabled("PLANNING"))
  BY DEF Moving, Smooth, Closes
<1> QED
  BY <1>5, <1>6, <1>7, <1>8, <1>9 DEF Unfollowed

(* Every step leaves something in hand, or the session at its end.         *)
LEMMA MovingNext ==
  ASSUME NEW p, OneRun(p), Closes, Smooth, TokenTells(p), Moving(p), [Next]_vars
  PROVE  Moving(p)'
<1>1. OneInHandInv(p) /\ TypeOK /\ OneInHand(p)
  BY DEF TokenTells, OneInHandInv, IInv
<1>2. /\ IsStepEnabled("PUBLISH")
      /\ \A x, s : StatusAfter(x, s) = IF x = "SCM_PR_CREATED" THEN "COMPLETED" ELSE s
  BY LastIsPublish DEF Closes
<1>3. /\ \A x : NowDue(p, x) => Due(p)' = IF x \in EnabledTransitions THEN {x} ELSE {}
      /\ NothingDue(p) => Due(p)' = {}
      /\ LogKept /\ unhandled'[p] = unhandled[p] => Due(p)' = Due(p)
      /\ UNCHANGED <<log, unhandled>> => Due(p)' = Due(p)
      /\ \A e \in unhandled[p] : Handles(p, e) => Due(p) = {log[e]}
  BY <1>1, DueAfter
<1>4. {"SESSION_STARTED", "COMMAND_FAILED", "SCM_PUBLISH_FAILED",
       "SCM_WORKSPACE_PREPARED", "SCM_PR_CREATED"} \subseteq EnabledTransitions
  BY <1>2, Transitions DEF Closes
<1>5. CASE UNCHANGED vars
  BY <1>5 DEF vars, Moving, ActiveCommands, Due
<1>6. ASSUME NEW e \in unhandled[p], Handles(p, e) PROVE Moving(p)'
  <2>1. ActiveCommands = {} /\ Due(p) = {log[e]} /\ log[e] \in EnabledTransitions
    BY <1>1, <1>3, <1>6 DEF Handles, OneInHandInv, IInv, DueIsTransition, OneRun
  <2>2. scm \in [repository : BOOLEAN, workspace : BOOLEAN, pr : BOOLEAN]
    BY <1>1 DEF TypeOK
  <2>3. CASE StepMove(p, e)
    <3>1. PICK type \in CommandType : Follows(type, log[e]) /\ Added(type)
      BY <2>3 DEF StepMove
    <3>2. ActiveCommands' # {} /\ Due(p)' = {} /\ UNCHANGED scm
      BY <1>1, <1>3, <1>6, <2>3, <3>1, HandledActive DEF StepMove, sessionVars
    <3>3. log[e] # "SESSION_STARTED"
      BY <3>1 DEF Follows, Closes
    <3>4. scm.workspace /\ scm.repository
      BY <2>1, <3>3 DEF Moving
    <3>5. StepEnabledOf(type)
      <4>1. log[e] \in {"TEST_FAILED", "REVIEW_FAILED"} => IsStepEnabled("IMPLEMENTATION")
        BY <2>1, Transitions DEF Closes
      <4> QED
        BY <3>1, <4>1 DEF Follows, StepEnabledOf
    <3>6. \A c \in DOMAIN commands' : StepEnabledOf(commands'[c].type)
      <4>1. DOMAIN commands' = 1 .. Len(commands) + 1 /\ DOMAIN commands = 1 .. Len(commands)
            /\ Len(commands) \in Nat
        BY <1>1, <3>1, LenProperties DEF Added, TypeOK
      <4>2. \A c \in DOMAIN commands' : c \in DOMAIN commands \/ c = Len(commands) + 1
        BY <4>1
      <4> QED
        BY <3>1, <3>5, <4>2 DEF Added, Moving
    <3> QED
      BY <3>2, <3>4, <3>6 DEF Moving
  <2>4. CASE PrepareMove(p, e)
    <3>1. scm'.repository /\ scm'.workspace
      BY <2>2, <2>4 DEF PrepareMove
    <3> QED
      BY <1>3, <1>4, <2>4, <3>1 DEF PrepareMove, Moving
  <2>5. CASE PublishMove(p, e)
    <3>1. Due(p)' # {}
      BY <1>3, <1>4, <2>5 DEF PublishMove, Smooth
    <3>2. scm'.repository /\ scm'.workspace
      BY <2>2, <2>5 DEF PublishMove, CanPublish
    <3> QED
      BY <2>5, <3>1, <3>2 DEF PublishMove, Moving
  <2>6. CASE RestMove(p, e)
    <3>1. Unfollowed(log[e]) => log[e] = "SCM_PR_CREATED"
      BY <1>6, NothingIsLost
    <3>2. status' # "RUNNING"
      BY <1>2, <2>6, <3>1 DEF RestMove
    <3>3. Due(p)' = {}
      BY <1>3, <2>6 DEF RestMove
    <3> QED
      BY <2>6, <3>2, <3>3 DEF RestMove, Moving, sessionVars
  <2> QED
    BY <1>6, <2>3, <2>4, <2>5, <2>6 DEF Handles
<1>7. ASSUME NEW c \in DOMAIN commands,
             \/ ClaimMove(p, c) \/ ThrowMove(p, c) \/ FinishMove(p, c)
             \/ \E x \in EventType : DecideMove(p, c, x)
      PROVE  Moving(p)'
  <2>1. UNCHANGED <<status, scm>> /\ commands # <<>> /\ scm.workspace
    BY <1>7 DEF ClaimMove, ThrowMove, FinishMove, DecideMove, sessionVars, Moving
  <2>2. /\ DOMAIN commands' = DOMAIN commands
        /\ \A d \in DOMAIN commands : commands'[d].type = commands[d].type
    BY <1>7 DEF ClaimMove, ThrowMove, FinishMove, DecideMove, Now
  <2>3. \A d \in DOMAIN commands' : StepEnabledOf(commands'[d].type)
    BY <2>2 DEF Moving
  <2>4. CASE ClaimMove(p, c) \/ FinishMove(p, c)
    <3>1. ActiveCommands' = ActiveCommands /\ Due(p)' = Due(p)
      BY <1>3, <2>4 DEF ClaimMove, FinishMove
    <3> QED
      BY <2>1, <2>3, <3>1 DEF Moving
  <2>5. CASE ThrowMove(p, c)
    BY <1>3, <1>4, <2>1, <2>3, <2>5 DEF ThrowMove, Moving
  <2>6. ASSUME NEW x \in EventType, DecideMove(p, c, x) PROVE Moving(p)'
    <3>1. commands[c].type \in CommandType /\ StepEnabledOf(commands[c].type)
      BY <1>1, Numbers DEF Moving
    <3>2. x \in EnabledTransitions
      BY <2>6, <3>1, DecisionsAreTransitions DEF DecideMove, Closes
    <3>3. Due(p)' = {x}
      BY <1>3, <2>6, <3>2 DEF DecideMove
    <3> QED
      BY <2>1, <2>3, <3>3 DEF Moving
  <2> QED
    BY <1>7, <2>4, <2>5, <2>6
<1>8. CASE StartMove(p)
  <2>1. commands = <<>> /\ Due(p)' = {"SESSION_STARTED"}
    BY <1>1, <1>3, <1>4, <1>8 DEF StartMove, OneInHand
  <2> QED
    BY <1>8, <2>1 DEF StartMove, Moving, sessionVars
<1>9. CASE FeedbackMove(p)
  BY <1>3, <1>9 DEF FeedbackMove, Moving, sessionVars
<1>10. CASE Next
  BY <1>1, <1>6, <1>7, <1>8, <1>9, <1>10, Moves DEF Move
<1> QED
  BY <1>5, <1>10

(* So it is in every reachable state.                                      *)
LEMMA MovingAlways ==
  ASSUME NEW p, OneRun(p), Closes, Smooth
  PROVE  Spec => [](TokenTells(p) /\ Moving(p))
<1>1. Init => TokenTells(p) /\ Moving(p)
  <2> SUFFICES ASSUME Init PROVE Moving(p)
    BY TokenInit
  <2>1. status = "CREATED" /\ commands = <<>> /\ unhandled[p] = {}
    BY DEF Init, OneRun
  <2>2. scm.repository
    <3>1. PICK known \in Repository : scm = [repository |-> known, workspace |-> FALSE, pr |-> FALSE]
      BY DEF Init, ScmContext
    <3>2. known = TRUE
      BY DEF Smooth
    <3> QED
      BY <3>1, <3>2
  <2> QED
    BY <2>1, <2>2 DEF Moving, Due
<1>2. (TokenTells(p) /\ Moving(p)) /\ [Next]_vars => (TokenTells(p) /\ Moving(p))'
  BY TokenNext, MovingNext
<1> QED
  BY <1>1, <1>2, PTL DEF Spec

(* A session of a workflow that closes, started once and not reached by    *)
(* feedback, never comes to rest while it is RUNNING.  Each condition is   *)
(* one that the code needs: without it a handler returns, and nothing      *)
(* follows.                                                                *)
THEOREM NeverStranded ==
  ASSUME NEW p, OneRun(p), Closes, Smooth
  PROVE  Spec => []NotStranded
<1>1. Moving(p) => NotStranded
  BY DEF Moving, NotStranded, Quiescent, OneRun, ActiveCommands, Due
<1> QED
  BY <1>1, MovingAlways, PTL

(* The workflows of workflow-config.ts that end in PUBLISH close, but for  *)
(* the one that tests what REACT has done and has no step that fixes it.   *)
LEMMA WorkflowsClose ==
  ASSUME NEW p, Processes = {p}, MaxStarts <= 1, RetryOff = {},
         Steps \in {DefaultWorkflow, ImplementationOnlyWorkflow, ReactWorkflow}
  PROVE  OneRun(p) /\ Closes
<1>1. CASE Steps = DefaultWorkflow
  <2>1. Range(Steps) = {"PREPARE", "PLANNING", "IMPLEMENTATION", "TESTING", "REVIEW", "PUBLISH"}
        /\ Steps # <<>> /\ Steps[Len(Steps)] = "PUBLISH"
    BY <1>1 DEF DefaultWorkflow, Range
  <2> QED
    BY <2>1 DEF OneRun, Closes, IsStepEnabled, PublishIsLast
<1>2. CASE Steps = ImplementationOnlyWorkflow
  <2>1. Range(Steps) = {"PREPARE", "PLANNING", "IMPLEMENTATION", "PUBLISH"}
        /\ Steps # <<>> /\ Steps[Len(Steps)] = "PUBLISH"
    BY <1>2 DEF ImplementationOnlyWorkflow, Range
  <2> QED
    BY <2>1 DEF OneRun, Closes, IsStepEnabled, PublishIsLast
<1>3. CASE Steps = ReactWorkflow
  <2>1. Range(Steps) = {"PREPARE", "REACT", "PUBLISH"}
        /\ Steps # <<>> /\ Steps[Len(Steps)] = "PUBLISH"
    BY <1>3 DEF ReactWorkflow, Range
  <2> QED
    BY <2>1 DEF OneRun, Closes, IsStepEnabled, PublishIsLast
<1> QED
  BY <1>1, <1>2, <1>3
-----------------------------------------------------------------------------
(***************************************************************************)
(* The tasks of a session that goes through PLANNING, IMPLEMENTATION,      *)
(* TESTING and REVIEW: there is one of a type only if there is one of the  *)
(* type before it.                                                         *)
(***************************************************************************)
FourSteps ==
  /\ PublishIsLast /\ ~IsStepEnabled("REACT")
  /\ IsStepEnabled("TESTING") /\ IsStepEnabled("REVIEW")

Has(type) == \E t \in DOMAIN tasks : tasks[t].type = type

Chain(p) ==
  /\ Has("IMPLEMENT") => Has("PLAN")
  /\ Has("TEST") => Has("IMPLEMENT")
  /\ Has("REVIEW") => Has("TEST")
  /\ \A c \in DOMAIN commands : commands[c].type # "REACT"
  /\ "PLAN_COMPLETED" \in Due(p) => Has("PLAN")
  /\ "IMPLEMENT_COMPLETED" \in Due(p) => Has("IMPLEMENT")
  /\ Due(p) \cap {"TEST_PASSED", "TEST_FAILED"} # {} => Has("TEST")
  /\ Due(p) \cap {"REVIEW_COMPLETED", "REVIEW_FAILED", "SCM_PR_CREATED"} # {} => Has("REVIEW")
  /\ status = "COMPLETED" => Has("REVIEW")

(* Every step keeps the chain of completions from the plan to the          *)
(* publication.                                                            *)
LEMMA ChainNext ==
  ASSUME NEW p, OneRun(p), FourSteps, TokenTells(p), Chain(p), [Next]_vars
  PROVE  Chain(p)'
<1>1. OneInHandInv(p) /\ TypeOK /\ OneInHand(p)
  BY DEF TokenTells, OneInHandInv, IInv
<1>2. /\ IsStepEnabled("PUBLISH")
      /\ \A x, s : StatusAfter(x, s) = IF x = "SCM_PR_CREATED" THEN "COMPLETED" ELSE s
  BY LastIsPublish DEF FourSteps
<1>3. /\ \A x : NowDue(p, x) => Due(p)' \subseteq {x}
      /\ NothingDue(p) => Due(p)' = {}
      /\ LogKept /\ unhandled'[p] = unhandled[p] => Due(p)' = Due(p)
      /\ UNCHANGED <<log, unhandled>> => Due(p)' = Due(p)
      /\ \A e \in unhandled[p] : Handles(p, e) => Due(p) = {log[e]}
  BY <1>1, DueAfter
<1>4. /\ Len(tasks) = Len(commands) /\ Len(tasks) \in Nat
      /\ DOMAIN tasks = 1 .. Len(tasks) /\ DOMAIN commands = 1 .. Len(tasks)
      /\ ActiveCommands \subseteq DOMAIN commands
      /\ \A d \in DOMAIN commands : /\ commands[d].type \in CommandType
                                    /\ tasks[d].type = TaskTypeOf(commands[d].type)
  BY <1>1, Numbers
<1>5. CASE UNCHANGED vars
  BY <1>5 DEF vars, Chain, Has, Due
<1>6. ASSUME NEW e \in unhandled[p], Handles(p, e) PROVE Chain(p)'
  <2>1. Due(p) = {log[e]} /\ log[e] \in EnabledTransitions
    BY <1>1, <1>3, <1>6 DEF OneInHandInv, IInv, DueIsTransition, OneRun
  <2>2. CASE StepMove(p, e)
    <3>1. PICK type \in CommandType : Follows(type, log[e]) /\ Added(type) /\ NothingDue(p)
                                      /\ status' = StatusAfter(log[e], status)
      BY <2>2 DEF StepMove
    <3>2. /\ \A x : Has(x)' <=> Has(x) \/ x = TaskTypeOf(type)
          /\ \A c \in DOMAIN commands' : c \in DOMAIN commands \/ c = Len(commands) + 1
      <4>1. /\ DOMAIN tasks' = 1 .. Len(tasks) + 1 /\ DOMAIN commands' = 1 .. Len(tasks) + 1
            /\ \A t \in 1 .. Len(tasks) : tasks'[t] = tasks[t]
            /\ tasks'[Len(tasks) + 1].type = TaskTypeOf(type)
        BY <1>4, <3>1 DEF Added
      <4>2. \A t \in 1 .. Len(tasks) + 1 : t \in 1 .. Len(tasks) \/ t = Len(tasks) + 1
        BY <1>4
      <4> QED
        BY <1>4, <4>1, <4>2 DEF Has
    <3>3. type # "REACT"
      BY <3>1 DEF Follows, FourSteps
    <3>4. \A c \in DOMAIN commands' : commands'[c].type # "REACT"
      BY <3>1, <3>2, <3>3 DEF Added, Chain
    <3>5. /\ type = "GENERATE" => Has("PLAN")
          /\ type = "FIX" => Has("IMPLEMENT")
          /\ type = "VERIFY" => Has("IMPLEMENT")
          /\ type = "REVIEW" => Has("TEST")
      <4>1. log[e] # "REACT_COMPLETED"
        BY <2>1, Transitions DEF FourSteps
      <4> QED
        BY <2>1, <3>1, <4>1 DEF Follows, Chain
    <3>6. Due(p)' = {} /\ status' = status
      BY <1>2, <1>3, <3>1 DEF Follows
    <3>7. \/ type = "PLAN" /\ TaskTypeOf(type) = "PLAN"
          \/ type \in {"GENERATE", "FIX"} /\ TaskTypeOf(type) = "IMPLEMENT"
          \/ type = "VERIFY" /\ TaskTypeOf(type) = "TEST"
          \/ type = "REVIEW" /\ TaskTypeOf(type) = "REVIEW"
      BY <3>3, TaskTypes DEF CommandType
    <3> QED
      BY <3>2, <3>4, <3>5, <3>6, <3>7 DEF Chain
  <2>3. CASE PrepareMove(p, e) \/ PublishMove(p, e) \/ RestMove(p, e)
    <3>0. UNCHANGED <<tasks, commands>>
      BY <2>3 DEF PrepareMove, PublishMove, RestMove
    <3>1. \A x : Has(x)' <=> Has(x)
      BY <3>0 DEF Has
    <3>2. /\ Due(p)' \subseteq {"SCM_WORKSPACE_PREPARED", "SCM_PR_CREATED", "SCM_PUBLISH_FAILED"}
          /\ "SCM_PR_CREATED" \in Due(p)' => EndsSteps(log[e])
      <4>1. CASE PublishMove(p, e)
        <5>1. EndsSteps(log[e])
          BY <4>1 DEF PublishMove
        <5>2. NothingDue(p) \/ NowDue(p, "SCM_PR_CREATED") \/ NowDue(p, "SCM_PUBLISH_FAILED")
          BY <4>1 DEF PublishMove
        <5>3. Due(p)' \subseteq {"SCM_PR_CREATED", "SCM_PUBLISH_FAILED"}
          BY <1>3, <5>2
        <5> QED
          BY <5>1, <5>3
      <4>2. CASE PrepareMove(p, e)
        <5>1. Due(p)' \subseteq {"SCM_WORKSPACE_PREPARED"}
          BY <1>3, <4>2 DEF PrepareMove
        <5> QED
          BY <5>1
      <4>3. CASE RestMove(p, e)
        BY <1>3, <4>3 DEF RestMove
      <4> QED
        BY <2>3, <4>1, <4>2, <4>3
    <3>3. EndsSteps(log[e]) => Has("REVIEW")
      <4>1. log[e] # "REACT_COMPLETED"
        BY <2>1, Transitions DEF FourSteps
      <4> QED
        BY <2>1, <4>1 DEF EndsSteps, FourSteps, Chain
    <3>4. status' = "COMPLETED" => Has("REVIEW")
      <4>1. status' = "COMPLETED" => status = "COMPLETED" \/ log[e] = "SCM_PR_CREATED"
        BY <1>2, <2>3 DEF PrepareMove, PublishMove, RestMove, EndsSteps
      <4> QED
        BY <2>1, <4>1 DEF Chain
    <3> QED
      BY <3>0, <3>1, <3>2, <3>3, <3>4 DEF Chain
  <2> QED
    BY <1>6, <2>2, <2>3 DEF Handles
<1>7. ASSUME NEW c \in DOMAIN commands,
             \/ ClaimMove(p, c) \/ ThrowMove(p, c) \/ FinishMove(p, c)
             \/ \E x \in EventType : DecideMove(p, c, x)
      PROVE  Chain(p)'
  <2>1. /\ DOMAIN commands' = DOMAIN commands /\ status' = status
        /\ \A d \in DOMAIN commands : commands'[d].type = commands[d].type
        /\ DOMAIN tasks' = DOMAIN tasks
        /\ \A t \in DOMAIN tasks : tasks'[t].type = tasks[t].type
    BY <1>4, <1>7 DEF ClaimMove, ThrowMove, FinishMove, DecideMove, Now, Marked
  <2>2. \A x : Has(x)' <=> Has(x)
    BY <2>1 DEF Has
  <2>3. CASE ClaimMove(p, c) \/ FinishMove(p, c)
    <3>1. Due(p)' = Due(p)
      BY <1>3, <2>3 DEF ClaimMove, FinishMove
    <3> QED
      BY <2>1, <2>2, <3>1 DEF Chain
  <2>4. CASE ThrowMove(p, c)
    <3>1. Due(p)' \subseteq {"COMMAND_FAILED"}
      BY <1>3, <2>4 DEF ThrowMove
    <3> QED
      BY <2>1, <2>2, <3>1 DEF Chain
  <2>5. ASSUME NEW x \in EventType, DecideMove(p, c, x) PROVE Chain(p)'
    <3>1. Due(p)' \subseteq {x} /\ x \in DecisionEvents(commands[c].type)
      BY <1>3, <2>5 DEF DecideMove
    <3>2. Has(TaskTypeOf(commands[c].type)) /\ commands[c].type # "REACT"
      BY <1>4 DEF Has, Chain
    <3> DEFINE type == commands[c].type
    <3>3. \/ type = "PLAN" /\ x = "PLAN_COMPLETED"
          \/ type \in {"GENERATE", "FIX"} /\ x = "IMPLEMENT_COMPLETED"
          \/ type = "REACT" /\ x = "REACT_COMPLETED"
          \/ type = "VERIFY" /\ x \in {"TEST_PASSED", "TEST_FAILED"}
          \/ type = "REVIEW" /\ x \in {"REVIEW_COMPLETED", "REVIEW_FAILED"}
      BY <1>4, <3>1, Decisions
    <3>4. Has(TaskTypeOf(type)) /\ type # "REACT"
      BY <3>2
    <3> HIDE DEF type
    <3>5. /\ x = "PLAN_COMPLETED" => Has("PLAN")
          /\ x = "IMPLEMENT_COMPLETED" => Has("IMPLEMENT")
          /\ x \in {"TEST_PASSED", "TEST_FAILED"} => Has("TEST")
          /\ x \in {"REVIEW_COMPLETED", "REVIEW_FAILED"} => Has("REVIEW")
          /\ x # "SCM_PR_CREATED"
      BY <3>3, <3>4, TaskTypes
    <3> QED
      BY <2>1, <2>2, <3>1, <3>5 DEF Chain
  <2> QED
    BY <1>7, <2>3, <2>4, <2>5
<1>8. CASE StartMove(p)
  <2>1. /\ Due(p)' \subseteq {"SESSION_STARTED"} /\ status' = "RUNNING"
        /\ UNCHANGED <<tasks, commands>>
    BY <1>3, <1>8 DEF StartMove
  <2>2. \A x : Has(x)' <=> Has(x)
    BY <2>1 DEF Has
  <2> QED
    BY <2>1, <2>2 DEF Chain
<1>9. CASE FeedbackMove(p)
  <2>1. Due(p)' = Due(p) /\ UNCHANGED <<status, tasks, commands>>
    BY <1>3, <1>9 DEF FeedbackMove
  <2>2. \A x : Has(x)' <=> Has(x)
    BY <2>1 DEF Has
  <2> QED
    BY <2>1, <2>2 DEF Chain
<1>10. CASE Next
  BY <1>1, <1>6, <1>7, <1>8, <1>9, <1>10, Moves DEF Move
<1> QED
  BY <1>5, <1>10

(* The view has come to the last step when a task of every type is there,  *)
(* and each of them is done.                                               *)
LEMMA CurrentStepCompleted ==
  ASSUME NEW list, \A t \in DOMAIN list : list[t].type \in TaskType,
         \A type \in TaskType : \E t \in DOMAIN list : list[t].type = type
  PROVE  GetCurrentStep(list) = "COMPLETED" <=> \A t \in DOMAIN list : list[t].status = "DONE"
<1> DEFINE Own(k) == { t \in DOMAIN list : list[t].type = STEP_ORDER[k] }
           todo == { k \in DOMAIN STEP_ORDER :
                       Own(k) = {} \/ \E t \in Own(k) : list[t].status # "DONE" }
           least == CHOOSE k \in todo : \A j \in todo : k <= j
<1>1. GetCurrentStep(list) = IF todo = {} THEN "COMPLETED" ELSE STEP_ORDER[least]
  BY DEF GetCurrentStep
<1>2. /\ DOMAIN STEP_ORDER = {1, 2, 3, 4}
      /\ \A k \in {1, 2, 3, 4} : STEP_ORDER[k] \in TaskType /\ STEP_ORDER[k] # "COMPLETED"
      /\ \A type \in TaskType : \E k \in {1, 2, 3, 4} : STEP_ORDER[k] = type
  <2>1. /\ DOMAIN STEP_ORDER = {1, 2, 3, 4}
        /\ STEP_ORDER[1] = "PLAN" /\ STEP_ORDER[2] = "IMPLEMENT"
        /\ STEP_ORDER[3] = "TEST" /\ STEP_ORDER[4] = "REVIEW"
    BY DEF STEP_ORDER
  <2> QED
    BY <2>1 DEF TaskType
<1>3. todo = {} <=> \A t \in DOMAIN list : list[t].status = "DONE"
  <2>1. \A k \in DOMAIN STEP_ORDER : Own(k) # {}
    BY <1>2
  <2>2. \A t \in DOMAIN list : \E k \in DOMAIN STEP_ORDER : t \in Own(k)
    BY <1>2
  <2>3. \A k \in DOMAIN STEP_ORDER : Own(k) \subseteq DOMAIN list
    OBVIOUS
  <2> HIDE DEF Own
  <2> QED
    BY <2>1, <2>2, <2>3
<1>4. todo # {} => STEP_ORDER[least] # "COMPLETED"
  <2> SUFFICES ASSUME todo # {} PROVE STEP_ORDER[least] # "COMPLETED"
    OBVIOUS
  <2>1. todo \subseteq {1, 2, 3, 4}
    BY <1>2
  <2> HIDE DEF todo
  <2>2. \E k \in todo : \A j \in todo : k <= j
    <3>1. CASE 1 \in todo
      BY <2>1, <3>1
    <3>2. CASE 1 \notin todo /\ 2 \in todo
      BY <2>1, <3>2
    <3>3. CASE 1 \notin todo /\ 2 \notin todo /\ 3 \in todo
      BY <2>1, <3>3
    <3>4. CASE 1 \notin todo /\ 2 \notin todo /\ 3 \notin todo
      <4>1. todo = {4}
        BY <2>1, <3>4
      <4> QED
        BY <4>1
    <3> QED
      BY <3>1, <3>2, <3>3, <3>4
  <2>3. least \in todo
    BY <2>2
  <2> HIDE DEF least
  <2> QED
    BY <1>2, <2>1, <2>3
<1> HIDE DEF todo, least
<1> QED
  BY <1>1, <1>3, <1>4

(* And it tells 100 percent when every task is done.                       *)
LEMMA ProgressOfDone ==
  ASSUME NEW S, NEW list \in Seq(S), list # <<>>,
         \A t \in DOMAIN list : list[t].status = "DONE"
  PROVE  GetProgress(list) = 100
<1>1. Len(list) \in Nat /\ Len(list) # 0 /\ DOMAIN list = 1 .. Len(list)
  BY LenProperties, EmptySeq
<1>2. { t \in DOMAIN list : list[t].status = "DONE" } = 1 .. Len(list)
  BY <1>1
<1>3. Cardinality(1 .. Len(list)) = Len(list)
  BY <1>1, FS_Interval
<1>4. GetProgress(list) = (200 * Len(list) + Len(list)) \div (2 * Len(list))
  BY <1>2, <1>3 DEF GetProgress
<1>5. \A n \in Nat : n # 0 => (200 * n + n) \div (2 * n) = 100
  OBVIOUS
<1> QED
  BY <1>1, <1>4, <1>5

(* What a session that PUBLISH has completed tells is so, whatever the     *)
(* tests and reviews before it: it knows a pull request that the provider  *)
(* holds and the webhooks find, and its view is at the end unless a task   *)
(* of it has failed.                                                       *)
THEOREM CompletedTellsTheTruth ==
  ASSUME NEW p, OneRun(p), FourSteps
  PROVE  Spec => []CompletedIsPublished
<1> DEFINE I == TokenTells(p) /\ Published(p) /\ Chain(p)
<1>1. Init => I
  <2> SUFFICES ASSUME Init PROVE Published(p) /\ Chain(p)
    BY TokenInit
  <2>1. status = "CREATED" /\ tasks = <<>> /\ commands = <<>> /\ unhandled[p] = {}
    BY DEF Init, OneRun
  <2> QED
    BY <2>1 DEF Published, Chain, Has, Due
<1>2. I /\ [Next]_vars => I'
  BY TokenNext, PublishedNext, ChainNext DEF FourSteps
<1>3. I => CompletedIsPublished
  <2> SUFFICES ASSUME I, status = "COMPLETED"
               PROVE  /\ remotePr /\ scm.pr /\ bound
                      /\ View.currentStep = "COMPLETED" /\ View.progress = 100 <=>
                           \A t \in DOMAIN tasks : tasks[t].status # "FAILED"
    BY DEF CompletedIsPublished
  <2>1. /\ remotePr /\ scm.pr /\ bound
        /\ \A t \in DOMAIN tasks : Closed(t)
    BY DEF Published
  <2>2. tasks \in Seq(Task)
    BY DEF TokenTells, OneInHandInv, IInv, TypeOK
  <2>3. \A t \in DOMAIN tasks : tasks[t].type \in TaskType
    <3>1. \A t \in DOMAIN tasks : tasks[t] \in Task
      BY <2>2, LenProperties, ElementOfSeq
    <3> QED
      BY <3>1 DEF Task
  <2>4. \A type \in TaskType : \E t \in DOMAIN tasks : tasks[t].type = type
    BY DEF Chain, Has, TaskType
  <2>5. View.currentStep = GetCurrentStep(tasks) /\ View.progress = GetProgress(tasks)
    BY DEF View, BuildSessionView
  <2>6. (\A t \in DOMAIN tasks : tasks[t].status # "FAILED")
          <=> \A t \in DOMAIN tasks : tasks[t].status = "DONE"
    BY <2>1 DEF Closed
  <2>7. tasks # <<>>
    BY <2>4 DEF TaskType
  <2> QED
    BY <2>1, <2>2, <2>3, <2>4, <2>5, <2>6, <2>7, CurrentStepCompleted, ProgressOfDone
<1> QED
  BY <1>1, <1>2, <1>3, PTL DEF Spec

(* The default workflow of workflow-config.ts is one of these.             *)
LEMMA DefaultHasFourSteps ==
  ASSUME Steps = DefaultWorkflow
  PROVE  FourSteps
<1>1. Range(Steps) = {"PREPARE", "PLANNING", "IMPLEMENTATION", "TESTING", "REVIEW", "PUBLISH"}
      /\ Steps # <<>> /\ Steps[Len(Steps)] = "PUBLISH"
  BY DEF DefaultWorkflow, Range
<1> QED
  BY <1>1 DEF FourSteps, PublishIsLast, IsStepEnabled
-----------------------------------------------------------------------------
(***************************************************************************)
(* A workflow whose only work is REACT, followed by PUBLISH alone; any     *)
(* number of processes, of starts and of feedback events.                  *)
(***************************************************************************)
ReactThenPublish ==
  /\ IsStepEnabled("PREPARE") /\ IsStepEnabled("REACT") /\ IsStepEnabled("PUBLISH")
  /\ ~IsStepEnabled("TESTING") /\ ~IsStepEnabled("REVIEW")
  /\ ~IsStepEnabled("SCM_PIPELINE") /\ ~IsStepEnabled("SCM_REVIEW")

OnlyReacts ==
  /\ \A c \in DOMAIN commands : commands[c].type = "REACT"
  /\ \A i \in DOMAIN log : log[i] \notin {"PLAN_COMPLETED", "IMPLEMENT_COMPLETED"}

(* What is worked on has a workspace to be published from.                 *)
HasWorkspace ==
  \/ scm.repository /\ scm.workspace
  \/ /\ commands = <<>>
     /\ \A i \in DOMAIN log : log[i] \notin {"SCM_WORKSPACE_PREPARED", "REACT_COMPLETED"}

PublishedAfter(i) == \E j \in DOMAIN log : i < j /\ log[j] \in PublishEvents

(* A change that is not published yet is due everywhere.                   *)
DueUntilPublished ==
  \A i \in DOMAIN log : log[i] = "REACT_COMPLETED" =>
    PublishedAfter(i) \/ (Processes # {} /\ \A q \in Processes : i \in unhandled[q])

ReactInv == IInv /\ OnlyReacts /\ HasWorkspace /\ DueUntilPublished

(* What the frame of handleEvent appends, and what it leaves due.          *)
AppendsOnly(types) == \A i \in DOMAIN log' \ DOMAIN log : log'[i] \in types

(* What a handler does to the log and to what is due.                      *)
LEMMA HandledLog ==
  ASSUME TypeOK, NEW p, NEW e, NEW s, NEW emitted \in Seq(EventType), Handled(p, e, s, emitted)
  PROVE  /\ LogKept /\ executing' = executing
         /\ AppendsOnly(Range(emitted) \cup {"SESSION_COMPLETED"})
         /\ emitted # <<>> =>
              /\ Len(log) + 1 \in DOMAIN log' /\ log'[Len(log) + 1] = emitted[1]
              /\ \A i \in DOMAIN log : i < Len(log) + 1
         /\ \A q \in Processes : \A i \in unhandled[q] :
              i \in unhandled'[q] \/ (q = p /\ i = e)
<1> DEFINE events == IF CompletesSession(log[e]) THEN CompletedWith(emitted) ELSE emitted
<1>1. /\ log' = log \o events /\ executing' = executing
      /\ \A q \in Processes : unhandled'[q] =
           (unhandled[q] \ (IF q = p THEN {e} ELSE {})) \cup Publication(events)
  BY DEF Handled
<1>2. /\ events \in Seq(EventType) /\ Range(events) \subseteq Range(emitted) \cup {"SESSION_COMPLETED"}
      /\ emitted # <<>> => events # <<>> /\ events[1] = emitted[1]
  <2>1. CASE CompletesSession(log[e])
    <3>1. events = Append(emitted, "SESSION_COMPLETED")
      BY <2>1 DEF CompletedWith
    <3>2. /\ events \in Seq(EventType) /\ Len(events) = Len(emitted) + 1
          /\ \A k \in 1 .. Len(emitted) : events[k] = emitted[k]
          /\ events[Len(emitted) + 1] = "SESSION_COMPLETED"
          /\ Len(emitted) \in Nat /\ DOMAIN emitted = 1 .. Len(emitted)
          /\ DOMAIN events = 1 .. Len(emitted) + 1
      BY <3>1, NamedEvents, AppendProperties, LenProperties
    <3>3. emitted # <<>> => 1 \in 1 .. Len(emitted)
      BY <3>2, EmptySeq
    <3> HIDE DEF events
    <3>4. \A k \in DOMAIN events : k \in DOMAIN emitted \/ k = Len(emitted) + 1
      BY <3>2
    <3> QED
      BY <3>2, <3>3, <3>4, EmptySeq DEF Range
  <2>2. CASE ~CompletesSession(log[e])
    BY <2>2
  <2> QED
    BY <2>1, <2>2
<1> HIDE DEF events
<1>3. /\ LogKept
      /\ events # <<>> => Len(log) + 1 \in DOMAIN log' /\ log'[Len(log) + 1] = events[1]
  BY <1>1, <1>2, LogAppended DEF TypeOK
<1>4. AppendsOnly(Range(events))
  <2> SUFFICES ASSUME NEW i \in DOMAIN log' \ DOMAIN log PROVE log'[i] \in Range(events)
    BY DEF AppendsOnly
  <2>1. Appears(log'[i])
    BY DEF Appears
  <2> QED
    BY <1>1, <1>2, <2>1, Appended DEF TypeOK, Range
<1>5. \A i \in DOMAIN log : i < Len(log) + 1
  BY LenProperties DEF TypeOK
<1> QED
  BY <1>1, <1>2, <1>3, <1>4, <1>5 DEF AppendsOnly

(* What an agent's or the SCM's event does to them.                        *)
LEMMA EmitLog ==
  ASSUME TypeOK, NEW x \in EventType, Emit(<<x>>)
  PROVE  /\ LogKept /\ AppendsOnly({x})
         /\ \A i \in DOMAIN log' \ DOMAIN log : i = Len(log) + 1
         /\ \A q \in Processes : unhandled[q] \subseteq unhandled'[q]
         /\ x \in EnabledTransitions =>
              \A q \in Processes : Len(log) + 1 \in unhandled'[q]
<1>1. /\ log' = log \o <<x>> /\ log \o <<x>> = Append(log, x)
      /\ \A q \in Processes : unhandled'[q] = unhandled[q] \cup Publication(<<x>>)
  BY DEF Emit
<1>3. Publication(<<x>>) = IF x \in EnabledTransitions THEN {Len(log) + 1} ELSE {}
  BY PublicationOf
<1>2. /\ DOMAIN log' = 1 .. Len(log) + 1 /\ DOMAIN log = 1 .. Len(log) /\ Len(log) \in Nat
      /\ \A i \in 1 .. Len(log) : log'[i] = log[i]
      /\ log'[Len(log) + 1] = x
  BY <1>1, AppendProperties, LenProperties DEF TypeOK
<1> QED
  BY <1>1, <1>2, <1>3 DEF LogKept, AppendsOnly

(* What is published stays so, and what is due stays due unless it is      *)
(* published.                                                              *)
LEMMA DueKept ==
  ASSUME DueUntilPublished, LogKept, NEW types, AppendsOnly(types),
         "REACT_COMPLETED" \notin types,
         \A q \in Processes : \A i \in unhandled[q] :
           log[i] = "REACT_COMPLETED" /\ i \notin unhandled'[q] => PublishedAfter(i)'
  PROVE  DueUntilPublished'
<1> SUFFICES ASSUME NEW i \in DOMAIN log', log'[i] = "REACT_COMPLETED"
             PROVE  PublishedAfter(i)' \/ (Processes # {} /\ \A q \in Processes : i \in unhandled'[q])
  BY DEF DueUntilPublished
<1>1. i \in DOMAIN log /\ log[i] = "REACT_COMPLETED"
  BY DEF AppendsOnly, LogKept
<1>2. PublishedAfter(i) => PublishedAfter(i)'
  BY DEF PublishedAfter, LogKept
<1> QED
  BY <1>1, <1>2 DEF DueUntilPublished

(* A handler in a workflow of REACT and publication.                       *)
LEMMA ReactHandles ==
  ASSUME ReactThenPublish, ReactInv, NEW p \in Processes, NEW e \in unhandled[p],
         HandleEvent(p, e)
  PROVE  (OnlyReacts /\ HasWorkspace /\ DueUntilPublished)'
<1>1. TypeOK /\ OnlyReacts /\ HasWorkspace /\ DueUntilPublished
      /\ e \in DOMAIN log /\ log[e] \in EnabledTransitions
  BY DEF ReactInv, IInv, TypeOK, DueIsTransition
<1>2. /\ log[e] \notin {"TEST_PASSED", "TEST_FAILED", "REVIEW_COMPLETED", "REVIEW_FAILED",
                        "SCM_PIPELINE_FAILED", "SCM_REVIEW_COMMENT_ADDED",
                        "PLAN_COMPLETED", "IMPLEMENT_COMPLETED"}
  BY <1>1, Transitions DEF ReactThenPublish, OnlyReacts
<1>3. log[e] \in {"SCM_WORKSPACE_PREPARED", "REACT_COMPLETED"} => scm.repository /\ scm.workspace
  BY <1>1 DEF HasWorkspace
<1>4. scm \in [repository : BOOLEAN, workspace : BOOLEAN, pr : BOOLEAN]
  BY <1>1 DEF TypeOK
<1>5. ASSUME NEW s, NEW types, types \subseteq {"SESSION_COMPLETED", "SCM_WORKSPACE_PREPARED",
               "SCM_PR_CREATED", "SCM_FEEDBACK_SYNCED", "SCM_NO_CHANGES", "SCM_PUBLISH_FAILED"},
             LogKept, AppendsOnly(types)
      PROVE  \A i \in DOMAIN log' : log'[i] \notin {"PLAN_COMPLETED", "IMPLEMENT_COMPLETED"}
  BY <1>1, <1>5 DEF AppendsOnly, LogKept, OnlyReacts
<1>6. ASSUME NEW s, Handled(p, e, s, <<>>), log[e] # "REACT_COMPLETED"
      PROVE  /\ LogKept /\ DueUntilPublished'
             /\ \A i \in DOMAIN log' : log'[i] \notin {"PLAN_COMPLETED", "IMPLEMENT_COMPLETED"}
             /\ HasWorkspace /\ UNCHANGED <<scm, commands>> => HasWorkspace'
  <2>1. /\ LogKept /\ AppendsOnly({"SESSION_COMPLETED"})
        /\ \A q \in Processes : \A i \in unhandled[q] : i \in unhandled'[q] \/ (q = p /\ i = e)
    <3>1. <<>> \in Seq(EventType) /\ Range(<<>>) \cup {"SESSION_COMPLETED"} = {"SESSION_COMPLETED"}
      BY DEF Range
    <3>2. /\ LogKept /\ AppendsOnly(Range(<<>>) \cup {"SESSION_COMPLETED"})
          /\ \A q \in Processes : \A i \in unhandled[q] : i \in unhandled'[q] \/ (q = p /\ i = e)
      BY <1>1, <1>6, <3>1, HandledLog
    <3> QED
      BY <3>1, <3>2
  <2>2. DueUntilPublished'
    BY <1>1, <1>6, <2>1, DueKept
  <2>3. HasWorkspace /\ UNCHANGED <<scm, commands>> => HasWorkspace'
    BY <2>1 DEF HasWorkspace, AppendsOnly, LogKept
  <2> QED
    BY <1>5, <2>1, <2>2, <2>3
<1>7. CASE StartsStep(p, e)
  <2>1. PICK type \in CommandType : Follows(type, log[e]) /\ StartStep(p, e, type, status)
    BY <1>7 DEF StartsStep
  <2>2. type = "REACT" /\ log[e] = "SCM_WORKSPACE_PREPARED"
    BY <1>2, <2>1 DEF Follows, ReactThenPublish
  <2>3. Added(type) /\ Handled(p, e, status, <<>>) /\ UNCHANGED scm
    BY <1>1, <2>1, DispatchAdds DEF StartStep, sessionVars
  <2>4. \A c \in DOMAIN commands' : commands'[c].type = "REACT"
    <3>1. DOMAIN commands' = 1 .. Len(commands) + 1 /\ DOMAIN commands = 1 .. Len(commands)
          /\ Len(commands) \in Nat
      BY <1>1, <2>3, LenProperties DEF Added, TypeOK
    <3>2. \A c \in DOMAIN commands' : c \in DOMAIN commands \/ c = Len(commands) + 1
      BY <3>1
    <3> QED
      BY <1>1, <2>2, <2>3, <3>2 DEF Added, OnlyReacts
  <2>5. HasWorkspace'
    BY <1>3, <2>2, <2>3 DEF HasWorkspace
  <2> QED
    BY <1>6, <2>2, <2>3, <2>4, <2>5 DEF OnlyReacts
<1>8. CASE Rests(p, e)
  <2>1. PICK s : /\ \/ s = "FAILED" /\ log[e] \in {"COMMAND_FAILED", "SCM_PUBLISH_FAILED"}
                    \/ s = status /\ Unfollowed(log[e])
                 /\ NothingToDo(p, e, s)
    BY <1>8 DEF Rests
  <2>2. log[e] # "REACT_COMPLETED"
    BY <1>3, <2>1 DEF Unfollowed, EndsSteps, CanPublish, ReactThenPublish
  <2> QED
    BY <1>1, <1>6, <2>1, <2>2 DEF NothingToDo, sessionVars, OnlyReacts
<1>9. CASE Prepares(p, e)
  <2>1. /\ LogKept /\ AppendsOnly({"SCM_WORKSPACE_PREPARED", "SESSION_COMPLETED"})
        /\ \A q \in Processes : \A i \in unhandled[q] : i \in unhandled'[q] \/ (q = p /\ i = e)
    <3> DEFINE emitted == <<"SCM_WORKSPACE_PREPARED">>
    <3>1. /\ emitted \in Seq(EventType)
          /\ Range(emitted) \cup {"SESSION_COMPLETED"}
               = {"SCM_WORKSPACE_PREPARED", "SESSION_COMPLETED"}
      BY NamedEvents DEF Range
    <3>2. Handled(p, e, status, emitted)
      BY <1>9 DEF Prepares
    <3> HIDE DEF emitted
    <3>3. /\ LogKept /\ AppendsOnly(Range(emitted) \cup {"SESSION_COMPLETED"})
          /\ \A q \in Processes : \A i \in unhandled[q] : i \in unhandled'[q] \/ (q = p /\ i = e)
      BY <1>1, <3>1, <3>2, HandledLog
    <3> QED
      BY <3>1, <3>3
  <2>2. DueUntilPublished'
    BY <1>1, <1>9, <2>1, DueKept DEF Prepares
  <2>3. scm'.repository /\ scm'.workspace /\ UNCHANGED commands
    BY <1>4, <1>9 DEF Prepares
  <2> QED
    BY <1>1, <1>5, <2>1, <2>2, <2>3 DEF OnlyReacts, HasWorkspace
<1>10. CASE Publishes(p, e)
  <2>1. PICK outcome \in PublishOutcomes : Publish(p, e, outcome)
    BY <1>10 DEF Publishes
  <2>2. PICK emitted \in {<<"SCM_PR_CREATED", "SCM_FEEDBACK_SYNCED">>,
                          <<"SCM_NO_CHANGES", "SCM_FEEDBACK_SYNCED">>, <<"SCM_PUBLISH_FAILED">>} :
          Handled(p, e, status, emitted)
    BY <2>1 DEF Publish
  <2>3. /\ emitted \in Seq(EventType) /\ emitted # <<>> /\ emitted[1] \in PublishEvents
        /\ Range(emitted) \subseteq {"SCM_PR_CREATED", "SCM_FEEDBACK_SYNCED", "SCM_NO_CHANGES",
                                     "SCM_PUBLISH_FAILED"}
    <3>1. /\ "SCM_PR_CREATED" \in EventType /\ "SCM_FEEDBACK_SYNCED" \in EventType
          /\ "SCM_NO_CHANGES" \in EventType /\ "SCM_PUBLISH_FAILED" \in EventType
      BY NamedEvents
    <3>2. CASE emitted = <<"SCM_PR_CREATED", "SCM_FEEDBACK_SYNCED">>
      BY <3>1, <3>2 DEF Range, PublishEvents
    <3>3. CASE emitted = <<"SCM_NO_CHANGES", "SCM_FEEDBACK_SYNCED">>
      BY <3>1, <3>3 DEF Range, PublishEvents
    <3>4. CASE emitted = <<"SCM_PUBLISH_FAILED">>
      BY <3>1, <3>4 DEF Range, PublishEvents
    <3> QED
      BY <2>2, <3>2, <3>3, <3>4
  <2>4. /\ LogKept /\ AppendsOnly(Range(emitted) \cup {"SESSION_COMPLETED"})
        /\ Len(log) + 1 \in DOMAIN log' /\ log'[Len(log) + 1] = emitted[1]
        /\ \A i \in DOMAIN log : i < Len(log) + 1
        /\ \A q \in Processes : \A i \in unhandled[q] : i \in unhandled'[q] \/ (q = p /\ i = e)
    BY <1>1, <2>2, <2>3, HandledLog
  <2>5. PublishedAfter(e)'
    BY <1>1, <2>3, <2>4 DEF PublishedAfter
  <2>6. DueUntilPublished'
    BY <1>1, <2>3, <2>4, <2>5, DueKept
  <2>7. scm'.repository /\ scm'.workspace /\ UNCHANGED commands
    BY <1>4, <1>10, <2>1 DEF Publishes, Publish, CanPublish, sessionVars
  <2> QED
    BY <1>1, <1>5, <2>3, <2>4, <2>6, <2>7 DEF OnlyReacts, HasWorkspace
<1> QED
  BY <1>2, <1>7, <1>8, <1>9, <1>10, HandlerForms DEF StartsFix, Completes

(* An agent may only finish a REACT, whose event is then due everywhere.   *)
LEMMA ReactExecutes ==
  ASSUME ReactThenPublish, ReactInv, NEW p \in Processes, NEW c \in DOMAIN commands,
         Execute(p, c)
  PROVE  (OnlyReacts /\ HasWorkspace /\ DueUntilPublished)'
<1>1. TypeOK /\ OnlyReacts /\ HasWorkspace /\ DueUntilPublished
      /\ commands[c].type = "REACT" /\ commands # <<>>
  BY DEF ReactInv, IInv, OnlyReacts
<1>2. scm.repository /\ scm.workspace
  BY <1>1 DEF HasWorkspace
<1>3. ASSUME NEW s, commands' = [commands EXCEPT ![c].status = s]
      PROVE  \A d \in DOMAIN commands' : commands'[d].type = "REACT"
  BY <1>1, <1>3, CommandNow DEF Now, OnlyReacts
<1>4. CASE ClaimCommand(p, c) \/ FinishCommand(p, c)
  <2>1. UNCHANGED <<scm, log, unhandled>>
    BY <1>4 DEF ClaimCommand, FinishCommand, sessionVars
  <2>2. \A d \in DOMAIN commands' : commands'[d].type = "REACT"
    BY <1>3, <1>4 DEF ClaimCommand, FinishCommand
  <2> QED
    BY <1>1, <1>2, <2>1, <2>2 DEF OnlyReacts, HasWorkspace, DueUntilPublished, PublishedAfter
<1>5. CASE AgentThrows(p, c)
  <2>1. /\ LogKept /\ AppendsOnly({"COMMAND_FAILED"})
        /\ \A q \in Processes : unhandled[q] \subseteq unhandled'[q]
    BY <1>1, <1>5, EmitLog, NamedEvents DEF AgentThrows
  <2>2. DueUntilPublished'
    BY <1>1, <2>1, DueKept
  <2>3. UNCHANGED scm /\ \A d \in DOMAIN commands' : commands'[d].type = "REACT"
    BY <1>3, <1>5 DEF AgentThrows, sessionVars
  <2> QED
    BY <1>1, <1>2, <2>1, <2>2, <2>3 DEF OnlyReacts, HasWorkspace, AppendsOnly, LogKept
<1>6. ASSUME NEW x \in EventType, AgentDecides(p, c, x)
      PROVE  (OnlyReacts /\ HasWorkspace /\ DueUntilPublished)'
  <2>1. x = "REACT_COMPLETED"
    BY <1>1, <1>6, Decisions DEF AgentDecides, CommandType
  <2>2. x \in EnabledTransitions
    BY <2>1, Transitions DEF ReactThenPublish
  <2>3. /\ LogKept /\ AppendsOnly({x})
        /\ \A i \in DOMAIN log' \ DOMAIN log : i = Len(log) + 1
        /\ \A q \in Processes : unhandled[q] \subseteq unhandled'[q]
        /\ \A q \in Processes : Len(log) + 1 \in unhandled'[q]
    BY <1>1, <1>6, <2>2, EmitLog DEF AgentDecides
  <2>4. DueUntilPublished'
    <3> SUFFICES ASSUME NEW i \in DOMAIN log', log'[i] = "REACT_COMPLETED"
                 PROVE  \/ PublishedAfter(i)'
                        \/ Processes # {} /\ \A q \in Processes : i \in unhandled'[q]
      BY DEF DueUntilPublished
    <3>1. CASE i \in DOMAIN log
      <4>1. log[i] = "REACT_COMPLETED"
        BY <2>3, <3>1 DEF LogKept
      <4>2. PublishedAfter(i) => PublishedAfter(i)'
        BY <2>3 DEF PublishedAfter, LogKept
      <4> QED
        BY <1>1, <2>3, <3>1, <4>1, <4>2 DEF DueUntilPublished
    <3>2. CASE i \notin DOMAIN log
      BY <2>3, <3>2
    <3> QED
      BY <3>1, <3>2
  <2>5. UNCHANGED <<scm, commands>>
    BY <1>6 DEF AgentDecides, sessionVars
  <2> QED
    BY <1>1, <1>2, <2>1, <2>3, <2>4, <2>5 DEF OnlyReacts, HasWorkspace, AppendsOnly, LogKept
<1> QED
  BY <1>4, <1>5, <1>6 DEF Execute

(* Every step of such a workflow keeps its invariant.                      *)
LEMMA ReactNext ==
  ASSUME ReactThenPublish, ReactInv, [Next]_vars
  PROVE  ReactInv'
<1>1. IInv /\ TypeOK /\ OnlyReacts /\ HasWorkspace /\ DueUntilPublished
  BY DEF ReactInv, IInv
<1>2. IInv'
  BY <1>1, NextIInv
<1>3. SUFFICES (OnlyReacts /\ HasWorkspace /\ DueUntilPublished)'
  BY <1>2 DEF ReactInv
<1>4. CASE UNCHANGED vars
  BY <1>1, <1>4 DEF vars, OnlyReacts, HasWorkspace, DueUntilPublished, PublishedAfter
<1>5. CASE StartSession \/ \E x \in Feedback : ReceiveFeedback(x)
  <2>1. PICK x \in {"SESSION_STARTED", "SCM_PIPELINE_FAILED", "SCM_PIPELINE_PASSED",
                    "SCM_REVIEW_COMMENT_ADDED"} : Emit(<<x>>) /\ x \in EventType
    BY <1>5, NamedEvents, OrchestrationAssumption DEF StartSession, ReceiveFeedback
  <2>2. /\ LogKept /\ AppendsOnly({x})
        /\ \A q \in Processes : unhandled[q] \subseteq unhandled'[q]
    BY <1>1, <2>1, EmitLog
  <2>3. DueUntilPublished'
    BY <1>1, <2>1, <2>2, DueKept
  <2>4. UNCHANGED <<scm, commands>>
    BY <1>5 DEF StartSession, ReceiveFeedback, sessionVars
  <2> QED
    BY <1>1, <2>1, <2>2, <2>3, <2>4 DEF OnlyReacts, HasWorkspace, AppendsOnly, LogKept
<1> QED
  BY <1>4, <1>5, ReactHandles, ReactExecutes DEF Next

(* In a workflow of REACT and PUBLISH, whatever processes listen, however  *)
(* often the session is started, whether the workspace can be prepared and *)
(* whatever publishing comes to: no change is left in the worktree of a    *)
(* session that has come to rest.                                          *)
THEOREM ReactIsPublished ==
  ASSUME ReactThenPublish
  PROVE  Spec => []NoWorkLeftBehind
<1>1. Init => ReactInv
  <2> SUFFICES ASSUME Init PROVE ReactInv
    OBVIOUS
  <2>1. commands = <<>> /\ log = <<>>
    BY DEF Init
  <2> QED
    BY <2>1, InitIInv DEF ReactInv, OnlyReacts, HasWorkspace, DueUntilPublished
<1>2. ReactInv /\ [Next]_vars => ReactInv'
  BY ReactNext
<1>3. ReactInv => NoWorkLeftBehind
  BY DEF ReactInv, OnlyReacts, DueUntilPublished, NoWorkLeftBehind, PublishedAfter, Quiescent
<1> QED
  BY <1>1, <1>2, <1>3, PTL DEF Spec

(* The React workflow of workflow-config.ts is such a workflow.            *)
LEMMA ReactWorkflowPublishes ==
  ASSUME Steps = ReactWorkflow
  PROVE  ReactThenPublish
<1>1. Range(Steps) = {"PREPARE", "REACT", "PUBLISH"}
  BY DEF ReactWorkflow, Range
<1> QED
  BY <1>1 DEF ReactThenPublish, IsStepEnabled
=============================================================================
