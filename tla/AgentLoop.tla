------------------------------ MODULE AgentLoop ------------------------------
(***************************************************************************)
(* One command in the hands of a role agent: execute of                    *)
(* modules/agents/agents/role-agent.ts, the provider it is routed to, and  *)
(* for a native model the two nested loops of                              *)
(* agents/providers/llm-agent-provider.ts: iterations, and in each of them *)
(* completions whose tool calls are executed.                              *)
(*                                                                         *)
(* An answer is abstracted to what its readers tell apart: empty (or no    *)
(* string), with a verdict, or any other text. Prompts, the outputs of the *)
(* tools and the logging are left out. Nobody else writes the session's    *)
(* context meanwhile: SessionStore has those writes.                       *)
(***************************************************************************)
EXTENDS Naturals, Sequences

CONSTANTS
  MaxIterations,  (* AGENT_MAX_ITERATIONS, or the command's               *)
  MaxToolSteps,   (* AGENT_MAX_TOOL_STEPS                                 *)
  Tools,          (* the names the tool executor lists                    *)
  CallIds,        (* the ids a model gives its tool calls                 *)
  Batches,        (* the sequences of tool calls of one completion        *)
  Runs,           (* the commands: role, provider and payload             *)
  Skills,         (* what extractInvokedSkills may find                   *)
  NoId, None

Texts == {"", "text", "pass", "fail"}
Completed == "Task processing completed."

CallType == [id : CallIds \cup {NoId}, type : {"function", "custom"}, tool : STRING]
RunType == [role : {"generate", "verify"}, provider : {"llm", "cli", "missing"},
            enableTools : BOOLEAN, shouldFail : BOOLEAN, skills : SUBSET Skills]

(* The ids the calls of a sequence carry; some providers leave them out.   *)
Ids(calls) == {calls[k].id : k \in DOMAIN calls} \ {NoId}

ASSUME BoundsAssumption ==
  MaxIterations \in Nat \ {0} /\ MaxToolSteps \in Nat \ {0} /\ NoId \notin CallIds

(* A provider gives the calls of one completion different ids.             *)
ASSUME BatchesAssumption ==
  \A calls \in Batches :
    /\ calls \in Seq(CallType) /\ calls # <<>>
    /\ \A j, k \in DOMAIN calls : calls[j].id = calls[k].id /\ calls[j].id # NoId => j = k

ASSUME RunsAssumption == Runs \subseteq RunType /\ Texts \cap {None} = {} /\ None # Completed

VARIABLES
  run,         (* the command                                              *)
  stage,       (* where execute, and run of its provider, have come to     *)
  task,        (* the status of its task                                   *)
  invoked,     (* metadata.invokedSkills of the session's context          *)
  worktree,    (* whether a tool has changed the workspace                 *)
  transcript,  (* the messages of the conversation                         *)
  iteration, step,
  heard,       (* the last completion                                      *)
  todo,        (* its tool calls not yet handled                           *)
  complete,    (* iterationComplete                                        *)
  last,        (* lastAssistantMessage                                     *)
  stdout,      (* what the provider returned                               *)
  decision,    (* what decide made of it                                   *)
  emitted      (* the event of the agent                                   *)

loopVars == <<transcript, iteration, step, heard, todo, complete, last>>
agentVars == <<run, task, invoked, decision, emitted>>
vars == <<agentVars, loopVars, stage, worktree, stdout>>

Message(role) == [role |-> role, ids |-> {}, id |-> NoId]
ToolMessage(call) == [role |-> "tool", ids |-> {}, id |-> call.id]
CallMessage(calls) == [role |-> "assistant", ids |-> Ids(calls), id |-> NoId]

Init ==
  /\ run \in Runs
  /\ stage = "start" /\ task = "PENDING"
  /\ invoked \in SUBSET Skills
  /\ worktree = "clean"
  /\ transcript = <<>> /\ iteration = 0 /\ step = 0
  /\ heard = None /\ todo = <<>> /\ complete = FALSE /\ last = ""
  /\ stdout = None /\ decision = None /\ emitted = None
-----------------------------------------------------------------------------
(* execute: the task is marked, and the input of the provider built.       *)
StartTask ==
  /\ stage = "start"
  /\ task' = "IN_PROGRESS"
  /\ stage' = "route"
  /\ UNCHANGED <<run, invoked, decision, emitted, loopVars, worktree, stdout>>

(* Anything execute awaits outside a catch of its own may reject, and so   *)
(* does the router for a provider it does not have: the agent is left.     *)
Throws ==
  /\ stage \in {"start", "route", "ask", "result", "decided", "marked"}
  /\ stage' = "thrown"
  /\ UNCHANGED <<agentVars, loopVars, worktree, stdout>>

(* What a CLI wrote when it exits with zero: anything.                     *)
CliOutputs == Texts

(* CliAgentProvider: the CLI works on the worktree by itself, and resolves *)
(* when it exits with zero.                                                *)
RunCli(text) ==
  /\ stage = "route" /\ run.provider = "cli"
  /\ worktree' = "changed"
  /\ stdout' = text
  /\ stage' = "result"
  /\ UNCHANGED <<agentVars, loopVars>>

StartRun ==
  /\ stage = "route" /\ run.provider = "llm"
  /\ transcript' = <<Message("system"), Message("user")>>
  /\ stage' = "ask"
  /\ UNCHANGED <<agentVars, iteration, step, heard, todo, complete, last, worktree, stdout>>
-----------------------------------------------------------------------------
(* A completion without a message ends the iteration with what is there.   *)
ReceiveNothing ==
  /\ stage = "ask"
  /\ heard' = [text |-> "", calls |-> <<>>]
  /\ complete' = TRUE
  /\ stage' = "between"
  /\ UNCHANGED <<agentVars, transcript, iteration, step, todo, last, worktree, stdout>>

(* Without tool calls, or without tools, the content is the answer.        *)
ReceiveAnswer(text, calls) ==
  /\ stage = "ask"
  /\ ~run.enableTools \/ calls = <<>>
  /\ heard' = [text |-> text, calls |-> calls]
  /\ last' = text
  /\ complete' = TRUE
  /\ stage' = "between"
  /\ UNCHANGED <<agentVars, transcript, iteration, step, todo, worktree, stdout>>

(* Mutant: the text that comes with tool calls counts as an answer.        *)
ReceiveCalls_KeepsText(text, calls) ==
  /\ stage = "ask"
  /\ run.enableTools /\ calls # <<>>
  /\ heard' = [text |-> text, calls |-> calls]
  /\ transcript' = Append(transcript, CallMessage(calls))
  /\ todo' = calls
  /\ last' = text
  /\ stage' = "tools"
  /\ UNCHANGED <<agentVars, iteration, step, complete, worktree, stdout>>

ReceiveCalls(text, calls) ==
  /\ stage = "ask"
  /\ run.enableTools /\ calls # <<>>
  /\ heard' = [text |-> text, calls |-> calls]
  /\ transcript' = Append(transcript, CallMessage(calls))
  /\ todo' = calls
  /\ stage' = "tools"
  /\ UNCHANGED <<agentVars, iteration, step, complete, last, worktree, stdout>>

(* A call without an id gets no answer.                                    *)
SkipCall ==
  /\ stage = "tools" /\ todo # <<>>
  /\ Head(todo).id = NoId
  /\ todo' = Tail(todo)
  /\ UNCHANGED <<agentVars, transcript, iteration, step, heard, complete, last,
                 stage, worktree, stdout>>

Executable(call) == call.type = "function" /\ call.tool \in Tools

(* Mutant: a call that is not executed gets no answer.                     *)
RefuseCall_Silently ==
  /\ stage = "tools" /\ todo # <<>>
  /\ Head(todo).id # NoId /\ ~Executable(Head(todo))
  /\ todo' = Tail(todo)
  /\ UNCHANGED <<agentVars, transcript, iteration, step, heard, complete, last,
                 stage, worktree, stdout>>

(* One of another type, or for a tool that was not offered, is refused in  *)
(* its answer.                                                             *)
RefuseCall ==
  /\ stage = "tools" /\ todo # <<>>
  /\ Head(todo).id # NoId /\ ~Executable(Head(todo))
  /\ transcript' = Append(transcript, ToolMessage(Head(todo)))
  /\ todo' = Tail(todo)
  /\ UNCHANGED <<agentVars, iteration, step, heard, complete, last, stage, worktree, stdout>>

(* Of what the tools do, only whether the worktree is still untouched.     *)
ToolEffects == {worktree, "changed"}

(* The executor answers with the output of the tool or with its error, and *)
(* may have changed the worktree in either case.                           *)
ExecuteCall ==
  /\ stage = "tools" /\ todo # <<>>
  /\ Head(todo).id # NoId /\ Executable(Head(todo))
  /\ transcript' = Append(transcript, ToolMessage(Head(todo)))
  /\ todo' = Tail(todo)
  /\ worktree' \in ToolEffects
  /\ UNCHANGED <<agentVars, iteration, step, heard, complete, last, stage, stdout>>

(* All calls are handled: the model is asked again, as often as one        *)
(* iteration allows.                                                       *)
NextStep ==
  /\ stage = "tools" /\ todo = <<>>
  /\ step' = step + 1
  /\ stage' = IF step' < MaxToolSteps THEN "ask" ELSE "between"
  /\ UNCHANGED <<agentVars, transcript, iteration, heard, todo, complete, last, worktree, stdout>>

LastIteration == iteration = MaxIterations - 1

(* Mutant: the last iteration waits for an answer too.                     *)
Return_OnlyAnswers ==
  /\ stage = "between"
  /\ last # "" /\ complete
  /\ stdout' = last
  /\ stage' = "result"
  /\ UNCHANGED <<agentVars, loopVars, worktree>>

(* The last iteration returns what there is, the others an answer they     *)
(* were given.                                                             *)
Return ==
  /\ stage = "between"
  /\ LastIteration \/ (last # "" /\ complete)
  /\ stdout' = IF last = "" THEN Completed ELSE last
  /\ stage' = "result"
  /\ UNCHANGED <<agentVars, loopVars, worktree>>

Continue ==
  /\ stage = "between"
  /\ ~LastIteration /\ ~(last # "" /\ complete)
  /\ transcript' = Append(transcript, Message("user"))
  /\ iteration' = iteration + 1
  /\ step' = 0
  /\ complete' = FALSE
  /\ stage' = "ask"
  /\ UNCHANGED <<agentVars, heard, todo, last, worktree, stdout>>
-----------------------------------------------------------------------------
(* decide of the verify and review agents, and of the other three, which   *)
(* take any text for an achievement.                                       *)
DecisionOn(r, text) ==
  IF r.role = "verify" /\ (r.shouldFail \/ text # "pass")
    THEN [status |-> "FAILED", event |-> "TEST_FAILED"]
    ELSE [status |-> "DONE", event |-> IF r.role = "verify" THEN "TEST_PASSED"
                                                            ELSE "IMPLEMENT_COMPLETED"]

(* The skills found in the skill context are added to the session's.       *)
InvokedSkills == invoked \cup run.skills

(* The answer is judged and the output of the task put together.           *)
Decide ==
  /\ stage = "result"
  /\ decision' = DecisionOn(run, stdout)
  /\ invoked' = InvokedSkills
  /\ stage' = "decided"
  /\ UNCHANGED <<run, task, emitted, loopVars, worktree, stdout>>

MarkTask ==
  /\ stage = "decided"
  /\ task' = decision.status
  /\ stage' = "marked"
  /\ UNCHANGED <<run, invoked, decision, emitted, loopVars, worktree, stdout>>

Emit ==
  /\ stage = "marked"
  /\ emitted' = decision.event
  /\ stage' = "over"
  /\ UNCHANGED <<run, task, invoked, decision, loopVars, worktree, stdout>>
-----------------------------------------------------------------------------
Receive ==
  \/ ReceiveNothing
  \/ \E text \in Texts :
       \/ \E calls \in Batches \cup {<<>>} : ReceiveAnswer(text, calls)
       \/ \E calls \in Batches : ReceiveCalls(text, calls)

Steps ==
  \/ StartTask \/ StartRun
  \/ SkipCall \/ RefuseCall \/ NextStep
  \/ Return \/ Continue
  \/ Decide \/ MarkTask \/ Emit

Next ==
  \/ Steps \/ Receive \/ Throws \/ ExecuteCall
  \/ \E text \in CliOutputs : RunCli(text)

(* The program goes on, and the client library of a model answers or       *)
(* rejects in the end. Nothing of the kind holds of a tool or a CLI: the   *)
(* processes they spawn have no time limit.                                *)
Spec == Init /\ [][Next]_vars /\ WF_vars(Steps \/ Receive \/ (stage # "route" /\ Throws))
                              /\ WF_vars(run.provider = "missing" /\ Throws)
-----------------------------------------------------------------------------
(* The tool messages that follow message i of a conversation without       *)
(* another in between.                                                     *)
Answers(t, i) == {j \in (i + 1)..Len(t) : \A k \in (i + 1)..j : t[k].role = "tool"}

Settled(t, i) ==
  /\ {t[j].id : j \in Answers(t, i)} = t[i].ids
  /\ \A j, k \in Answers(t, i) : t[j].id = t[k].id => j = k

CallMessages(t) == {i \in DOMAIN t : t[i].role = "assistant"}

NoOrphans(t) ==
  \A j \in DOMAIN t : t[j].role = "tool" => \E i \in CallMessages(t) : j \in Answers(t, i)

(* Whenever the model is asked, each of its earlier messages with tool     *)
(* calls is followed at once by exactly one answer to each call with an    *)
(* id, and there is no other tool message: whatever the calls were, tools  *)
(* unknown, failed or of another type included (llm-agent-provider.ts:181- *)
(* 290). The API of the models refuses any other conversation.             *)
WellFormedConversation ==
  stage = "ask" =>
    /\ \A i \in CallMessages(transcript) : Settled(transcript, i)
    /\ NoOrphans(transcript)

(* A native model's verdict passes a verification only as its last word:   *)
(* never one of an earlier completion, or one that came with tool calls    *)
(* when the budget of the loops ran out (llm-agent-provider.ts:147-178,    *)
(* 305-342, verify-role-agent.ts:14-17).                                   *)
LastWordApproves ==
  run.provider = "llm" /\ decision # None =>
    (decision.event = "TEST_PASSED" =>
       heard.text = "pass" /\ (heard.calls = <<>> \/ ~run.enableTools))

(* Each run ends, with an event or by rejecting, whatever the model        *)
(* answers, unless it waits for a tool or a CLI that does not end.         *)
RunEnds ==
  \/ <>(stage \in {"over", "thrown"})
  \/ <>[](stage = "tools" /\ todo # <<>> /\ Executable(Head(todo)))
  \/ <>[](stage = "route" /\ run.provider = "cli")
=============================================================================
