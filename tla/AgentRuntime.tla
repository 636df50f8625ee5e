---------------------------- MODULE AgentRuntime ----------------------------
(***************************************************************************)
(* The command loop of project/modules/agents/runtime.ts over the command  *)
(* queue, with CommandService.dispatch at its other end: the deployment of *)
(* project/index.ts, where the agents work in the process of the API and   *)
(* the orchestrator, or several such processes on one Redis queue.         *)
(*                                                                         *)
(* The processes that the runtimes are part of, and when they start and    *)
(* stop their runtime, are the subject of SingleProcess.                   *)
(*                                                                         *)
(* Each await of processCommand is a point where dispatches and other      *)
(* runtimes go on.  Any call of the storage may reject; what an agent does *)
(* for a command is its return or its exception.                           *)
(***************************************************************************)
EXTENDS InMemoryQueue, FiniteSets

CONSTANTS
  Commands,      (* commands that are dispatched                           *)
  SessionItems,  (* what the API puts into the same queue for the workers  *)
  None

ASSUME AgentRuntimeAssumption ==
  /\ Items = Commands \cup SessionItems
  /\ Commands \cap SessionItems = {}
  /\ None \notin Items

VARIABLES
  status,       (* per command, its status in the repository               *)
  dispatching,  (* commands created and not yet enqueued                   *)
  running,      (* per runtime, the flag that stop clears                  *)
  at,           (* per runtime, where its loop is                          *)
  current,      (* per runtime, the command it processes                   *)
  executions,   (* per command, how often an agent began to work on it     *)
  reported,     (* commands whose COMMAND_FAILED event was emitted         *)
  dropped       (* commands whose processing ended in an exception that    *)
                (* runLoop caught, whose dispatch was rejected, or that    *)
                (* were lost with the process they were in                 *)

runtimeVars == <<running, at, current>>
vars == <<queueVars, status, dispatching, runtimeVars, executions, reported, dropped>>

CommandStatus == {"absent", "PENDING", "RUNNING", "DONE", "FAILED"}

(* Where a loop is: before its next poll, in dequeue, before resolveAgent, *)
(* markRunning, the agent's end, markDone, markFailed, the event, or over. *)
Place == {"top", "polling", "resolving", "starting", "executing", "finishing",
          "failing", "reporting", "off"}

-----------------------------------------------------------------------------
(* CommandService.dispatch: the command is stored, then its id enqueued.   *)

Create(c) ==
  /\ status[c] = "absent"
  /\ status' = [status EXCEPT ![c] = "PENDING"]
  /\ dispatching' = dispatching \cup {c}
  /\ UNCHANGED <<queueVars, runtimeVars, executions, reported, dropped>>

EnqueueCommand(c) ==
  /\ c \in dispatching
  /\ Enqueue(c)
  /\ dispatching' = dispatching \ {c}
  /\ UNCHANGED <<status, runtimeVars, executions, reported, dropped>>

(* POST /sessions/:id/start and its like feed the queue of the workers,    *)
(* which in this deployment is the queue of the runtime.                   *)
EnqueueSession(s) ==
  /\ Enqueue(s)
  /\ UNCHANGED <<status, dispatching, runtimeVars, executions, reported, dropped>>
-----------------------------------------------------------------------------
(* runLoop.                                                                *)

Stop(r) ==
  /\ running[r]
  /\ running' = [running EXCEPT ![r] = FALSE]
  /\ UNCHANGED <<queueVars, status, dispatching, at, current, executions, reported, dropped>>

Poll(r) ==
  /\ at[r] = "top" /\ running[r]
  /\ Dequeue(r)
  /\ at' = [at EXCEPT ![r] = "polling"]
  /\ UNCHANGED <<status, dispatching, running, current, executions, reported, dropped>>

(* Mutant: a stopped runtime does not wait for its poll.                   *)
LeaveLoopAtOnce(r) ==
  /\ at[r] \in {"top", "polling"} /\ ~running[r]
  /\ at' = [at EXCEPT ![r] = "off"]
  /\ UNCHANGED <<queueVars, status, dispatching, running, current, executions, reported,
                 dropped>>

LeaveLoop(r) ==
  /\ at[r] = "top" /\ ~running[r]
  /\ at' = [at EXCEPT ![r] = "off"]
  /\ UNCHANGED <<queueVars, status, dispatching, running, current, executions, reported,
                 dropped>>

PollTimesOut(r) ==
  /\ TimeOut(r)
  /\ UNCHANGED <<status, dispatching, runtimeVars, executions, reported, dropped>>

GoesTo(r, place) == at' = [at EXCEPT ![r] = place]

NextRound(r) ==
  /\ GoesTo(r, "top")
  /\ current' = [current EXCEPT ![r] = None]
  /\ UNCHANGED running

(* The poll returned: nothing, or an id of no command, is passed over.     *)
SkipsAnswer(r) ==
  /\ at[r] = "polling" /\ answer[r] \in SessionItems \cup {Empty}
  /\ NextRound(r)
  /\ UNCHANGED <<queueVars, status, dispatching, executions, reported, dropped>>

Loads(r) ==
  /\ at[r] = "polling" /\ answer[r] \in Commands
  /\ current' = [current EXCEPT ![r] = answer[r]]
  /\ GoesTo(r, "resolving")
  /\ UNCHANGED <<queueVars, status, dispatching, running, executions, reported, dropped>>

(* An exception outside of processCommand's try block, or in its catch     *)
(* block, ends in runLoop's: it is logged, and the command is left alone.  *)
LoadRejects(r) ==
  /\ at[r] = "polling" /\ answer[r] \in Commands
  /\ dropped' = dropped \cup {answer[r]}
  /\ NextRound(r)
  /\ UNCHANGED <<queueVars, status, dispatching, executions, reported>>

Drops(r) ==
  /\ at[r] \in {"resolving", "failing", "reporting"}
  /\ dropped' = dropped \cup {current[r]}
  /\ NextRound(r)
  /\ UNCHANGED <<queueVars, status, dispatching, executions, reported>>
-----------------------------------------------------------------------------
(* processCommand.                                                         *)

Resolves(r) ==
  /\ at[r] = "resolving"
  /\ \/ GoesTo(r, "starting")
     \/ GoesTo(r, "failing")
  /\ UNCHANGED <<queueVars, status, dispatching, running, current, executions, reported,
                 dropped>>

MarkRunning(r) ==
  /\ at[r] = "starting"
  /\ status' = [status EXCEPT ![current[r]] = "RUNNING"]
  /\ executions' = [executions EXCEPT ![current[r]] = @ + 1]
  /\ GoesTo(r, "executing")
  /\ UNCHANGED <<queueVars, dispatching, running, current, reported, dropped>>

AgentReturns(r) ==
  /\ at[r] = "executing"
  /\ GoesTo(r, "finishing")
  /\ UNCHANGED <<queueVars, status, dispatching, running, current, executions, reported,
                 dropped>>

MarkDone(r) ==
  /\ at[r] = "finishing"
  /\ status' = [status EXCEPT ![current[r]] = "DONE"]
  /\ NextRound(r)
  /\ UNCHANGED <<queueVars, dispatching, executions, reported, dropped>>

(* markRunning, the agent or markDone rejects: the catch block.            *)
Throws(r) ==
  /\ at[r] \in {"starting", "executing", "finishing"}
  /\ GoesTo(r, "failing")
  /\ UNCHANGED <<queueVars, status, dispatching, running, current, executions, reported,
                 dropped>>

MarkFailed(r) ==
  /\ at[r] = "failing"
  /\ status' = [status EXCEPT ![current[r]] = "FAILED"]
  /\ GoesTo(r, "reporting")
  /\ UNCHANGED <<queueVars, dispatching, running, current, executions, reported, dropped>>

EmitCommandFailed(r) ==
  /\ at[r] = "reporting"
  /\ reported' = reported \cup {current[r]}
  /\ NextRound(r)
  /\ UNCHANGED <<queueVars, status, dispatching, executions, dropped>>

ProcessCommand(r) ==
  \/ Resolves(r) \/ MarkRunning(r) \/ AgentReturns(r) \/ MarkDone(r)
  \/ Throws(r) \/ MarkFailed(r) \/ EmitCommandFailed(r)

RunLoop(r) ==
  \/ Poll(r) \/ LeaveLoop(r)
  \/ SkipsAnswer(r) \/ Loads(r) \/ LoadRejects(r) \/ Drops(r)
  \/ ProcessCommand(r)

-----------------------------------------------------------------------------
(* The properties.                                                         *)

(* markRunning does not ask whether the command is still pending, so it is *)
(* the path of its id alone, from one enqueue to one dequeue, that keeps a *)
(* second agent from working on it.                                        *)
ExecutedOnce == \A c \in Commands : executions[c] <= 1

InQueue(c) == \E k \in DOMAIN items : items[k] = c

InHand(c) ==
  \E r \in Callers : current[r] = c \/ (at[r] = "polling" /\ answer[r] = c)

(* A command that is not over is on its way to an agent: it is being       *)
(* dispatched, in the queue, or in the hands of a runtime, stopping ones   *)
(* included; and the orchestrator hears of every failure, or the session   *)
(* would wait for the command's decision for ever.  The exceptions are     *)
(* exceptions that nobody reports and the end of a process: they drop the  *)
(* command (runtime.ts:69-191).                                            *)
NothingLost ==
  /\ \A c \in Commands : status[c] \in {"PENDING", "RUNNING"} =>
       c \in dispatching \/ InQueue(c) \/ InHand(c) \/ c \in dropped
  /\ \A c \in Commands : status[c] = "FAILED" =>
       c \in reported \/ InHand(c) \/ c \in dropped
=============================================================================
