---------------------------- MODULE SingleProcess ----------------------------
(***************************************************************************)
(* The life of a process of project/index.ts: API, orchestrator and agent  *)
(* runtime in one, from the wiring of project/runtime/index.ts to its      *)
(* shutdown.                                                               *)
(*                                                                         *)
(* Several such processes share the queue and the repositories (Redis, a   *)
(* database); the event bus is the in-memory one (inmemory-event-bus.ts),  *)
(* so that an event is heard by the orchestrator of the process it is      *)
(* emitted in and by no other, and emit waits for its handler.  What the   *)
(* orchestrator makes of an event is here the dispatch of the command that *)
(* follows; Orchestration has the rest.                                    *)
(*                                                                         *)
(* Left out: the events of log lines, which nobody waits for, and the      *)
(* flags RUN_WORKER and RUN_ORCHESTRATOR, which are on by default.         *)
(***************************************************************************)
EXTENDS AgentRuntime, Configuration

CONSTANTS
  First,         (* the command that a started session begins with         *)
  Successor,     (* the command that the decision on each command leads to *)
  Session,       (* what the API enqueues for the session                  *)
  Restarted,     (* processes that are started, stopped and started again  *)
  Environments,  (* what the operator may have set                         *)
  MaxStarts      (* bound: starts of each of them                          *)

ASSUME SingleProcessAssumption ==
  /\ First \in Commands
  /\ Successor \in [Commands -> Commands \cup {None}]
  /\ Session \in SessionItems
  /\ Restarted \subseteq Callers
  /\ MaxStarts \in Nat

VARIABLES
  phase,       (* per process, how far main, or its shutdown, has come     *)
  starts,      (* per process, how often it was started                    *)
  served,      (* per process, the roles that have a provider              *)
  subscribed,  (* the processes whose orchestrator hears events            *)
  request,     (* per process, the request it serves                       *)
  streaming,   (* the processes that an event stream is open to            *)
  dispatcher,  (* per command, the process and the emit that dispatch it   *)
  told,        (* the runtimes whose agent has emitted its decision        *)
  unheard      (* per command that a decision did not lead to, the phase   *)
               (* of the process at that moment                            *)

processVars == <<phase, starts, served, subscribed>>
apiVars     == <<request, streaming>>
chainVars   == <<dispatcher, told, unheard>>
commandVars == <<status, dispatching, executions, reported, dropped>>
allVars     == <<vars, processVars, apiVars, chainVars>>

Booting  == {"wiring", "subscribed", "started"}
Shutdown == {"closing", "closed", "stopping", "releasing"}
Phase    == Booting \cup {"up"} \cup Shutdown \cup {"exited"}
Request  == {"none", "starting", "dispatching"}
Emitter  == {"request", "agent"}

Init ==
  /\ QueueInit
  /\ status = [c \in Commands |-> "absent"]
  /\ dispatching = {}
  /\ running = [p \in Callers |-> p \notin Restarted]
  /\ at = [p \in Callers |-> IF p \in Restarted THEN "off" ELSE "top"]
  /\ current = [p \in Callers |-> None]
  /\ executions = [c \in Commands |-> 0]
  /\ reported = {}
  /\ dropped = {}
  /\ phase = [p \in Callers |-> IF p \in Restarted THEN "wiring" ELSE "up"]
  /\ starts = [p \in Callers |-> 1]
  /\ served = [p \in Callers |-> Role]
  /\ subscribed = Callers \ Restarted
  /\ request = [p \in Callers |-> "none"]
  /\ streaming = {}
  /\ dispatcher = [c \in Commands |-> None]
  /\ told = {}
  /\ unheard = [c \in Commands |-> None]

Enters(p, next) == phase' = [phase EXCEPT ![p] = next]

(* The dispatch of p's agent, or of its request, that has yet to enqueue.  *)
Dispatching(p, emitter) ==
  { c \in dispatching : dispatcher[c] = <<p, emitter>> }

-----------------------------------------------------------------------------
(* The end of a process, by exit(0), exit(1) or the force timer, takes     *)
(* with it what it has in hand; a poll of the shared queue is withdrawn.   *)
InHandOf(p) ==
  ({current[p]} \cup (IF at[p] = "polling" THEN {answer[p]} ELSE {})) \cap Commands

Ends(p) ==
  /\ Enters(p, "exited")
  /\ IF answer[p] = Waiting THEN TimeOut(p) ELSE UNCHANGED queueVars
  /\ running' = [running EXCEPT ![p] = FALSE]
  /\ at' = [at EXCEPT ![p] = "off"]
  /\ current' = [current EXCEPT ![p] = None]
  /\ dropped' = dropped \cup InHandOf(p) \cup { c \in dispatching : dispatcher[c][1] = p }
  /\ dispatching' = { c \in dispatching : dispatcher[c][1] # p }
  /\ subscribed' = subscribed \ {p}
  /\ request' = [request EXCEPT ![p] = "none"]
  /\ streaming' = streaming \ {p}
  /\ told' = told \ {p}
  /\ UNCHANGED <<status, executions, reported, starts, served, dispatcher, unheard>>

-----------------------------------------------------------------------------
(* main and createApplication, up to the handlers of SIGINT and SIGTERM.   *)

SubscribeOrchestrator(p) ==
  /\ phase[p] = "wiring"
  /\ Enters(p, "subscribed")
  /\ subscribed' = subscribed \cup {p}
  /\ UNCHANGED <<vars, starts, served, apiVars, chainVars>>

(* Mutant: it does not wait for the subscription.                          *)
StartRuntimeEarly(p) ==
  /\ phase[p] \in {"wiring", "subscribed"}
  /\ \E env \in Environments :
       /\ IntakeServiceIsCreated(env)
       /\ served' = [served EXCEPT ![p] = ServedRoles(env)]
  /\ Enters(p, "started")
  /\ running' = [running EXCEPT ![p] = TRUE]
  /\ at' = [at EXCEPT ![p] = "top"]
  /\ UNCHANGED <<queueVars, commandVars, current, starts, subscribed, apiVars, chainVars>>

(* The intake service is created, which checks the configuration, and the  *)
(* loop is started.                                                        *)
StartRuntime(p) ==
  /\ phase[p] = "subscribed"
  /\ \E env \in Environments :
       /\ IntakeServiceIsCreated(env)
       /\ served' = [served EXCEPT ![p] = ServedRoles(env)]
  /\ Enters(p, "started")
  /\ running' = [running EXCEPT ![p] = TRUE]
  /\ at' = [at EXCEPT ![p] = "top"]
  /\ UNCHANGED <<queueVars, commandVars, current, starts, subscribed, apiVars, chainVars>>

Listen(p) ==
  /\ phase[p] = "started"
  /\ Enters(p, "up")
  /\ UNCHANGED <<vars, starts, served, subscribed, apiVars, chainVars>>

(* A connection, the configuration, workspace.init or the port: main       *)
(* rejects and the process exits.                                          *)
BootFails(p) == phase[p] \in Booting /\ Ends(p)

Restart(p) ==
  /\ p \in Restarted /\ phase[p] = "exited" /\ starts[p] < MaxStarts
  /\ starts' = [starts EXCEPT ![p] = @ + 1]
  /\ Enters(p, "wiring")
  /\ UNCHANGED <<vars, served, subscribed, apiVars, chainVars>>

Boot(p) ==
  \/ SubscribeOrchestrator(p) \/ StartRuntime(p) \/ Listen(p)
  \/ BootFails(p) \/ Restart(p)
-----------------------------------------------------------------------------
(* The API, as far as it dispatches and keeps the listener from closing.   *)

Becomes(p, next) == request' = [request EXCEPT ![p] = next]

(* POST /sessions/:id/start, of the session that is looked at.             *)
AcceptRequest(p) ==
  /\ phase[p] = "up" /\ request[p] = "none"
  /\ \A q \in Callers : request[q] # "starting"
  /\ status[First] = "absent" /\ unheard[First] = None
  /\ Becomes(p, "starting")
  /\ UNCHANGED <<vars, processVars, streaming, chainVars>>

(* A connection that stays open.  It matters to the listener alone, so     *)
(* those to a process that is never stopped are left out.                  *)
OpenStream(p) ==
  /\ phase[p] = "up" /\ p \in Restarted
  /\ streaming' = streaming \cup {p}
  /\ UNCHANGED <<vars, processVars, request, chainVars>>

CloseStream(p) ==
  /\ p \in streaming
  /\ streaming' = streaming \ {p}
  /\ UNCHANGED <<vars, processVars, request, chainVars>>

(* An event that leads to command c is emitted in process p.               *)
EmitLeadingTo(c, p, emitter) ==
  IF p \in subscribed
  THEN /\ Create(c)
       /\ dispatcher' = [dispatcher EXCEPT ![c] = <<p, emitter>>]
       /\ UNCHANGED unheard
  ELSE /\ unheard' = [unheard EXCEPT ![c] = phase[p]]
       /\ UNCHANGED <<vars, dispatcher>>

(* startSession: SESSION_STARTED is emitted.                               *)
StartSession(p) ==
  /\ request[p] = "starting"
  /\ EmitLeadingTo(First, p, "request")
  /\ Becomes(p, "dispatching")
  /\ UNCHANGED <<processVars, streaming, told>>

(* The answer, after the session has been put into the queue.              *)
AnswerRequest(p) ==
  /\ request[p] = "dispatching" /\ Dispatching(p, "request") = {}
  /\ EnqueueSession(Session)
  /\ Becomes(p, "none")
  /\ UNCHANGED <<processVars, streaming, chainVars>>

Api(p) ==
  \/ AcceptRequest(p) \/ OpenStream(p) \/ CloseStream(p)
  \/ StartSession(p) \/ AnswerRequest(p)
-----------------------------------------------------------------------------
(* The dispatch of a command by the handler of an event, and the runtime.  *)

Dispatch(c) ==
  /\ EnqueueCommand(c)
  /\ UNCHANGED <<processVars, apiVars, chainVars>>

(* The queue rejects: the command stays behind in the repository, and the  *)
(* exception goes through emit to the agent or to the request.             *)
DispatchRejects(c) ==
  /\ c \in dispatching
  /\ dispatching' = dispatching \ {c}
  /\ dropped' = dropped \cup {c}
  /\ LET p == dispatcher[c][1] IN
       IF dispatcher[c][2] = "agent"
       THEN GoesTo(p, "failing") /\ told' = told \ {p} /\ UNCHANGED request
       ELSE Becomes(p, "none") /\ UNCHANGED <<at, told>>
  /\ UNCHANGED <<queueVars, status, running, current, executions, reported, processVars,
                 streaming, dispatcher, unheard>>

AgentEmitsDecision(p) ==
  /\ at[p] = "executing" /\ p \notin told
  /\ told' = told \cup {p}
  /\ LET c == Successor[current[p]] IN
       IF c = None THEN UNCHANGED <<vars, dispatcher, unheard>>
       ELSE EmitLeadingTo(c, p, "agent")
  /\ UNCHANGED <<processVars, apiVars>>

(* An agent returns when it has emitted its decision, and goes on when the *)
(* handler of its event has ended.                                         *)
RunRuntime(p) ==
  /\ RunLoop(p)
  /\ at[p] = "executing" =>
       /\ Dispatching(p, "agent") = {}
       /\ at'[p] = "finishing" => p \in told
  /\ told' = IF at[p] = "executing" THEN told \ {p} ELSE told
  /\ UNCHANGED <<processVars, apiVars, dispatcher, unheard>>

PollEnds(p) ==
  /\ PollTimesOut(p)
  /\ UNCHANGED <<processVars, apiVars, chainVars>>
-----------------------------------------------------------------------------
(* shutdown.  A second signal finds the promise of the first.              *)

Signal(p) ==
  /\ p \in Restarted /\ phase[p] = "up"
  /\ Enters(p, "closing")
  /\ UNCHANGED <<vars, starts, served, subscribed, apiVars, chainVars>>

(* listener.close answers when no connection is left.                      *)
ListenerCloses(p) ==
  /\ phase[p] = "closing"
  /\ request[p] = "none" /\ p \notin streaming
  /\ Enters(p, "closed")
  /\ UNCHANGED <<vars, starts, served, subscribed, apiVars, chainVars>>

(* app.stop: the in-memory bus forgets the handler at once, and the flag   *)
(* of the loop is cleared before anything else happens.                    *)
StopRuntime(p) ==
  /\ phase[p] = "closed"
  /\ subscribed' = subscribed \ {p}
  /\ Stop(p)
  /\ Enters(p, "stopping")
  /\ UNCHANGED <<starts, served, apiVars, chainVars>>

(* Mutant: stop does not wait for the loop.                                *)
RuntimeIsLeft(p) ==
  /\ phase[p] = "stopping"
  /\ Enters(p, "releasing")
  /\ UNCHANGED <<vars, starts, served, subscribed, apiVars, chainVars>>

RuntimeStopped(p) ==
  /\ phase[p] = "stopping" /\ at[p] = "off"
  /\ Enters(p, "releasing")
  /\ UNCHANGED <<vars, starts, served, subscribed, apiVars, chainVars>>

(* Repositories, queue and bus have been closed, the workspace removed; a  *)
(* step that rejects is logged and the next one taken.  Exit with 0.       *)
Exit(p) == phase[p] = "releasing" /\ Ends(p)

(* Mutant: the timer waits for the listener, too.                          *)
ForceExitOnceClosed(p) == phase[p] \in Shutdown \ {"closing"} /\ Ends(p)

(* The ten seconds are over.                                               *)
ForceExit(p) == phase[p] \in Shutdown /\ Ends(p)

StopInOrder(p) ==
  \/ ListenerCloses(p) \/ StopRuntime(p) \/ RuntimeStopped(p) \/ Exit(p)
-----------------------------------------------------------------------------
Next ==
  \/ \E p \in Callers :
       \/ Boot(p) \/ Api(p) \/ AgentEmitsDecision(p) \/ RunRuntime(p) \/ PollEnds(p)
       \/ Signal(p) \/ StopInOrder(p) \/ ForceExit(p)
  \/ \E c \in Commands : Dispatch(c) \/ DispatchRejects(c)

Spec == Init /\ [][Next]_allVars

(* Handlers and requests go on, an agent comes to its decision and to its  *)
(* end (the time limits of AgentLoop), and the timer of a shutdown runs.   *)
Fairness ==
  /\ \A c \in Commands : WF_allVars(Dispatch(c) \/ DispatchRejects(c))
  /\ \A p \in Callers :
       /\ WF_allVars(AgentEmitsDecision(p)) /\ WF_allVars(RunRuntime(p))
       /\ WF_allVars(ForceExit(p))

FairSpec == Spec /\ Fairness
-----------------------------------------------------------------------------
(* Properties.                                                             *)

(* While the storage of a process is being closed, nothing in it will ask  *)
(* the storage for anything: its loop is over with no command taken, no    *)
(* handler dispatches and no request is served.                            *)
ReleasedIsQuiet ==
  \A p \in Callers : phase[p] = "releasing" =>
    /\ at[p] = "off" /\ request[p] = "none"
    /\ \A c \in dispatching : dispatcher[c][1] # p

(* A decision that no orchestrator hears is one of the last command of a   *)
(* process that is stopping.  While a process comes up, and as long as it  *)
(* serves requests, its orchestrator is there before there is an event.    *)
HeardUnlessStopping ==
  \A c \in Commands : unheard[c] \in {None, "stopping"}

(* A process that has come so far as to execute commands has a provider    *)
(* for every role: what the start lets pass will not fail at the first     *)
(* command of some kind.                                                   *)
EveryRoleServed == \A p \in Callers : running[p] => served[p] = Role

(* A signal ends the process, whatever keeps its connections open.         *)
ShutdownEnds == \A p \in Callers : phase[p] \in Shutdown ~> phase[p] = "exited"

(* A command that was created is over in the end, if a runtime goes on.    *)
CommandsEnd ==
  \A c \in Commands :
    status[c] = "PENDING" ~>
      \/ status[c] \in {"DONE", "FAILED"} \/ c \in dropped
      \/ \A p \in Callers : ~running[p]
=============================================================================
