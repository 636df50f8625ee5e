--------------------------- MODULE SessionWorker ---------------------------
(***************************************************************************)
(* The autonomous workers of project/worker/application.ts and the queue   *)
(* they take their work from (project/worker/session-queue.ts), for one    *)
(* session that several queue items, visits and workers may meet at.       *)
(*                                                                         *)
(* A visit is one call of processSession.  Each of its awaits is a point   *)
(* where other callbacks of the same process, and other processes, go on:  *)
(* an event published while the visit listens is handled in a callback of  *)
(* its own, and the loop that executes commands belongs to whichever       *)
(* callback found it idle.  What OrchestrationService does with an event   *)
(* is left open: it may dispatch a command or emit events.                 *)
(*                                                                         *)
(* Workers are processes of their own, so the bus is Redis pub/sub         *)
(* (modules/infra/redis-event-bus.ts): a message reaches who listens when  *)
(* it is published, and nobody else, ever.                                 *)
(***************************************************************************)
EXTENDS Naturals, Sequences, FiniteSets

CONSTANTS
  Workers,         (* worker processes                                     *)
  Visits,          (* calls of processSession                              *)
  Commands,        (* commands the session may come to                     *)
  Events,          (* events the session may come to                       *)
  Started,         (* the SESSION_STARTED event                            *)
  ApiEvents,       (* events the API process emits, Started among them     *)
  Terminal,        (* SESSION_COMPLETED events                             *)
  Replay,          (* the replay of SESSION_STARTED by a visit             *)
  None,
  StorageMayFail,  (* a call of the storage may reject                     *)
  MaxQueue         (* bound: items in the queue when the API adds one      *)

ASSUME SessionWorkerAssumption ==
  /\ Started \in ApiEvents
  /\ ApiEvents \subseteq Events
  /\ Terminal \subseteq Events \ ApiEvents
  /\ Replay \notin Events
  /\ None \notin Workers \cup Visits \cup Commands \cup Events \cup {Replay}
  /\ {"polling", "stopped"} \cap Visits = {}
  /\ StorageMayFail \in BOOLEAN
  /\ MaxQueue \in Nat

VARIABLES
  queue,       (* the kinds of the items in the shared queue               *)
  running,     (* per worker, the flag stopWorker clears                   *)
  at,          (* per worker, the visit it awaits, "polling" or "stopped"  *)
  kind,        (* per visit, the kind of the item it was made for          *)
  host,        (* per visit, the worker that makes it                      *)
  stage,       (* per visit, where processSession is                       *)
  subscribed,  (* the visits whose handler is registered with the bus      *)
  incoming,    (* per visit, events delivered to it and not yet handled    *)
  settled,     (* per visit, events orchestrated whose callback goes on    *)
  finished,    (* per visit, sessionCompleted                              *)
  loop,        (* per visit, where the command loop is                     *)
  owner,       (* per visit, the callback that runs the loop               *)
  rerun,       (* per visit, rerunRequested                                *)
  todo,        (* per visit, the pending commands it found and has to try  *)
  current,     (* per visit, the command it executes                       *)
  stored,      (* the events in the event repository                       *)
  command,     (* per command, its status in the command repository        *)
  dispatcher,  (* per command, the visit that dispatched it                *)
  claimer      (* per command, the visit that claimed it (claimToken)      *)

workerVars  == <<queue, running, at>>
visitVars   == <<kind, host, stage, subscribed, finished>>
loopVars    == <<loop, owner, rerun, todo, current>>
commandVars == <<command, dispatcher, claimer>>
vars == <<workerVars, visitVars, incoming, settled, loopVars, stored, commandVars>>

(* Dispatching a command puts its id into the queue sessions wait in: both *)
(* services are built on storage.queue.                                    *)
Reasons  == {"initial", "scm-sync", "manual"}
ItemKind == Reasons \cup {"command"}
Stage    == {"fresh", "opening", "listing", "replaying", "waiting", "over", "failed", "dead"}
CommandStatus == {"absent", "PENDING", "RUNNING", "DONE", "FAILED"}

Init ==
  /\ queue = <<>>
  /\ running = [w \in Workers |-> TRUE]
  /\ at = [w \in Workers |-> "polling"]
  /\ kind = [v \in Visits |-> "initial"]
  /\ host = [v \in Visits |-> None]
  /\ stage = [v \in Visits |-> "fresh"]
  /\ subscribed = {}
  /\ incoming = [v \in Visits |-> {}]
  /\ settled = [v \in Visits |-> {}]
  /\ finished = [v \in Visits |-> FALSE]
  /\ loop = [v \in Visits |-> "idle"]
  /\ owner = [v \in Visits |-> None]
  /\ rerun = [v \in Visits |-> FALSE]
  /\ todo = [v \in Visits |-> {}]
  /\ current = [v \in Visits |-> None]
  /\ stored = {}
  /\ command = [c \in Commands |-> "absent"]
  /\ dispatcher = [c \in Commands |-> None]
  /\ claimer = [c \in Commands |-> None]

(* The visits that take an event of the session for their own.  A visit    *)
(* made for a command id ignores it: it belongs to another session.        *)
Listening == {v \in subscribed : kind[v] \in Reasons}

(* EventService.emit: stored first, then delivered to who listens.         *)
Delivered(new) ==
  [v \in Visits |-> incoming[v] \cup (IF v \in Listening THEN new ELSE {})]

-----------------------------------------------------------------------------
(* The API process.  It starts the session (or emits feedback) and then    *)
(* enqueues an item; a worker may see either first.                        *)

ApiEmits(e) ==
  /\ e \in ApiEvents \ stored
  /\ e = Started \/ Started \in stored
  /\ stored' = stored \cup {e}
  /\ incoming' = Delivered({e})
  /\ UNCHANGED <<workerVars, visitVars, settled, loopVars, commandVars>>

Push(item) == queue' = Append(queue, item)

Enqueue(reason) ==
  /\ Started \in stored
  /\ Len(queue) < MaxQueue
  /\ Push(reason)
  /\ UNCHANGED <<running, at, visitVars, incoming, settled, loopVars, stored, commandVars>>
-----------------------------------------------------------------------------
(* runWorkerLoop.                                                          *)

(* SessionQueue.dequeue takes whatever is in the queue for a session id.   *)
Dequeue(w, v) ==
  /\ at[w] = "polling" /\ queue # <<>>
  /\ stage[v] = "fresh"
  /\ queue' = Tail(queue)
  /\ at' = [at EXCEPT ![w] = v]
  /\ kind' = [kind EXCEPT ![v] = Head(queue)]
  /\ host' = [host EXCEPT ![v] = w]
  /\ stage' = [stage EXCEPT ![v] = "opening"]
  /\ UNCHANGED <<running, subscribed, incoming, settled, finished, loopVars, stored,
                 commandVars>>

StopWorker(w) ==
  /\ running[w]
  /\ running' = [running EXCEPT ![w] = FALSE]
  /\ UNCHANGED <<queue, at, visitVars, incoming, settled, loopVars, stored, commandVars>>

(* A poll that was under way when the worker was stopped times out.        *)
LeaveLoop(w) ==
  /\ at[w] = "polling" /\ ~running[w]
  /\ at' = [at EXCEPT ![w] = "stopped"]
  /\ UNCHANGED <<queue, running, visitVars, incoming, settled, loopVars, stored, commandVars>>

(* The process exits, after a stop, a crash or a callback that rejects (no *)
(* rejection of a live callback is caught), with whatever it was doing,    *)
(* and another takes its place.                                            *)
Restart(w) ==
  LET gone == {v \in Visits : host[v] = w}
      Reset(f, value) == [v \in Visits |-> IF v \in gone THEN value ELSE f[v]]
  IN  /\ running' = [running EXCEPT ![w] = TRUE]
      /\ at' = [at EXCEPT ![w] = "polling"]
      /\ stage' = Reset(stage, "dead")
      /\ subscribed' = subscribed \ gone
      /\ incoming' = Reset(incoming, {})
      /\ settled' = Reset(settled, {})
      /\ finished' = Reset(finished, FALSE)
      /\ loop' = Reset(loop, "idle")
      /\ owner' = Reset(owner, None)
      /\ rerun' = Reset(rerun, FALSE)
      /\ todo' = Reset(todo, {})
      /\ current' = Reset(current, None)
      /\ UNCHANGED <<queue, kind, host, stored, commandVars>>
-----------------------------------------------------------------------------
(* processSession: subscribe, look at the events so far, replay the start, *)
(* then wait until the session is over, the worker stops or time is up.    *)

Subscribe(v) ==
  /\ stage[v] = "opening"
  /\ stage' = [stage EXCEPT ![v] = "listing"]
  /\ subscribed' = subscribed \cup {v}
  /\ UNCHANGED <<workerVars, kind, host, finished, incoming, settled, loopVars, stored,
                 commandVars>>

(* Mutant: the handler stays registered when the visit ends.               *)
CloseVisitSubscribed(v, as) ==
  /\ stage' = [stage EXCEPT ![v] = as]
  /\ at' = [at EXCEPT ![host[v]] = IF running[host[v]] THEN "polling" ELSE "stopped"]
  /\ \E begun \in SUBSET (incoming[v] \ {Replay}) :
       incoming' = [incoming EXCEPT ![v] = begun]
  /\ UNCHANGED <<queue, running, kind, host, subscribed, finished, settled, stored, commandVars>>

(* The finally block: unsubscribe, and the worker takes its next item.     *)
(* Callbacks that have begun go on, and so does a command loop of theirs;  *)
(* messages whose callback has not begun are not delivered any more.       *)
CloseVisit(v, as) ==
  /\ stage' = [stage EXCEPT ![v] = as]
  /\ subscribed' = subscribed \ {v}
  /\ at' = [at EXCEPT ![host[v]] = IF running[host[v]] THEN "polling" ELSE "stopped"]
  /\ \E begun \in SUBSET (incoming[v] \ {Replay}) :
       incoming' = [incoming EXCEPT ![v] = begun]
  /\ UNCHANGED <<queue, running, kind, host, finished, settled, stored, commandVars>>

Skips(v) == Terminal \cap stored # {} /\ kind[v] = "initial"

SkipCompleted(v) ==
  /\ stage[v] = "listing" /\ kind[v] \in Reasons /\ Skips(v)
  /\ CloseVisit(v, "over")
  /\ UNCHANGED loopVars

ListEvents(v) ==
  LET hasStarted == kind[v] \in Reasons /\ Started \in stored
  IN  /\ stage[v] = "listing"
      /\ kind[v] \in Reasons => ~Skips(v)
      /\ stage' = [stage EXCEPT ![v] = IF hasStarted THEN "replaying" ELSE "waiting"]
      /\ incoming' = [incoming EXCEPT ![v] = @ \cup (IF hasStarted THEN {Replay} ELSE {})]
      /\ UNCHANGED <<workerVars, kind, host, subscribed, finished, settled, loopVars,
                     stored, commandVars>>

(* The handling of the replayed event rejects.                             *)
ReplayRejects(v) ==
  /\ StorageMayFail
  /\ stage[v] = "replaying" /\ Replay \in incoming[v]
  /\ CloseVisit(v, "failed")
  /\ UNCHANGED loopVars

(* The command loop the replay waits for rejects: the finally block resets *)
(* executingCommands and nothing else; a claimed command stays RUNNING.    *)
ReplayLoopRejects(v) ==
  /\ StorageMayFail
  /\ stage[v] = "replaying" /\ owner[v] = Replay
  /\ CloseVisit(v, "failed")
  /\ loop' = [loop EXCEPT ![v] = "idle"]
  /\ owner' = [owner EXCEPT ![v] = None]
  /\ todo' = [todo EXCEPT ![v] = {}]
  /\ current' = [current EXCEPT ![v] = None]
  /\ UNCHANGED rerun

(* sessionCompleted, a stopped worker, or the session timeout.             *)
WaitOver(v) ==
  /\ stage[v] = "waiting"
  /\ CloseVisit(v, "over")
  /\ UNCHANGED loopVars
-----------------------------------------------------------------------------
(* The event handler a visit registers.                                    *)

(* orchestrationService.handleEvent: emits further events, or none,        *)
HandlerEmits(v, e, new) ==
  /\ e \in incoming[v]
  /\ e \in Terminal => new = {}
  /\ settled' = [settled EXCEPT ![v] = @ \cup {e}]
  /\ stored' = stored \cup new
  /\ incoming' = [Delivered(new) EXCEPT ![v] = @ \ {e}]
  /\ UNCHANGED <<workerVars, visitVars, loopVars, commandVars>>

CreateCommand(v, c) ==
  /\ command[c] = "absent"
  /\ command' = [command EXCEPT ![c] = "PENDING"]
  /\ dispatcher' = [dispatcher EXCEPT ![c] = v]

(* or dispatches a command.                                                *)
HandlerDispatches(v, e, c) ==
  /\ e \in incoming[v] \ Terminal
  /\ settled' = [settled EXCEPT ![v] = @ \cup {e}]
  /\ incoming' = [incoming EXCEPT ![v] = @ \ {e}]
  /\ CreateCommand(v, c)
  /\ Push("command")
  /\ UNCHANGED <<running, at, visitVars, loopVars, stored, claimer>>

(* When the callback of an event is through, the bus goes on to the next   *)
(* handler in its set: that of a later visit of the same worker, which may *)
(* have been added while the callback ran.                                 *)
PassedOn(v, e) ==
  [u \in Visits |->
     incoming[u] \cup
       (IF e # Replay /\ u # v /\ u \in Listening /\ host[u] = host[v] THEN {e} ELSE {})]

(* Back in the stage of the visit: the replay is awaited, an event is not. *)
Returns(v, e) ==
  /\ incoming' = PassedOn(v, e)
  /\ stage' = IF e = Replay THEN [stage EXCEPT ![v] = "waiting"] ELSE stage

Completes(v, e) ==
  /\ e \in settled[v] \cap Terminal
  /\ finished' = [finished EXCEPT ![v] = TRUE]
  /\ settled' = [settled EXCEPT ![v] = @ \ {e}]
  /\ Returns(v, e)
  /\ UNCHANGED <<workerVars, kind, host, subscribed, loopVars, stored, commandVars>>

MaySkip(v, e) == e # Replay /\ ~running[host[v]]

SkipsExecution(v, e) ==
  /\ e \in settled[v] \ Terminal
  /\ MaySkip(v, e)
  /\ settled' = [settled EXCEPT ![v] = @ \ {e}]
  /\ Returns(v, e)
  /\ UNCHANGED <<workerVars, kind, host, subscribed, finished, loopVars, stored, commandVars>>

(* Mutant: a callback that finds the loop running just returns.            *)
RequestRerunForgotten(v, e) ==
  /\ e \in settled[v] \ Terminal
  /\ ~MaySkip(v, e)
  /\ loop[v] # "idle"
  /\ settled' = [settled EXCEPT ![v] = @ \ {e}]
  /\ Returns(v, e)
  /\ UNCHANGED <<workerVars, kind, host, subscribed, finished, loopVars, stored, commandVars>>

(* Mutant: a callback that finds the loop running never returns.           *)
RequestRerunStuck(v, e) ==
  /\ e \in settled[v] \ Terminal
  /\ ~MaySkip(v, e)
  /\ loop[v] # "idle"
  /\ rerun' = [rerun EXCEPT ![v] = TRUE]
  /\ settled' = [settled EXCEPT ![v] = @ \ {e}]
  /\ UNCHANGED <<workerVars, visitVars, incoming, loop, owner, todo, current, stored,
                 commandVars>>

(* runSessionCommandsSerialized: start the loop, or have it run again.     *)
RequestRerun(v, e) ==
  /\ e \in settled[v] \ Terminal
  /\ ~MaySkip(v, e)
  /\ loop[v] # "idle"
  /\ rerun' = [rerun EXCEPT ![v] = TRUE]
  /\ settled' = [settled EXCEPT ![v] = @ \ {e}]
  /\ Returns(v, e)
  /\ UNCHANGED <<workerVars, kind, host, subscribed, finished, loop, owner, todo, current,
                 stored, commandVars>>

StartLoop(v, e) ==
  /\ e \in settled[v] \ Terminal
  /\ ~MaySkip(v, e)
  /\ loop[v] = "idle"
  /\ loop' = [loop EXCEPT ![v] = "list"]
  /\ owner' = [owner EXCEPT ![v] = e]
  /\ rerun' = [rerun EXCEPT ![v] = FALSE]
  /\ settled' = [settled EXCEPT ![v] = @ \ {e}]
  /\ UNCHANGED <<workerVars, visitVars, incoming, todo, current, stored, commandVars>>
-----------------------------------------------------------------------------
(* executeSessionCommands and executeCommand.                              *)

PendingCommands == {c \in Commands : command[c] = "PENDING"}

ListCommands(v) ==
  /\ loop[v] = "list"
  /\ loop' = [loop EXCEPT ![v] = "claim"]
  /\ todo' = [todo EXCEPT ![v] = PendingCommands]
  /\ UNCHANGED <<workerVars, visitVars, incoming, settled, owner, rerun, current, stored,
                 commandVars>>

(* Mutant: markRunning, without a look at the status, instead of a claim.  *)
ClaimNextUnchecked(v, c) ==
  /\ loop[v] = "claim" /\ current[v] = None
  /\ c \in todo[v]
  /\ todo' = [todo EXCEPT ![v] = @ \ {c}]
  /\ command' = [command EXCEPT ![c] = "RUNNING"]
  /\ claimer' = [claimer EXCEPT ![c] = v]
  /\ current' = [current EXCEPT ![v] = c]
  /\ UNCHANGED <<workerVars, visitVars, incoming, settled, loop, owner, rerun, stored,
                 dispatcher>>

(* claimPending is atomic: a script in Redis, one turn in memory.          *)
ClaimPending(v, c) ==
  /\ command[c] = "PENDING"
  /\ command' = [command EXCEPT ![c] = "RUNNING"]
  /\ claimer' = [claimer EXCEPT ![c] = v]

ClaimNext(v, c) ==
  /\ loop[v] = "claim" /\ current[v] = None
  /\ c \in todo[v]
  /\ ClaimPending(v, c)
  /\ todo' = [todo EXCEPT ![v] = @ \ {c}]
  /\ current' = [current EXCEPT ![v] = c]
  /\ UNCHANGED <<workerVars, visitVars, incoming, settled, loop, owner, rerun, stored,
                 dispatcher>>

SkipClaimed(v, c) ==
  /\ loop[v] = "claim" /\ current[v] = None
  /\ c \in todo[v] /\ command[c] # "PENDING"
  /\ todo' = [todo EXCEPT ![v] = @ \ {c}]
  /\ UNCHANGED <<workerVars, visitVars, incoming, settled, loop, owner, rerun, current,
                 stored, commandVars>>

AgentEmits(v, e) ==
  /\ current[v] # None
  /\ e \in Events \ (ApiEvents \cup Terminal \cup stored)
  /\ stored' = stored \cup {e}
  /\ incoming' = Delivered({e})
  /\ UNCHANGED <<workerVars, visitVars, settled, loopVars, commandVars>>

(* update of the command repository: a read, then a write of the whole     *)
(* record; nobody else writes a command that is claimed.                   *)
UpdateCommand(c, newStatus) == command' = [command EXCEPT ![c] = newStatus]

MarkDone(v) ==
  /\ current[v] # None
  /\ UpdateCommand(current[v], "DONE")
  /\ current' = [current EXCEPT ![v] = None]
  /\ UNCHANGED <<workerVars, visitVars, incoming, settled, loop, owner, rerun, todo, stored,
                 dispatcher, claimer>>

(* markFailed, then a COMMAND_FAILED event.                                *)
MarkFailed(v, e) ==
  /\ current[v] # None
  /\ e \in Events \ (ApiEvents \cup Terminal \cup stored)
  /\ UpdateCommand(current[v], "FAILED")
  /\ current' = [current EXCEPT ![v] = None]
  /\ stored' = stored \cup {e}
  /\ incoming' = Delivered({e})
  /\ UNCHANGED <<workerVars, visitVars, settled, loop, owner, rerun, todo, dispatcher, claimer>>

LoopRound(v) == loop[v] = "claim" /\ current[v] = None /\ todo[v] = {}

LoopAgain(v) ==
  /\ LoopRound(v) /\ rerun[v]
  /\ loop' = [loop EXCEPT ![v] = "list"]
  /\ rerun' = [rerun EXCEPT ![v] = FALSE]
  /\ UNCHANGED <<workerVars, visitVars, incoming, settled, owner, todo, current, stored,
                 commandVars>>

(* Mutant: the loop is a plain run, rerunRequested is not looked at.       *)
LoopEndsUnconditionally(v) ==
  /\ LoopRound(v)
  /\ loop' = [loop EXCEPT ![v] = "idle"]
  /\ owner' = [owner EXCEPT ![v] = None]
  /\ Returns(v, owner[v])
  /\ UNCHANGED <<workerVars, kind, host, subscribed, finished, settled, rerun, todo, current,
                 stored, commandVars>>

LoopEnds(v) ==
  /\ LoopRound(v) /\ ~rerun[v]
  /\ loop' = [loop EXCEPT ![v] = "idle"]
  /\ owner' = [owner EXCEPT ![v] = None]
  /\ Returns(v, owner[v])
  /\ UNCHANGED <<workerVars, kind, host, subscribed, finished, settled, rerun, todo, current,
                 stored, commandVars>>
-----------------------------------------------------------------------------
HandleEvent(v, e) ==
  \/ \E new \in SUBSET (Events \ (ApiEvents \cup stored)) : HandlerEmits(v, e, new)
  \/ \E c \in Commands : HandlerDispatches(v, e, c)

Callback(v, e) ==
  \/ HandleEvent(v, e)  \/ Completes(v, e) \/ SkipsExecution(v, e)
  \/ RequestRerun(v, e) \/ StartLoop(v, e)

Execute(v) ==
  \/ ListCommands(v) \/ LoopAgain(v) \/ LoopEnds(v)
  \/ \E c \in Commands : ClaimNext(v, c) \/ SkipClaimed(v, c)
  \/ MarkDone(v) \/ \E e \in Events : MarkFailed(v, e)

Proceed(v) == Subscribe(v) \/ SkipCompleted(v) \/ ListEvents(v) \/ WaitOver(v)

Next ==
  \/ \E e \in Events : ApiEmits(e)
  \/ \E reason \in Reasons : Enqueue(reason)
  \/ \E w \in Workers : StopWorker(w) \/ LeaveLoop(w) \/ Restart(w)
  \/ \E w \in Workers, v \in Visits : Dequeue(w, v)
  \/ \E v \in Visits : Proceed(v) \/ Execute(v) \/ ReplayRejects(v) \/ ReplayLoopRejects(v)
  \/ \E v \in Visits, e \in Events : AgentEmits(v, e)
  \/ \E v \in Visits, e \in Events \cup {Replay} : Callback(v, e)

Spec == Init /\ [][Next]_vars

(* Node runs every callback that is due, an agent run comes to an end, and *)
(* a visit ends by its timeout at the latest.                              *)
Fairness ==
  \A v \in Visits :
    /\ WF_vars(Proceed(v))
    /\ WF_vars(Execute(v))
    /\ \A e \in Events \cup {Replay} : WF_vars(Callback(v, e))

FairSpec == Spec /\ Fairness
-----------------------------------------------------------------------------
(* The properties.                                                         *)

(* Every variable holds a value of its type.                               *)
TypeOK ==
  /\ queue \in Seq(ItemKind)
  /\ running \in [Workers -> BOOLEAN]
  /\ at \in [Workers -> Visits \cup {"polling", "stopped"}]
  /\ kind \in [Visits -> ItemKind]
  /\ host \in [Visits -> Workers \cup {None}]
  /\ stage \in [Visits -> Stage]
  /\ subscribed \subseteq Visits
  /\ incoming \in [Visits -> SUBSET (Events \cup {Replay})]
  /\ settled \in [Visits -> SUBSET (Events \cup {Replay})]
  /\ finished \in [Visits -> BOOLEAN]
  /\ loop \in [Visits -> {"idle", "list", "claim"}]
  /\ owner \in [Visits -> Events \cup {Replay, None}]
  /\ rerun \in [Visits -> BOOLEAN]
  /\ todo \in [Visits -> SUBSET Commands]
  /\ current \in [Visits -> Commands \cup {None}]
  /\ stored \subseteq Events
  /\ command \in [Commands -> CommandStatus]
  /\ dispatcher \in [Commands -> Visits \cup {None}]
  /\ claimer \in [Commands -> Visits \cup {None}]

(* A command an agent works on is RUNNING and was claimed by the visit     *)
(* whose loop executes it, so that no two agents ever work on the same     *)
(* command: several visits to a session, detached loops and restarted      *)
(* workers included.                                                       *)
ExecutesOwnClaim ==
  \A v \in Visits : current[v] # None =>
    command[current[v]] = "RUNNING" /\ claimer[current[v]] = v

(* A command that was claimed once is never claimed again, by anybody.     *)
ClaimedOnce ==
  [][\A c \in Commands : claimer[c] # None => claimer'[c] = claimer[c]]_vars

(* The visit is alive and may execute what it dispatches.                  *)
Serves(v) == stage[v] \notin {"failed", "dead"} /\ running[host[v]]

(* The visit will look for pending commands once more.                     *)
WillLookAgain(v) ==
  \/ settled[v] \ Terminal # {}
  \/ loop[v] = "list"
  \/ loop[v] = "claim" /\ rerun[v]

(* A pending command is never overlooked: the visit that dispatched it has *)
(* it in hand or will look for commands again, whatever comes between the  *)
(* dispatch, the callback that asks for a run, and the end of a run that   *)
(* was under way already (executingCommands, rerunRequested).              *)
NoLostWakeup ==
  \A c \in Commands :
    command[c] = "PENDING" /\ Serves(dispatcher[c]) =>
      c \in todo[dispatcher[c]] \/ WillLookAgain(dispatcher[c])

(* A worker process listens for the visit it is making and for no other:   *)
(* a finished visit does not hear of events, and handlers do not pile up   *)
(* in the bus over a worker's life.                                        *)
OneListenerPerWorker ==
  \A v \in subscribed : at[host[v]] = v /\ stage[v] \notin {"over", "failed", "dead"}

(* Every pending command is claimed, unless its dispatcher fails, dies or  *)
(* belongs to a worker that is stopping.                                   *)
PendingIsClaimed ==
  \A c \in Commands :
    command[c] = "PENDING" ~> command[c] # "PENDING" \/ ~Serves(dispatcher[c])

(* A worker comes free again: no visit holds it for ever.                  *)
WorkerComesFree ==
  \A w \in Workers, v \in Visits : at[w] = v ~> at[w] # v
=============================================================================
