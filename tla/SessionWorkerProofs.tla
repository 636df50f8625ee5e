------------------------ MODULE SessionWorkerProofs ------------------------
(***************************************************************************)
(* Theorems about SessionWorker for any numbers of workers, visits,        *)
(* commands and events.                                                    *)
(***************************************************************************)
EXTENDS SessionWorker, TLAPS

Inbox == [Visits -> SUBSET (Events \cup {Replay})]

(* What the bus hands to the visits that listen is an inbox.               *)
LEMMA DeliveredType ==
  ASSUME TypeOK, NEW new \in SUBSET Events
  PROVE  Delivered(new) \in Inbox
BY DEF TypeOK, Delivered, Inbox

(* What a late callback hands to a later visit is an inbox.                *)
LEMMA PassedOnType ==
  ASSUME TypeOK, NEW v \in Visits, NEW e \in Events \cup {Replay}
  PROVE  PassedOn(v, e) \in Inbox
BY DEF TypeOK, PassedOn, Inbox

(* Closing a visit keeps the types: the unsubscribe of processSession.     *)
LEMMA CloseVisitType ==
  ASSUME TypeOK, NEW v \in Visits, NEW as \in Stage, CloseVisit(v, as)
  PROVE  /\ stage' \in [Visits -> Stage]
         /\ subscribed' \subseteq Visits
         /\ at' \in [Workers -> Visits \cup {"polling", "stopped"}]
         /\ incoming' \in Inbox
         /\ UNCHANGED <<queue, running, kind, host, finished, settled, stored, commandVars>>
<1>1. stage' \in [Visits -> Stage] /\ subscribed' \subseteq Visits
  BY DEF TypeOK, CloseVisit
<1>2. at' \in [Workers -> Visits \cup {"polling", "stopped"}]
  BY DEF TypeOK, CloseVisit
<1>3. incoming' \in Inbox
  BY DEF TypeOK, CloseVisit, Inbox
<1> QED
  BY <1>1, <1>2, <1>3 DEF CloseVisit

(* The loop belongs to a callback exactly while it runs.                   *)
LoopOwned == \A v \in Visits : loop[v] = "idle" <=> owner[v] = None

(* A loop is given to a callback when it starts and taken from it when it  *)
(* ends, in every step.                                                    *)
LEMMA LoopOwnedStep == TypeOK /\ LoopOwned /\ [Next]_vars => LoopOwned'
<1> SUFFICES ASSUME TypeOK, LoopOwned, [Next]_vars,
                    NEW x \in Visits
             PROVE  loop'[x] = "idle" <=> owner'[x] = None
  BY DEF LoopOwned
<1> USE SessionWorkerAssumption DEF TypeOK, LoopOwned, vars, loopVars
<1>1. ASSUME NEW e \in Events, ApiEmits(e) PROVE loop'[x] = "idle" <=> owner'[x] = None
  BY <1>1 DEF ApiEmits
<1>2. ASSUME NEW r \in Reasons, Enqueue(r) PROVE loop'[x] = "idle" <=> owner'[x] = None
  BY <1>2 DEF Enqueue, Push
<1>3. ASSUME NEW w \in Workers, StopWorker(w) PROVE loop'[x] = "idle" <=> owner'[x] = None
  BY <1>3 DEF StopWorker
<1>4. ASSUME NEW w \in Workers, LeaveLoop(w) PROVE loop'[x] = "idle" <=> owner'[x] = None
  BY <1>4 DEF LeaveLoop
<1>5. ASSUME NEW w \in Workers, Restart(w) PROVE loop'[x] = "idle" <=> owner'[x] = None
  BY <1>5 DEF Restart
<1>6. ASSUME NEW w \in Workers, NEW v \in Visits, Dequeue(w, v)
      PROVE loop'[x] = "idle" <=> owner'[x] = None
  BY <1>6 DEF Dequeue
<1>7. ASSUME NEW v \in Visits, Subscribe(v) PROVE loop'[x] = "idle" <=> owner'[x] = None
  BY <1>7 DEF Subscribe
<1>8. ASSUME NEW v \in Visits, SkipCompleted(v)
      PROVE loop'[x] = "idle" <=> owner'[x] = None
  BY <1>8 DEF SkipCompleted
<1>9. ASSUME NEW v \in Visits, ListEvents(v) PROVE loop'[x] = "idle" <=> owner'[x] = None
  BY <1>9 DEF ListEvents
<1>10. ASSUME NEW v \in Visits, WaitOver(v) PROVE loop'[x] = "idle" <=> owner'[x] = None
  BY <1>10 DEF WaitOver
<1>11. ASSUME NEW v \in Visits, ReplayRejects(v)
      PROVE loop'[x] = "idle" <=> owner'[x] = None
  BY <1>11 DEF ReplayRejects
<1>12. ASSUME NEW v \in Visits, ReplayLoopRejects(v)
      PROVE loop'[x] = "idle" <=> owner'[x] = None
  BY <1>12 DEF ReplayLoopRejects
<1>13. ASSUME NEW v \in Visits, NEW e \in Events \cup {Replay},
              NEW new \in SUBSET (Events \ (ApiEvents \cup stored)), HandlerEmits(v, e, new)
      PROVE loop'[x] = "idle" <=> owner'[x] = None
  BY <1>13 DEF HandlerEmits
<1>14. ASSUME NEW v \in Visits, NEW e \in Events \cup {Replay},
              NEW c \in Commands, HandlerDispatches(v, e, c)
      PROVE loop'[x] = "idle" <=> owner'[x] = None
  BY <1>14 DEF HandlerDispatches, CreateCommand, Push
<1>15. ASSUME NEW v \in Visits, NEW e \in Events \cup {Replay}, Completes(v, e)
      PROVE loop'[x] = "idle" <=> owner'[x] = None
  BY <1>15 DEF Completes, Returns
<1>16. ASSUME NEW v \in Visits, NEW e \in Events \cup {Replay}, SkipsExecution(v, e)
      PROVE loop'[x] = "idle" <=> owner'[x] = None
  BY <1>16 DEF SkipsExecution, Returns
<1>17. ASSUME NEW v \in Visits, NEW e \in Events \cup {Replay}, RequestRerun(v, e)
      PROVE loop'[x] = "idle" <=> owner'[x] = None
  BY <1>17 DEF RequestRerun, Returns
<1>18. ASSUME NEW v \in Visits, NEW e \in Events \cup {Replay}, StartLoop(v, e)
      PROVE loop'[x] = "idle" <=> owner'[x] = None
  BY <1>18 DEF StartLoop
<1>19. ASSUME NEW v \in Visits, ListCommands(v)
      PROVE loop'[x] = "idle" <=> owner'[x] = None
  BY <1>19 DEF ListCommands, PendingCommands
<1>20. ASSUME NEW v \in Visits, NEW c \in Commands, ClaimNext(v, c)
      PROVE loop'[x] = "idle" <=> owner'[x] = None
  BY <1>20 DEF ClaimNext, ClaimPending
<1>21. ASSUME NEW v \in Visits, NEW c \in Commands, SkipClaimed(v, c)
      PROVE loop'[x] = "idle" <=> owner'[x] = None
  BY <1>21 DEF SkipClaimed
<1>22. ASSUME NEW v \in Visits, NEW e \in Events, AgentEmits(v, e)
      PROVE loop'[x] = "idle" <=> owner'[x] = None
  BY <1>22 DEF AgentEmits
<1>23. ASSUME NEW v \in Visits, MarkDone(v) PROVE loop'[x] = "idle" <=> owner'[x] = None
  BY <1>23 DEF MarkDone, UpdateCommand
<1>24. ASSUME NEW v \in Visits, NEW e \in Events, MarkFailed(v, e)
      PROVE loop'[x] = "idle" <=> owner'[x] = None
  BY <1>24 DEF MarkFailed, UpdateCommand
<1>25. ASSUME NEW v \in Visits, LoopAgain(v) PROVE loop'[x] = "idle" <=> owner'[x] = None
  BY <1>25 DEF LoopAgain, LoopRound
<1>26. ASSUME NEW v \in Visits, LoopEnds(v) PROVE loop'[x] = "idle" <=> owner'[x] = None
  BY <1>26 DEF LoopEnds, LoopRound
<1>27. CASE UNCHANGED vars
  BY <1>27
<1> QED
  BY <1>1, <1>2, <1>3, <1>4, <1>5, <1>6, <1>7, <1>8, <1>9, <1>10, <1>11, <1>12, <1>13,
      <1>14, <1>15, <1>16, <1>17, <1>18, <1>19, <1>20, <1>21, <1>22, <1>23, <1>24,
      <1>25, <1>26, <1>27
  DEF Next, Proceed, Callback, Execute, HandleEvent

(* Every step of the worker, its callbacks and its loops keeps the types.  *)
LEMMA TypeStep == TypeOK /\ LoopOwned /\ [Next]_vars => TypeOK'
<1> SUFFICES ASSUME TypeOK, LoopOwned, [Next]_vars PROVE TypeOK'
  OBVIOUS
<1> USE SessionWorkerAssumption DEF TypeOK, ItemKind, Reasons, Stage, CommandStatus,
        vars, workerVars, visitVars, loopVars, commandVars
<1>1. ASSUME NEW e \in Events, ApiEmits(e) PROVE TypeOK'
  BY <1>1, DeliveredType DEF ApiEmits, Inbox
<1>2. ASSUME NEW r \in Reasons, Enqueue(r) PROVE TypeOK'
  BY <1>2 DEF Enqueue, Push
<1>3. ASSUME NEW w \in Workers, StopWorker(w) PROVE TypeOK'
  BY <1>3 DEF StopWorker
<1>4. ASSUME NEW w \in Workers, LeaveLoop(w) PROVE TypeOK'
  BY <1>4 DEF LeaveLoop
<1>5. ASSUME NEW w \in Workers, Restart(w) PROVE TypeOK'
  BY <1>5 DEF Restart
<1>6. ASSUME NEW w \in Workers, NEW v \in Visits, Dequeue(w, v) PROVE TypeOK'
  BY <1>6 DEF Dequeue
<1>7. ASSUME NEW v \in Visits, Subscribe(v) PROVE TypeOK'
  BY <1>7 DEF Subscribe
<1>8. ASSUME NEW v \in Visits, SkipCompleted(v) PROVE TypeOK'
  BY <1>8, CloseVisitType DEF SkipCompleted, Inbox
<1>9. ASSUME NEW v \in Visits, ListEvents(v) PROVE TypeOK'
  BY <1>9 DEF ListEvents
<1>10. ASSUME NEW v \in Visits, WaitOver(v) PROVE TypeOK'
  BY <1>10, CloseVisitType DEF WaitOver, Inbox
<1>11. ASSUME NEW v \in Visits, ReplayRejects(v) PROVE TypeOK'
  BY <1>11, CloseVisitType DEF ReplayRejects, Inbox
<1>12. ASSUME NEW v \in Visits, ReplayLoopRejects(v) PROVE TypeOK'
  BY <1>12, CloseVisitType DEF ReplayLoopRejects, Inbox
<1>13. ASSUME NEW v \in Visits, NEW e \in Events \cup {Replay},
              NEW new \in SUBSET (Events \ (ApiEvents \cup stored)), HandlerEmits(v, e, new)
      PROVE TypeOK'
  BY <1>13, DeliveredType DEF HandlerEmits, Inbox
<1>14. ASSUME NEW v \in Visits, NEW e \in Events \cup {Replay},
              NEW c \in Commands, HandlerDispatches(v, e, c)
      PROVE TypeOK'
  BY <1>14 DEF HandlerDispatches, CreateCommand, Push
<1>15. ASSUME NEW v \in Visits, NEW e \in Events \cup {Replay}, Completes(v, e)
      PROVE TypeOK'
  BY <1>15, PassedOnType DEF Completes, Returns, Inbox
<1>16. ASSUME NEW v \in Visits, NEW e \in Events \cup {Replay}, SkipsExecution(v, e)
      PROVE TypeOK'
  BY <1>16, PassedOnType DEF SkipsExecution, Returns, Inbox
<1>17. ASSUME NEW v \in Visits, NEW e \in Events \cup {Replay}, RequestRerun(v, e)
      PROVE TypeOK'
  BY <1>17, PassedOnType DEF RequestRerun, Returns, Inbox
<1>18. ASSUME NEW v \in Visits, NEW e \in Events \cup {Replay}, StartLoop(v, e)
      PROVE TypeOK'
  BY <1>18 DEF StartLoop
<1>19. ASSUME NEW v \in Visits, ListCommands(v) PROVE TypeOK'
  BY <1>19 DEF ListCommands, PendingCommands
<1>20. ASSUME NEW v \in Visits, NEW c \in Commands, ClaimNext(v, c) PROVE TypeOK'
  BY <1>20 DEF ClaimNext, ClaimPending
<1>21. ASSUME NEW v \in Visits, NEW c \in Commands, SkipClaimed(v, c) PROVE TypeOK'
  BY <1>21 DEF SkipClaimed
<1>22. ASSUME NEW v \in Visits, NEW e \in Events, AgentEmits(v, e) PROVE TypeOK'
  BY <1>22, DeliveredType DEF AgentEmits, Inbox
<1>23. ASSUME NEW v \in Visits, MarkDone(v) PROVE TypeOK'
  BY <1>23 DEF MarkDone, UpdateCommand
<1>24. ASSUME NEW v \in Visits, NEW e \in Events, MarkFailed(v, e) PROVE TypeOK'
  BY <1>24, DeliveredType DEF MarkFailed, UpdateCommand, Inbox
<1>25. ASSUME NEW v \in Visits, LoopAgain(v) PROVE TypeOK'
  BY <1>25 DEF LoopAgain
<1>26. ASSUME NEW v \in Visits, LoopEnds(v) PROVE TypeOK'
  <2>1. owner[v] \in Events \cup {Replay}
    BY <1>26 DEF LoopEnds, LoopRound, LoopOwned
  <2> QED
    BY <1>26, <2>1, PassedOnType DEF LoopEnds, Returns, Inbox
<1>27. CASE UNCHANGED vars
  BY <1>27
<1> QED
  BY <1>1, <1>2, <1>3, <1>4, <1>5, <1>6, <1>7, <1>8, <1>9, <1>10, <1>11, <1>12, <1>13,
      <1>14, <1>15, <1>16, <1>17, <1>18, <1>19, <1>20, <1>21, <1>22, <1>23, <1>24,
      <1>25, <1>26, <1>27
  DEF Next, Proceed, Callback, Execute, HandleEvent

-----------------------------------------------------------------------------
(* The replay of a visit is in one place at a time, while the visit is in  *)
(* that stage.                                                             *)
ReplayOK(v) ==
  /\ Replay \in incoming[v] =>
       stage[v] = "replaying" /\ Replay \notin settled[v] /\ owner[v] # Replay
  /\ Replay \in settled[v] => stage[v] = "replaying" /\ owner[v] # Replay
  /\ owner[v] = Replay => stage[v] = "replaying"

ReplayInv == \A v \in Visits : ReplayOK(v)

(* The replay of past events is under way only while the visit replays.    *)
LEMMA ReplayStep == TypeOK /\ LoopOwned /\ ReplayInv /\ [Next]_vars => ReplayInv'
<1> SUFFICES ASSUME TypeOK, LoopOwned, ReplayInv, [Next]_vars,
                    NEW x \in Visits
             PROVE  ReplayOK(x)'
  BY DEF ReplayInv
<1> USE SessionWorkerAssumption DEF TypeOK, ReplayInv, ReplayOK, vars, workerVars,
        visitVars, loopVars
<1>1. ASSUME NEW e \in Events, ApiEmits(e) PROVE ReplayOK(x)'
  BY <1>1 DEF ApiEmits, Delivered
<1>2. ASSUME NEW r \in Reasons, Enqueue(r) PROVE ReplayOK(x)'
  BY <1>2 DEF Enqueue, Push
<1>3. ASSUME NEW w \in Workers, StopWorker(w) PROVE ReplayOK(x)'
  BY <1>3 DEF StopWorker
<1>4. ASSUME NEW w \in Workers, LeaveLoop(w) PROVE ReplayOK(x)'
  BY <1>4 DEF LeaveLoop
<1>5. ASSUME NEW w \in Workers, Restart(w) PROVE ReplayOK(x)'
  BY <1>5 DEF Restart
<1>6. ASSUME NEW w \in Workers, NEW v \in Visits, Dequeue(w, v) PROVE ReplayOK(x)'
  BY <1>6 DEF Dequeue
<1>7. ASSUME NEW v \in Visits, Subscribe(v) PROVE ReplayOK(x)'
  BY <1>7 DEF Subscribe
<1>8. ASSUME NEW v \in Visits, SkipCompleted(v) PROVE ReplayOK(x)'
  BY <1>8 DEF CloseVisit, SkipCompleted
<1>9. ASSUME NEW v \in Visits, ListEvents(v) PROVE ReplayOK(x)'
  BY <1>9 DEF ListEvents
<1>10. ASSUME NEW v \in Visits, WaitOver(v) PROVE ReplayOK(x)'
  BY <1>10 DEF CloseVisit, WaitOver
<1>11. ASSUME NEW v \in Visits, ReplayRejects(v) PROVE ReplayOK(x)'
  BY <1>11 DEF CloseVisit, ReplayRejects
<1>12. ASSUME NEW v \in Visits, ReplayLoopRejects(v) PROVE ReplayOK(x)'
  BY <1>12 DEF CloseVisit, ReplayLoopRejects
<1>13. ASSUME NEW v \in Visits, NEW e \in Events \cup {Replay},
              NEW new \in SUBSET (Events \ (ApiEvents \cup stored)), HandlerEmits(v, e, new)
      PROVE ReplayOK(x)'
  BY <1>13 DEF HandlerEmits, Delivered
<1>14. ASSUME NEW v \in Visits, NEW e \in Events \cup {Replay},
              NEW c \in Commands, HandlerDispatches(v, e, c)
      PROVE ReplayOK(x)'
  BY <1>14 DEF HandlerDispatches, CreateCommand, Push
<1>15. ASSUME NEW v \in Visits, NEW e \in Events \cup {Replay}, Completes(v, e)
      PROVE ReplayOK(x)'
  BY <1>15 DEF Completes, Returns, PassedOn
<1>16. ASSUME NEW v \in Visits, NEW e \in Events \cup {Replay}, SkipsExecution(v, e)
      PROVE ReplayOK(x)'
  BY <1>16 DEF SkipsExecution, Returns, PassedOn
<1>17. ASSUME NEW v \in Visits, NEW e \in Events \cup {Replay}, RequestRerun(v, e)
      PROVE ReplayOK(x)'
  BY <1>17 DEF RequestRerun, Returns, PassedOn
<1>18. ASSUME NEW v \in Visits, NEW e \in Events \cup {Replay}, StartLoop(v, e)
      PROVE ReplayOK(x)'
  BY <1>18 DEF StartLoop
<1>19. ASSUME NEW v \in Visits, ListCommands(v) PROVE ReplayOK(x)'
  BY <1>19 DEF ListCommands, PendingCommands
<1>20. ASSUME NEW v \in Visits, NEW c \in Commands, ClaimNext(v, c) PROVE ReplayOK(x)'
  BY <1>20 DEF ClaimNext, ClaimPending
<1>21. ASSUME NEW v \in Visits, NEW c \in Commands, SkipClaimed(v, c) PROVE ReplayOK(x)'
  BY <1>21 DEF SkipClaimed
<1>22. ASSUME NEW v \in Visits, NEW e \in Events, AgentEmits(v, e) PROVE ReplayOK(x)'
  BY <1>22 DEF AgentEmits, Delivered
<1>23. ASSUME NEW v \in Visits, MarkDone(v) PROVE ReplayOK(x)'
  BY <1>23 DEF MarkDone, UpdateCommand
<1>24. ASSUME NEW v \in Visits, NEW e \in Events, MarkFailed(v, e) PROVE ReplayOK(x)'
  BY <1>24 DEF MarkFailed, UpdateCommand, Delivered
<1>25. ASSUME NEW v \in Visits, LoopAgain(v) PROVE ReplayOK(x)'
  BY <1>25 DEF LoopAgain
<1>26. ASSUME NEW v \in Visits, LoopEnds(v) PROVE ReplayOK(x)'
  BY <1>26 DEF LoopEnds, LoopRound, Returns, PassedOn, LoopRound, LoopOwned
<1>27. CASE UNCHANGED vars
  BY <1>27
<1> QED
  BY <1>1, <1>2, <1>3, <1>4, <1>5, <1>6, <1>7, <1>8, <1>9, <1>10, <1>11, <1>12, <1>13,
      <1>14, <1>15, <1>16, <1>17, <1>18, <1>19, <1>20, <1>21, <1>22, <1>23, <1>24,
      <1>25, <1>26, <1>27
  DEF Next, Proceed, Callback, Execute, HandleEvent

-----------------------------------------------------------------------------
(* A visit under way is the one its worker awaits; only such a visit is    *)
(* subscribed; one that was not begun has had nothing to do with events.   *)
Underway == {"opening", "listing", "replaying", "waiting"}

VisitOK(v) ==
  /\ stage[v] # "fresh" => host[v] \in Workers
  /\ stage[v] \in Underway => at[host[v]] = v
  /\ v \in subscribed => stage[v] \in Underway
  /\ stage[v] = "fresh" => incoming[v] = {} /\ settled[v] = {}

VisitInv == \A v \in Visits : VisitOK(v)

(* Closing a visit leaves the other visits of all workers as they are.     *)
LEMMA CloseVisitOK ==
  ASSUME TypeOK, VisitInv, NEW v \in Visits, NEW as \in {"over", "failed"},
         stage[v] \in Underway, CloseVisit(v, as)
  PROVE  VisitInv'
<1> SUFFICES ASSUME NEW x \in Visits PROVE VisitOK(x)'
  BY DEF VisitInv
<1> USE SessionWorkerAssumption DEF TypeOK, VisitInv, VisitOK, Underway, CloseVisit
<1>1. CASE x = v
  BY <1>1
<1>2. CASE x # v
  <2>1. stage[x] \in Underway => host[x] # host[v]
    BY <1>2
  <2> QED
    BY <1>2, <2>1
<1> QED
  BY <1>1, <1>2

(* No step makes a worker await two visits, or a closed visit listen.      *)
LEMMA VisitStep == TypeOK /\ ReplayInv /\ VisitInv /\ [Next]_vars => VisitInv'
<1> SUFFICES ASSUME TypeOK, ReplayInv, VisitInv, [Next]_vars PROVE VisitInv'
  OBVIOUS
<1> USE SessionWorkerAssumption DEF TypeOK, VisitInv, VisitOK, Underway, vars, workerVars,
        visitVars
<1>1. ASSUME NEW e \in Events, ApiEmits(e) PROVE VisitInv'
  BY <1>1 DEF ApiEmits, Delivered, Listening
<1>2. ASSUME NEW r \in Reasons, Enqueue(r) PROVE VisitInv'
  BY <1>2 DEF Enqueue, Push
<1>3. ASSUME NEW w \in Workers, StopWorker(w) PROVE VisitInv'
  BY <1>3 DEF StopWorker
<1>4. ASSUME NEW w \in Workers, LeaveLoop(w) PROVE VisitInv'
  BY <1>4 DEF LeaveLoop
<1>5. ASSUME NEW w \in Workers, Restart(w) PROVE VisitInv'
  BY <1>5 DEF Restart
<1>6. ASSUME NEW w \in Workers, NEW v \in Visits, Dequeue(w, v) PROVE VisitInv'
  BY <1>6 DEF Dequeue
<1>7. ASSUME NEW v \in Visits, Subscribe(v) PROVE VisitInv'
  BY <1>7 DEF Subscribe
<1>8. ASSUME NEW v \in Visits, SkipCompleted(v) PROVE VisitInv'
  BY <1>8, CloseVisitOK DEF SkipCompleted
<1>9. ASSUME NEW v \in Visits, ListEvents(v) PROVE VisitInv'
  BY <1>9 DEF ListEvents
<1>10. ASSUME NEW v \in Visits, WaitOver(v) PROVE VisitInv'
  BY <1>10, CloseVisitOK DEF WaitOver
<1>11. ASSUME NEW v \in Visits, ReplayRejects(v) PROVE VisitInv'
  BY <1>11, CloseVisitOK DEF ReplayRejects
<1>12. ASSUME NEW v \in Visits, ReplayLoopRejects(v) PROVE VisitInv'
  BY <1>12, CloseVisitOK DEF ReplayLoopRejects
<1>13. ASSUME NEW v \in Visits, NEW e \in Events \cup {Replay},
              NEW new \in SUBSET (Events \ (ApiEvents \cup stored)), HandlerEmits(v, e, new)
      PROVE VisitInv'
  BY <1>13 DEF HandlerEmits, Delivered, Listening
<1>14. ASSUME NEW v \in Visits, NEW e \in Events \cup {Replay},
              NEW c \in Commands, HandlerDispatches(v, e, c)
      PROVE VisitInv'
  BY <1>14 DEF HandlerDispatches, CreateCommand, Push
<1>15. ASSUME NEW v \in Visits, NEW e \in Events \cup {Replay}, Completes(v, e)
      PROVE VisitInv'
  BY <1>15 DEF Completes, Returns, PassedOn, Listening,
                  ReplayInv, ReplayOK
<1>16. ASSUME NEW v \in Visits, NEW e \in Events \cup {Replay}, SkipsExecution(v, e)
      PROVE VisitInv'
  BY <1>16 DEF SkipsExecution, Returns, PassedOn, Listening,
                  ReplayInv, ReplayOK
<1>17. ASSUME NEW v \in Visits, NEW e \in Events \cup {Replay}, RequestRerun(v, e)
      PROVE VisitInv'
  BY <1>17 DEF RequestRerun, Returns, PassedOn, Listening,
                  ReplayInv, ReplayOK
<1>18. ASSUME NEW v \in Visits, NEW e \in Events \cup {Replay}, StartLoop(v, e)
      PROVE VisitInv'
  BY <1>18 DEF StartLoop
<1>19. ASSUME NEW v \in Visits, ListCommands(v) PROVE VisitInv'
  BY <1>19 DEF ListCommands, PendingCommands
<1>20. ASSUME NEW v \in Visits, NEW c \in Commands, ClaimNext(v, c) PROVE VisitInv'
  BY <1>20 DEF ClaimNext, ClaimPending
<1>21. ASSUME NEW v \in Visits, NEW c \in Commands, SkipClaimed(v, c) PROVE VisitInv'
  BY <1>21 DEF SkipClaimed
<1>22. ASSUME NEW v \in Visits, NEW e \in Events, AgentEmits(v, e) PROVE VisitInv'
  BY <1>22 DEF AgentEmits, Delivered, Listening
<1>23. ASSUME NEW v \in Visits, MarkDone(v) PROVE VisitInv'
  BY <1>23 DEF MarkDone, UpdateCommand
<1>24. ASSUME NEW v \in Visits, NEW e \in Events, MarkFailed(v, e) PROVE VisitInv'
  BY <1>24 DEF MarkFailed, UpdateCommand, Delivered, Listening
<1>25. ASSUME NEW v \in Visits, LoopAgain(v) PROVE VisitInv'
  BY <1>25 DEF LoopAgain
<1>26. ASSUME NEW v \in Visits, LoopEnds(v) PROVE VisitInv'
  BY <1>26 DEF LoopEnds, LoopRound, Returns, PassedOn, Listening,
                  ReplayInv, ReplayOK
<1>27. CASE UNCHANGED vars
  BY <1>27
<1> QED
  BY <1>1, <1>2, <1>3, <1>4, <1>5, <1>6, <1>7, <1>8, <1>9, <1>10, <1>11, <1>12, <1>13,
      <1>14, <1>15, <1>16, <1>17, <1>18, <1>19, <1>20, <1>21, <1>22, <1>23, <1>24,
      <1>25, <1>26, <1>27
  DEF Next, Proceed, Callback, Execute, HandleEvent

-----------------------------------------------------------------------------
(* Nobody has claimed a command that is still pending.                     *)
ClaimInv ==
  /\ ExecutesOwnClaim
  /\ \A c \in Commands : command[c] \in {"absent", "PENDING"} => claimer[c] = None

(* Only claimPending gives a command to a visit, and only a pending one.   *)
LEMMA ClaimStep ==
  ASSUME TypeOK, ClaimInv, [Next]_vars
  PROVE  /\ ClaimInv'
         /\ \A c \in Commands : claimer[c] # None => claimer'[c] = claimer[c]
<1> DEFINE Kept == \A c \in Commands : claimer[c] # None => claimer'[c] = claimer[c]
<1> USE SessionWorkerAssumption DEF TypeOK, ClaimInv, ExecutesOwnClaim, vars, loopVars,
        commandVars
<1>1. ASSUME NEW e \in Events, ApiEmits(e) PROVE ClaimInv' /\ Kept
  BY <1>1 DEF ApiEmits
<1>2. ASSUME NEW r \in Reasons, Enqueue(r) PROVE ClaimInv' /\ Kept
  BY <1>2 DEF Enqueue, Push
<1>3. ASSUME NEW w \in Workers, StopWorker(w) PROVE ClaimInv' /\ Kept
  BY <1>3 DEF StopWorker
<1>4. ASSUME NEW w \in Workers, LeaveLoop(w) PROVE ClaimInv' /\ Kept
  BY <1>4 DEF LeaveLoop
<1>5. ASSUME NEW w \in Workers, Restart(w) PROVE ClaimInv' /\ Kept
  BY <1>5 DEF Restart
<1>6. ASSUME NEW w \in Workers, NEW v \in Visits, Dequeue(w, v) PROVE ClaimInv' /\ Kept
  BY <1>6 DEF Dequeue
<1>7. ASSUME NEW v \in Visits, Subscribe(v) PROVE ClaimInv' /\ Kept
  BY <1>7 DEF Subscribe
<1>8. ASSUME NEW v \in Visits, SkipCompleted(v) PROVE ClaimInv' /\ Kept
  BY <1>8 DEF SkipCompleted, CloseVisit
<1>9. ASSUME NEW v \in Visits, ListEvents(v) PROVE ClaimInv' /\ Kept
  BY <1>9 DEF ListEvents
<1>10. ASSUME NEW v \in Visits, WaitOver(v) PROVE ClaimInv' /\ Kept
  BY <1>10 DEF WaitOver, CloseVisit
<1>11. ASSUME NEW v \in Visits, ReplayRejects(v) PROVE ClaimInv' /\ Kept
  BY <1>11 DEF ReplayRejects, CloseVisit
<1>12. ASSUME NEW v \in Visits, ReplayLoopRejects(v) PROVE ClaimInv' /\ Kept
  BY <1>12 DEF ReplayLoopRejects, CloseVisit
<1>13. ASSUME NEW v \in Visits, NEW e \in Events \cup {Replay},
              NEW new \in SUBSET (Events \ (ApiEvents \cup stored)), HandlerEmits(v, e, new)
      PROVE ClaimInv' /\ Kept
  BY <1>13 DEF HandlerEmits
<1>14. ASSUME NEW v \in Visits, NEW e \in Events \cup {Replay},
              NEW c \in Commands, HandlerDispatches(v, e, c)
      PROVE ClaimInv' /\ Kept
  BY <1>14 DEF HandlerDispatches, CreateCommand, Push
<1>15. ASSUME NEW v \in Visits, NEW e \in Events \cup {Replay}, Completes(v, e)
      PROVE ClaimInv' /\ Kept
  BY <1>15 DEF Completes, Returns
<1>16. ASSUME NEW v \in Visits, NEW e \in Events \cup {Replay}, SkipsExecution(v, e)
      PROVE ClaimInv' /\ Kept
  BY <1>16 DEF SkipsExecution, Returns
<1>17. ASSUME NEW v \in Visits, NEW e \in Events \cup {Replay}, RequestRerun(v, e)
      PROVE ClaimInv' /\ Kept
  BY <1>17 DEF RequestRerun, Returns
<1>18. ASSUME NEW v \in Visits, NEW e \in Events \cup {Replay}, StartLoop(v, e)
      PROVE ClaimInv' /\ Kept
  BY <1>18 DEF StartLoop
<1>19. ASSUME NEW v \in Visits, ListCommands(v) PROVE ClaimInv' /\ Kept
  BY <1>19 DEF ListCommands, PendingCommands
<1>20. ASSUME NEW v \in Visits, NEW c \in Commands, ClaimNext(v, c)
      PROVE ClaimInv' /\ Kept
  BY <1>20 DEF ClaimNext, ClaimPending
<1>21. ASSUME NEW v \in Visits, NEW c \in Commands, SkipClaimed(v, c)
      PROVE ClaimInv' /\ Kept
  BY <1>21 DEF SkipClaimed
<1>22. ASSUME NEW v \in Visits, NEW e \in Events, AgentEmits(v, e) PROVE ClaimInv' /\ Kept
  BY <1>22 DEF AgentEmits
<1>23. ASSUME NEW v \in Visits, MarkDone(v) PROVE ClaimInv' /\ Kept
  BY <1>23 DEF MarkDone, UpdateCommand
<1>24. ASSUME NEW v \in Visits, NEW e \in Events, MarkFailed(v, e) PROVE ClaimInv' /\ Kept
  BY <1>24 DEF MarkFailed, UpdateCommand
<1>25. ASSUME NEW v \in Visits, LoopAgain(v) PROVE ClaimInv' /\ Kept
  BY <1>25 DEF LoopAgain
<1>26. ASSUME NEW v \in Visits, LoopEnds(v) PROVE ClaimInv' /\ Kept
  BY <1>26 DEF LoopEnds, LoopRound, Returns
<1>27. CASE UNCHANGED vars
  BY <1>27
<1> QED
  BY <1>1, <1>2, <1>3, <1>4, <1>5, <1>6, <1>7, <1>8, <1>9, <1>10, <1>11, <1>12, <1>13,
      <1>14, <1>15, <1>16, <1>17, <1>18, <1>19, <1>20, <1>21, <1>22, <1>23, <1>24,
      <1>25, <1>26, <1>27
  DEF Next, Proceed, Callback, Execute, HandleEvent

-----------------------------------------------------------------------------
(* A command that exists was dispatched by a visit that had begun.         *)
DispatchInv ==
  \A c \in Commands : command[c] # "absent" =>
    dispatcher[c] \in Visits /\ stage[dispatcher[c]] # "fresh"

(* The visit handles an event, so it has begun.                            *)
LEMMA DispatchStep ==
  TypeOK /\ LoopOwned /\ VisitInv /\ ClaimInv /\ DispatchInv /\ [Next]_vars => DispatchInv'
<1> SUFFICES ASSUME TypeOK, LoopOwned, VisitInv, ClaimInv, DispatchInv, [Next]_vars,
                    NEW x \in Commands, command'[x] # "absent"
             PROVE  dispatcher'[x] \in Visits /\ stage'[dispatcher'[x]] # "fresh"
  BY DEF DispatchInv
<1> USE SessionWorkerAssumption DEF TypeOK, DispatchInv, vars, workerVars, visitVars,
        commandVars
<1>1. ASSUME NEW e \in Events, ApiEmits(e)
      PROVE dispatcher'[x] \in Visits /\ stage'[dispatcher'[x]] # "fresh"
  BY <1>1 DEF ApiEmits
<1>2. ASSUME NEW r \in Reasons, Enqueue(r)
      PROVE dispatcher'[x] \in Visits /\ stage'[dispatcher'[x]] # "fresh"
  BY <1>2 DEF Enqueue, Push
<1>3. ASSUME NEW w \in Workers, StopWorker(w)
      PROVE dispatcher'[x] \in Visits /\ stage'[dispatcher'[x]] # "fresh"
  BY <1>3 DEF StopWorker
<1>4. ASSUME NEW w \in Workers, LeaveLoop(w)
      PROVE dispatcher'[x] \in Visits /\ stage'[dispatcher'[x]] # "fresh"
  BY <1>4 DEF LeaveLoop
<1>5. ASSUME NEW w \in Workers, Restart(w)
      PROVE dispatcher'[x] \in Visits /\ stage'[dispatcher'[x]] # "fresh"
  BY <1>5 DEF Restart
<1>6. ASSUME NEW w \in Workers, NEW v \in Visits, Dequeue(w, v)
      PROVE dispatcher'[x] \in Visits /\ stage'[dispatcher'[x]] # "fresh"
  BY <1>6 DEF Dequeue
<1>7. ASSUME NEW v \in Visits, Subscribe(v)
      PROVE dispatcher'[x] \in Visits /\ stage'[dispatcher'[x]] # "fresh"
  BY <1>7 DEF Subscribe
<1>8. ASSUME NEW v \in Visits, SkipCompleted(v)
      PROVE dispatcher'[x] \in Visits /\ stage'[dispatcher'[x]] # "fresh"
  BY <1>8 DEF CloseVisit, SkipCompleted
<1>9. ASSUME NEW v \in Visits, ListEvents(v)
      PROVE dispatcher'[x] \in Visits /\ stage'[dispatcher'[x]] # "fresh"
  BY <1>9 DEF ListEvents
<1>10. ASSUME NEW v \in Visits, WaitOver(v)
      PROVE dispatcher'[x] \in Visits /\ stage'[dispatcher'[x]] # "fresh"
  BY <1>10 DEF CloseVisit, WaitOver
<1>11. ASSUME NEW v \in Visits, ReplayRejects(v)
      PROVE dispatcher'[x] \in Visits /\ stage'[dispatcher'[x]] # "fresh"
  BY <1>11 DEF CloseVisit, ReplayRejects
<1>12. ASSUME NEW v \in Visits, ReplayLoopRejects(v)
      PROVE dispatcher'[x] \in Visits /\ stage'[dispatcher'[x]] # "fresh"
  BY <1>12 DEF CloseVisit, ReplayLoopRejects
<1>13. ASSUME NEW v \in Visits, NEW e \in Events \cup {Replay},
              NEW new \in SUBSET (Events \ (ApiEvents \cup stored)), HandlerEmits(v, e, new)
      PROVE dispatcher'[x] \in Visits /\ stage'[dispatcher'[x]] # "fresh"
  BY <1>13 DEF HandlerEmits
<1>14. ASSUME NEW v \in Visits, NEW e \in Events \cup {Replay},
              NEW c \in Commands, HandlerDispatches(v, e, c)
      PROVE dispatcher'[x] \in Visits /\ stage'[dispatcher'[x]] # "fresh"
  BY <1>14 DEF HandlerDispatches, CreateCommand, Push, VisitInv, VisitOK
<1>15. ASSUME NEW v \in Visits, NEW e \in Events \cup {Replay}, Completes(v, e)
      PROVE dispatcher'[x] \in Visits /\ stage'[dispatcher'[x]] # "fresh"
  BY <1>15 DEF Completes, Returns
<1>16. ASSUME NEW v \in Visits, NEW e \in Events \cup {Replay}, SkipsExecution(v, e)
      PROVE dispatcher'[x] \in Visits /\ stage'[dispatcher'[x]] # "fresh"
  BY <1>16 DEF SkipsExecution, Returns
<1>17. ASSUME NEW v \in Visits, NEW e \in Events \cup {Replay}, RequestRerun(v, e)
      PROVE dispatcher'[x] \in Visits /\ stage'[dispatcher'[x]] # "fresh"
  BY <1>17 DEF RequestRerun, Returns
<1>18. ASSUME NEW v \in Visits, NEW e \in Events \cup {Replay}, StartLoop(v, e)
      PROVE dispatcher'[x] \in Visits /\ stage'[dispatcher'[x]] # "fresh"
  BY <1>18 DEF StartLoop
<1>19. ASSUME NEW v \in Visits, ListCommands(v)
      PROVE dispatcher'[x] \in Visits /\ stage'[dispatcher'[x]] # "fresh"
  BY <1>19 DEF ListCommands, PendingCommands
<1>20. ASSUME NEW v \in Visits, NEW c \in Commands, ClaimNext(v, c)
      PROVE dispatcher'[x] \in Visits /\ stage'[dispatcher'[x]] # "fresh"
  BY <1>20 DEF ClaimNext, ClaimPending
<1>21. ASSUME NEW v \in Visits, NEW c \in Commands, SkipClaimed(v, c)
      PROVE dispatcher'[x] \in Visits /\ stage'[dispatcher'[x]] # "fresh"
  BY <1>21 DEF SkipClaimed
<1>22. ASSUME NEW v \in Visits, NEW e \in Events, AgentEmits(v, e)
      PROVE dispatcher'[x] \in Visits /\ stage'[dispatcher'[x]] # "fresh"
  BY <1>22 DEF AgentEmits
<1>23. ASSUME NEW v \in Visits, MarkDone(v)
      PROVE dispatcher'[x] \in Visits /\ stage'[dispatcher'[x]] # "fresh"
  BY <1>23 DEF MarkDone, UpdateCommand, ClaimInv, ExecutesOwnClaim
<1>24. ASSUME NEW v \in Visits, NEW e \in Events, MarkFailed(v, e)
      PROVE dispatcher'[x] \in Visits /\ stage'[dispatcher'[x]] # "fresh"
  BY <1>24 DEF MarkFailed, UpdateCommand, ClaimInv, ExecutesOwnClaim
<1>25. ASSUME NEW v \in Visits, LoopAgain(v)
      PROVE dispatcher'[x] \in Visits /\ stage'[dispatcher'[x]] # "fresh"
  BY <1>25 DEF LoopAgain
<1>26. ASSUME NEW v \in Visits, LoopEnds(v)
      PROVE dispatcher'[x] \in Visits /\ stage'[dispatcher'[x]] # "fresh"
  BY <1>26 DEF LoopEnds, LoopRound, Returns
<1>27. CASE UNCHANGED vars
  BY <1>27
<1> QED
  BY <1>1, <1>2, <1>3, <1>4, <1>5, <1>6, <1>7, <1>8, <1>9, <1>10, <1>11, <1>12, <1>13,
      <1>14, <1>15, <1>16, <1>17, <1>18, <1>19, <1>20, <1>21, <1>22, <1>23, <1>24,
      <1>25, <1>26, <1>27
  DEF Next, Proceed, Callback, Execute, HandleEvent

-----------------------------------------------------------------------------
(* A visit that serves after a step served before it.                      *)
LEMMA ServesBefore ==
  ASSUME TypeOK, ReplayInv, VisitInv, [Next]_vars,
         NEW x \in Visits, stage[x] # "fresh", Serves(x)'
  PROVE  Serves(x)
<1> USE SessionWorkerAssumption DEF TypeOK, Serves, VisitInv, VisitOK, vars, workerVars,
        visitVars
<1>1. ASSUME NEW e \in Events, ApiEmits(e) PROVE Serves(x)
  BY <1>1 DEF ApiEmits
<1>2. ASSUME NEW r \in Reasons, Enqueue(r) PROVE Serves(x)
  BY <1>2 DEF Enqueue, Push
<1>3. ASSUME NEW w \in Workers, StopWorker(w) PROVE Serves(x)
  BY <1>3 DEF StopWorker
<1>4. ASSUME NEW w \in Workers, LeaveLoop(w) PROVE Serves(x)
  BY <1>4 DEF LeaveLoop
<1>5. ASSUME NEW w \in Workers, Restart(w) PROVE Serves(x)
  BY <1>5 DEF Restart
<1>6. ASSUME NEW w \in Workers, NEW v \in Visits, Dequeue(w, v) PROVE Serves(x)
  BY <1>6 DEF Dequeue
<1>7. ASSUME NEW v \in Visits, Subscribe(v) PROVE Serves(x)
  BY <1>7 DEF Subscribe
<1>8. ASSUME NEW v \in Visits, SkipCompleted(v) PROVE Serves(x)
  BY <1>8 DEF CloseVisit, SkipCompleted
<1>9. ASSUME NEW v \in Visits, ListEvents(v) PROVE Serves(x)
  BY <1>9 DEF ListEvents
<1>10. ASSUME NEW v \in Visits, WaitOver(v) PROVE Serves(x)
  BY <1>10 DEF CloseVisit, WaitOver
<1>11. ASSUME NEW v \in Visits, ReplayRejects(v) PROVE Serves(x)
  BY <1>11 DEF CloseVisit, ReplayRejects
<1>12. ASSUME NEW v \in Visits, ReplayLoopRejects(v) PROVE Serves(x)
  BY <1>12 DEF CloseVisit, ReplayLoopRejects
<1>13. ASSUME NEW v \in Visits, NEW e \in Events \cup {Replay},
              NEW new \in SUBSET (Events \ (ApiEvents \cup stored)), HandlerEmits(v, e, new)
      PROVE Serves(x)
  BY <1>13 DEF HandlerEmits
<1>14. ASSUME NEW v \in Visits, NEW e \in Events \cup {Replay},
              NEW c \in Commands, HandlerDispatches(v, e, c)
      PROVE Serves(x)
  BY <1>14 DEF HandlerDispatches, CreateCommand, Push
<1>15. ASSUME NEW v \in Visits, NEW e \in Events \cup {Replay}, Completes(v, e)
      PROVE Serves(x)
  BY <1>15 DEF Completes, Returns, ReplayInv, ReplayOK
<1>16. ASSUME NEW v \in Visits, NEW e \in Events \cup {Replay}, SkipsExecution(v, e)
      PROVE Serves(x)
  BY <1>16 DEF SkipsExecution, Returns, ReplayInv, ReplayOK
<1>17. ASSUME NEW v \in Visits, NEW e \in Events \cup {Replay}, RequestRerun(v, e)
      PROVE Serves(x)
  BY <1>17 DEF RequestRerun, Returns, ReplayInv, ReplayOK
<1>18. ASSUME NEW v \in Visits, NEW e \in Events \cup {Replay}, StartLoop(v, e)
      PROVE Serves(x)
  BY <1>18 DEF StartLoop
<1>19. ASSUME NEW v \in Visits, ListCommands(v) PROVE Serves(x)
  BY <1>19 DEF ListCommands, PendingCommands
<1>20. ASSUME NEW v \in Visits, NEW c \in Commands, ClaimNext(v, c) PROVE Serves(x)
  BY <1>20 DEF ClaimNext, ClaimPending
<1>21. ASSUME NEW v \in Visits, NEW c \in Commands, SkipClaimed(v, c) PROVE Serves(x)
  BY <1>21 DEF SkipClaimed
<1>22. ASSUME NEW v \in Visits, NEW e \in Events, AgentEmits(v, e) PROVE Serves(x)
  BY <1>22 DEF AgentEmits
<1>23. ASSUME NEW v \in Visits, MarkDone(v) PROVE Serves(x)
  BY <1>23 DEF MarkDone, UpdateCommand
<1>24. ASSUME NEW v \in Visits, NEW e \in Events, MarkFailed(v, e) PROVE Serves(x)
  BY <1>24 DEF MarkFailed, UpdateCommand
<1>25. ASSUME NEW v \in Visits, LoopAgain(v) PROVE Serves(x)
  BY <1>25 DEF LoopAgain
<1>26. ASSUME NEW v \in Visits, LoopEnds(v) PROVE Serves(x)
  BY <1>26 DEF LoopEnds, LoopRound, Returns, ReplayInv, ReplayOK
<1>27. CASE UNCHANGED vars
  BY <1>27
<1> QED
  BY <1>1, <1>2, <1>3, <1>4, <1>5, <1>6, <1>7, <1>8, <1>9, <1>10, <1>11, <1>12, <1>13,
      <1>14, <1>15, <1>16, <1>17, <1>18, <1>19, <1>20, <1>21, <1>22, <1>23, <1>24,
      <1>25, <1>26, <1>27
  DEF Next, Proceed, Callback, Execute, HandleEvent

(* What NoLostWakeup says of one command.                                  *)
NotLost(c) == c \in todo[dispatcher[c]] \/ WillLookAgain(dispatcher[c])

(* No step overlooks a pending command: the callback that dispatched it    *)
(* still asks for a run, or the run under way lists once more.             *)
LEMMA WakeupStep ==
  ASSUME TypeOK, LoopOwned, ReplayInv, VisitInv, ClaimInv, DispatchInv, NoLostWakeup,
         [Next]_vars
  PROVE  NoLostWakeup'
<1> SUFFICES ASSUME NEW x \in Commands, command'[x] = "PENDING", Serves(dispatcher[x])'
             PROVE  NotLost(x)'
  BY DEF NoLostWakeup, NotLost
<1> DEFINE d == dispatcher[x]
<1>a. ASSUME command[x] = "PENDING", dispatcher'[x] = d
      PROVE  /\ d \in Visits /\ Serves(d)
             /\ NotLost(x)
  <2>1. d \in Visits /\ stage[d] # "fresh"
    BY <1>a DEF DispatchInv
  <2>2. PICK y \in Visits : y = d
    BY <2>1
  <2>3. Serves(y)'
    BY <1>a, <2>2 DEF Serves
  <2>4. Serves(d)
    BY <2>1, <2>2, <2>3, ServesBefore
  <2> QED
    BY <1>a, <2>1, <2>4 DEF NoLostWakeup, NotLost
<1> USE SessionWorkerAssumption DEF TypeOK, NotLost, WillLookAgain, vars, loopVars,
        commandVars
<1>1. ASSUME NEW e \in Events, ApiEmits(e) PROVE NotLost(x)'
  BY <1>1, <1>a DEF ApiEmits
<1>2. ASSUME NEW r \in Reasons, Enqueue(r) PROVE NotLost(x)'
  BY <1>2, <1>a DEF Enqueue, Push
<1>3. ASSUME NEW w \in Workers, StopWorker(w) PROVE NotLost(x)'
  BY <1>3, <1>a DEF StopWorker
<1>4. ASSUME NEW w \in Workers, LeaveLoop(w) PROVE NotLost(x)'
  BY <1>4, <1>a DEF LeaveLoop
<1>5. ASSUME NEW w \in Workers, Restart(w) PROVE NotLost(x)'
  BY <1>5, <1>a DEF Restart, Serves
<1>6. ASSUME NEW w \in Workers, NEW v \in Visits, Dequeue(w, v) PROVE NotLost(x)'
  BY <1>6, <1>a DEF Dequeue
<1>7. ASSUME NEW v \in Visits, Subscribe(v) PROVE NotLost(x)'
  BY <1>7, <1>a DEF Subscribe
<1>8. ASSUME NEW v \in Visits, SkipCompleted(v) PROVE NotLost(x)'
  BY <1>8, <1>a DEF SkipCompleted, CloseVisit
<1>9. ASSUME NEW v \in Visits, ListEvents(v) PROVE NotLost(x)'
  BY <1>9, <1>a DEF ListEvents
<1>10. ASSUME NEW v \in Visits, WaitOver(v) PROVE NotLost(x)'
  BY <1>10, <1>a DEF WaitOver, CloseVisit
<1>11. ASSUME NEW v \in Visits, ReplayRejects(v) PROVE NotLost(x)'
  BY <1>11, <1>a DEF ReplayRejects, CloseVisit
<1>12. ASSUME NEW v \in Visits, ReplayLoopRejects(v) PROVE NotLost(x)'
  BY <1>12, <1>a DEF ReplayLoopRejects, CloseVisit, Serves
<1>13. ASSUME NEW v \in Visits, NEW e \in Events \cup {Replay},
              NEW new \in SUBSET (Events \ (ApiEvents \cup stored)), HandlerEmits(v, e, new)
      PROVE NotLost(x)'
  BY <1>13, <1>a DEF HandlerEmits
<1>14. ASSUME NEW v \in Visits, NEW e \in Events \cup {Replay},
              NEW c \in Commands, HandlerDispatches(v, e, c)
      PROVE NotLost(x)'
  BY <1>14, <1>a DEF HandlerDispatches, CreateCommand, Push
<1>15. ASSUME NEW v \in Visits, NEW e \in Events \cup {Replay}, Completes(v, e)
      PROVE NotLost(x)'
  BY <1>15, <1>a DEF Completes, Returns
<1>16. ASSUME NEW v \in Visits, NEW e \in Events \cup {Replay}, SkipsExecution(v, e)
      PROVE NotLost(x)'
  BY <1>16, <1>a DEF SkipsExecution, MaySkip, Serves
<1>17. ASSUME NEW v \in Visits, NEW e \in Events \cup {Replay}, RequestRerun(v, e)
      PROVE NotLost(x)'
  BY <1>17, <1>a DEF RequestRerun, Returns
<1>18. ASSUME NEW v \in Visits, NEW e \in Events \cup {Replay}, StartLoop(v, e)
      PROVE NotLost(x)'
  BY <1>18, <1>a DEF StartLoop
<1>19. ASSUME NEW v \in Visits, ListCommands(v) PROVE NotLost(x)'
  BY <1>19, <1>a DEF ListCommands, PendingCommands
<1>20. ASSUME NEW v \in Visits, NEW c \in Commands, ClaimNext(v, c) PROVE NotLost(x)'
  BY <1>20, <1>a DEF ClaimNext, ClaimPending
<1>21. ASSUME NEW v \in Visits, NEW c \in Commands, SkipClaimed(v, c) PROVE NotLost(x)'
  BY <1>21, <1>a DEF SkipClaimed
<1>22. ASSUME NEW v \in Visits, NEW e \in Events, AgentEmits(v, e) PROVE NotLost(x)'
  BY <1>22, <1>a DEF AgentEmits
<1>23. ASSUME NEW v \in Visits, MarkDone(v) PROVE NotLost(x)'
  BY <1>23, <1>a DEF MarkDone, UpdateCommand, ClaimInv, ExecutesOwnClaim
<1>24. ASSUME NEW v \in Visits, NEW e \in Events, MarkFailed(v, e) PROVE NotLost(x)'
  BY <1>24, <1>a DEF MarkFailed, UpdateCommand, ClaimInv, ExecutesOwnClaim
<1>25. ASSUME NEW v \in Visits, LoopAgain(v) PROVE NotLost(x)'
  BY <1>25, <1>a DEF LoopAgain, LoopRound
<1>26. ASSUME NEW v \in Visits, LoopEnds(v) PROVE NotLost(x)'
  BY <1>26, <1>a DEF LoopEnds, LoopRound
<1>27. CASE UNCHANGED vars
  BY <1>27, <1>a
<1> QED
  BY <1>1, <1>2, <1>3, <1>4, <1>5, <1>6, <1>7, <1>8, <1>9, <1>10, <1>11, <1>12, <1>13,
      <1>14, <1>15, <1>16, <1>17, <1>18, <1>19, <1>20, <1>21, <1>22, <1>23, <1>24,
      <1>25, <1>26, <1>27
  DEF Next, Proceed, Callback, Execute, HandleEvent

-----------------------------------------------------------------------------
(* The inductive invariant: NoLostWakeup needs to know that a visit with a *)
(* pending command is one that has begun, that no callback of a failed     *)
(* visit brings it back, and who has claimed what.                         *)
IInv ==
  /\ TypeOK
  /\ LoopOwned
  /\ ReplayInv
  /\ VisitInv
  /\ ClaimInv
  /\ DispatchInv
  /\ NoLostWakeup

(* The invariant holds when the workers start.                             *)
LEMMA InitIInv == Init => IInv
<1> SUFFICES ASSUME Init PROVE IInv
  OBVIOUS
<1> USE SessionWorkerAssumption DEF Init
<1>1. TypeOK
  BY DEF TypeOK, ItemKind, Reasons, Stage, CommandStatus
<1>2. LoopOwned /\ ReplayInv /\ VisitInv
  BY DEF LoopOwned, ReplayInv, ReplayOK, VisitInv, VisitOK, Underway
<1>3. ClaimInv /\ DispatchInv /\ NoLostWakeup
  BY DEF ClaimInv, ExecutesOwnClaim, DispatchInv, NoLostWakeup
<1> QED
  BY <1>1, <1>2, <1>3 DEF IInv

(* Every step keeps the invariant.                                         *)
LEMMA NextIInv == IInv /\ [Next]_vars => IInv'
BY TypeStep, LoopOwnedStep, ReplayStep, VisitStep, ClaimStep, DispatchStep, WakeupStep
DEF IInv

(* The inductive invariant holds in every reachable state of the workers:  *)
(* types, loop ownership, replay, visits, claims and wakeups together.     *)
THEOREM Invariance == Spec => []IInv
BY InitIInv, NextIInv, PTL DEF Spec

(* Every variable keeps its type: the state of a worker process and of the *)
(* repositories it shares is always one the code can name.                 *)
THEOREM TypeCorrect == Spec => []TypeOK
BY Invariance, PTL DEF IInv

(* Two command loops, of whatever visits and workers, never execute the    *)
(* same command: executeSessionCommands runs an agent only on its claim.   *)
THEOREM ExclusiveExecution == Spec => []ExecutesOwnClaim
BY Invariance, PTL DEF IInv, ClaimInv

(* A command is claimed at most once, whoever fails, stops or restarts.    *)
THEOREM ClaimsAreFinal == Spec => ClaimedOnce
<1>1. IInv /\ [Next]_vars =>
        [\A c \in Commands : claimer[c] # None => claimer'[c] = claimer[c]]_vars
  BY ClaimStep DEF IInv
<1> QED
  BY <1>1, Invariance, PTL DEF Spec, ClaimedOnce

(* runSessionCommandsSerialized loses no request: a pending command of a   *)
(* visit that serves is in hand or will be looked for again.               *)
THEOREM WakeupsAreKept == Spec => []NoLostWakeup
BY Invariance, PTL DEF IInv

(* A worker listens only for the visit it is making.                       *)
THEOREM ListenersAreCurrent == Spec => []OneListenerPerWorker
<1>1. IInv => OneListenerPerWorker
  BY DEF IInv, TypeOK, VisitInv, VisitOK, Underway, OneListenerPerWorker
<1> QED
  BY <1>1, Invariance, PTL
=============================================================================
