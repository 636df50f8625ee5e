-------------------------- MODULE ScmWebhookProofs --------------------------
(***************************************************************************)
(* Theorems about ScmWebhook, for any pull requests, payloads, requests,   *)
(* syncs and bounds: at most one event is appended for a delivery, and a   *)
(* delivery about a bound pull request is not answered with 202 without    *)
(* its event, each with the exceptions that the property names.            *)
(*                                                                         *)
(* The inductive invariant says what is known of an id: that nobody who is *)
(* handling it can find it seen (Handling), that an event once appended    *)
(* keeps its id from being handled (Emitting), and why an id is seen       *)
(* (Reasons).                                                              *)
(***************************************************************************)
EXTENDS ScmWebhook, Integers, FiniteSetTheorems, SequenceTheorems, TLAPS

Answers == {"rejected", "duplicate", "ignored", "unbound", "accepted", "error"}

RequestStates ==
  [at : {"idle", "lookup", "emit", "publish"} \cup Answers, delivery : Nat, next : Nat \ {0},
   pr : PullRequests \cup {NoEvent}, wasBound : BOOLEAN]

EventTypes == FeedbackEvents \cup {"SCM_FEEDBACK_SYNCED"}

Events == [by : Requests \cup Syncs, session : { p.session : p \in PullRequests },
           type : EventTypes]

SyncStates ==
  [at : {"idle", "again", "collect", "comments", "synced", "enqueue", "answered", "refused", "error"},
   pr : PullRequests \cup {NoEvent}, failures : BOOLEAN \cup {NoEvent},
   comments : BOOLEAN \cup {NoEvent}]

AllIds == Nat \cup Requests

TypeOK ==
  /\ published \in [PullRequests -> {"none", "open", "saved"}]
  /\ bindings \in SUBSET PullRequests
  /\ outbox \in Seq(Messages)
  /\ request \in [Requests -> RequestStates]
  /\ seen \in SUBSET AllIds
  /\ log \in SUBSET Events
  /\ sync \in [Syncs -> SyncStates]
  /\ queue \in SUBSET Syncs
  /\ faults \in Nat
  /\ history \in [crossed : SUBSET AllIds, forgotten : SUBSET AllIds,
                  halfway : SUBSET AllIds, early : SUBSET AllIds]

Taken(r) == request[r].at # "idle"

(* Who works on a request or a sync has what it works on.                  *)
InHand ==
  /\ \A r \in Requests :
       /\ Taken(r) => request[r].delivery \in DOMAIN outbox
       /\ ~Taken(r) => request[r].delivery = 0
       /\ request[r].at \in {"emit", "publish", "accepted"} => request[r].pr \in PullRequests
       /\ InHandling(r) => Actionable(Message(r))
  /\ \A y \in Syncs : sync[y].at # "idle" => sync[y].pr \in PullRequests

(* Who handles an id that another handles too, or that has been seen, has  *)
(* crossed another copy.                                                   *)
Handling ==
  /\ \A q, r \in Requests :
       /\ q # r /\ InHandling(q) /\ InHandling(r)
       /\ DeliveryId(q) = DeliveryId(r)
       => DeliveryId(r) \in history.crossed
  /\ \A r \in Requests :
       InHandling(r) /\ DeliveryId(r) \in seen => DeliveryId(r) \in history.crossed

(* An event is appended between the lookup and the record of the id; after *)
(* that the id stays seen, unless the set was emptied or the bus rejected. *)
Emitting ==
  \A r \in Requests :
    /\ EmittedBy(r) # {} =>
         \/ request[r].at = "publish"
         \/ /\ request[r].at \in {"accepted", "error"}
            /\ DeliveryId(r) \in seen \cup history.forgotten \cup history.halfway
    /\ request[r].at \in {"publish", "accepted"} =>
         \E e \in EmittedBy(r) : e.session = request[r].pr.session

Exceptions == history.crossed \cup history.forgotten \cup history.halfway

OneEach ==
  \A q, r \in Requests :
    q # r /\ EmittedBy(q) # {} /\ EmittedBy(r) # {} /\ DeliveryId(q) = DeliveryId(r)
      => DeliveryId(r) \in Exceptions

Inv == TypeOK /\ InHand /\ Handling /\ Emitting /\ OneEach

(* The request has found the pull request its payload is about, if that is *)
(* one of ours.                                                            *)
Ours(r) == Message(r).about \in PullRequests

Told(r) == \E e \in EmittedBy(r) : e.session = Message(r).about.session

(* What is seen has been handled: nobody was found, or the event is out.   *)
Reasons ==
  \A id \in seen :
    \/ id \in history.early
    \/ \E q \in Requests :
         /\ Taken(q) /\ DeliveryId(q) = id
         /\ Actionable(Message(q)) /\ Ours(q) => Told(q)

Candidates(r) == Normalized(Message(r)).candidates

(* The lookup has passed no candidate under which the binding is, and what *)
(* it finds is the pull request that the payload is about.                 *)
Searching ==
  \A r \in Requests :
    /\ request[r].wasBound => Taken(r) /\ Message(r).about \in bindings
    /\ request[r].at \in {"emit", "publish", "accepted"} /\ Ours(r) =>
         request[r].pr = Message(r).about
    /\ request[r].at = "lookup" =>
         /\ request[r].next \in 1 .. Len(Candidates(r))
         /\ request[r].wasBound =>
              \A j \in 1 .. request[r].next - 1 : Candidates(r)[j] # DisplayName(Message(r).about)

DroppedInv == Inv /\ Reasons /\ Searching /\ NothingDropped
-----------------------------------------------------------------------------
(* A payload means an event or nothing.                                    *)
LEMMA MeansAnEvent ==
  ASSUME NEW m
  PROVE  Normalized(m).type \in FeedbackEvents \cup {NoEvent}
<1>1. GitHubEvent(m) \in FeedbackEvents \cup {NoEvent}
  BY DEF GitHubEvent, FeedbackEvents
<1>2. AzureEvent(m) \in FeedbackEvents \cup {NoEvent}
  BY DEF AzureEvent, FeedbackEvents
<1> QED BY <1>1, <1>2 DEF Normalized

(* What no step of the webhook requests does to them.                      *)
Elsewhere == UNCHANGED <<request, seen, history>>

Others ==
  \/ \E p \in PullRequests : OpenPullRequest(p) \/ SavePublication(p) \/ SaveBinding(p)
  \/ \E m \in Messages : Deliver(m)
  \/ \E y \in Syncs : SyncRequest(y)
  \/ UNCHANGED scmVars

(* Deliveries, publications and the provider leave the requests and the    *)
(* log alone.                                                              *)
LEMMA OthersAreElsewhere == Others => Elsewhere
BY DEF Others, Elsewhere, OpenPullRequest, SavePublication, SaveBinding, Deliver, SyncRequest,
   ReadContext, ReadContextAgain, CollectFailures, CollectComments, EmitPipeline, EmitComments,
   EmitSynced, EnqueueSession, FailSync, scmVars

(* A step is one of a webhook request or one of another.                   *)
LEMMA NextIsOne ==
  ASSUME [Next]_scmVars
  PROVE  Others \/ \E r \in Requests : WebhookRequest(r)
BY DEF Next, Others

(* Nothing is delivered, bound or emitted at the start.                    *)
LEMMA InitInv == Init => Inv
<1> SUFFICES ASSUME Init PROVE Inv
  OBVIOUS
<1>1. TypeOK
  BY WebhookAssumption
  DEF Init, TypeOK, Idle, NoSync, RequestStates, SyncStates, AllIds
<1>2. \A r \in Requests : request[r].at = "idle" /\ request[r].delivery = 0 /\ EmittedBy(r) = {}
  BY DEF Init, Idle, EmittedBy
<1>3. \A y \in Syncs : sync[y].at = "idle"
  BY DEF Init, NoSync
<1> QED BY <1>1, <1>2, <1>3 DEF Inv, InHand, Handling, Emitting, OneEach, InHandling, Taken

(* The providers' deliveries are never taken back.                         *)
LEMMA OutboxGrows ==
  ASSUME TypeOK, [Next]_scmVars
  PROVE  /\ outbox' \in Seq(Messages)
         /\ DOMAIN outbox \subseteq DOMAIN outbox'
         /\ \A d \in DOMAIN outbox : outbox'[d] = outbox[d]
<1>1. outbox \in Seq(Messages)
  BY DEF TypeOK
<1>2. outbox' = outbox \/ \E m \in Messages : outbox' = Append(outbox, m)
  BY DEF Next, OpenPullRequest, SavePublication, SaveBinding, Deliver, WebhookRequest, Reject,
     Duplicate, Ignore, Accept, Lookup, EmitEvent, RecordDelivery, FailRequest, SyncRequest,
     ReadContext, ReadContextAgain, CollectFailures, CollectComments, EmitPipeline,
     EmitComments, EmitSynced, EnqueueSession, FailSync, scmVars
<1>3. CASE outbox' = outbox
  BY <1>1, <1>3
<1>4. ASSUME NEW m \in Messages, outbox' = Append(outbox, m)
      PROVE  /\ outbox' \in Seq(Messages)
             /\ DOMAIN outbox \subseteq DOMAIN outbox'
             /\ \A d \in DOMAIN outbox : outbox'[d] = outbox[d]
  BY <1>1, <1>4, AppendProperties
<1> QED BY <1>2, <1>3, <1>4

(* What a request is about does not change.                                *)
LEMMA MessagesStay ==
  ASSUME TypeOK, [Next]_scmVars, NEW r \in Requests, request[r].delivery \in DOMAIN outbox,
         request'[r].delivery = request[r].delivery
  PROVE  Message(r)' = Message(r) /\ DeliveryId(r)' = DeliveryId(r)
BY OutboxGrows DEF Message, DeliveryId, ExtractDeliveryId

(* The request as it is taken up.                                          *)
TakenAs(r, d, a) == [TakeUp(r, d) EXCEPT !.at = a]

(* The record of a request that has taken up a delivery.                   *)
LEMMA TakenUp ==
  ASSUME NEW r \in Requests, NEW d \in Nat,
         NEW a \in {"lookup", "rejected", "duplicate", "ignored"}
  PROVE  /\ TakenAs(r, d, a) \in RequestStates
         /\ TakenAs(r, d, a).at = a
         /\ TakenAs(r, d, a).delivery = d
         /\ TakenAs(r, d, a).next = 1
         /\ TakenAs(r, d, a).wasBound <=> outbox[d].about \in bindings
<1> DEFINE b == outbox[d].about \in bindings
<1>1. b \in BOOLEAN
  OBVIOUS
<1> HIDE DEF b
<1>2. ASSUME NEW c \in BOOLEAN, NEW u, u = [[Idle EXCEPT !.delivery = d, !.wasBound = c] EXCEPT !.at = a]
      PROVE  /\ u \in RequestStates /\ u.at = a /\ u.delivery = d /\ u.next = 1
             /\ u.wasBound = c
  <2>1. Idle \in RequestStates /\ Idle.next = 1
    BY DEF Idle, RequestStates, Answers
  <2>2. a \in {"idle", "lookup", "emit", "publish"} \cup Answers
    BY DEF Answers
  <2> HIDE DEF Idle
  <2> QED BY <1>2, <2>1, <2>2 DEF RequestStates
<1> DEFINE t == TakenAs(r, d, a)
<1>3. t = [[Idle EXCEPT !.delivery = d, !.wasBound = b] EXCEPT !.at = a]
  BY Zenon DEF TakeUp, TakenAs, b
<1> HIDE DEF t
<1>4. t \in RequestStates /\ t.at = a /\ t.delivery = d /\ t.next = 1 /\ t.wasBound = b
  BY <1>1, <1>2, <1>3
<1> QED BY <1>4, Zenon DEF b, t

(* One request at a time goes one step further.                            *)
LEMMA RequestMoves ==
  ASSUME Inv, NEW r \in Requests, WebhookRequest(r)
  PROVE  /\ request' \in [Requests -> RequestStates]
         /\ \A q \in Requests \ {r} : request'[q] = request[q]
<1>1. request \in [Requests -> RequestStates] /\ outbox \in Seq(Messages)
      /\ bindings \in SUBSET PullRequests
  BY DEF Inv, TypeOK
<1>2. ASSUME NEW d \in DOMAIN outbox, Reject(r, d) \/ Duplicate(r, d) \/ Ignore(r, d) \/ Accept(r, d)
      PROVE  /\ request' \in [Requests -> RequestStates]
             /\ \A q \in Requests \ {r} : request'[q] = request[q]
  <2>1. d \in Nat
    BY <1>1
  <2>2. PICK a \in {"lookup", "rejected", "duplicate", "ignored"} :
          request' = [request EXCEPT ![r] = TakenAs(r, d, a)]
    BY <1>2, Zenon DEF TakenAs, Reject, Duplicate, Ignore, Accept
  <2>3. TakenAs(r, d, a) \in RequestStates
    BY <2>1, TakenUp
  <2> QED BY <1>1, <2>2, <2>3
<1>3. CASE Lookup(r)
  <2> DEFINE n == Normalized(Message(r))
             found == FindBinding(Message(r).provider, n.candidates[request[r].next], n.number)
  <2>1. found \subseteq PullRequests
    BY <1>1 DEF FindBinding
  <2>2. \/ /\ found # {}
           /\ request' = [request EXCEPT ![r].at = "emit", ![r].pr = CHOOSE b \in found : TRUE]
        \/ request' = [request EXCEPT ![r].next = @ + 1]
        \/ request' = [request EXCEPT ![r].at = "unbound"]
    BY <1>3, Zenon DEF Lookup, Answer
  <2> HIDE DEF found
  <2>3. found # {} => (CHOOSE b \in found : TRUE) \in PullRequests
    BY <2>1
  <2>4. request[r] \in RequestStates
    BY <1>1
  <2>5. CASE found # {}
             /\ request' = [request EXCEPT ![r].at = "emit", ![r].pr = CHOOSE b \in found : TRUE]
    BY <1>1, <2>3, <2>4, <2>5 DEF RequestStates
  <2>6. CASE request' = [request EXCEPT ![r].next = @ + 1]
    <3>1. request[r].next + 1 \in Nat \ {0}
      BY <2>4 DEF RequestStates
    <3>2. [request[r] EXCEPT !.next = request[r].next + 1] \in RequestStates
      BY <2>4, <3>1 DEF RequestStates
    <3> QED BY <1>1, <2>6, <3>2
  <2>7. CASE request' = [request EXCEPT ![r].at = "unbound"]
    BY <1>1, <2>4, <2>7 DEF RequestStates, Answers
  <2> QED BY <2>2, <2>5, <2>6, <2>7
<1>4. CASE EmitEvent(r) \/ RecordDelivery(r) \/ FailRequest(r)
  <2>1. \E a \in {"publish", "accepted", "error"} : request' = [request EXCEPT ![r].at = a]
    BY <1>4, Zenon DEF EmitEvent, RecordDelivery, FailRequest, Answer
  <2> QED BY <1>1, <2>1 DEF RequestStates, Answers
<1> QED BY <1>2, <1>3, <1>4 DEF WebhookRequest

(* The id by which a delivery is told apart.                               *)
LEMMA IdTypes ==
  ASSUME Inv, NEW r \in Requests
  PROVE  DeliveryId(r) \in AllIds /\ \A d \in Nat : ExtractDeliveryId(r, d) \in AllIds
<1>1. request[r].delivery \in Nat
  BY DEF Inv, TypeOK, RequestStates
<1> QED BY <1>1 DEF DeliveryId, ExtractDeliveryId, AllIds

Histories == [crossed : SUBSET AllIds, forgotten : SUBSET AllIds,
              halfway : SUBSET AllIds, early : SUBSET AllIds]

(* What a webhook request adds to the ids, the events and the history.     *)
LEMMA RequestTypes ==
  ASSUME Inv, NEW r \in Requests, WebhookRequest(r)
  PROVE  seen' \in SUBSET AllIds /\ log' \in SUBSET Events /\ history' \in Histories
<1>1. /\ seen \in SUBSET AllIds /\ log \in SUBSET Events /\ history \in Histories
      /\ request[r] \in RequestStates /\ outbox \in Seq(Messages)
  BY DEF Inv, TypeOK, Histories
<1>2. DeliveryId(r) \in AllIds /\ \A d \in DOMAIN outbox : ExtractDeliveryId(r, d) \in AllIds
  BY <1>1, IdTypes
<1>3. ASSUME NEW d \in DOMAIN outbox, Reject(r, d) \/ Duplicate(r, d) \/ Ignore(r, d) \/ Accept(r, d)
      PROVE  seen' \in SUBSET AllIds /\ log' \in SUBSET Events /\ history' \in Histories
  <2> DEFINE id == ExtractDeliveryId(r, d)
  <2>1. /\ log' = log
        /\ seen' = seen \/ seen' = seen \cup {id}
        /\ history' = history \/ history' = [history EXCEPT !.crossed = @ \cup {id}]
    BY <1>3 DEF Reject, Duplicate, Ignore, Accept, NoteCrossing
  <2>2. id \in AllIds
    BY <1>2
  <2> HIDE DEF id
  <2> QED BY <1>1, <2>1, <2>2 DEF Histories
<1>4. CASE Lookup(r)
  <2>1. log' = log /\ (seen' = seen \/ seen' = seen \cup {DeliveryId(r)})
        /\ (history' = history \/ history' = [history EXCEPT !.early = @ \cup {DeliveryId(r)}])
    BY <1>4 DEF Lookup
  <2> QED BY <1>1, <1>2, <2>1 DEF Histories
<1>5. CASE EmitEvent(r)
  <2>1. request[r].pr \in PullRequests /\ Actionable(Message(r))
    BY <1>5 DEF EmitEvent, Inv, InHand, InHandling
  <2>2. Normalized(Message(r)).type \in EventTypes
    BY <2>1, MeansAnEvent DEF Actionable, EventTypes
  <2>3. [by |-> r, session |-> request[r].pr.session, type |-> Normalized(Message(r)).type] \in Events
    BY <2>1, <2>2 DEF Events
  <2> QED BY <1>1, <1>5, <2>3 DEF EmitEvent
<1>6. CASE RecordDelivery(r)
  BY <1>1, <1>2, <1>6 DEF RecordDelivery, Histories
<1>7. CASE FailRequest(r)
  BY <1>1, <1>2, <1>7 DEF FailRequest, Histories
<1> QED BY <1>3, <1>4, <1>5, <1>6, <1>7 DEF WebhookRequest

(* A sync knows its pull request from its first step on.                   *)
SyncsOK ==
  /\ sync \in [Syncs -> SyncStates]
  /\ \A y \in Syncs : sync[y].at # "idle" => sync[y].pr \in PullRequests

(* What POST /sessions/:id/scm/sync does: events by it alone.              *)
LEMMA SyncMoves ==
  ASSUME Inv, NEW y \in Syncs, SyncRequest(y)
  PROVE  SyncsOK' /\ log' \in SUBSET Events /\ queue' \in SUBSET Syncs /\ faults' \in Nat
         /\ \A e \in log' \ log : e.by = y
<1>1. /\ SyncsOK /\ sync[y] \in SyncStates
      /\ log \in SUBSET Events /\ queue \in SUBSET Syncs /\ faults \in Nat
  BY DEF Inv, TypeOK, InHand, SyncsOK
<1> DEFINE Ats == {"idle", "again", "collect", "comments", "synced", "enqueue", "answered",
                   "refused", "error"}
<1>2. ASSUME NEW p \in PullRequests, ReadContext(y, p)
      PROVE  SyncsOK' /\ UNCHANGED <<log, queue, faults>>
  <2>1. \E a \in Ats : sync' = [sync EXCEPT ![y].pr = p, ![y].at = a]
    BY <1>2, Zenon DEF ReadContext
  <2> QED BY <1>1, <1>2, <2>1 DEF ReadContext, SyncsOK, SyncStates
<1>3. ASSUME NEW a \in Ats, sync' = [sync EXCEPT ![y].at = a], sync[y].at # "idle"
      PROVE  SyncsOK'
  BY <1>1, <1>3 DEF SyncsOK, SyncStates
<1>4. ASSUME NEW b \in BOOLEAN,
             \/ sync' = [sync EXCEPT ![y].failures = b]
             \/ sync' = [sync EXCEPT ![y].comments = b]
      PROVE  SyncsOK'
  BY <1>1, <1>4 DEF SyncsOK, SyncStates
<1>5. CASE CollectFailures(y) \/ CollectComments(y)
  <2>1. \E b \in BOOLEAN : \/ sync' = [sync EXCEPT ![y].failures = b]
                           \/ sync' = [sync EXCEPT ![y].comments = b]
    BY <1>5, Zenon DEF CollectFailures, CollectComments
  <2>2. UNCHANGED <<log, queue, faults>>
    BY <1>5 DEF CollectFailures, CollectComments
  <2> QED BY <1>1, <1>4, <2>1, <2>2
<1>6. CASE ReadContextAgain(y) \/ EnqueueSession(y) \/ FailSync(y)
  <2>1. sync[y].at # "idle" /\ \E a \in Ats : sync' = [sync EXCEPT ![y].at = a]
    <3>1. sync[y].at # "idle"
      BY <1>6 DEF ReadContextAgain, EnqueueSession, FailSync
    <3>2. \E a \in Ats : sync' = [sync EXCEPT ![y].at = a]
      BY <1>6, Zenon DEF ReadContextAgain, EnqueueSession, FailSync
    <3> QED BY <3>1, <3>2
  <2>2. log' = log /\ queue' \in SUBSET Syncs /\ faults' \in Nat
    BY <1>1, <1>6 DEF ReadContextAgain, EnqueueSession, FailSync, MayFail
  <2> QED BY <1>1, <1>3, <2>1, <2>2
<1>7. CASE EmitPipeline(y) \/ EmitComments(y) \/ EmitSynced(y)
  <2>1. sync[y].at # "idle" /\ \E a \in Ats : sync' = [sync EXCEPT ![y].at = a]
    <3>1. sync[y].at # "idle"
      BY <1>7 DEF EmitPipeline, EmitComments, EmitSynced
    <3>2. \E a \in Ats : sync' = [sync EXCEPT ![y].at = a]
      BY <1>7, Zenon DEF EmitPipeline, EmitComments, EmitSynced
    <3> QED BY <3>1, <3>2
  <2>2. \E t \in EventTypes : log' = log \cup {SyncEvent(y, t)}
    <3>1. \E t \in {"SCM_PIPELINE_FAILED", "SCM_PIPELINE_PASSED", "SCM_REVIEW_COMMENT_ADDED",
                    "SCM_FEEDBACK_SYNCED"} : log' = log \cup {SyncEvent(y, t)}
      BY <1>7, Zenon DEF EmitPipeline, EmitComments, EmitSynced
    <3> QED BY <3>1 DEF EventTypes, FeedbackEvents
  <2>3. \A t \in EventTypes : SyncEvent(y, t) \in Events /\ SyncEvent(y, t).by = y
    BY <1>1, <2>1 DEF SyncEvent, Events, SyncsOK
  <2>4. UNCHANGED <<queue, faults>>
    BY <1>7 DEF EmitPipeline, EmitComments, EmitSynced
  <2> QED BY <1>1, <1>3, <2>1, <2>2, <2>3, <2>4
<1> QED BY <1>1, <1>2, <1>5, <1>6, <1>7 DEF SyncRequest

(* Every step keeps the types.                                             *)
LEMMA TypeNext ==
  ASSUME Inv, [Next]_scmVars
  PROVE  TypeOK' /\ SyncsOK'
<1>1. TypeOK /\ SyncsOK
  BY DEF Inv, TypeOK, InHand, SyncsOK
<1>2. outbox' \in Seq(Messages)
  BY <1>1, OutboxGrows
<1>3. ASSUME NEW r \in Requests, WebhookRequest(r)
      PROVE  TypeOK' /\ SyncsOK'
  <2>1. request' \in [Requests -> RequestStates]
    BY <1>3, RequestMoves
  <2>2. seen' \in SUBSET AllIds /\ log' \in SUBSET Events /\ history' \in Histories
    BY <1>3, RequestTypes
  <2>3. UNCHANGED <<published, bindings, sync, queue>> /\ (faults' = faults \/ faults' = faults + 1)
    BY <1>3
    DEF WebhookRequest, Reject, Duplicate, Ignore, Accept, Lookup, EmitEvent, RecordDelivery,
        FailRequest, MayFail
  <2>4. faults' \in Nat
    BY <1>1, <2>3 DEF TypeOK
  <2> QED BY <1>1, <1>2, <2>1, <2>2, <2>3, <2>4 DEF TypeOK, SyncsOK, Histories
<1>4. ASSUME NEW y \in Syncs, SyncRequest(y)
      PROVE  TypeOK' /\ SyncsOK'
  <2>1. SyncsOK' /\ log' \in SUBSET Events /\ queue' \in SUBSET Syncs /\ faults' \in Nat
    BY <1>4, SyncMoves
  <2>2. UNCHANGED <<published, bindings, request, seen, history>>
    BY <1>4 DEF SyncRequest, ReadContext, ReadContextAgain, CollectFailures, CollectComments,
       EmitPipeline, EmitComments, EmitSynced, EnqueueSession, FailSync
  <2> QED BY <1>1, <1>2, <2>1, <2>2 DEF TypeOK, SyncsOK
<1>5. ASSUME NEW p \in PullRequests, OpenPullRequest(p) \/ SavePublication(p) \/ SaveBinding(p)
      PROVE  TypeOK' /\ SyncsOK'
  <2>1. published' \in [PullRequests -> {"none", "open", "saved"}]
        /\ bindings' \in SUBSET PullRequests
    BY <1>1, <1>5 DEF OpenPullRequest, SavePublication, SaveBinding, TypeOK
  <2>2. UNCHANGED <<request, seen, log, sync, queue, faults, history>>
    BY <1>5 DEF OpenPullRequest, SavePublication, SaveBinding
  <2> QED BY <1>1, <1>2, <2>1, <2>2 DEF TypeOK, SyncsOK
<1>6. ASSUME NEW m \in Messages, Deliver(m)
      PROVE  TypeOK' /\ SyncsOK'
  BY <1>1, <1>2, <1>6 DEF Deliver, TypeOK, SyncsOK
<1>7. CASE UNCHANGED scmVars
  BY <1>1, <1>7 DEF scmVars, TypeOK, SyncsOK
<1> QED BY <1>3, <1>4, <1>5, <1>6, <1>7 DEF Next

(* Nobody's event is taken from the log, and a sync adds none of a request. *)
LEMMA EventsStay ==
  ASSUME Inv, [Next]_scmVars
  PROVE  /\ log \subseteq log'
         /\ \A r \in Requests : EmittedBy(r) \subseteq EmittedBy(r)'
         /\ Others => \A r \in Requests : EmittedBy(r)' = EmittedBy(r)
<1>1. log \subseteq log'
  BY DEF Next, OpenPullRequest, SavePublication, SaveBinding, Deliver, WebhookRequest, Reject,
     Duplicate, Ignore, Accept, Lookup, EmitEvent, RecordDelivery, FailRequest, SyncRequest,
     ReadContext, ReadContextAgain, CollectFailures, CollectComments, EmitPipeline,
     EmitComments, EmitSynced, EnqueueSession, FailSync, scmVars
<1>2. ASSUME Others PROVE \A e \in log' \ log : e.by \in Syncs
  <2>1. ASSUME NEW y \in Syncs, SyncRequest(y) PROVE \A e \in log' \ log : e.by \in Syncs
    BY <2>1, SyncMoves
  <2>2. (~ \E y \in Syncs : SyncRequest(y)) => log' = log
    BY <1>2 DEF Others, OpenPullRequest, SavePublication, SaveBinding, Deliver, scmVars
  <2> QED BY <2>1, <2>2
<1>3. Requests \cap Syncs = {}
  BY WebhookAssumption
<1> QED BY <1>1, <1>2, <1>3 DEF EmittedBy

(* What a request has come to belongs to it alone.                         *)
LEMMA OnlyItsOwnEvents ==
  ASSUME Inv, NEW r \in Requests, WebhookRequest(r)
  PROVE  /\ \A q \in Requests \ {r} : EmittedBy(q)' = EmittedBy(q)
         /\ ~EmitEvent(r) => EmittedBy(r)' = EmittedBy(r)
<1>1. \/ ~EmitEvent(r) /\ log' = log
      \/ EmitEvent(r) /\ \E s, t : log' = log \cup {[by |-> r, session |-> s, type |-> t]}
  BY DEF WebhookRequest, Reject, Duplicate, Ignore, Accept, Lookup, EmitEvent, RecordDelivery,
     FailRequest
<1>2. CASE log' = log
  BY <1>1, <1>2 DEF EmittedBy
<1>3. ASSUME NEW e, e.by = r, log' = log \cup {e}
      PROVE  \A q \in Requests \ {r} : EmittedBy(q)' = EmittedBy(q)
  BY <1>3 DEF EmittedBy
<1> QED BY <1>1, <1>2, <1>3
-----------------------------------------------------------------------------
(* What a request takes up: the delivery, and what is known of it.         *)
LEMMA TakingUp ==
  ASSUME Inv, Next, NEW r \in Requests, NEW d \in DOMAIN outbox,
         Reject(r, d) \/ Duplicate(r, d) \/ Ignore(r, d) \/ Accept(r, d)
  PROVE  /\ ~Taken(r) /\ Taken(r)' /\ d \in DOMAIN outbox' /\ request'[r].delivery = d
         /\ request'[r].next = 1
         /\ request'[r].wasBound <=> outbox[d].about \in bindings
         /\ Message(r)' = outbox[d] /\ DeliveryId(r)' = ExtractDeliveryId(r, d)
         /\ Reject(r, d) => request'[r].at = "rejected"
         /\ Duplicate(r, d) => request'[r].at = "duplicate"
         /\ Ignore(r, d) => request'[r].at = "ignored"
         /\ Accept(r, d) => request'[r].at = "lookup"
         /\ ~Accept(r, d) => request'[r].at # "lookup"
         /\ request'[r].at \in {"lookup", "rejected", "duplicate", "ignored"}
<1>1. /\ request \in [Requests -> RequestStates] /\ outbox \in Seq(Messages) /\ d \in Nat
      /\ TypeOK
  BY DEF Inv, TypeOK
<1>2. PICK a \in {"lookup", "rejected", "duplicate", "ignored"} :
        /\ request' = [request EXCEPT ![r] = TakenAs(r, d, a)]
        /\ \/ Reject(r, d) /\ a = "rejected"
           \/ Duplicate(r, d) /\ a = "duplicate"
           \/ Ignore(r, d) /\ a = "ignored"
           \/ Accept(r, d) /\ a = "lookup"
  BY Zenon DEF TakenAs, Reject, Duplicate, Ignore, Accept
<1>3. ASSUME NEW b \in {"lookup", "rejected", "duplicate", "ignored"},
             request' = [request EXCEPT ![r] = TakenAs(r, d, b)]
      PROVE  /\ request'[r].at = b /\ request'[r].delivery = d /\ request'[r].next = 1
             /\ request'[r].wasBound <=> outbox[d].about \in bindings
  <2>1. request'[r] = TakenAs(r, d, b)
    BY <1>1, <1>3
  <2> QED BY <1>1, <2>1, TakenUp
<1>4. /\ request'[r].at = a /\ request'[r].delivery = d /\ request'[r].next = 1
      /\ request'[r].wasBound <=> outbox[d].about \in bindings
  BY <1>2, <1>3
<1>5. \A b \in {"lookup", "rejected", "duplicate", "ignored"} :
        request' = [request EXCEPT ![r] = TakenAs(r, d, b)] => b = a
  BY <1>3, <1>4
<1>6. /\ Reject(r, d) => a = "rejected"
      /\ Duplicate(r, d) => a = "duplicate"
      /\ Ignore(r, d) => a = "ignored"
      /\ Accept(r, d) => a = "lookup"
  BY <1>5, Zenon DEF TakenAs, Reject, Duplicate, Ignore, Accept
<1>7. request[r].at = "idle"
  BY DEF Reject, Duplicate, Ignore, Accept
<1>8. d \in DOMAIN outbox' /\ outbox'[d] = outbox[d]
  BY <1>1, OutboxGrows
<1> QED BY <1>2, <1>4, <1>6, <1>7, <1>8 DEF Taken, Message, DeliveryId, ExtractDeliveryId

(* A request that is in handling goes on with the delivery it has.         *)
LEMMA GoingOn ==
  ASSUME Inv, Next, NEW r \in Requests,
         Lookup(r) \/ EmitEvent(r) \/ RecordDelivery(r) \/ FailRequest(r)
  PROVE  /\ InHandling(r) /\ Taken(r) /\ Taken(r)' /\ Actionable(Message(r))
         /\ request'[r].delivery = request[r].delivery
         /\ request'[r].wasBound = request[r].wasBound
         /\ Message(r)' = Message(r) /\ DeliveryId(r)' = DeliveryId(r)
         /\ EmitEvent(r) => request'[r].at = "publish" /\ request'[r].pr = request[r].pr
         /\ RecordDelivery(r) => request'[r].at = "accepted" /\ request'[r].pr = request[r].pr
         /\ FailRequest(r) => request'[r].at = "error"
         /\ Lookup(r) => request'[r].at \in {"lookup", "emit", "unbound"}
<1>1. /\ request \in [Requests -> RequestStates] /\ request[r] \in RequestStates /\ TypeOK
  BY DEF Inv, TypeOK
<1>2. InHandling(r) /\ Taken(r)
  BY DEF InHandling, Taken, Lookup, EmitEvent, RecordDelivery, FailRequest
<1>3. Actionable(Message(r)) /\ request[r].delivery \in DOMAIN outbox
  BY <1>2 DEF Inv, InHand
<1>4. ASSUME NEW a \in {"publish", "accepted", "error", "unbound"},
             request' = [request EXCEPT ![r].at = a]
      PROVE  /\ request'[r].at = a /\ request'[r].pr = request[r].pr
             /\ request'[r].delivery = request[r].delivery
             /\ request'[r].wasBound = request[r].wasBound
  BY <1>1, <1>4 DEF RequestStates
<1>5. CASE Lookup(r)
  <2>1. \/ \E p : request' = [request EXCEPT ![r].at = "emit", ![r].pr = p]
        \/ request' = [request EXCEPT ![r].next = @ + 1]
        \/ request' = [request EXCEPT ![r].at = "unbound"]
    BY <1>5, Zenon DEF Lookup, Answer
  <2>2. request[r].at = "lookup"
    BY <1>5 DEF Lookup
  <2>3. ASSUME NEW p, request' = [request EXCEPT ![r].at = "emit", ![r].pr = p]
        PROVE  /\ request'[r].at = "emit" /\ request'[r].delivery = request[r].delivery
               /\ request'[r].wasBound = request[r].wasBound
    BY <1>1, <2>3 DEF RequestStates
  <2>5. /\ request'[r].at \in {"lookup", "emit", "unbound"}
        /\ request'[r].delivery = request[r].delivery
        /\ request'[r].wasBound = request[r].wasBound
    <3>1. CASE request' = [request EXCEPT ![r].next = @ + 1]
      <4>1. request'[r].at = request[r].at /\ request'[r].delivery = request[r].delivery
            /\ request'[r].wasBound = request[r].wasBound
        BY <1>1, <3>1 DEF RequestStates
      <4> QED BY <2>2, <4>1
    <3>2. CASE request' = [request EXCEPT ![r].at = "unbound"]
      BY <1>4, <3>2
    <3> QED BY <2>1, <2>3, <3>1, <3>2
  <2>6. ~EmitEvent(r) /\ ~RecordDelivery(r) /\ ~FailRequest(r)
    <3>1. ~EmitEvent(r) /\ ~RecordDelivery(r)
      BY <2>2 DEF EmitEvent, RecordDelivery
    <3>2. FailRequest(r) => request'[r].at = "error"
      BY <1>4 DEF FailRequest, Answer
    <3> QED BY <2>5, <3>1, <3>2
  <2> QED BY <1>1, <1>2, <1>3, <2>5, <2>6, MessagesStay DEF Taken
<1>6. CASE EmitEvent(r) \/ RecordDelivery(r) \/ FailRequest(r)
  <2>1. /\ EmitEvent(r) => request' = [request EXCEPT ![r].at = "publish"]
        /\ RecordDelivery(r) => request' = [request EXCEPT ![r].at = "accepted"]
        /\ FailRequest(r) => request' = [request EXCEPT ![r].at = "error"]
    BY Zenon DEF EmitEvent, RecordDelivery, FailRequest, Answer
  <2>2. /\ EmitEvent(r) => request'[r].at = "publish" /\ request'[r].pr = request[r].pr
        /\ RecordDelivery(r) => request'[r].at = "accepted" /\ request'[r].pr = request[r].pr
        /\ FailRequest(r) => request'[r].at = "error"
        /\ request'[r].delivery = request[r].delivery
        /\ request'[r].wasBound = request[r].wasBound
    BY <1>4, <1>6, <2>1
  <2>3. Taken(r)'
    BY <1>6, <2>2 DEF Taken
  <2> QED BY <1>1, <1>2, <1>3, <1>5, <2>2, <2>3, MessagesStay
<1> QED BY <1>5, <1>6

(* What a step of another leaves a request.                                *)
LEMMA Bystander ==
  ASSUME Inv, [Next]_scmVars, NEW q \in Requests, request'[q] = request[q]
  PROVE  /\ InHandling(q)' = InHandling(q) /\ Taken(q)' = Taken(q)
         /\ Taken(q) => /\ request[q].delivery \in DOMAIN outbox'
                        /\ Message(q)' = Message(q) /\ DeliveryId(q)' = DeliveryId(q)
<1>1. InHandling(q)' = InHandling(q) /\ Taken(q)' = Taken(q)
  BY DEF InHandling, Taken
<1>2. ASSUME Taken(q)
      PROVE  /\ request[q].delivery \in DOMAIN outbox'
             /\ Message(q)' = Message(q) /\ DeliveryId(q)' = DeliveryId(q)
  <2>1. request[q].delivery \in DOMAIN outbox /\ TypeOK
    BY <1>2 DEF Inv, InHand
  <2> QED BY <2>1, OutboxGrows, MessagesStay
<1> QED BY <1>1, <1>2

(* Every step keeps which delivery a request has in hand.                  *)
LEMMA InHandNext == ASSUME Inv, [Next]_scmVars PROVE InHand'
<1> DEFINE Held(r) ==
      /\ Taken(r) => request[r].delivery \in DOMAIN outbox
      /\ ~Taken(r) => request[r].delivery = 0
      /\ request[r].at \in {"emit", "publish", "accepted"} => request[r].pr \in PullRequests
      /\ InHandling(r) => Actionable(Message(r))
<1>1. \A r \in Requests : Held(r)
  BY DEF Inv, InHand
<1>2. ASSUME NEW q \in Requests, request'[q] = request[q] PROVE Held(q)'
  <2>1. InHandling(q) => Taken(q)
    BY DEF InHandling, Taken
  <2> QED BY <1>1, <1>2, <2>1, Bystander
<1>3. ASSUME NEW r \in Requests, WebhookRequest(r) PROVE Held(r)'
  <2>0. Next
    BY <1>3 DEF Next
  <2>1. ASSUME NEW d \in DOMAIN outbox, Reject(r, d) \/ Duplicate(r, d) \/ Ignore(r, d) \/ Accept(r, d)
        PROVE  Held(r)'
    <3>1. Accept(r, d) => Actionable(outbox[d])
      BY DEF Accept
    <3> QED BY <2>0, <2>1, <3>1, TakingUp DEF InHandling
  <2>2. CASE Lookup(r) \/ EmitEvent(r) \/ RecordDelivery(r) \/ FailRequest(r)
    <3>1. /\ Taken(r) /\ Taken(r)' /\ Actionable(Message(r)) /\ Message(r)' = Message(r)
          /\ request'[r].delivery = request[r].delivery
          /\ EmitEvent(r) => request'[r].at = "publish" /\ request'[r].pr = request[r].pr
          /\ RecordDelivery(r) => request'[r].at = "accepted" /\ request'[r].pr = request[r].pr
          /\ FailRequest(r) => request'[r].at = "error"
          /\ Lookup(r) => request'[r].at \in {"lookup", "emit", "unbound"}
      BY <2>0, <2>2, GoingOn
    <3>2. request[r].delivery \in DOMAIN outbox'
      BY <1>1, <2>0, <3>1, OutboxGrows DEF Inv
    <3>3. EmitEvent(r) \/ RecordDelivery(r) => request[r].pr \in PullRequests
      BY <1>1 DEF EmitEvent, RecordDelivery
    <3>4. CASE Lookup(r) /\ request'[r].at = "emit"
      <4> DEFINE n == Normalized(Message(r))
                 found == FindBinding(Message(r).provider, n.candidates[request[r].next], n.number)
      <4>1. request \in [Requests -> RequestStates] /\ bindings \in SUBSET PullRequests
        BY DEF Inv, TypeOK
      <4>2. request[r].at = "lookup"
        BY <3>4 DEF Lookup
      <4>3. \/ /\ found # {}
               /\ request' = [request EXCEPT ![r].at = "emit", ![r].pr = CHOOSE b \in found : TRUE]
            \/ request' = [request EXCEPT ![r].next = @ + 1]
            \/ request' = [request EXCEPT ![r].at = "unbound"]
        BY <3>4, Zenon DEF Lookup, Answer
      <4>4. found \subseteq PullRequests
        BY <4>1 DEF FindBinding
      <4> HIDE DEF found
      <4>5. request' = [request EXCEPT ![r].next = @ + 1] => request'[r].at = "lookup"
        BY <4>1, <4>2 DEF RequestStates
      <4>6. request' = [request EXCEPT ![r].at = "unbound"] => request'[r].at = "unbound"
        BY <4>1 DEF RequestStates
      <4>7. found # {} => (CHOOSE b \in found : TRUE) \in PullRequests
        BY <4>4
      <4>8. request'[r].pr \in PullRequests
        BY <3>4, <4>1, <4>3, <4>5, <4>6, <4>7 DEF RequestStates
      <4> QED BY <3>1, <3>2, <3>4, <4>8
    <3> QED BY <2>2, <3>1, <3>2, <3>3, <3>4
  <2> QED BY <1>3, <2>1, <2>2 DEF WebhookRequest
<1>4. \A r \in Requests : Held(r)'
  <2>1. CASE Others
    BY <1>2, <2>1, OthersAreElsewhere DEF Elsewhere
  <2>2. ASSUME NEW r \in Requests, WebhookRequest(r) PROVE \A q \in Requests : Held(q)'
    BY <1>2, <1>3, <2>2, RequestMoves
  <2> QED BY <2>1, <2>2, NextIsOne
<1>5. SyncsOK'
  BY TypeNext
<1> QED BY <1>4, <1>5 DEF InHand, SyncsOK
-----------------------------------------------------------------------------
(* What was noted in the history stays, and an id that was seen is seen or *)
(* has been forgotten.                                                     *)
LEMMA NotesStay ==
  ASSUME Inv, [Next]_scmVars
  PROVE  /\ history.crossed \subseteq history'.crossed
         /\ history.forgotten \subseteq history'.forgotten
         /\ history.halfway \subseteq history'.halfway
         /\ history.early \subseteq history'.early
         /\ seen \subseteq seen' \cup history'.forgotten
<1>1. history \in Histories
  BY DEF Inv, TypeOK, Histories
<1>2. CASE Others
  BY <1>2, OthersAreElsewhere DEF Elsewhere
<1>3. ASSUME NEW r \in Requests, WebhookRequest(r)
      PROVE  /\ history.crossed \subseteq history'.crossed
             /\ history.forgotten \subseteq history'.forgotten
             /\ history.halfway \subseteq history'.halfway
             /\ history.early \subseteq history'.early
             /\ seen \subseteq seen' \cup history'.forgotten
  <2> DEFINE Kept(h) == /\ history.crossed \subseteq h.crossed
                        /\ history.forgotten \subseteq h.forgotten
                        /\ history.halfway \subseteq h.halfway
                        /\ history.early \subseteq h.early
  <2>1. \A id : Kept([history EXCEPT !.crossed = @ \cup {id}])
    BY <1>1 DEF Histories
  <2>2. \A id : Kept([history EXCEPT !.early = @ \cup {id}])
    BY <1>1 DEF Histories
  <2>3. \A id : Kept([history EXCEPT !.halfway = @ \cup {id}])
    BY <1>1 DEF Histories
  <2>4. \A ids : LET h == [history EXCEPT !.forgotten = @ \cup ids]
                 IN  Kept(h) /\ ids \subseteq h.forgotten
    BY <1>1 DEF Histories
  <2>5. Kept(history)
    OBVIOUS
  <2> HIDE DEF Kept
  <2>6. ASSUME NEW d \in DOMAIN outbox, Reject(r, d) \/ Duplicate(r, d) \/ Ignore(r, d) \/ Accept(r, d)
        PROVE  Kept(history') /\ seen \subseteq seen'
    BY <2>1, <2>5, <2>6 DEF Reject, Duplicate, Ignore, Accept, NoteCrossing
  <2>7. CASE Lookup(r)
    BY <2>2, <2>5, <2>7 DEF Lookup, Kept
  <2>8. CASE EmitEvent(r)
    BY <2>5, <2>8 DEF EmitEvent, Kept
  <2>9. CASE RecordDelivery(r)
    <3> DEFINE all == seen \cup {DeliveryId(r)}
    <3>1. \/ seen' = {} /\ history' = [history EXCEPT !.forgotten = @ \cup all]
          \/ seen' = all /\ history' = history
      BY <2>9 DEF RecordDelivery
    <3>2. seen \subseteq all
      OBVIOUS
    <3> HIDE DEF all
    <3> QED BY <2>4, <2>5, <3>1, <3>2 DEF Kept
  <2>10. CASE FailRequest(r)
    BY <2>3, <2>5, <2>10 DEF FailRequest, Kept
  <2> QED BY <1>3, <2>6, <2>7, <2>8, <2>9, <2>10 DEF WebhookRequest, Kept
<1> QED BY <1>2, <1>3, NextIsOne

(* Two requests have the same id only when the delivery that they have in  *)
(* common brought it.                                                      *)
LEMMA SameDelivery ==
  ASSUME Inv, NEW q \in Requests, NEW r \in Requests, NEW d \in Nat, q # r,
         DeliveryId(q) = ExtractDeliveryId(r, d)
  PROVE  request[q].delivery = d /\ outbox[d].hasId
<1>1. request[q].delivery \in Nat
  BY DEF Inv, TypeOK, RequestStates
<1>2. Requests \cap Nat = {}
  BY WebhookAssumption
<1> QED BY <1>1, <1>2 DEF DeliveryId, ExtractDeliveryId

(* Every step keeps that two requests never handle one id.                 *)
LEMMA HandlingNext == ASSUME Inv, [Next]_scmVars PROVE Handling'
<1>1. /\ \A q, r \in Requests : q # r /\ InHandling(q) /\ InHandling(r) /\ DeliveryId(q) = DeliveryId(r)
                                  => DeliveryId(r) \in history.crossed
      /\ \A r \in Requests : InHandling(r) /\ DeliveryId(r) \in seen => DeliveryId(r) \in history.crossed
  BY DEF Inv, Handling
<1>2. \A r \in Requests : InHandling(r) => Taken(r)
  BY DEF InHandling, Taken
<1>3. history.crossed \subseteq history'.crossed
  BY NotesStay
<1>4. ASSUME NEW q \in Requests, request'[q] = request[q]
      PROVE  /\ InHandling(q)' = InHandling(q)
             /\ InHandling(q) => DeliveryId(q)' = DeliveryId(q)
  BY <1>2, <1>4, Bystander
<1>5. CASE Others
  <2>1. seen' = seen /\ request' = request
    BY <1>5, OthersAreElsewhere DEF Elsewhere
  <2>2. \A q \in Requests : /\ InHandling(q)' = InHandling(q)
                            /\ InHandling(q) => DeliveryId(q)' = DeliveryId(q)
    BY <1>4, <2>1
  <2> QED BY <1>1, <1>3, <2>1, <2>2 DEF Handling
<1>6. ASSUME NEW x \in Requests, WebhookRequest(x) PROVE Handling'
  <2>0. Next /\ \A q \in Requests \ {x} : request'[q] = request[q]
    BY <1>6, RequestMoves DEF Next
  <2>1. \A q \in Requests \ {x} : /\ InHandling(q)' = InHandling(q)
                                  /\ InHandling(q) => DeliveryId(q)' = DeliveryId(q)
    BY <1>4, <2>0
  <2>2. ASSUME InHandling(x)'
        PROVE  /\ \A q \in Requests \ {x} : InHandling(q) /\ DeliveryId(q) = DeliveryId(x)'
                                              => DeliveryId(x)' \in history'.crossed
               /\ DeliveryId(x)' \in seen' => DeliveryId(x)' \in history'.crossed
    <3>1. ASSUME NEW d \in DOMAIN outbox,
                 Reject(x, d) \/ Duplicate(x, d) \/ Ignore(x, d) \/ Accept(x, d)
          PROVE  /\ \A q \in Requests \ {x} : InHandling(q) /\ DeliveryId(q) = DeliveryId(x)'
                                                => DeliveryId(x)' \in history'.crossed
                 /\ DeliveryId(x)' \in seen' => DeliveryId(x)' \in history'.crossed
      <4>1. Accept(x, d) /\ DeliveryId(x)' = ExtractDeliveryId(x, d)
        BY <2>0, <2>2, <3>1, TakingUp DEF InHandling
      <4>2. seen' = seen /\ ExtractDeliveryId(x, d) \notin seen
        BY <4>1 DEF Accept
      <4>3. ASSUME NEW q \in Requests \ {x}, InHandling(q), DeliveryId(q) = ExtractDeliveryId(x, d)
            PROVE  ExtractDeliveryId(x, d) \in history'.crossed
        <5>1. history' = [history EXCEPT !.crossed = @ \cup {ExtractDeliveryId(x, d)}]
          BY <4>1, <4>3 DEF Accept, NoteCrossing
        <5> QED BY <5>1 DEF Inv, TypeOK
      <4> QED BY <4>1, <4>2, <4>3
    <3>2. CASE Lookup(x) \/ EmitEvent(x) \/ RecordDelivery(x) \/ FailRequest(x)
      <4>1. InHandling(x) /\ DeliveryId(x)' = DeliveryId(x)
        BY <2>0, <3>2, GoingOn
      <4>2. seen' = seen
        <5>1. ~RecordDelivery(x) /\ ~FailRequest(x) /\ ~(Lookup(x) /\ request'[x].at = "unbound")
          BY <2>0, <2>2, GoingOn DEF InHandling
        <5>2. CASE Lookup(x)
          <6>1. request \in [Requests -> RequestStates]
            BY DEF Inv, TypeOK
          <6>2. Answer(x, "unbound") => request'[x].at = "unbound"
            BY <6>1 DEF Answer
          <6> QED BY <5>1, <5>2, <6>2 DEF Lookup
        <5>3. CASE EmitEvent(x)
          BY <5>3 DEF EmitEvent
        <5> QED BY <3>2, <5>1, <5>2, <5>3
      <4> QED BY <1>1, <1>3, <4>1, <4>2
    <3> QED BY <1>6, <3>1, <3>2 DEF WebhookRequest
  <2>3. ASSUME NEW q \in Requests \ {x}, InHandling(q), DeliveryId(q) \in seen'
        PROVE  DeliveryId(q) \in history'.crossed
    <3>1. CASE DeliveryId(q) \in seen
      BY <1>1, <1>3, <2>3, <3>1
    <3>2. ASSUME DeliveryId(q) \notin seen, NEW d \in DOMAIN outbox,
                 Reject(x, d) \/ Duplicate(x, d) \/ Ignore(x, d) \/ Accept(x, d)
          PROVE  FALSE
      <4>1. Ignore(x, d) /\ DeliveryId(q) = ExtractDeliveryId(x, d)
        BY <2>3, <3>2 DEF Reject, Duplicate, Ignore, Accept
      <4>2. d \in Nat
        BY DEF Inv, TypeOK
      <4>3. Message(q) = outbox[d]
        BY <4>1, <4>2, SameDelivery DEF Message
      <4> QED BY <2>3, <4>1, <4>3 DEF Ignore, Inv, InHand
    <3>3. CASE DeliveryId(q) \notin seen
               /\ (Lookup(x) \/ EmitEvent(x) \/ RecordDelivery(x) \/ FailRequest(x))
      <4>1. DeliveryId(q) = DeliveryId(x)
        BY <2>3, <3>3 DEF Lookup, EmitEvent, RecordDelivery, FailRequest
      <4>2. InHandling(x)
        BY <2>0, <3>3, GoingOn
      <4> QED BY <1>1, <1>3, <2>3, <4>1, <4>2
    <3> QED BY <1>6, <3>1, <3>2, <3>3 DEF WebhookRequest
  <2>4. ASSUME NEW q \in Requests, NEW r \in Requests, q # r, InHandling(q)', InHandling(r)',
               DeliveryId(q)' = DeliveryId(r)'
        PROVE  DeliveryId(r)' \in history'.crossed
    BY <1>1, <1>3, <2>1, <2>2, <2>4
  <2>5. ASSUME NEW r \in Requests, InHandling(r)', DeliveryId(r)' \in seen'
        PROVE  DeliveryId(r)' \in history'.crossed
    BY <2>1, <2>2, <2>3, <2>5
  <2> QED BY <2>4, <2>5 DEF Handling
<1> QED BY <1>5, <1>6, NextIsOne

(* Only the step that appends brings an event of a request.                *)
LEMMA EventIsAppended ==
  ASSUME Inv, Next, NEW r \in Requests, EmitEvent(r)
  PROVE  \E e \in EmittedBy(r)' : e.session = request[r].pr.session
<1> DEFINE new == [by |-> r, session |-> request[r].pr.session, type |-> Normalized(Message(r)).type]
<1>1. new \in log'
  BY DEF EmitEvent
<1>2. new.by = r /\ new.session = request[r].pr.session
  OBVIOUS
<1> QED BY <1>1, <1>2 DEF EmittedBy

(* Every step keeps that the id of an event in the log is not handled by   *)
(* another.                                                                *)
LEMMA EmittingNext == ASSUME Inv, [Next]_scmVars PROVE Emitting'
<1> DEFINE Out(r) ==
      /\ EmittedBy(r) # {} =>
           \/ request[r].at = "publish"
           \/ /\ request[r].at \in {"accepted", "error"}
              /\ DeliveryId(r) \in seen \cup history.forgotten \cup history.halfway
      /\ request[r].at \in {"publish", "accepted"} =>
           \E e \in EmittedBy(r) : e.session = request[r].pr.session
<1>1. \A r \in Requests : Out(r)
  BY DEF Inv, Emitting
<1>2. seen \cup history.forgotten \cup history.halfway
        \subseteq seen' \cup history'.forgotten \cup history'.halfway
  BY NotesStay
<1>3. ASSUME NEW q \in Requests, request'[q] = request[q], EmittedBy(q)' = EmittedBy(q)
      PROVE  Out(q)'
  BY <1>1, <1>2, <1>3, Bystander DEF Taken
<1>4. ASSUME NEW x \in Requests, WebhookRequest(x) PROVE Out(x)'
  <2>0. Next
    BY <1>4 DEF Next
  <2>1. ASSUME NEW d \in DOMAIN outbox,
               Reject(x, d) \/ Duplicate(x, d) \/ Ignore(x, d) \/ Accept(x, d)
        PROVE  Out(x)'
    <3>1. request[x].at = "idle" /\ request'[x].at \notin {"publish", "accepted"}
      BY <2>0, <2>1, TakingUp DEF Taken
    <3>2. EmittedBy(x) = {}
      BY <1>1, <3>1
    <3>3. EmittedBy(x)' = {}
      BY <1>4, <3>1, <3>2, OnlyItsOwnEvents DEF EmitEvent
    <3> QED BY <3>1, <3>3
  <2>2. CASE Lookup(x)
    <3>1. request[x].at = "lookup" /\ request'[x].at \notin {"publish", "accepted"}
      BY <2>0, <2>2, GoingOn DEF Lookup
    <3>2. EmittedBy(x)' = {}
      BY <1>1, <1>4, <3>1, OnlyItsOwnEvents DEF EmitEvent
    <3> QED BY <3>1, <3>2
  <2>3. CASE EmitEvent(x)
    <3>1. request'[x].at = "publish" /\ request'[x].pr = request[x].pr
      BY <2>0, <2>3, GoingOn
    <3> QED BY <2>0, <2>3, <3>1, EventIsAppended
  <2>4. CASE RecordDelivery(x)
    <3>1. /\ request'[x].at = "accepted" /\ request'[x].pr = request[x].pr
          /\ DeliveryId(x)' = DeliveryId(x) /\ request[x].at = "publish"
      BY <2>0, <2>4, GoingOn DEF RecordDelivery
    <3>2. EmittedBy(x)' = EmittedBy(x)
      BY <1>4, <3>1, OnlyItsOwnEvents DEF EmitEvent
    <3>3. DeliveryId(x) \in seen' \cup history'.forgotten
      BY <2>4 DEF RecordDelivery, Inv, TypeOK
    <3> QED BY <1>1, <3>1, <3>2, <3>3
  <2>5. CASE FailRequest(x)
    <3>1. /\ request'[x].at = "error" /\ DeliveryId(x)' = DeliveryId(x)
          /\ request[x].at \in {"lookup", "emit", "publish"}
      BY <2>0, <2>5, GoingOn DEF InHandling
    <3>2. CASE request[x].at = "publish"
      BY <2>5, <3>1, <3>2 DEF FailRequest, Inv, TypeOK
    <3>3. CASE request[x].at # "publish"
      <4>1. EmittedBy(x) = {}
        BY <1>1, <3>1, <3>3
      <4>2. ~EmitEvent(x)
        BY <2>0, <3>1, GoingOn
      <4> QED BY <1>4, <3>1, <4>1, <4>2, OnlyItsOwnEvents
    <3> QED BY <3>2, <3>3
  <2> QED BY <1>4, <2>1, <2>2, <2>3, <2>4, <2>5 DEF WebhookRequest
<1>5. \A q \in Requests : Out(q)'
  <2>1. CASE Others
    BY <1>3, <2>1, OthersAreElsewhere, EventsStay DEF Elsewhere
  <2>2. ASSUME NEW x \in Requests, WebhookRequest(x) PROVE \A q \in Requests : Out(q)'
    BY <1>3, <1>4, <2>2, RequestMoves, OnlyItsOwnEvents
  <2> QED BY <2>1, <2>2, NextIsOne
<1> QED BY <1>5 DEF Emitting

(* Every step keeps that an id has one event at most.                      *)
LEMMA OneEachNext == ASSUME Inv, [Next]_scmVars PROVE OneEach'
<1>1. /\ \A q, r \in Requests : q # r /\ EmittedBy(q) # {} /\ EmittedBy(r) # {}
                                  /\ DeliveryId(q) = DeliveryId(r) => DeliveryId(r) \in Exceptions
      /\ \A q, r \in Requests : q # r /\ InHandling(q) /\ InHandling(r) /\ DeliveryId(q) = DeliveryId(r)
                                  => DeliveryId(r) \in history.crossed
      /\ \A r \in Requests : InHandling(r) /\ DeliveryId(r) \in seen => DeliveryId(r) \in history.crossed
      /\ \A r \in Requests : EmittedBy(r) # {} =>
           \/ request[r].at = "publish"
           \/ /\ request[r].at \in {"accepted", "error"}
              /\ DeliveryId(r) \in seen \cup history.forgotten \cup history.halfway
  BY DEF Inv, OneEach, Handling, Emitting
<1>2. Exceptions \subseteq Exceptions'
  BY NotesStay DEF Exceptions
<1>3. \A r \in Requests : EmittedBy(r) # {} => Taken(r)
  BY <1>1 DEF Taken
<1>4. \A q \in Requests : request'[q] = request[q] /\ Taken(q) => DeliveryId(q)' = DeliveryId(q)
  BY Bystander
<1>5. CASE Others
  <2>1. \A q \in Requests : request'[q] = request[q] /\ EmittedBy(q)' = EmittedBy(q)
    BY <1>5, OthersAreElsewhere, EventsStay DEF Elsewhere
  <2> QED BY <1>1, <1>2, <1>3, <1>4, <2>1 DEF OneEach
<1>6. ASSUME NEW x \in Requests, WebhookRequest(x) PROVE OneEach'
  <2>0. Next
    BY <1>6 DEF Next
  <2>1. \A q \in Requests \ {x} : EmittedBy(q)' = EmittedBy(q)
                                  /\ (EmittedBy(q) # {} => DeliveryId(q)' = DeliveryId(q))
    BY <1>3, <1>4, <1>6, RequestMoves, OnlyItsOwnEvents
  <2>2. CASE EmitEvent(x)
    <3>1. InHandling(x) /\ DeliveryId(x)' = DeliveryId(x)
      BY <2>0, <2>2, GoingOn
    <3>2. ASSUME NEW q \in Requests \ {x}, EmittedBy(q) # {}, DeliveryId(q) = DeliveryId(x)
          PROVE  DeliveryId(x) \in Exceptions'
      <4>1. CASE request[q].at = "publish"
        BY <1>1, <1>2, <3>1, <3>2, <4>1 DEF Exceptions, InHandling
      <4>2. CASE DeliveryId(q) \in seen \cup history.forgotten \cup history.halfway
        BY <1>1, <1>2, <3>1, <3>2, <4>2 DEF Exceptions
      <4> QED BY <1>1, <3>2, <4>1, <4>2
    <3> QED BY <1>1, <1>2, <2>1, <3>1, <3>2 DEF OneEach
  <2>3. CASE ~EmitEvent(x)
    <3>1. EmittedBy(x)' = EmittedBy(x)
      BY <1>6, <2>3, OnlyItsOwnEvents
    <3>2. EmittedBy(x) # {} => DeliveryId(x)' = DeliveryId(x)
      <4>1. ASSUME NEW d \in DOMAIN outbox,
                   Reject(x, d) \/ Duplicate(x, d) \/ Ignore(x, d) \/ Accept(x, d)
            PROVE  EmittedBy(x) = {}
        BY <1>3, <2>0, <4>1, TakingUp
      <4>2. Lookup(x) \/ EmitEvent(x) \/ RecordDelivery(x) \/ FailRequest(x)
              => DeliveryId(x)' = DeliveryId(x)
        BY <2>0, GoingOn
      <4> QED BY <1>6, <4>1, <4>2 DEF WebhookRequest
    <3> QED BY <1>1, <1>2, <2>1, <3>1, <3>2 DEF OneEach
  <2> QED BY <2>2, <2>3
<1> QED BY <1>5, <1>6, NextIsOne

(* The invariant is inductive.                                             *)
LEMMA InvNext == ASSUME Inv, [Next]_scmVars PROVE Inv'
BY TypeNext, InHandNext, HandlingNext, EmittingNext, OneEachNext DEF Inv

(* The state of the webhook and sync endpoints is what their code handles  *)
(* at every point between two awaits.                                      *)
THEOREM WebhookTypes == Spec => []TypeOK
<1>1. Inv => TypeOK
  BY DEF Inv
<1> QED BY <1>1, InitInv, InvNext, PTL DEF Spec

(* Whatever the order of the deliveries, of their copies and of what fails *)
(* in between, ScmWebhookService appends one event for a delivery at most: *)
(* the exceptions are those that the property names, and no other.         *)
THEOREM AtMostOneEvent == Spec => []EmittedOnce
<1>1. ASSUME Inv PROVE EmittedOnce
  <2> SUFFICES ASSUME NEW d \in DOMAIN outbox, outbox[d].hasId, d \notin Exceptions
               PROVE  Cardinality({ r \in Requests : request[r].delivery = d /\ EmittedBy(r) # {} }) <= 1
    BY DEF EmittedOnce, Exceptions
  <2> DEFINE S == { r \in Requests : request[r].delivery = d /\ EmittedBy(r) # {} }
  <2>1. \A r \in S : DeliveryId(r) = d
    BY DEF DeliveryId, ExtractDeliveryId
  <2>2. \A q, r \in S : q = r
    BY <1>1, <2>1 DEF Inv, OneEach
  <2> HIDE DEF S
  <2>3. S # {} => \E r : S = {r}
    <3>1. ASSUME NEW r \in S PROVE S = {r}
      BY <2>2, <3>1
    <3> QED BY <3>1
  <2>4. Cardinality(S) = 0 \/ Cardinality(S) = 1
    BY <2>3, FS_EmptySet, FS_Singleton
  <2> QED BY <2>4 DEF S
<1> QED BY <1>1, InitInv, InvNext, PTL DEF Spec
-----------------------------------------------------------------------------
(* A binding is replaced only by one for the same pull request.            *)
LEMMA BindingsStay ==
  ASSUME PayloadsTell, Inv, [Next]_scmVars
  PROVE  bindings \subseteq bindings'
<1>1. bindings \in SUBSET PullRequests
  BY DEF Inv, TypeOK
<1>2. bindings' = bindings \/ \E p \in PullRequests : SaveBinding(p)
  BY DEF Next, OpenPullRequest, SavePublication, Deliver, WebhookRequest, Reject, Duplicate,
     Ignore, Accept, Lookup, EmitEvent, RecordDelivery, FailRequest, SyncRequest, ReadContext,
     ReadContextAgain, CollectFailures, CollectComments, EmitPipeline, EmitComments, EmitSynced,
     EnqueueSession, FailSync, scmVars
<1>3. ASSUME NEW p \in PullRequests, SaveBinding(p) PROVE bindings \subseteq bindings'
  <2>1. \A b \in bindings : BindingKey(b) = BindingKey(p) => b = p
    BY <1>1 DEF PayloadsTell
  <2> QED BY <1>3, <2>1 DEF SaveBinding
<1> QED BY <1>2, <1>3

(* What a payload to act on tells of the pull request it is about.         *)
LEMMA WhatItTells ==
  ASSUME PayloadsTell, Inv, NEW r \in Requests, Taken(r), Actionable(Message(r))
  PROVE  /\ Len(Candidates(r)) \in Nat \ {0}
         /\ Ours(r) =>
              /\ Message(r).about.provider = Message(r).provider
              /\ Message(r).about.number = Normalized(Message(r)).number
              /\ \A i \in 1 .. Len(Candidates(r)), p \in PullRequests :
                   p \in FindBinding(Message(r).provider, Candidates(r)[i], Normalized(Message(r)).number)
                     => p = Message(r).about
              /\ ~TellsNoOrganization(Message(r)) =>
                   \E i \in 1 .. Len(Candidates(r)) : Candidates(r)[i] = DisplayName(Message(r).about)
<1>1. Message(r) \in Messages
  BY DEF Inv, TypeOK, InHand, Message
<1> QED BY <1>1 DEF PayloadsTell, Candidates, Ours, FindBinding

(* The three outcomes of asking for a candidate.                           *)
LEMMA LookupEnds ==
  ASSUME PayloadsTell, Inv, Searching, Next, NEW r \in Requests, Lookup(r)
  PROVE  LET found == FindBinding(Message(r).provider, Candidates(r)[request[r].next],
                                  Normalized(Message(r)).number)
         IN  \/ /\ request'[r].at = "emit" /\ found # {} /\ request'[r].pr \in found
                /\ UNCHANGED <<seen, history>>
             \/ /\ request'[r].at = "lookup" /\ found = {}
                /\ request[r].next < Len(Candidates(r)) /\ request'[r].next = request[r].next + 1
                /\ UNCHANGED <<seen, history>>
             \/ /\ request'[r].at = "unbound" /\ found = {} /\ request[r].next = Len(Candidates(r))
                /\ seen' = seen \cup {DeliveryId(r)} /\ DeliveryId(r) \in history'.early
<1> DEFINE found == FindBinding(Message(r).provider, Candidates(r)[request[r].next],
                                Normalized(Message(r)).number)
<1>1. request \in [Requests -> RequestStates] /\ history \in Histories
  BY DEF Inv, TypeOK, Histories
<1>2. request[r] \in RequestStates /\ request[r].at = "lookup"
  BY <1>1 DEF Lookup
<1>3. \/ /\ found # {}
         /\ request' = [request EXCEPT ![r].at = "emit", ![r].pr = CHOOSE b \in found : TRUE]
         /\ UNCHANGED <<seen, history>>
      \/ /\ found = {} /\ request[r].next < Len(Candidates(r))
         /\ request' = [request EXCEPT ![r].next = @ + 1]
         /\ UNCHANGED <<seen, history>>
      \/ /\ found = {} /\ request[r].next = Len(Candidates(r))
         /\ request' = [request EXCEPT ![r].at = "unbound"]
         /\ seen' = seen \cup {DeliveryId(r)}
         /\ history' = [history EXCEPT !.early = @ \cup {DeliveryId(r)}]
  BY Zenon DEF Lookup, Answer, Candidates
<1> HIDE DEF found
<1>4. ASSUME found # {},
             request' = [request EXCEPT ![r].at = "emit", ![r].pr = CHOOSE b \in found : TRUE]
      PROVE  request'[r].at = "emit" /\ request'[r].pr \in found
  <2>1. (CHOOSE b \in found : TRUE) \in found
    BY <1>4
  <2> QED BY <1>1, <1>2, <1>4, <2>1 DEF RequestStates
<1>5. ASSUME request' = [request EXCEPT ![r].next = @ + 1]
      PROVE  request'[r].at = "lookup" /\ request'[r].next = request[r].next + 1
  <2>1. request[r].next + 1 \in Nat
    BY <1>2 DEF RequestStates
  <2>2. request'[r] = [request[r] EXCEPT !.next = request[r].next + 1]
    BY <1>1, <1>5
  <2> QED BY <1>2, <2>1, <2>2 DEF RequestStates
<1>6. request' = [request EXCEPT ![r].at = "unbound"] => request'[r].at = "unbound"
  BY <1>1, <1>2 DEF RequestStates
<1>7. history' = [history EXCEPT !.early = @ \cup {DeliveryId(r)}] => DeliveryId(r) \in history'.early
  BY <1>1 DEF Histories
<1>8. \/ /\ request'[r].at = "emit" /\ found # {} /\ request'[r].pr \in found
         /\ UNCHANGED <<seen, history>>
      \/ /\ request'[r].at = "lookup" /\ found = {}
         /\ request[r].next < Len(Candidates(r)) /\ request'[r].next = request[r].next + 1
         /\ UNCHANGED <<seen, history>>
      \/ /\ request'[r].at = "unbound" /\ found = {} /\ request[r].next = Len(Candidates(r))
         /\ seen' = seen \cup {DeliveryId(r)} /\ DeliveryId(r) \in history'.early
  BY <1>3, <1>4, <1>5, <1>6, <1>7
<1> QED BY <1>8 DEF found

(* Every step keeps that a search that goes on has passed no binding of    *)
(* the pull request.                                                       *)
LEMMA SearchingNext ==
  ASSUME PayloadsTell, Inv, Searching, [Next]_scmVars
  PROVE  Searching'
<1> DEFINE Searched(r) ==
      /\ request[r].wasBound => Taken(r) /\ Message(r).about \in bindings
      /\ request[r].at \in {"emit", "publish", "accepted"} /\ Ours(r) =>
           request[r].pr = Message(r).about
      /\ request[r].at = "lookup" =>
           /\ request[r].next \in 1 .. Len(Candidates(r))
           /\ request[r].wasBound =>
                \A j \in 1 .. request[r].next - 1 : Candidates(r)[j] # DisplayName(Message(r).about)
<1>1. \A r \in Requests : Searched(r)
  BY DEF Searching
<1>2. bindings \subseteq bindings'
  BY BindingsStay
<1>3. ASSUME NEW q \in Requests, request'[q] = request[q] PROVE Searched(q)'
  <2>1. CASE Taken(q)
    <3>1. Taken(q)' /\ Message(q)' = Message(q)
      BY <1>3, <2>1, Bystander
    <3>2. Candidates(q)' = Candidates(q) /\ Ours(q)' = Ours(q)
      BY <3>1 DEF Candidates, Ours
    <3> QED BY <1>1, <1>2, <1>3, <3>1, <3>2
  <2>2. CASE ~Taken(q)
    BY <1>1, <1>3, <2>2 DEF Taken
  <2> QED BY <2>1, <2>2
<1>4. ASSUME NEW x \in Requests, WebhookRequest(x) PROVE Searched(x)'
  <2>0. Next /\ bindings' = bindings /\ bindings \in SUBSET PullRequests
        /\ request[x] \in RequestStates
    BY <1>4
    DEF Next, WebhookRequest, Reject, Duplicate, Ignore, Accept, Lookup, EmitEvent,
        RecordDelivery, FailRequest, Inv, TypeOK
  <2>1. ASSUME NEW d \in DOMAIN outbox,
               Reject(x, d) \/ Duplicate(x, d) \/ Ignore(x, d) \/ Accept(x, d)
        PROVE  Searched(x)'
    <3>1. /\ Taken(x)' /\ request'[x].next = 1 /\ Message(x)' = outbox[d]
          /\ request'[x].wasBound <=> outbox[d].about \in bindings
          /\ request'[x].at \in {"lookup", "rejected", "duplicate", "ignored"}
          /\ request'[x].at = "lookup" => Accept(x, d)
      BY <2>0, <2>1, TakingUp
    <3>2. request'[x].at = "lookup" => 1 \in 1 .. Len(Candidates(x)')
      <4>1. ASSUME request'[x].at = "lookup"
            PROVE  Len(Normalized(outbox[d]).candidates) \in Nat \ {0}
        <5>1. Actionable(outbox[d]) /\ outbox[d] \in Messages
          BY <3>1, <4>1 DEF Accept, Inv, TypeOK
        <5> QED BY <5>1 DEF PayloadsTell
      <4>2. Candidates(x)' = Normalized(outbox[d]).candidates
        BY <3>1 DEF Candidates
      <4> QED BY <4>1, <4>2
    <3>3. \A j \in 1 .. request'[x].next - 1 : FALSE
      BY <3>1
    <3> QED BY <2>0, <3>1, <3>2, <3>3
  <2>2. CASE Lookup(x) \/ EmitEvent(x) \/ RecordDelivery(x) \/ FailRequest(x)
    <3>1. /\ Taken(x) /\ Taken(x)' /\ Actionable(Message(x)) /\ Message(x)' = Message(x)
          /\ request'[x].wasBound = request[x].wasBound
          /\ EmitEvent(x) => request'[x].at = "publish" /\ request'[x].pr = request[x].pr
          /\ RecordDelivery(x) => request'[x].at = "accepted" /\ request'[x].pr = request[x].pr
          /\ FailRequest(x) => request'[x].at = "error"
      BY <2>0, <2>2, GoingOn
    <3>2. Candidates(x)' = Candidates(x) /\ Ours(x)' = Ours(x)
      BY <3>1 DEF Candidates, Ours
    <3>3. request'[x].wasBound => Taken(x)' /\ Message(x)'.about \in bindings'
      BY <1>1, <1>2, <3>1
    <3>4. CASE EmitEvent(x) \/ RecordDelivery(x) \/ FailRequest(x)
      <4>1. EmitEvent(x) \/ RecordDelivery(x) => request[x].at \in {"emit", "publish"}
        BY DEF EmitEvent, RecordDelivery
      <4> QED BY <1>1, <3>1, <3>2, <3>3, <3>4, <4>1
    <3>5. CASE Lookup(x)
      <4> DEFINE found == FindBinding(Message(x).provider, Candidates(x)[request[x].next],
                                      Normalized(Message(x)).number)
      <4>1. \/ request'[x].at = "emit" /\ request'[x].pr \in found
            \/ /\ request'[x].at = "lookup" /\ found = {}
               /\ request[x].next < Len(Candidates(x)) /\ request'[x].next = request[x].next + 1
            \/ request'[x].at = "unbound"
        BY <2>0, <3>5, LookupEnds
      <4>2. /\ Len(Candidates(x)) \in Nat \ {0}
            /\ Ours(x) =>
                 /\ Message(x).about.provider = Message(x).provider
                 /\ Message(x).about.number = Normalized(Message(x)).number
                 /\ \A i \in 1 .. Len(Candidates(x)), p \in PullRequests :
                      p \in FindBinding(Message(x).provider, Candidates(x)[i],
                                        Normalized(Message(x)).number)
                        => p = Message(x).about
        BY <3>1, WhatItTells
      <4>3. request[x].next \in 1 .. Len(Candidates(x))
            /\ (request[x].wasBound =>
                  \A j \in 1 .. request[x].next - 1 : Candidates(x)[j] # DisplayName(Message(x).about))
        BY <1>1, <3>5 DEF Lookup
      <4>4. found \subseteq PullRequests
        BY <2>0 DEF FindBinding
      <4>5. CASE request'[x].at = "emit" /\ request'[x].pr \in found
        <5>1. Ours(x) => request'[x].pr = Message(x).about
          BY <4>2, <4>3, <4>4, <4>5
        <5> QED BY <3>1, <3>2, <3>3, <4>5, <5>1
      <4>6. CASE /\ request'[x].at = "lookup" /\ found = {}
                 /\ request[x].next < Len(Candidates(x)) /\ request'[x].next = request[x].next + 1
        <5>1. ASSUME request[x].wasBound
              PROVE  Candidates(x)[request[x].next] # DisplayName(Message(x).about)
          <6>1. Message(x).about \in bindings /\ Ours(x)
            BY <1>1, <2>0, <5>1 DEF Ours
          <6> QED BY <4>2, <4>6, <6>1 DEF FindBinding
        <5>2. request'[x].next \in 1 .. Len(Candidates(x))
          BY <4>2, <4>3, <4>6
        <5>3. request[x].wasBound =>
                \A j \in 1 .. request'[x].next - 1 : Candidates(x)[j] # DisplayName(Message(x).about)
          BY <4>3, <4>6, <5>1
        <5> QED BY <3>1, <3>2, <3>3, <4>6, <5>2, <5>3
      <4>7. CASE request'[x].at = "unbound"
        BY <3>1, <3>2, <3>3, <4>7
      <4> QED BY <4>1, <4>5, <4>6, <4>7
    <3> QED BY <2>2, <3>4, <3>5
  <2> QED BY <1>4, <2>1, <2>2 DEF WebhookRequest
<1>5. \A r \in Requests : Searched(r)'
  <2>1. CASE Others
    BY <1>3, <2>1, OthersAreElsewhere DEF Elsewhere
  <2>2. ASSUME NEW x \in Requests, WebhookRequest(x) PROVE \A q \in Requests : Searched(q)'
    BY <1>3, <1>4, <2>2, RequestMoves
  <2> QED BY <2>1, <2>2, NextIsOne
<1> QED BY <1>5 DEF Searching

(* A request keeps the delivery it has taken up.                           *)
LEMMA TakenStays ==
  ASSUME Inv, [Next]_scmVars, NEW q \in Requests, Taken(q)
  PROVE  /\ Taken(q)' /\ Message(q)' = Message(q) /\ DeliveryId(q)' = DeliveryId(q)
         /\ request'[q].delivery = request[q].delivery
         /\ Told(q) => Told(q)'
<1>1. /\ Taken(q)' /\ Message(q)' = Message(q) /\ DeliveryId(q)' = DeliveryId(q)
      /\ request'[q].delivery = request[q].delivery
  <2>1. CASE request'[q] = request[q]
    BY <2>1, Bystander
  <2>2. ASSUME WebhookRequest(q), Next
        PROVE  /\ Taken(q)' /\ Message(q)' = Message(q) /\ DeliveryId(q)' = DeliveryId(q)
               /\ request'[q].delivery = request[q].delivery
    <3>1. \A d \in DOMAIN outbox : ~(Reject(q, d) \/ Duplicate(q, d) \/ Ignore(q, d) \/ Accept(q, d))
      BY <2>2, TakingUp
    <3>2. Lookup(q) \/ EmitEvent(q) \/ RecordDelivery(q) \/ FailRequest(q)
      BY <2>2, <3>1 DEF WebhookRequest
    <3> QED BY <2>2, <3>2, GoingOn
  <2>3. ASSUME NEW x \in Requests, WebhookRequest(x)
        PROVE  request'[q] = request[q] \/ x = q
    BY <2>3, RequestMoves
  <2>4. Others => request'[q] = request[q]
    BY OthersAreElsewhere DEF Elsewhere
  <2>5. \A x \in Requests : WebhookRequest(x) => Next
    BY DEF Next
  <2> QED BY <2>1, <2>2, <2>3, <2>4, <2>5, NextIsOne
<1>2. EmittedBy(q) \subseteq EmittedBy(q)'
  BY EventsStay
<1> QED BY <1>1, <1>2 DEF Told

(* Every step keeps why an id is among those seen.                         *)
LEMMA ReasonsNext ==
  ASSUME PayloadsTell, Inv, Searching, Reasons, [Next]_scmVars
  PROVE  Reasons'
<1> DEFINE Handled(q, id) == /\ Taken(q) /\ DeliveryId(q) = id
                             /\ Actionable(Message(q)) /\ Ours(q) => Told(q)
<1>1. \A id \in seen : id \in history.early \/ \E q \in Requests : Handled(q, id)
  BY DEF Reasons
<1>2. ASSUME NEW id \in seen
      PROVE  id \in history'.early \/ \E q \in Requests : Handled(q, id)'
  <2>1. history.early \subseteq history'.early
    BY NotesStay
  <2>2. ASSUME NEW q \in Requests, Handled(q, id) PROVE Handled(q, id)'
    BY <2>2, TakenStays DEF Ours
  <2> QED BY <1>1, <2>1, <2>2
<1>3. ASSUME NEW x \in Requests, WebhookRequest(x), NEW id \in seen', id \notin seen
      PROVE  id \in history'.early \/ Handled(x, id)'
  <2>0. Next
    BY <1>3 DEF Next
  <2>1. ASSUME NEW d \in DOMAIN outbox,
               Reject(x, d) \/ Duplicate(x, d) \/ Ignore(x, d) \/ Accept(x, d)
        PROVE  Handled(x, id)'
    <3>1. Ignore(x, d) /\ id = ExtractDeliveryId(x, d) /\ ~Actionable(outbox[d])
      BY <1>3, <2>1 DEF Reject, Duplicate, Ignore, Accept
    <3> QED BY <2>0, <3>1, TakingUp
  <2>2. CASE Lookup(x)
    BY <1>3, <2>0, <2>2, LookupEnds
  <2>3. CASE RecordDelivery(x)
    <3>1. id = DeliveryId(x) /\ request[x].at = "publish"
      BY <1>3, <2>3 DEF RecordDelivery
    <3>2. Taken(x) /\ Taken(x)' /\ Message(x)' = Message(x) /\ DeliveryId(x)' = DeliveryId(x)
      BY <2>0, <2>3, GoingOn
    <3>3. Ours(x) => Told(x)
      BY <3>1 DEF Searching, Inv, Emitting, Told
    <3>4. Told(x) => Told(x)'
      BY <2>0, <3>2, TakenStays
    <3> QED BY <3>1, <3>2, <3>3, <3>4 DEF Ours
  <2>4. CASE EmitEvent(x) \/ FailRequest(x)
    BY <1>3, <2>4 DEF EmitEvent, FailRequest
  <2> QED BY <1>3, <2>1, <2>2, <2>3, <2>4 DEF WebhookRequest
<1>4. ASSUME NEW id \in seen'
      PROVE  id \in history'.early \/ \E q \in Requests : Handled(q, id)'
  <2>1. Others => seen' = seen
    BY OthersAreElsewhere DEF Elsewhere
  <2> QED BY <1>2, <1>3, <1>4, <2>1, NextIsOne
<1> QED BY <1>4 DEF Reasons

(* Every step keeps NothingDropped.                                        *)
LEMMA NothingDroppedNext ==
  ASSUME PayloadsTell, DroppedInv, [Next]_scmVars
  PROVE  NothingDropped'
<1> DEFINE Served(r) ==
      \/ DeliveryId(r) \in history.early
      \/ \E q \in Requests :
           /\ request[q].delivery # 0 /\ DeliveryId(q) = DeliveryId(r)
           /\ \E e \in EmittedBy(q) : e.session = Message(r).about.session
    Fine(r) == request[r].wasBound =>
      /\ request[r].at \in {"accepted", "duplicate"} /\ Actionable(Message(r)) => Served(r)
      /\ request[r].at = "unbound" => TellsNoOrganization(Message(r))
<1>0. Inv /\ Searching /\ Reasons /\ \A r \in Requests : Fine(r)
  BY DEF DroppedInv, NothingDropped
<1>1. /\ history.early \subseteq history'.early
      /\ \A q \in Requests : EmittedBy(q) \subseteq EmittedBy(q)'
  BY <1>0, NotesStay, EventsStay
<1>2. \A q \in Requests : request[q].delivery # 0 => Taken(q)
  BY <1>0 DEF Inv, InHand
<1>3. ASSUME NEW r \in Requests, Taken(r), Served(r) PROVE Served(r)'
  <2>1. Message(r)' = Message(r) /\ DeliveryId(r)' = DeliveryId(r)
    BY <1>0, <1>3, TakenStays
  <2>2. ASSUME NEW q \in Requests, request[q].delivery # 0
        PROVE  DeliveryId(q)' = DeliveryId(q) /\ request'[q].delivery # 0
    BY <1>0, <1>2, <2>2, TakenStays
  <2> QED BY <1>1, <1>3, <2>1, <2>2
<1>4. ASSUME NEW q \in Requests, request'[q] = request[q] PROVE Fine(q)'
  <2>1. CASE Taken(q)
    BY <1>0, <1>3, <1>4, <2>1, TakenStays
  <2>2. CASE ~Taken(q)
    BY <1>4, <2>2 DEF Taken
  <2> QED BY <2>1, <2>2
<1>5. ASSUME NEW x \in Requests, WebhookRequest(x) PROVE Fine(x)'
  <2>0. Next /\ bindings \in SUBSET PullRequests
    BY <1>0, <1>5 DEF Next, Inv, TypeOK
  <2>1. ASSUME NEW d \in DOMAIN outbox,
               Reject(x, d) \/ Duplicate(x, d) \/ Ignore(x, d) \/ Accept(x, d)
        PROVE  Fine(x)'
    <3>1. /\ ~Taken(x) /\ Taken(x)' /\ Message(x)' = outbox[d] /\ request'[x].delivery = d
          /\ DeliveryId(x)' = ExtractDeliveryId(x, d)
          /\ request'[x].wasBound <=> outbox[d].about \in bindings
          /\ request'[x].at \in {"lookup", "rejected", "duplicate", "ignored"}
          /\ Reject(x, d) => request'[x].at = "rejected"
          /\ Ignore(x, d) => request'[x].at = "ignored"
          /\ Accept(x, d) => request'[x].at = "lookup"
      BY <1>0, <2>0, <2>1, TakingUp
    <3>2. CASE request'[x].at # "duplicate"
      BY <3>1, <3>2
    <3>3. CASE request'[x].at = "duplicate" /\ request'[x].wasBound /\ Actionable(outbox[d])
      <4>1. ExtractDeliveryId(x, d) \in seen /\ seen' = seen
        BY <2>1, <3>1, <3>3 DEF Duplicate
      <4>2. ExtractDeliveryId(x, d) \in history.early => Served(x)'
        BY <1>1, <3>1
      <4>3. ASSUME NEW q \in Requests, Taken(q), DeliveryId(q) = ExtractDeliveryId(x, d),
                   Actionable(Message(q)) /\ Ours(q) => Told(q)
            PROVE  Served(x)'
        <5>1. q # x /\ d \in Nat \ {0}
          BY <1>0, <3>1, <4>3 DEF Inv, TypeOK
        <5>2. request[q].delivery = d /\ Message(q) = outbox[d]
          BY <1>0, <4>3, <5>1, SameDelivery DEF Message
        <5>3. Told(q)
          BY <2>0, <3>1, <3>3, <4>3, <5>2 DEF Ours
        <5>4. /\ request'[q].delivery = d /\ Message(q)' = outbox[d] /\ Told(q)'
              /\ DeliveryId(q)' = DeliveryId(q)
          BY <1>0, <2>0, <4>3, <5>2, <5>3, TakenStays
        <5> QED BY <3>1, <4>3, <5>1, <5>4 DEF Told
      <4>4. \/ ExtractDeliveryId(x, d) \in history.early
            \/ \E q \in Requests : /\ Taken(q) /\ DeliveryId(q) = ExtractDeliveryId(x, d)
                                   /\ Actionable(Message(q)) /\ Ours(q) => Told(q)
        BY <1>0, <4>1 DEF Reasons
      <4>5. Served(x)'
        BY <4>2, <4>3, <4>4, Zenon
      <4> QED BY <3>1, <3>3, <4>5
    <3> QED BY <3>1, <3>2, <3>3
  <2>2. CASE Lookup(x)
    <3>1. /\ Taken(x) /\ Actionable(Message(x)) /\ Message(x)' = Message(x)
          /\ request'[x].wasBound = request[x].wasBound
          /\ request'[x].at \in {"lookup", "emit", "unbound"}
      BY <1>0, <2>0, <2>2, GoingOn
    <3>2. ASSUME request'[x].at = "unbound", request[x].wasBound
          PROVE  TellsNoOrganization(Message(x))
      <4> DEFINE found == FindBinding(Message(x).provider, Candidates(x)[request[x].next],
                                      Normalized(Message(x)).number)
      <4>1. found = {} /\ request[x].next = Len(Candidates(x))
        BY <1>0, <2>0, <2>2, <3>2, LookupEnds
      <4>2. Message(x).about \in bindings /\ Ours(x)
            /\ \A j \in 1 .. request[x].next - 1 : Candidates(x)[j] # DisplayName(Message(x).about)
        BY <1>0, <2>0, <2>2, <3>2 DEF Searching, Ours, Lookup
      <4>3. Len(Candidates(x)) \in Nat \ {0}
            /\ Message(x).about.provider = Message(x).provider
            /\ Message(x).about.number = Normalized(Message(x)).number
            /\ (~TellsNoOrganization(Message(x)) =>
                  \E i \in 1 .. Len(Candidates(x)) : Candidates(x)[i] = DisplayName(Message(x).about))
        BY <1>0, <3>1, <4>2, WhatItTells
      <4>4. Candidates(x)[request[x].next] # DisplayName(Message(x).about)
        BY <4>1, <4>2, <4>3 DEF FindBinding
      <4>5. \A i \in 1 .. Len(Candidates(x)) : Candidates(x)[i] # DisplayName(Message(x).about)
        BY <4>1, <4>2, <4>3, <4>4
      <4> QED BY <4>3, <4>5
    <3> QED BY <3>1, <3>2
  <2>3. CASE RecordDelivery(x)
    <3>1. /\ Taken(x) /\ Message(x)' = Message(x) /\ DeliveryId(x)' = DeliveryId(x)
          /\ request'[x].wasBound = request[x].wasBound /\ request'[x].at = "accepted"
          /\ request'[x].delivery = request[x].delivery
      BY <1>0, <2>0, <2>3, GoingOn
    <3>2. ASSUME request[x].wasBound PROVE Served(x)
      <4>1. Ours(x)
        BY <1>0, <2>0, <3>2 DEF Searching, Ours
      <4>2. \E e \in EmittedBy(x) : e.session = Message(x).about.session
        BY <1>0, <2>3, <4>1 DEF RecordDelivery, Searching, Inv, Emitting
      <4>3. request[x].delivery # 0
        BY <1>0, <3>1 DEF Inv, InHand, TypeOK
      <4> QED BY <4>2, <4>3
    <3> QED BY <1>3, <3>1, <3>2
  <2>4. CASE EmitEvent(x) \/ FailRequest(x)
    <3>1. request'[x].at \in {"publish", "error"}
      BY <1>0, <2>0, <2>4, GoingOn
    <3> QED BY <3>1
  <2> QED BY <1>5, <2>1, <2>2, <2>3, <2>4 DEF WebhookRequest
<1>6. \A r \in Requests : Fine(r)'
  <2>1. CASE Others
    BY <1>4, <2>1, OthersAreElsewhere DEF Elsewhere
  <2>2. ASSUME NEW x \in Requests, WebhookRequest(x) PROVE \A q \in Requests : Fine(q)'
    BY <1>0, <1>4, <1>5, <2>2, RequestMoves
  <2> QED BY <1>0, <2>1, <2>2, NextIsOne
<1> QED BY <1>6 DEF NothingDropped

(* No delivery about a bound pull request is taken for handled without its *)
(* event, whatever is delivered twice, crosses, fails or is forgotten, and *)
(* the lookup ends at the binding that the publication saved: for payloads *)
(* that name their pull request, and sessions that each have their own.    *)
THEOREM NoFeedbackIsLost == ASSUME PayloadsTell PROVE Spec => []NothingDropped
<1>1. Init => DroppedInv
  <2> SUFFICES ASSUME Init PROVE DroppedInv
    OBVIOUS
  <2>1. \A r \in Requests : request[r].at = "idle" /\ request[r].wasBound = FALSE
    BY DEF Init, Idle
  <2>2. seen = {} /\ Inv
    BY InitInv DEF Init
  <2> QED BY <2>1, <2>2 DEF DroppedInv, Reasons, Searching, NothingDropped
<1>2. DroppedInv /\ [Next]_scmVars => DroppedInv'
  BY InvNext, ReasonsNext, SearchingNext, NothingDroppedNext DEF DroppedInv
<1>3. DroppedInv => NothingDropped
  BY DEF DroppedInv
<1> QED BY <1>1, <1>2, <1>3, PTL DEF Spec
=============================================================================
