----------------------------- MODULE ScmWebhook -----------------------------
(***************************************************************************)
(* How feedback on a pull request reaches its session in the API process:  *)
(* the webhook endpoints with ScmWebhookService, the endpoint              *)
(* POST /sessions/:id/scm-sync, and the two things both depend on that the *)
(* publication of the session writes, the pull request in the context and  *)
(* the binding.                                                            *)
(*                                                                         *)
(* Between two awaits a handler is one action. The providers are external: *)
(* they send any payload about a pull request they have, in any order, and *)
(* a delivery as often as they like.                                       *)
(***************************************************************************)
EXTENDS ScmFeedback, FiniteSetsExt

CONSTANTS
  PullRequests,   (* records: provider, url, number, session               *)
  Messages,       (* the payloads the providers may send                   *)
  Requests,       (* the webhook requests of a behaviour                   *)
  Syncs,          (* its requests for a sync                               *)
  Secured,        (* the providers a webhook secret is configured for      *)
  Checks,         (* the sets of checks a provider may list                *)
  Comments,       (* the sets of comments a provider may list              *)
  MaxOpen,        (* bound on the pull requests opened in a behaviour      *)
  MaxDeliveries,  (* bound on the deliveries of a behaviour                *)
  MaxSeen,        (* 10000 in the code: the size at which seen is emptied  *)
  MaxFaults       (* bound on the calls that are rejected                  *)

ASSUME WebhookAssumption ==
  /\ MaxOpen \in Nat /\ MaxDeliveries \in Nat /\ MaxSeen \in Nat \ {0} /\ MaxFaults \in Nat
  /\ Secured \subseteq Providers
  /\ NoEvent \notin FeedbackEvents
  /\ NoEvent \notin Requests /\ NoEvent \notin PullRequests
  /\ Requests \cap (Nat \cup Syncs) = {}

VARIABLES
  published,  (* per pull request, how far its publication has come        *)
  bindings,   (* the pull requests with a binding                          *)
  outbox,     (* the deliveries of the providers, a sequence of payloads   *)
  request,    (* the state of each webhook request                         *)
  seen,       (* seenDeliveries                                            *)
  log,        (* the events that have been appended                        *)
  sync,       (* the state of each request for a sync                      *)
  queue,      (* the syncs whose session has been enqueued                 *)
  faults,     (* how many calls have been rejected                         *)
  history     (* what NothingDropped and EmittedOnce make exceptions of    *)

scmVars == <<published, bindings, outbox, request, seen, log, sync, queue, faults, history>>

Ids == 1 .. MaxDeliveries \cup Requests

Idle == [at |-> "idle", delivery |-> 0, next |-> 1, pr |-> NoEvent, wasBound |-> FALSE]
NoSync == [at |-> "idle", pr |-> NoEvent, failures |-> NoEvent, comments |-> NoEvent]

Init ==
  /\ published = [p \in PullRequests |-> "none"]
  /\ bindings = {}
  /\ outbox = <<>>
  /\ request = [r \in Requests |-> Idle]
  /\ seen = {} /\ log = {}
  /\ sync = [y \in Syncs |-> NoSync]
  /\ queue = {} /\ faults = 0
  /\ history = [crossed |-> {}, forgotten |-> {}, halfway |-> {}, early |-> {}]

MayFail == faults < MaxFaults /\ faults' = faults + 1
-----------------------------------------------------------------------------
(* publishChanges: the provider has the pull request, then the context of  *)
(* the session, then the repository of the bindings.                       *)
OpenPullRequest(p) ==
  /\ published[p] = "none"
  /\ Cardinality({ q \in PullRequests : published[q] # "none" }) < MaxOpen
  /\ published' = [published EXCEPT ![p] = "open"]
  /\ UNCHANGED <<bindings, outbox, request, seen, log, sync, queue, faults, history>>

SavePublication(p) ==
  /\ published[p] = "open"
  /\ published' = [published EXCEPT ![p] = "saved"]
  /\ UNCHANGED <<bindings, outbox, request, seen, log, sync, queue, faults, history>>

BindingKey(p) == <<p.provider, DisplayName(p), p.number>>

(* upsert: at most one binding of a key.                                   *)
SaveBinding(p) ==
  /\ published[p] = "saved"
  /\ p \notin bindings
  /\ bindings' = { b \in bindings : BindingKey(b) # BindingKey(p) } \cup {p}
  /\ UNCHANGED <<published, outbox, request, seen, log, sync, queue, faults, history>>

(* A provider makes a delivery of a payload. One about a pull request of   *)
(* ours comes after the pull request was opened.                           *)
Deliver(m) ==
  /\ Len(outbox) < MaxDeliveries
  /\ \A p \in PullRequests : m.about = p => published[p] # "none"
  /\ outbox' = Append(outbox, m)
  /\ UNCHANGED <<published, bindings, request, seen, log, sync, queue, faults, history>>
-----------------------------------------------------------------------------
Message(r) == outbox[request[r].delivery]

(* A delivery without the header gets an id of its own in each request.    *)
ExtractDeliveryId(r, d) == IF outbox[d].hasId THEN d ELSE r

DeliveryId(r) == ExtractDeliveryId(r, request[r].delivery)

InHandling(r) == request[r].at \in {"lookup", "emit", "publish"}

Answer(r, reason) == request' = [request EXCEPT ![r].at = reason]

(* The binding of a pull request, if it is found under that name.          *)
FindBinding(provider, names, number) ==
  { b \in bindings : b.provider = provider /\ DisplayName(b) = names /\ b.number = number }

(* verifySignature: without a secret every request passes.                 *)
VerifySignature(m, signed) == m.provider \in Secured => signed

(* The request as it is taken up: everything before the first await.       *)
TakeUp(r, d) ==
  [Idle EXCEPT !.delivery = d,
               !.wasBound = outbox[d].about \in bindings]

Reject(r, d) ==
  /\ request[r].at = "idle"
  /\ ~VerifySignature(outbox[d], FALSE)
  /\ request' = [request EXCEPT ![r] = [TakeUp(r, d) EXCEPT !.at = "rejected"]]
  /\ UNCHANGED <<published, bindings, outbox, seen, log, sync, queue, faults, history>>

Duplicate(r, d) ==
  /\ request[r].at = "idle"
  /\ ExtractDeliveryId(r, d) \in seen
  /\ request' = [request EXCEPT ![r] = [TakeUp(r, d) EXCEPT !.at = "duplicate"]]
  /\ UNCHANGED <<published, bindings, outbox, seen, log, sync, queue, faults, history>>

Ignore(r, d) ==
  /\ request[r].at = "idle"
  /\ ExtractDeliveryId(r, d) \notin seen
  /\ ~Actionable(outbox[d])
  /\ request' = [request EXCEPT ![r] = [TakeUp(r, d) EXCEPT !.at = "ignored"]]
  /\ seen' = seen \cup {ExtractDeliveryId(r, d)}
  /\ UNCHANGED <<published, bindings, outbox, log, sync, queue, faults, history>>

(* Whether another copy of the delivery is between its check and its       *)
(* record, for the history.                                                *)
NoteCrossing(r, d) ==
  LET id == ExtractDeliveryId(r, d)
  IN  history' = IF \E q \in Requests \ {r} : InHandling(q) /\ DeliveryId(q) = id
                 THEN [history EXCEPT !.crossed = @ \cup {id}] ELSE history

(* Mutant: the ids seen are not looked at.                                 *)
AcceptAgain(r, d) ==
  /\ request[r].at = "idle"
  /\ Actionable(outbox[d])
  /\ request' = [request EXCEPT ![r] = [TakeUp(r, d) EXCEPT !.at = "lookup"]]
  /\ NoteCrossing(r, d)
  /\ UNCHANGED <<published, bindings, outbox, seen, log, sync, queue, faults>>

(* Mutant: the id is recorded with the check, before the event is out.     *)
AcceptSeen(r, d) ==
  /\ request[r].at = "idle"
  /\ ExtractDeliveryId(r, d) \notin seen
  /\ Actionable(outbox[d])
  /\ request' = [request EXCEPT ![r] = [TakeUp(r, d) EXCEPT !.at = "lookup"]]
  /\ seen' = seen \cup {ExtractDeliveryId(r, d)}
  /\ UNCHANGED <<published, bindings, outbox, log, sync, queue, faults, history>>

(* A payload to act on: the id is not recorded before the event is out.    *)
Accept(r, d) ==
  /\ request[r].at = "idle"
  /\ ExtractDeliveryId(r, d) \notin seen
  /\ Actionable(outbox[d])
  /\ request' = [request EXCEPT ![r] = [TakeUp(r, d) EXCEPT !.at = "lookup"]]
  /\ NoteCrossing(r, d)
  /\ UNCHANGED <<published, bindings, outbox, seen, log, sync, queue, faults>>

(* findBinding asks for one candidate after the other.                     *)
Lookup(r) ==
  /\ request[r].at = "lookup"
  /\ LET n == Normalized(Message(r))
         found == FindBinding(Message(r).provider, n.candidates[request[r].next], n.number)
     IN  \/ /\ found # {}
            /\ request' = [request EXCEPT ![r].at = "emit", ![r].pr = CHOOSE b \in found : TRUE]
            /\ UNCHANGED <<seen, history>>
         \/ /\ found = {} /\ request[r].next < Len(n.candidates)
            /\ request' = [request EXCEPT ![r].next = @ + 1]
            /\ UNCHANGED <<seen, history>>
         \/ /\ found = {} /\ request[r].next = Len(n.candidates)
            /\ Answer(r, "unbound")
            /\ seen' = seen \cup {DeliveryId(r)}
            /\ history' = [history EXCEPT !.early = @ \cup {DeliveryId(r)}]
  /\ UNCHANGED <<published, bindings, outbox, log, sync, queue, faults>>

(* emit appends the event, then publishes it.                              *)
EmitEvent(r) ==
  /\ request[r].at = "emit"
  /\ log' = log \cup {[by |-> r, session |-> request[r].pr.session, type |-> Normalized(Message(r)).type]}
  /\ Answer(r, "publish")
  /\ UNCHANGED <<published, bindings, outbox, seen, sync, queue, faults, history>>

(* The event is out: the id is recorded, and the set emptied at its size.  *)
RecordDelivery(r) ==
  /\ request[r].at = "publish"
  /\ Answer(r, "accepted")
  /\ LET all == seen \cup {DeliveryId(r)}
     IN  IF Cardinality(all) > MaxSeen
         THEN seen' = {} /\ history' = [history EXCEPT !.forgotten = @ \cup all]
         ELSE seen' = all /\ UNCHANGED history
  /\ UNCHANGED <<published, bindings, outbox, log, sync, queue, faults>>

(* A repository or the bus rejects: status 500, and the id stays unseen,   *)
(* whether or not the event was appended.                                  *)
FailRequest(r) ==
  /\ InHandling(r)
  /\ MayFail
  /\ Answer(r, "error")
  /\ history' = IF request[r].at = "publish"
                THEN [history EXCEPT !.halfway = @ \cup {DeliveryId(r)}] ELSE history
  /\ UNCHANGED <<published, bindings, outbox, seen, log, sync, queue>>

WebhookRequest(r) ==
  \/ \E d \in DOMAIN outbox : Reject(r, d) \/ Duplicate(r, d) \/ Ignore(r, d) \/ Accept(r, d)
  \/ Lookup(r) \/ EmitEvent(r) \/ RecordDelivery(r) \/ FailRequest(r)
-----------------------------------------------------------------------------
(* scm-sync reads the session, and once more if the pull request is not in *)
(* the context it read.                                                    *)
ReadContext(y, p) ==
  /\ sync[y].at = "idle"
  /\ sync' = [sync EXCEPT ![y].pr = p,
                          ![y].at = IF published[p] = "saved" THEN "collect" ELSE "again"]
  /\ UNCHANGED <<published, bindings, outbox, request, seen, log, queue, faults, history>>

ReadContextAgain(y) ==
  /\ sync[y].at = "again"
  /\ sync' = [sync EXCEPT ![y].at = IF published[sync[y].pr] = "saved" THEN "collect" ELSE "refused"]
  /\ UNCHANGED <<published, bindings, outbox, request, seen, log, queue, faults, history>>

(* The two lists are fetched at once, and each is what the provider has    *)
(* when it answers.                                                        *)
CollectFailures(y) ==
  /\ sync[y].at = "collect" /\ sync[y].failures = NoEvent
  /\ \E c \in Checks :
       sync' = [sync EXCEPT ![y].failures = ListPipelineFailures(sync[y].pr.provider, c) # {}]
  /\ UNCHANGED <<published, bindings, outbox, request, seen, log, queue, faults, history>>

CollectComments(y) ==
  /\ sync[y].at = "collect" /\ sync[y].comments = NoEvent
  /\ \E c \in Comments : sync' = [sync EXCEPT ![y].comments = ListReviewComments(c) # {}]
  /\ UNCHANGED <<published, bindings, outbox, request, seen, log, queue, faults, history>>

SyncEvent(y, type) == [by |-> y, session |-> sync[y].pr.session, type |-> type]

EmitPipeline(y) ==
  /\ sync[y].at = "collect"
  /\ sync[y].failures # NoEvent /\ sync[y].comments # NoEvent
  /\ log' = log \cup {SyncEvent(y, IF sync[y].failures THEN "SCM_PIPELINE_FAILED"
                                                       ELSE "SCM_PIPELINE_PASSED")}
  /\ sync' = [sync EXCEPT ![y].at = IF sync[y].comments THEN "comments" ELSE "synced"]
  /\ UNCHANGED <<published, bindings, outbox, request, seen, queue, faults, history>>

EmitComments(y) ==
  /\ sync[y].at = "comments"
  /\ log' = log \cup {SyncEvent(y, "SCM_REVIEW_COMMENT_ADDED")}
  /\ sync' = [sync EXCEPT ![y].at = "synced"]
  /\ UNCHANGED <<published, bindings, outbox, request, seen, queue, faults, history>>

EmitSynced(y) ==
  /\ sync[y].at = "synced"
  /\ log' = log \cup {SyncEvent(y, "SCM_FEEDBACK_SYNCED")}
  /\ sync' = [sync EXCEPT ![y].at = "enqueue"]
  /\ UNCHANGED <<published, bindings, outbox, request, seen, queue, faults, history>>

EnqueueSession(y) ==
  /\ sync[y].at = "enqueue"
  /\ queue' = queue \cup {y}
  /\ sync' = [sync EXCEPT ![y].at = "answered"]
  /\ UNCHANGED <<published, bindings, outbox, request, seen, log, faults, history>>

(* A call is rejected: what was emitted before it stays.                   *)
FailSync(y) ==
  /\ sync[y].at \in {"again", "collect", "comments", "synced", "enqueue"}
  /\ MayFail
  /\ sync' = [sync EXCEPT ![y].at = "error"]
  /\ UNCHANGED <<published, bindings, outbox, request, seen, log, queue, history>>

SyncRequest(y) ==
  \/ \E p \in PullRequests : ReadContext(y, p)
  \/ ReadContextAgain(y) \/ CollectFailures(y) \/ CollectComments(y)
  \/ EmitPipeline(y) \/ EmitComments(y) \/ EmitSynced(y) \/ EnqueueSession(y) \/ FailSync(y)
-----------------------------------------------------------------------------
Next ==
  \/ \E p \in PullRequests : OpenPullRequest(p) \/ SavePublication(p) \/ SaveBinding(p)
  \/ \E m \in Messages : Deliver(m)
  \/ \E r \in Requests : WebhookRequest(r)
  \/ \E y \in Syncs : SyncRequest(y)

Spec == Init /\ [][Next]_scmVars
-----------------------------------------------------------------------------
EmittedBy(r) == { e \in log : e.by = r }

(* Without an organisation in the address of the collection.               *)
TellsNoOrganization(m) == m.provider = "azure-devops" /\ AzureOrganization(m) = ""

(* What NothingDropped needs of the world: no two sessions publish to one  *)
(* pull request, and a payload to act on has the provider and the number   *)
(* of the pull request it is about, names of a repository under which no   *)
(* other of ours is found, and, if it tells the organisation, the name     *)
(* that the binding has.                                                   *)
PayloadsTell ==
  /\ \A p, q \in PullRequests : BindingKey(p) = BindingKey(q) => p = q
  /\ \A m \in Messages : Actionable(m) =>
       LET n == Normalized(m)
           names == 1 .. Len(n.candidates)
       IN  /\ Len(n.candidates) \in Nat \ {0}
           /\ m.about \in PullRequests =>
                /\ m.about.provider = m.provider /\ m.about.number = n.number
                /\ \A p \in PullRequests : p.provider = m.provider /\ p.number = n.number
                     /\ (\E i \in names : n.candidates[i] = DisplayName(p)) => p = m.about
                /\ ~TellsNoOrganization(m) =>
                     \E i \in names : n.candidates[i] = DisplayName(m.about)

(* However often a delivery comes, and whatever fails in between, at most  *)
(* one event is appended for it, unless two copies were in handling at     *)
(* once, the set of ids was emptied, or the bus rejected an event that had *)
(* been appended (scm-webhook-service.ts:51-93).                           *)
EmittedOnce ==
  \A d \in DOMAIN outbox :
    \/ ~outbox[d].hasId
    \/ d \in history.crossed \cup history.forgotten \cup history.halfway
    \/ Cardinality({ r \in Requests : request[r].delivery = d /\ EmittedBy(r) # {} }) <= 1

(* A delivery to act on, about a pull request whose binding was saved when *)
(* the request came, is not answered with 202 unless its event has been    *)
(* appended for the session of that pull request, by this request or by    *)
(* one before it: an error is never taken for the work done, and whichever *)
(* of its fields has the number, the candidates find the binding that      *)
(* publication saved.  The exceptions are a delivery the code has once     *)
(* answered "no matching session binding", and a payload whose address     *)
(* does not tell the organisation (scm-webhook-service.ts:45-110,          *)
(* :276-293, :371-385).                                                    *)
NothingDropped ==
  \A r \in Requests : request[r].wasBound =>
    /\ request[r].at \in {"accepted", "duplicate"} /\ Actionable(Message(r)) =>
         \/ DeliveryId(r) \in history.early
         \/ \E q \in Requests :
              /\ request[q].delivery # 0 /\ DeliveryId(q) = DeliveryId(r)
              /\ \E e \in EmittedBy(q) : e.session = Message(r).about.session
    /\ request[r].at = "unbound" => TellsNoOrganization(Message(r))
=============================================================================
