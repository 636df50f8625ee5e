---------------------------- MODULE EventStream ----------------------------
(***************************************************************************)
(* The event streams of the API process: the two GET routes of             *)
(* project/api/server.ts that write what the event bus hands them to a     *)
(* client, over modules/event/event-service.ts and the Redis bus.          *)
(*                                                                         *)
(* A handler stands for the stream that subscribes it. One session: the    *)
(* filters of the streams let its events pass. Heartbeats and the lines of *)
(* an event are left out.                                                  *)
(***************************************************************************)
EXTENDS RedisEventBus

VARIABLES
  stage,      (* how far the route of each stream has come                 *)
  connected,  (* the streams whose client has not gone                     *)
  log,        (* the events the repository has                             *)
  published,  (* the events whose publish the server has taken             *)
  snapshot,   (* per stream, the events the repository listed for it       *)
  written,    (* per stream and event, how often its handler wrote it      *)
  due,        (* history: events published while the stream was live       *)
  overlapped, (* history: two subscriptions of the bus were under way      *)
  crossed     (* history: a handler came while the bus was unsubscribing   *)

streamVars == <<stage, connected, log, published, snapshot, written, due, overlapped, crossed>>
vars == <<busVars, streamVars>>

Stages == {"new", "listing", "subscribing", "live", "over"}

Init ==
  /\ BusInit
  /\ stage = [s \in Handlers |-> "new"]
  /\ connected = Handlers
  /\ log = {} /\ published = {}
  /\ snapshot = [s \in Handlers |-> {}]
  /\ written = [s \in Handlers |-> [e \in Events |-> 0]]
  /\ due = [s \in Handlers |-> {}]
  /\ overlapped = FALSE /\ crossed = FALSE

(* GET /sessions/:id/stream: the repository answers with what it has.      *)
ListEvents(s) ==
  /\ stage[s] = "new"
  /\ stage' = [stage EXCEPT ![s] = "listing"]
  /\ snapshot' = [snapshot EXCEPT ![s] = log]
  /\ UNCHANGED <<busVars, connected, log, published, written, due, overlapped, crossed>>

(* The listing is written and the handler subscribed; /streams/events does *)
(* the second only.                                                        *)
StartStream(s) ==
  /\ stage[s] \in {"new", "listing"}
  /\ Subscribe(s)
  /\ stage' = [stage EXCEPT ![s] = IF subscribed THEN "live" ELSE "subscribing"]
  /\ overlapped' = (overlapped \/ (~subscribed /\ Unanswered("SUBSCRIBE") # {}))
  /\ crossed' = (crossed \/ Unanswered("UNSUBSCRIBE") # {})
  /\ UNCHANGED <<connected, log, published, snapshot, written, due>>

(* The await of subscribe ends: from here the close of the request is      *)
(* listened for.                                                           *)
GoLive(s) ==
  /\ SubscribeReply(s)
  /\ stage' = [stage EXCEPT ![s] = "live"]
  /\ UNCHANGED <<connected, log, published, snapshot, written, due, overlapped, crossed>>

(* The client goes before that: nobody hears it.                           *)
LeaveEarly(s) ==
  /\ s \in connected
  /\ stage[s] \in {"listing", "subscribing"}
  /\ connected' = connected \ {s}
  /\ UNCHANGED <<busVars, stage, log, published, snapshot, written, due, overlapped, crossed>>

(* The client goes: the callback is called and not awaited.                *)
Leave(s) ==
  /\ s \in connected
  /\ stage[s] = "live"
  /\ connected' = connected \ {s}
  /\ stage' = [stage EXCEPT ![s] = "over"]
  /\ Unsubscribe(s)
  /\ UNCHANGED <<log, published, snapshot, written, due, overlapped, crossed>>

(* emit, in whatever process: first the repository, then the bus.          *)
AppendEvent(e) ==
  /\ e \notin log
  /\ log' = log \cup {e}
  /\ UNCHANGED <<busVars, stage, connected, published, snapshot, written, due, overlapped, crossed>>

PublishEvent(e) ==
  /\ e \in log \ published
  /\ Publish(e)
  /\ published' = published \cup {e}
  /\ due' = [s \in Handlers |-> IF stage[s] = "live" THEN due[s] \cup {e} ELSE due[s]]
  /\ UNCHANGED <<stage, connected, log, snapshot, written, overlapped, crossed>>

WriteEvent(e) ==
  /\ Receive(e)
  /\ written' = [s \in Handlers |->
                   IF s \in handlers THEN [written[s] EXCEPT ![e] = @ + callbacks] ELSE written[s]]
  /\ UNCHANGED <<stage, connected, log, published, snapshot, due, overlapped, crossed>>

BusUnsubscribed == UnsubscribeReply /\ UNCHANGED streamVars

Server == ServerReplies /\ UNCHANGED streamVars

Incoming ==
  \/ \E s \in Handlers : GoLive(s)
  \/ \E e \in Events : WriteEvent(e)
  \/ BusUnsubscribed

Next ==
  \/ \E s \in Handlers : ListEvents(s) \/ StartStream(s) \/ LeaveEarly(s) \/ Leave(s)
  \/ \E e \in Events : AppendEvent(e) \/ PublishEvent(e)
  \/ Server
  \/ Incoming

(* What is on its way arrives while the connections stand.                 *)
Spec == Init /\ [][Next]_vars /\ WF_vars(Server) /\ WF_vars(Incoming)
-----------------------------------------------------------------------------
(* Every variable has a value of its type, and the handlers of the bus are *)
(* those of the streams between their subscription and their end.          *)
TypeOK ==
  /\ BusTypeOK
  /\ stage \in [Handlers -> Stages]
  /\ connected \subseteq Handlers
  /\ published \subseteq log /\ log \subseteq Events
  /\ snapshot \in [Handlers -> SUBSET Events]
  /\ written \in [Handlers -> [Events -> Nat]]
  /\ due \in [Handlers -> SUBSET Events]
  /\ overlapped \in BOOLEAN /\ crossed \in BOOLEAN
  /\ handlers = {s \in Handlers : stage[s] \in {"subscribing", "live"}}

(* What was published while a stream was live has been written to it or is *)
(* on its way, however other streams come and go, unless a handler came    *)
(* while the bus was unsubscribing.                                        *)
NothingMissed ==
  ~crossed =>
    \A s \in Handlers : stage[s] = "live" =>
      \A e \in due[s] : written[s][e] > 0 \/ \E k \in DOMAIN inbox :
                          inbox[k] = [kind |-> "message", event |-> e]

(* No stream writes an event twice from the bus, unless two subscriptions  *)
(* of the bus were under way at once.                                      *)
NeverDoubled ==
  ~overlapped => \A s \in Handlers, e \in Events : written[s][e] <= 1

(* With one exception, a live stream comes to write what is published: the *)
(* one of NothingMissed.                                                   *)
EventsArrive ==
  \A s \in Handlers, e \in Events :
    e \in due[s] ~> (written[s][e] > 0 \/ stage[s] = "over" \/ crossed)
=============================================================================
