--------------------------- MODULE RedisEventBus ---------------------------
(***************************************************************************)
(* project/modules/infra/redis-event-bus.ts: any number of handlers behind *)
(* one Redis subscription, made for the first and given up after the last. *)
(*                                                                         *)
(* The subscriber's connection is a pair of queues: requests on their way  *)
(* to the server, and replies and messages on their way back. The server   *)
(* and the client library (redis 4) are external. publish uses another     *)
(* connection, so that it is ordered with nothing here; a message reaches  *)
(* the connections that are subscribed when the server takes it.           *)
(*                                                                         *)
(* Handlers that finish without waiting for input are modelled: a message  *)
(* is handled by all of them in one step. close is left out: the processes *)
(* call it when they end.                                                  *)
(***************************************************************************)
EXTENDS Naturals, SequencesExt

CONSTANTS Handlers, Events

VARIABLES
  handlers,    (* the set of handlers                                      *)
  subscribed,  (* the flag of that name                                    *)
  requests,    (* sent by the subscriber, not yet seen by the server       *)
  inbox,       (* sent by the server, not yet seen by the subscriber       *)
  channel,     (* whether the server has the connection as a subscriber    *)
  callbacks    (* how many listeners the client library has                *)

busVars == <<handlers, subscribed, requests, inbox, channel, callbacks>>

Requests == [kind : {"SUBSCRIBE", "UNSUBSCRIBE"}, by : Handlers]
Messages == [kind : {"message"}, event : Events]

BusInit ==
  /\ handlers = {} /\ subscribed = FALSE
  /\ requests = <<>> /\ inbox = <<>>
  /\ channel = FALSE /\ callbacks = 0

(* Requests of one kind without a reply that has been seen.                *)
Unanswered(kind) == {r \in ToSet(requests \o inbox) : r.kind = kind}

Send(kind, h) == requests' = Append(requests, [kind |-> kind, by |-> h])

(* Mutant: the flag is not looked at.                                      *)
SubscribeAlways(h) ==
  /\ handlers' = handlers \cup {h}
  /\ Send("SUBSCRIBE", h)
  /\ UNCHANGED <<subscribed, inbox, channel, callbacks>>

(* The call of subscribe. It returns at once if the flag is up, and with   *)
(* the reply of the server if not.                                         *)
Subscribe(h) ==
  /\ handlers' = handlers \cup {h}
  /\ IF subscribed THEN UNCHANGED requests ELSE Send("SUBSCRIBE", h)
  /\ UNCHANGED <<subscribed, inbox, channel, callbacks>>

SubscribeReply(h) ==
  /\ inbox # <<>> /\ Head(inbox) = [kind |-> "SUBSCRIBE", by |-> h]
  /\ callbacks' = callbacks + 1
  /\ subscribed' = TRUE
  /\ inbox' = Tail(inbox)
  /\ UNCHANGED <<handlers, requests, channel>>

(* Mutant: the size of the set is not looked at.                           *)
UnsubscribeForAll(h) ==
  /\ handlers' = handlers \ {h}
  /\ IF subscribed THEN Send("UNSUBSCRIBE", h) ELSE UNCHANGED requests
  /\ UNCHANGED <<subscribed, inbox, channel, callbacks>>

(* The call of the callback that subscribe returned.                       *)
Unsubscribe(h) ==
  /\ handlers' = handlers \ {h}
  /\ IF handlers' = {} /\ subscribed THEN Send("UNSUBSCRIBE", h) ELSE UNCHANGED requests
  /\ UNCHANGED <<subscribed, inbox, channel, callbacks>>

(* The library drops every listener of the channel.                        *)
UnsubscribeReply ==
  /\ inbox # <<>> /\ Head(inbox).kind = "UNSUBSCRIBE"
  /\ callbacks' = 0
  /\ subscribed' = FALSE
  /\ inbox' = Tail(inbox)
  /\ UNCHANGED <<handlers, requests, channel>>

(* The server takes a request of the subscriber and replies.               *)
ServerReplies ==
  /\ requests # <<>>
  /\ channel' = (Head(requests).kind = "SUBSCRIBE")
  /\ inbox' = Append(inbox, Head(requests))
  /\ requests' = Tail(requests)
  /\ UNCHANGED <<handlers, subscribed, callbacks>>

(* The server takes a message of the publisher.                            *)
Publish(e) ==
  /\ inbox' = IF channel THEN Append(inbox, [kind |-> "message", event |-> e]) ELSE inbox
  /\ UNCHANGED <<handlers, subscribed, requests, channel, callbacks>>

(* A message comes in: each listener calls every handler.                  *)
Receive(e) ==
  /\ inbox # <<>> /\ Head(inbox) = [kind |-> "message", event |-> e]
  /\ inbox' = Tail(inbox)
  /\ UNCHANGED <<handlers, subscribed, requests, channel, callbacks>>
-----------------------------------------------------------------------------
BusTypeOK ==
  /\ handlers \subseteq Handlers
  /\ subscribed \in BOOLEAN
  /\ requests \in Seq(Requests)
  /\ inbox \in Seq(Requests \cup Messages)
  /\ channel \in BOOLEAN
  /\ callbacks \in Nat

AtRest == Unanswered("SUBSCRIBE") \cup Unanswered("UNSUBSCRIBE") = {}
=============================================================================
