---------------------------- MODULE StreamProofs ----------------------------
(***************************************************************************)
(* The stream of events, at both of its ends: EventStream, for every set   *)
(* of streams and events, and ChatClient, for any conversations, sessions, *)
(* cap and bounds.  Neither has anything of the other; they share the      *)
(* library of sequences.                                                   *)
(*                                                                         *)
(* EventStream: the argument follows the connection of the subscriber.     *)
(* What the server and the client library hold of it agree with the last   *)
(* request either of them has seen (InStep); an event crosses it once      *)
(* (CrossesOnce).  While one SUBSCRIBE at most is under way there is one   *)
(* listener at most (OneListener), and while no handler comes behind an    *)
(* UNSUBSCRIBE, every live stream finds the flag up (NobodyCutOff).        *)
(*                                                                         *)
(* ChatClient: a session continues one conversation for good (Rooted), a   *)
(* thread that is not split is in one conversation (Together) that the     *)
(* list has or has lost for a reason (Placed), the register agrees with    *)
(* the sources (Sourced), and an event that was told is one that the entry *)
(* of its session still has, unless the session is over or its list has    *)
(* overflowed (Told).                                                      *)
(***************************************************************************)
EXTENDS EventStream, ChatClient, SequenceTheorems, FiniteSetTheorems,
        WellFoundedInduction, TLAPS

(* What a sequence holds: an element of T, and that one only once.         *)
Holds(q, T) == \E k \in DOMAIN q : q[k] \in T
Once(q, T)  == \A j, k \in DOMAIN q : q[j] \in T /\ q[k] \in T => j = k

(* An element of T with none of U behind it.                               *)
Outlasts(q, T, U) ==
  \E k \in DOMAIN q : q[k] \in T /\ \A j \in DOMAIN q : j > k => q[j] \notin U

Subs      == {r \in Requests : r.kind = "SUBSCRIBE"}
Unsubs    == {r \in Requests : r.kind = "UNSUBSCRIBE"}
Of(e)     == {[kind |-> "message", event |-> e]}
Pending   == Holds(inbox, Subs) \/ Holds(requests, Subs)
GivingUp  == Holds(inbox, Unsubs) \/ Holds(requests, Unsubs)

(* A stream that waits in subscribe has one SUBSCRIBE at most on its way,  *)
(* and no other stream has one.                                            *)
Ask(s) == {[kind |-> "SUBSCRIBE", by |-> s]}

AskedOnce ==
  \A s \in Handlers :
    /\ Holds(inbox, Ask(s)) \/ Holds(requests, Ask(s)) => stage[s] = "subscribing"
    /\ Once(inbox, Ask(s)) /\ Once(requests, Ask(s))
    /\ ~(Holds(inbox, Ask(s)) /\ Holds(requests, Ask(s)))

(* The flag is up exactly while the library has a listener, and the server *)
(* has the channel open unless an UNSUBSCRIBE of it is on its way back.    *)
InStep ==
  /\ subscribed <=> callbacks > 0
  /\ Outlasts(inbox, Subs, Unsubs) => channel
  /\ subscribed /\ ~Holds(inbox, Unsubs) => channel

(* An event that was not published is nowhere, one that was written is not *)
(* on its way any more, and it is on its way once.                         *)
CrossesOnce ==
  \A e \in Events :
    /\ Once(inbox, Of(e))
    /\ Holds(inbox, Of(e)) => e \in published
    /\ \A s \in Handlers :
         written[s][e] > 0 => e \in published /\ ~Holds(inbox, Of(e))

OneListener ==
  ~overlapped =>
    /\ callbacks <= 1
    /\ subscribed => ~Pending
    /\ Once(inbox, Subs) /\ Once(requests, Subs)
    /\ ~(Holds(inbox, Subs) /\ Holds(requests, Subs))
    /\ \A s \in Handlers, e \in Events : written[s][e] <= 1

NobodyCutOff ==
  /\ \A s \in Handlers : stage[s] \in {"new", "listing", "subscribing"} => due[s] = {}
  /\ ~crossed =>
       /\ GivingUp => handlers = {}
       /\ \A s \in Handlers : stage[s] = "live" =>
            /\ subscribed
            /\ \A e \in due[s] : written[s][e] > 0 \/ Holds(inbox, Of(e))

Inv == TypeOK /\ AskedOnce /\ InStep /\ CrossesOnce /\ OneListener /\ NobodyCutOff
-----------------------------------------------------------------------------
(* What is sent joins the end of a queue.                                  *)
LEMMA AppendElements ==
  ASSUME NEW S, NEW q \in Seq(S), NEW x \in S
  PROVE  /\ Append(q, x) \in Seq(S)
         /\ DOMAIN q = 1 .. Len(q) /\ Len(q) \in Nat
         /\ DOMAIN Append(q, x) = 1 .. Len(q) + 1
         /\ \A k \in 1 .. Len(q) : Append(q, x)[k] = q[k]
         /\ Append(q, x)[Len(q) + 1] = x
  BY AppendProperties, LenProperties

(* What is taken leaves its front.                                         *)
LEMMA TailElements ==
  ASSUME NEW S, NEW q \in Seq(S), q # <<>>
  PROVE  /\ Tail(q) \in Seq(S) /\ Head(q) = q[1] /\ Head(q) \in S
         /\ DOMAIN q = 1 .. Len(q) /\ Len(q) \in Nat \ {0}
         /\ DOMAIN Tail(q) = 1 .. Len(q) - 1
         /\ \A k \in 1 .. Len(q) - 1 : Tail(q)[k] = q[k + 1]
  BY HeadTailProperties, LenProperties, EmptySeq

(* A queue holds what it held and what has joined it.                      *)
LEMMA AppendHolds ==
  ASSUME NEW S, NEW q \in Seq(S), NEW x \in S, NEW T
  PROVE  /\ Holds(Append(q, x), T) <=> Holds(q, T) \/ x \in T
         /\ Once(q, T) /\ (x \in T => ~Holds(q, T)) => Once(Append(q, x), T)
<1>1. Holds(Append(q, x), T) <=> Holds(q, T) \/ x \in T
  BY AppendElements DEF Holds
<1>2. ASSUME Once(q, T), x \in T => ~Holds(q, T)
      PROVE  Once(Append(q, x), T)
  BY <1>2, AppendElements DEF Holds, Once
<1> QED
  BY <1>1, <1>2

(* A queue holds what its front is and what stays behind it.               *)
LEMMA TailHolds ==
  ASSUME NEW S, NEW q \in Seq(S), q # <<>>, NEW T
  PROVE  /\ Holds(q, T) <=> Head(q) \in T \/ Holds(Tail(q), T)
         /\ Once(q, T) => Once(Tail(q), T)
         /\ Once(q, T) /\ Head(q) \in T => ~Holds(Tail(q), T)
<1>1. ASSUME Holds(q, T) PROVE Head(q) \in T \/ Holds(Tail(q), T)
  <2>1. PICK k \in DOMAIN q : q[k] \in T
    BY <1>1 DEF Holds
  <2>2. CASE k = 1
    BY <2>1, <2>2, TailElements
  <2>3. CASE k # 1
    <3>1. k - 1 \in DOMAIN Tail(q) /\ Tail(q)[k - 1] = q[k]
      BY <2>3, TailElements
    <3> QED
      BY <2>1, <3>1 DEF Holds
  <2> QED
    BY <2>2, <2>3
<1>2. \A k \in DOMAIN Tail(q) : k + 1 \in DOMAIN q /\ k + 1 # 1 /\ Tail(q)[k] = q[k + 1]
  BY TailElements
<1>3. 1 \in DOMAIN q /\ Head(q) = q[1] /\ DOMAIN Tail(q) \subseteq Int
  BY TailElements
<1>4. Head(q) \in T \/ Holds(Tail(q), T) => Holds(q, T)
  BY <1>2, <1>3 DEF Holds
<1>5. Once(q, T) => Once(Tail(q), T)
  BY <1>2, <1>3 DEF Once
<1>6. Once(q, T) /\ Head(q) \in T => ~Holds(Tail(q), T)
  BY <1>2, <1>3 DEF Once, Holds
<1> QED
  BY <1>1, <1>4, <1>5, <1>6

(* The last word of a queue is the one that joined it, or the one it had.  *)
LEMMA AppendOutlasts ==
  ASSUME NEW S, NEW q \in Seq(S), NEW x \in S, NEW T, NEW U,
         Outlasts(Append(q, x), T, U)
  PROVE  x \in T \/ (Outlasts(q, T, U) /\ x \notin U)
  BY AppendElements DEF Outlasts

(* It is the one it had, when the front is taken.                          *)
LEMMA TailOutlasts ==
  ASSUME NEW S, NEW q \in Seq(S), q # <<>>, NEW T, NEW U
  PROVE  /\ Outlasts(Tail(q), T, U) => Outlasts(q, T, U)
         /\ Head(q) \in T /\ ~Holds(Tail(q), U) => Outlasts(q, T, U)
<1>1. ASSUME Outlasts(Tail(q), T, U) PROVE Outlasts(q, T, U)
  <2>1. PICK k \in DOMAIN Tail(q) :
          Tail(q)[k] \in T /\ \A j \in DOMAIN Tail(q) : j > k => Tail(q)[j] \notin U
    BY <1>1 DEF Outlasts
  <2>2. k + 1 \in DOMAIN q /\ q[k + 1] \in T
    BY <2>1, TailElements
  <2>3. ASSUME NEW j \in DOMAIN q, j > k + 1 PROVE q[j] \notin U
    <3>1. j - 1 \in DOMAIN Tail(q) /\ j - 1 > k /\ Tail(q)[j - 1] = q[j]
      BY <2>3, TailElements
    <3> QED
      BY <2>1, <3>1
  <2> QED
    BY <2>2, <2>3 DEF Outlasts
<1>2. ASSUME Head(q) \in T, ~Holds(Tail(q), U) PROVE Outlasts(q, T, U)
  <2>1. 1 \in DOMAIN q /\ q[1] \in T
    BY <1>2, TailElements
  <2>2. ASSUME NEW j \in DOMAIN q, j > 1 PROVE q[j] \notin U
    <3>1. j - 1 \in DOMAIN Tail(q) /\ Tail(q)[j - 1] = q[j]
      BY <2>2, TailElements
    <3> QED
      BY <1>2, <3>1 DEF Holds
  <2> QED
    BY <2>1, <2>2 DEF Outlasts
<1> QED
  BY <1>1, <1>2
-----------------------------------------------------------------------------
Line == Requests \cup Messages

(* What is on the connection is a request of one kind or a message.        *)
LEMMA KindsDiffer ==
  /\ \A h \in Handlers :
       /\ [kind |-> "SUBSCRIBE", by |-> h] \in Subs \ Unsubs
       /\ [kind |-> "UNSUBSCRIBE", by |-> h] \in Unsubs \ Subs
  /\ \A r \in Requests : \A e \in Events : r \notin Of(e)
  /\ \A s, h \in Handlers : \A kind :
       [kind |-> kind, by |-> h] \in Ask(s) <=> kind = "SUBSCRIBE" /\ s = h
  /\ \A e \in Events : \A s \in Handlers : [kind |-> "message", event |-> e] \notin Ask(s)
  /\ \A r \in Line :
       /\ r.kind = "SUBSCRIBE" <=> r \in Subs
       /\ r.kind = "UNSUBSCRIBE" <=> r \in Unsubs
       /\ r.kind = "SUBSCRIBE" => r.kind # "UNSUBSCRIBE"
  /\ \A e \in Events :
       /\ [kind |-> "message", event |-> e] \in Line \ (Subs \cup Unsubs)
       /\ \A f \in Events : [kind |-> "message", event |-> e] \in Of(f) <=> f = e
  /\ Subs \cup Unsubs = Requests
<1>1. \A r \in Requests : r.kind \in {"SUBSCRIBE", "UNSUBSCRIBE"}
  BY DEF Requests
<1>2. \A r \in Messages : r.kind = "message"
  BY DEF Messages
<1>3. \A e \in Events : [kind |-> "message", event |-> e] \in Messages
  BY DEF Messages
<1>4. \A r \in Requests : \A e \in Events : r # [kind |-> "message", event |-> e]
  <2> SUFFICES ASSUME NEW r \in Requests, NEW e \in Events,
                      r = [kind |-> "message", event |-> e]
               PROVE  FALSE
    OBVIOUS
  <2>1. r.kind = "message"
    OBVIOUS
  <2> QED
    BY <1>1, <2>1
<1>5. \A h \in Handlers :
        /\ [kind |-> "SUBSCRIBE", by |-> h] \in Requests
        /\ [kind |-> "UNSUBSCRIBE", by |-> h] \in Requests
  BY DEF Requests
<1>6. \A e, f \in Events :
        [kind |-> "message", event |-> e] = [kind |-> "message", event |-> f] => e = f
  <2> SUFFICES ASSUME NEW e \in Events, NEW f \in Events,
                      [kind |-> "message", event |-> e] = [kind |-> "message", event |-> f]
               PROVE  e = f
    OBVIOUS
  <2>1. [kind |-> "message", event |-> e].event = [kind |-> "message", event |-> f].event
    OBVIOUS
  <2> QED
    BY <2>1
<1>7. \A e, f \in Events : [kind |-> "message", event |-> e] \in Of(f) <=> f = e
  BY <1>6 DEF Of
<1>8. \A s, h \in Handlers : \A kind :
        [kind |-> kind, by |-> h] \in Ask(s) <=> kind = "SUBSCRIBE" /\ s = h
  <2> SUFFICES ASSUME NEW s \in Handlers, NEW h \in Handlers, NEW kind
               PROVE  [kind |-> kind, by |-> h] = [kind |-> "SUBSCRIBE", by |-> s]
                        => kind = "SUBSCRIBE" /\ s = h
    BY DEF Ask
  <2> DEFINE r == [kind |-> kind, by |-> h]
  <2>1. r.kind = kind /\ r.by = h
    OBVIOUS
  <2>2. r = [kind |-> "SUBSCRIBE", by |-> s] => r.kind = "SUBSCRIBE" /\ r.by = s
    OBVIOUS
  <2> QED
    BY <2>1, <2>2
<1>9. \A e \in Events : \A s \in Handlers : [kind |-> "message", event |-> e] \notin Ask(s)
  BY <1>4, <1>5 DEF Ask
<1> QED
  BY <1>1, <1>2, <1>3, <1>4, <1>5, <1>7, <1>8, <1>9 DEF Subs, Unsubs, Of, Line

(* Nothing of a kind is unanswered: neither queue holds a request of it.   *)
LEMMA NothingUnanswered ==
  ASSUME BusTypeOK
  PROVE  /\ Unanswered("SUBSCRIBE") = {} <=> ~Pending
         /\ Unanswered("UNSUBSCRIBE") = {} <=> ~GivingUp
<1>1. requests \in Seq(Line) /\ inbox \in Seq(Line)
  <2>1. inbox \in Seq(Line)
    BY DEF BusTypeOK, Line
  <2>2. requests \in Seq(Line)
    <3>1. DOMAIN requests = 1 .. Len(requests) /\ Len(requests) \in Nat
          /\ \A k \in 1 .. Len(requests) : requests[k] \in Requests
      BY LenProperties, ElementOfSeq DEF BusTypeOK
    <3> QED
      BY <3>1, IsASeq, LenProperties DEF BusTypeOK, Line
  <2> QED
    BY <2>1, <2>2
<1> DEFINE both == requests \o inbox
<1>2. /\ both \in Seq(Line)
      /\ DOMAIN both = 1 .. Len(requests) + Len(inbox)
      /\ \A k \in 1 .. Len(requests) + Len(inbox) :
           both[k] = IF k <= Len(requests) THEN requests[k] ELSE inbox[k - Len(requests)]
  BY <1>1, ConcatProperties, LenProperties
<1>3. /\ DOMAIN requests = 1 .. Len(requests) /\ Len(requests) \in Nat
      /\ DOMAIN inbox = 1 .. Len(inbox) /\ Len(inbox) \in Nat
  BY <1>1, LenProperties
<1> HIDE DEF both
<1>4. ASSUME NEW T
      PROVE  Holds(both, T) <=> Holds(requests, T) \/ Holds(inbox, T)
  <2>1. ASSUME Holds(both, T) PROVE Holds(requests, T) \/ Holds(inbox, T)
    <3>1. PICK k \in 1 .. Len(requests) + Len(inbox) : both[k] \in T
      BY <1>2, <2>1 DEF Holds
    <3>2. CASE k <= Len(requests)
      BY <1>2, <1>3, <3>1, <3>2 DEF Holds
    <3>3. CASE ~(k <= Len(requests))
      <4>1. k - Len(requests) \in DOMAIN inbox /\ inbox[k - Len(requests)] \in T
        BY <1>2, <1>3, <3>1, <3>3
      <4> QED
        BY <4>1 DEF Holds
    <3> QED
      BY <3>2, <3>3
  <2>2. ASSUME Holds(requests, T) PROVE Holds(both, T)
    <3>1. PICK k \in DOMAIN requests : requests[k] \in T
      BY <2>2 DEF Holds
    <3>2. k \in DOMAIN both /\ both[k] = requests[k]
      BY <1>2, <1>3
    <3> QED
      BY <3>1, <3>2 DEF Holds
  <2>3. ASSUME Holds(inbox, T) PROVE Holds(both, T)
    <3>1. PICK k \in DOMAIN inbox : inbox[k] \in T
      BY <2>3 DEF Holds
    <3>2. k + Len(requests) \in DOMAIN both /\ both[k + Len(requests)] = inbox[k]
      BY <1>2, <1>3
    <3> QED
      BY <3>1, <3>2 DEF Holds
  <2> QED
    BY <2>1, <2>2, <2>3
<1>5. \A k \in DOMAIN both : both[k] \in Line
  BY <1>2, ElementOfSeq, LenProperties
<1>6. Unanswered("SUBSCRIBE") = {} <=> ~Holds(both, Subs)
  BY <1>5, KindsDiffer DEF Unanswered, ToSet, Holds, both
<1>7. Unanswered("UNSUBSCRIBE") = {} <=> ~Holds(both, Unsubs)
  BY <1>5, KindsDiffer DEF Unanswered, ToSet, Holds, both
<1> QED
  BY <1>4, <1>6, <1>7 DEF Pending, GivingUp
-----------------------------------------------------------------------------
(* A request joins those on their way to the server.                       *)
LEMMA Sent ==
  ASSUME BusTypeOK, NEW h \in Handlers, NEW kind \in {"SUBSCRIBE", "UNSUBSCRIBE"},
         Send(kind, h)
  PROVE  /\ requests' \in Seq(Requests)
         /\ Holds(requests', Subs) <=> Holds(requests, Subs) \/ kind = "SUBSCRIBE"
         /\ Holds(requests', Unsubs) <=> Holds(requests, Unsubs) \/ kind = "UNSUBSCRIBE"
         /\ \A s \in Handlers :
              /\ Holds(requests', Ask(s)) <=>
                   Holds(requests, Ask(s)) \/ (kind = "SUBSCRIBE" /\ s = h)
              /\ Once(requests, Ask(s)) /\ ~Holds(requests, Ask(h)) => Once(requests', Ask(s))
         /\ Once(requests, Subs) /\ (kind = "SUBSCRIBE" => ~Holds(requests, Subs))
              => Once(requests', Subs)
<1>1. PICK r \in Requests : r = [kind |-> kind, by |-> h]
  BY DEF Requests
<1>2. requests' = Append(requests, r) /\ requests \in Seq(Requests)
  BY <1>1 DEF Send, BusTypeOK
<1>3. (r \in Subs <=> kind = "SUBSCRIBE") /\ (r \in Unsubs <=> kind = "UNSUBSCRIBE")
  BY <1>1, KindsDiffer
<1>6. \A s \in Handlers : r \in Ask(s) <=> kind = "SUBSCRIBE" /\ s = h
  BY <1>1, KindsDiffer
<1>4. requests' \in Seq(Requests)
  BY <1>2, AppendElements
<1>5. \A T : /\ Holds(requests', T) <=> Holds(requests, T) \/ r \in T
             /\ Once(requests, T) /\ (r \in T => ~Holds(requests, T)) => Once(requests', T)
  BY <1>2, AppendHolds
<1> QED
  BY <1>3, <1>4, <1>5, <1>6

(* The subscriber takes what comes first.                                  *)
LEMMA Taken ==
  ASSUME BusTypeOK, inbox # <<>>, inbox' = Tail(inbox)
  PROVE  /\ inbox' \in Seq(Line) /\ Head(inbox) \in Line
         /\ \A T : /\ Holds(inbox, T) <=> Head(inbox) \in T \/ Holds(inbox', T)
                   /\ Once(inbox, T) => Once(inbox', T)
                   /\ Once(inbox, T) /\ Head(inbox) \in T => ~Holds(inbox', T)
         /\ Outlasts(inbox', Subs, Unsubs) => Outlasts(inbox, Subs, Unsubs)
         /\ Head(inbox) \in Subs /\ ~Holds(inbox', Unsubs) => Outlasts(inbox, Subs, Unsubs)
<1>1. inbox \in Seq(Line)
  BY DEF BusTypeOK, Line
<1>2. inbox' \in Seq(Line) /\ Head(inbox) \in Line
  BY <1>1, TailElements
<1>3. \A T : /\ Holds(inbox, T) <=> Head(inbox) \in T \/ Holds(inbox', T)
             /\ Once(inbox, T) => Once(inbox', T)
             /\ Once(inbox, T) /\ Head(inbox) \in T => ~Holds(inbox', T)
  BY <1>1, TailHolds
<1>4. /\ Outlasts(inbox', Subs, Unsubs) => Outlasts(inbox, Subs, Unsubs)
      /\ Head(inbox) \in Subs /\ ~Holds(inbox', Unsubs) => Outlasts(inbox, Subs, Unsubs)
  BY <1>1, TailOutlasts
<1> QED
  BY <1>2, <1>3, <1>4

(* The server sends something to the subscriber.                           *)
LEMMA Arrives ==
  ASSUME BusTypeOK, NEW x \in Line, inbox' = Append(inbox, x)
  PROVE  /\ inbox' \in Seq(Line)
         /\ \A T : /\ Holds(inbox', T) <=> Holds(inbox, T) \/ x \in T
                   /\ Once(inbox, T) /\ (x \in T => ~Holds(inbox, T)) => Once(inbox', T)
         /\ Outlasts(inbox', Subs, Unsubs) =>
              x \in Subs \/ (Outlasts(inbox, Subs, Unsubs) /\ x \notin Unsubs)
<1>1. inbox \in Seq(Line)
  BY DEF BusTypeOK, Line
<1>2. inbox' \in Seq(Line)
  BY <1>1, AppendElements
<1>3. \A T : /\ Holds(inbox', T) <=> Holds(inbox, T) \/ x \in T
             /\ Once(inbox, T) /\ (x \in T => ~Holds(inbox, T)) => Once(inbox', T)
  BY <1>1, AppendHolds
<1>4. Outlasts(inbox', Subs, Unsubs) =>
        x \in Subs \/ (Outlasts(inbox, Subs, Unsubs) /\ x \notin Unsubs)
  BY <1>1, AppendOutlasts
<1> QED
  BY <1>2, <1>3, <1>4

(* The server takes the first request.                                     *)
LEMMA ReplyComes ==
  ASSUME BusTypeOK, ServerReplies
  PROVE  \E r \in Requests :
           /\ requests' \in Seq(Requests)
           /\ inbox' = Append(inbox, r)
           /\ channel' = (r \in Subs)
           /\ \A T : /\ Holds(requests, T) <=> r \in T \/ Holds(requests', T)
                     /\ Once(requests, T) => Once(requests', T)
                     /\ Once(requests, T) /\ r \in T => ~Holds(requests', T)
<1>1. /\ requests \in Seq(Requests) /\ requests # <<>>
      /\ inbox' = Append(inbox, Head(requests)) /\ requests' = Tail(requests)
      /\ channel' = (Head(requests).kind = "SUBSCRIBE")
  BY DEF ServerReplies, BusTypeOK
<1>2. Head(requests) \in Requests /\ requests' \in Seq(Requests)
  BY <1>1, TailElements
<1>3. channel' = (Head(requests) \in Subs)
  BY <1>1, <1>2, KindsDiffer DEF Line
<1>4. \A T : /\ Holds(requests, T) <=> Head(requests) \in T \/ Holds(requests', T)
             /\ Once(requests, T) => Once(requests', T)
             /\ Once(requests, T) /\ Head(requests) \in T => ~Holds(requests', T)
  BY <1>1, TailHolds
<1> QED
  BY <1>1, <1>2, <1>3, <1>4

-----------------------------------------------------------------------------
(* Every variable has a value of its type, and the handlers are those of   *)
(* the streams between their subscription and their end.                   *)
LEMMA TypeInit == Init => TypeOK /\ AskedOnce
<1> SUFFICES ASSUME Init PROVE TypeOK /\ AskedOnce
  OBVIOUS
<1>1. <<>> \in Seq(Requests) /\ <<>> \in Seq(Requests \cup Messages) /\ DOMAIN <<>> = {}
  OBVIOUS
<1>2. handlers = {s \in Handlers : stage[s] \in {"subscribing", "live"}}
  BY DEF Init, BusInit
<1>3. TypeOK
  BY <1>1, <1>2 DEF Init, BusInit, TypeOK, BusTypeOK, Stages
<1>4. AskedOnce
  BY <1>1 DEF Init, BusInit, AskedOnce, Holds, Once
<1> QED
  BY <1>3, <1>4

(* A stream that comes to wait in subscribe has the one SUBSCRIBE it sent. *)
LEMMA SendAsks ==
  ASSUME BusTypeOK, AskedOnce, NEW s \in Handlers, Send("SUBSCRIBE", s), inbox' = inbox,
         stage[s] # "subscribing", stage'[s] = "subscribing",
         \A h \in Handlers \ {s} : stage'[h] = stage[h]
  PROVE  AskedOnce'
<1>1. ~Holds(inbox, Ask(s)) /\ ~Holds(requests, Ask(s))
  BY DEF AskedOnce
<1>2. \A h \in Handlers :
        /\ Holds(requests', Ask(h)) <=> Holds(requests, Ask(h)) \/ h = s
        /\ Once(requests, Ask(h)) => Once(requests', Ask(h))
  BY <1>1, Sent
<1> QED
  BY <1>1, <1>2 DEF AskedOnce

(* Types, and that a handler asks for the subscription once, are kept by   *)
(* every step.                                                             *)
LEMMA TypeNext == TypeOK /\ AskedOnce /\ [Next]_vars => TypeOK' /\ AskedOnce'
<1> SUFFICES ASSUME TypeOK, AskedOnce, [Next]_vars PROVE TypeOK' /\ AskedOnce'
  OBVIOUS
<1>0. BusTypeOK /\ stage \in [Handlers -> Stages]
  BY DEF TypeOK
<1> USE DEF streamVars, busVars, Stages
<1>1. CASE UNCHANGED vars
  BY <1>1 DEF vars, TypeOK, BusTypeOK, AskedOnce
<1>2. ASSUME NEW s \in Handlers, ListEvents(s) PROVE TypeOK' /\ AskedOnce'
  <2>1. TypeOK'
    BY <1>2 DEF ListEvents, TypeOK, BusTypeOK
  <2>2. /\ \A h \in Handlers : stage'[h] = "subscribing" <=> stage[h] = "subscribing"
        /\ requests' = requests /\ inbox' = inbox
    BY <1>0, <1>2 DEF ListEvents
  <2>3. AskedOnce'
    BY <2>2 DEF AskedOnce
  <2> QED
    BY <2>1, <2>3
<1>3. ASSUME NEW s \in Handlers, StartStream(s) PROVE TypeOK' /\ AskedOnce'
  <2>1. requests' \in Seq(Requests)
    BY <1>0, <1>3, Sent DEF StartStream, Subscribe, BusTypeOK
  <2>2. /\ handlers' = handlers \cup {s}
        /\ UNCHANGED <<subscribed, inbox, channel, callbacks>>
        /\ stage' = [stage EXCEPT ![s] = IF subscribed THEN "live" ELSE "subscribing"]
        /\ overlapped' \in BOOLEAN /\ crossed' \in BOOLEAN
        /\ UNCHANGED <<connected, log, published, snapshot, written, due>>
    BY <1>3 DEF StartStream, Subscribe, TypeOK
  <2>3. TypeOK'
    BY <2>1, <2>2 DEF TypeOK, BusTypeOK
  <2>4. stage[s] # "subscribing" /\ stage'[s] = IF subscribed THEN "live" ELSE "subscribing"
    BY <1>0, <1>3, <2>2 DEF StartStream
  <2>5. IF subscribed THEN requests' = requests ELSE Send("SUBSCRIBE", s)
    BY <1>3 DEF StartStream, Subscribe
  <2>6. \A h \in Handlers \ {s} : stage'[h] = stage[h]
    BY <1>0, <2>2
  <2>7. AskedOnce'
    <3>1. CASE subscribed
      BY <1>0, <2>2, <2>4, <2>5, <2>6, <3>1 DEF AskedOnce
    <3>2. CASE ~subscribed
      BY <1>0, <2>2, <2>4, <2>5, <2>6, <3>2, SendAsks
    <3> QED
      BY <3>1, <3>2
  <2> QED
    BY <2>3, <2>7
<1>4. ASSUME NEW s \in Handlers, LeaveEarly(s) PROVE TypeOK' /\ AskedOnce'
  BY <1>4 DEF LeaveEarly, TypeOK, BusTypeOK, AskedOnce
<1>5. ASSUME NEW s \in Handlers, Leave(s) PROVE TypeOK' /\ AskedOnce'
  <2>1. requests' \in Seq(Requests)
    BY <1>0, <1>5, Sent DEF Leave, Unsubscribe, BusTypeOK
  <2>2. /\ handlers' = handlers \ {s} /\ stage' = [stage EXCEPT ![s] = "over"]
        /\ connected' = connected \ {s}
        /\ UNCHANGED <<subscribed, inbox, channel, callbacks>>
        /\ UNCHANGED <<log, published, snapshot, written, due, overlapped, crossed>>
        /\ stage[s] = "live"
    BY <1>5 DEF Leave, Unsubscribe
  <2>3. TypeOK'
    BY <2>1, <2>2 DEF TypeOK, BusTypeOK
  <2>4. ~Holds(inbox, Ask(s)) /\ ~Holds(requests, Ask(s))
    BY <2>2 DEF AskedOnce
  <2>5. \A h \in Handlers :
          /\ Holds(requests', Ask(h)) <=> Holds(requests, Ask(h))
          /\ Once(requests, Ask(h)) => Once(requests', Ask(h))
    <3>1. CASE requests' = requests
      BY <3>1
    <3>2. CASE Send("UNSUBSCRIBE", s)
      BY <1>0, <2>4, <3>2, Sent
    <3> QED
      BY <1>5, <3>1, <3>2 DEF Leave, Unsubscribe
  <2>6. \A h \in Handlers \ {s} : stage'[h] = stage[h]
    BY <1>0, <2>2
  <2>7. AskedOnce'
    BY <2>2, <2>4, <2>5, <2>6 DEF AskedOnce
  <2> QED
    BY <2>3, <2>7
<1>6. ASSUME NEW e \in Events, AppendEvent(e) PROVE TypeOK' /\ AskedOnce'
  BY <1>6 DEF AppendEvent, TypeOK, BusTypeOK, AskedOnce
<1>7. ASSUME NEW e \in Events, PublishEvent(e) PROVE TypeOK' /\ AskedOnce'
  <2>1. CASE inbox' = inbox
    BY <1>7, <2>1 DEF PublishEvent, Publish, TypeOK, BusTypeOK, AskedOnce
  <2>2. CASE inbox' = Append(inbox, [kind |-> "message", event |-> e])
    <3>1. PICK m \in Line : m = [kind |-> "message", event |-> e]
      BY KindsDiffer
    <3>2. inbox' = Append(inbox, m) /\ \A h \in Handlers : m \notin Ask(h)
      BY <2>2, <3>1, KindsDiffer
    <3>3. /\ inbox' \in Seq(Line)
          /\ \A T : /\ Holds(inbox', T) <=> Holds(inbox, T) \/ m \in T
                    /\ Once(inbox, T) /\ (m \in T => ~Holds(inbox, T)) => Once(inbox', T)
      BY <1>0, <3>2, Arrives
    <3>4. TypeOK'
      BY <1>7, <3>3 DEF PublishEvent, Publish, TypeOK, BusTypeOK, Line
    <3>5. \A h \in Handlers : /\ Holds(inbox', Ask(h)) <=> Holds(inbox, Ask(h))
                              /\ Once(inbox, Ask(h)) => Once(inbox', Ask(h))
      BY <3>2, <3>3
    <3>6. requests' = requests /\ stage' = stage
      BY <1>7 DEF PublishEvent, Publish
    <3> QED
      BY <3>4, <3>5, <3>6 DEF AskedOnce
  <2> QED
    BY <1>7, <2>1, <2>2 DEF PublishEvent, Publish
<1>8. CASE Server
  <2>1. PICK r \in Requests :
           /\ requests' \in Seq(Requests)
           /\ inbox' = Append(inbox, r)
           /\ \A T : /\ Holds(requests, T) <=> r \in T \/ Holds(requests', T)
                     /\ Once(requests, T) => Once(requests', T)
                     /\ Once(requests, T) /\ r \in T => ~Holds(requests', T)
    BY <1>0, <1>8, ReplyComes DEF Server
  <2>2. /\ inbox' \in Seq(Line)
        /\ \A T : /\ Holds(inbox', T) <=> Holds(inbox, T) \/ r \in T
                  /\ Once(inbox, T) /\ (r \in T => ~Holds(inbox, T)) => Once(inbox', T)
    BY <1>0, <2>1, Arrives DEF Line
  <2>3. channel' \in BOOLEAN
    BY <1>8 DEF Server, ServerReplies
  <2>4. TypeOK'
    BY <1>8, <2>1, <2>2, <2>3 DEF Server, ServerReplies, TypeOK, BusTypeOK, Line
  <2>5. stage' = stage
    BY <1>8 DEF Server
  <2>6. AskedOnce'
    <3> SUFFICES ASSUME NEW h \in Handlers
                 PROVE  /\ Holds(inbox', Ask(h)) \/ Holds(requests', Ask(h))
                             => stage[h] = "subscribing"
                        /\ Once(inbox', Ask(h)) /\ Once(requests', Ask(h))
                        /\ ~(Holds(inbox', Ask(h)) /\ Holds(requests', Ask(h)))
      BY <2>5 DEF AskedOnce
    <3>1. /\ Holds(inbox, Ask(h)) \/ Holds(requests, Ask(h)) => stage[h] = "subscribing"
          /\ Once(inbox, Ask(h)) /\ Once(requests, Ask(h))
          /\ ~(Holds(inbox, Ask(h)) /\ Holds(requests, Ask(h)))
      BY DEF AskedOnce
    <3>2. /\ Holds(requests, Ask(h)) <=> r \in Ask(h) \/ Holds(requests', Ask(h))
          /\ Once(requests, Ask(h)) => Once(requests', Ask(h))
          /\ Once(requests, Ask(h)) /\ r \in Ask(h) => ~Holds(requests', Ask(h))
      BY <2>1
    <3>3. /\ Holds(inbox', Ask(h)) <=> Holds(inbox, Ask(h)) \/ r \in Ask(h)
          /\ Once(inbox, Ask(h)) /\ (r \in Ask(h) => ~Holds(inbox, Ask(h)))
               => Once(inbox', Ask(h))
      BY <2>2
    <3> QED
      BY <3>1, <3>2, <3>3
  <2> QED
    BY <2>4, <2>6
<1>9. ASSUME NEW s \in Handlers, GoLive(s) PROVE TypeOK' /\ AskedOnce'
  <2>1. /\ inbox # <<>> /\ inbox' = Tail(inbox)
        /\ Head(inbox) = [kind |-> "SUBSCRIBE", by |-> s]
        /\ subscribed' = TRUE /\ callbacks' = callbacks + 1
        /\ stage' = [stage EXCEPT ![s] = "live"]
        /\ UNCHANGED <<handlers, requests, channel>>
        /\ UNCHANGED <<connected, log, published, snapshot, written, due, overlapped, crossed>>
    BY <1>9 DEF GoLive, SubscribeReply
  <2>2. /\ inbox' \in Seq(Line)
        /\ \A T : /\ Holds(inbox, T) <=> Head(inbox) \in T \/ Holds(inbox', T)
                  /\ Once(inbox, T) => Once(inbox', T)
                  /\ Once(inbox, T) /\ Head(inbox) \in T => ~Holds(inbox', T)
    BY <1>0, <2>1, Taken
  <2>3. Head(inbox) \in Ask(s)
    BY <2>1 DEF Ask
  <2>4. /\ stage[s] = "subscribing" /\ ~Holds(inbox', Ask(s)) /\ ~Holds(requests', Ask(s))
    BY <2>1, <2>2, <2>3 DEF AskedOnce
  <2>5. handlers' = {h \in Handlers : stage'[h] \in {"subscribing", "live"}}
    BY <2>1, <2>4 DEF TypeOK
  <2>6. TypeOK'
    BY <2>1, <2>2, <2>5 DEF TypeOK, BusTypeOK, Line
  <2>7. \A h \in Handlers \ {s} : stage'[h] = stage[h]
    BY <1>0, <2>1
  <2>8. AskedOnce'
    <3> SUFFICES ASSUME NEW h \in Handlers
                 PROVE  /\ Holds(inbox', Ask(h)) \/ Holds(requests', Ask(h))
                             => stage'[h] = "subscribing"
                        /\ Once(inbox', Ask(h)) /\ Once(requests', Ask(h))
                        /\ ~(Holds(inbox', Ask(h)) /\ Holds(requests', Ask(h)))
      BY DEF AskedOnce
    <3>1. /\ Holds(inbox, Ask(h)) \/ Holds(requests, Ask(h)) => stage[h] = "subscribing"
          /\ Once(inbox, Ask(h)) /\ Once(requests, Ask(h))
          /\ ~(Holds(inbox, Ask(h)) /\ Holds(requests, Ask(h)))
      BY DEF AskedOnce
    <3>2. /\ Holds(inbox', Ask(h)) => Holds(inbox, Ask(h))
          /\ Once(inbox, Ask(h)) => Once(inbox', Ask(h))
      BY <2>2
    <3> QED
      BY <2>1, <2>4, <2>7, <3>1, <3>2
  <2> QED
    BY <2>6, <2>8
<1>10. ASSUME NEW e \in Events, WriteEvent(e) PROVE TypeOK' /\ AskedOnce'
  <2>1. /\ inbox' \in Seq(Line)
        /\ \A T : /\ Holds(inbox', T) => Holds(inbox, T)
                  /\ Once(inbox, T) => Once(inbox', T)
    BY <1>0, <1>10, Taken DEF WriteEvent, Receive
  <2>2. written' \in [Handlers -> [Events -> Nat]]
    BY <1>10 DEF WriteEvent, Receive, TypeOK, BusTypeOK
  <2>3. TypeOK'
    BY <1>10, <2>1, <2>2 DEF WriteEvent, Receive, TypeOK, BusTypeOK, Line
  <2>4. stage' = stage /\ requests' = requests
    BY <1>10 DEF WriteEvent, Receive
  <2> QED
    BY <2>1, <2>3, <2>4 DEF AskedOnce
<1>11. CASE BusUnsubscribed
  <2>1. /\ inbox' \in Seq(Line)
        /\ \A T : /\ Holds(inbox', T) => Holds(inbox, T)
                  /\ Once(inbox, T) => Once(inbox', T)
    BY <1>0, <1>11, Taken DEF BusUnsubscribed, UnsubscribeReply
  <2>2. TypeOK'
    BY <1>11, <2>1 DEF BusUnsubscribed, UnsubscribeReply, TypeOK, BusTypeOK, Line
  <2>3. stage' = stage /\ requests' = requests
    BY <1>11 DEF BusUnsubscribed, UnsubscribeReply
  <2> QED
    BY <2>1, <2>2, <2>3 DEF AskedOnce
<1> QED
  BY <1>1, <1>2, <1>3, <1>4, <1>5, <1>6, <1>7, <1>8, <1>9, <1>10, <1>11 DEF Next, Incoming

(* TypeOK, for every set of streams and events.                            *)
THEOREM StreamTypes == Spec => []TypeOK
<1>1. Spec => [](TypeOK /\ AskedOnce)
  BY TypeInit, TypeNext, PTL DEF Spec
<1> QED
  BY <1>1, PTL
-----------------------------------------------------------------------------
(* What each step that touches the connection does to what it holds.       *)
LEMMA PublishEffect ==
  ASSUME BusTypeOK, NEW e \in Events, PublishEvent(e)
  PROVE  /\ UNCHANGED <<handlers, subscribed, requests, channel, callbacks>>
         /\ \A T \in {Subs, Unsubs} : Holds(inbox', T) <=> Holds(inbox, T)
         /\ Once(inbox, Subs) => Once(inbox', Subs)
         /\ Outlasts(inbox', Subs, Unsubs) => Outlasts(inbox, Subs, Unsubs)
         /\ \A f \in Events :
              /\ Holds(inbox', Of(f)) <=> Holds(inbox, Of(f)) \/ (f = e /\ channel)
              /\ Once(inbox, Of(f)) /\ ~Holds(inbox, Of(e)) => Once(inbox', Of(f))
<1>1. UNCHANGED <<handlers, subscribed, requests, channel, callbacks>>
  BY DEF PublishEvent, Publish
<1>2. CASE channel
  <2>1. PICK m \in Line : m = [kind |-> "message", event |-> e]
    BY KindsDiffer
  <2>2. /\ inbox' = Append(inbox, m) /\ m \notin Subs /\ m \notin Unsubs
        /\ \A f \in Events : m \in Of(f) <=> f = e
    BY <1>2, <2>1, KindsDiffer DEF PublishEvent, Publish
  <2>3. /\ \A T : /\ Holds(inbox', T) <=> Holds(inbox, T) \/ m \in T
                  /\ Once(inbox, T) /\ (m \in T => ~Holds(inbox, T)) => Once(inbox', T)
        /\ Outlasts(inbox', Subs, Unsubs) =>
             m \in Subs \/ (Outlasts(inbox, Subs, Unsubs) /\ m \notin Unsubs)
    BY <2>2, Arrives
  <2> QED
    BY <1>1, <1>2, <2>2, <2>3
<1>3. CASE ~channel
  <2>1. inbox' = inbox
    BY <1>3 DEF PublishEvent, Publish
  <2> QED
    BY <1>1, <1>3, <2>1
<1> QED
  BY <1>2, <1>3 DEF BusTypeOK

(* What the Redis server does when it takes a request: the request moves   *)
(* from the way there to the way back, so that both together hold the      *)
(* same, and the channel is as the last request the client will hear of    *)
(* says.                                                                   *)
LEMMA ServerEffect ==
  ASSUME BusTypeOK, Server
  PROVE  /\ UNCHANGED <<handlers, subscribed, callbacks>>
         /\ \A T \in {Subs, Unsubs} :
              /\ Holds(inbox', T) \/ Holds(requests', T) <=> Holds(inbox, T) \/ Holds(requests, T)
              /\ Once(inbox, T) /\ Once(requests, T) /\ ~(Holds(inbox, T) /\ Holds(requests, T))
                   => /\ Once(inbox', T) /\ Once(requests', T)
                      /\ ~(Holds(inbox', T) /\ Holds(requests', T))
         /\ Outlasts(inbox', Subs, Unsubs) => channel'
         /\ ~Holds(inbox', Unsubs) => ~Holds(inbox, Unsubs) /\ channel'
         /\ \A e \in Events :
              /\ Holds(inbox', Of(e)) <=> Holds(inbox, Of(e))
              /\ Once(inbox, Of(e)) => Once(inbox', Of(e))
<1>1. PICK r \in Requests :
         /\ inbox' = Append(inbox, r)
         /\ channel' = (r \in Subs)
         /\ \A T : /\ Holds(requests, T) <=> r \in T \/ Holds(requests', T)
                   /\ Once(requests, T) => Once(requests', T)
                   /\ Once(requests, T) /\ r \in T => ~Holds(requests', T)
  BY ReplyComes DEF Server
<1>2. /\ \A T : /\ Holds(inbox', T) <=> Holds(inbox, T) \/ r \in T
                /\ Once(inbox, T) /\ (r \in T => ~Holds(inbox, T)) => Once(inbox', T)
      /\ Outlasts(inbox', Subs, Unsubs) =>
           r \in Subs \/ (Outlasts(inbox, Subs, Unsubs) /\ r \notin Unsubs)
  BY <1>1, Arrives DEF Line
<1>3. /\ r \in Subs \/ r \in Unsubs
      /\ \A e \in Events : r \notin Of(e)
  BY KindsDiffer
<1>4. UNCHANGED <<handlers, subscribed, callbacks>>
  BY DEF Server, ServerReplies
<1>5. ASSUME NEW T
      PROVE  /\ Holds(inbox', T) \/ Holds(requests', T) <=> Holds(inbox, T) \/ Holds(requests, T)
             /\ Once(inbox, T) /\ Once(requests, T) /\ ~(Holds(inbox, T) /\ Holds(requests, T))
                  => /\ Once(inbox', T) /\ Once(requests', T)
                     /\ ~(Holds(inbox', T) /\ Holds(requests', T))
  BY <1>1, <1>2
<1>6. \A e \in Events :
        /\ Holds(inbox', Of(e)) <=> Holds(inbox, Of(e))
        /\ Once(inbox, Of(e)) => Once(inbox', Of(e))
  BY <1>2, <1>3
<1>7. Outlasts(inbox', Subs, Unsubs) => channel'
  BY <1>1, <1>2, <1>3
<1>8. ~Holds(inbox', Unsubs) => ~Holds(inbox, Unsubs) /\ channel'
  BY <1>1, <1>2, <1>3
<1> QED
  BY <1>4, <1>5, <1>6, <1>7, <1>8

(* What the client library takes off the connection: one reply, after      *)
(* which what was said of the line is true of the rest.                    *)
LEMMA TakenEffect ==
  ASSUME BusTypeOK, inbox # <<>>, inbox' = Tail(inbox),
         \/ \E s \in Handlers : Head(inbox) = [kind |-> "SUBSCRIBE", by |-> s]
         \/ Head(inbox).kind = "UNSUBSCRIBE"
  PROVE  /\ \A e \in Events : /\ Holds(inbox', Of(e)) <=> Holds(inbox, Of(e))
                              /\ Once(inbox, Of(e)) => Once(inbox', Of(e))
         /\ Once(inbox, Subs) => Once(inbox', Subs)
         /\ \A T \in {Subs, Unsubs} : Holds(inbox', T) => Holds(inbox, T)
         /\ Outlasts(inbox', Subs, Unsubs) => Outlasts(inbox, Subs, Unsubs)
         /\ Head(inbox).kind = "UNSUBSCRIBE" => Holds(inbox, Unsubs)
         /\ Head(inbox).kind = "SUBSCRIBE" =>
              /\ Holds(inbox, Subs)
              /\ Once(inbox, Subs) => ~Holds(inbox', Subs)
              /\ ~Holds(inbox', Unsubs) => Outlasts(inbox, Subs, Unsubs)
<1>1. /\ Head(inbox) \in Line
      /\ \A T : /\ Holds(inbox, T) <=> Head(inbox) \in T \/ Holds(inbox', T)
                /\ Once(inbox, T) => Once(inbox', T)
                /\ Once(inbox, T) /\ Head(inbox) \in T => ~Holds(inbox', T)
      /\ Outlasts(inbox', Subs, Unsubs) => Outlasts(inbox, Subs, Unsubs)
      /\ Head(inbox) \in Subs /\ ~Holds(inbox', Unsubs) => Outlasts(inbox, Subs, Unsubs)
  BY Taken
<1>2. /\ Head(inbox).kind = "SUBSCRIBE" <=> Head(inbox) \in Subs
      /\ Head(inbox).kind = "UNSUBSCRIBE" <=> Head(inbox) \in Unsubs
  BY <1>1, KindsDiffer
<1>3. Head(inbox) \in Requests
  BY <1>2, KindsDiffer
<1>4. \A e \in Events : Head(inbox) \notin Of(e)
  BY <1>3, KindsDiffer
<1> QED
  BY <1>1, <1>2, <1>4

(* What a message does: the event leaves the connection for good, and      *)
(* every listener of the process is called once for each callback.         *)
LEMMA WriteEffect ==
  ASSUME BusTypeOK, written \in [Handlers -> [Events -> Nat]], NEW e \in Events, WriteEvent(e)
  PROVE  /\ UNCHANGED <<handlers, subscribed, requests, channel, callbacks>>
         /\ \A T \in {Subs, Unsubs} : Holds(inbox', T) <=> Holds(inbox, T)
         /\ Once(inbox, Subs) => Once(inbox', Subs)
         /\ Outlasts(inbox', Subs, Unsubs) => Outlasts(inbox, Subs, Unsubs)
         /\ Holds(inbox, Of(e))
         /\ \A f \in Events :
              /\ Once(inbox, Of(f)) => Once(inbox', Of(f))
              /\ Holds(inbox', Of(f)) => Holds(inbox, Of(f))
              /\ f # e => (Holds(inbox', Of(f)) <=> Holds(inbox, Of(f)))
         /\ Once(inbox, Of(e)) => ~Holds(inbox', Of(e))
         /\ \A s \in Handlers : \A f \in Events :
              written'[s][f] = IF s \in handlers /\ f = e THEN written[s][f] + callbacks
                                                           ELSE written[s][f]
<1>1. /\ UNCHANGED <<handlers, subscribed, requests, channel, callbacks>>
      /\ inbox # <<>> /\ inbox' = Tail(inbox)
      /\ Head(inbox) = [kind |-> "message", event |-> e]
      /\ written' = [s \in Handlers |->
           IF s \in handlers THEN [written[s] EXCEPT ![e] = @ + callbacks] ELSE written[s]]
  BY DEF WriteEvent, Receive
<1>2. /\ \A T : /\ Holds(inbox, T) <=> Head(inbox) \in T \/ Holds(inbox', T)
                /\ Once(inbox, T) => Once(inbox', T)
                /\ Once(inbox, T) /\ Head(inbox) \in T => ~Holds(inbox', T)
      /\ Outlasts(inbox', Subs, Unsubs) => Outlasts(inbox, Subs, Unsubs)
  BY <1>1, Taken
<1>5. PICK m \in Line : m = [kind |-> "message", event |-> e]
  BY KindsDiffer
<1>6. m \notin Subs /\ m \notin Unsubs /\ \A f \in Events : m \in Of(f) <=> f = e
  BY <1>5, KindsDiffer
<1>3. /\ Head(inbox) \notin Subs /\ Head(inbox) \notin Unsubs
      /\ \A f \in Events : Head(inbox) \in Of(f) <=> f = e
  BY <1>1, <1>5, <1>6
<1>4. \A s \in Handlers : \A f \in Events :
        written'[s][f] = IF s \in handlers /\ f = e THEN written[s][f] + callbacks
                                                     ELSE written[s][f]
  BY <1>1
<1> QED
  BY <1>1, <1>2, <1>3, <1>4
-----------------------------------------------------------------------------
(* The client library and the server agree on the channel up to what is    *)
(* between them.                                                           *)
LEMMA InStepNext == TypeOK /\ InStep /\ [Next]_vars => InStep'
<1> SUFFICES ASSUME TypeOK, InStep, [Next]_vars PROVE InStep'
  OBVIOUS
<1>0. BusTypeOK /\ callbacks \in Nat /\ written \in [Handlers -> [Events -> Nat]]
  BY DEF TypeOK, BusTypeOK
<1>1. ASSUME UNCHANGED <<subscribed, callbacks, inbox, channel>> PROVE InStep'
  BY <1>1 DEF InStep
<1>2. ASSUME NEW e \in Events, PublishEvent(e) PROVE InStep'
  BY <1>0, <1>2, PublishEffect DEF InStep
<1>3. CASE Server
  BY <1>0, <1>3, ServerEffect DEF InStep
<1>4. ASSUME NEW s \in Handlers, GoLive(s) PROVE InStep'
  <2>1. /\ subscribed' = TRUE /\ callbacks' = callbacks + 1 /\ channel' = channel
        /\ inbox # <<>> /\ inbox' = Tail(inbox)
        /\ Head(inbox) = [kind |-> "SUBSCRIBE", by |-> s]
    BY <1>4 DEF GoLive, SubscribeReply
  <2>2. /\ Outlasts(inbox', Subs, Unsubs) => Outlasts(inbox, Subs, Unsubs)
        /\ ~Holds(inbox', Unsubs) => Outlasts(inbox, Subs, Unsubs)
    BY <1>0, <2>1, TakenEffect
  <2> QED
    BY <1>0, <2>1, <2>2 DEF InStep
<1>5. ASSUME NEW e \in Events, WriteEvent(e) PROVE InStep'
  BY <1>0, <1>5, WriteEffect DEF InStep
<1>6. CASE BusUnsubscribed
  <2>1. /\ subscribed' = FALSE /\ callbacks' = 0 /\ channel' = channel
        /\ inbox # <<>> /\ inbox' = Tail(inbox) /\ Head(inbox).kind = "UNSUBSCRIBE"
    BY <1>6 DEF BusUnsubscribed, UnsubscribeReply
  <2>2. Outlasts(inbox', Subs, Unsubs) => Outlasts(inbox, Subs, Unsubs)
    BY <1>0, <2>1, TakenEffect
  <2> QED
    BY <1>0, <2>1, <2>2 DEF InStep
<1>7. ASSUME NEW s \in Handlers, ListEvents(s) \/ StartStream(s) \/ LeaveEarly(s) \/ Leave(s)
      PROVE  InStep'
  BY <1>1, <1>7 DEF ListEvents, StartStream, Subscribe, LeaveEarly, Leave, Unsubscribe, busVars
<1>8. ASSUME NEW e \in Events, AppendEvent(e) PROVE InStep'
  BY <1>1, <1>8 DEF AppendEvent, busVars
<1>9. CASE UNCHANGED vars
  BY <1>1, <1>9 DEF vars, busVars
<1> QED
  BY <1>2, <1>3, <1>4, <1>5, <1>6, <1>7, <1>8, <1>9 DEF Next, Incoming

(* An event crosses the connection once.                                   *)
LEMMA CrossesOnceNext == TypeOK /\ CrossesOnce /\ [Next]_vars => CrossesOnce'
<1> SUFFICES ASSUME TypeOK, CrossesOnce, [Next]_vars PROVE CrossesOnce'
  OBVIOUS
<1>0. BusTypeOK /\ callbacks \in Nat /\ written \in [Handlers -> [Events -> Nat]]
  BY DEF TypeOK, BusTypeOK
<1>1. ASSUME UNCHANGED <<published, written, inbox>> PROVE CrossesOnce'
  BY <1>1 DEF CrossesOnce
<1>2. ASSUME NEW e \in Events, PublishEvent(e) PROVE CrossesOnce'
  <2>1. published' = published \cup {e} /\ written' = written /\ e \notin published
    BY <1>2 DEF PublishEvent
  <2>2. \A f \in Events :
          /\ Holds(inbox', Of(f)) <=> Holds(inbox, Of(f)) \/ (f = e /\ channel)
          /\ Once(inbox, Of(f)) /\ ~Holds(inbox, Of(e)) => Once(inbox', Of(f))
    BY <1>0, <1>2, PublishEffect
  <2> QED
    BY <2>1, <2>2 DEF CrossesOnce
<1>3. CASE Server
  <2>1. UNCHANGED <<published, written>>
    BY <1>3 DEF Server, streamVars
  <2>2. \A e \in Events : /\ Holds(inbox', Of(e)) <=> Holds(inbox, Of(e))
                          /\ Once(inbox, Of(e)) => Once(inbox', Of(e))
    BY <1>0, <1>3, ServerEffect
  <2> QED
    BY <2>1, <2>2 DEF CrossesOnce
<1>4. CASE BusUnsubscribed \/ \E s \in Handlers : GoLive(s)
  <2>1. /\ UNCHANGED <<published, written>>
        /\ inbox # <<>> /\ inbox' = Tail(inbox)
        /\ \/ \E s \in Handlers : Head(inbox) = [kind |-> "SUBSCRIBE", by |-> s]
           \/ Head(inbox).kind = "UNSUBSCRIBE"
    BY <1>4 DEF BusUnsubscribed, UnsubscribeReply, GoLive, SubscribeReply, streamVars
  <2>2. \A e \in Events : /\ Holds(inbox', Of(e)) <=> Holds(inbox, Of(e))
                          /\ Once(inbox, Of(e)) => Once(inbox', Of(e))
    BY <1>0, <2>1, TakenEffect
  <2> QED
    BY <2>1, <2>2 DEF CrossesOnce
<1>5. ASSUME NEW e \in Events, WriteEvent(e) PROVE CrossesOnce'
  <2>1. published' = published
    BY <1>5 DEF WriteEvent
  <2>2. /\ Holds(inbox, Of(e)) /\ (Once(inbox, Of(e)) => ~Holds(inbox', Of(e)))
        /\ \A f \in Events :
             /\ Once(inbox, Of(f)) => Once(inbox', Of(f))
             /\ Holds(inbox', Of(f)) => Holds(inbox, Of(f))
             /\ \A s \in Handlers :
                  f # e => written'[s][f] = written[s][f]
    BY <1>0, <1>5, WriteEffect
  <2>3. ~Holds(inbox', Of(e)) /\ e \in published
    BY <2>2 DEF CrossesOnce
  <2> QED
    BY <2>1, <2>2, <2>3 DEF CrossesOnce
<1>6. ASSUME NEW s \in Handlers, ListEvents(s) \/ StartStream(s) \/ LeaveEarly(s) \/ Leave(s)
      PROVE  CrossesOnce'
  BY <1>1, <1>6 DEF ListEvents, StartStream, Subscribe, LeaveEarly, Leave, Unsubscribe, busVars
<1>7. ASSUME NEW e \in Events, AppendEvent(e) PROVE CrossesOnce'
  BY <1>1, <1>7 DEF AppendEvent, busVars
<1>8. CASE UNCHANGED vars
  BY <1>1, <1>8 DEF vars, busVars, streamVars
<1> QED
  BY <1>2, <1>3, <1>4, <1>5, <1>6, <1>7, <1>8 DEF Next, Incoming

(* One SUBSCRIBE at a time leaves one listener, and with it one write.     *)
LEMMA OneListenerNext ==
  TypeOK /\ InStep /\ CrossesOnce /\ OneListener /\ [Next]_vars => OneListener'
<1> SUFFICES ASSUME TypeOK, InStep, CrossesOnce, OneListener, [Next]_vars, ~overlapped'
             PROVE  /\ callbacks' <= 1
                    /\ subscribed' => ~Pending'
                    /\ Once(inbox', Subs) /\ Once(requests', Subs)
                    /\ ~(Holds(inbox', Subs) /\ Holds(requests', Subs))
                    /\ \A s \in Handlers, e \in Events : written'[s][e] <= 1
  BY DEF OneListener, Pending
<1> DEFINE Goal == /\ callbacks' <= 1
                   /\ subscribed' => ~Pending'
                   /\ Once(inbox', Subs) /\ Once(requests', Subs)
                   /\ ~(Holds(inbox', Subs) /\ Holds(requests', Subs))
                   /\ \A s \in Handlers, e \in Events : written'[s][e] <= 1
<1>0. BusTypeOK /\ callbacks \in Nat /\ written \in [Handlers -> [Events -> Nat]]
  BY DEF TypeOK, BusTypeOK
<1>1. ASSUME UNCHANGED <<callbacks, subscribed, inbox, requests, written, overlapped>>
      PROVE  Goal
  BY <1>1 DEF OneListener, Pending
<1>2. ASSUME NEW s \in Handlers, StartStream(s) PROVE Goal
  <2>1. /\ ~overlapped /\ (subscribed \/ Unanswered("SUBSCRIBE") = {})
        /\ UNCHANGED <<subscribed, inbox, callbacks, written>>
        /\ IF subscribed THEN requests' = requests ELSE Send("SUBSCRIBE", s)
    BY <1>2 DEF StartStream, Subscribe
  <2>2. CASE subscribed
    BY <2>1, <2>2 DEF OneListener, Pending
  <2>3. CASE ~subscribed
    <3>1. ~Holds(inbox, Subs) /\ ~Holds(requests, Subs)
      BY <1>0, <2>1, <2>3, NothingUnanswered DEF Pending
    <3>2. Once(requests', Subs)
      BY <1>0, <2>1, <2>3, <3>1, Sent DEF OneListener
    <3> QED
      BY <2>1, <2>3, <3>1, <3>2 DEF OneListener
  <2> QED
    BY <2>2, <2>3
<1>3. ASSUME NEW s \in Handlers, Leave(s) PROVE Goal
  <2>1. /\ ~overlapped
        /\ UNCHANGED <<subscribed, inbox, callbacks, written>>
        /\ requests' = requests \/ Send("UNSUBSCRIBE", s)
    BY <1>3 DEF Leave, Unsubscribe
  <2>2. /\ Once(requests, Subs) => Once(requests', Subs)
        /\ Holds(requests', Subs) <=> Holds(requests, Subs)
    <3>1. CASE requests' = requests
      BY <3>1
    <3>2. CASE Send("UNSUBSCRIBE", s)
      BY <1>0, <3>2, Sent
    <3> QED
      BY <2>1, <3>1, <3>2
  <2> QED
    BY <2>1, <2>2 DEF OneListener, Pending
<1>4. ASSUME NEW e \in Events, PublishEvent(e) PROVE Goal
  <2>1. UNCHANGED <<written, overlapped>>
    BY <1>4 DEF PublishEvent
  <2>2. /\ UNCHANGED <<subscribed, requests, callbacks>>
        /\ Holds(inbox', Subs) <=> Holds(inbox, Subs)
        /\ Once(inbox, Subs) => Once(inbox', Subs)
    BY <1>0, <1>4, PublishEffect
  <2> QED
    BY <2>1, <2>2 DEF OneListener, Pending
<1>5. CASE Server
  <2>1. UNCHANGED <<written, overlapped>>
    BY <1>5 DEF Server, streamVars
  <2>2. /\ UNCHANGED <<subscribed, callbacks>>
        /\ Holds(inbox', Subs) \/ Holds(requests', Subs)
             <=> Holds(inbox, Subs) \/ Holds(requests, Subs)
        /\ Once(inbox, Subs) /\ Once(requests, Subs)
           /\ ~(Holds(inbox, Subs) /\ Holds(requests, Subs))
             => /\ Once(inbox', Subs) /\ Once(requests', Subs)
                /\ ~(Holds(inbox', Subs) /\ Holds(requests', Subs))
    BY <1>0, <1>5, ServerEffect
  <2> QED
    BY <2>1, <2>2 DEF OneListener, Pending
<1>6. ASSUME NEW s \in Handlers, GoLive(s) PROVE Goal
  <2>1. /\ ~overlapped /\ UNCHANGED <<written, requests>>
        /\ callbacks' = callbacks + 1
        /\ inbox # <<>> /\ inbox' = Tail(inbox)
        /\ Head(inbox) = [kind |-> "SUBSCRIBE", by |-> s]
    BY <1>6 DEF GoLive, SubscribeReply
  <2>2. /\ Holds(inbox, Subs)
        /\ Once(inbox, Subs) => Once(inbox', Subs) /\ ~Holds(inbox', Subs)
    BY <1>0, <2>1, TakenEffect
  <2>3. ~subscribed /\ ~Holds(requests, Subs)
    BY <2>1, <2>2 DEF OneListener, Pending
  <2>4. callbacks = 0
    BY <1>0, <2>3 DEF InStep
  <2> QED
    BY <2>1, <2>2, <2>3, <2>4 DEF OneListener, Pending
<1>7. CASE BusUnsubscribed
  <2>1. /\ ~overlapped /\ UNCHANGED <<written, requests>>
        /\ callbacks' = 0 /\ subscribed' = FALSE
        /\ inbox # <<>> /\ inbox' = Tail(inbox) /\ Head(inbox).kind = "UNSUBSCRIBE"
    BY <1>7 DEF BusUnsubscribed, UnsubscribeReply, streamVars
  <2>2. /\ Holds(inbox', Subs) => Holds(inbox, Subs)
        /\ Once(inbox, Subs) => Once(inbox', Subs)
    BY <1>0, <2>1, TakenEffect
  <2> QED
    BY <2>1, <2>2 DEF OneListener
<1>8. ASSUME NEW e \in Events, WriteEvent(e) PROVE Goal
  <2>1. ~overlapped
    BY <1>8 DEF WriteEvent
  <2>2. /\ UNCHANGED <<subscribed, requests, callbacks>>
        /\ Holds(inbox', Subs) <=> Holds(inbox, Subs)
        /\ Once(inbox, Subs) => Once(inbox', Subs)
        /\ Holds(inbox, Of(e))
        /\ \A s \in Handlers : \A f \in Events :
             written'[s][f] = IF s \in handlers /\ f = e THEN written[s][f] + callbacks
                                                          ELSE written[s][f]
    BY <1>0, <1>8, WriteEffect
  <2>3. \A s \in Handlers : written[s][e] = 0
    BY <1>0, <2>2 DEF CrossesOnce
  <2>4. \A s \in Handlers, f \in Events : written'[s][f] <= 1
    BY <1>0, <2>1, <2>2, <2>3 DEF OneListener
  <2> QED
    BY <2>1, <2>2, <2>4 DEF OneListener, Pending
<1>9. ASSUME NEW s \in Handlers, ListEvents(s) \/ LeaveEarly(s) PROVE Goal
  BY <1>1, <1>9 DEF ListEvents, LeaveEarly, busVars
<1>10. ASSUME NEW e \in Events, AppendEvent(e) PROVE Goal
  BY <1>1, <1>10 DEF AppendEvent, busVars
<1>11. CASE UNCHANGED vars
  BY <1>1, <1>11 DEF vars, busVars, streamVars
<1> QED
  BY <1>2, <1>3, <1>4, <1>5, <1>6, <1>7, <1>8, <1>9, <1>10, <1>11 DEF Next, Incoming

(* While no handler comes behind an UNSUBSCRIBE, a live stream has its     *)
(* listener, and what is due to it is on its way.                          *)
LEMMA NobodyCutOffNext ==
  TypeOK /\ AskedOnce /\ InStep /\ NobodyCutOff /\ [Next]_vars => NobodyCutOff'
<1> SUFFICES ASSUME TypeOK, AskedOnce, InStep, NobodyCutOff, [Next]_vars PROVE NobodyCutOff'
  OBVIOUS
<1>0. /\ BusTypeOK /\ callbacks \in Nat /\ written \in [Handlers -> [Events -> Nat]]
      /\ stage \in [Handlers -> Stages] /\ due \in [Handlers -> SUBSET Events]
      /\ handlers = {s \in Handlers : stage[s] \in {"subscribing", "live"}}
  BY DEF TypeOK, BusTypeOK
<1>1. ASSUME UNCHANGED <<handlers, subscribed, inbox, requests, written, stage, due, crossed>>
      PROVE  NobodyCutOff'
  BY <1>1 DEF NobodyCutOff, GivingUp
<1>2. ASSUME NEW s \in Handlers, StartStream(s) PROVE NobodyCutOff'
  <2>1. /\ crossed' = (crossed \/ Unanswered("UNSUBSCRIBE") # {})
        /\ handlers' = handlers \cup {s}
        /\ UNCHANGED <<subscribed, inbox, written, due>>
        /\ IF subscribed THEN requests' = requests ELSE Send("SUBSCRIBE", s)
        /\ stage[s] \in {"new", "listing"}
        /\ stage' = [stage EXCEPT ![s] = IF subscribed THEN "live" ELSE "subscribing"]
    BY <1>2 DEF StartStream, Subscribe
  <2>2. Holds(requests', Unsubs) <=> Holds(requests, Unsubs)
    BY <1>0, <2>1, Sent
  <2>3. ~crossed' => ~crossed /\ ~GivingUp /\ ~GivingUp'
    BY <1>0, <2>1, <2>2, NothingUnanswered DEF GivingUp
  <2>4. due[s] = {}
    BY <2>1 DEF NobodyCutOff
  <2>5. /\ \A h \in Handlers \ {s} : stage'[h] = stage[h]
        /\ stage'[s] = IF subscribed THEN "live" ELSE "subscribing"
    BY <1>0, <2>1
  <2> QED
    BY <2>1, <2>3, <2>4, <2>5 DEF NobodyCutOff
<1>3. ASSUME NEW s \in Handlers, Leave(s) PROVE NobodyCutOff'
  <2>1. /\ UNCHANGED <<subscribed, inbox, written, due, crossed>>
        /\ handlers' = handlers \ {s}
        /\ IF handlers' = {} /\ subscribed THEN Send("UNSUBSCRIBE", s) ELSE requests' = requests
        /\ stage[s] = "live" /\ stage' = [stage EXCEPT ![s] = "over"]
    BY <1>3 DEF Leave, Unsubscribe
  <2>2. /\ \A h \in Handlers \ {s} : stage'[h] = stage[h]
        /\ stage'[s] = "over"
    BY <1>0, <2>1
  <2>3. ~crossed => ~GivingUp
    BY <1>0, <2>1 DEF NobodyCutOff
  <2>4. ~crossed /\ GivingUp' => handlers' = {}
    BY <2>1, <2>3 DEF GivingUp
  <2> QED
    BY <2>1, <2>2, <2>4 DEF NobodyCutOff
<1>4. ASSUME NEW e \in Events, PublishEvent(e) PROVE NobodyCutOff'
  <2>1. /\ UNCHANGED <<written, stage, crossed>>
        /\ due' = [s \in Handlers |-> IF stage[s] = "live" THEN due[s] \cup {e} ELSE due[s]]
    BY <1>4 DEF PublishEvent
  <2>2. /\ UNCHANGED <<handlers, subscribed, requests, channel, callbacks>>
        /\ Holds(inbox', Unsubs) <=> Holds(inbox, Unsubs)
        /\ \A f \in Events : Holds(inbox', Of(f)) <=> Holds(inbox, Of(f)) \/ (f = e /\ channel)
    BY <1>0, <1>4, PublishEffect
  <2>3. ASSUME ~crossed, NEW s \in Handlers, stage[s] = "live" PROVE subscribed /\ channel
    <3>1. handlers # {}
      BY <1>0, <2>3
    <3>2. ~Holds(inbox, Unsubs) /\ subscribed
      BY <2>3, <3>1 DEF NobodyCutOff, GivingUp
    <3> QED
      BY <3>2 DEF InStep
  <2>4. GivingUp' <=> GivingUp
    BY <2>2 DEF GivingUp
  <2>5. \A s \in Handlers : due'[s] = IF stage[s] = "live" THEN due[s] \cup {e} ELSE due[s]
    BY <2>1
  <2>6. \A s \in Handlers : due[s] \subseteq Events
    BY <1>0
  <2>7. \A s \in Handlers : stage'[s] \in {"new", "listing", "subscribing"} => due'[s] = {}
    BY <2>1, <2>5 DEF NobodyCutOff
  <2>8. ASSUME ~crossed, NEW s \in Handlers, stage[s] = "live", NEW f \in due'[s]
        PROVE  written'[s][f] > 0 \/ Holds(inbox', Of(f))
    BY <2>1, <2>2, <2>3, <2>5, <2>6, <2>8 DEF NobodyCutOff
  <2> QED
    BY <2>1, <2>2, <2>3, <2>4, <2>7, <2>8 DEF NobodyCutOff
<1>5. CASE Server
  <2>1. UNCHANGED <<written, stage, due, crossed>>
    BY <1>5 DEF Server, streamVars
  <2>2. /\ UNCHANGED <<handlers, subscribed>>
        /\ Holds(inbox', Unsubs) \/ Holds(requests', Unsubs)
             <=> Holds(inbox, Unsubs) \/ Holds(requests, Unsubs)
        /\ \A e \in Events : Holds(inbox', Of(e)) <=> Holds(inbox, Of(e))
    BY <1>0, <1>5, ServerEffect
  <2>3. GivingUp' <=> GivingUp
    BY <2>2 DEF GivingUp
  <2>4. \A s \in Handlers : due[s] \subseteq Events
    BY <1>0
  <2> QED
    BY <2>1, <2>2, <2>3, <2>4 DEF NobodyCutOff
<1>6. ASSUME NEW s \in Handlers, GoLive(s) PROVE NobodyCutOff'
  <2>1. /\ UNCHANGED <<written, due, crossed, handlers, requests>>
        /\ subscribed' = TRUE
        /\ inbox # <<>> /\ inbox' = Tail(inbox)
        /\ Head(inbox) = [kind |-> "SUBSCRIBE", by |-> s]
        /\ stage' = [stage EXCEPT ![s] = "live"]
    BY <1>6 DEF GoLive, SubscribeReply
  <2>2. /\ \A e \in Events : Holds(inbox', Of(e)) <=> Holds(inbox, Of(e))
        /\ Holds(inbox', Unsubs) => Holds(inbox, Unsubs)
    BY <1>0, <2>1, TakenEffect
  <2>3. GivingUp' => GivingUp
    BY <2>1, <2>2 DEF GivingUp
  <2>4. Holds(inbox, Ask(s))
    <3>1. Head(inbox) \in Ask(s)
      BY <2>1 DEF Ask
    <3> QED
      BY <1>0, <2>1, <3>1, Taken
  <2>5. due[s] = {}
    BY <2>4 DEF AskedOnce, NobodyCutOff
  <2>6. /\ \A h \in Handlers \ {s} : stage'[h] = stage[h]
        /\ stage'[s] = "live"
        /\ \A h \in Handlers : due[h] \subseteq Events
    BY <1>0, <2>1
  <2> QED
    BY <2>1, <2>2, <2>3, <2>5, <2>6 DEF NobodyCutOff
<1>7. CASE BusUnsubscribed
  <2>1. /\ UNCHANGED <<written, stage, due, crossed, handlers, requests>>
        /\ inbox # <<>> /\ inbox' = Tail(inbox) /\ Head(inbox).kind = "UNSUBSCRIBE"
    BY <1>7 DEF BusUnsubscribed, UnsubscribeReply, streamVars
  <2>2. /\ Holds(inbox, Unsubs)
        /\ Holds(inbox', Unsubs) => Holds(inbox, Unsubs)
    BY <1>0, <2>1, TakenEffect
  <2>3. ~crossed => handlers = {}
    BY <2>2 DEF NobodyCutOff, GivingUp
  <2>4. ~crossed => \A s \in Handlers : stage[s] # "live"
    BY <1>0, <2>3
  <2> QED
    BY <2>1, <2>3, <2>4 DEF NobodyCutOff
<1>8. ASSUME NEW e \in Events, WriteEvent(e) PROVE NobodyCutOff'
  <2>1. UNCHANGED <<stage, due, crossed>>
    BY <1>8 DEF WriteEvent
  <2>2. /\ UNCHANGED <<handlers, subscribed, requests, callbacks>>
        /\ Holds(inbox', Unsubs) <=> Holds(inbox, Unsubs)
        /\ \A f \in Events : f # e => (Holds(inbox', Of(f)) <=> Holds(inbox, Of(f)))
        /\ \A s \in Handlers : \A f \in Events :
             written'[s][f] = IF s \in handlers /\ f = e THEN written[s][f] + callbacks
                                                          ELSE written[s][f]
    BY <1>0, <1>8, WriteEffect
  <2>3. GivingUp' <=> GivingUp
    BY <2>2 DEF GivingUp
  <2>4. ASSUME ~crossed, NEW s \in Handlers, stage[s] = "live", NEW f \in due[s]
        PROVE  subscribed /\ (written'[s][f] > 0 \/ Holds(inbox', Of(f)))
    <3>1. f \in Events /\ written[s][f] \in Nat /\ s \in handlers
      BY <1>0, <2>4
    <3>2. subscribed /\ callbacks > 0 /\ (written[s][f] > 0 \/ Holds(inbox, Of(f)))
      BY <2>4 DEF NobodyCutOff, InStep
    <3> QED
      BY <1>0, <2>2, <3>1, <3>2
  <2>5. ~crossed => \A s \in Handlers : stage[s] = "live" => subscribed
    BY DEF NobodyCutOff
  <2> QED
    BY <2>1, <2>2, <2>3, <2>4, <2>5 DEF NobodyCutOff
<1>9. ASSUME NEW s \in Handlers, ListEvents(s) PROVE NobodyCutOff'
  <2>1. /\ UNCHANGED <<handlers, subscribed, inbox, requests, written, due, crossed>>
        /\ stage[s] = "new" /\ stage' = [stage EXCEPT ![s] = "listing"]
    BY <1>9 DEF ListEvents, busVars
  <2>2. GivingUp' <=> GivingUp
    BY <2>1 DEF GivingUp
  <2> QED
    BY <1>0, <2>1, <2>2 DEF NobodyCutOff
<1>10. ASSUME NEW s \in Handlers, LeaveEarly(s) PROVE NobodyCutOff'
  BY <1>1, <1>10 DEF LeaveEarly, busVars
<1>11. ASSUME NEW e \in Events, AppendEvent(e) PROVE NobodyCutOff'
  BY <1>1, <1>11 DEF AppendEvent, busVars
<1>12. CASE UNCHANGED vars
  BY <1>1, <1>12 DEF vars, busVars, streamVars
<1> QED
  BY <1>2, <1>3, <1>4, <1>5, <1>6, <1>7, <1>8, <1>9, <1>10, <1>11, <1>12 DEF Next, Incoming
-----------------------------------------------------------------------------
(* No stream is open and nothing is under way before the first request.    *)
LEMMA InvInit == Init => Inv
<1> SUFFICES ASSUME Init PROVE InStep /\ CrossesOnce /\ OneListener /\ NobodyCutOff
  BY TypeInit DEF Inv
<1>1. \A T, U : ~Holds(<<>>, T) /\ Once(<<>>, T) /\ ~Outlasts(<<>>, T, U)
  BY DEF Holds, Once, Outlasts
<1> QED
  BY <1>1 DEF Init, BusInit, InStep, CrossesOnce, OneListener, NobodyCutOff, Pending, GivingUp

(* Every step of the streams, the client library and the server keeps Inv. *)
LEMMA InvNext == Inv /\ [Next]_vars => Inv'
  BY TypeNext, InStepNext, CrossesOnceNext, OneListenerNext, NobodyCutOffNext DEF Inv

(* The invariant of the subscription of redis-event-bus.ts: who listens    *)
(* agrees with what the connection carries.                                *)
THEOREM StreamInvariant == Spec => []Inv
  BY InvInit, InvNext, PTL DEF Spec

(* NeverDoubled, for every set of streams and events: as long as the       *)
(* subscribe of redis-event-bus.ts is not entered while another awaits its *)
(* reply, no event is written to a stream twice.                           *)
THEOREM NobodyReadsTwice == Spec => []NeverDoubled
<1>1. Inv => NeverDoubled
  BY DEF Inv, OneListener, NeverDoubled
<1> QED
  BY <1>1, StreamInvariant, PTL

(* NothingMissed, for every set of streams and events: as long as no       *)
(* handler comes while the unsubscribe of the last one is on its way, what *)
(* is published to a live stream reaches it or is on its way.              *)
THEOREM NobodyMissesAnEvent == Spec => []NothingMissed
<1>1. ASSUME Inv PROVE NothingMissed
  <2>1. ASSUME NEW e, Holds(inbox, Of(e))
        PROVE  \E k \in DOMAIN inbox : inbox[k] = [kind |-> "message", event |-> e]
    BY <2>1 DEF Holds, Of
  <2> QED
    BY <1>1, <2>1 DEF Inv, NobodyCutOff, NothingMissed
<1> QED
  BY <1>1, StreamInvariant, PTL

-----------------------------------------------------------------------------
(* The pages of the web interface.                                         *)

Entries == [status : Status, events : SUBSET Nat]

Words == {"question", "answer", "event"}

Sayings == [conv : Ids, thread : Ids, about : Words \X Nat]

Questions == [conv : Ids, thread : Ids, no : Nat, session : Sessions \cup {None}]

States == {"connecting", "listed", "live", "refused", "closed"}

Sources == [session : Ids, state : States, coming : SUBSET Nat]

Happenings == [session : Sessions \cup Old, kind : Kinds]

Loadings == [stage : {"reading", "read", "over"}, list : Seq(Sessions \cup Old)]

PageTypeOK ==
  /\ page \in {"chat", "project"} /\ mounted \in BOOLEAN /\ follow \in BOOLEAN
  /\ order \in Seq(Ids) /\ messages \in Seq(Sayings)
  /\ traces \in [Ids -> {None} \cup Entries]
  /\ {active, syncing, renaming} \subseteq Ids \cup {None}
  /\ pending \in Questions \cup {None}
  /\ loading \in Loadings
  /\ registered \in [Ids -> Nat] /\ sources \in Seq(Sources)
  /\ created \in Seq(Sessions \cup Old)
  /\ events \in Seq(Happenings)
  /\ left \in [Kind -> Nat]
  /\ root \in [Ids -> Ids] /\ gone \subseteq Ids /\ brought \subseteq Ids
  /\ split \subseteq Ids /\ late \subseteq Ids /\ abandoned \in BOOLEAN

(* The session of a message that is being answered by a task.              *)
Coming(s) == pending # None /\ pending.session = s

Speaks(c) == \E m \in DOMAIN messages : messages[m].conv = c

(* The conversations in which something was said or may be.                *)
Talks(c) ==
  \/ Contains(order, c) \/ active = c \/ Speaks(c)
  \/ pending # None /\ pending.conv = c

(* What the page knows of, the server has.                                 *)
Exists(c) == c \in Local \/ Contains(created, c)

Existing ==
  /\ \A c \in Ids : \/ Talks(c) \/ traces[c] # None \/ syncing = c \/ renaming = c
                    => Exists(c)
  /\ \A k \in DOMAIN sources : Exists(sources[k].session)
  /\ \A c \in Ids : Contains(loading.list, c) => Exists(c)
  /\ \A e \in DOMAIN events : Exists(events[e].session)

(* Whose conversation a session continues.                                 *)
Rooted ==
  /\ \A c \in Ids : c \notin Sessions \/ ~Contains(created, c) \/ Coming(c) => root[c] = c
  /\ \A m \in DOMAIN messages : messages[m].thread = root[messages[m].conv]
  /\ pending # None => pending.thread = root[pending.conv]
  /\ \A s \in Sessions : Coming(s) => Contains(created, s) /\ pending.conv # s /\ ~Speaks(s)
  /\ page = "chat" \/ loading.stage # "over" =>
       /\ \A c \in Ids : Talks(c) => root[c] \in Local
       /\ \A c \in Ids : root[c] \in Local \cup {c}

(* One conversation of a thread, unless it was split.                      *)
Together ==
  \A c, d \in Ids : Talks(c) /\ Talks(d) /\ root[c] = root[d] /\ c # d => root[c] \in split

Placed ==
  /\ mounted => \A c \in Ids : Talks(c) => Contains(order, c) \/ c \in gone
  /\ ~mounted => messages = <<>> /\ loading.stage = "over"

(* Events are those of the session, and a source is registered until it is *)
(* closed.                                                                 *)
Sourced ==
  /\ \A c \in Ids : traces[c] # None => traces[c].events \subseteq DOMAIN events
  /\ \A k \in DOMAIN sources : sources[k].coming \subseteq EventsOf(sources[k].session)
  /\ \A c \in Ids : registered[c] # 0 =>
       registered[c] \in DOMAIN sources /\ sources[registered[c]].session = c
  /\ mounted => \A k \in Open : registered[sources[k].session] = k
  /\ mounted => \A s \in Sessions : root[s] # s /\ Contains(order, s) /\ s \notin brought
                                      => registered[s] # 0
  /\ ~mounted /\ ~abandoned => pending = None /\ syncing = None /\ Open = {}

(* The events of a thread, and that a conversation has had more than the   *)
(* list keeps.                                                             *)
EventsIn(c) == { e \in DOMAIN events : root[events[e].session] = c }

Overflows(c) == Cardinality(EventsIn(c)) > Cap

(* A session that the chat page has left, for good.                        *)
Over(s) == Contains(created, s) /\ ~Contains(order, s) /\ ~Coming(s)

Chatting ==
  page = "chat" =>
    /\ loading.stage = "over"
    /\ active # None => Contains(order, active)
    /\ \A s \in Sessions : Coming(s) =>
         /\ ~Talks(s) /\ traces[s] = None /\ syncing # s /\ renaming # s
         /\ \A k \in DOMAIN sources : sources[k].session # s
    /\ \A c \in Ids : Contains(order, c) => traces[c] # None
    /\ \A c \in Ids : traces[c] # None =>
         \A e \in traces[c].events : root[events[e].session] = root[c]

Told ==
  \A m \in DOMAIN messages : messages[m].about[1] = "event" =>
    LET e == messages[m].about[2]
        s == events[e].session
    IN  /\ page = "chat" /\ e \in DOMAIN events
        /\ messages[m].thread = root[s]
        /\ \/ Over(s) \/ Overflows(root[s])
           \/ traces[s] # None /\ e \in traces[s].events

PageInv ==
  /\ PageTypeOK /\ Existing /\ Rooted /\ Together /\ Placed /\ Sourced /\ Chatting /\ Told
  /\ TellsOnce /\ StatusIsTheLastWord
-----------------------------------------------------------------------------
(* Numbers: a set of them has a least, and a bounded one a greatest.       *)
LEMMA LessThanIsWellFounded ==
  IsWellFoundedOn({ss \in Nat \X Nat : ss[1] < ss[2]}, Nat)
BY NatLessThanWellFounded DEF OpToRel

(* A set of numbers has a least.                                           *)
LEMMA LeastOf ==
  ASSUME NEW T \in SUBSET Nat, T # {}
  PROVE  \E m \in T : \A k \in T : m <= k
<1> DEFINE R == {ss \in Nat \X Nat : ss[1] < ss[2]}
<1>1. IsWellFoundedOn(R, Nat)
  BY LessThanIsWellFounded
<1>2. ASSUME NEW k \in T, NEW m \in T, ~ (<<k, m>> \in R)
      PROVE  m <= k
  <2>1. k \in Nat /\ m \in Nat
    OBVIOUS
  <2>2. k < m => <<k, m>> \in R
    BY <2>1
  <2> QED BY <2>1, <2>2, <1>2
<1> HIDE DEF R
<1>3. \E m \in T : \A k \in T : ~ (<<k, m>> \in R)
  BY <1>1, WFMin
<1> QED BY <1>3, <1>2

(* What holds of 0 and goes on from each number to the next holds of all.  *)
LEMMA Induction ==
  ASSUME NEW S, 0 \in S, \A n \in Nat : n \in S => n + 1 \in S
  PROVE  Nat \subseteq S
<1> DEFINE T == {n \in Nat : n \notin S}
<1>1. SUFFICES ASSUME T # {} PROVE FALSE
  OBVIOUS
<1>2. PICK m \in T : \A k \in T : m <= k
  BY <1>1, LeastOf
<1>3. m # 0 /\ m - 1 \in Nat
  OBVIOUS
<1>4. m - 1 \notin T
  BY <1>2, <1>3
<1> QED BY <1>3, <1>4

(* A set of numbers up to n has a greatest.                                *)
LEMMA GreatestOf ==
  ASSUME NEW n \in Nat, NEW T \in SUBSET (1 .. n), T # {}
  PROVE  \E m \in T : \A k \in T : k <= m
<1> DEFINE U == {n - k : k \in T}
<1>1. U \in SUBSET Nat /\ U # {}
  <2>1. \A k \in T : k \in 1 .. n
    OBVIOUS
  <2>2. \A k \in T : n - k \in Nat
    BY <2>1
  <2> QED BY <2>2
<1>2. PICK u \in U : \A k \in U : u <= k
  BY <1>1, LeastOf
<1>3. PICK m \in T : u = n - m
  OBVIOUS
<1>4. ASSUME NEW k \in T PROVE k <= m
  <2>1. n - k \in U
    OBVIOUS
  <2>2. n - m <= n - k
    BY <2>1, <1>2, <1>3
  <2> QED BY <2>2
<1> QED BY <1>4

(* The event that is delivered first, and the last word.                   *)
LEMMA MinIsLeast ==
  ASSUME NEW T \in SUBSET Nat, T # {}
  PROVE  Min(T) \in T /\ \A k \in T : Min(T) <= k
BY LeastOf DEF Min

(* ... and the last of several.                                            *)
LEMMA MaxIsGreatest ==
  ASSUME NEW n \in Nat, NEW T \in SUBSET (1 .. n), T # {}
  PROVE  Max(T) \in T /\ \A k \in T : k <= Max(T)
BY GreatestOf DEF Max
-----------------------------------------------------------------------------
(* Lists.                                                                  *)
(* A conversation that joins a list at its top.                            *)
LEMMA ConsElements ==
  ASSUME NEW S, NEW s \in Seq(S), NEW c \in S
  PROVE  /\ <<c>> \o s \in Seq(S)
         /\ \A x : Contains(<<c>> \o s, x) <=> x = c \/ Contains(s, x)
<1> DEFINE t == <<c>> \o s
<1>1. /\ t \in Seq(S) /\ Len(t) = 1 + Len(s) /\ t[1] = c
      /\ \A i \in 1 .. Len(s) : t[i + 1] = s[i]
  BY ConcatProperties
<1>2. Len(s) \in Nat
  OBVIOUS
<1> HIDE DEF t
<1>3. ASSUME NEW x, Contains(t, x) PROVE x = c \/ Contains(s, x)
  <2>1. PICK i \in 1 .. Len(t) : t[i] = x
    BY <1>3 DEF Contains
  <2>2. CASE i # 1
    <3>1. i - 1 \in 1 .. Len(s) /\ t[(i - 1) + 1] = s[i - 1] /\ (i - 1) + 1 = i
      BY <1>1, <1>2, <2>1, <2>2
    <3> QED BY <3>1, <2>1 DEF Contains
  <2> QED BY <2>1, <2>2, <1>1
<1>4. ASSUME NEW x, Contains(s, x) PROVE Contains(t, x)
  <2>1. PICK i \in 1 .. Len(s) : s[i] = x
    BY <1>4 DEF Contains
  <2>2. i + 1 \in 1 .. Len(t) /\ t[i + 1] = x
    BY <2>1, <1>1, <1>2
  <2> QED BY <2>2 DEF Contains
<1>5. Contains(t, c)
  <2>1. 1 \in 1 .. Len(t)
    BY <1>1, <1>2
  <2> QED BY <2>1, <1>1 DEF Contains
<1> QED BY <1>1, <1>3, <1>4, <1>5 DEF t

(* The first element is one.                                               *)
LEMMA FirstElement ==
  ASSUME NEW S, NEW s \in Seq(S), s # <<>>
  PROVE  s[1] \in S /\ Contains(s, s[1])
<1>1. 1 \in 1 .. Len(s)
  OBVIOUS
<1> QED BY <1>1 DEF Contains

(* The elements are in S.                                                  *)
LEMMA ElementsIn ==
  ASSUME NEW S, NEW s \in Seq(S)
  PROVE  /\ \A x : Contains(s, x) => x \in S
         /\ ToSet(s) = { x \in S : Contains(s, x) }
         /\ s = <<>> <=> ToSet(s) = {}
<1>1. DOMAIN s = 1 .. Len(s) /\ \A i \in 1 .. Len(s) : s[i] \in S
  OBVIOUS
<1>2. \A x : Contains(s, x) => x \in S
  BY <1>1 DEF Contains
<1>3. \A x : x \in ToSet(s) <=> Contains(s, x)
  BY <1>1 DEF Contains, ToSet
<1>4. s # <<>> => ToSet(s) # {}
  BY <1>3, FirstElement
<1>5. s = <<>> => ToSet(s) = {}
  BY DEF ToSet
<1> QED BY <1>2, <1>3, <1>4, <1>5

(* The function that Without(list, removed) computes up to n.              *)
Rest(list, removed, n, rest) ==
  rest = [i \in 0 .. n |->
            IF i = 0 THEN <<>>
            ELSE IF list[i] \in removed THEN rest[i - 1] ELSE Append(rest[i - 1], list[i])]

(* It has a value at every number, ...                                     *)
LEMMA RestExists ==
  ASSUME NEW list, NEW removed, NEW n \in Nat
  PROVE  \E rest : Rest(list, removed, n, rest)
<1> DEFINE S == {m \in Nat : \E rest : Rest(list, removed, m, rest)}
<1>1. 0 \in S
  <2>1. Rest(list, removed, 0, [i \in 0 .. 0 |-> <<>>])
    BY DEF Rest
  <2> QED BY <2>1
<1>2. ASSUME NEW m \in Nat, m \in S
      PROVE  m + 1 \in S
  <2>1. PICK rest : Rest(list, removed, m, rest)
    BY <1>2
  <2> DEFINE next == [i \in 0 .. (m + 1) |->
                        IF i <= m THEN rest[i]
                        ELSE IF list[i] \in removed THEN rest[m]
                        ELSE Append(rest[m], list[i])]
  <2>2. ASSUME NEW i \in 0 .. (m + 1)
        PROVE  next[i] = IF i = 0 THEN <<>>
                         ELSE IF list[i] \in removed THEN next[i - 1]
                         ELSE Append(next[i - 1], list[i])
    <3>1. CASE i = m + 1
      BY <3>1
    <3>2. CASE i # m + 1
      <4>1. i \in 0 .. m /\ (i # 0 => i - 1 \in 0 .. m)
        BY <3>2
      <4>2. rest[i] = IF i = 0 THEN <<>>
                      ELSE IF list[i] \in removed THEN rest[i - 1]
                      ELSE Append(rest[i - 1], list[i])
        BY <4>1, <2>1 DEF Rest
      <4> QED BY <4>1, <4>2
    <3> QED BY <3>1, <3>2
  <2>3. Rest(list, removed, m + 1, next)
    BY <2>2 DEF Rest
  <2> QED BY <2>3
<1>3. Nat \subseteq S
  <2> HIDE DEF S
  <2> QED BY <1>1, <1>2, Induction
<1> QED BY <1>3

(* ... so that its definition is the recursion it states.                  *)
LEMMA WithoutIsRest ==
  ASSUME NEW S, NEW list \in Seq(S), NEW removed
  PROVE  \E rest : /\ Rest(list, removed, Len(list), rest)
                   /\ Without(list, removed) = rest[Len(list)]
<1> DEFINE rest == CHOOSE r : Rest(list, removed, Len(list), r)
<1>1. Rest(list, removed, Len(list), rest)
  <2>1. Len(list) \in Nat
    OBVIOUS
  <2>2. \E r : Rest(list, removed, Len(list), r)
    BY <2>1, RestExists
  <2> QED BY <2>2
<1>2. Without(list, removed) = rest[Len(list)]
  BY Zenon DEF Without, Rest
<1> QED BY <1>1, <1>2

(* A filtered list w of the elements of s up to n: each is one of them,    *)
(* those in different places come from different places, and all that are  *)
(* not removed are there.                                                  *)
Filtered(S, s, removed, n, w) ==
  /\ w \in Seq(S)
  /\ \A i \in DOMAIN w : \E a \in 1 .. n : w[i] = s[a] /\ s[a] \notin removed
  /\ \A i, j \in DOMAIN w : i # j =>
       \E a, b \in 1 .. n : a # b /\ w[i] = s[a] /\ w[j] = s[b]
  /\ \A a \in 1 .. n : s[a] \notin removed => \E i \in DOMAIN w : w[i] = s[a]

(* What filter leaves of a list.                                           *)
LEMMA WithoutFilters ==
  ASSUME NEW S, NEW s \in Seq(S), NEW removed
  PROVE  Filtered(S, s, removed, Len(s), Without(s, removed))
<1>1. PICK rest : /\ Rest(s, removed, Len(s), rest)
                  /\ Without(s, removed) = rest[Len(s)]
  BY WithoutIsRest
<1>2. Len(s) \in Nat /\ \A i \in 1 .. Len(s) : s[i] \in S
  OBVIOUS
<1> DEFINE T == {n \in Nat : n <= Len(s) => Filtered(S, s, removed, n, rest[n])}
<1>3. 0 \in T
  <2>1. 0 \in 0 .. Len(s)
    BY <1>2
  <2>2. rest[0] = <<>>
    BY <2>1, <1>1 DEF Rest
  <2>3. <<>> \in Seq(S) /\ DOMAIN <<>> = {}
    OBVIOUS
  <2>4. 1 .. 0 = {}
    OBVIOUS
  <2> QED BY <2>2, <2>3, <2>4 DEF Filtered
<1>4. ASSUME NEW n \in Nat, n \in T
      PROVE  n + 1 \in T
  <2> SUFFICES ASSUME n + 1 <= Len(s)
               PROVE  Filtered(S, s, removed, n + 1, rest[n + 1])
    OBVIOUS
  <2> DEFINE w == rest[n]
             x == s[n + 1]
             v == rest[n + 1]
  <2>1. Filtered(S, s, removed, n, w)
    BY <1>4, <1>2
  <2>2. n + 1 \in 0 .. Len(s) /\ n + 1 # 0 /\ (n + 1) - 1 = n
    BY <1>2
  <2>3. v = IF x \in removed THEN w ELSE Append(w, x)
    BY <2>2, <1>1 DEF Rest
  <2>4. x \in S /\ \A a \in 1 .. n + 1 : a \in 1 .. n \/ a = n + 1
    BY <1>2
  <2>5. w \in Seq(S) /\ DOMAIN w = 1 .. Len(w) /\ Len(w) \in Nat
    BY <2>1 DEF Filtered
  <2>6. CASE x \in removed
    <3>1. v = w /\ 1 .. n \subseteq 1 .. n + 1
      BY <2>3, <2>6
    <3> HIDE DEF w, v
    <3>2. \A i \in DOMAIN w : \E a \in 1 .. n + 1 : w[i] = s[a] /\ s[a] \notin removed
      BY <3>1, <2>1 DEF Filtered
    <3>3. \A i, j \in DOMAIN w : i # j =>
            \E a, b \in 1 .. n + 1 : a # b /\ w[i] = s[a] /\ w[j] = s[b]
      BY <3>1, <2>1 DEF Filtered
    <3>4. \A a \in 1 .. n + 1 : s[a] \notin removed => \E i \in DOMAIN w : w[i] = s[a]
      <4>1. \A a \in 1 .. n : s[a] \notin removed => \E i \in DOMAIN w : w[i] = s[a]
        BY <2>1 DEF Filtered
      <4> QED BY <4>1, <2>4, <2>6
    <3> QED BY <3>1, <3>2, <3>3, <3>4, <2>5 DEF Filtered, v
  <2>7. CASE x \notin removed
    <3>1. /\ v \in Seq(S) /\ Len(v) = Len(w) + 1
          /\ \A i \in 1 .. Len(w) : v[i] = w[i]
          /\ v[Len(w) + 1] = x
      BY <2>3, <2>4, <2>5, <2>7, AppendProperties
    <3>2. DOMAIN v = 1 .. Len(w) + 1
      BY <3>1
    <3> HIDE DEF w, v
    <3>3. \A i \in DOMAIN v : \/ i \in DOMAIN w /\ v[i] = w[i]
                              \/ i = Len(w) + 1 /\ v[i] = x
      BY <3>1, <3>2, <2>5
    <3>4. 1 .. n \subseteq 1 .. n + 1 /\ n + 1 \in 1 .. n + 1 /\ n + 1 \notin 1 .. n
      OBVIOUS
    <3>5. \A i \in DOMAIN v : \E a \in 1 .. n + 1 : v[i] = s[a] /\ s[a] \notin removed
      BY <3>3, <3>4, <2>1, <2>7 DEF Filtered
    <3>6. ASSUME NEW i \in DOMAIN v, NEW j \in DOMAIN v, i # j
          PROVE  \E a, b \in 1 .. n + 1 : a # b /\ v[i] = s[a] /\ v[j] = s[b]
      <4>1. CASE i \in DOMAIN w /\ j \in DOMAIN w
        <5>1. PICK a, b \in 1 .. n : a # b /\ w[i] = s[a] /\ w[j] = s[b]
          BY <4>1, <3>6, <2>1 DEF Filtered
        <5>2. v[i] = s[a] /\ v[j] = s[b]
          BY <5>1, <4>1, <3>1, <2>5
        <5> QED BY <5>1, <5>2, <3>4
      <4>2. CASE i \in DOMAIN w /\ j = Len(w) + 1
        <5>1. PICK a \in 1 .. n : w[i] = s[a]
          BY <4>2, <2>1 DEF Filtered
        <5>2. a # n + 1 /\ v[i] = s[a] /\ v[j] = s[n + 1]
          BY <5>1, <4>2, <3>1, <3>4, <2>5
        <5> QED BY <5>2, <3>4
      <4>3. CASE i = Len(w) + 1 /\ j \in DOMAIN w
        <5>1. PICK b \in 1 .. n : w[j] = s[b]
          BY <4>3, <2>1 DEF Filtered
        <5>2. b # n + 1 /\ v[j] = s[b] /\ v[i] = s[n + 1]
          BY <5>1, <4>3, <3>1, <3>4, <2>5
        <5> QED BY <5>2, <3>4
      <4> QED BY <4>1, <4>2, <4>3, <3>3, <3>6
    <3>7. ASSUME NEW a \in 1 .. n + 1, s[a] \notin removed
          PROVE  \E i \in DOMAIN v : v[i] = s[a]
      <4>1. CASE a = n + 1
        <5>1. Len(w) + 1 \in DOMAIN v
          BY <3>2, <2>5
        <5> QED BY <5>1, <4>1, <3>1
      <4>2. CASE a \in 1 .. n
        <5>1. PICK i \in DOMAIN w : w[i] = s[a]
          BY <4>2, <3>7, <2>1 DEF Filtered
        <5>2. i \in DOMAIN v /\ v[i] = w[i]
          BY <5>1, <3>1, <3>2, <2>5
        <5> QED BY <5>1, <5>2
      <4> QED BY <4>1, <4>2, <2>4
    <3>8. \A i, j \in DOMAIN v : i # j =>
            \E a, b \in 1 .. n + 1 : a # b /\ v[i] = s[a] /\ v[j] = s[b]
      BY <3>6
    <3>9. \A a \in 1 .. n + 1 : s[a] \notin removed => \E i \in DOMAIN v : v[i] = s[a]
      BY <3>7
    <3> QED BY <3>1, <3>5, <3>8, <3>9 DEF Filtered, v
  <2> QED BY <2>6, <2>7
<1>5. Nat \subseteq T
  <2> HIDE DEF T
  <2> QED BY <1>3, <1>4, Induction
<1>6. Filtered(S, s, removed, Len(s), rest[Len(s)])
  BY <1>5, <1>2
<1> QED BY <1>6, <1>1

(* The same, of what a list contains.                                      *)
LEMMA WithoutElements ==
  ASSUME NEW S, NEW s \in Seq(S), NEW removed
  PROVE  /\ Without(s, removed) \in Seq(S)
         /\ \A x : Contains(Without(s, removed), x) <=> Contains(s, x) /\ x \notin removed
<1> DEFINE w == Without(s, removed)
<1>1. Filtered(S, s, removed, Len(s), w)
  BY WithoutFilters
<1> HIDE DEF w
<1>2. w \in Seq(S) /\ DOMAIN w = 1 .. Len(w)
  BY <1>1 DEF Filtered
<1>3. \A x : Contains(w, x) => Contains(s, x) /\ x \notin removed
  BY <1>1, <1>2 DEF Filtered, Contains
<1>4. \A x : Contains(s, x) /\ x \notin removed => Contains(w, x)
  BY <1>1, <1>2 DEF Filtered, Contains
<1> QED BY <1>2, <1>3, <1>4 DEF w
-----------------------------------------------------------------------------
(* The list of an entry.                                                   *)
LEMMA CappedEvents ==
  ASSUME NEW n \in Nat, NEW seen \in SUBSET (1 .. n)
  PROVE  /\ Capped(seen) \subseteq seen
         /\ \A d \in seen \ Capped(seen) : Cardinality(seen) > Cap
         /\ \A d \in Capped(seen), e \in seen : d <= e => e \in Capped(seen)
<1>1. IsFiniteSet(1 .. n)
  BY FS_Interval
<1>2. \A T \in SUBSET seen : IsFiniteSet(T) /\ Cardinality(T) \in Nat
  BY <1>1, FS_Subset, FS_CardinalityType
<1>3. ASSUME NEW T \in SUBSET seen, NEW U \in SUBSET T
      PROVE  Cardinality(U) <= Cardinality(T)
  BY <1>2, FS_Subset
<1>4. Cap \in Nat
  BY ChatClientAssumption
<1>5. ASSUME NEW d \in seen \ Capped(seen)
      PROVE  Cardinality(seen) > Cap
  <2> DEFINE T == { x \in seen : x >= d }
  <2>1. ~ (Cardinality(T) <= Cap)
    BY <1>5 DEF Capped
  <2>2. T \in SUBSET seen /\ seen \in SUBSET seen
    OBVIOUS
  <2> HIDE DEF T
  <2>3. Cardinality(T) <= Cardinality(seen) /\ Cardinality(T) \in Nat /\ Cardinality(seen) \in Nat
    BY <2>2, <1>2, <1>3
  <2> QED BY <2>1, <2>3, <1>4
<1>6. ASSUME NEW d \in Capped(seen), NEW e \in seen, d <= e
      PROVE  e \in Capped(seen)
  <2> DEFINE T == { x \in seen : x >= d }
             U == { x \in seen : x >= e }
  <2>1. d \in seen /\ d \in Nat /\ e \in Nat /\ \A x \in seen : x \in Nat
    BY DEF Capped
  <2>2. U \in SUBSET T /\ T \in SUBSET seen /\ U \in SUBSET seen
    <3>1. \A x \in U : x \in T
      BY <2>1, <1>6
    <3> QED BY <3>1
  <2>3. Cardinality(T) <= Cap
    BY DEF Capped
  <2> HIDE DEF T
  <2>4. Cardinality(U) <= Cardinality(T) /\ Cardinality(T) \in Nat /\ Cardinality(U) \in Nat
    BY <2>2, <1>2, <1>3
  <2>5. Cardinality(U) <= Cap
    BY <2>3, <2>4, <1>4
  <2> QED BY <2>5 DEF Capped
<1> QED BY <1>5, <1>6 DEF Capped

(* A set of events that holds more than one that overflows does too.       *)
LEMMA MoreEvents ==
  ASSUME NEW n \in Nat, NEW T \in SUBSET (1 .. n), NEW U \in SUBSET T, Cardinality(U) > Cap
  PROVE  Cardinality(T) > Cap
<1>1. IsFiniteSet(T)
  <2>1. IsFiniteSet(1 .. n)
    BY FS_Interval
  <2> QED BY <2>1, FS_Subset
<1>2. /\ Cardinality(U) <= Cardinality(T)
      /\ Cardinality(T) \in Nat /\ Cardinality(U) \in Nat
  BY <1>1, FS_Subset, FS_CardinalityType
<1> QED BY <1>2, ChatClientAssumption

(* The sessions that the project already had, in some order.               *)
LEMMA OldIsListed ==
  /\ SetToSeq(Old) \in Seq(Old)
  /\ Len(SetToSeq(Old)) = Cardinality(Old) /\ Cardinality(Old) \in Nat
<1>1. ExistsBijection(1 .. Cardinality(Old), Old) /\ Cardinality(Old) \in Nat
  BY ChatClientAssumption, FS_CardinalityType
<1>2. \E f \in [1 .. Cardinality(Old) -> Old] : IsInjective(f)
  BY <1>1 DEF ExistsBijection, Bijection, Injection, IsInjective
<1> DEFINE g == SetToSeq(Old)
<1>3. g \in [1 .. Cardinality(Old) -> Old]
  BY <1>2 DEF SetToSeq
<1> HIDE DEF g
<1>4. g \in Seq(Old) /\ Len(g) = Cardinality(Old)
  BY <1>1, <1>3
<1> QED BY <1>1, <1>4 DEF g
-----------------------------------------------------------------------------
(* The entries of conversations.                                           *)
EntryMaps == [Ids -> {None} \cup Entries]

(* An entry is none of the marks for no entry, and its fields can be set.  *)
LEMMA EntryTypes ==
  /\ \A e \in Entries : e # None /\ e.status \in Status /\ e.events \in SUBSET Nat
  /\ NewEntry \in Entries /\ NewEntry.events = {} /\ NewEntry.status = "idle"
  /\ \A e \in Entries, st \in Status :
       /\ [e EXCEPT !.status = st] \in Entries
       /\ [e EXCEPT !.status = st].events = e.events
       /\ [e EXCEPT !.status = st].status = st
<1>1. \A e \in Entries : e # None /\ e.status \in Status /\ e.events \in SUBSET Nat
  BY ChatClientAssumption DEF Entries
<1>2. NewEntry \in Entries /\ NewEntry.events = {} /\ NewEntry.status = "idle"
  BY DEF NewEntry, Entry, Entries, Status
<1>3. ASSUME NEW e \in Entries, NEW st \in Status
      PROVE  /\ [e EXCEPT !.status = st] \in Entries
             /\ [e EXCEPT !.status = st].events = e.events
             /\ [e EXCEPT !.status = st].status = st
  BY DEF Entries
<1> QED BY <1>1, <1>2, <1>3

(* ensureSessionEntry adds an entry where there is none.                   *)
LEMMA EnsuredEntry ==
  ASSUME NEW entries \in EntryMaps, NEW c \in Ids
  PROVE  LET new == Ensured(entries, c)
         IN  /\ new \in EntryMaps /\ new[c] # None
             /\ entries[c] # None => new[c] = entries[c]
             /\ entries[c] = None => new[c].events = {} /\ new[c].status = "idle"
             /\ \A d \in Ids \ {c} : new[d] = entries[d]
<1>1. CASE entries[c] = None
  BY <1>1, EntryTypes DEF Ensured, EntryMaps
<1>2. CASE entries[c] # None
  BY <1>2 DEF Ensured, EntryMaps
<1> QED BY <1>1, <1>2

(* upsertSessionMeta gives an entry its status.                            *)
LEMMA UpsertedEntry ==
  ASSUME NEW entries \in EntryMaps, NEW c \in Ids, NEW st \in Status
  PROVE  LET new == Upserted(entries, c, st)
         IN  /\ new \in EntryMaps /\ new[c] # None /\ new[c].status = st
             /\ entries[c] # None => new[c].events = entries[c].events
             /\ entries[c] = None => new[c].events = {}
             /\ \A d \in Ids \ {c} : new[d] = entries[d]
<1> DEFINE old == Ensured(entries, c)
           new == Upserted(entries, c, st)
<1>1. /\ old \in EntryMaps /\ old[c] # None
      /\ entries[c] # None => old[c] = entries[c]
      /\ entries[c] = None => old[c].events = {} /\ old[c].status = "idle"
      /\ \A d \in Ids \ {c} : old[d] = entries[d]
  BY EnsuredEntry
<1>2. old[c] \in Entries
  BY <1>1 DEF EntryMaps
<1>3. new = [old EXCEPT ![c] = [old[c] EXCEPT !.status = st]]
  BY <1>1 DEF Upserted, EntryMaps
<1> HIDE DEF old, new
<1>4. /\ new \in EntryMaps /\ new[c] = [old[c] EXCEPT !.status = st]
      /\ \A d \in Ids \ {c} : new[d] = old[d]
  BY <1>1, <1>2, <1>3, EntryTypes DEF EntryMaps
<1>5. new[c] # None /\ new[c].status = st /\ new[c].events = old[c].events
  BY <1>2, <1>4, EntryTypes
<1> QED BY <1>1, <1>4, <1>5 DEF new

(* migrateSessionId moves the entry.                                       *)
LEMMA MigratedEntry ==
  ASSUME NEW entries \in EntryMaps, NEW c \in Ids, NEW s \in Ids \ {c}
  PROVE  LET new == Migrated(entries, c, s)
         IN  /\ new \in EntryMaps /\ new[c] = None /\ new[s] # None
             /\ entries[s] # None => new[s].events = entries[s].events
             /\ entries[s] = None /\ entries[c] # None => new[s].events = entries[c].events
             /\ entries[s] = None /\ entries[c] = None => new[s].events = {}
             /\ \A d \in Ids \ {c, s} : new[d] = entries[d]
<1>1. Entry("running", {}) \in Entries /\ Entry("running", {}).events = {}
  BY DEF Entry, Entries, Status
<1> QED BY <1>1, EntryTypes DEF Migrated, EntryMaps
-----------------------------------------------------------------------------
(* Event sources.                                                          *)
(* A source that is closed.                                                *)
LEMMA ClosedSource ==
  ASSUME NEW list \in Seq(Sources), NEW k \in Nat, k # 0 => k \in DOMAIN list
  PROVE  LET new == Closed(list, k)
         IN  /\ new \in Seq(Sources) /\ DOMAIN new = DOMAIN list /\ Len(new) = Len(list)
             /\ \A j \in DOMAIN list : j # k => new[j] = list[j]
             /\ \A j \in DOMAIN list : new[j].session = list[j].session
             /\ k # 0 => new[k].state = "closed" /\ new[k].coming = {}
<1> DEFINE new == Closed(list, k)
<1>1. CASE k = 0
  BY <1>1 DEF Closed
<1>2. CASE k # 0
  <2> DEFINE one == [list[k] EXCEPT !.state = "closed", !.coming = {}]
  <2>1. DOMAIN list = 1 .. Len(list) /\ \A j \in DOMAIN list : list[j] \in Sources
    OBVIOUS
  <2>2. /\ one \in Sources /\ one.session = list[k].session
        /\ one.state = "closed" /\ one.coming = {}
    BY <1>2, <2>1 DEF Sources, States
  <2>3. new = [list EXCEPT ![k] = one]
    BY <1>2 DEF Closed
  <2> HIDE DEF one, new
  <2>4. new \in Seq(Sources) /\ DOMAIN new = DOMAIN list /\ Len(new) = Len(list)
    BY <1>2, <2>2, <2>3
  <2>5. new[k] = one /\ \A j \in DOMAIN list : j # k => new[j] = list[j]
    BY <1>2, <2>1, <2>3
  <2> QED BY <2>2, <2>4, <2>5 DEF new
<1> QED BY <1>1, <1>2

(* ensureSessionStream registers a source for a session without.           *)
LEMMA EnsuredStream ==
  ASSUME NEW s \in Ids, NEW register \in [Ids -> Nat], NEW list \in Seq(Sources),
         EnsuresStream(s, register, list)
  PROVE  /\ registered' \in [Ids -> Nat] /\ sources' \in Seq(Sources)
         /\ register[s] # 0 => registered' = register /\ sources' = list
         /\ register[s] = 0 =>
              /\ Len(sources') = Len(list) + 1 /\ DOMAIN sources' = 1 .. Len(list) + 1
              /\ \A j \in DOMAIN list : sources'[j] = list[j]
              /\ sources'[Len(list) + 1] =
                   [session |-> s, state |-> "connecting", coming |-> {}]
              /\ registered'[s] = Len(list) + 1
              /\ \A d \in Ids \ {s} : registered'[d] = register[d]
<1>1. CASE register[s] # 0
  BY <1>1 DEF EnsuresStream
<1>2. CASE register[s] = 0
  <2> DEFINE one == [session |-> s, state |-> "connecting", coming |-> {}]
  <2>1. one \in Sources
    BY DEF Sources, States
  <2>2. sources' = Append(list, one) /\ registered' = [register EXCEPT ![s] = Len(list) + 1]
    BY <1>2 DEF EnsuresStream
  <2> HIDE DEF one
  <2>3. /\ sources' \in Seq(Sources) /\ Len(sources') = Len(list) + 1
        /\ \A j \in 1 .. Len(list) : sources'[j] = list[j]
        /\ sources'[Len(list) + 1] = one
    BY <2>1, <2>2, AppendProperties
  <2>4. DOMAIN sources' = 1 .. Len(list) + 1 /\ DOMAIN list = 1 .. Len(list) /\ Len(list) \in Nat
    BY <2>3
  <2> QED BY <1>2, <2>2, <2>3, <2>4 DEF one
<1> QED BY <1>1, <1>2
-----------------------------------------------------------------------------
(* The first states.                                                       *)
LEMMA FirstPage == PageInit => PageInv
<1> SUFFICES ASSUME PageInit PROVE PageInv
  OBVIOUS
<1> USE DEF PageInit
<1>1. /\ created \in Seq(Old) /\ Len(created) = Cardinality(Old) /\ Cardinality(Old) \in Nat
      /\ Old \cap Sessions = {} /\ Old \subseteq Ids
  BY OldIsListed, ChatClientAssumption DEF Ids
<1>2. \A s \in Sessions : ~Contains(created, s)
  BY <1>1, ElementsIn
<1>3. PageTypeOK
  <2>1. PICK mix \in Mixes : page = mix.page /\ left = mix.left
    OBVIOUS
  <2>2. page \in {"chat", "project"} /\ left \in [Kind -> Nat]
    BY <2>1, ChatClientAssumption
  <2>3. /\ traces \in [Ids -> {None} \cup Entries]
        /\ loading \in [stage : {"reading", "read", "over"}, list : Seq(Sessions \cup Old)]
        /\ registered \in [Ids -> Nat] /\ sources \in Seq(Sources)
        /\ root \in [Ids -> Ids]
    OBVIOUS
  <2>4. created \in Seq(Sessions \cup Old)
    BY <1>1
  <2>5. events \in Seq([session : Sessions \cup Old, kind : Kinds])
    <3>1. \A e \in 1 .. Cardinality(Old) : created[e] \in Old
      BY <1>1
    <3>2. "completed" \in Kinds
      BY DEF Kinds
    <3> DEFINE one(e) == [session |-> created[e], kind |-> "completed"]
    <3>3. \A e \in 1 .. Cardinality(Old) : one(e) \in [session : Sessions \cup Old, kind : Kinds]
      BY <3>1, <3>2
    <3>4. events = [e \in 1 .. Cardinality(Old) |-> one(e)]
      OBVIOUS
    <3> HIDE DEF one, PageInit
    <3>5. events \in [1 .. Cardinality(Old) -> [session : Sessions \cup Old, kind : Kinds]]
      BY <3>3, <3>4, Zenon
    <3>6. \A R : [1 .. Cardinality(Old) -> R] \subseteq Seq(R)
      BY <1>1
    <3> QED BY <3>5, <3>6, Zenon
  <2>6. {active, syncing, renaming} \subseteq Ids \cup {None} /\ pending \in Questions \cup {None}
    OBVIOUS
  <2>7. mounted \in BOOLEAN /\ follow \in BOOLEAN /\ abandoned \in BOOLEAN
    BY Zenon
  <2>8. order = <<>> /\ messages = <<>> /\ <<>> \in Seq(Ids) /\ <<>> \in Seq(Sayings)
    OBVIOUS
  <2>9. /\ gone \subseteq Ids /\ brought \subseteq Ids /\ split \subseteq Ids /\ late \subseteq Ids
    OBVIOUS
  <2> HIDE DEF PageInit
  <2> QED
    BY <2>2, <2>3, <2>4, <2>5, <2>6, <2>7, <2>8, <2>9 DEF PageTypeOK, Happenings, Loadings
<1>4. order = <<>> /\ messages = <<>> /\ sources = <<>> /\ loading.list = <<>>
  OBVIOUS
<1>5. \A x : ~Contains(<<>>, x)
  BY DEF Contains
<1>6. DOMAIN messages = {} /\ DOMAIN sources = {} /\ Open = {}
  BY <1>4 DEF Open
<1>7. \A c \in Ids : c # None
  BY ChatClientAssumption DEF Ids
<1>8. \A c \in Ids : ~Talks(c)
  BY <1>4, <1>5, <1>6, <1>7 DEF Talks, Speaks
<1>9. Existing
  <2>1. \A e \in DOMAIN events : Contains(created, events[e].session)
    BY <1>1 DEF Contains
  <2> QED BY <2>1, <1>4, <1>5, <1>6, <1>7, <1>8 DEF Existing, Exists
<1>10. Rooted
  BY <1>6, <1>8 DEF Rooted, Coming
<1>11. Together /\ Placed
  BY <1>8 DEF Together, Placed
<1>12. Sourced
  <2>1. \A s \in Ids : root[s] = s
    OBVIOUS
  <2> QED BY <2>1, <1>6 DEF Sourced, Ids
<1>13. Chatting
  BY <1>4, <1>5, <1>6, <1>7 DEF Chatting, Coming
<1>14. Told /\ TellsOnce
  BY <1>6 DEF Told, TellsOnce
<1>15. StatusIsTheLastWord
  BY DEF StatusIsTheLastWord, Ids
<1> QED BY <1>3, <1>9, <1>10, <1>11, <1>12, <1>13, <1>14, <1>15 DEF PageInv
-----------------------------------------------------------------------------
(* What the steps need to know of the types.                               *)
LEMMA PageTypes ==
  ASSUME PageTypeOK
  PROVE  /\ None \notin Ids /\ Local \subseteq Ids /\ Sessions \cup Old \subseteq Ids
         /\ Local \cap Sessions = {} /\ Local \cap Old = {} /\ Sessions \cap Old = {}
         /\ traces \in EntryMaps
         /\ DOMAIN messages = 1 .. Len(messages) /\ DOMAIN sources = 1 .. Len(sources)
         /\ DOMAIN events = 1 .. Len(events) /\ DOMAIN order = 1 .. Len(order)
         /\ Len(messages) \in Nat /\ Len(sources) \in Nat /\ Len(events) \in Nat
         /\ \A m \in DOMAIN messages :
              /\ messages[m].conv \in Ids /\ messages[m].thread \in Ids
              /\ messages[m].about[1] \in Words /\ messages[m].about[2] \in Nat
              /\ messages[m].about = <<messages[m].about[1], messages[m].about[2]>>
         /\ \A k \in DOMAIN sources :
              /\ sources[k].session \in Ids /\ sources[k].state \in States
              /\ sources[k].coming \in SUBSET Nat
         /\ \A e \in DOMAIN events :
              events[e].session \in Sessions \cup Old /\ events[e].kind \in Kinds
         /\ pending # None =>
              /\ pending.conv \in Ids /\ pending.thread \in Ids /\ pending.no \in Nat
              /\ pending.session \in Sessions \cup {None}
         /\ loading.list \in Seq(Sessions \cup Old)
         /\ loading.stage \in {"reading", "read", "over"}
<1> USE DEF PageTypeOK
<1>1. /\ None \notin Ids /\ Local \subseteq Ids /\ Sessions \cup Old \subseteq Ids
      /\ Local \cap Sessions = {} /\ Local \cap Old = {} /\ Sessions \cap Old = {}
  BY ChatClientAssumption DEF Ids
<1>2. traces \in EntryMaps
  BY DEF EntryMaps
<1>3. /\ DOMAIN messages = 1 .. Len(messages) /\ DOMAIN sources = 1 .. Len(sources)
      /\ DOMAIN events = 1 .. Len(events) /\ DOMAIN order = 1 .. Len(order)
      /\ Len(messages) \in Nat /\ Len(sources) \in Nat /\ Len(events) \in Nat
  OBVIOUS
<1>4. /\ \A m \in DOMAIN messages : messages[m] \in Sayings
      /\ \A k \in DOMAIN sources : sources[k] \in Sources
      /\ \A e \in DOMAIN events : events[e] \in Happenings
  OBVIOUS
<1>5. ASSUME NEW m \in Sayings
      PROVE  /\ m.conv \in Ids /\ m.thread \in Ids
             /\ m.about[1] \in Words /\ m.about[2] \in Nat
             /\ m.about = <<m.about[1], m.about[2]>>
  <2>1. m.conv \in Ids /\ m.thread \in Ids /\ m.about \in Words \X Nat
    BY DEF Sayings
  <2> QED BY <2>1
<1>6. \A k \in Sources : k.session \in Ids /\ k.state \in States /\ k.coming \in SUBSET Nat
  BY DEF Sources
<1>7. \A e \in Happenings : e.session \in Sessions \cup Old /\ e.kind \in Kinds
  BY DEF Happenings
<1>8. \A p \in Questions : /\ p.conv \in Ids /\ p.thread \in Ids /\ p.no \in Nat
                           /\ p.session \in Sessions \cup {None}
  BY DEF Questions
<1>9. /\ loading.list \in Seq(Sessions \cup Old)
      /\ loading.stage \in {"reading", "read", "over"}
  BY DEF Loadings
<1> QED BY <1>1, <1>2, <1>3, <1>4, <1>5, <1>6, <1>7, <1>8, <1>9

(* A record of bounds, one less.                                           *)
LEMMA FewerLeft ==
  ASSUME PageTypeOK, NEW kind \in Kind, Counts(kind)
  PROVE  left' \in [Kind -> Nat] /\ left[kind] \in Nat
BY DEF Counts, PageTypeOK

(* What the user does keeps the types.                                     *)
LEMMA UserTypes ==
  ASSUME PageInv, User
  PROVE  PageTypeOK'
<1> USE DEF viewVars, askVars, sourceVars, serverVars, history
<1>0. PageTypeOK
  BY DEF PageInv
<1>1. ASSUME NEW c \in Local, CreateLocalSession(c) PROVE PageTypeOK'
  <2>1. c \in Ids /\ traces \in EntryMaps
    BY <1>0, PageTypes
  <2>2. traces' \in EntryMaps
    BY <1>1, <2>1, EnsuredEntry DEF CreateLocalSession
  <2>3. order' \in Seq(Ids)
    BY <1>0, <1>1, <2>1, ConsElements DEF CreateLocalSession, PageTypeOK
  <2>4. left' \in [Kind -> Nat]
    BY <1>0, <1>1, FewerLeft DEF CreateLocalSession, Kind
  <2> QED BY <1>0, <1>1, <2>1, <2>2, <2>3, <2>4 DEF CreateLocalSession, PageTypeOK, EntryMaps
<1>2. ASSUME NEW c \in Ids, SelectSession(c) PROVE PageTypeOK'
  BY <1>0, <1>2 DEF SelectSession, PageTypeOK
<1>3. ASSUME NEW c \in Ids, DeleteSession(c) PROVE PageTypeOK'
  <2>1. /\ Without(order, {c}) \in Seq(Ids)
        /\ Without(order, {c}) # <<>> => Without(order, {c})[1] \in Ids
    BY <1>0, WithoutElements, FirstElement DEF PageTypeOK
  <2>2. Without(messages, Said(c)) \in Seq(Sayings)
    BY <1>0, WithoutElements DEF PageTypeOK
  <2>3. traces' \in [Ids -> {None} \cup Entries] /\ registered' \in [Ids -> Nat]
    BY <1>0, <1>3 DEF DeleteSession, PageTypeOK
  <2>4. sources' \in Seq(Sources)
    <3>1. registered[c] \in Nat /\ (registered[c] # 0 => registered[c] \in DOMAIN sources)
      BY <1>0 DEF PageInv, Sourced, PageTypeOK
    <3> QED BY <1>0, <1>3, <3>1, ClosedSource DEF DeleteSession, PageTypeOK
  <2>5. order' \in Seq(Ids) /\ messages' \in Seq(Sayings) /\ active' \in Ids \cup {None}
    BY <1>0, <1>3, <2>1, <2>2 DEF DeleteSession, PageTypeOK
  <2>6. gone' \subseteq Ids
    BY <1>0, <1>3 DEF DeleteSession, PageTypeOK
  <2> QED BY <1>0, <1>3, <2>3, <2>4, <2>5, <2>6 DEF DeleteSession, PageTypeOK
<1>4. ASSUME NEW c \in Ids, CommitRename(c) PROVE PageTypeOK'
  <2>1. left' \in [Kind -> Nat]
    BY <1>0, <1>4, FewerLeft DEF CommitRename, Kind
  <2> QED BY <1>0, <1>4, <2>1 DEF CommitRename, PageTypeOK
<1>5. ASSUME ToggleFollow PROVE PageTypeOK'
  <2>1. left' \in [Kind -> Nat]
    BY <1>0, <1>5, FewerLeft DEF ToggleFollow, Kind
  <2>2. follow' \in BOOLEAN
    BY <1>5 DEF ToggleFollow
  <2> QED BY <1>0, <1>5, <2>1, <2>2 DEF ToggleFollow, PageTypeOK
<1>6. ASSUME Submit PROVE PageTypeOK'
  <2>1. left' \in [Kind -> Nat] /\ left["question"] \in Nat
    BY <1>0, <1>6, FewerLeft DEF Submit, Kind
  <2>2. active \in Ids /\ root[active] \in Ids /\ left.question = left["question"]
    BY <1>0, <1>6 DEF Submit, PageTypeOK
  <2>3. pending' \in Questions
    BY <1>6, <2>1, <2>2 DEF Submit, Questions
  <2>4. messages' \in Seq(Sayings)
    <3>1. [conv |-> active, thread |-> root[active],
           about |-> <<"question", left.question>>] \in Sayings
      BY <2>1, <2>2 DEF Sayings, Words
    <3> QED BY <1>0, <1>6, <3>1 DEF Submit, PageTypeOK
  <2> QED BY <1>0, <1>6, <2>1, <2>3, <2>4 DEF Submit, PageTypeOK
<1>7. ASSUME SyncScmFeedback PROVE PageTypeOK'
  <2>1. left' \in [Kind -> Nat]
    BY <1>0, <1>7, FewerLeft DEF SyncScmFeedback, Kind
  <2> QED BY <1>0, <1>7, <2>1 DEF SyncScmFeedback, PageTypeOK
<1>8. ASSUME LeavePage PROVE PageTypeOK'
  <2>1. sources' \in Seq(Sources)
    <3>1. \A k \in DOMAIN sources : sources[k] \in Sources
      BY <1>0 DEF PageTypeOK
    <3>2. \A k \in DOMAIN sources : [sources[k] EXCEPT !.state = "closed", !.coming = {}] \in Sources
      BY <3>1 DEF Sources, States
    <3>3. DOMAIN sources = 1 .. Len(sources) /\ Len(sources) \in Nat
      BY <1>0 DEF PageTypeOK
    <3>4. sources' \in [1 .. Len(sources) -> Sources]
      BY <1>8, <3>1, <3>2, <3>3 DEF LeavePage
    <3> QED BY <3>3, <3>4
  <2>2. loading' \in Loadings
    BY <1>0, <1>8 DEF LeavePage, PageTypeOK, Loadings
  <2>3. traces' \in [Ids -> {None} \cup Entries] /\ registered' \in [Ids -> Nat]
    BY <1>8 DEF LeavePage
  <2>4. mounted' \in BOOLEAN /\ abandoned' \in BOOLEAN
    <3>1. abandoned' = TRUE \/ abandoned' = FALSE
      BY <1>8, Zenon DEF LeavePage
    <3>2. mounted' = FALSE
      BY <1>8 DEF LeavePage
    <3> QED BY <3>1, <3>2
  <2>5. order' \in Seq(Ids) /\ messages' \in Seq(Sayings)
    <3>1. <<>> \in Seq(Ids) /\ <<>> \in Seq(Sayings)
      OBVIOUS
    <3> QED BY <1>8, <3>1 DEF LeavePage
  <2> QED BY <1>0, <1>8, <2>1, <2>2, <2>3, <2>4, <2>5 DEF LeavePage, PageTypeOK
<1> QED BY <1>1, <1>2, <1>3, <1>4, <1>5, <1>6, <1>7, <1>8 DEF User

(* What the server does.                                                   *)
LEMMA ServerTypes ==
  ASSUME PageInv, ServerActs
  PROVE  PageTypeOK'
<1> USE DEF viewVars, askVars, sourceVars, serverVars, history
<1>0. PageTypeOK
  BY DEF PageInv
<1>1. ASSUME NEW s \in Sessions, CreateSession(s) PROVE PageTypeOK'
  <2>1. created' \in Seq(Sessions \cup Old)
    BY <1>0, <1>1, ConsElements DEF CreateSession, PageTypeOK
  <2>2. pending' \in Questions
    BY <1>0, <1>1 DEF CreateSession, PageTypeOK, Questions
  <2> QED BY <1>0, <1>1, <2>1, <2>2 DEF CreateSession, PageTypeOK
<1>2. ASSUME NEW s \in Sessions \cup Old, NEW kind \in Kinds, Emit(s, kind) PROVE PageTypeOK'
  <2>1. events' \in Seq(Happenings) /\ Len(events') \in Nat
    <3>1. [session |-> s, kind |-> kind] \in Happenings
      BY DEF Happenings
    <3> QED BY <1>0, <1>2, <3>1 DEF Emit, PageTypeOK
  <2>2. sources' \in Seq(Sources)
    <3>1. \A k \in DOMAIN sources : sources[k] \in Sources
      BY <1>0 DEF PageTypeOK
    <3>2. \A k \in DOMAIN sources :
            [sources[k] EXCEPT !.coming = @ \cup {Len(events')}] \in Sources
      BY <3>1, <2>1 DEF Sources
    <3>3. DOMAIN sources = 1 .. Len(sources) /\ Len(sources) \in Nat
      BY <1>0 DEF PageTypeOK
    <3>4. sources' \in [1 .. Len(sources) -> Sources]
      BY <1>2, <3>1, <3>2, <3>3 DEF Emit
    <3> QED BY <3>3, <3>4
  <2>3. left' \in [Kind -> Nat]
    BY <1>0, <1>2, FewerLeft DEF Emit, Kind
  <2> QED BY <1>0, <1>2, <2>1, <2>2, <2>3 DEF Emit, PageTypeOK
<1>3. ASSUME NEW k \in DOMAIN sources, NEW state \in States, NEW coming \in SUBSET Nat,
             SourceBecomes(k, state, coming), left' \in [Kind -> Nat]
      PROVE  PageTypeOK'
  <2>1. sources' \in Seq(Sources)
    <3>1. sources[k] \in Sources
      BY <1>0 DEF PageTypeOK
    <3> DEFINE one == [sources[k] EXCEPT !.state = state, !.coming = coming]
    <3>2. one \in Sources
      BY <3>1 DEF Sources
    <3>3. sources' = [sources EXCEPT ![k] = one]
      BY <1>3 DEF SourceBecomes
    <3> HIDE DEF one
    <3> QED BY <1>0, <3>2, <3>3 DEF PageTypeOK
  <2> QED BY <1>0, <1>3, <2>1 DEF SourceBecomes, PageTypeOK
<1>4. ASSUME NEW k \in DOMAIN sources, ListStream(k) PROVE PageTypeOK'
  <2>1. EventsOf(sources[k].session) \in SUBSET Nat
    BY <1>0, PageTypes DEF EventsOf
  <2> QED BY <1>0, <1>3, <1>4, <2>1 DEF ListStream, States, PageTypeOK
<1>5. ASSUME NEW k \in DOMAIN sources, SubscribeStream(k) PROVE PageTypeOK'
  BY <1>0, <1>3, <1>5, PageTypes DEF SubscribeStream, States, PageTypeOK
<1>6. ASSUME NEW k \in DOMAIN sources, RefuseStream(k) PROVE PageTypeOK'
  <2>1. "refused" \in States /\ {} \in SUBSET Nat /\ left' \in [Kind -> Nat]
    BY <1>0, <1>6 DEF RefuseStream, States, PageTypeOK
  <2> QED BY <1>3, <1>6, <2>1 DEF RefuseStream
<1>7. ASSUME NEW k \in DOMAIN sources, DropStream(k) PROVE PageTypeOK'
  <2>1. left' \in [Kind -> Nat]
    BY <1>0, <1>7, FewerLeft DEF DropStream, Kind
  <2> QED BY <1>3, <1>7, <2>1 DEF DropStream, States
<1> QED BY <1>1, <1>2, <1>4, <1>5, <1>6, <1>7 DEF ServerActs

(* What an event changes: Deliver, of a source of the session s.           *)
LEMMA DeliveredEvent ==
  ASSUME PageInv, NEW k \in DOMAIN sources, Deliver(k)
  PROVE  LET s == sources[k].session
             e == Min(sources[k].coming)
         IN  /\ s \in Ids /\ e \in sources[k].coming /\ e \in EventsOf(s)
             /\ \A d \in sources[k].coming : e <= d
             /\ sources' \in Seq(Sources) /\ DOMAIN sources' = DOMAIN sources
             /\ sources'[k].coming = sources[k].coming \ {e}
             /\ \A j \in DOMAIN sources :
                  /\ j # k => sources'[j] = sources[j]
                  /\ sources'[j].session = sources[j].session
                  /\ sources'[j].state = sources[j].state
                  /\ sources'[j].coming \subseteq sources[j].coming
             /\ ~IsNews(s, e) => UNCHANGED <<traces, messages, late>>
             /\ IsNews(s, e) =>
                  /\ traces' \in EntryMaps
                  /\ traces[s] # None /\ traces'[s] # None
                  /\ traces'[s].status = StatusFromEvent(events[e].kind, traces[s].status)
                  /\ traces'[s].events = Capped(traces[s].events \cup {e})
                  /\ \A c \in Ids \ {s} : traces'[c] = traces[c]
                  /\ messages' = messages \o Tellings(s, e)
                  /\ late' = IF \E d \in traces[s].events \cap EventsOf(s) : d > e
                             THEN late \cup {s} ELSE late
<1> DEFINE s == sources[k].session
           e == Min(sources[k].coming)
<1>0. PageTypeOK
  BY DEF PageInv
<1>1. s \in Ids /\ sources[k] \in Sources /\ sources[k].coming \in SUBSET Nat
  <2>1. sources[k] \in Sources
    BY <1>0 DEF PageTypeOK
  <2> QED BY <2>1 DEF Sources
<1>2. e \in sources[k].coming /\ \A d \in sources[k].coming : e <= d
  BY <1>1, MinIsLeast DEF Deliver
<1>3. e \in EventsOf(s)
  BY <1>2 DEF PageInv, Sourced
<1> DEFINE one == [sources[k] EXCEPT !.coming = @ \ {e}]
<1>4. /\ one \in Sources /\ one.session = s /\ one.state = sources[k].state
      /\ one.coming = sources[k].coming \ {e}
  BY <1>1 DEF Sources
<1>5. sources' = [sources EXCEPT ![k] = one]
  BY DEF Deliver
<1>6. /\ sources' \in Seq(Sources) /\ DOMAIN sources' = DOMAIN sources
      /\ sources'[k] = one /\ \A j \in DOMAIN sources : j # k => sources'[j] = sources[j]
  <2> HIDE DEF one
  <2> QED BY <1>0, <1>4, <1>5 DEF PageTypeOK
<1>7. ~IsNews(s, e) => UNCHANGED <<traces, messages, late>>
  BY DEF Deliver
<1>8. ASSUME IsNews(s, e)
      PROVE  /\ traces' \in EntryMaps
             /\ traces[s] # None /\ traces'[s] # None
             /\ traces'[s].status = StatusFromEvent(events[e].kind, traces[s].status)
             /\ traces'[s].events = Capped(traces[s].events \cup {e})
             /\ \A c \in Ids \ {s} : traces'[c] = traces[c]
             /\ messages' = messages \o Tellings(s, e)
             /\ late' = IF \E d \in traces[s].events \cap EventsOf(s) : d > e
                        THEN late \cup {s} ELSE late
  <2>1. traces[s] \in Entries /\ traces \in EntryMaps
    BY <1>0, <1>1, <1>8 DEF PageTypeOK, IsNews, EntryMaps
  <2> DEFINE new == [traces[s] EXCEPT !.status = StatusFromEvent(events[e].kind, @),
                                      !.events = Capped(@ \cup {e})]
  <2>2. /\ StatusFromEvent(events[e].kind, traces[s].status) \in Status
        /\ Capped(traces[s].events \cup {e}) \in SUBSET Nat
    <3>1. traces[s].events \in SUBSET Nat /\ traces[s].status \in Status /\ e \in Nat
      BY <2>1, <1>1, <1>2, EntryTypes
    <3>2. Capped(traces[s].events \cup {e}) \subseteq traces[s].events \cup {e}
      BY DEF Capped
    <3> QED BY <3>1, <3>2 DEF StatusFromEvent, Status
  <2>3. /\ new \in Entries
        /\ new.status = StatusFromEvent(events[e].kind, traces[s].status)
        /\ new.events = Capped(traces[s].events \cup {e})
    BY <2>1, <2>2 DEF Entries
  <2>4. /\ traces' = [traces EXCEPT ![s] = new]
        /\ messages' = messages \o Tellings(s, e)
        /\ late' = IF \E d \in traces[s].events \cap EventsOf(s) : d > e
                   THEN late \cup {s} ELSE late
    BY <1>8 DEF Deliver
  <2> HIDE DEF new
  <2>5. /\ traces' \in EntryMaps /\ traces'[s] = new
        /\ \A c \in Ids \ {s} : traces'[c] = traces[c]
    BY <1>1, <2>1, <2>3, <2>4 DEF EntryMaps
  <2>6. new # None /\ traces[s] # None
    BY <2>1, <2>3, EntryTypes
  <2> QED BY <2>3, <2>4, <2>5, <2>6
<1> HIDE DEF s, e, one
<1>9. \A j \in DOMAIN sources : /\ sources'[j].session = sources[j].session
                                /\ sources'[j].state = sources[j].state
                                /\ sources'[j].coming \subseteq sources[j].coming
  BY <1>4, <1>6 DEF s
<1> QED BY <1>1, <1>2, <1>3, <1>4, <1>6, <1>7, <1>8, <1>9 DEF s, e

(* An event that comes keeps the types.                                    *)
LEMMA DeliverTypes ==
  ASSUME PageInv, NEW k \in DOMAIN sources, Deliver(k)
  PROVE  PageTypeOK'
<1> DEFINE s == sources[k].session
           e == Min(sources[k].coming)
<1>0. PageTypeOK
  BY DEF PageInv
<1>1. /\ s \in Ids /\ e \in EventsOf(s) /\ sources' \in Seq(Sources)
      /\ ~IsNews(s, e) => UNCHANGED <<traces, messages, late>>
      /\ IsNews(s, e) =>
           /\ traces' \in EntryMaps
           /\ messages' = messages \o Tellings(s, e)
           /\ late' = late \/ late' = late \cup {s}
  BY DeliveredEvent
<1> HIDE DEF s, e
<1>2. Tellings(s, e) \in Seq(Sayings)
  <2>1. e \in Nat /\ root[s] \in Ids
    <3>1. root \in [Ids -> Ids]
      BY <1>0 DEF PageTypeOK
    <3>2. DOMAIN events = 1 .. Len(events) /\ Len(events) \in Nat
      BY <1>0, PageTypes
    <3>3. e \in DOMAIN events
      BY <1>1 DEF EventsOf
    <3>4. e \in Nat
      BY <3>2, <3>3
    <3> QED BY <1>1, <3>1, <3>4
  <2>2. [conv |-> s, thread |-> root[s], about |-> <<"event", e>>] \in Sayings
    BY <2>1, <1>1 DEF Sayings, Words
  <2> QED BY <2>2 DEF Tellings
<1>3. messages' \in Seq(Sayings)
  <2>1. messages \in Seq(Sayings)
    BY <1>0 DEF PageTypeOK
  <2>2. messages \o Tellings(s, e) \in Seq(Sayings)
    BY <2>1, <1>2, ConcatProperties
  <2>3. messages' = messages \/ messages' = messages \o Tellings(s, e)
    BY <1>1
  <2> QED BY <2>1, <2>2, <2>3
<1>4. traces' \in [Ids -> {None} \cup Entries] /\ late' \subseteq Ids
  BY <1>0, <1>1 DEF PageTypeOK, EntryMaps
<1>5. UNCHANGED <<page, mounted, order, active, follow, askVars, registered, serverVars,
                  left, root, gone, brought, split, abandoned>>
  BY DEF Deliver
<1> QED BY <1>0, <1>1, <1>3, <1>4, <1>5 DEF PageTypeOK, askVars, serverVars

(* An answer, of the API or of loadProject's requests, keeps the types.    *)
LEMMA AnswerTypes ==
  ASSUME PageInv, Answers
  PROVE  PageTypeOK'
<1> USE DEF viewVars, askVars, sourceVars, serverVars, history
<1>0. PageTypeOK
  BY DEF PageInv
<1>a. /\ None \notin Ids /\ Sessions \cup Old \subseteq Ids /\ traces \in EntryMaps
      /\ pending # None =>
           /\ pending.conv \in Ids /\ pending.thread \in Ids /\ pending.no \in Nat
           /\ pending.session \in Sessions \cup {None}
      /\ registered \in [Ids -> Nat] /\ sources \in Seq(Sources)
      /\ messages \in Seq(Sayings) /\ order \in Seq(Ids)
  BY <1>0, PageTypes DEF PageTypeOK
<1>b. \A c \in Ids : registered[c] \in Nat /\ (registered[c] # 0 => registered[c] \in DOMAIN sources)
  BY <1>a DEF PageInv, Sourced
<1>c. ASSUME NEW c \in Ids, pending # None
      PROVE  Answer(c) \in Sayings
  BY <1>a, <1>c DEF Answer, Sayings, Words
<1>1. ASSUME AnswerTask PROVE PageTypeOK'
  <2> DEFINE c == pending.conv
             s == pending.session
  <2>1. pending # None /\ c \in Ids /\ s \in Ids /\ s # c /\ pending.thread \in Ids
    <3>1. pending # None /\ s # None
      BY <1>1 DEF AnswerTask
    <3>2. s \in Sessions /\ Coming(s)
      BY <3>1, <1>a DEF Coming
    <3> QED BY <3>1, <3>2, <1>a DEF PageInv, Rooted
  <2>2. /\ traces' = Upserted(Migrated(traces, c, s), s, "reported")
        /\ order' = <<s>> \o Without(order, {c, s})
        /\ messages' = Append(Relinked(messages, c, s), Answer(s))
        /\ active' = IF active = c \/ active = None \/ follow THEN s ELSE active
        /\ EnsuresStream(s, [registered EXCEPT ![c] = 0], Closed(sources, registered[c]))
        /\ root' = [root EXCEPT ![s] = pending.thread]
        /\ pending' = None /\ UNCHANGED <<syncing, renaming, loading, left>>
        /\ UNCHANGED <<page, mounted, follow, serverVars, gone, brought, split, late, abandoned>>
    BY <1>1 DEF AnswerTask, Answered
  <2> HIDE DEF c, s
  <2>3. traces' \in EntryMaps
    <3>1. Migrated(traces, c, s) \in EntryMaps
      BY <2>1, <1>a, MigratedEntry
    <3> QED BY <2>1, <2>2, <3>1, UpsertedEntry DEF Status
  <2>4. order' \in Seq(Ids)
    <3>1. Without(order, {c, s}) \in Seq(Ids)
      BY <1>a, WithoutElements
    <3> QED BY <3>1, <2>1, <2>2, ConsElements
  <2>5. messages' \in Seq(Sayings)
    <3>1. DOMAIN messages = 1 .. Len(messages) /\ Len(messages) \in Nat
      BY <1>a
    <3>2. \A m \in DOMAIN messages : messages[m] \in Sayings
      BY <1>a
    <3>3. \A m \in DOMAIN messages : [messages[m] EXCEPT !.conv = s] \in Sayings
      BY <3>2, <2>1 DEF Sayings
    <3>4. Relinked(messages, c, s) \in [1 .. Len(messages) -> Sayings]
      BY <3>1, <3>2, <3>3 DEF Relinked
    <3>5. Relinked(messages, c, s) \in Seq(Sayings)
      BY <3>1, <3>4
    <3>6. Answer(s) \in Sayings
      BY <2>1, <1>c
    <3> QED BY <3>5, <3>6, <2>2
  <2>6. registered' \in [Ids -> Nat] /\ sources' \in Seq(Sources)
    <3>1. [registered EXCEPT ![c] = 0] \in [Ids -> Nat]
      BY <1>a
    <3>2. Closed(sources, registered[c]) \in Seq(Sources)
      BY <1>a, <1>b, <2>1, ClosedSource
    <3> QED BY <3>1, <3>2, <2>1, <2>2, EnsuredStream
  <2>7. root' \in [Ids -> Ids] /\ active' \in Ids \cup {None} /\ pending' \in Questions \cup {None}
    BY <1>0, <2>1, <2>2 DEF PageTypeOK
  <2>8. UNCHANGED <<page, mounted, follow, syncing, renaming, loading, left, created, events,
                    gone, brought, split, late, abandoned>>
    BY <2>2
  <2> QED BY <1>0, <2>3, <2>4, <2>5, <2>6, <2>7, <2>8 DEF PageTypeOK, EntryMaps
<1>2. ASSUME AnswerInWords PROVE PageTypeOK'
  <2>1. pending # None /\ pending.conv \in Ids
    BY <1>2, <1>a DEF AnswerInWords
  <2>2. messages' \in Seq(Sayings)
    BY <2>1, <1>2, <1>a, <1>c DEF AnswerInWords
  <2>3. traces' \in EntryMaps
    BY <2>1, <1>2, <1>a, UpsertedEntry DEF AnswerInWords, Status
  <2> QED BY <1>0, <1>2, <2>2, <2>3 DEF AnswerInWords, Answered, PageTypeOK, EntryMaps
<1>3. ASSUME AnswerFails PROVE PageTypeOK'
  BY <1>0, <1>3 DEF AnswerFails, Answered, PageTypeOK
<1>4. ASSUME AnswerTooLate PROVE PageTypeOK'
  <2>1. registered' \in [Ids -> Nat] /\ sources' \in Seq(Sources)
    <3>1. CASE pending.session = None
      BY <1>4, <3>1, <1>a DEF AnswerTooLate
    <3>2. CASE pending.session # None
      <4>1. pending.session \in Ids /\ EnsuresStream(pending.session, registered, sources)
        BY <1>4, <3>2, <1>a DEF AnswerTooLate
      <4> QED BY <4>1, <1>a, EnsuredStream
    <3> QED BY <3>1, <3>2
  <2> QED BY <1>0, <1>4, <2>1 DEF AnswerTooLate, Answered, PageTypeOK
<1>5. ASSUME SyncBringsFeedback PROVE PageTypeOK'
  <2>1. syncing \in Ids
    <3>1. \A x : Contains(created, x) => x \in Sessions \cup Old
      BY <1>0, ElementsIn DEF PageTypeOK
    <3> QED BY <3>1, <1>5, <1>a DEF SyncBringsFeedback
  <2>2. registered' \in [Ids -> Nat] /\ sources' \in Seq(Sources)
    BY <2>1, <1>5, <1>a, EnsuredStream DEF SyncBringsFeedback
  <2>3. traces' \in EntryMaps
    BY <2>1, <1>5, <1>a, EnsuredEntry DEF SyncBringsFeedback
  <2> QED BY <1>0, <1>5, <2>2, <2>3 DEF SyncBringsFeedback, Synced, PageTypeOK, EntryMaps
<1>6. ASSUME SyncBringsNothing PROVE PageTypeOK'
  BY <1>0, <1>6 DEF SyncBringsNothing, Synced, PageTypeOK
<1>7. ASSUME RenameEnds PROVE PageTypeOK'
  <2>1. renaming \in Ids
    BY <1>0, <1>7 DEF RenameEnds, PageTypeOK
  <2>2. traces' \in EntryMaps
    BY <2>1, <1>7, <1>a, EnsuredEntry DEF RenameEnds
  <2> QED BY <1>0, <1>7, <2>2 DEF RenameEnds, PageTypeOK, EntryMaps
<1>8. ASSUME ReadProject PROVE PageTypeOK'
  <2>1. loading' \in Loadings
    BY <1>0, <1>8 DEF ReadProject, PageTypeOK, Loadings
  <2> QED BY <1>0, <1>8, <2>1 DEF ReadProject, PageTypeOK
<1>9. ASSUME LoadProject PROVE PageTypeOK'
  <2> DEFINE listed == ToSet(loading.list)
  <2>1. loading' \in Loadings
    BY <1>0, <1>9 DEF LoadProject, PageTypeOK, Loadings
  <2>2. loading.list \in Seq(Sessions \cup Old)
    BY <1>0, PageTypes
  <2>3. /\ listed \subseteq Ids /\ loading.list \in Seq(Ids)
        /\ listed # {} => loading.list[1] \in Ids
    <3>1. loading.list \in Seq(Ids)
      BY <2>2, <1>a
    <3> QED BY <3>1, ElementsIn, FirstElement
  <2>4. Entry("reported", {}) \in Entries
    BY DEF Entry, Entries, Status
  <2> HIDE DEF listed
  <2>5. CASE listed = {}
    <3>1. UNCHANGED <<order, traces, active, gone, brought, split>>
      BY <1>9, <2>5 DEF LoadProject, listed
    <3>2. UNCHANGED <<page, mounted, follow, messages, pending, syncing, renaming, sourceVars,
                      serverVars, left, root, late, abandoned>>
      BY <1>9 DEF LoadProject
    <3> QED BY <1>0, <2>1, <3>1, <3>2 DEF PageTypeOK
  <2>6. CASE listed # {}
    <3>1. /\ order' = loading.list
          /\ traces' = [c \in Ids |-> IF c \in listed THEN Entry("reported", {}) ELSE traces[c]]
          /\ active' = IF active = None THEN loading.list[1] ELSE active
          /\ gone' = gone \cup (ToSet(order) \ listed)
          /\ brought' = brought \cup (listed \ ToSet(order))
          /\ split' = split \cup { root[s] : s \in { d \in listed \ ToSet(order) : root[d] # d } }
      BY <1>9, <2>6 DEF LoadProject, listed
    <3>2. UNCHANGED <<page, mounted, follow, messages, pending, syncing, renaming, sourceVars,
                      serverVars, left, root, late, abandoned>>
      BY <1>9 DEF LoadProject
    <3>3. order' \in Seq(Ids) /\ active' \in Ids \cup {None}
      BY <1>0, <2>3, <2>6, <3>1 DEF PageTypeOK
    <3>4. traces' \in EntryMaps
      BY <1>a, <2>3, <2>4, <3>1 DEF EntryMaps
    <3>5. gone' \subseteq Ids /\ brought' \subseteq Ids
      BY <1>0, <2>3, <3>1, ElementsIn DEF PageTypeOK
    <3>6. split' \subseteq Ids
      BY <1>0, <2>3, <3>1 DEF PageTypeOK
    <3> QED BY <1>0, <2>1, <3>2, <3>3, <3>4, <3>5, <3>6 DEF PageTypeOK, EntryMaps
  <2> QED BY <2>5, <2>6
<1> QED BY <1>1, <1>2, <1>3, <1>4, <1>5, <1>6, <1>7, <1>8, <1>9 DEF Answers
-----------------------------------------------------------------------------
(* Conversations hold together.                                            *)

(* A message that a step leaves, or adds, in a conversation that has one.  *)
KeptMessage(m) ==
  \E j \in DOMAIN messages :
    /\ messages'[m].conv = messages[j].conv
    /\ messages'[m].thread = messages[j].thread

AddedMessage(m) ==
  /\ Talks(messages'[m].conv)
  /\ messages'[m].thread = root[messages'[m].conv]
  /\ ~(pending' # None /\ pending'.session = messages'[m].conv)

(* A step in which no other conversations come to talk, ...                *)
QuietTalk ==
  /\ \A m \in DOMAIN messages' : KeptMessage(m) \/ AddedMessage(m)
  /\ \A c \in Ids : Contains(order', c) => Contains(order, c)
  /\ active' # None => Talks(active')
  /\ pending' # None => Talks(pending'.conv) /\ pending'.thread = root[pending'.conv]
  /\ \A s \in Sessions : pending' # None /\ pending'.session = s =>
       \/ pending' = pending
       \/ ~Talks(s) /\ root[s] = s /\ Contains(created', s)
  /\ UNCHANGED <<root, page>>
  /\ loading'.stage # "over" => loading.stage # "over"
  /\ split \subseteq split'
  /\ \A c : Contains(created, c) => Contains(created', c)

(* ... no others are known, ...                                            *)
QuietKnowledge ==
  /\ \A c \in Ids : \/ traces'[c] # None \/ syncing' = c \/ renaming' = c
                    => \/ traces[c] # None \/ syncing = c \/ renaming = c \/ Talks(c)
  /\ \A k \in DOMAIN sources' : Exists(sources'[k].session)
  /\ \A c \in Ids : Contains(loading'.list, c) => Contains(loading.list, c) \/ Contains(created, c)
  /\ \A e \in DOMAIN events' : Exists(events'[e].session)

(* ... and none leaves the list unnoticed.                                 *)
QuietList ==
  /\ mounted' =>
       /\ mounted /\ gone \subseteq gone'
       /\ \A c \in Ids : Contains(order, c) => Contains(order', c) \/ c \in gone'
  /\ ~mounted' => messages' = <<>> /\ loading'.stage = "over"

(* Such a step keeps conversations together.                               *)
LEMMA QuietStep ==
  ASSUME PageInv, PageTypeOK', QuietTalk, QuietKnowledge, QuietList
  PROVE  Existing' /\ Rooted' /\ Together' /\ Placed'
<1>0. PageTypeOK /\ Existing /\ Rooted /\ Together /\ Placed
  BY DEF PageInv
<1>1. None \notin Ids /\ Sessions \subseteq Ids /\ Local \cap Sessions = {}
  BY <1>0, PageTypes
<1>2. ASSUME NEW c \in Ids, Talks(c)' PROVE Talks(c)
  <2>1. CASE Contains(order', c)
    BY <2>1 DEF QuietTalk, Talks
  <2>2. CASE active' = c
    BY <2>2, <1>1 DEF QuietTalk
  <2>3. CASE \E m \in DOMAIN messages' : messages'[m].conv = c
    <3>1. PICK m \in DOMAIN messages' : messages'[m].conv = c
      BY <2>3
    <3>2. CASE KeptMessage(m)
      <4>1. Speaks(c)
        BY <3>1, <3>2 DEF KeptMessage, Speaks
      <4> QED BY <4>1 DEF Talks
    <3>3. CASE AddedMessage(m)
      BY <3>1, <3>3 DEF AddedMessage
    <3> QED BY <3>2, <3>3 DEF QuietTalk
  <2>4. CASE pending' # None /\ pending'.conv = c
    BY <2>4 DEF QuietTalk
  <2> QED BY <1>2, <2>1, <2>2, <2>3, <2>4 DEF Talks, Speaks
<1>3. UNCHANGED <<root, page>>
  BY DEF QuietTalk
<1>4. Existing'
  <2>1. \A c : Exists(c) => Exists(c)'
    BY DEF Exists, QuietTalk
  <2>2. ASSUME NEW c \in Ids,
               \/ Talks(c)' \/ traces'[c] # None \/ syncing' = c \/ renaming' = c
        PROVE  Exists(c)'
    BY <2>1, <2>2, <1>0, <1>2 DEF Existing, QuietKnowledge
  <2>3. \A k \in DOMAIN sources' : \/ sources'[k].session \in Local
                                   \/ Contains(created', sources'[k].session)
    BY DEF QuietKnowledge, QuietTalk, Exists
  <2>4. \A c \in Ids : Contains(loading'.list, c) => Exists(c)'
    BY <2>1, <1>0 DEF Existing, QuietKnowledge, Exists
  <2>5. \A e \in DOMAIN events' : \/ events'[e].session \in Local
                                  \/ Contains(created', events'[e].session)
    BY DEF QuietKnowledge, QuietTalk, Exists
  <2> QED BY <2>2, <2>3, <2>4, <2>5 DEF Existing, Exists
<1>5. ASSUME NEW s \in Sessions, Coming(s)'
      PROVE  root[s] = s /\ Contains(created', s) /\ pending'.conv # s /\ ~Speaks(s)'
  <2>1. pending' # None /\ pending'.session = s
    BY <1>5 DEF Coming
  <2>2. CASE pending' = pending
    <3>1. Coming(s) /\ Contains(created, s) /\ pending.conv # s /\ ~Speaks(s) /\ root[s] = s
      BY <2>1, <2>2, <1>0, <1>1 DEF Coming, Rooted
    <3>2. \A m \in DOMAIN messages' : messages'[m].conv # s
      BY <2>1, <3>1 DEF QuietTalk, KeptMessage, AddedMessage, Speaks
    <3> QED BY <3>1, <3>2, <2>2 DEF Speaks, QuietTalk
  <2>3. CASE ~Talks(s) /\ root[s] = s /\ Contains(created', s)
    <3>1. ~Talks(s)'
      BY <2>3, <1>1, <1>2
    <3> QED BY <3>1, <2>1, <2>3 DEF Talks
  <2> QED BY <2>1, <2>2, <2>3 DEF QuietTalk
<1>6. Rooted'
  <2>1. ASSUME NEW c \in Ids, c \notin Sessions \/ ~Contains(created', c) \/ Coming(c)'
        PROVE  root[c] = c
    BY <2>1, <1>0, <1>5 DEF Rooted, QuietTalk
  <2>2. \A m \in DOMAIN messages' : messages'[m].thread = root[messages'[m].conv]
    BY <1>0 DEF QuietTalk, KeptMessage, AddedMessage, Rooted
  <2>3. pending' # None => pending'.thread = root[pending'.conv]
    BY DEF QuietTalk
  <2>4. page' = "chat" \/ loading'.stage # "over" =>
          /\ \A c \in Ids : Talks(c)' => root[c] \in Local
          /\ \A c \in Ids : root[c] \in Local \cup {c}
    BY <1>0, <1>2, <1>3 DEF Rooted, QuietTalk
  <2> QED BY <2>1, <2>2, <2>3, <2>4, <1>3, <1>5 DEF Rooted
<1>7. Together'
  BY <1>0, <1>2, <1>3 DEF Together, QuietTalk
<1>8. Placed'
  BY <1>0, <1>2 DEF Placed, QuietList
<1> QED BY <1>4, <1>6, <1>7, <1>8

(* What lists have in common with those they come from.                    *)
LEMMA SameMessages ==
  ASSUME PageTypeOK
  PROVE  /\ messages' = messages => \A m \in DOMAIN messages' : KeptMessage(m)
         /\ messages' = <<>> => DOMAIN messages' = {}
         /\ \A c \in Ids : Contains(<<>>, c) = FALSE
BY DEF KeptMessage, Contains

(* What the user does: a new conversation is one of a local id of its own, *)
(* and a deletion takes the messages with it.                              *)
LEMMA UserTalks ==
  ASSUME PageInv, User, PageTypeOK'
  PROVE  Existing' /\ Rooted' /\ Together' /\ Placed'
<1> USE DEF viewVars, askVars, sourceVars, serverVars, history
<1>0. PageTypeOK /\ Existing /\ Rooted /\ Together /\ Placed /\ Sourced
  BY DEF PageInv
<1>a. /\ None \notin Ids /\ Sessions \subseteq Ids /\ Local \cap Sessions = {} /\ Local \subseteq Ids
      /\ order \in Seq(Ids) /\ messages \in Seq(Sayings)
      /\ \A m \in DOMAIN messages :
           /\ messages[m].conv \in Ids /\ messages[m].thread = root[messages[m].conv]
           /\ Talks(messages[m].conv)
      /\ pending # None => pending.conv \in Ids /\ pending.thread = root[pending.conv]
                           /\ Talks(pending.conv)
      /\ active \in Ids \cup {None}
  BY <1>0, PageTypes DEF PageTypeOK, Rooted, Talks, Speaks
<1>b. ASSUME pending' = pending \/ pending' = None
      PROVE  /\ pending' # None => Talks(pending'.conv) /\ pending'.thread = root[pending'.conv]
             /\ \A s \in Sessions : pending' # None /\ pending'.session = s => pending' = pending
  BY <1>a, <1>b
<1>c. QuietKnowledge \/ sources' # sources \/ events' # events \/ traces' # traces
        \/ syncing' # syncing \/ renaming' # renaming \/ loading' # loading
  BY <1>0 DEF QuietKnowledge, Existing
<1>1. ASSUME NEW c \in Local, CreateLocalSession(c)
      PROVE  Existing' /\ Rooted' /\ Together' /\ Placed'
  <2>1. /\ mounted /\ \A s \in Sessions : root[s] # c
        /\ traces' = Ensured(traces, c) /\ order' = <<c>> \o order /\ active' = c
        /\ UNCHANGED <<page, mounted, messages, askVars, sourceVars, serverVars, history>>
    BY <1>1 DEF CreateLocalSession
  <2>2. \A x : Contains(order', x) <=> x = c \/ Contains(order, x)
    BY <1>a, <2>1, ConsElements
  <2>3. \A d \in Ids : /\ Talks(d)' => Talks(d) \/ d = c
                       /\ Talks(d) => Talks(d)' \/ d = active
    BY <2>1, <2>2 DEF Talks, Speaks
  <2>4. Existing'
    <3>1. \A d \in Ids \ {c} : traces'[d] = traces[d]
      BY <1>a, <1>0, <2>1, EnsuredEntry, PageTypes
    <3>2. \A d \in Ids : Talks(d)' \/ traces'[d] # None \/ syncing' = d \/ renaming' = d
                           => d \in Local \/ Contains(created', d)
      BY <1>0, <2>1, <2>3, <3>1 DEF Existing, Exists
    <3>3. /\ \A k \in DOMAIN sources' : Exists(sources[k].session)
          /\ \A d \in Ids : Contains(loading'.list, d) => Exists(d)
          /\ \A e \in DOMAIN events' : Exists(events[e].session)
      BY <1>0, <2>1 DEF Existing
    <3> QED BY <2>1, <3>2, <3>3 DEF Existing, Exists
  <2>5. root[c] = c /\ c \notin Sessions
    BY <1>0, <1>a DEF Rooted
  <2>6. Rooted'
    BY <1>0, <2>1, <2>3, <2>5 DEF Rooted, Coming, Speaks
  <2>7. Together'
    <3>1. \A d \in Ids : root[d] = c => d = c
      BY <1>0, <2>1 DEF Rooted
    <3> QED BY <1>0, <2>1, <2>3, <2>5, <3>1 DEF Together
  <2>8. Placed'
    BY <1>0, <2>1, <2>2, <2>3 DEF Placed
  <2> QED BY <2>4, <2>6, <2>7, <2>8
<1>2. ASSUME NEW c \in Ids, SelectSession(c)
      PROVE  Existing' /\ Rooted' /\ Together' /\ Placed'
  <2>1. Talks(c)
    BY <1>2 DEF SelectSession, Talks
  <2>2. QuietTalk
    BY <1>2, <1>b, <2>1, <1>0, SameMessages DEF SelectSession, QuietTalk
  <2>3. QuietKnowledge
    BY <1>2, <1>c DEF SelectSession
  <2>4. QuietList
    BY <1>2, <1>0 DEF SelectSession, QuietList, Placed
  <2> QED BY <2>2, <2>3, <2>4, QuietStep
<1>3. ASSUME NEW c \in Ids, DeleteSession(c)
      PROVE  Existing' /\ Rooted' /\ Together' /\ Placed'
  <2> DEFINE remaining == Without(order, {c})
  <2>1. /\ remaining \in Seq(Ids)
        /\ \A x : Contains(remaining, x) <=> Contains(order, x) /\ x # c
        /\ remaining # <<>> => Contains(remaining, remaining[1])
    <3>1. /\ remaining \in Seq(Ids)
          /\ \A x : Contains(remaining, x) <=> Contains(order, x) /\ x \notin {c}
      BY <1>a, WithoutElements
    <3> QED BY <3>1, FirstElement
  <2>2. /\ order' = remaining /\ messages' = Without(messages, Said(c))
        /\ active' = IF active # c THEN active
                     ELSE IF remaining = <<>> THEN None ELSE remaining[1]
        /\ traces' = [traces EXCEPT ![c] = None] /\ sources' = Closed(sources, registered[c])
        /\ gone' = gone \cup {c} /\ mounted
        /\ UNCHANGED <<page, mounted, follow, askVars, serverVars, left, root, brought,
                       split, late, abandoned>>
    BY <1>3 DEF DeleteSession
  <2> HIDE DEF remaining
  <2>3. \A m \in DOMAIN messages' : KeptMessage(m)
    <3>1. Filtered(Sayings, messages, Said(c), Len(messages), messages')
      BY <1>a, <2>2, WithoutFilters
    <3>2. \A m \in DOMAIN messages' : \E a \in 1 .. Len(messages) : messages'[m] = messages[a]
      BY <3>1 DEF Filtered
    <3>3. DOMAIN messages = 1 .. Len(messages)
      BY <1>0, PageTypes
    <3> QED BY <3>2, <3>3 DEF KeptMessage
  <2>4. active' # None => Talks(active')
    BY <2>1, <2>2 DEF Talks
  <2>5. QuietTalk
    BY <1>b, <2>1, <2>2, <2>3, <2>4 DEF QuietTalk
  <2>6. QuietKnowledge
    <3>1. traces'[c] = None /\ \A d \in Ids \ {c} : traces'[d] = traces[d]
      BY <1>0, <2>2 DEF PageTypeOK
    <3>2. \A k \in DOMAIN sources' : Exists(sources'[k].session)
      <4>1. /\ DOMAIN sources' = DOMAIN sources
            /\ \A k \in DOMAIN sources : sources'[k].session = sources[k].session
        BY <1>0, <2>2, ClosedSource DEF Sourced, PageTypeOK
      <4> QED BY <4>1, <1>0 DEF Existing
    <3> QED BY <3>1, <3>2, <2>2, <1>0 DEF QuietKnowledge, Existing
  <2>7. QuietList
    BY <2>1, <2>2 DEF QuietList
  <2> QED BY <2>5, <2>6, <2>7, QuietStep
<1>4. ASSUME NEW c \in Ids, CommitRename(c)
      PROVE  Existing' /\ Rooted' /\ Together' /\ Placed'
  <2>1. QuietTalk
    BY <1>4, <1>b, <1>0, SameMessages DEF CommitRename, QuietTalk, Talks
  <2>2. Talks(c)
    BY <1>4 DEF CommitRename, Talks
  <2>3. QuietKnowledge
    BY <1>4, <1>0, <2>2 DEF CommitRename, QuietKnowledge, Existing
  <2>4. QuietList
    BY <1>4, <1>0 DEF CommitRename, QuietList, Placed
  <2> QED BY <2>1, <2>3, <2>4, QuietStep
<1>5. ASSUME ToggleFollow
      PROVE  Existing' /\ Rooted' /\ Together' /\ Placed'
  <2>1. QuietTalk
    BY <1>5, <1>b, <1>0, SameMessages DEF ToggleFollow, QuietTalk, Talks
  <2>3. QuietKnowledge
    BY <1>5, <1>c DEF ToggleFollow
  <2>4. QuietList
    BY <1>5, <1>0 DEF ToggleFollow, QuietList, Placed
  <2> QED BY <2>1, <2>3, <2>4, QuietStep
<1>6. ASSUME Submit
      PROVE  Existing' /\ Rooted' /\ Together' /\ Placed'
  <2> DEFINE said == [conv |-> active, thread |-> root[active],
                      about |-> <<"question", left.question>>]
  <2>1. /\ active # None /\ messages' = Append(messages, said)
        /\ pending' = [conv |-> active, thread |-> root[active], no |-> left.question,
                       session |-> None]
        /\ mounted
        /\ UNCHANGED <<page, mounted, order, traces, active, follow, syncing, renaming, loading,
                       sourceVars, serverVars, history>>
    BY <1>6 DEF Submit
  <2>2. Talks(active) /\ None \notin Sessions
    BY <1>a DEF Talks
  <2>4. \A m \in DOMAIN messages' : KeptMessage(m) \/ AddedMessage(m)
    <3>1. \A m \in DOMAIN messages' :
            \/ m \in DOMAIN messages /\ messages'[m] = messages[m]
            \/ messages'[m] = said
      BY <1>a, <2>1
    <3>2. said.conv = active /\ said.thread = root[active]
      OBVIOUS
    <3>3. pending'.session # active
      BY <1>a, <2>1
    <3> HIDE DEF said
    <3> QED BY <2>2, <3>1, <3>2, <3>3 DEF KeptMessage, AddedMessage
  <2>5. QuietTalk
    BY <2>1, <2>2, <2>4 DEF QuietTalk
  <2>6. QuietKnowledge
    BY <2>1, <1>0 DEF QuietKnowledge, Existing
  <2>7. QuietList
    BY <2>1 DEF QuietList
  <2> QED BY <2>5, <2>6, <2>7, QuietStep
<1>7. ASSUME SyncScmFeedback
      PROVE  Existing' /\ Rooted' /\ Together' /\ Placed'
  <2>1. QuietTalk
    BY <1>7, <1>b, <1>0, SameMessages DEF SyncScmFeedback, QuietTalk, Talks
  <2>2. active # None => Talks(active)
    BY DEF Talks
  <2>3. QuietKnowledge
    BY <1>7, <1>0, <2>2 DEF SyncScmFeedback, QuietKnowledge, Existing
  <2>4. QuietList
    BY <1>7, <1>0 DEF SyncScmFeedback, QuietList, Placed
  <2> QED BY <2>1, <2>3, <2>4, QuietStep
<1>8. ASSUME LeavePage
      PROVE  Existing' /\ Rooted' /\ Together' /\ Placed'
  <2>1. /\ order' = <<>> /\ messages' = <<>> /\ active' = None
        /\ traces' = [c \in Ids |-> None]
        /\ loading'.stage = "over" /\ loading'.list = loading.list /\ mounted' = FALSE
        /\ UNCHANGED <<page, pending, syncing, renaming, serverVars, root, gone, brought, split>>
    BY <1>8, <1>0 DEF LeavePage, PageTypeOK, Loadings
  <2>2. DOMAIN sources' = DOMAIN sources
        /\ \A k \in DOMAIN sources : sources'[k].session = sources[k].session
    <3>1. \A k \in DOMAIN sources : sources[k] \in Sources
      BY <1>0 DEF PageTypeOK
    <3>2. \A k \in DOMAIN sources :
            [sources[k] EXCEPT !.state = "closed", !.coming = {}].session = sources[k].session
      BY <3>1 DEF Sources
    <3> QED BY <1>8, <3>2 DEF LeavePage
  <2>3. QuietTalk
    BY <1>b, <2>1, SameMessages, <1>0 DEF QuietTalk, Contains
  <2>4. QuietKnowledge
    BY <1>0, <2>1, <2>2 DEF QuietKnowledge, Existing
  <2>5. QuietList
    BY <2>1 DEF QuietList
  <2> QED BY <2>3, <2>4, <2>5, QuietStep
<1> QED BY <1>1, <1>2, <1>3, <1>4, <1>5, <1>6, <1>7, <1>8 DEF User

(* A session that the server creates is in no conversation yet.            *)
LEMMA ServerTalks ==
  ASSUME PageInv, ServerActs, PageTypeOK'
  PROVE  Existing' /\ Rooted' /\ Together' /\ Placed'
<1> USE DEF viewVars, askVars, sourceVars, serverVars, history
<1>0. PageTypeOK /\ Existing /\ Rooted /\ Together /\ Placed
  BY DEF PageInv
<1>a. /\ None \notin Ids /\ Sessions \subseteq Ids /\ Local \cap Sessions = {}
      /\ pending # None => /\ pending.conv \in Ids /\ pending.thread = root[pending.conv]
                           /\ Talks(pending.conv)
      /\ active # None => Talks(active)
  BY <1>0, PageTypes DEF Rooted, Talks
<1>b. ASSUME UNCHANGED <<page, mounted, order, active, messages, pending, root, gone, split,
                         loading>>,
             \A c : Contains(created, c) => Contains(created', c)
      PROVE  QuietTalk /\ QuietList
  <2>1. \A m \in DOMAIN messages' : KeptMessage(m)
    BY <1>b, <1>0, SameMessages
  <2>2. QuietTalk
    BY <1>b, <1>a, <2>1 DEF QuietTalk
  <2>3. QuietList
    BY <1>b, <1>0 DEF QuietList, Placed
  <2> QED BY <2>2, <2>3
<1>1. ASSUME NEW s \in Sessions, CreateSession(s)
      PROVE  Existing' /\ Rooted' /\ Together' /\ Placed'
  <2>1. /\ pending # None /\ pending.session = None /\ ~Contains(created, s)
        /\ created' = <<s>> \o created
        /\ pending' = [pending EXCEPT !.session = s]
        /\ UNCHANGED <<page, mounted, viewVars, syncing, renaming, loading, sourceVars,
                       events, left, history>>
    BY <1>1 DEF CreateSession
  <2>2. \A x : Contains(created', x) <=> x = s \/ Contains(created, x)
    <3>1. created \in Seq(Sessions \cup Old) /\ s \in Sessions \cup Old
      BY <1>0 DEF PageTypeOK
    <3>2. \A x : Contains(<<s>> \o created, x) <=> x = s \/ Contains(created, x)
      BY <3>1, ConsElements
    <3> QED BY <2>1, <3>2
  <2>3. /\ pending'.conv = pending.conv /\ pending'.thread = pending.thread
        /\ pending'.session = s
    BY <1>0, <2>1 DEF PageTypeOK, Questions
  <2>4. ~Talks(s) /\ root[s] = s
    BY <1>0, <1>a, <2>1 DEF Existing, Exists, Rooted
  <2>5. \A m \in DOMAIN messages' : KeptMessage(m)
    BY <1>0, <2>1, SameMessages
  <2>6. QuietTalk
    BY <1>a, <2>1, <2>2, <2>3, <2>4, <2>5 DEF QuietTalk
  <2>7. QuietKnowledge
    BY <2>1, <1>0 DEF QuietKnowledge, Existing
  <2>8. QuietList
    BY <2>1, <1>0 DEF QuietList, Placed
  <2> QED BY <2>6, <2>7, <2>8, QuietStep
<1>2. ASSUME NEW s \in Sessions \cup Old, NEW kind \in Kinds, Emit(s, kind)
      PROVE  Existing' /\ Rooted' /\ Together' /\ Placed'
  <2>1. /\ Contains(created, s)
        /\ events' = Append(events, [session |-> s, kind |-> kind])
        /\ sources' = [k \in DOMAIN sources |->
                         IF sources[k].session = s /\ sources[k].state = "live"
                         THEN [sources[k] EXCEPT !.coming = @ \cup {Len(events')}] ELSE sources[k]]
        /\ UNCHANGED <<page, mounted, viewVars, askVars, registered, created, history>>
    BY <1>2 DEF Emit
  <2>2. QuietTalk /\ QuietList
    BY <1>b, <2>1
  <2>3. \A e \in DOMAIN events' : Exists(events'[e].session)
    <3> DEFINE one == [session |-> s, kind |-> kind]
    <3>1. one.session = s /\ events' = Append(events, one) /\ one \in Happenings
      BY <2>1 DEF Happenings
    <3> HIDE DEF one
    <3>2. \A e \in DOMAIN events' : \/ e \in DOMAIN events /\ events'[e] = events[e]
                                    \/ events'[e] = one
      <4>1. events \in Seq(Happenings)
        BY <1>0 DEF PageTypeOK
      <4> QED BY <4>1, <3>1
    <3> QED BY <3>1, <3>2, <2>1, <1>0 DEF Existing, Exists
  <2>4. \A k \in DOMAIN sources' : Exists(sources'[k].session)
    <3>1. \A k \in DOMAIN sources : sources[k] \in Sources
      BY <1>0 DEF PageTypeOK
    <3>2. \A k \in DOMAIN sources :
            [sources[k] EXCEPT !.coming = @ \cup {Len(events')}].session = sources[k].session
      BY <3>1 DEF Sources
    <3> QED BY <2>1, <3>2, <1>0 DEF Existing
  <2>5. QuietKnowledge
    BY <2>1, <2>3, <2>4 DEF QuietKnowledge
  <2> QED BY <2>2, <2>5, QuietStep
<1>3. ASSUME NEW k \in DOMAIN sources, NEW state, NEW coming, SourceBecomes(k, state, coming)
      PROVE  Existing' /\ Rooted' /\ Together' /\ Placed'
  <2>1. /\ sources' = [sources EXCEPT ![k].state = state, ![k].coming = coming]
        /\ UNCHANGED <<page, mounted, viewVars, askVars, registered, created, events, history>>
    BY <1>3 DEF SourceBecomes
  <2>2. QuietTalk /\ QuietList
    BY <1>b, <2>1
  <2>3. \A j \in DOMAIN sources' : Exists(sources'[j].session)
    <3>1. \A j \in DOMAIN sources : sources[j] \in Sources
      BY <1>0 DEF PageTypeOK
    <3>2. DOMAIN sources' = DOMAIN sources
          /\ \A j \in DOMAIN sources : sources'[j].session = sources[j].session
      BY <2>1, <3>1 DEF Sources
    <3> QED BY <3>2, <1>0 DEF Existing
  <2>4. QuietKnowledge
    BY <2>1, <2>3, <1>0 DEF QuietKnowledge, Existing
  <2> QED BY <2>2, <2>4, QuietStep
<1> QED
  BY <1>1, <1>2, <1>3 DEF ServerActs, ListStream, SubscribeStream, RefuseStream, DropStream

(* An event is told in the conversation of its session.                    *)
LEMMA DeliverTalks ==
  ASSUME PageInv, NEW k \in DOMAIN sources, Deliver(k), PageTypeOK'
  PROVE  Existing' /\ Rooted' /\ Together' /\ Placed'
<1> DEFINE s == sources[k].session
           e == Min(sources[k].coming)
<1>0. PageTypeOK /\ Existing /\ Rooted /\ Together /\ Placed /\ Chatting
  BY DEF PageInv
<1>1. /\ s \in Ids /\ DOMAIN sources' = DOMAIN sources
      /\ \A j \in DOMAIN sources : sources'[j].session = sources[j].session
      /\ ~IsNews(s, e) => UNCHANGED <<traces, messages, late>>
      /\ IsNews(s, e) =>
           /\ traces[s] # None
           /\ \A c \in Ids \ {s} : traces'[c] = traces[c]
           /\ messages' = messages \o Tellings(s, e)
  BY DeliveredEvent
<1>2. /\ mounted
      /\ UNCHANGED <<page, mounted, order, active, follow, pending, syncing, renaming, loading,
                     registered, created, events, left, root, gone, brought, split, abandoned>>
  BY DEF Deliver, askVars, serverVars
<1> HIDE DEF s, e
<1>3. /\ None \notin Ids
      /\ pending # None => /\ pending.conv \in Ids /\ pending.thread = root[pending.conv]
                           /\ Talks(pending.conv)
      /\ active # None => Talks(active)
      /\ messages \in Seq(Sayings) /\ DOMAIN messages = 1 .. Len(messages)
      /\ pending # None => pending.session \in Sessions \cup {None}
  BY <1>0, PageTypes DEF Rooted, Talks, PageTypeOK
<1>4. ASSUME NEW m \in DOMAIN messages'
      PROVE  KeptMessage(m) \/ AddedMessage(m)
  <2>1. CASE messages' = messages
    BY <2>1, <1>0, <1>4, SameMessages
  <2>2. CASE messages' # messages
    <3> DEFINE told == [conv |-> s, thread |-> root[s], about |-> <<"event", e>>]
    <3>1. /\ messages' = messages \o Tellings(s, e) /\ Tellings(s, e) # <<>>
      <4>1. messages' = messages \o Tellings(s, e)
        BY <1>1, <2>2
      <4>2. messages \o <<>> = messages
        BY <1>3
      <4> QED BY <4>1, <4>2, <2>2
    <3>2. page = "chat" /\ active = s /\ Tellings(s, e) = <<told>>
      BY <3>1 DEF Tellings
    <3>3. messages' = Append(messages, told)
      BY <3>1, <3>2, <1>3
    <3>4. told.conv = s /\ told.thread = root[s]
      OBVIOUS
    <3>5. Talks(s) /\ ~(pending' # None /\ pending'.session = s)
      <4>1. Talks(s)
        BY <1>1, <1>3, <3>2
      <4>2. ASSUME pending # None, pending.session = s PROVE FALSE
        <5>1. s \in Sessions /\ Coming(s)
          BY <4>2, <1>1, <1>3 DEF Coming
        <5> QED BY <5>1, <4>1, <3>2, <1>0 DEF Chatting
      <4> QED BY <4>1, <4>2, <1>2
    <3> HIDE DEF told
    <3>6. messages'[m] = told \/ (m \in DOMAIN messages /\ messages'[m] = messages[m])
      BY <3>3, <1>3, <1>4
    <3> QED BY <3>4, <3>5, <3>6 DEF KeptMessage, AddedMessage
  <2> QED BY <2>1, <2>2
<1>5. QuietTalk
  BY <1>2, <1>3, <1>4 DEF QuietTalk
<1>6. QuietKnowledge
  BY <1>0, <1>1, <1>2 DEF QuietKnowledge, Existing
<1>7. QuietList
  BY <1>2 DEF QuietList
<1> QED BY <1>5, <1>6, <1>7, QuietStep

(* A task that is answered: its session takes over the conversation.       *)
LEMMA TaskTalks ==
  ASSUME PageInv, AnswerTask, PageTypeOK'
  PROVE  Existing' /\ Rooted' /\ Together' /\ Placed'
<1> DEFINE c == pending.conv
           s == pending.session
<1>0. PageTypeOK /\ Existing /\ Rooted /\ Together /\ Placed /\ Sourced
  BY DEF PageInv
<1>1. /\ mounted /\ pending # None /\ s # None
      /\ traces' = Upserted(Migrated(traces, c, s), s, "reported")
      /\ order' = <<s>> \o Without(order, {c, s})
      /\ messages' = Append(Relinked(messages, c, s), Answer(s))
      /\ active' = IF active = c \/ active = None \/ follow THEN s ELSE active
      /\ EnsuresStream(s, [registered EXCEPT ![c] = 0], Closed(sources, registered[c]))
      /\ root' = [root EXCEPT ![s] = pending.thread]
      /\ pending' = None
      /\ UNCHANGED <<page, mounted, syncing, renaming, loading, created, events, gone, split>>
  BY DEF AnswerTask, Answered, serverVars
<1>2. /\ c \in Ids /\ s \in Sessions /\ s \in Ids /\ None \notin Ids
      /\ Contains(created, s) /\ c # s /\ ~Speaks(s)
      /\ pending.thread = root[c] /\ Talks(c)
  BY <1>0, <1>1, PageTypes DEF Rooted, Coming, Talks
<1>3. root'[s] = root[c] /\ \A d \in Ids \ {s} : root'[d] = root[d]
  BY <1>0, <1>1, <1>2 DEF PageTypeOK
<1>4. \A x : Contains(order', x) <=> x = s \/ (Contains(order, x) /\ x # c)
  <2>1. /\ Without(order, {c, s}) \in Seq(Ids)
        /\ \A x : Contains(Without(order, {c, s}), x) <=> Contains(order, x) /\ x \notin {c, s}
    <3>1. order \in Seq(Ids)
      BY <1>0 DEF PageTypeOK
    <3> QED BY <3>1, WithoutElements
  <2>2. \A x : Contains(order', x) <=> x = s \/ Contains(Without(order, {c, s}), x)
    <3> DEFINE rest == Without(order, {c, s})
    <3>1. rest \in Seq(Ids) /\ s \in Ids /\ order' = <<s>> \o rest
      BY <1>1, <1>2, <2>1
    <3> HIDE DEF rest
    <3>2. \A x : Contains(order', x) <=> x = s \/ Contains(rest, x)
      BY <3>1, ConsElements
    <3> QED BY <3>2 DEF rest
  <2> QED BY <2>1, <2>2
<1>5. ASSUME NEW m \in DOMAIN messages'
      PROVE  /\ messages'[m].thread = root'[messages'[m].conv]
             /\ messages'[m].conv = s
                \/ (Speaks(messages'[m].conv) /\ messages'[m].conv # c)
  <2> DEFINE moved == Relinked(messages, c, s)
  <2>1. /\ DOMAIN moved = DOMAIN messages /\ moved \in Seq(Sayings)
        /\ \A j \in DOMAIN messages :
             /\ moved[j].conv = IF messages[j].conv = c THEN s ELSE messages[j].conv
             /\ moved[j].thread = messages[j].thread
    <3>1. DOMAIN messages = 1 .. Len(messages) /\ Len(messages) \in Nat
          /\ \A j \in DOMAIN messages : messages[j] \in Sayings
      <4>1. messages \in Seq(Sayings)
        BY <1>0 DEF PageTypeOK
      <4> QED BY <4>1
    <3>2. \A j \in DOMAIN messages :
            /\ [messages[j] EXCEPT !.conv = s] \in Sayings
            /\ [messages[j] EXCEPT !.conv = s].conv = s
            /\ [messages[j] EXCEPT !.conv = s].thread = messages[j].thread
      BY <3>1, <1>2 DEF Sayings
    <3>3. moved \in [1 .. Len(messages) -> Sayings]
      BY <3>1, <3>2 DEF Relinked
    <3>4. moved \in Seq(Sayings)
      BY <3>1, <3>3
    <3> QED BY <3>1, <3>2, <3>4 DEF Relinked
  <2>2. Answer(s).conv = s /\ Answer(s).thread = root[c]
    BY <1>2 DEF Answer
  <2>3. Answer(s) \in Sayings
    <3>1. pending.no \in Nat /\ pending.thread \in Ids
      BY <1>0, <1>1, PageTypes
    <3> QED BY <3>1, <1>2 DEF Answer, Sayings, Words
  <2> HIDE DEF moved
  <2>4. (m \in DOMAIN moved /\ messages'[m] = moved[m]) \/ messages'[m] = Answer(s)
    <3>1. messages' = Append(moved, Answer(s))
      BY <1>1 DEF moved
    <3> QED BY <3>1, <2>1, <2>3, <1>5
  <2>5. CASE messages'[m] = Answer(s)
    BY <2>2, <2>5, <1>3
  <2>6. CASE m \in DOMAIN moved /\ messages'[m] = moved[m]
    <3>1. messages[m].conv \in Ids /\ messages[m].thread = root[messages[m].conv]
          /\ Speaks(messages[m].conv) /\ messages[m].conv # s
      BY <2>1, <2>6, <1>0, <1>2, PageTypes DEF Rooted, Speaks
    <3> QED BY <3>1, <2>1, <2>6, <1>2, <1>3
  <2> QED BY <2>4, <2>5, <2>6
<1>6. ASSUME NEW d \in Ids, Talks(d)' PROVE d = s \/ (Talks(d) /\ d # c)
  <2>1. ASSUME NEW m \in DOMAIN messages', messages'[m].conv = d
        PROVE  d = s \/ (Speaks(d) /\ d # c)
    BY <1>5, <2>1
  <2>2. active' = d => d = s \/ (active = d /\ d # c)
    BY <1>1, <1>2
  <2> QED BY <1>1, <1>4, <1>6, <2>1, <2>2 DEF Talks, Speaks
<1> HIDE DEF c, s
<1>7. Existing'
  <2>1. /\ \A d \in Ids : traces'[d] # None => d = s \/ traces[d] # None
    <3>1. /\ Migrated(traces, c, s) \in EntryMaps /\ Migrated(traces, c, s)[c] = None
          /\ \A d \in Ids \ {c, s} : Migrated(traces, c, s)[d] = traces[d]
      BY <1>0, <1>2, PageTypes, MigratedEntry
    <3> DEFINE mid == Migrated(traces, c, s)
    <3>2. mid \in EntryMaps /\ traces' = Upserted(mid, s, "reported") /\ "reported" \in Status
      BY <1>1, <3>1 DEF Status
    <3> HIDE DEF mid
    <3>3. \A d \in Ids \ {s} : traces'[d] = mid[d]
      BY <1>2, <3>2, UpsertedEntry
    <3> QED BY <3>1, <3>3 DEF mid
  <2>2. \A k \in DOMAIN sources' :
           sources'[k].session = s \/ \E j \in DOMAIN sources : sources'[k].session = sources[j].session
    <3> DEFINE list == Closed(sources, registered[c])
    <3>1. /\ list \in Seq(Sources) /\ DOMAIN list = DOMAIN sources
          /\ \A j \in DOMAIN sources : list[j].session = sources[j].session
      <4>1. /\ sources \in Seq(Sources) /\ registered[c] \in Nat
            /\ registered[c] # 0 => registered[c] \in DOMAIN sources
        BY <1>0, <1>2 DEF Sourced, PageTypeOK
      <4> QED BY <4>1, ClosedSource
    <3> DEFINE register == [registered EXCEPT ![c] = 0]
    <3>2. register \in [Ids -> Nat]
      BY <1>0 DEF PageTypeOK
    <3>3. DOMAIN list = 1 .. Len(list) /\ Len(list) \in Nat
      BY <3>1
    <3>4. EnsuresStream(s, register, list)
      BY <1>1
    <3> HIDE DEF list, register
    <3>5. \/ sources' = list
          \/ /\ DOMAIN sources' = 1 .. Len(list) + 1
             /\ \A j \in DOMAIN list : sources'[j] = list[j]
             /\ sources'[Len(list) + 1].session = s
      <4>1. /\ register[s] # 0 => sources' = list
            /\ register[s] = 0 =>
                 /\ DOMAIN sources' = 1 .. Len(list) + 1
                 /\ \A j \in DOMAIN list : sources'[j] = list[j]
                 /\ sources'[Len(list) + 1] =
                      [session |-> s, state |-> "connecting", coming |-> {}]
        BY <3>1, <3>2, <3>4, <1>2, EnsuredStream
      <4> QED BY <4>1
    <3>6. ASSUME NEW k \in DOMAIN sources'
          PROVE  sources'[k].session = s \/ (k \in DOMAIN sources /\ sources'[k] = list[k])
      BY <3>1, <3>3, <3>5
    <3> QED BY <3>1, <3>6
  <2>3. \A d \in Ids : Talks(d)' \/ traces'[d] # None \/ syncing' = d \/ renaming' = d
                         => d \in Local \/ Contains(created', d)
    BY <1>0, <1>1, <1>2, <1>6, <2>1 DEF Existing, Exists
  <2>4. \A k \in DOMAIN sources' : sources'[k].session \in Local
                                   \/ Contains(created', sources'[k].session)
    BY <1>0, <1>1, <1>2, <2>2 DEF Existing, Exists
  <2>5. /\ \A d \in Ids : Contains(loading'.list, d) => d \in Local \/ Contains(created', d)
        /\ \A e \in DOMAIN events' : events'[e].session \in Local
                                     \/ Contains(created', events'[e].session)
    BY <1>0, <1>1 DEF Existing, Exists
  <2> QED BY <2>3, <2>4, <2>5 DEF Existing, Exists
<1>8. Rooted'
  <2>1. \A d \in Ids : d \notin Sessions \/ ~Contains(created', d) => root'[d] = d
    BY <1>0, <1>1, <1>2, <1>3 DEF Rooted
  <2>2. page' = "chat" \/ loading'.stage # "over" =>
          /\ \A d \in Ids : Talks(d)' => root'[d] \in Local
          /\ \A d \in Ids : root'[d] \in Local \cup {d}
    BY <1>0, <1>1, <1>2, <1>3, <1>6 DEF Rooted
  <2> QED BY <2>1, <2>2, <1>1, <1>5 DEF Rooted, Coming
<1>9. Together'
  <2>1. ASSUME NEW d \in Ids, NEW x \in Ids, Talks(d)', Talks(x)', root'[d] = root'[x], d # x
        PROVE  root'[d] \in split
    BY <2>1, <1>0, <1>2, <1>3, <1>6 DEF Together
  <2> QED BY <2>1, <1>1 DEF Together
<1>10. Placed'
  BY <1>0, <1>1, <1>4, <1>6 DEF Placed
<1> QED BY <1>7, <1>8, <1>9, <1>10

(* The other answers.                                                      *)
LEMMA AnswerTalks ==
  ASSUME PageInv, Answers, PageTypeOK'
  PROVE  Existing' /\ Rooted' /\ Together' /\ Placed'
<1> USE DEF viewVars, askVars, sourceVars, serverVars, history
<1>0. PageTypeOK /\ Existing /\ Rooted /\ Together /\ Placed /\ Sourced
  BY DEF PageInv
<1>a. /\ None \notin Ids /\ Sessions \subseteq Ids /\ Local \cap Sessions = {}
      /\ Local \cap Old = {} /\ Sessions \cup Old \subseteq Ids
      /\ traces \in EntryMaps /\ registered \in [Ids -> Nat] /\ sources \in Seq(Sources)
      /\ messages \in Seq(Sayings) /\ order \in Seq(Ids)
      /\ pending # None => /\ pending.conv \in Ids /\ pending.thread = root[pending.conv]
                           /\ pending.session \in Sessions \cup {None}
                           /\ Talks(pending.conv)
      /\ active # None => Talks(active)
  BY <1>0, PageTypes DEF Rooted, Talks, PageTypeOK
<1>b. ASSUME UNCHANGED <<page, mounted, order, active, messages, root, gone, split, created>>,
             pending' = pending \/ pending' = None,
             loading'.stage = loading.stage \/ (loading.stage # "over" /\ mounted)
      PROVE  QuietTalk /\ QuietList
  <2>1. \A m \in DOMAIN messages' : KeptMessage(m)
    BY <1>b, <1>0, SameMessages
  <2>2. QuietTalk
    BY <1>b, <1>a, <2>1 DEF QuietTalk
  <2>3. QuietList
    BY <1>b, <1>0 DEF QuietList, Placed
  <2> QED BY <2>2, <2>3
<1>c. ASSUME NEW s \in Ids, Exists(s), EnsuresStream(s, registered, sources)
      PROVE  \A k \in DOMAIN sources' : Exists(sources'[k].session)
  <2>0. registered \in [Ids -> Nat] /\ sources \in Seq(Sources) /\ s \in Ids
        /\ EnsuresStream(s, registered, sources)
    BY <1>a, <1>c
  <2>1. /\ registered[s] # 0 => sources' = sources
        /\ registered[s] = 0 =>
             /\ DOMAIN sources' = 1 .. Len(sources) + 1
             /\ \A j \in DOMAIN sources : sources'[j] = sources[j]
             /\ sources'[Len(sources) + 1] =
                  [session |-> s, state |-> "connecting", coming |-> {}]
    BY <2>0, EnsuredStream
  <2>2. DOMAIN sources = 1 .. Len(sources) /\ Len(sources) \in Nat
    BY <1>a
  <2>3. ASSUME NEW k \in DOMAIN sources'
        PROVE  sources'[k].session = s \/ (k \in DOMAIN sources /\ sources'[k] = sources[k])
    BY <2>1, <2>2
  <2> QED BY <2>3, <1>0, <1>c DEF Existing
<1>1. ASSUME AnswerTask
      PROVE  Existing' /\ Rooted' /\ Together' /\ Placed'
  BY <1>1, TaskTalks
<1>2. ASSUME AnswerInWords
      PROVE  Existing' /\ Rooted' /\ Together' /\ Placed'
  <2> DEFINE c == pending.conv
  <2>1. /\ mounted /\ pending # None /\ messages' = Append(messages, Answer(c))
        /\ traces' = Upserted(traces, c, "idle") /\ pending' = None
        /\ UNCHANGED <<page, mounted, order, active, follow, syncing, renaming, loading,
                       sourceVars, serverVars, history>>
    BY <1>2 DEF AnswerInWords, Answered
  <2>2. /\ c \in Ids /\ Talks(c) /\ Answer(c).conv = c /\ Answer(c).thread = root[c]
        /\ Answer(c) \in Sayings
    <3>1. pending.no \in Nat /\ pending.thread \in Ids
      BY <1>0, <2>1, PageTypes
    <3> QED BY <3>1, <2>1, <1>a DEF Answer, Sayings, Words
  <2> HIDE DEF c
  <2>3. \A m \in DOMAIN messages' : KeptMessage(m) \/ AddedMessage(m)
    <3>1. \A m \in DOMAIN messages' :
            \/ m \in DOMAIN messages /\ messages'[m] = messages[m]
            \/ messages'[m] = Answer(c)
      BY <1>a, <2>1, <2>2
    <3> QED BY <2>1, <2>2, <3>1 DEF KeptMessage, AddedMessage
  <2>4. QuietTalk
    BY <1>a, <2>1, <2>3 DEF QuietTalk
  <2>5. \A d \in Ids \ {c} : traces'[d] = traces[d]
    <3>1. "idle" \in Status
      BY DEF Status
    <3> QED BY <3>1, <1>a, <2>1, <2>2, UpsertedEntry
  <2>6. QuietKnowledge
    BY <1>0, <2>1, <2>2, <2>5 DEF QuietKnowledge, Existing
  <2>7. QuietList
    BY <2>1 DEF QuietList
  <2> QED BY <2>4, <2>6, <2>7, QuietStep
<1>3. ASSUME AnswerFails
      PROVE  Existing' /\ Rooted' /\ Together' /\ Placed'
  <2>1. QuietTalk /\ QuietList
    BY <1>3, <1>b DEF AnswerFails, Answered
  <2>2. QuietKnowledge
    BY <1>3, <1>0 DEF AnswerFails, Answered, QuietKnowledge, Existing
  <2> QED BY <2>1, <2>2, QuietStep
<1>4. ASSUME AnswerTooLate
      PROVE  Existing' /\ Rooted' /\ Together' /\ Placed'
  <2>1. QuietTalk /\ QuietList
    BY <1>4, <1>b DEF AnswerTooLate, Answered
  <2>2. \A k \in DOMAIN sources' : Exists(sources'[k].session)
    <3>1. CASE pending.session = None
      BY <1>4, <3>1, <1>0 DEF AnswerTooLate, Existing
    <3>2. CASE pending.session # None
      <4>1. pending.session \in Sessions /\ Coming(pending.session)
        BY <1>4, <3>2, <1>a DEF AnswerTooLate, Coming
      <4>2. Exists(pending.session) /\ pending.session \in Ids
        BY <4>1, <1>0, <1>a DEF Rooted, Exists
      <4> QED BY <1>4, <3>2, <4>2, <1>c DEF AnswerTooLate
    <3> QED BY <3>1, <3>2
  <2>3. QuietKnowledge
    BY <1>4, <1>0, <2>2 DEF AnswerTooLate, Answered, QuietKnowledge, Existing
  <2> QED BY <2>1, <2>3, QuietStep
<1>5. ASSUME SyncBringsFeedback
      PROVE  Existing' /\ Rooted' /\ Together' /\ Placed'
  <2>1. syncing \in Ids
    <3>1. created \in Seq(Sessions \cup Old)
      BY <1>0 DEF PageTypeOK
    <3>2. \A x : Contains(created, x) => x \in Sessions \cup Old
      BY <3>1, ElementsIn
    <3> QED BY <3>2, <1>5, <1>a DEF SyncBringsFeedback
  <2>2. QuietTalk /\ QuietList
    BY <1>5, <1>b DEF SyncBringsFeedback, Synced
  <2>3. \A k \in DOMAIN sources' : Exists(sources'[k].session)
    BY <1>5, <1>c, <2>1 DEF SyncBringsFeedback, Exists
  <2>4. \A d \in Ids \ {syncing} : traces'[d] = traces[d]
    BY <1>5, <1>a, <2>1, EnsuredEntry DEF SyncBringsFeedback
  <2>5. QuietKnowledge
    <3>1. syncing' = None /\ UNCHANGED <<renaming, loading, events>>
      BY <1>5 DEF SyncBringsFeedback, Synced
    <3> QED BY <3>1, <1>0, <1>a, <2>3, <2>4 DEF QuietKnowledge, Existing
  <2> QED BY <2>2, <2>5, QuietStep
<1>6. ASSUME SyncBringsNothing
      PROVE  Existing' /\ Rooted' /\ Together' /\ Placed'
  <2>1. QuietTalk /\ QuietList
    BY <1>6, <1>b DEF SyncBringsNothing, Synced
  <2>2. QuietKnowledge
    BY <1>6, <1>0, <1>a DEF SyncBringsNothing, Synced, QuietKnowledge, Existing
  <2> QED BY <2>1, <2>2, QuietStep
<1>7. ASSUME RenameEnds
      PROVE  Existing' /\ Rooted' /\ Together' /\ Placed'
  <2>1. renaming \in Ids
    BY <1>0, <1>7 DEF RenameEnds, PageTypeOK
  <2>2. QuietTalk /\ QuietList
    BY <1>7, <1>b DEF RenameEnds
  <2>3. \A d \in Ids \ {renaming} : traces'[d] = traces[d]
    BY <1>7, <1>a, <2>1, EnsuredEntry DEF RenameEnds
  <2>4. QuietKnowledge
    <3>1. renaming' = None /\ UNCHANGED <<syncing, loading, events, sources>>
      BY <1>7 DEF RenameEnds
    <3> QED BY <3>1, <1>0, <1>a, <2>3 DEF QuietKnowledge, Existing
  <2> QED BY <2>2, <2>4, QuietStep
<1>8. ASSUME ReadProject
      PROVE  Existing' /\ Rooted' /\ Together' /\ Placed'
  <2>1. loading'.stage = "read" /\ loading'.list = created /\ loading.stage = "reading"
    BY <1>8 DEF ReadProject
  <2>2. mounted
    BY <2>1, <1>0 DEF Placed, PageTypeOK
  <2>3. QuietTalk /\ QuietList
    BY <1>8, <1>b, <2>1, <2>2 DEF ReadProject
  <2>4. QuietKnowledge
    BY <1>8, <2>1, <1>0 DEF ReadProject, QuietKnowledge, Existing
  <2> QED BY <2>3, <2>4, QuietStep
<1>9. ASSUME LoadProject
      PROVE  Existing' /\ Rooted' /\ Together' /\ Placed'
  <2> DEFINE listed == ToSet(loading.list)
  <2>1. /\ loading.stage = "read" /\ loading'.stage = "over" /\ loading'.list = loading.list
        /\ UNCHANGED <<page, mounted, follow, messages, pending, syncing, renaming, sourceVars,
                       serverVars, root, late, abandoned>>
    BY <1>9, <1>0 DEF LoadProject, PageTypeOK, Loadings
  <2>2. mounted /\ page # "chat"
    BY <2>1, <1>0 DEF Placed, PageTypeOK, PageInv, Chatting
  <2>3. /\ listed = { x \in Sessions \cup Old : Contains(loading.list, x) }
        /\ \A x : Contains(loading.list, x) => x \in Sessions \cup Old
        /\ listed # {} => Contains(loading.list, loading.list[1])
    <3>1. loading.list \in Seq(Sessions \cup Old)
      BY <1>0, PageTypes
    <3> QED BY <3>1, ElementsIn, FirstElement
  <2>4. CASE listed = {}
    <3>1. UNCHANGED <<order, traces, active, gone, brought, split>>
      BY <1>9, <2>4 DEF LoadProject
    <3>2. QuietTalk /\ QuietList
      BY <3>1, <2>1, <2>2, <1>b
    <3>3. QuietKnowledge
      BY <3>1, <2>1, <1>0 DEF QuietKnowledge, Existing
    <3> QED BY <3>2, <3>3, QuietStep
  <2>5. CASE listed # {}
    <3>1. /\ order' = loading.list
          /\ traces' = [c \in Ids |-> IF c \in listed THEN Entry("reported", {}) ELSE traces[c]]
          /\ active' = IF active = None THEN loading.list[1] ELSE active
          /\ gone' = gone \cup (ToSet(order) \ listed)
          /\ split' = split \cup { root[s] : s \in { d \in listed \ ToSet(order) : root[d] # d } }
      BY <1>9, <2>5 DEF LoadProject
    <3> HIDE DEF listed
    <3>2. \A d \in Ids : d \in ToSet(order) <=> Contains(order, d)
      BY <1>a, ElementsIn
    <3>3. \A d \in Ids : Talks(d)' => Talks(d) \/ (d \in listed /\ d \notin ToSet(order))
      BY <2>1, <2>3, <2>5, <3>1, <3>2 DEF Talks, Speaks
    <3>4. Existing'
      <4>1. \A d \in Ids : Talks(d)' \/ traces'[d] # None \/ syncing' = d \/ renaming' = d
                             => d \in Local \/ Contains(created', d)
        <5>1. \A d \in Ids : d \in listed => Contains(created, d)
          BY <1>0, <1>a, <2>3 DEF Existing, Exists
        <5>2. \A d \in Ids : traces'[d] # None => traces[d] # None \/ d \in listed
          BY <3>1
        <5> QED BY <5>1, <5>2, <3>3, <2>1, <1>0 DEF Existing, Exists
      <4>2. /\ \A k \in DOMAIN sources' : sources'[k].session \in Local
                                          \/ Contains(created', sources'[k].session)
            /\ \A d \in Ids : Contains(loading'.list, d) => d \in Local \/ Contains(created', d)
            /\ \A e \in DOMAIN events' : events'[e].session \in Local
                                         \/ Contains(created', events'[e].session)
        BY <1>0, <2>1 DEF Existing, Exists
      <4> QED BY <4>1, <4>2 DEF Existing, Exists
    <3>5. Rooted'
      BY <1>0, <2>1, <2>2 DEF Rooted, Coming, Speaks
    <3>6. Together'
      <4>1. ASSUME NEW c \in Ids, NEW d \in Ids, Talks(c)', Talks(d)', root[c] = root[d], c # d
            PROVE  root[c] \in split'
        <5>1. CASE Talks(c) /\ Talks(d)
          BY <5>1, <4>1, <3>1, <1>0 DEF Together
        <5>2. \A x \in Ids : Talks(x) => root[x] \in Local
          BY <2>1, <1>0 DEF Rooted
        <5>3. \A x \in listed \ ToSet(order) : /\ root[x] # x => root[x] \in split'
                                               /\ x \notin Local
          BY <3>1, <2>3, <1>a
        <5> QED BY <5>1, <5>2, <5>3, <4>1, <3>3
      <4> QED BY <4>1, <2>1 DEF Together
    <3>7. Placed'
      BY <1>0, <2>1, <2>2, <2>3, <3>1, <3>2, <3>3 DEF Placed
    <3> QED BY <3>4, <3>5, <3>6, <3>7
  <2> QED BY <2>4, <2>5
<1> QED BY <1>1, <1>2, <1>3, <1>4, <1>5, <1>6, <1>7, <1>8, <1>9 DEF Answers
-----------------------------------------------------------------------------
(* Event sources match sessions.                                           *)

(* What holds of a register and a list of sources.                         *)
Kept(register, list) ==
  /\ \A k \in DOMAIN list : list[k].coming \subseteq EventsOf(list[k].session)
  /\ \A c \in Ids : register[c] # 0 =>
       register[c] \in DOMAIN list /\ list[register[c]].session = c

OneEach(register, list) ==
  \A k \in DOMAIN list :
    list[k].state \notin {"closed", "refused"} => register[list[k].session] = k

(* The invariant, of the register and the list that there are.             *)
LEMMA SourcesKept ==
  ASSUME PageTypeOK, Sourced
  PROVE  /\ registered \in [Ids -> Nat] /\ sources \in Seq(Sources)
         /\ Kept(registered, sources) /\ (mounted => OneEach(registered, sources))
BY DEF PageTypeOK, Sourced, Kept, OneEach, Open

(* The source of a conversation is closed and forgotten.                   *)
LEMMA ClosedKept ==
  ASSUME NEW register \in [Ids -> Nat], NEW list \in Seq(Sources), NEW c \in Ids,
         Kept(register, list)
  PROVE  LET free == [register EXCEPT ![c] = 0]
             rest == Closed(list, register[c])
         IN  /\ free \in [Ids -> Nat] /\ rest \in Seq(Sources)
             /\ Kept(free, rest) /\ (OneEach(register, list) => OneEach(free, rest))
<1> DEFINE free == [register EXCEPT ![c] = 0]
           rest == Closed(list, register[c])
<1>1. /\ register[c] \in Nat /\ register[c] # 0 => register[c] \in DOMAIN list
      /\ 0 \notin DOMAIN list
  BY DEF Kept
<1>2. /\ rest \in Seq(Sources) /\ DOMAIN rest = DOMAIN list
      /\ \A j \in DOMAIN list : j # register[c] => rest[j] = list[j]
      /\ \A j \in DOMAIN list : rest[j].session = list[j].session
      /\ register[c] # 0 => rest[register[c]].state = "closed" /\ rest[register[c]].coming = {}
  BY <1>1, ClosedSource
<1>3. free \in [Ids -> Nat] /\ free[c] = 0 /\ \A d \in Ids \ {c} : free[d] = register[d]
  OBVIOUS
<1>4. \A j \in DOMAIN list : list[j].session \in Ids
  <2>1. \A j \in DOMAIN list : list[j] \in Sources
    OBVIOUS
  <2> QED BY <2>1 DEF Sources
<1> HIDE DEF free, rest
<1>5. ASSUME NEW j \in DOMAIN rest PROVE rest[j].coming \subseteq EventsOf(rest[j].session)
  <2>1. CASE j = register[c]
    BY <2>1, <1>1, <1>2
  <2>2. CASE j # register[c]
    BY <2>2, <1>2 DEF Kept
  <2> QED BY <2>1, <2>2
<1>6. Kept(free, rest)
  BY <1>2, <1>3, <1>5 DEF Kept
<1>7. OneEach(register, list) => OneEach(free, rest)
  BY <1>1, <1>2, <1>3, <1>4 DEF OneEach
<1> QED BY <1>2, <1>3, <1>6, <1>7 DEF free, rest

(* A session gets a source.                                                *)
LEMMA EnsuredKept ==
  ASSUME NEW s \in Ids, NEW register \in [Ids -> Nat], NEW list \in Seq(Sources),
         EnsuresStream(s, register, list), Kept(register, list)
  PROVE  /\ Kept(registered', sources') /\ registered'[s] # 0
         /\ OneEach(register, list) => OneEach(registered', sources')
         /\ \A d \in Ids \ {s} : registered'[d] = register[d]
<1>1. CASE register[s] # 0
  BY <1>1 DEF EnsuresStream
<1>2. CASE register[s] = 0
  <2> DEFINE one == [session |-> s, state |-> "connecting", coming |-> {}]
             n == Len(list) + 1
  <2>1. /\ sources' \in Seq(Sources) /\ DOMAIN sources' = 1 .. n
        /\ \A j \in DOMAIN list : sources'[j] = list[j]
        /\ sources'[n] = one
        /\ registered'[s] = n
        /\ \A d \in Ids \ {s} : registered'[d] = register[d]
    BY <1>2, EnsuredStream
  <2>2. DOMAIN list = 1 .. Len(list) /\ Len(list) \in Nat
    OBVIOUS
  <2>3. one.session = s /\ one.state = "connecting" /\ one.coming = {}
    OBVIOUS
  <2>4. \A j \in DOMAIN sources' : (j \in DOMAIN list /\ sources'[j] = list[j] /\ j # n) \/ j = n
    BY <2>1, <2>2
  <2>5. n # 0 /\ n \in DOMAIN sources' /\ DOMAIN list \subseteq DOMAIN sources'
    BY <2>1, <2>2
  <2> HIDE DEF one, n
  <2>6. \A j \in DOMAIN sources' : sources'[j].coming \subseteq EventsOf(sources'[j].session)
    BY <2>1, <2>3, <2>4 DEF Kept
  <2>7. \A c \in Ids : registered'[c] # 0 =>
          registered'[c] \in DOMAIN sources' /\ sources'[registered'[c]].session = c
    BY <2>1, <2>3, <2>5 DEF Kept
  <2>8. Kept(registered', sources')
    BY <2>6, <2>7 DEF Kept
  <2>9. \A j \in DOMAIN list : list[j].session \in Ids
    <3>1. \A j \in DOMAIN list : list[j] \in Sources
      OBVIOUS
    <3> QED BY <3>1 DEF Sources
  <2>10. ASSUME OneEach(register, list), NEW j \in DOMAIN sources',
                sources'[j].state \notin {"closed", "refused"}
         PROVE  registered'[sources'[j].session] = j
    <3>1. CASE j = n
      BY <3>1, <2>1, <2>3
    <3>2. CASE j # n
      <4>1. j \in DOMAIN list /\ sources'[j] = list[j] /\ register[list[j].session] = j /\ j # 0
        BY <3>2, <2>2, <2>4, <2>10 DEF OneEach
      <4>2. list[j].session # s
        BY <4>1, <1>2
      <4> QED BY <4>1, <4>2, <2>1, <2>9
    <3> QED BY <3>1, <3>2
  <2>11. OneEach(register, list) => OneEach(registered', sources')
    BY <2>10 DEF OneEach
  <2> QED BY <2>1, <2>5, <2>8, <2>11
<1> QED BY <1>1, <1>2

(* A step in which the events stay, those of the entries come from them,   *)
(* and sources and register match.                                         *)
LEMMA SourcedStep ==
  ASSUME PageInv, PageTypeOK', UNCHANGED events,
         \A c \in Ids : traces'[c] # None =>
           \/ traces'[c].events = {}
           \/ \E d \in Ids : traces[d] # None /\ traces'[c].events = traces[d].events,
         Kept(registered', sources'),
         mounted' => OneEach(registered', sources'),
         mounted' => \A s \in Sessions : root'[s] # s /\ Contains(order', s) /\ s \notin brought'
                                           => registered'[s] # 0,
         ~mounted' /\ ~abandoned' => pending' = None /\ syncing' = None /\ Open' = {}
  PROVE  Sourced'
<1>1. Sourced
  BY DEF PageInv
<1>2. \A c \in Ids : traces'[c] # None => traces'[c].events \subseteq DOMAIN events'
  BY <1>1 DEF Sourced
<1>3. \A k \in DOMAIN sources' : \A e \in sources'[k].coming :
        e \in DOMAIN events' /\ events'[e].session = sources'[k].session
  BY DEF Kept, EventsOf
<1>4. \A c \in Ids : registered'[c] # 0 =>
        registered'[c] \in DOMAIN sources' /\ sources'[registered'[c]].session = c
  BY DEF Kept
<1>5. mounted' => \A k \in Open' : registered'[sources'[k].session] = k
  BY DEF OneEach, Open
<1> QED BY <1>2, <1>3, <1>4, <1>5 DEF Sourced, EventsOf

(* A deletion closes the source of the conversation, and leaving the page  *)
(* closes them all.                                                        *)
LEMMA UserSourced ==
  ASSUME PageInv, User, PageTypeOK'
  PROVE  Sourced'
<1> USE DEF viewVars, askVars, sourceVars, serverVars, history
<1>0. PageTypeOK /\ Sourced
  BY DEF PageInv
<1>a. /\ registered \in [Ids -> Nat] /\ sources \in Seq(Sources) /\ traces \in EntryMaps
      /\ Kept(registered, sources) /\ (mounted => OneEach(registered, sources))
      /\ Local \subseteq Ids /\ Sessions \subseteq Ids /\ Local \cap Sessions = {}
  BY <1>0, SourcesKept, PageTypes
<1>b. ASSUME mounted, UNCHANGED <<mounted, registered, sources, events, root, brought>>,
             \A c \in Ids : traces'[c] # None =>
               traces'[c].events = {} \/ (traces[c] # None /\ traces'[c].events = traces[c].events),
             \A s \in Sessions : Contains(order', s) => Contains(order, s)
      PROVE  Sourced'
  BY <1>a, <1>b, <1>0, SourcedStep DEF Sourced
<1>1. ASSUME NEW c \in Local, CreateLocalSession(c) PROVE Sourced'
  <2>1. \A d \in Ids : traces'[d] # None =>
          traces'[d].events = {} \/ (traces[d] # None /\ traces'[d].events = traces[d].events)
    <3>1. traces' = Ensured(traces, c) /\ c \in Ids
      BY <1>1, <1>a DEF CreateLocalSession
    <3> QED BY <3>1, <1>a, EnsuredEntry
  <2>2. \A s \in Sessions : Contains(order', s) => Contains(order, s)
    <3>1. order \in Seq(Ids) /\ c \in Ids /\ order' = <<c>> \o order
      BY <1>0, <1>1, <1>a DEF CreateLocalSession, PageTypeOK
    <3> QED BY <3>1, <1>a, ConsElements
  <2> QED BY <1>1, <1>b, <2>1, <2>2 DEF CreateLocalSession
<1>2. ASSUME NEW c \in Ids, SelectSession(c) PROVE Sourced'
  BY <1>2, <1>b DEF SelectSession
<1>3. ASSUME NEW c \in Ids, DeleteSession(c) PROVE Sourced'
  <2>1. /\ mounted /\ order' = Without(order, {c})
        /\ traces' = [traces EXCEPT ![c] = None]
        /\ registered' = [registered EXCEPT ![c] = 0]
        /\ sources' = Closed(sources, registered[c])
        /\ UNCHANGED <<mounted, events, root, brought>>
    BY <1>3 DEF DeleteSession
  <2>2. Kept(registered', sources') /\ OneEach(registered', sources')
    BY <1>a, <2>1, ClosedKept
  <2>3. \A d \in Ids : traces'[d] # None => traces[d] # None /\ traces'[d].events = traces[d].events
    BY <1>0, <2>1 DEF PageTypeOK
  <2>4. \A s \in Sessions : Contains(order', s) => Contains(order, s) /\ s # c
    <3>1. order \in Seq(Ids)
      BY <1>0 DEF PageTypeOK
    <3>2. \A x : Contains(Without(order, {c}), x) <=> Contains(order, x) /\ x \notin {c}
      BY <3>1, WithoutElements
    <3> QED BY <3>2, <2>1
  <2>5. \A s \in Sessions : root'[s] # s /\ Contains(order', s) /\ s \notin brought'
                              => registered'[s] # 0
    BY <1>0, <1>a, <2>1, <2>4 DEF Sourced
  <2> QED BY <2>1, <2>2, <2>3, <2>5, SourcedStep
<1>4. ASSUME NEW c \in Ids, CommitRename(c) PROVE Sourced'
  BY <1>4, <1>b DEF CommitRename
<1>5. ASSUME ToggleFollow PROVE Sourced'
  BY <1>5, <1>b DEF ToggleFollow
<1>6. ASSUME Submit PROVE Sourced'
  BY <1>6, <1>b DEF Submit
<1>7. ASSUME SyncScmFeedback PROVE Sourced'
  BY <1>7, <1>b DEF SyncScmFeedback
<1>8. ASSUME LeavePage PROVE Sourced'
  <2>1. /\ mounted' = FALSE /\ traces' = [c \in Ids |-> None]
        /\ registered' = [c \in Ids |-> 0]
        /\ sources' = [k \in DOMAIN sources |->
                         IF k \in Open THEN [sources[k] EXCEPT !.state = "closed", !.coming = {}]
                         ELSE sources[k]]
        /\ UNCHANGED <<pending, syncing, events>>
    BY <1>8 DEF LeavePage
  <2>2. ASSUME NEW k \in DOMAIN sources
        PROVE  /\ sources'[k].session = sources[k].session
               /\ sources'[k].coming \subseteq sources[k].coming
               /\ sources'[k].state \in {"closed", "refused"}
    <3>1. sources[k] \in Sources
      BY <1>0 DEF PageTypeOK
    <3>2. CASE k \in Open
      BY <2>1, <3>1, <3>2 DEF Sources
    <3>3. CASE k \notin Open
      BY <2>1, <3>3 DEF Open
    <3> QED BY <3>2, <3>3
  <2>3. DOMAIN sources' = DOMAIN sources
    BY <2>1
  <2>4. Kept(registered', sources')
    BY <1>a, <2>1, <2>2, <2>3 DEF Kept
  <2>5. Open' = {}
    BY <2>2, <2>3 DEF Open
  <2>6. ~abandoned' => pending' = None /\ syncing' = None
    <3>1. abandoned' = (pending # None \/ syncing # None)
      BY <1>8 DEF LeavePage
    <3> QED BY <3>1, <2>1
  <2> QED BY <2>1, <2>4, <2>5, <2>6, SourcedStep
<1> QED BY <1>1, <1>2, <1>3, <1>4, <1>5, <1>6, <1>7, <1>8 DEF User

(* An event that is emitted goes to the sources of its session.            *)
LEMMA ServerSourced ==
  ASSUME PageInv, ServerActs, PageTypeOK'
  PROVE  Sourced'
<1> USE DEF viewVars, askVars, sourceVars, serverVars, history
<1>0. PageTypeOK /\ Sourced
  BY DEF PageInv
<1>a. /\ registered \in [Ids -> Nat] /\ sources \in Seq(Sources) /\ traces \in EntryMaps
      /\ Kept(registered, sources) /\ (mounted => OneEach(registered, sources))
      /\ DOMAIN events = 1 .. Len(events) /\ Len(events) \in Nat
      /\ \A k \in DOMAIN sources : sources[k] \in Sources
  <2>1. /\ registered \in [Ids -> Nat] /\ sources \in Seq(Sources) /\ traces \in EntryMaps
        /\ Kept(registered, sources) /\ (mounted => OneEach(registered, sources))
        /\ DOMAIN events = 1 .. Len(events) /\ Len(events) \in Nat
    BY <1>0, SourcesKept, PageTypes
  <2> QED BY <2>1
<1>1. ASSUME NEW s \in Sessions, CreateSession(s) PROVE Sourced'
  <2>1. /\ pending # None
        /\ UNCHANGED <<page, mounted, viewVars, syncing, renaming, loading, sourceVars,
                       events, left, history>>
    BY <1>1 DEF CreateSession
  <2>2. mounted' \/ abandoned'
    BY <2>1, <1>0 DEF Sourced
  <2> QED BY <1>a, <1>0, <2>1, <2>2, SourcedStep DEF Sourced
<1>2. ASSUME NEW s \in Sessions \cup Old, NEW kind \in Kinds, Emit(s, kind) PROVE Sourced'
  <2> DEFINE one == [session |-> s, kind |-> kind]
             e == Len(events')
  <2>1. /\ events' = Append(events, one)
        /\ sources' = [k \in DOMAIN sources |->
                         IF sources[k].session = s /\ sources[k].state = "live"
                         THEN [sources[k] EXCEPT !.coming = @ \cup {e}] ELSE sources[k]]
        /\ UNCHANGED <<page, mounted, viewVars, askVars, registered, created, history>>
    BY <1>2 DEF Emit
  <2>2. /\ DOMAIN events' = DOMAIN events \cup {e} /\ events'[e] = one /\ one.session = s
        /\ \A d \in DOMAIN events : events'[d] = events[d]
    <3>1. one \in Happenings /\ one.session = s
      BY DEF Happenings
    <3>2. events \in Seq(Happenings)
      BY <1>0 DEF PageTypeOK
    <3> HIDE DEF one
    <3> QED BY <2>1, <3>1, <3>2
  <2> HIDE DEF one, e
  <2>3. ASSUME NEW k \in DOMAIN sources
        PROVE  /\ sources'[k].session = sources[k].session
               /\ sources'[k].state = sources[k].state
               /\ \/ sources'[k].coming = sources[k].coming
                  \/ sources'[k].coming = sources[k].coming \cup {e} /\ sources[k].session = s
    <3>1. sources[k] \in Sources
      BY <1>a
    <3> QED BY <3>1, <2>1 DEF Sources
  <2>4. DOMAIN sources' = DOMAIN sources
    BY <2>1
  <2>5. \A c \in Ids : traces'[c] # None => traces'[c].events \subseteq DOMAIN events'
    BY <2>1, <2>2, <1>0 DEF Sourced
  <2>6. \A k \in DOMAIN sources' : \A d \in sources'[k].coming :
          d \in DOMAIN events' /\ events'[d].session = sources'[k].session
    <3>1. ASSUME NEW k \in DOMAIN sources', NEW d \in sources'[k].coming
          PROVE  d \in DOMAIN events' /\ events'[d].session = sources'[k].session
      <4>1. CASE d \in sources[k].coming
        BY <4>1, <3>1, <2>2, <2>3, <2>4, <1>0 DEF Sourced, EventsOf
      <4>2. CASE d \notin sources[k].coming
        BY <4>2, <3>1, <2>2, <2>3, <2>4
      <4> QED BY <4>1, <4>2
    <3> QED BY <3>1
  <2>7. \A c \in Ids : registered'[c] # 0 =>
          registered'[c] \in DOMAIN sources' /\ sources'[registered'[c]].session = c
    BY <2>1, <2>3, <2>4, <1>0 DEF Sourced
  <2>8. Open' = Open
    BY <2>3, <2>4 DEF Open
  <2>9. mounted' => \A k \in Open' : registered'[sources'[k].session] = k
    BY <2>1, <2>3, <2>8, <1>0 DEF Sourced, Open
  <2>10. /\ mounted' => \A x \in Sessions : root'[x] # x /\ Contains(order', x) /\ x \notin brought'
                                           => registered'[x] # 0
         /\ ~mounted' /\ ~abandoned' => pending' = None /\ syncing' = None /\ Open' = {}
    BY <2>1, <2>8, <1>0 DEF Sourced
  <2> QED BY <2>5, <2>6, <2>7, <2>9, <2>10 DEF Sourced, EventsOf
<1>3. ASSUME NEW k \in DOMAIN sources, NEW state, NEW coming, SourceBecomes(k, state, coming),
             k \in Open, coming \subseteq EventsOf(sources[k].session)
      PROVE  Sourced'
  <2>1. /\ sources' = [sources EXCEPT ![k].state = state, ![k].coming = coming]
        /\ UNCHANGED <<page, mounted, viewVars, askVars, registered, created, events, history>>
    BY <1>3 DEF SourceBecomes
  <2>2. /\ DOMAIN sources' = DOMAIN sources
        /\ \A j \in DOMAIN sources : j # k => sources'[j] = sources[j]
        /\ sources'[k].session = sources[k].session /\ sources'[k].coming = coming
    <3>1. sources[k] \in Sources
      BY <1>a
    <3> QED BY <2>1, <3>1 DEF Sources
  <2>3. Kept(registered', sources')
    BY <1>3, <1>a, <2>1, <2>2 DEF Kept
  <2>4. mounted => OneEach(registered', sources')
    BY <1>3, <1>a, <2>1, <2>2 DEF OneEach, Open
  <2>5. mounted \/ abandoned
    BY <1>3, <1>0 DEF Sourced
  <2> QED BY <2>1, <2>3, <2>4, <2>5, <1>0, SourcedStep DEF Sourced
<1>4. ASSUME NEW k \in DOMAIN sources, ListStream(k) PROVE Sourced'
  BY <1>3, <1>4 DEF ListStream, Open
<1>5. ASSUME NEW k \in DOMAIN sources, SubscribeStream(k) PROVE Sourced'
  BY <1>3, <1>5, <1>0 DEF SubscribeStream, Open, Sourced
<1>6. ASSUME NEW k \in DOMAIN sources, RefuseStream(k) PROVE Sourced'
  BY <1>3, <1>6 DEF RefuseStream, Open
<1>7. ASSUME NEW k \in DOMAIN sources, DropStream(k) PROVE Sourced'
  BY <1>3, <1>7 DEF DropStream, Open
<1> QED BY <1>1, <1>2, <1>4, <1>5, <1>6, <1>7 DEF ServerActs

(* A source has one event less to deliver.                                 *)
LEMMA DeliverSourced ==
  ASSUME PageInv, NEW k \in DOMAIN sources, Deliver(k), PageTypeOK'
  PROVE  Sourced'
<1> DEFINE s == sources[k].session
           e == Min(sources[k].coming)
<1>0. PageTypeOK /\ Sourced
  BY DEF PageInv
<1>1. /\ s \in Ids /\ e \in EventsOf(s) /\ DOMAIN sources' = DOMAIN sources
      /\ \A j \in DOMAIN sources : /\ sources'[j].session = sources[j].session
                                   /\ sources'[j].state = sources[j].state
                                   /\ sources'[j].coming \subseteq sources[j].coming
      /\ ~IsNews(s, e) => UNCHANGED traces
      /\ IsNews(s, e) =>
           /\ traces[s] # None /\ traces'[s].events = Capped(traces[s].events \cup {e})
           /\ \A c \in Ids \ {s} : traces'[c] = traces[c]
  BY DeliveredEvent
<1>2. /\ mounted
      /\ UNCHANGED <<mounted, order, registered, events, root, brought, pending, syncing>>
  BY DEF Deliver, askVars, serverVars
<1> HIDE DEF s, e
<1>3. \A c \in Ids : traces'[c] # None => traces'[c].events \subseteq DOMAIN events'
  <2>1. e \in DOMAIN events
    BY <1>1 DEF EventsOf
  <2>2. \A T : Capped(T) \subseteq T
    BY DEF Capped
  <2>3. IsNews(s, e) => traces'[s].events \subseteq DOMAIN events
    <3>1. traces[s] # None => traces[s].events \subseteq DOMAIN events
      BY <1>0, <1>1 DEF Sourced
    <3>2. Capped(traces[s].events \cup {e}) \subseteq traces[s].events \cup {e}
      BY <2>2
    <3> QED BY <1>1, <2>1, <3>1, <3>2
  <2> QED BY <1>0, <1>1, <1>2, <2>3 DEF Sourced
<1>4. /\ \A j \in DOMAIN sources' : \A d \in sources'[j].coming :
           d \in DOMAIN events' /\ events'[d].session = sources'[j].session
      /\ \A c \in Ids : registered'[c] # 0 =>
           registered'[c] \in DOMAIN sources' /\ sources'[registered'[c]].session = c
      /\ mounted' => \A j \in Open' : registered'[sources'[j].session] = j
  BY <1>0, <1>1, <1>2 DEF Sourced, EventsOf, Open
<1>5. \A x \in Sessions : root'[x] # x /\ Contains(order', x) /\ x \notin brought'
                            => registered'[x] # 0
  BY <1>0, <1>2 DEF Sourced
<1> QED BY <1>2, <1>3, <1>4, <1>5 DEF Sourced, EventsOf

(* A task that is answered, and a refresh, register the source that they   *)
(* open.                                                                   *)
LEMMA AnswerSourced ==
  ASSUME PageInv, Answers, PageTypeOK'
  PROVE  Sourced'
<1> USE DEF viewVars, askVars, sourceVars, serverVars, history
<1>0. PageTypeOK /\ Sourced
  BY DEF PageInv
<1>a. /\ registered \in [Ids -> Nat] /\ sources \in Seq(Sources) /\ traces \in EntryMaps
      /\ Kept(registered, sources) /\ (mounted => OneEach(registered, sources))
      /\ None \notin Ids /\ Sessions \cup Old \subseteq Ids
      /\ pending # None => pending.conv \in Ids /\ pending.session \in Sessions \cup {None}
  <2>1. /\ registered \in [Ids -> Nat] /\ sources \in Seq(Sources)
        /\ Kept(registered, sources) /\ (mounted => OneEach(registered, sources))
    BY <1>0, SourcesKept
  <2> QED BY <2>1, <1>0, PageTypes
<1>b. ASSUME UNCHANGED <<mounted, abandoned, order, registered, sources, events, root, brought>>,
             pending' = pending \/ pending' = None, syncing' = syncing \/ syncing' = None,
             \A c \in Ids : traces'[c] # None =>
               traces'[c].events = {} \/ (traces[c] # None /\ traces'[c].events = traces[c].events)
      PROVE  Sourced'
  <2>1. /\ mounted' => \A s \in Sessions : root'[s] # s /\ Contains(order', s) /\ s \notin brought'
                                           => registered'[s] # 0
        /\ ~mounted' /\ ~abandoned' => pending' = None /\ syncing' = None /\ Open' = {}
    BY <1>b, <1>0 DEF Sourced, Open
  <2> QED BY <2>1, <1>a, <1>b, SourcedStep
<1>c. ASSUME NEW s \in Ids, EnsuresStream(s, registered, sources), mounted \/ abandoned,
             UNCHANGED <<mounted, abandoned, order, events, root, brought>>,
             \A c \in Ids : traces'[c] # None =>
               traces'[c].events = {} \/ (traces[c] # None /\ traces'[c].events = traces[c].events)
      PROVE  Sourced'
  <2>1. /\ Kept(registered', sources') /\ registered'[s] # 0
        /\ mounted => OneEach(registered', sources')
        /\ \A d \in Ids \ {s} : registered'[d] = registered[d]
    BY <1>a, <1>c, EnsuredKept
  <2>2. mounted' => \A x \in Sessions : root'[x] # x /\ Contains(order', x) /\ x \notin brought'
                                          => registered'[x] # 0
    BY <1>0, <1>a, <1>c, <2>1 DEF Sourced
  <2> QED BY <1>c, <2>1, <2>2, SourcedStep
<1>1. ASSUME AnswerTask PROVE Sourced'
  <2> DEFINE c == pending.conv
             s == pending.session
             mid == Migrated(traces, c, s)
             free == [registered EXCEPT ![c] = 0]
             rest == Closed(sources, registered[c])
  <2>1. /\ mounted /\ pending # None /\ s # None
        /\ traces' = Upserted(mid, s, "reported")
        /\ order' = <<s>> \o Without(order, {c, s})
        /\ EnsuresStream(s, free, rest)
        /\ root' = [root EXCEPT ![s] = pending.thread]
        /\ UNCHANGED <<mounted, events, brought>>
    BY <1>1 DEF AnswerTask, Answered
  <2>2. c \in Ids /\ s \in Sessions /\ s \in Ids /\ c # s
    BY <2>1, <1>a DEF PageInv, Rooted, Coming
  <2>3. /\ free \in [Ids -> Nat] /\ rest \in Seq(Sources)
        /\ Kept(free, rest) /\ OneEach(free, rest)
    BY <1>a, <2>1, <2>2, ClosedKept
  <2>4. \A d \in Ids : traces'[d] # None =>
          \/ traces'[d].events = {}
          \/ \E x \in Ids : traces[x] # None /\ traces'[d].events = traces[x].events
    <3>1. /\ mid \in EntryMaps
          /\ \A d \in Ids : mid[d] # None =>
               \/ mid[d].events = {}
               \/ \E x \in Ids : traces[x] # None /\ mid[d].events = traces[x].events
      <4>1. /\ mid \in EntryMaps /\ mid[c] = None /\ mid[s] # None
            /\ traces[s] # None => mid[s].events = traces[s].events
            /\ traces[s] = None /\ traces[c] # None => mid[s].events = traces[c].events
            /\ traces[s] = None /\ traces[c] = None => mid[s].events = {}
            /\ \A d \in Ids \ {c, s} : mid[d] = traces[d]
        BY <1>a, <2>2, MigratedEntry
      <4> HIDE DEF mid, c, s
      <4> QED BY <4>1, <2>2
    <3> HIDE DEF mid
    <3>2. /\ \A d \in Ids \ {s} : traces'[d] = mid[d]
          /\ mid[s] # None => traces'[s].events = mid[s].events
          /\ mid[s] = None => traces'[s].events = {}
      <4>1. "reported" \in Status
        BY DEF Status
      <4> QED BY <4>1, <2>1, <2>2, <3>1, UpsertedEntry
    <3> HIDE DEF c, s
    <3> QED BY <3>1, <3>2, <2>2
  <2>5. \A x : Contains(order', x) <=> x = s \/ (Contains(order, x) /\ x # c)
    <3>1. order \in Seq(Ids)
      BY <1>0 DEF PageTypeOK
    <3> DEFINE left0 == Without(order, {c, s})
    <3>2. left0 \in Seq(Ids) /\ \A x : Contains(left0, x) <=> Contains(order, x) /\ x \notin {c, s}
      BY <3>1, WithoutElements
    <3> HIDE DEF left0
    <3>3. \A x : Contains(<<s>> \o left0, x) <=> x = s \/ Contains(left0, x)
      BY <2>2, <3>2, ConsElements
    <3>4. order' = <<s>> \o left0
      BY <2>1 DEF left0
    <3> QED BY <3>2, <3>3, <3>4
  <2>6. /\ root \in [Ids -> Ids] /\ \A d \in Ids \ {c} : free[d] = registered[d]
    BY <1>0, <1>a DEF PageTypeOK
  <2> HIDE DEF c, s, mid, free, rest
  <2>7. /\ Kept(registered', sources') /\ registered'[s] # 0 /\ OneEach(registered', sources')
        /\ \A d \in Ids \ {s} : registered'[d] = free[d]
    BY <2>1, <2>2, <2>3, EnsuredKept
  <2>8. \A x \in Sessions : root'[x] # x /\ Contains(order', x) /\ x \notin brought'
                              => registered'[x] # 0
    BY <2>1, <2>2, <2>5, <2>6, <2>7, <1>0, <1>a DEF Sourced
  <2> QED BY <2>1, <2>4, <2>7, <2>8, SourcedStep
<1>2. ASSUME AnswerInWords PROVE Sourced'
  <2>1. \A d \in Ids : traces'[d] # None =>
          traces'[d].events = {} \/ (traces[d] # None /\ traces'[d].events = traces[d].events)
    <3>1. pending.conv \in Ids /\ traces' = Upserted(traces, pending.conv, "idle") /\ "idle" \in Status
      BY <1>2, <1>a DEF AnswerInWords, Status
    <3> QED BY <3>1, <1>a, UpsertedEntry
  <2> QED BY <2>1, <1>2, <1>b DEF AnswerInWords, Answered
<1>3. ASSUME AnswerFails PROVE Sourced'
  BY <1>3, <1>b DEF AnswerFails, Answered
<1>4. ASSUME AnswerTooLate PROVE Sourced'
  <2>1. pending # None /\ (mounted \/ abandoned)
    BY <1>4, <1>0 DEF AnswerTooLate, Sourced
  <2>2. CASE pending.session = None
    BY <1>4, <2>2, <1>b DEF AnswerTooLate, Answered
  <2>3. CASE pending.session # None
    <3>1. pending.session \in Ids
      BY <2>1, <2>3, <1>a
    <3> QED BY <1>4, <2>1, <2>3, <3>1, <1>c DEF AnswerTooLate, Answered
  <2> QED BY <2>2, <2>3
<1>5. ASSUME SyncBringsFeedback PROVE Sourced'
  <2>1. syncing \in Ids
    <3>1. created \in Seq(Sessions \cup Old)
      BY <1>0 DEF PageTypeOK
    <3>2. \A x : Contains(created, x) => x \in Sessions \cup Old
      BY <3>1, ElementsIn
    <3> QED BY <3>2, <1>5, <1>a DEF SyncBringsFeedback
  <2>2. mounted \/ abandoned
    BY <2>1, <1>0, <1>a DEF Sourced
  <2>3. \A d \in Ids : traces'[d] # None =>
          traces'[d].events = {} \/ (traces[d] # None /\ traces'[d].events = traces[d].events)
    BY <1>5, <1>a, <2>1, EnsuredEntry DEF SyncBringsFeedback
  <2> QED BY <1>5, <2>1, <2>2, <2>3, <1>c DEF SyncBringsFeedback, Synced
<1>6. ASSUME SyncBringsNothing PROVE Sourced'
  BY <1>6, <1>b DEF SyncBringsNothing, Synced
<1>7. ASSUME RenameEnds PROVE Sourced'
  <2>1. renaming \in Ids
    BY <1>0, <1>7 DEF RenameEnds, PageTypeOK
  <2>2. \A d \in Ids : traces'[d] # None =>
          traces'[d].events = {} \/ (traces[d] # None /\ traces'[d].events = traces[d].events)
    BY <1>7, <1>a, <2>1, EnsuredEntry DEF RenameEnds
  <2> QED BY <1>7, <2>2, <1>b DEF RenameEnds
<1>8. ASSUME ReadProject PROVE Sourced'
  BY <1>8, <1>b DEF ReadProject
<1>9. ASSUME LoadProject PROVE Sourced'
  <2> DEFINE listed == ToSet(loading.list)
  <2>1. /\ loading.stage = "read"
        /\ UNCHANGED <<mounted, abandoned, pending, syncing, registered, sources, events, root>>
    BY <1>9 DEF LoadProject
  <2>2. mounted
    BY <2>1 DEF PageInv, Placed
  <2>3. CASE listed = {}
    BY <1>9, <2>1, <2>3, <1>b DEF LoadProject
  <2>4. CASE listed # {}
    <3>1. /\ order' = loading.list
          /\ traces' = [c \in Ids |-> IF c \in listed THEN Entry("reported", {}) ELSE traces[c]]
          /\ brought' = brought \cup (listed \ ToSet(order))
      BY <1>9, <2>4 DEF LoadProject
    <3>2. /\ \A x : Contains(loading.list, x) <=> x \in listed
          /\ \A x : Contains(order, x) <=> x \in ToSet(order)
      <4>1. loading.list \in Seq(Sessions \cup Old) /\ order \in Seq(Ids)
        BY <1>0, PageTypes DEF PageTypeOK
      <4> QED BY <4>1, ElementsIn
    <3>3. Entry("reported", {}).events = {}
      BY DEF Entry
    <3> HIDE DEF listed
    <3>4. \A d \in Ids : traces'[d] # None =>
            traces'[d].events = {} \/ (traces[d] # None /\ traces'[d].events = traces[d].events)
      BY <3>1, <3>3
    <3>5. \A x \in Sessions : root'[x] # x /\ Contains(order', x) /\ x \notin brought'
                                => registered'[x] # 0
      BY <2>1, <2>2, <3>1, <3>2, <1>0 DEF Sourced
    <3> QED BY <2>1, <2>2, <3>4, <3>5, <1>a, SourcedStep
  <2> QED BY <2>3, <2>4
<1> QED BY <1>1, <1>2, <1>3, <1>4, <1>5, <1>6, <1>7, <1>8, <1>9 DEF Answers
-----------------------------------------------------------------------------
(* What is told is told once, and a status is the last word.               *)

(* A step that leaves the events that there are.                           *)
EventsStay == \A e \in DOMAIN events : e \in DOMAIN events' /\ events'[e] = events[e]

(* What is over, and what overflows, after the step.                       *)
OverThen(s) == /\ Contains(created', s) /\ ~Contains(order', s)
               /\ ~(pending' # None /\ pending'.session = s)

EventsThen(r) == { e \in DOMAIN events' : root'[events'[e].session] = r }

OverflowsThen(r) == Cardinality(EventsThen(r)) > Cap

(* A thread that overflows does so for good.                               *)
LEMMA OverflowsKept ==
  ASSUME PageTypeOK, PageTypeOK', EventsStay, NEW r,
         \A e \in EventsIn(r) : root'[events[e].session] = r, Overflows(r)
  PROVE  OverflowsThen(r)
<1>1. EventsIn(r) \subseteq EventsThen(r)
  BY DEF EventsIn, EventsThen, EventsStay
<1>2. Len(events') \in Nat /\ EventsThen(r) \in SUBSET (1 .. Len(events'))
  <2>1. events' \in Seq(Happenings)
    BY DEF PageTypeOK
  <2>2. Len(events') \in Nat /\ DOMAIN events' = 1 .. Len(events')
    BY <2>1
  <2> QED BY <2>2 DEF EventsThen
<1>3. Cardinality(EventsIn(r)) > Cap
  BY DEF Overflows
<1> QED BY <1>1, <1>2, <1>3, MoreEvents DEF OverflowsThen

(* What goes on of the chat page, unless a task is answered.               *)
QuietChat ==
  /\ UNCHANGED <<page, root>> /\ EventsStay
  /\ page = "chat" =>
       /\ loading' = loading \/ loading'.stage = "over"
       /\ active' # None => Contains(order', active')
       /\ \A c \in Ids : Contains(order', c) => traces'[c] # None
       /\ \A s \in Sessions : pending' # None /\ pending'.session = s
                                => Coming(s) \/ ~Contains(created, s)
       /\ \A c \in Ids :
            \/ traces'[c] # None \/ syncing' = c \/ renaming' = c
            \/ \E k \in DOMAIN sources' : sources'[k].session = c
            => \/ traces[c] # None \/ syncing = c \/ renaming = c \/ c \in Local
               \/ \E k \in DOMAIN sources : sources[k].session = c
               \/ Talks(c)
       /\ \A c \in Ids : traces'[c] # None => \A e \in traces'[c].events :
            \/ traces[c] # None /\ e \in traces[c].events
            \/ e \in DOMAIN events /\ root[events[e].session] = root[c]

(* Such a step keeps what is known of sessions and of the events of their  *)
(* entries.                                                                *)
LEMMA ChatStep ==
  ASSUME PageInv, PageTypeOK', Rooted', QuietChat
  PROVE  Chatting'
<1>0. PageTypeOK /\ Existing /\ Rooted /\ Sourced /\ Chatting
  BY DEF PageInv
<1> SUFFICES ASSUME page = "chat"
             PROVE  Chatting'
  BY DEF Chatting, QuietChat
<1>1. UNCHANGED <<page, root>> /\ EventsStay
  BY DEF QuietChat
<1>2. loading'.stage = "over" /\ (active' # None => Contains(order', active'))
      /\ \A c \in Ids : Contains(order', c) => traces'[c] # None
  BY <1>0 DEF QuietChat, Chatting
<1>3. Sessions \subseteq Ids /\ Local \cap Sessions = {}
  BY <1>0, PageTypes
<1>4. ASSUME NEW s \in Sessions, Coming(s)'
      PROVE  /\ ~Talks(s)' /\ traces'[s] = None /\ syncing' # s /\ renaming' # s
             /\ \A k \in DOMAIN sources' : sources'[k].session # s
  <2>1. ~Talks(s)'
    BY <1>1, <1>3, <1>4 DEF Rooted
  <2>2. Coming(s) \/ ~Contains(created, s)
    BY <1>4 DEF QuietChat, Coming
  <2>3. /\ ~Talks(s) /\ traces[s] = None /\ syncing # s /\ renaming # s
        /\ \A k \in DOMAIN sources : sources[k].session # s
    <3>1. CASE Coming(s)
      BY <3>1, <1>0 DEF Chatting
    <3>2. CASE ~Contains(created, s)
      BY <3>2, <1>0, <1>3 DEF Existing, Exists
    <3> QED BY <2>2, <3>1, <3>2
  <2> QED BY <2>1, <2>3, <1>3 DEF QuietChat
<1>5. ASSUME NEW c \in Ids, traces'[c] # None, NEW e \in traces'[c].events
      PROVE  root'[events'[e].session] = root'[c]
  <2>1. CASE traces[c] # None /\ e \in traces[c].events
    <3>1. e \in DOMAIN events /\ root[events[e].session] = root[c]
      BY <2>1, <1>0 DEF Sourced, Chatting
    <3> QED BY <3>1, <1>1 DEF EventsStay
  <2>2. CASE e \in DOMAIN events /\ root[events[e].session] = root[c]
    BY <2>2, <1>1 DEF EventsStay
  <2> QED BY <2>1, <2>2, <1>5 DEF QuietChat
<1> QED BY <1>1, <1>2, <1>4, <1>5 DEF Chatting

(* A message that a step leaves, whatever conversation it is then in.      *)
SameAbout(m, a) ==
  /\ messages'[m].about = messages[a].about
  /\ messages'[m].thread = messages[a].thread

(* No more is told.                                                        *)
NothingTold ==
  /\ \A m \in DOMAIN messages' : messages'[m].about[1] = "event" =>
       \E a \in DOMAIN messages : SameAbout(m, a)
  /\ \A m, n \in DOMAIN messages' :
       m # n /\ messages'[m].about[1] = "event" /\ messages'[n].about[1] = "event" =>
         \E a, b \in DOMAIN messages : a # b /\ SameAbout(m, a) /\ SameAbout(n, b)

(* What was told stays known.                                              *)
StaysTold ==
  /\ UNCHANGED page /\ EventsStay
  /\ \A s \in Sessions \cup Old : root[s] \in Local => root'[s] = root[s]
  /\ page = "chat" =>
       /\ \A r \in Local : \A e \in EventsIn(r) : root'[events[e].session] = r
       /\ \A s \in Sessions \cup Old : root[s] \in Local =>
            \A e \in EventsOf(s) :
              Over(s) \/ (traces[s] # None /\ e \in traces[s].events)
                => \/ OverThen(s) \/ OverflowsThen(root[s])
                   \/ traces'[s] # None /\ e \in traces'[s].events

(* The event that a message tells, and the session that it is one of.      *)
LEMMA ToldEvent ==
  ASSUME PageInv, NEW m \in DOMAIN messages, messages[m].about[1] = "event"
  PROVE  LET e == messages[m].about[2]
             s == events[e].session
         IN  /\ page = "chat" /\ e \in EventsOf(s) /\ s \in Sessions \cup Old
             /\ messages[m].thread = root[s] /\ root[s] \in Local
             /\ \/ Over(s) \/ Overflows(root[s])
                \/ traces[s] # None /\ e \in traces[s].events
<1> DEFINE e == messages[m].about[2]
           s == events[e].session
<1>0. PageTypeOK /\ Rooted /\ Told
  BY DEF PageInv
<1>1. /\ page = "chat" /\ e \in DOMAIN events /\ messages[m].thread = root[s]
      /\ Over(s) \/ Overflows(root[s]) \/ (traces[s] # None /\ e \in traces[s].events)
  BY <1>0 DEF Told
<1>2. s \in Sessions \cup Old /\ messages[m].conv \in Ids
  BY <1>0, <1>1, PageTypes
<1>3. root[s] \in Local
  BY <1>0, <1>1, <1>2 DEF Rooted, Talks, Speaks
<1> QED BY <1>1, <1>2, <1>3 DEF EventsOf

(* What is known of the event that a message tells, after the step.        *)
KnownThen(m) ==
  LET e == messages'[m].about[2]
      s == events'[e].session
  IN  /\ page' = "chat" /\ e \in DOMAIN events'
      /\ messages'[m].thread = root'[s]
      /\ \/ OverThen(s) \/ OverflowsThen(root'[s])
         \/ traces'[s] # None /\ e \in traces'[s].events

(* The same, of a thread that a step leaves.                               *)
LEMMA OverflowStays ==
  ASSUME PageInv, PageTypeOK', StaysTold, page = "chat", NEW r \in Local, Overflows(r)
  PROVE  OverflowsThen(r)
<1>1. PageTypeOK
  BY DEF PageInv
<1> QED BY <1>1, OverflowsKept DEF StaysTold

(* What a message tells, of an event that one told before, is known.       *)
LEMMA KnownStays ==
  ASSUME PageInv, PageTypeOK', StaysTold, NEW m \in DOMAIN messages',
         NEW a \in DOMAIN messages, SameAbout(m, a), messages'[m].about[1] = "event"
  PROVE  KnownThen(m)
<1> DEFINE e == messages[a].about[2]
           s == events[e].session
<1>1. messages[a].about[1] = "event"
  BY DEF SameAbout
<1>2. /\ page = "chat" /\ e \in EventsOf(s) /\ s \in Sessions \cup Old
      /\ messages[a].thread = root[s] /\ root[s] \in Local
      /\ Over(s) \/ Overflows(root[s]) \/ (traces[s] # None /\ e \in traces[s].events)
  BY <1>1, ToldEvent
<1> HIDE DEF s
<1>3. /\ messages'[m].about[2] = e /\ e \in DOMAIN events' /\ events'[e].session = s
      /\ messages'[m].thread = root'[s] /\ root'[s] = root[s] /\ page' = "chat"
  BY <1>2 DEF SameAbout, StaysTold, EventsStay, EventsOf, s
<1> HIDE DEF e
<1>4. OverThen(s) \/ OverflowsThen(root[s]) \/ (traces'[s] # None /\ e \in traces'[s].events)
  BY <1>2, OverflowStays DEF StaysTold
<1> QED BY <1>3, <1>4 DEF KnownThen

(* What was told twice.                                                    *)
LEMMA TwiceStays ==
  ASSUME PageInv, PageTypeOK', StaysTold,
         NEW a \in DOMAIN messages, NEW b \in DOMAIN messages, a # b,
         messages[a].about[1] = "event", messages[a].about = messages[b].about
  PROVE  OverflowsThen(messages[a].thread)
<1>1. Overflows(messages[a].thread)
  BY DEF PageInv, TellsOnce, Overflows, EventsIn
<1>2. messages[a].thread \in Local /\ page = "chat"
  BY ToldEvent
<1> QED BY <1>1, <1>2, OverflowStays

(* What is known after the step of every message is what Told and          *)
(* TellsOnce say then.                                                     *)
LEMMA ToldThen ==
  ASSUME \A m \in DOMAIN messages' : messages'[m].about[1] = "event" => KnownThen(m),
         \A m, n \in DOMAIN messages' :
           m # n /\ messages'[m].about[1] = "event" /\ messages'[m].about = messages'[n].about
             => OverflowsThen(messages'[m].thread)
  PROVE  Told' /\ TellsOnce'
<1>1. Told'
  BY DEF Told, Over, Coming, Overflows, EventsIn, OverThen, OverflowsThen, EventsThen, KnownThen
<1>2. TellsOnce'
  BY DEF TellsOnce, OverflowsThen, EventsThen
<1> QED BY <1>1, <1>2

(* A step that tells nothing and after which what was told stays known     *)
(* keeps both.                                                             *)
LEMMA ToldStep ==
  ASSUME PageInv, PageTypeOK', NothingTold, StaysTold
  PROVE  Told' /\ TellsOnce'
<1>1. \A m \in DOMAIN messages' : messages'[m].about[1] = "event" => KnownThen(m)
  BY KnownStays DEF NothingTold
<1>2. ASSUME NEW m \in DOMAIN messages', NEW n \in DOMAIN messages', m # n,
             messages'[m].about[1] = "event", messages'[m].about = messages'[n].about
      PROVE  OverflowsThen(messages'[m].thread)
  <2>1. PICK a \in DOMAIN messages, b \in DOMAIN messages :
          a # b /\ SameAbout(m, a) /\ SameAbout(n, b)
    BY <1>2 DEF NothingTold
  <2>2. /\ messages[a].about[1] = "event" /\ messages[a].about = messages[b].about
        /\ messages'[m].thread = messages[a].thread
    BY <1>2, <2>1 DEF SameAbout
  <2> QED BY <2>1, <2>2, TwiceStays
<1> QED BY <1>1, <1>2, ToldThen

(* Steps that tell nothing: of the same messages, or with one more.        *)
LEMMA SameTold == messages' = messages => NothingTold
BY DEF NothingTold, SameAbout

(* A question, or an answer, tells no event.                               *)
LEMMA AppendTold ==
  ASSUME PageTypeOK, NEW x \in Sayings, x.about[1] # "event", messages' = Append(messages, x)
  PROVE  NothingTold
<1>1. messages \in Seq(Sayings)
  BY DEF PageTypeOK
<1>2. \A m \in DOMAIN messages' : \/ m \in DOMAIN messages /\ messages'[m] = messages[m]
                                  \/ messages'[m] = x
  BY <1>1
<1>3. \A m \in DOMAIN messages' : messages'[m].about[1] = "event" =>
        m \in DOMAIN messages /\ SameAbout(m, m)
  BY <1>2 DEF SameAbout
<1> QED BY <1>3 DEF NothingTold

(* What was told stays known where no list loses an event, and no          *)
(* conversation that had ended comes back.                                 *)
LEMMA StillTold ==
  ASSUME UNCHANGED <<page, root>>, EventsStay,
         \A s \in Sessions \cup Old :
           /\ Contains(order', s) => Contains(order, s)
           /\ Contains(created, s) => Contains(created', s)
           /\ pending' # None /\ pending'.session = s => Coming(s) \/ ~Contains(created, s)
           /\ traces[s] # None /\ traces[s].events # {} =>
                traces'[s] # None /\ traces[s].events \subseteq traces'[s].events
  PROVE  StaysTold
<1>1. \A r : \A e \in EventsIn(r) : root'[events[e].session] = r
  BY DEF EventsIn
<1>2. ASSUME NEW s \in Sessions \cup Old, NEW e,
             Over(s) \/ (traces[s] # None /\ e \in traces[s].events)
      PROVE  OverThen(s) \/ (traces'[s] # None /\ e \in traces'[s].events)
  BY <1>2 DEF Over, OverThen
<1> QED BY <1>1, <1>2 DEF StaysTold

(* A step that leaves the words of what is completed or failed.            *)
LEMMA StatusStep ==
  ASSUME PageInv, EventsStay, late \subseteq late',
         \A s \in Sessions \cup Old :
           traces'[s] # None /\ traces'[s].status \in {"completed", "failed"}
             => traces[s] # None /\ traces'[s] = traces[s]
  PROVE  StatusIsTheLastWord'
<1> SUFFICES ASSUME NEW s \in Sessions \cup Old, s \notin late',
                    traces'[s] # None, traces'[s].status \in {"completed", "failed"}
             PROVE  LET words == { e \in traces'[s].events \cap EventsOf(s)' : events'[e].kind # "other" }
                    IN words # {} => events'[Max(words)].kind = traces'[s].status
  BY DEF StatusIsTheLastWord
<1> DEFINE now == { e \in traces'[s].events \cap EventsOf(s)' : events'[e].kind # "other" }
           words == { e \in traces[s].events \cap EventsOf(s) : events[e].kind # "other" }
<1>0. PageTypeOK /\ Sourced /\ StatusIsTheLastWord /\ s \in Ids
  BY PageTypes DEF PageInv
<1>1. traces[s] # None /\ traces'[s] = traces[s] /\ s \notin late
  OBVIOUS
<1>2. traces[s].events \subseteq DOMAIN events
  BY <1>0, <1>1 DEF Sourced
<1>3. now = words
  BY <1>1, <1>2 DEF EventsOf, EventsStay
<1>4. words # {} => events[Max(words)].kind = traces[s].status
  BY <1>0, <1>1 DEF StatusIsTheLastWord
<1>5. words # {} => Max(words) \in DOMAIN events
  <2>1. Len(events) \in Nat /\ words \in SUBSET (1 .. Len(events)) /\ DOMAIN events = 1 .. Len(events)
    BY <1>0, <1>2, PageTypes
  <2> HIDE DEF words
  <2> QED BY <2>1, MaxIsGreatest
<1> HIDE DEF words
<1>6. now # {} => events'[Max(now)].kind = traces'[s].status
  BY <1>1, <1>3, <1>4, <1>5 DEF EventsStay
<1> QED BY <1>6

(* An event that comes after those that there are of its session decides,  *)
(* and one that decides nothing leaves the last word.                      *)
LEMMA DeliverStatus ==
  ASSUME PageInv, NEW k \in DOMAIN sources, Deliver(k)
  PROVE  StatusIsTheLastWord'
<1> DEFINE t == sources[k].session
           e == Min(sources[k].coming)
<1>0. PageTypeOK /\ Sourced /\ StatusIsTheLastWord
  BY DEF PageInv
<1>1. /\ t \in Ids /\ e \in EventsOf(t)
      /\ ~IsNews(t, e) => UNCHANGED <<traces, messages, late>>
      /\ IsNews(t, e) =>
           /\ traces[t] # None
           /\ traces'[t].status = StatusFromEvent(events[e].kind, traces[t].status)
           /\ traces'[t].events = Capped(traces[t].events \cup {e})
           /\ \A c \in Ids \ {t} : traces'[c] = traces[c]
           /\ late' = IF \E d \in traces[t].events \cap EventsOf(t) : d > e
                      THEN late \cup {t} ELSE late
  BY DeliveredEvent
<1>2. UNCHANGED events /\ EventsStay
  BY DEF Deliver, serverVars, EventsStay
<1>a. Sessions \cup Old \subseteq Ids
  BY <1>0, PageTypes
<1> HIDE DEF t, e
<1>3. CASE ~IsNews(t, e)
  BY <1>1, <1>2, <1>3, StatusStep
<1>4. CASE IsNews(t, e)
  <2> SUFFICES ASSUME NEW s \in Sessions \cup Old, s \notin late',
                      traces'[s] # None, traces'[s].status \in {"completed", "failed"}
               PROVE  LET words == { d \in traces'[s].events \cap EventsOf(s) : events[d].kind # "other" }
                      IN words # {} => events[Max(words)].kind = traces'[s].status
    BY <1>2 DEF StatusIsTheLastWord, EventsOf
  <2> DEFINE now == { d \in traces'[s].events \cap EventsOf(s) : events[d].kind # "other" }
             words == { d \in traces[s].events \cap EventsOf(s) : events[d].kind # "other" }
  <2>1. s \notin late
    BY <1>1, <1>4
  <2>2. traces[s] # None /\ traces[s].status \in {"completed", "failed"} /\ words # {}
          => events[Max(words)].kind = traces[s].status
    BY <1>0, <2>1 DEF StatusIsTheLastWord
  <2>3. CASE s # t
    <3>1. traces'[s] = traces[s]
      BY <1>1, <1>4, <1>a, <2>3
    <3> QED BY <2>2, <3>1
  <2>4. CASE s = t
    <3> DEFINE seen == traces[s].events \cup {e}
    <3>1. /\ traces[s] # None
          /\ traces'[s].status = StatusFromEvent(events[e].kind, traces[s].status)
          /\ traces'[s].events = Capped(seen)
          /\ \A d \in traces[s].events \cap EventsOf(s) : ~(d > e)
      BY <1>1, <1>4, <2>4
    <3>2. /\ Len(events) \in Nat /\ DOMAIN events = 1 .. Len(events)
          /\ seen \in SUBSET (1 .. Len(events)) /\ e \in EventsOf(s)
      <4>1. traces[s].events \subseteq DOMAIN events
        BY <1>0, <1>a, <3>1 DEF Sourced
      <4>2. Len(events) \in Nat /\ DOMAIN events = 1 .. Len(events)
        BY <1>0, PageTypes
      <4> QED BY <4>1, <4>2, <1>1, <2>4 DEF EventsOf
    <3>3. /\ Capped(seen) \subseteq seen
          /\ \A d \in Capped(seen), x \in seen : d <= x => x \in Capped(seen)
      <4>1. Len(events) \in Nat /\ seen \in SUBSET (1 .. Len(events))
        BY <3>2
      <4> HIDE DEF seen
      <4> QED BY <4>1, CappedEvents
    <3>4. now \in SUBSET (1 .. Len(events)) /\ words \in SUBSET (1 .. Len(events))
      BY <3>1, <3>2, <3>3
    <3>5. \A d \in seen \cap EventsOf(s) : d <= e
      BY <3>1, <3>2
    <3>6. now # {} => Max(now) \in now /\ \A d \in now : d <= Max(now)
      <4> HIDE DEF now
      <4> QED BY <3>2, <3>4, MaxIsGreatest
    <3>7. words # {} => Max(words) \in words /\ \A d \in words : d <= Max(words)
      <4> HIDE DEF words
      <4> QED BY <3>2, <3>4, MaxIsGreatest
    <3>8. ASSUME now # {} PROVE events[Max(now)].kind = traces'[s].status
      <4> DEFINE last == Max(now)
      <4>1. last \in Capped(seen) /\ last \in seen /\ last \in EventsOf(s) /\ last \in Nat
            /\ events[last].kind # "other"
        <5>1. last \in now
          BY <3>6, <3>8
        <5>2. last \in Capped(seen) /\ last \in EventsOf(s) /\ events[last].kind # "other"
          BY <3>1, <5>1
        <5>3. last \in 1 .. Len(events)
          BY <3>4, <5>1
        <5> HIDE DEF last, now, seen
        <5>4. last \in Nat
          BY <3>2, <5>3
        <5>5. last \in seen
          BY <3>3, <5>2
        <5> QED BY <5>2, <5>4, <5>5
      <4>2. CASE events[e].kind # "other"
        <5>1. e \in seen /\ last <= e
          BY <3>5, <4>1
        <5>2. e \in Capped(seen)
          BY <3>3, <4>1, <5>1
        <5>3. e \in now
          BY <3>1, <3>2, <4>2, <5>2
        <5>4. last = e
          <6>1. e <= last
            BY <3>6, <3>8, <5>3
          <6>2. e \in Nat
            BY <3>2, <5>1
          <6> QED BY <4>1, <5>1, <6>1, <6>2
        <5>5. events[e].kind \in {"completed", "failed"}
          BY <1>0, <3>2, <4>2, PageTypes DEF EventsOf, Kinds
        <5> QED BY <3>1, <5>4, <5>5 DEF StatusFromEvent
      <4>3. CASE events[e].kind = "other"
        <5>1. last \in words
          BY <4>1, <4>3
        <5>2. Max(words) \in words /\ last <= Max(words)
          BY <3>7, <5>1
        <5>3. Max(words) \in Capped(seen)
          BY <3>3, <4>1, <5>2
        <5>4. Max(words) \in now
          BY <3>1, <5>2, <5>3
        <5>5. Max(words) <= last
          BY <3>6, <5>4
        <5>6. Max(words) = last
          BY <3>4, <4>1, <5>2, <5>5
        <5>7. traces[s].status = traces'[s].status
          BY <3>1, <4>3 DEF StatusFromEvent
        <5> QED BY <2>2, <3>1, <5>2, <5>6, <5>7
      <4> QED BY <4>2, <4>3
    <3> QED BY <3>8
  <2> QED BY <2>3, <2>4
<1> QED BY <1>3, <1>4

(* What the user does tells no event; a session that is deleted is over.   *)
LEMMA UserChat ==
  ASSUME PageInv, User, PageTypeOK', Rooted'
  PROVE  Chatting' /\ Told' /\ TellsOnce' /\ StatusIsTheLastWord'
<1> USE DEF viewVars, askVars, sourceVars, serverVars, history
<1>0. PageTypeOK /\ Existing /\ Rooted /\ Chatting
  BY DEF PageInv
<1>a. /\ None \notin Ids /\ Sessions \cup Old \subseteq Ids /\ Local \subseteq Ids
      /\ Local \cap Sessions = {} /\ Local \cap Old = {} /\ traces \in EntryMaps
      /\ order \in Seq(Ids) /\ messages \in Seq(Sayings) /\ sources \in Seq(Sources)
      /\ (active # None => Talks(active))
  BY <1>0, PageTypes DEF PageTypeOK, Talks
<1>b. ASSUME UNCHANGED <<page, mounted, order, traces, loading, sources, created, events, root, late>>,
             page = "chat" /\ active' # None => Contains(order, active'),
             NothingTold,
             \A s \in Sessions : pending' # None /\ pending'.session = s => Coming(s),
             \A c \in Ids : syncing' = c \/ renaming' = c =>
               syncing = c \/ renaming = c \/ Talks(c)
      PROVE  Chatting' /\ Told' /\ TellsOnce' /\ StatusIsTheLastWord'
  <2>1. EventsStay
    BY <1>b DEF EventsStay
  <2>2. QuietChat
    BY <1>b, <1>0, <2>1 DEF QuietChat, Chatting
  <2>3. StaysTold
    <3>1. ASSUME NEW s \in Sessions \cup Old, pending' # None, pending'.session = s
          PROVE  Coming(s) \/ ~Contains(created, s)
      <4>1. CASE s \in Sessions
        BY <3>1, <4>1, <1>b
      <4>2. CASE s \in Old
        <5>1. pending'.session \in Sessions \cup {None}
          BY <3>1, PageTypeOK' DEF PageTypeOK, Questions
        <5> QED BY <3>1, <4>2, <5>1, ChatClientAssumption
      <4> QED BY <4>1, <4>2
    <3> QED BY <3>1, <1>b, <2>1, StillTold
  <2>4. StatusIsTheLastWord'
    BY <1>b, <2>1, StatusStep
  <2> QED BY <1>b, <2>2, <2>3, <2>4, ChatStep, ToldStep
<1>1. ASSUME NEW c \in Local, CreateLocalSession(c)
      PROVE  Chatting' /\ Told' /\ TellsOnce' /\ StatusIsTheLastWord'
  <2>1. /\ traces' = Ensured(traces, c) /\ order' = <<c>> \o order /\ active' = c
        /\ UNCHANGED <<page, mounted, messages, askVars, sourceVars, serverVars, history>>
        /\ traces[c] = None
    BY <1>1 DEF CreateLocalSession
  <2>2. \A x : Contains(order', x) <=> x = c \/ Contains(order, x)
    BY <1>a, <2>1, ConsElements
  <2>3. /\ traces'[c] # None /\ traces'[c].events = {} /\ traces'[c].status = "idle"
        /\ \A d \in Ids \ {c} : traces'[d] = traces[d]
    BY <1>a, <2>1, EnsuredEntry
  <2>4. EventsStay
    BY <2>1 DEF EventsStay
  <2>5. QuietChat
    <3>1. \A s \in Sessions : pending' # None /\ pending'.session = s => Coming(s)
      BY <2>1 DEF Coming
    <3> QED BY <2>1, <2>2, <2>3, <2>4, <3>1, <1>0 DEF QuietChat, Chatting
  <2>6. StaysTold
    <3>1. ASSUME NEW s \in Sessions \cup Old
          PROVE  /\ Contains(order', s) => Contains(order, s)
                 /\ Contains(created, s) => Contains(created', s)
                 /\ pending' # None /\ pending'.session = s => Coming(s)
                 /\ traces'[s] = traces[s]
      BY <1>a, <2>1, <2>2, <2>3 DEF Coming
    <3> QED BY <2>1, <2>4, <3>1, StillTold
  <2>7. StatusIsTheLastWord'
    BY <1>a, <2>1, <2>3, <2>4, StatusStep
  <2> QED BY <2>1, <2>5, <2>6, <2>7, ChatStep, ToldStep, SameTold
<1>2. ASSUME NEW c \in Ids, SelectSession(c)
      PROVE  Chatting' /\ Told' /\ TellsOnce' /\ StatusIsTheLastWord'
  BY <1>2, <1>b, SameTold DEF SelectSession, Coming
<1>3. ASSUME NEW c \in Ids, DeleteSession(c)
      PROVE  Chatting' /\ Told' /\ TellsOnce' /\ StatusIsTheLastWord'
  <2> DEFINE remaining == Without(order, {c})
  <2>1. /\ remaining \in Seq(Ids)
        /\ \A x : Contains(remaining, x) <=> Contains(order, x) /\ x # c
        /\ remaining # <<>> => Contains(remaining, remaining[1])
    <3>1. /\ remaining \in Seq(Ids)
          /\ \A x : Contains(remaining, x) <=> Contains(order, x) /\ x \notin {c}
      BY <1>a, WithoutElements
    <3> QED BY <3>1, FirstElement
  <2>2. /\ order' = remaining /\ messages' = Without(messages, Said(c))
        /\ active' = IF active # c THEN active
                     ELSE IF remaining = <<>> THEN None ELSE remaining[1]
        /\ traces' = [traces EXCEPT ![c] = None] /\ sources' = Closed(sources, registered[c])
        /\ Contains(order, c)
        /\ UNCHANGED <<page, mounted, follow, askVars, serverVars, left, root, brought,
                       split, late, abandoned>>
    BY <1>3 DEF DeleteSession
  <2> HIDE DEF remaining
  <2>3. traces'[c] = None /\ \A d \in Ids \ {c} : traces'[d] = traces[d]
    BY <1>a, <2>2 DEF EntryMaps
  <2>4. EventsStay
    BY <2>2 DEF EventsStay
  <2>5. QuietChat
    <3>1. \A s \in Sessions : pending' # None /\ pending'.session = s => Coming(s)
      BY <2>2 DEF Coming
    <3>2. /\ DOMAIN sources' = DOMAIN sources
          /\ \A k \in DOMAIN sources : sources'[k].session = sources[k].session
      <4>1. registered[c] \in Nat /\ (registered[c] # 0 => registered[c] \in DOMAIN sources)
        BY <1>0 DEF PageInv, Sourced, PageTypeOK
      <4> QED BY <4>1, <1>a, <2>2, ClosedSource
    <3>3. page = "chat" /\ active' # None => Contains(order', active')
      BY <1>0, <2>1, <2>2 DEF Chatting
    <3>4. page = "chat" => \A d \in Ids : Contains(order', d) => traces'[d] # None
      BY <1>0, <2>1, <2>2, <2>3 DEF Chatting
    <3>5. \A d \in Ids : traces'[d] # None => traces[d] # None /\ traces'[d] = traces[d]
      BY <2>3
    <3> QED BY <2>2, <2>4, <3>1, <3>2, <3>3, <3>4, <3>5 DEF QuietChat
  <2>6. NothingTold
    <3>1. Filtered(Sayings, messages, Said(c), Len(messages), messages')
      BY <1>a, <2>2, WithoutFilters
    <3>2. DOMAIN messages = 1 .. Len(messages)
      BY <1>a
    <3>3. \A m \in DOMAIN messages' : \E a \in DOMAIN messages : SameAbout(m, a)
      <4>1. \A m \in DOMAIN messages' : \E a \in 1 .. Len(messages) : messages'[m] = messages[a]
        BY <3>1 DEF Filtered
      <4> QED BY <4>1, <3>2 DEF SameAbout
    <3>4. \A m, n \in DOMAIN messages' : m # n =>
            \E a, b \in DOMAIN messages : a # b /\ SameAbout(m, a) /\ SameAbout(n, b)
      <4>1. \A m, n \in DOMAIN messages' : m # n =>
              \E a, b \in 1 .. Len(messages) :
                a # b /\ messages'[m] = messages[a] /\ messages'[n] = messages[b]
        BY <3>1 DEF Filtered
      <4> QED BY <4>1, <3>2 DEF SameAbout
    <3> QED BY <3>3, <3>4 DEF NothingTold
  <2>7. StaysTold
    <3>1. ASSUME page = "chat", NEW s \in Sessions \cup Old, NEW e \in EventsOf(s),
                 Over(s) \/ (traces[s] # None /\ e \in traces[s].events)
          PROVE  OverThen(s) \/ (traces'[s] # None /\ e \in traces'[s].events)
      <4>1. CASE s = c
        <5>1. Contains(created, s)
          BY <1>0, <1>a, <2>2, <4>1 DEF Existing, Exists, Talks
        <5>2. ~Contains(order', s)
          BY <2>1, <2>2, <4>1
        <5>3. ~Coming(s)
          <6>1. Talks(s)
            BY <2>2, <4>1 DEF Talks
          <6>2. s \in Old => ~Coming(s)
            BY <1>0, ChatClientAssumption, PageTypes DEF Coming
          <6> QED BY <1>0, <3>1, <6>1, <6>2 DEF Chatting
        <5> QED BY <2>2, <5>1, <5>2, <5>3 DEF OverThen, Coming
      <4>2. CASE s # c
        BY <1>a, <2>1, <2>2, <2>3, <3>1, <4>2 DEF Over, OverThen, Coming
      <4> QED BY <4>1, <4>2
    <3>2. \A r : \A e \in EventsIn(r) : root'[events[e].session] = r
      BY <2>2 DEF EventsIn
    <3> QED BY <2>2, <2>4, <3>1, <3>2 DEF StaysTold
  <2>8. StatusIsTheLastWord'
    BY <1>a, <2>2, <2>3, <2>4, StatusStep
  <2> QED BY <2>5, <2>6, <2>7, <2>8, ChatStep, ToldStep
<1>4. ASSUME NEW c \in Ids, CommitRename(c)
      PROVE  Chatting' /\ Told' /\ TellsOnce' /\ StatusIsTheLastWord'
  <2>1. Talks(c)
    BY <1>4 DEF CommitRename, Talks
  <2> QED BY <1>4, <2>1, <1>0, <1>b, SameTold DEF CommitRename, Coming, Chatting
<1>5. ASSUME ToggleFollow
      PROVE  Chatting' /\ Told' /\ TellsOnce' /\ StatusIsTheLastWord'
  BY <1>5, <1>0, <1>b, SameTold DEF ToggleFollow, Coming, Chatting
<1>6. ASSUME Submit
      PROVE  Chatting' /\ Told' /\ TellsOnce' /\ StatusIsTheLastWord'
  <2> DEFINE said == [conv |-> active, thread |-> root[active],
                      about |-> <<"question", left.question>>]
  <2>1. /\ messages' = Append(messages, said) /\ active # None
        /\ pending' = [conv |-> active, thread |-> root[active], no |-> left.question,
                       session |-> None]
        /\ UNCHANGED <<page, mounted, order, traces, active, follow, syncing, renaming, loading,
                       sourceVars, serverVars, history>>
    BY <1>6 DEF Submit
  <2>2. said \in Sayings /\ said.about[1] # "event"
    <3>1. left.question \in Nat /\ active \in Ids /\ root[active] \in Ids
      BY <1>0, <2>1 DEF PageTypeOK, Kind
    <3> QED BY <3>1 DEF Sayings, Words
  <2>3. NothingTold
    <3> HIDE DEF said
    <3> QED BY <1>0, <2>1, <2>2, AppendTold
  <2>4. \A s \in Sessions : pending'.session # s
    BY <1>a, <2>1
  <2> QED BY <1>0, <1>b, <2>1, <2>3, <2>4 DEF Chatting
<1>7. ASSUME SyncScmFeedback
      PROVE  Chatting' /\ Told' /\ TellsOnce' /\ StatusIsTheLastWord'
  BY <1>7, <1>0, <1>a, <1>b, SameTold DEF SyncScmFeedback, Coming, Chatting
<1>8. ASSUME LeavePage
      PROVE  Chatting' /\ Told' /\ TellsOnce' /\ StatusIsTheLastWord'
  <2>1. /\ order' = <<>> /\ messages' = <<>> /\ active' = None
        /\ traces' = [c \in Ids |-> None] /\ loading'.stage = "over"
        /\ sources' = [k \in DOMAIN sources |->
                         IF k \in Open THEN [sources[k] EXCEPT !.state = "closed", !.coming = {}]
                         ELSE sources[k]]
        /\ UNCHANGED <<page, pending, syncing, renaming, serverVars, root>>
    BY <1>8, <1>0 DEF LeavePage, PageTypeOK, Loadings
  <2>2. EventsStay
    BY <2>1 DEF EventsStay
  <2>3. QuietChat
    <3>1. /\ DOMAIN sources' = DOMAIN sources
          /\ \A k \in DOMAIN sources : sources'[k].session = sources[k].session
      <4>1. \A k \in DOMAIN sources : sources[k] \in Sources
        BY <1>a
      <4>2. \A k \in DOMAIN sources :
              [sources[k] EXCEPT !.state = "closed", !.coming = {}].session = sources[k].session
        BY <4>1 DEF Sources
      <4> QED BY <2>1, <4>2
    <3>2. \A s \in Sessions : pending' # None /\ pending'.session = s => Coming(s)
      BY <2>1 DEF Coming
    <3>3. \A c : ~Contains(order', c)
      <4>1. \A c : ~Contains(<<>>, c)
        BY DEF Contains
      <4> QED BY <4>1, <2>1
    <3>4. \A c \in Ids : traces'[c] = None
      BY <2>1
    <3> QED BY <2>1, <2>2, <3>1, <3>2, <3>3, <3>4 DEF QuietChat
  <2>4. Told' /\ TellsOnce'
    <3>1. DOMAIN messages' = {}
      BY <2>1, <1>0, SameMessages
    <3> QED BY <3>1 DEF Told, TellsOnce
  <2>5. StatusIsTheLastWord'
    BY <1>a, <2>1 DEF StatusIsTheLastWord
  <2> QED BY <2>3, <2>4, <2>5, ChatStep
<1> QED BY <1>1, <1>2, <1>3, <1>4, <1>5, <1>6, <1>7, <1>8 DEF User

(* An event that is emitted is in no entry yet, and a new session not      *)
(* over.                                                                   *)
LEMMA ServerChat ==
  ASSUME PageInv, ServerActs, PageTypeOK', Rooted'
  PROVE  Chatting' /\ Told' /\ TellsOnce' /\ StatusIsTheLastWord'
<1> USE DEF viewVars, askVars, sourceVars, serverVars, history
<1>0. PageTypeOK /\ Existing /\ Rooted /\ Chatting
  BY DEF PageInv
<1>a. ASSUME UNCHANGED <<page, order, traces, active, messages, syncing, renaming, loading,
                         root, late>>,
             EventsStay, \A c : Contains(created, c) => Contains(created', c),
             \A s \in Sessions \cup Old :
               pending' # None /\ pending'.session = s => Coming(s) \/ ~Contains(created, s),
             DOMAIN sources' = DOMAIN sources,
             \A k \in DOMAIN sources : sources'[k].session = sources[k].session
      PROVE  Chatting' /\ Told' /\ TellsOnce' /\ StatusIsTheLastWord'
  <2>1. QuietChat
    BY <1>a, <1>0 DEF QuietChat, Chatting
  <2>2. StaysTold
    BY <1>a, StillTold
  <2>3. StatusIsTheLastWord'
    BY <1>a, StatusStep
  <2> QED BY <1>a, <2>1, <2>2, <2>3, ChatStep, ToldStep, SameTold
<1>1. ASSUME NEW s \in Sessions, CreateSession(s)
      PROVE  Chatting' /\ Told' /\ TellsOnce' /\ StatusIsTheLastWord'
  <2>1. /\ pending # None /\ ~Contains(created, s)
        /\ created' = <<s>> \o created
        /\ pending' = [pending EXCEPT !.session = s]
        /\ UNCHANGED <<page, mounted, viewVars, syncing, renaming, loading, sourceVars,
                       events, left, history>>
    BY <1>1 DEF CreateSession
  <2>2. \A x : Contains(created', x) <=> x = s \/ Contains(created, x)
    <3>1. created \in Seq(Sessions \cup Old) /\ s \in Sessions \cup Old
      BY <1>0 DEF PageTypeOK
    <3>2. \A x : Contains(<<s>> \o created, x) <=> x = s \/ Contains(created, x)
      BY <3>1, ConsElements
    <3> QED BY <2>1, <3>2
  <2>3. pending'.session = s
    BY <1>0, <2>1 DEF PageTypeOK, Questions
  <2>4. EventsStay
    BY <2>1 DEF EventsStay
  <2> QED BY <1>a, <2>1, <2>2, <2>3, <2>4
<1>2. ASSUME NEW s \in Sessions \cup Old, NEW kind \in Kinds, Emit(s, kind)
      PROVE  Chatting' /\ Told' /\ TellsOnce' /\ StatusIsTheLastWord'
  <2> DEFINE one == [session |-> s, kind |-> kind]
  <2>1. /\ events' = Append(events, one) /\ one \in Happenings
        /\ sources' = [k \in DOMAIN sources |->
                         IF sources[k].session = s /\ sources[k].state = "live"
                         THEN [sources[k] EXCEPT !.coming = @ \cup {Len(events')}] ELSE sources[k]]
        /\ UNCHANGED <<page, mounted, viewVars, askVars, registered, created, history>>
    BY <1>2 DEF Emit, Happenings
  <2>2. EventsStay
    <3>1. events \in Seq(Happenings)
      BY <1>0 DEF PageTypeOK
    <3> HIDE DEF one
    <3> QED BY <2>1, <3>1 DEF EventsStay
  <2>3. /\ DOMAIN sources' = DOMAIN sources
        /\ \A k \in DOMAIN sources : sources'[k].session = sources[k].session
    <3>1. \A k \in DOMAIN sources : sources[k] \in Sources
      BY <1>0 DEF PageTypeOK
    <3>2. \A k \in DOMAIN sources :
            [sources[k] EXCEPT !.coming = @ \cup {Len(events')}].session = sources[k].session
      BY <3>1 DEF Sources
    <3> QED BY <2>1, <3>2
  <2> QED BY <1>a, <2>1, <2>2, <2>3 DEF Coming
<1>3. ASSUME NEW k \in DOMAIN sources, NEW state, NEW coming, SourceBecomes(k, state, coming)
      PROVE  Chatting' /\ Told' /\ TellsOnce' /\ StatusIsTheLastWord'
  <2>1. /\ sources' = [sources EXCEPT ![k].state = state, ![k].coming = coming]
        /\ UNCHANGED <<page, mounted, viewVars, askVars, registered, created, events, history>>
    BY <1>3 DEF SourceBecomes
  <2>2. /\ DOMAIN sources' = DOMAIN sources
        /\ \A j \in DOMAIN sources : sources'[j].session = sources[j].session
    <3>1. \A j \in DOMAIN sources : sources[j] \in Sources
      BY <1>0 DEF PageTypeOK
    <3> QED BY <2>1, <3>1 DEF Sources
  <2>3. EventsStay
    BY <2>1 DEF EventsStay
  <2> QED BY <1>a, <2>1, <2>2, <2>3 DEF Coming
<1> QED
  BY <1>1, <1>2, <1>3 DEF ServerActs, ListStream, SubscribeStream, RefuseStream, DropStream

(* An event that is told was not in the list of its entry, so that none    *)
(* that is kept is told again.                                             *)
LEMMA DeliverChat ==
  ASSUME PageInv, NEW k \in DOMAIN sources, Deliver(k), PageTypeOK', Rooted'
  PROVE  Chatting' /\ Told' /\ TellsOnce'
<1> DEFINE s == sources[k].session
           e == Min(sources[k].coming)
<1>0. PageTypeOK /\ Existing /\ Rooted /\ Chatting /\ Sourced /\ Told /\ TellsOnce
  BY DEF PageInv
<1>1. /\ s \in Ids /\ e \in EventsOf(s) /\ DOMAIN sources' = DOMAIN sources
      /\ \A j \in DOMAIN sources : sources'[j].session = sources[j].session
      /\ ~IsNews(s, e) => UNCHANGED <<traces, messages, late>>
      /\ IsNews(s, e) =>
           /\ traces[s] # None /\ traces'[s] # None
           /\ traces'[s].events = Capped(traces[s].events \cup {e})
           /\ \A c \in Ids \ {s} : traces'[c] = traces[c]
           /\ messages' = messages \o Tellings(s, e)
  BY DeliveredEvent
<1>2. UNCHANGED <<page, mounted, order, active, follow, pending, syncing, renaming, loading,
                  registered, created, events, left, root, gone, brought, split, abandoned>>
  BY DEF Deliver, askVars, serverVars
<1>3. EventsStay
  BY <1>2 DEF EventsStay
<1>a. Sessions \cup Old \subseteq Ids /\ Local \subseteq Ids /\ messages \in Seq(Sayings)
  BY <1>0, PageTypes DEF PageTypeOK
<1> HIDE DEF s, e
<1>4. s \in Sessions \cup Old /\ e \in DOMAIN events /\ events[e].session = s /\ e \in Nat
  BY <1>0, <1>1, PageTypes DEF EventsOf
<1> DEFINE seen == traces[s].events \cup {e}
<1>5. CASE ~IsNews(s, e)
  <2>1. QuietChat
    BY <1>0, <1>1, <1>2, <1>3, <1>5 DEF QuietChat, Chatting, Coming
  <2>2. StaysTold
    BY <1>1, <1>2, <1>3, <1>5, StillTold DEF Coming
  <2> QED BY <1>1, <1>5, <2>1, <2>2, ChatStep, ToldStep, SameTold
<1>6. CASE IsNews(s, e)
  <2>1. traces[s] # None /\ e \notin traces[s].events
    BY <1>6 DEF IsNews
  <2>2. /\ Capped(seen) \subseteq seen
        /\ \A d \in seen \ Capped(seen) : Cardinality(seen) > Cap
        /\ Len(events) \in Nat /\ DOMAIN events = 1 .. Len(events)
        /\ seen \in SUBSET (1 .. Len(events))
    <3>1. Len(events) \in Nat /\ DOMAIN events = 1 .. Len(events)
      BY <1>0, PageTypes
    <3>2. seen \in SUBSET (1 .. Len(events))
      BY <1>0, <1>1, <1>4, <2>1, <3>1 DEF Sourced
    <3> HIDE DEF seen
    <3> QED BY <3>1, <3>2, CappedEvents
  <2> HIDE DEF seen
  <2>3. traces'[s].events = Capped(seen) /\ traces'[s] # None
    BY <1>1, <1>6 DEF seen
  <2>4. QuietChat
    <3>1. \A c \in Ids : traces'[c] # None => traces[c] # None
      BY <1>1, <1>6
    <3>2. \A c \in Ids : traces[c] # None => traces'[c] # None
      BY <1>1, <1>6
    <3>3. \A c \in Ids : traces'[c] # None => \A d \in traces'[c].events :
            \/ traces[c] # None /\ d \in traces[c].events
            \/ d \in DOMAIN events /\ root[events[d].session] = root[c]
      <4>1. \A d \in traces'[s].events : d \in traces[s].events \/ d = e
        BY <2>2, <2>3 DEF seen
      <4> QED BY <1>1, <1>4, <1>6, <4>1
    <3> QED BY <1>0, <1>1, <1>2, <1>3, <3>1, <3>2, <3>3 DEF QuietChat, Chatting, Coming
  <2>5. ASSUME page = "chat", NEW d \in seen, d \notin Capped(seen)
        PROVE  OverflowsThen(root[s])
    <3>1. Cardinality(seen) > Cap
      BY <2>2, <2>5
    <3>2. seen \subseteq EventsThen(root[s])
      <4>1. \A x \in traces[s].events : x \in DOMAIN events /\ root[events[x].session] = root[s]
        BY <1>0, <1>1, <2>1, <2>5 DEF Chatting, Sourced
      <4>2. \A x \in seen : x \in DOMAIN events /\ root[events[x].session] = root[s]
        BY <4>1, <1>4 DEF seen
      <4> QED BY <4>2, <1>2 DEF EventsThen
    <3>3. EventsThen(root[s]) \in SUBSET (1 .. Len(events))
      BY <2>2, <1>2 DEF EventsThen
    <3> QED BY <3>1, <3>2, <3>3, <2>2, MoreEvents DEF OverflowsThen
  <2>6. StaysTold
    <3>1. ASSUME page = "chat", NEW x \in Sessions \cup Old, NEW d \in EventsOf(x),
                 Over(x) \/ (traces[x] # None /\ d \in traces[x].events)
          PROVE  \/ OverThen(x) \/ OverflowsThen(root[x])
                 \/ traces'[x] # None /\ d \in traces'[x].events
      <4>1. CASE Over(x)
        BY <4>1, <1>2 DEF Over, OverThen, Coming
      <4>2. CASE traces[x] # None /\ d \in traces[x].events
        <5>1. CASE x = s
          <6>1. d \in seen
            BY <4>2, <5>1 DEF seen
          <6> QED BY <2>3, <2>5, <3>1, <5>1, <6>1
        <5>2. CASE x # s
          BY <1>1, <1>6, <1>a, <4>2, <5>2
        <5> QED BY <5>1, <5>2
      <4> QED BY <3>1, <4>1, <4>2
    <3>2. \A r : \A d \in EventsIn(r) : root'[events[d].session] = r
      BY <1>2 DEF EventsIn
    <3> QED BY <1>2, <1>3, <3>1, <3>2 DEF StaysTold
  <2>7. CASE Tellings(s, e) = <<>>
    <3>1. messages' = messages
      <4>1. messages' = messages \o <<>>
        BY <1>1, <1>6, <2>7
      <4> QED BY <4>1, <1>a
    <3> QED BY <2>4, <2>6, <3>1, ChatStep, ToldStep, SameTold
  <2>8. CASE Tellings(s, e) # <<>>
    <3> DEFINE told == [conv |-> s, thread |-> root[s], about |-> <<"event", e>>]
    <3>1. page = "chat" /\ active = s /\ Tellings(s, e) = <<told>>
      BY <2>8 DEF Tellings
    <3>2. /\ told \in Sayings /\ told.thread = root[s] /\ told.about = <<"event", e>>
          /\ told.about[1] = "event" /\ told.about[2] = e
      <4>1. root[s] \in Ids
        BY <1>0, <1>1 DEF PageTypeOK
      <4> QED BY <4>1, <1>1, <1>4 DEF Sayings, Words
    <3>3. messages' = messages \o <<told>>
      BY <1>1, <1>6, <3>1
    <3> HIDE DEF told
    <3> DEFINE n == Len(messages) + 1
    <3>4. /\ DOMAIN messages' = 1 .. n /\ messages'[n] = told
          /\ \A m \in DOMAIN messages : m \in 1 .. n /\ messages'[m] = messages[m]
          /\ \A m \in 1 .. n : m \in DOMAIN messages \/ m = n
          /\ n \notin DOMAIN messages /\ n \in 1 .. n
      <4>1. messages' = Append(messages, told)
        BY <3>2, <3>3, <1>a
      <4> QED BY <4>1, <3>2, <1>a
    <3> HIDE DEF n
    <3>5. ASSUME NEW m \in DOMAIN messages PROVE SameAbout(m, m)
      BY <3>4 DEF SameAbout
    <3>6. e \notin Capped(seen) => OverflowsThen(root[s])
      <4>1. e \in seen
        BY DEF seen
      <4> QED BY <4>1, <2>5, <3>1
    <3>7. KnownThen(n)
      BY <1>2, <1>4, <2>3, <3>1, <3>2, <3>4, <3>6 DEF KnownThen
    <3>8. \A m \in DOMAIN messages' : messages'[m].about[1] = "event" => KnownThen(m)
      BY <2>6, <3>4, <3>5, <3>7, KnownStays
    <3>9. ASSUME NEW a \in DOMAIN messages, messages[a].about = told.about
          PROVE  messages[a].thread = root[s] /\ OverflowsThen(root[s])
      <4>1. messages[a].about[1] = "event" /\ messages[a].about[2] = e
        BY <3>2, <3>9
      <4>2. /\ messages[a].thread = root[s] /\ root[s] \in Local
            /\ Over(s) \/ Overflows(root[s]) \/ e \in traces[s].events
        BY <4>1, <1>4, ToldEvent
      <4>3. ~Over(s)
        <5>1. active # None
          BY <1>0, <1>1, <3>1, PageTypes
        <5> QED BY <5>1, <1>0, <3>1 DEF Chatting, Over
      <4> QED BY <2>1, <2>6, <3>1, <4>2, <4>3, OverflowStays
    <3>10. ASSUME NEW m \in DOMAIN messages', NEW x \in DOMAIN messages', m # x,
                  messages'[m].about[1] = "event", messages'[m].about = messages'[x].about
           PROVE  OverflowsThen(messages'[m].thread)
      <4>1. CASE m \in DOMAIN messages /\ x \in DOMAIN messages
        BY <4>1, <3>4, <3>10, <2>6, TwiceStays
      <4>2. CASE m = n
        BY <4>2, <3>2, <3>4, <3>9, <3>10
      <4>3. CASE x = n
        BY <4>3, <3>2, <3>4, <3>9, <3>10
      <4> QED BY <4>1, <4>2, <4>3, <3>4
    <3>11. Told' /\ TellsOnce'
      BY <3>8, <3>10, ToldThen
    <3> QED BY <2>4, <3>11, ChatStep
  <2> QED BY <2>7, <2>8
<1> QED BY <1>5, <1>6

(* A task that is answered: its session inherits the entry, and the one it *)
(* takes the place of is over.                                             *)
LEMMA TaskChat ==
  ASSUME PageInv, AnswerTask, PageTypeOK', Rooted'
  PROVE  Chatting' /\ Told' /\ TellsOnce' /\ StatusIsTheLastWord'
<1> DEFINE c == pending.conv
           s == pending.session
           mid == Migrated(traces, c, s)
<1>0. PageTypeOK /\ Existing /\ Rooted /\ Sourced /\ Chatting
  BY DEF PageInv
<1>1. /\ pending # None /\ s # None
      /\ traces' = Upserted(mid, s, "reported")
      /\ order' = <<s>> \o Without(order, {c, s})
      /\ messages' = Append(Relinked(messages, c, s), Answer(s))
      /\ active' = IF active = c \/ active = None \/ follow THEN s ELSE active
      /\ root' = [root EXCEPT ![s] = pending.thread]
      /\ pending' = None
      /\ UNCHANGED <<page, syncing, renaming, loading, created, events, late>>
  BY DEF AnswerTask, Answered, serverVars
<1>2. /\ c \in Ids /\ s \in Sessions /\ s \in Ids /\ Coming(s) /\ c # s
      /\ Sessions \cup Old \subseteq Ids /\ Local \subseteq Ids
      /\ Local \cap Sessions = {} /\ Local \cap Old = {}
      /\ pending.thread = root[c] /\ root[s] = s /\ Talks(c)
  BY <1>0, <1>1, PageTypes DEF Rooted, Coming, Talks
<1>3. root'[s] = root[c] /\ \A d \in Ids \ {s} : root'[d] = root[d]
  BY <1>0, <1>1, <1>2 DEF PageTypeOK
<1>4. \A x : Contains(order', x) <=> x = s \/ (Contains(order, x) /\ x # c)
  <2>1. order \in Seq(Ids)
    BY <1>0 DEF PageTypeOK
  <2> DEFINE rest == Without(order, {c, s})
  <2>2. rest \in Seq(Ids) /\ \A x : Contains(rest, x) <=> Contains(order, x) /\ x \notin {c, s}
    BY <2>1, WithoutElements
  <2> HIDE DEF rest
  <2>3. \A x : Contains(<<s>> \o rest, x) <=> x = s \/ Contains(rest, x)
    BY <1>2, <2>2, ConsElements
  <2>4. order' = <<s>> \o rest
    BY <1>1 DEF rest
  <2> QED BY <2>2, <2>3, <2>4
<1>5. /\ traces'[s] # None /\ traces'[s].status = "reported" /\ traces'[c] = None
      /\ \A d \in Ids \ {c, s} : traces'[d] = traces[d]
      /\ traces[s] = None =>
           \/ traces'[s].events = {}
           \/ traces[c] # None /\ traces'[s].events = traces[c].events
  <2>1. traces \in EntryMaps /\ "reported" \in Status
    BY <1>0, PageTypes DEF Status
  <2>2. /\ mid \in EntryMaps /\ mid[c] = None /\ mid[s] # None
        /\ traces[s] = None /\ traces[c] # None => mid[s].events = traces[c].events
        /\ traces[s] = None /\ traces[c] = None => mid[s].events = {}
        /\ \A d \in Ids \ {c, s} : mid[d] = traces[d]
    BY <1>2, <2>1, MigratedEntry
  <2> HIDE DEF mid, c, s
  <2>3. /\ traces'[s] # None /\ traces'[s].status = "reported"
        /\ mid[s] # None => traces'[s].events = mid[s].events
        /\ \A d \in Ids \ {s} : traces'[d] = mid[d]
    BY <1>1, <1>2, <2>1, <2>2, UpsertedEntry
  <2> QED BY <1>2, <2>2, <2>3
<1>6. NothingTold
  <2> DEFINE moved == Relinked(messages, c, s)
  <2>1. /\ DOMAIN moved = DOMAIN messages /\ moved \in Seq(Sayings)
        /\ \A j \in DOMAIN messages : /\ moved[j].about = messages[j].about
                                      /\ moved[j].thread = messages[j].thread
    <3>1. DOMAIN messages = 1 .. Len(messages) /\ Len(messages) \in Nat
          /\ \A j \in DOMAIN messages : messages[j] \in Sayings
      <4>1. messages \in Seq(Sayings)
        BY <1>0 DEF PageTypeOK
      <4> QED BY <4>1
    <3>2. \A j \in DOMAIN messages :
            /\ [messages[j] EXCEPT !.conv = s] \in Sayings
            /\ [messages[j] EXCEPT !.conv = s].about = messages[j].about
            /\ [messages[j] EXCEPT !.conv = s].thread = messages[j].thread
      BY <3>1, <1>2 DEF Sayings
    <3>3. moved \in [1 .. Len(messages) -> Sayings]
      BY <3>1, <3>2 DEF Relinked
    <3>4. moved \in Seq(Sayings)
      BY <3>1, <3>3
    <3> QED BY <3>1, <3>2, <3>4 DEF Relinked
  <2>2. Answer(s) \in Sayings /\ Answer(s).about[1] # "event"
    <3>1. pending.no \in Nat /\ pending.thread \in Ids
      BY <1>0, <1>1, PageTypes
    <3> QED BY <3>1, <1>2 DEF Answer, Sayings, Words
  <2>3. messages' = Append(moved, Answer(s))
    BY <1>1
  <2> HIDE DEF moved
  <2>4. \A m \in DOMAIN messages' : \/ m \in DOMAIN moved /\ messages'[m] = moved[m]
                                    \/ messages'[m] = Answer(s)
    BY <2>1, <2>2, <2>3
  <2>5. \A m \in DOMAIN messages' : messages'[m].about[1] = "event" =>
          m \in DOMAIN messages /\ SameAbout(m, m)
    BY <2>1, <2>2, <2>4 DEF SameAbout
  <2> QED BY <2>5 DEF NothingTold
<1> HIDE DEF c, s, mid
<1>7. EventsStay
  BY <1>1 DEF EventsStay
<1>8. StaysTold
  <2>1. \A x \in Sessions \cup Old : root[x] \in Local => x # s /\ root'[x] = root[x]
    BY <1>2, <1>3
  <2>2. ASSUME NEW r \in Local, NEW e \in EventsIn(r)
        PROVE  root'[events[e].session] = r
    <3>1. events[e].session \in Sessions \cup Old /\ root[events[e].session] = r
      BY <1>0, PageTypes DEF EventsIn
    <3> QED BY <2>1, <3>1
  <2>3. ASSUME NEW x \in Sessions \cup Old, root[x] \in Local, NEW e \in EventsOf(x),
               Over(x) \/ (traces[x] # None /\ e \in traces[x].events)
        PROVE  OverThen(x) \/ (traces'[x] # None /\ e \in traces'[x].events)
    <3>1. CASE Over(x)
      BY <1>1, <1>4, <2>1, <2>3, <3>1 DEF Over, OverThen
    <3>2. CASE x = c
      <4>1. Contains(created, c)
        BY <1>0, <1>2, <3>2 DEF Existing, Exists
      <4> QED BY <1>1, <1>2, <1>4, <3>2, <4>1 DEF OverThen
    <3>3. CASE x # c /\ traces[x] # None /\ e \in traces[x].events
      BY <1>2, <1>5, <2>1, <2>3, <3>3
    <3> QED BY <2>3, <3>1, <3>2, <3>3
  <2> QED BY <1>1, <1>7, <2>1, <2>2, <2>3 DEF StaysTold
<1>9. ASSUME page = "chat" PROVE Chatting'
  <2>1. loading'.stage = "over" /\ pending' = None /\ traces[s] = None
    BY <1>0, <1>1, <1>2, <1>9 DEF Chatting
  <2>2. active' # None => Contains(order', active')
    BY <1>0, <1>1, <1>4, <1>9 DEF Chatting
  <2>3. \A d \in Ids : Contains(order', d) => traces'[d] # None
    BY <1>0, <1>2, <1>4, <1>5, <1>9 DEF Chatting
  <2>4. ASSUME NEW d \in Ids, traces'[d] # None, NEW e \in traces'[d].events
        PROVE  root'[events[e].session] = root'[d]
    <3>1. CASE d = s
      <4>1. e \in DOMAIN events /\ root[events[e].session] = root[c]
        BY <1>0, <1>2, <1>5, <1>9, <2>1, <2>4, <3>1 DEF Chatting, Sourced
      <4>2. events[e].session \in Ids
        BY <1>0, <1>2, <4>1, PageTypes
      <4> QED BY <1>3, <3>1, <4>1, <4>2
    <3>2. CASE d # s
      <4>1. d # c /\ traces'[d] = traces[d]
        BY <1>5, <2>4, <3>2
      <4>2. e \in DOMAIN events /\ root[events[e].session] = root[d]
        BY <1>0, <1>9, <2>4, <4>1 DEF Chatting, Sourced
      <4>3. events[e].session \in Ids
        BY <1>0, <1>2, <4>2, PageTypes
      <4>4. events[e].session # s
        <5>1. root[d] \in Local \cup {d}
          BY <1>0, <1>9 DEF Rooted
        <5> QED BY <1>2, <3>2, <4>2, <5>1
      <4> QED BY <1>3, <3>2, <4>2, <4>3, <4>4
    <3> QED BY <3>1, <3>2
  <2>5. \A d \in Ids : traces'[d] # None =>
          \A e \in traces'[d].events : root'[events[e].session] = root'[d]
    BY <2>4
  <2>6. events' = events
    BY <1>1
  <2>7. \A x \in Sessions : ~Coming(x)'
    BY <2>1 DEF Coming
  <2> QED BY <2>1, <2>2, <2>3, <2>5, <2>6, <2>7 DEF Chatting
<1>10. page # "chat" => Chatting'
  BY <1>1 DEF Chatting
<1>11. StatusIsTheLastWord'
  <2>1. \A x \in Sessions \cup Old :
          traces'[x] # None /\ traces'[x].status \in {"completed", "failed"}
            => traces[x] # None /\ traces'[x] = traces[x]
    BY <1>2, <1>5
  <2> QED BY <1>1, <1>7, <2>1, StatusStep
<1> QED BY <1>6, <1>8, <1>9, <1>10, <1>11, ToldStep

(* Every other answer tells nothing and leaves the lists of events.        *)
LEMMA AnswerChat ==
  ASSUME PageInv, Answers, PageTypeOK', Rooted'
  PROVE  Chatting' /\ Told' /\ TellsOnce' /\ StatusIsTheLastWord'
<1> USE DEF viewVars, askVars, sourceVars, serverVars, history
<1>0. PageTypeOK /\ Existing /\ Rooted /\ Chatting
  BY DEF PageInv
<1>a. /\ None \notin Ids /\ Sessions \cup Old \subseteq Ids
      /\ traces \in EntryMaps /\ registered \in [Ids -> Nat] /\ sources \in Seq(Sources)
      /\ pending # None => /\ pending.conv \in Ids /\ Talks(pending.conv)
                           /\ pending.session \in Sessions \cup {None}
  BY <1>0, PageTypes DEF PageTypeOK, Talks
<1>b. ASSUME UNCHANGED <<page, order, active, created, events, root, late>>,
             NothingTold,
             page # "chat" \/ loading' = loading,
             pending' = pending \/ pending' = None,
             syncing' = syncing \/ syncing' = None, renaming' = renaming \/ renaming' = None,
             \A d \in Ids :
               \/ traces'[d] = traces[d]
               \/ /\ traces'[d] # None /\ traces'[d].status \notin {"completed", "failed"}
                  /\ traces[d] # None => traces'[d].events = traces[d].events
                  /\ traces[d] = None => traces'[d].events = {}
                  /\ Talks(d) \/ syncing = d \/ renaming = d,
             \A k \in DOMAIN sources' :
               \/ \E j \in DOMAIN sources : sources'[k].session = sources[j].session
               \/ page # "chat" \/ syncing = sources'[k].session
               \/ pending # None /\ sources'[k].session = pending.session /\ pending' = None
      PROVE  Chatting' /\ Told' /\ TellsOnce' /\ StatusIsTheLastWord'
  <2>1. EventsStay
    BY <1>b DEF EventsStay
  <2>2. StaysTold
    BY <1>a, <1>b, <2>1, StillTold DEF Coming
  <2>3. StatusIsTheLastWord'
    BY <1>a, <1>b, <2>1, StatusStep
  <2>4. ASSUME page = "chat" PROVE Chatting'
    <3>1. loading'.stage = "over" /\ (active' # None => Contains(order', active'))
      BY <1>0, <1>b, <2>4 DEF Chatting
    <3>2. \A d \in Ids : Contains(order', d) => traces'[d] # None
      BY <1>0, <1>b, <2>4 DEF Chatting
    <3>3. ASSUME NEW s \in Sessions, Coming(s)'
          PROVE  /\ ~Talks(s)' /\ traces'[s] = None /\ syncing' # s /\ renaming' # s
                 /\ \A k \in DOMAIN sources' : sources'[k].session # s
      <4>1. pending' = pending /\ Coming(s) /\ pending' # None
        BY <1>b, <3>3 DEF Coming
      <4>2. /\ ~Talks(s) /\ traces[s] = None /\ syncing # s /\ renaming # s
            /\ \A k \in DOMAIN sources : sources[k].session # s
        BY <1>0, <2>4, <4>1 DEF Chatting
      <4>3. ~Talks(s)'
        BY <1>a, <1>0, <1>b, <2>4, <3>3, PageTypes DEF Rooted
      <4> QED BY <1>a, <1>b, <2>4, <4>1, <4>2, <4>3
    <3>4. ASSUME NEW d \in Ids, traces'[d] # None, NEW e \in traces'[d].events
          PROVE  root'[events'[e].session] = root'[d]
      BY <1>0, <1>b, <2>4, <3>4 DEF Chatting
    <3> QED BY <1>b, <3>1, <3>2, <3>3, <3>4 DEF Chatting
  <2>5. page # "chat" => Chatting'
    BY <1>b DEF Chatting
  <2> QED BY <1>b, <2>2, <2>3, <2>4, <2>5, ToldStep
<1>c. ASSUME NEW s \in Ids, EnsuresStream(s, registered, sources)
      PROVE  \A k \in DOMAIN sources' :
               sources'[k].session = s \/ \E j \in DOMAIN sources : sources'[k].session = sources[j].session
  <2>0. registered \in [Ids -> Nat] /\ sources \in Seq(Sources) /\ s \in Ids
        /\ EnsuresStream(s, registered, sources)
    BY <1>a, <1>c
  <2>1. /\ registered[s] # 0 => sources' = sources
        /\ registered[s] = 0 =>
             /\ DOMAIN sources' = 1 .. Len(sources) + 1
             /\ \A j \in DOMAIN sources : sources'[j] = sources[j]
             /\ sources'[Len(sources) + 1] =
                  [session |-> s, state |-> "connecting", coming |-> {}]
    BY <2>0, EnsuredStream
  <2>2. DOMAIN sources = 1 .. Len(sources) /\ Len(sources) \in Nat
    BY <1>a
  <2>3. ASSUME NEW k \in DOMAIN sources'
        PROVE  sources'[k].session = s \/ (k \in DOMAIN sources /\ sources'[k] = sources[k])
    BY <2>1, <2>2
  <2> QED BY <2>3
<1>1. ASSUME AnswerTask
      PROVE  Chatting' /\ Told' /\ TellsOnce' /\ StatusIsTheLastWord'
  BY <1>1, TaskChat
<1>2. ASSUME AnswerInWords
      PROVE  Chatting' /\ Told' /\ TellsOnce' /\ StatusIsTheLastWord'
  <2> DEFINE c == pending.conv
  <2>1. /\ pending # None /\ messages' = Append(messages, Answer(c))
        /\ traces' = Upserted(traces, c, "idle") /\ pending' = None
        /\ UNCHANGED <<page, mounted, order, active, follow, syncing, renaming, loading,
                       sourceVars, serverVars, history>>
    BY <1>2 DEF AnswerInWords, Answered
  <2>2. c \in Ids /\ Talks(c) /\ Answer(c) \in Sayings /\ Answer(c).about[1] # "event"
    <3>1. pending.no \in Nat /\ pending.thread \in Ids
      BY <1>0, <2>1, PageTypes
    <3> QED BY <3>1, <2>1, <1>a DEF Answer, Sayings, Words
  <2> HIDE DEF c
  <2>3. NothingTold
    BY <1>0, <2>1, <2>2, AppendTold
  <2>4. /\ traces'[c] # None /\ traces'[c].status = "idle"
        /\ traces[c] # None => traces'[c].events = traces[c].events
        /\ traces[c] = None => traces'[c].events = {}
        /\ \A d \in Ids \ {c} : traces'[d] = traces[d]
    <3>1. "idle" \in Status
      BY DEF Status
    <3> QED BY <3>1, <1>a, <2>1, <2>2, UpsertedEntry
  <2> QED BY <1>b, <2>1, <2>2, <2>3, <2>4
<1>3. ASSUME AnswerFails
      PROVE  Chatting' /\ Told' /\ TellsOnce' /\ StatusIsTheLastWord'
  BY <1>3, <1>b, SameTold DEF AnswerFails, Answered
<1>4. ASSUME AnswerTooLate
      PROVE  Chatting' /\ Told' /\ TellsOnce' /\ StatusIsTheLastWord'
  <2>1. pending # None /\ pending' = None
    BY <1>4 DEF AnswerTooLate, Answered
  <2>2. \A k \in DOMAIN sources' :
          \/ \E j \in DOMAIN sources : sources'[k].session = sources[j].session
          \/ sources'[k].session = pending.session
    <3>1. CASE pending.session = None
      BY <1>4, <3>1 DEF AnswerTooLate
    <3>2. CASE pending.session # None
      BY <1>4, <1>a, <1>c, <2>1, <3>2 DEF AnswerTooLate
    <3> QED BY <3>1, <3>2
  <2> QED BY <1>4, <1>b, <2>1, <2>2, SameTold DEF AnswerTooLate, Answered
<1>5. ASSUME SyncBringsFeedback
      PROVE  Chatting' /\ Told' /\ TellsOnce' /\ StatusIsTheLastWord'
  <2>1. syncing \in Ids
    <3>1. created \in Seq(Sessions \cup Old)
      BY <1>0 DEF PageTypeOK
    <3>2. \A x : Contains(created, x) => x \in Sessions \cup Old
      BY <3>1, ElementsIn
    <3> QED BY <3>2, <1>5, <1>a DEF SyncBringsFeedback
  <2>2. \A k \in DOMAIN sources' :
          \/ \E j \in DOMAIN sources : sources'[k].session = sources[j].session
          \/ syncing = sources'[k].session
    BY <1>5, <1>c, <2>1 DEF SyncBringsFeedback
  <2>3. \A d \in Ids :
          \/ traces'[d] = traces[d]
          \/ /\ d = syncing /\ traces'[d] # None /\ traces[d] = None
             /\ traces'[d].status = "idle" /\ traces'[d].events = {}
    BY <1>5, <1>a, <2>1, EnsuredEntry DEF SyncBringsFeedback
  <2>4. NothingTold /\ syncing' = None /\ UNCHANGED <<pending, renaming, loading>>
    BY <1>5, SameTold DEF SyncBringsFeedback, Synced
  <2>5. UNCHANGED <<page, order, active, created, events, root, late>>
    BY <1>5 DEF SyncBringsFeedback
  <2> QED BY <1>b, <2>2, <2>3, <2>4, <2>5
<1>6. ASSUME SyncBringsNothing
      PROVE  Chatting' /\ Told' /\ TellsOnce' /\ StatusIsTheLastWord'
  BY <1>6, <1>b, SameTold DEF SyncBringsNothing, Synced
<1>7. ASSUME RenameEnds
      PROVE  Chatting' /\ Told' /\ TellsOnce' /\ StatusIsTheLastWord'
  <2>1. renaming \in Ids
    BY <1>0, <1>7 DEF RenameEnds, PageTypeOK
  <2>2. \A d \in Ids :
          \/ traces'[d] = traces[d]
          \/ /\ d = renaming /\ traces'[d] # None /\ traces[d] = None
             /\ traces'[d].status = "idle" /\ traces'[d].events = {}
    BY <1>7, <1>a, <2>1, EnsuredEntry DEF RenameEnds
  <2>3. NothingTold /\ renaming' = None /\ UNCHANGED <<pending, syncing, loading, sources>>
    BY <1>7, SameTold DEF RenameEnds
  <2>4. UNCHANGED <<page, order, active, created, events, root, late>>
    BY <1>7 DEF RenameEnds
  <2> QED BY <1>b, <2>2, <2>3, <2>4
<1>8. ASSUME ReadProject
      PROVE  Chatting' /\ Told' /\ TellsOnce' /\ StatusIsTheLastWord'
  <2>1. page # "chat"
    BY <1>8, <1>0 DEF ReadProject, Chatting
  <2> QED BY <1>8, <1>b, <2>1, SameTold DEF ReadProject
<1>9. ASSUME LoadProject
      PROVE  Chatting' /\ Told' /\ TellsOnce' /\ StatusIsTheLastWord'
  <2>1. /\ page # "chat"
        /\ UNCHANGED <<page, mounted, follow, messages, pending, syncing, renaming, sourceVars,
                       serverVars, root, late, abandoned>>
    BY <1>9, <1>0 DEF LoadProject, Chatting
  <2>2. EventsStay
    BY <2>1 DEF EventsStay
  <2>3. StaysTold
    BY <2>1, <2>2 DEF StaysTold
  <2>4. Chatting'
    BY <2>1 DEF Chatting
  <2>5. \A d \in Ids : traces'[d] = traces[d] \/ traces'[d].status = "reported"
    <3>1. CASE ToSet(loading.list) = {}
      BY <1>9, <3>1 DEF LoadProject
    <3>2. CASE ToSet(loading.list) # {}
      <4>1. traces' = [c \in Ids |-> IF c \in ToSet(loading.list) THEN Entry("reported", {})
                                     ELSE traces[c]]
        BY <1>9, <3>2 DEF LoadProject
      <4>2. Entry("reported", {}).status = "reported"
        BY DEF Entry
      <4> QED BY <4>1, <4>2
    <3> QED BY <3>1, <3>2
  <2>6. StatusIsTheLastWord'
    <3>1. \A x \in Sessions \cup Old :
            traces'[x] # None /\ traces'[x].status \in {"completed", "failed"}
              => traces[x] # None /\ traces'[x] = traces[x]
      BY <1>a, <2>5
    <3> QED BY <2>1, <2>2, <3>1, StatusStep
  <2> QED BY <2>1, <2>3, <2>4, <2>6, ToldStep, SameTold
<1> QED BY <1>1, <1>2, <1>3, <1>4, <1>5, <1>6, <1>7, <1>8, <1>9 DEF Answers

(* Every step of the page and of the server keeps it all, and so does a    *)
(* step of something else.                                                 *)
LEMMA PageStep ==
  ASSUME PageInv, [PageNext]_pageVars
  PROVE  PageInv'
<1>1. CASE User
  BY <1>1, UserTypes, UserTalks, UserSourced, UserChat DEF PageInv
<1>2. CASE ServerActs
  BY <1>2, ServerTypes, ServerTalks, ServerSourced, ServerChat DEF PageInv
<1>3. CASE Answers
  BY <1>3, AnswerTypes, AnswerTalks, AnswerSourced, AnswerChat DEF PageInv
<1>4. ASSUME NEW k \in DOMAIN sources, Deliver(k) PROVE PageInv'
  <2>1. PageTypeOK'
    BY <1>4, DeliverTypes
  <2>2. Existing' /\ Rooted' /\ Together' /\ Placed'
    BY <1>4, <2>1, DeliverTalks
  <2>3. Sourced'
    BY <1>4, <2>1, DeliverSourced
  <2>4. Chatting' /\ Told' /\ TellsOnce'
    BY <1>4, <2>1, <2>2, DeliverChat
  <2>5. StatusIsTheLastWord'
    BY <1>4, DeliverStatus
  <2> QED BY <2>1, <2>2, <2>3, <2>4, <2>5 DEF PageInv
<1>5. CASE UNCHANGED pageVars
  <2>1. /\ UNCHANGED <<page, mounted, order, traces, active, follow, messages, pending>>
        /\ UNCHANGED <<syncing, renaming, loading, registered, sources, created, events, left>>
        /\ UNCHANGED <<root, gone, brought, split, late, abandoned>>
    BY <1>5 DEF pageVars, viewVars, askVars, sourceVars, serverVars, history
  <2>2. PageTypeOK' /\ Existing' /\ Rooted' /\ Together' /\ Placed' /\ Sourced'
    BY <2>1 DEF PageInv, PageTypeOK, Existing, Rooted, Together, Placed, Sourced,
                Talks, Speaks, Exists, Coming, Open, EventsOf
  <2>3. Chatting' /\ Told' /\ TellsOnce' /\ StatusIsTheLastWord'
    BY <2>1 DEF PageInv, Chatting, Told, TellsOnce, StatusIsTheLastWord,
                Talks, Speaks, Coming, Over, Overflows, EventsIn, EventsOf
  <2> QED BY <2>2, <2>3 DEF PageInv
<1> QED BY <1>1, <1>2, <1>3, <1>4, <1>5 DEF PageNext

(* The invariant holds from the opening of the page on.                    *)
LEMMA PageAlways == PageSpec => []PageInv
<1>1. PageInv /\ [PageNext]_pageVars => PageInv'
  BY PageStep
<1> QED BY FirstPage, <1>1, PTL DEF PageSpec

(* The state that chat/page.tsx and projects/[id]/page.tsx keep is of its  *)
(* type: the lists hold conversations that exist, a registered source is a *)
(* source, and what was left before an answer came is one of the page's.   *)
THEOREM PageTyped == PageSpec => []PageTypeOK
<1>1. PageInv => PageTypeOK
  BY DEF PageInv
<1> QED BY <1>1, PageAlways, PTL

(* sendMessage and migrateSessionId of both pages, with deleteSession and  *)
(* the effect of loadProject: what is said in a thread stays in one        *)
(* conversation, through any number of sessions, with answers, events and  *)
(* deletions in any order; loadProject alone can split it, by listing a    *)
(* session that the conversation had left.  And the conversation is in the *)
(* sidebar unless it was deleted or replaced.                              *)
THEOREM OneConversationPerThread == PageSpec => []ConversationsHoldTogether
<1>1. ASSUME PageInv PROVE ConversationsHoldTogether
  <2>0. PageTypeOK /\ Rooted /\ Together /\ Placed
    BY <1>1 DEF PageInv
  <2>1. \A m \in DOMAIN messages :
          /\ messages[m].conv \in Ids /\ Talks(messages[m].conv)
          /\ messages[m].thread = root[messages[m].conv]
    <3>1. \A m \in DOMAIN messages : messages[m].conv \in Ids
      <4>1. messages \in Seq(Sayings)
        BY <2>0 DEF PageTypeOK
      <4>2. \A m \in DOMAIN messages : messages[m] \in Sayings
        BY <4>1
      <4> QED BY <4>2 DEF Sayings
    <3> QED BY <2>0, <3>1 DEF Rooted, Talks, Speaks
  <2>2. \A m, n \in DOMAIN messages :
          messages[m].thread = messages[n].thread /\ messages[m].thread \notin split
            => messages[m].conv = messages[n].conv
    BY <2>0, <2>1 DEF Together
  <2>3. \A m \in DOMAIN messages :
          Contains(order, messages[m].conv) \/ messages[m].conv \in gone
    <3>1. CASE mounted
      BY <2>0, <2>1, <3>1 DEF Placed
    <3>2. CASE ~mounted
      <4>1. messages = <<>>
        BY <2>0, <3>2 DEF Placed
      <4> QED BY <4>1
    <3> QED BY <3>1, <3>2
  <2> QED BY <2>2, <2>3 DEF ConversationsHoldTogether
<1> QED BY <1>1, PageAlways, PTL

(* ensureSessionStream, migrateSessionId, deleteSession and the clean-up   *)
(* of the effects that open event sources: every source that is open is    *)
(* the one registered for its session, every conversation that a task was  *)
(* accepted in has one, and a page that was left with no request under way *)
(* has none.                                                               *)
THEOREM NoStreamLeftBehind == PageSpec => []StreamsMatchSessions
<1>1. ASSUME PageInv PROVE StreamsMatchSessions
  <2>0. PageTypeOK /\ Sourced
    BY <1>1 DEF PageInv
  <2>1. \A k \in Open : k \in DOMAIN sources /\ sources[k].session \in Ids
    <3>1. sources \in Seq(Sources)
      BY <2>0 DEF PageTypeOK
    <3>2. \A k \in DOMAIN sources : sources[k] \in Sources
      BY <3>1
    <3> QED BY <3>2 DEF Open, Sources
  <2>2. mounted => Open \subseteq { registered[s] : s \in Ids }
    BY <2>0, <2>1 DEF Sourced
  <2> QED BY <2>0, <2>2 DEF Sourced, StreamsMatchSessions
<1> QED BY <1>1, PageAlways, PTL

(* handleEvent of chat/page.tsx, which forgets no event that the entry of  *)
(* the session still keeps: the end or the failure of a task is told once  *)
(* however often the stream is connected again, unless the conversation    *)
(* has had more events than the list keeps.                                *)
THEOREM ToldOnce == PageSpec => []TellsOnce
<1>1. PageInv => TellsOnce
  BY DEF PageInv
<1> QED BY <1>1, PageAlways, PTL

(* handleEvent and upsertSessionMeta: the status shown for a session that  *)
(* is completed or has failed is that of its last word, unless its events  *)
(* came out of order.                                                      *)
THEOREM LastWordShown == PageSpec => []StatusIsTheLastWord
<1>1. PageInv => StatusIsTheLastWord
  BY DEF PageInv
<1> QED BY <1>1, PageAlways, PTL
=============================================================================
