------------------------- MODULE SingleProcessProofs -------------------------
(***************************************************************************)
(* The queue, for any items and callers, keeps the contract of             *)
(* CommandQueue; and the processes on it, for any number of them, any      *)
(* commands and environments and any number of starts, keep what the run   *)
(* of MCSingleProcess checks of index.ts.                                  *)
(*                                                                         *)
(* The queue rests on one fact, ResolversWait: a caller waits exactly if   *)
(* one resolver of its is in the set, and nobody waits while the array     *)
(* holds an item.  The argument about the processes has three layers.      *)
(* Grounded: types, and where a runtime is against what it has in hand.    *)
(* Ordered: what holds at each phase of a process, and who waits for a     *)
(* dispatch.  Single: a command is in at most one place on its way from    *)
(* dispatch to an agent.                                                   *)
(***************************************************************************)
EXTENDS SingleProcess, SequenceTheorems, TLAPS

-----------------------------------------------------------------------------
(* The queue.                                                              *)
(* What RemoveAt leaves of a sequence: the delete of a set's element.      *)
LEMMA RemoveAtElements ==
  ASSUME NEW S, NEW s \in Seq(S), NEW k \in DOMAIN s
  PROVE  /\ RemoveAt(s, k) \in Seq(S)
         /\ Len(RemoveAt(s, k)) = Len(s) - 1
         /\ \A j \in 1 .. Len(s) - 1 :
              RemoveAt(s, k)[j] = IF j < k THEN s[j] ELSE s[j + 1]
<1> DEFINE left  == SubSeq(s, 1, k - 1)
           right == SubSeq(s, k + 1, Len(s))
<1>1. k \in 1 .. Len(s) /\ Len(s) \in Nat
  BY LenProperties
<1>2. /\ left \in Seq(S) /\ Len(left) = k - 1
      /\ \A j \in 1 .. k - 1 : left[j] = s[j]
  BY <1>1, SubSeqProperties
<1>3. /\ right \in Seq(S) /\ Len(right) = Len(s) - k
      /\ \A j \in 1 .. Len(s) - k : right[j] = s[k + j]
  BY <1>1, SubSeqProperties
<1> HIDE DEF left, right
<1>4. RemoveAt(s, k) = left \o right
  BY DEF RemoveAt, left, right
<1>5. /\ left \o right \in Seq(S)
      /\ Len(left \o right) = Len(s) - 1
      /\ \A j \in 1 .. Len(s) - 1 :
           (left \o right)[j] = IF j <= k - 1 THEN left[j] ELSE right[j - (k - 1)]
  BY <1>1, <1>2, <1>3, ConcatProperties
<1>6. ASSUME NEW j \in 1 .. Len(s) - 1
      PROVE  (left \o right)[j] = IF j < k THEN s[j] ELSE s[j + 1]
  <2>1. CASE j < k
    BY <1>1, <1>2, <1>5, <2>1
  <2>2. CASE ~(j < k)
    <3>1. j - (k - 1) \in 1 .. Len(s) - k
      BY <1>1, <2>2
    <3>2. right[j - (k - 1)] = s[k + (j - (k - 1))]
      BY <1>3, <3>1
    <3> QED
      BY <1>1, <1>5, <2>2, <3>2
  <2> QED
    BY <1>1, <2>1, <2>2
<1> QED
  BY <1>4, <1>5, <1>6

-----------------------------------------------------------------------------
Waits(c, s) == \E k \in DOMAIN s : s[k] = c
NoRepeats(s) == \A j, k \in DOMAIN s : s[j] = s[k] => j = k

(* The first resolver is taken: its caller waits no more, the others do.   *)
LEMMA TailWaits ==
  ASSUME NEW s \in Seq(Callers), s # <<>>, NoRepeats(s)
  PROVE  /\ Tail(s) \in Seq(Callers) /\ Head(s) \in Callers
         /\ NoRepeats(Tail(s))
         /\ \A c : Waits(c, Tail(s)) <=> Waits(c, s) /\ c # Head(s)
<1>1. /\ Tail(s) \in Seq(Callers) /\ Head(s) = s[1] /\ Len(s) \in Nat \ {0}
      /\ Len(Tail(s)) = Len(s) - 1
      /\ \A k \in 1 .. Len(Tail(s)) : Tail(s)[k] = s[k + 1]
  BY HeadTailProperties, LenProperties, EmptySeq
<1>2. DOMAIN s = 1 .. Len(s) /\ DOMAIN Tail(s) = 1 .. Len(s) - 1
  BY <1>1, LenProperties
<1> HIDE DEF Waits, NoRepeats
<1>3. NoRepeats(Tail(s))
  BY <1>1, <1>2 DEF NoRepeats
<1>4. ASSUME NEW c, Waits(c, Tail(s)) PROVE Waits(c, s) /\ c # Head(s)
  <2>1. PICK k \in 1 .. Len(s) - 1 : Tail(s)[k] = c
    BY <1>2, <1>4 DEF Waits
  <2>2. s[k + 1] = c /\ k + 1 \in DOMAIN s /\ 1 \in DOMAIN s /\ k + 1 # 1
    BY <1>1, <1>2, <2>1
  <2> QED
    BY <1>1, <2>2 DEF Waits, NoRepeats
<1>5. ASSUME NEW c, Waits(c, s), c # Head(s) PROVE Waits(c, Tail(s))
  <2>1. PICK k \in 1 .. Len(s) : s[k] = c
    BY <1>2, <1>5 DEF Waits
  <2>2. k # 1
    BY <1>1, <1>5, <2>1
  <2>3. k - 1 \in 1 .. Len(s) - 1 /\ Tail(s)[k - 1] = s[(k - 1) + 1] /\ (k - 1) + 1 = k
    BY <1>1, <2>1, <2>2
  <2> QED
    BY <1>2, <2>1, <2>3 DEF Waits
<1>6. \A c : Waits(c, Tail(s)) <=> Waits(c, s) /\ c # Head(s)
  BY <1>4, <1>5
<1>7. Head(s) \in Callers
  BY <1>1, ElementOfSeq
<1> QED
  BY <1>1, <1>3, <1>6, <1>7

(* A resolver is deleted: only its caller waits no more.                   *)
LEMMA RemoveAtWaits ==
  ASSUME NEW s \in Seq(Callers), NEW k \in DOMAIN s, NoRepeats(s)
  PROVE  /\ RemoveAt(s, k) \in Seq(Callers)
         /\ NoRepeats(RemoveAt(s, k))
         /\ \A c : Waits(c, RemoveAt(s, k)) <=> Waits(c, s) /\ c # s[k]
<1> DEFINE r == RemoveAt(s, k)
<1>1. /\ r \in Seq(Callers) /\ Len(r) = Len(s) - 1
      /\ \A j \in 1 .. Len(s) - 1 : r[j] = IF j < k THEN s[j] ELSE s[j + 1]
  BY RemoveAtElements
<1>2. /\ DOMAIN s = 1 .. Len(s) /\ DOMAIN r = 1 .. Len(s) - 1
      /\ k \in 1 .. Len(s) /\ Len(s) \in Nat
  BY <1>1, LenProperties
<1> HIDE DEF r
<1>3. NoRepeats(r)
  <2> SUFFICES ASSUME NEW i \in 1 .. Len(s) - 1, NEW j \in 1 .. Len(s) - 1, r[i] = r[j]
               PROVE  i = j
    BY <1>2 DEF NoRepeats
  <2> DEFINE from(x) == IF x < k THEN x ELSE x + 1
  <2>1. from(i) \in DOMAIN s /\ from(j) \in DOMAIN s /\ s[from(i)] = s[from(j)]
    BY <1>1, <1>2
  <2>2. from(i) = from(j)
    BY <2>1 DEF NoRepeats
  <2> QED
    BY <1>2, <2>2
<1>4. ASSUME NEW c, Waits(c, r) PROVE Waits(c, s) /\ c # s[k]
  <2>1. PICK j \in 1 .. Len(s) - 1 : r[j] = c
    BY <1>2, <1>4 DEF Waits
  <2> DEFINE i == IF j < k THEN j ELSE j + 1
  <2>2. i \in DOMAIN s /\ s[i] = c /\ i # k
    BY <1>1, <1>2, <2>1
  <2> QED
    BY <2>2 DEF Waits, NoRepeats
<1>5. ASSUME NEW c, Waits(c, s), c # s[k] PROVE Waits(c, r)
  <2>1. PICK i \in 1 .. Len(s) : s[i] = c
    BY <1>2, <1>5 DEF Waits
  <2> DEFINE j == IF i < k THEN i ELSE i - 1
  <2>2. j \in 1 .. Len(s) - 1 /\ r[j] = c
    BY <1>1, <1>2, <1>5, <2>1
  <2> QED
    BY <1>2, <2>2 DEF Waits
<1> QED
  BY <1>1, <1>3, <1>4, <1>5 DEF r

(* A call that waits adds its resolver at the end.                         *)
LEMMA AppendWaits ==
  ASSUME NEW s \in Seq(Callers), NEW d \in Callers, NoRepeats(s), ~Waits(d, s)
  PROVE  /\ Append(s, d) \in Seq(Callers)
         /\ NoRepeats(Append(s, d))
         /\ \A c : Waits(c, Append(s, d)) <=> Waits(c, s) \/ c = d
<1>1. /\ Append(s, d) \in Seq(Callers) /\ Len(Append(s, d)) = Len(s) + 1
      /\ \A j \in 1 .. Len(s) : Append(s, d)[j] = s[j]
      /\ Append(s, d)[Len(s) + 1] = d
  BY AppendProperties
<1>2. DOMAIN s = 1 .. Len(s) /\ DOMAIN Append(s, d) = 1 .. Len(s) + 1 /\ Len(s) \in Nat
  BY <1>1, LenProperties
<1>3. NoRepeats(Append(s, d))
  BY <1>1, <1>2 DEF Waits, NoRepeats
<1>4. \A c : Waits(c, Append(s, d)) <=> Waits(c, s) \/ c = d
  BY <1>1, <1>2 DEF Waits
<1> QED
  BY <1>1, <1>3, <1>4
-----------------------------------------------------------------------------
IInv == QueueTypeOK /\ ResolversWait

(* Nobody waits at first.                                                  *)
LEMMA InitIInv == QueueInit => IInv
BY DEF QueueInit, IInv, QueueTypeOK, ResolversWait, Idle, Waiting

(* The two operators above say what ResolversWait says.                    *)
LEMMA ResolversWaitMeans ==
  ResolversWait <=>
    /\ \A c \in Callers : answer[c] = Waiting <=> Waits(c, waitingResolvers)
    /\ NoRepeats(waitingResolvers)
    /\ waitingResolvers # <<>> => items = <<>>
BY DEF ResolversWait, Waits, NoRepeats

(* The same of the next state.                                             *)
LEMMA ResolversWaitNext ==
  ASSUME \A c \in Callers : answer'[c] = Waiting <=> Waits(c, waitingResolvers'),
         NoRepeats(waitingResolvers'),
         waitingResolvers' # <<>> => items' = <<>>
  PROVE  ResolversWait'
BY DEF ResolversWait, Waits, NoRepeats

(* An item goes to the caller whose resolver is the first, or, if nobody   *)
(* waits, into the array.                                                  *)
LEMMA EnqueueIInv == ASSUME IInv, NEW i \in Items, Enqueue(i) PROVE IInv'
<1> USE DEF QueueTypeOK
<1>1. CASE waitingResolvers # <<>>
  <2> DEFINE c == Head(waitingResolvers)
  <2>1. QueueTypeOK /\ NoRepeats(waitingResolvers)
    BY ResolversWaitMeans DEF IInv
  <2>2. /\ Tail(waitingResolvers) \in Seq(Callers) /\ c \in Callers
        /\ NoRepeats(Tail(waitingResolvers))
        /\ \A d : Waits(d, Tail(waitingResolvers)) <=> Waits(d, waitingResolvers) /\ d # c
    BY <1>1, <2>1, TailWaits
  <2>3. Waits(c, waitingResolvers)
    BY <1>1, <2>1, HeadTailProperties, LenProperties, EmptySeq DEF Waits
  <2>4. answer[c] = Waiting /\ items = <<>>
    BY <1>1, <2>2, <2>3, ResolversWaitMeans DEF IInv
  <2>5. /\ answer' = [answer EXCEPT ![c] = i] /\ i # Waiting
        /\ waitingResolvers' = Tail(waitingResolvers) /\ items' = items
    BY <1>1, <2>4, InMemoryQueueAssumption DEF Enqueue, Resolve
  <2>6. QueueTypeOK'
    BY <2>1, <2>2, <2>5
  <2>7. \A d \in Callers : answer'[d] = Waiting <=> Waits(d, waitingResolvers')
    BY <2>1, <2>2, <2>5, ResolversWaitMeans DEF IInv
  <2>8. ResolversWait'
    BY <2>2, <2>4, <2>5, <2>7, ResolversWaitNext
  <2> QED
    BY <2>6, <2>8 DEF IInv
<1>2. CASE waitingResolvers = <<>>
  BY <1>2, AppendProperties DEF Enqueue, IInv, ResolversWait
<1> QED
  BY <1>1, <1>2

(* A call takes the first item, or adds its resolver.                      *)
LEMMA DequeueIInv == ASSUME IInv, NEW c \in Callers, Dequeue(c) PROVE IInv'
<1> USE DEF QueueTypeOK
<1>1. /\ QueueTypeOK /\ NoRepeats(waitingResolvers)
      /\ \A d \in Callers : answer[d] = Waiting <=> Waits(d, waitingResolvers)
      /\ waitingResolvers # <<>> => items = <<>>
      /\ answer[c] # Waiting /\ ~Waits(c, waitingResolvers)
  BY ResolversWaitMeans DEF IInv, Dequeue
<1>2. CASE items # <<>>
  <2>1. Head(items) \in Items /\ Tail(items) \in Seq(Items) /\ Head(items) # Waiting
    BY <1>1, <1>2, HeadTailProperties, InMemoryQueueAssumption
  <2>2. /\ answer' = [answer EXCEPT ![c] = Head(items)] /\ items' = Tail(items)
        /\ waitingResolvers' = waitingResolvers /\ waitingResolvers = <<>>
    BY <1>1, <1>2 DEF Dequeue
  <2>3. \A d \in Callers : answer'[d] = Waiting <=> Waits(d, waitingResolvers')
    BY <1>1, <2>1, <2>2
  <2>4. ResolversWait'
    BY <1>1, <2>2, <2>3, ResolversWaitNext
  <2> QED
    BY <1>1, <2>1, <2>2, <2>4 DEF IInv
<1>3. CASE items = <<>>
  <2>1. /\ waitingResolvers' = Append(waitingResolvers, c) /\ items' = items
        /\ answer' = [answer EXCEPT ![c] = Waiting]
    BY <1>3 DEF Dequeue
  <2>2. /\ waitingResolvers' \in Seq(Callers) /\ NoRepeats(waitingResolvers')
        /\ \A d : Waits(d, waitingResolvers') <=> Waits(d, waitingResolvers) \/ d = c
    BY <1>1, <2>1, AppendWaits
  <2>3. \A d \in Callers : answer'[d] = Waiting <=> Waits(d, waitingResolvers')
    BY <1>1, <2>1, <2>2
  <2>4. ResolversWait'
    BY <1>3, <2>1, <2>2, <2>3, ResolversWaitNext
  <2> QED
    BY <1>1, <2>1, <2>2, <2>4 DEF IInv
<1> QED
  BY <1>2, <1>3

(* The timer of a call deletes the call's resolver.                         *)
LEMMA TimeOutIInv == ASSUME IInv, NEW c \in Callers, TimeOut(c) PROVE IInv'
<1> USE InMemoryQueueAssumption DEF IInv, QueueTypeOK, ResolversWait
<1>1. PICK k \in DOMAIN waitingResolvers :
        waitingResolvers[k] = c /\ waitingResolvers' = RemoveAt(waitingResolvers, k)
  BY DEF TimeOut
<1>2. NoRepeats(waitingResolvers)
  BY DEF NoRepeats
<1>3. /\ waitingResolvers' \in Seq(Callers) /\ NoRepeats(waitingResolvers')
      /\ \A d : Waits(d, waitingResolvers') <=> Waits(d, waitingResolvers) /\ d # c
  BY <1>1, <1>2, RemoveAtWaits
<1>4. answer' = [answer EXCEPT ![c] = Empty] /\ items' = items /\ Empty # Waiting
  BY DEF TimeOut, Empty, Waiting
<1>5. waitingResolvers # <<>>
  BY <1>1
<1> QED
  BY <1>3, <1>4, <1>5 DEF Waits, NoRepeats

(* close resolves every promise and empties the set.                       *)
LEMMA CloseIInv == ASSUME IInv, Close PROVE IInv'
BY InMemoryQueueAssumption DEF IInv, QueueTypeOK, ResolversWait, Close, Empty, Waiting

(* Whatever step the queue takes, or none.                                 *)
LEMMA StepIInv == ASSUME IInv, [QueueNext]_queueVars PROVE IInv'
<1>1. CASE UNCHANGED queueVars
  BY <1>1 DEF queueVars, IInv, QueueTypeOK, ResolversWait
<1> QED
  BY <1>1, EnqueueIInv, DequeueIInv, TimeOutIInv, CloseIInv DEF QueueNext

(* The inductive invariant: types, and who waits has a resolver.           *)
THEOREM QueueInvariance == QueueSpec => []IInv
<1>1. IInv /\ [QueueNext]_queueVars => IInv'
  BY StepIInv
<1> QED
  BY <1>1, InitIInv, PTL DEF QueueSpec

(* No stale resolver is left in the set of inmemory-queue.ts, and no       *)
(* caller waits beside an item.                                            *)
THEOREM ResolversAreCurrent == QueueSpec => []ResolversWait
BY QueueInvariance, PTL DEF IInv

(* Every method of inmemory-queue.ts does what the contract allows.        *)
THEOREM QueueKeepsContract == QueueSpec => KeepsContract
<1> USE DEF Contract!Waiting, Contract!Idle, Contract!Empty, Waiting, Idle, Empty
<1>1. QueueInit => Contract!Init
  BY DEF QueueInit, Contract!Init
<1>2. IInv /\ [QueueNext]_queueVars => [Contract!Next]_<<items, answer>>
  <2> SUFFICES ASSUME IInv, [QueueNext]_queueVars PROVE [Contract!Next]_<<items, answer>>
    OBVIOUS
  <2> USE DEF IInv, QueueTypeOK, ResolversWait
  <2>1. ASSUME NEW i \in Items, Enqueue(i) PROVE Contract!Next
    <3>1. CASE waitingResolvers # <<>>
      <4> DEFINE c == Head(waitingResolvers)
      <4>1. c \in Callers /\ answer[c] = "waiting" /\ items = <<>>
        BY <3>1, HeadTailProperties, LenProperties, EmptySeq
      <4>2. Contract!HandOver(i, c)
        BY <2>1, <3>1, <4>1 DEF Enqueue, Resolve, Contract!HandOver
      <4> QED
        BY <4>1, <4>2 DEF Contract!Next
    <3>2. CASE waitingResolvers = <<>>
      <4>1. Contract!Accept(i)
        BY <2>1, <3>2 DEF Enqueue, Contract!Accept
      <4> QED
        BY <4>1 DEF Contract!Next
    <3> QED
      BY <3>1, <3>2
  <2>2. ASSUME NEW c \in Callers, Dequeue(c) PROVE Contract!Next
    <3>1. Contract!Take(c) \/ Contract!Wait(c)
      BY <2>2 DEF Dequeue, Contract!Take, Contract!Wait
    <3> QED
      BY <3>1 DEF Contract!Next
  <2>3. ASSUME NEW c \in Callers, TimeOut(c) PROVE Contract!Next
    <3>1. answer[c] = Waiting /\ items = <<>> /\ items' = items
      BY <2>3 DEF TimeOut
    <3>2. answer' = [d \in Callers |-> IF d \in {c} THEN Empty ELSE answer[d]]
      BY <2>3 DEF TimeOut
    <3>3. Contract!GiveUp({c})
      BY <3>1, <3>2 DEF Contract!GiveUp
    <3> QED
      BY <3>3 DEF Contract!Next
  <2>4. ASSUME Close PROVE [Contract!Next]_<<items, answer>>
    <3> DEFINE who == {c \in Callers : answer[c] = "waiting"}
    <3>1. CASE who = {}
      <4>1. answer' = answer /\ items' = items
        BY <2>4, <3>1 DEF Close
      <4> QED
        BY <4>1
    <3>2. CASE who # {}
      <4>1. items = <<>>
        BY <3>2
      <4>2. Contract!GiveUp(who)
        BY <2>4, <3>2, <4>1 DEF Close, Contract!GiveUp
      <4> QED
        BY <4>2 DEF Contract!Next
    <3> QED
      BY <3>1, <3>2
  <2> QED
    BY <2>1, <2>2, <2>3, <2>4 DEF QueueNext, queueVars
<1> QED
  BY <1>1, <1>2, QueueInvariance, PTL DEF QueueSpec, KeepsContract, Contract!Spec
-----------------------------------------------------------------------------
(* The processes.                                                          *)

(* The places at which a runtime has a command in hand.                    *)
Busy == {"resolving", "starting", "executing", "finishing", "failing", "reporting"}

(* Every variable of the processes holds a value of its type.              *)
TypeOK ==
  /\ status \in [Commands -> CommandStatus]
  /\ dispatching \subseteq Commands
  /\ running \in [Callers -> BOOLEAN]
  /\ at \in [Callers -> Place]
  /\ current \in [Callers -> Commands \cup {None}]
  /\ executions \in [Commands -> Nat]
  /\ reported \subseteq Commands
  /\ dropped \subseteq Commands
  /\ phase \in [Callers -> Phase]
  /\ starts \in [Callers -> Nat]
  /\ served \in [Callers -> SUBSET Role]
  /\ subscribed \subseteq Callers
  /\ request \in [Callers -> Request]
  /\ streaming \subseteq Callers
  /\ dispatcher \in [Commands -> (Callers \X Emitter) \cup {None}]
  /\ told \subseteq Callers
  /\ unheard \in [Commands -> Phase \cup {None}]

(* A runtime has a command exactly at the places of processCommand.        *)
HandsOK == \A r \in Callers : current[r] # None <=> at[r] \in Busy

(* What is being dispatched is so by an emit of some process, and the one  *)
(* of an agent is waited for by the agent, which tells one decision.       *)
DispatchOK ==
  /\ \A c \in dispatching :
       /\ dispatcher[c] \in Callers \X Emitter
       /\ dispatcher[c][2] = "agent" => dispatcher[c][1] \in told
  /\ \A c, d \in dispatching :
       dispatcher[c][2] = "agent" /\ dispatcher[c] = dispatcher[d] => c = d
  /\ \A p \in told : at[p] = "executing"

(* Only a poll waits for the queue.                                        *)
WaitOK == \A r \in Callers : answer[r] = Waiting => at[r] = "polling"

(* A process that is not up yet, or no more, has no loop.                  *)
RestOK ==
  \A p \in Callers :
    phase[p] \in {"wiring", "subscribed", "releasing", "exited"} => at[p] = "off"

Grounded == IInv /\ TypeOK /\ HandsOK /\ DispatchOK /\ WaitOK /\ RestOK
-----------------------------------------------------------------------------
(* Which phases have no loop, which have an orchestrator and requests, and *)
(* what the runtime of a process has been given.                           *)
PhaseOK(p) ==
  /\ phase[p] \in {"wiring", "subscribed", "stopping", "releasing", "exited"} => ~running[p]
  /\ phase[p] \in {"subscribed", "started", "up", "closing", "closed"} => p \in subscribed
  /\ request[p] # "none" => phase[p] \in {"up", "closing"}
  /\ running[p] => served[p] = Role

(* The request that starts the session waits for the dispatch.             *)
EmitOK(p) ==
  \A c \in dispatching :
    dispatcher[c] = <<p, "request">> => c = First /\ request[p] = "dispatching"

Ordered ==
  /\ \A p \in Callers : PhaseOK(p) /\ EmitOK(p)
  /\ HeardUnlessStopping
-----------------------------------------------------------------------------
(* A runtime holds a command from the answer of its poll on.               *)
Held(r, c) == current[r] = c \/ (at[r] = "polling" /\ answer[r] = c)

OnceInQueue ==
  \A j, k \in DOMAIN items : items[j] \in Commands /\ items[j] = items[k] => j = k

(* Nobody has begun to work on the command.                                *)
Fresh(c) ==
  \/ status[c] = "absent" \/ c \in dispatching \/ InQueue(c)
  \/ \E r \in Callers : Held(r, c) /\ at[r] \in {"polling", "resolving", "starting"}

(* A command is in one place at most, in none before it is dispatched, and *)
(* no agent has worked on it before it has come to one.                    *)
Single ==
  /\ OnceInQueue
  /\ \A c \in Commands :
       /\ status[c] = "absent" => c \notin dispatching
       /\ status[c] = "absent" \/ c \in dispatching => ~InQueue(c)
       /\ \A r \in Callers : Held(r, c) =>
            status[c] # "absent" /\ c \notin dispatching /\ ~InQueue(c)
       /\ \A q, r \in Callers : Held(q, c) /\ Held(r, c) => q = r
       /\ Fresh(c) => executions[c] = 0
  /\ ExecutedOnce

(* What is reported of a failure is a failure.                             *)
Kept ==
  /\ NothingLost
  /\ \A r \in Callers : at[r] = "reporting" => status[current[r]] = "FAILED"

Inv == Grounded /\ Ordered /\ Single /\ Kept
-----------------------------------------------------------------------------
(* The steps of a process that leave queue, commands and loop alone.       *)
Quiet(p) ==
  \/ SubscribeOrchestrator(p) \/ Listen(p) \/ Restart(p)
  \/ AcceptRequest(p) \/ OpenStream(p) \/ CloseStream(p)
  \/ Signal(p) \/ ListenerCloses(p) \/ RuntimeStopped(p)

(* The four ways to the end of a process are one step.                     *)
LEMMA StepsOfNext ==
  ASSUME Next
  PROVE  \/ \E p \in Callers :
              \/ Quiet(p) \/ StartRuntime(p) \/ StopRuntime(p) \/ Ends(p)
              \/ StartSession(p) \/ AnswerRequest(p)
              \/ AgentEmitsDecision(p) \/ RunRuntime(p) \/ PollEnds(p)
         \/ \E c \in Commands : Dispatch(c) \/ DispatchRejects(c)
BY DEF Next, Boot, BootFails, Api, StopInOrder, Exit, ForceExit, Quiet

(* Of the queue, each step takes one of its own or none.                   *)
LEMMA QueueSteps == ASSUME Next PROVE [QueueNext]_queueVars
<1> USE AgentRuntimeAssumption, SingleProcessAssumption DEF queueVars, vars, QueueNext
<1>1. ASSUME NEW p \in Callers,
             Quiet(p) \/ StartRuntime(p) \/ StopRuntime(p) \/ StartSession(p)
               \/ AgentEmitsDecision(p)
      PROVE  UNCHANGED queueVars
  BY <1>1 DEF Quiet, SubscribeOrchestrator, Listen, Restart, AcceptRequest, OpenStream,
              CloseStream, Signal, ListenerCloses, RuntimeStopped, StartRuntime,
              StopRuntime, Stop, StartSession, AgentEmitsDecision, EmitLeadingTo, Create
<1>2. ASSUME NEW p \in Callers, Ends(p) PROVE [QueueNext]_queueVars
  BY <1>2 DEF Ends
<1>3. ASSUME NEW p \in Callers, AnswerRequest(p) PROVE QueueNext
  BY <1>3 DEF AnswerRequest, EnqueueSession
<1>4. ASSUME NEW p \in Callers, RunRuntime(p) \/ PollEnds(p) PROVE [QueueNext]_queueVars
  BY <1>4 DEF RunRuntime, PollEnds, PollTimesOut, RunLoop, Poll, LeaveLoop, SkipsAnswer,
              Loads, LoadRejects, Drops, ProcessCommand, Resolves, MarkRunning,
              AgentReturns, MarkDone, Throws, MarkFailed, EmitCommandFailed
<1>5. ASSUME NEW c \in Commands, Dispatch(c) \/ DispatchRejects(c)
      PROVE  [QueueNext]_queueVars
  BY <1>5 DEF Dispatch, EnqueueCommand, DispatchRejects
<1> QED
  BY <1>1, <1>2, <1>3, <1>4, <1>5, StepsOfNext
-----------------------------------------------------------------------------
(* What a method of the queue does to the items and to who has called.     *)
LEMMA EnqueueMeets ==
  ASSUME IInv, NEW i \in Items, Enqueue(i)
  PROVE  \/ \E w \in Callers : /\ answer[w] = Waiting /\ items' = items
                               /\ answer' = [answer EXCEPT ![w] = i]
         \/ answer' = answer /\ items' = Append(items, i)
<1>1. CASE waitingResolvers # <<>>
  <2>1. /\ Head(waitingResolvers) \in Callers /\ 1 \in DOMAIN waitingResolvers
        /\ Head(waitingResolvers) = waitingResolvers[1]
    BY <1>1, HeadTailProperties, LenProperties, EmptySeq DEF IInv, QueueTypeOK
  <2>2. answer[Head(waitingResolvers)] = Waiting
    BY <2>1 DEF IInv, ResolversWait
  <2> QED
    BY <1>1, <2>1, <2>2 DEF Enqueue, Resolve
<1>2. CASE waitingResolvers = <<>>
  BY <1>2 DEF Enqueue
<1> QED
  BY <1>1, <1>2

(* A dequeue takes the head, or it waits.                                  *)
LEMMA DequeueMeets ==
  ASSUME IInv, NEW c \in Callers, Dequeue(c)
  PROVE  \/ /\ items # <<>> /\ Head(items) \in Items /\ items' = Tail(items)
            /\ answer' = [answer EXCEPT ![c] = Head(items)]
         \/ items' = items /\ answer' = [answer EXCEPT ![c] = Waiting]
BY HeadTailProperties DEF Dequeue, IInv, QueueTypeOK

(* The rest of Grounded, which StepIInv leaves to be shown.                *)
Settled == TypeOK /\ HandsOK /\ DispatchOK /\ WaitOK /\ RestOK

(* No process runs at the start.                                           *)
LEMMA InitGrounded == Init => Grounded
BY InitIInv, AgentRuntimeAssumption, SingleProcessAssumption
   DEF Init, QueueInit, Grounded, TypeOK, HandsOK, DispatchOK, WaitOK, RestOK, CommandStatus, Place,
       Phase, Booting, Shutdown, Request, Busy, Idle, Waiting

(* Steps of a request and of the process that leave queue and runtimes     *)
(* alone.                                                                  *)
LEMMA QuietGrounded ==
  ASSUME Grounded, NEW p \in Callers, Quiet(p) PROVE Settled'
BY SingleProcessAssumption
   DEF Grounded, Settled, TypeOK, HandsOK, DispatchOK, WaitOK, RestOK, vars, queueVars,
       runtimeVars, processVars, apiVars, chainVars, Enters, Becomes, Phase, Booting, Shutdown, Request,
       Quiet, SubscribeOrchestrator, Listen, Restart, AcceptRequest, OpenStream,
       CloseStream, Signal, ListenerCloses, RuntimeStopped

(* The start and the stop of a runtime, and the end of a process.          *)
LEMMA StartStopGrounded ==
  ASSUME Grounded, NEW p \in Callers, StartRuntime(p) \/ StopRuntime(p) \/ Ends(p)
  PROVE  Settled'
<1> USE DEF Grounded, Settled, TypeOK, HandsOK, DispatchOK, WaitOK, RestOK, queueVars,
            Enters, Phase, Booting, Shutdown, Place, Busy
<1>1. CASE StartRuntime(p)
  BY <1>1 DEF StartRuntime, commandVars, apiVars, chainVars, ServedRoles
<1>2. CASE StopRuntime(p)
  BY <1>2 DEF StopRuntime, Stop, apiVars, chainVars
<1>3. CASE Ends(p)
  <2>1. /\ at' = [at EXCEPT ![p] = "off"] /\ phase' = [phase EXCEPT ![p] = "exited"]
        /\ current' = [current EXCEPT ![p] = None]
        /\ answer' = IF answer[p] = Waiting THEN [answer EXCEPT ![p] = Empty] ELSE answer
    BY <1>3 DEF Ends, TimeOut
  <2>2. HandsOK' /\ WaitOK' /\ RestOK'
    BY <2>1 DEF IInv, QueueTypeOK, Empty, Waiting
  <2>3. TypeOK' /\ DispatchOK'
    BY <1>3, <2>1 DEF Ends, InHandOf, Request
  <2> QED
    BY <2>2, <2>3
<1> QED
  BY <1>1, <1>2, <1>3

(* A dispatch that begins is the only one its emitter waits for.           *)
LEMMA EmitGrounded ==
  ASSUME Grounded, NEW p \in Callers, NEW c \in Commands, NEW emitter \in Emitter,
         EmitLeadingTo(c, p, emitter), told \subseteq told', told' \subseteq Callers,
         \A q \in told' : at[q] = "executing",
         emitter = "agent" => p \in told' /\ p \notin told
  PROVE  DispatchOK'
<1> USE DEF Grounded, TypeOK, DispatchOK, Emitter
<1>1. CASE p \in subscribed
  <2>1. /\ dispatching' = dispatching \cup {c} /\ at' = at
        /\ dispatcher' = [dispatcher EXCEPT ![c] = <<p, emitter>>]
    BY <1>1 DEF EmitLeadingTo, Create, runtimeVars
  <2>2. dispatcher'[c] = <<p, emitter>> /\ <<p, emitter>> \in Callers \X Emitter
    BY <2>1
  <2>3. \A d \in dispatching' : d # c => d \in dispatching /\ dispatcher'[d] = dispatcher[d]
    BY <2>1
  <2>4. \A d \in dispatching : dispatcher[d] = <<p, emitter>> => emitter # "agent"
    OBVIOUS
  <2>5. \A d \in dispatching' :
          /\ dispatcher'[d] \in Callers \X Emitter
          /\ dispatcher'[d][2] = "agent" => dispatcher'[d][1] \in told'
    BY <2>2, <2>3
  <2>6. \A d, e \in dispatching' :
          dispatcher'[d][2] = "agent" /\ dispatcher'[d] = dispatcher'[e] => d = e
    BY <2>2, <2>3, <2>4
  <2> QED
    BY <2>1, <2>5, <2>6
<1>2. CASE p \notin subscribed
  BY <1>2 DEF EmitLeadingTo, vars, runtimeVars
<1> QED
  BY <1>1, <1>2

(* A dispatch begins, for a request or for an agent that has decided.      *)
LEMMA StartSessionGrounded ==
  ASSUME Grounded, NEW p \in Callers,
         StartSession(p) \/ AgentEmitsDecision(p)
  PROVE  Settled'
<1> USE SingleProcessAssumption, AgentRuntimeAssumption
    DEF Grounded, Settled, TypeOK, HandsOK, WaitOK, RestOK, vars, queueVars,
        runtimeVars, processVars, apiVars, EmitLeadingTo, Create, Becomes, CommandStatus,
        Request, Emitter, Busy
<1>1. CASE StartSession(p)
  <2>1. EmitLeadingTo(First, p, "request") /\ told' = told
    BY <1>1 DEF StartSession
  <2>2. DispatchOK'
    BY <2>1, EmitGrounded DEF DispatchOK
  <2> QED
    BY <1>1, <2>2 DEF StartSession
<1>2. CASE AgentEmitsDecision(p)
  <2> DEFINE c == Successor[current[p]]
  <2>1. current[p] \in Commands /\ c \in Commands \cup {None}
    BY <1>2 DEF AgentEmitsDecision
  <2>2. /\ told' = told \cup {p} /\ p \notin told /\ at[p] = "executing"
        /\ IF c = None THEN UNCHANGED <<vars, dispatcher, unheard>>
           ELSE EmitLeadingTo(c, p, "agent")
        /\ UNCHANGED <<processVars, apiVars>>
    BY <1>2 DEF AgentEmitsDecision
  <2> HIDE DEF c
  <2>3. CASE c = None
    BY <2>2, <2>3 DEF DispatchOK
  <2>4. CASE c # None
    <3>1. DispatchOK'
      BY <2>1, <2>2, <2>4, EmitGrounded DEF DispatchOK
    <3> QED
      BY <2>1, <2>2, <2>4, <3>1
  <2> QED
    BY <2>3, <2>4
<1> QED
  BY <1>1, <1>2

(* An item that comes to a call ends its waiting, and nobody's begins.     *)
LEMMA EnqueueGrounded ==
  ASSUME Grounded, NEW i \in Items, Enqueue(i), NEW r \in Callers, answer'[r] = Waiting
  PROVE  at[r] = "polling"
<1>1. answer[r] = Waiting
  BY EnqueueMeets, InMemoryQueueAssumption DEF Grounded, IInv, QueueTypeOK
<1> QED
  BY <1>1 DEF Grounded, WaitOK

(* Only the call that asks may begin to wait.                              *)
LEMMA DequeueGrounded ==
  ASSUME Grounded, NEW p \in Callers, Dequeue(p), NEW r \in Callers, answer'[r] = Waiting
  PROVE  at[r] = "polling" \/ r = p
<1>1. answer[r] = Waiting \/ r = p
  BY DequeueMeets DEF Grounded, IInv, QueueTypeOK
<1> QED
  BY <1>1 DEF Grounded, WaitOK

(* It comes to the queue, or is rejected.                                  *)
LEMMA DispatchGrounded ==
  ASSUME Grounded, NEW c \in Commands, Dispatch(c) \/ DispatchRejects(c)
  PROVE  Settled'
<1> USE SingleProcessAssumption, AgentRuntimeAssumption
    DEF Settled, TypeOK, HandsOK, DispatchOK, WaitOK, RestOK, Busy
<1>1. CASE Dispatch(c)
  <2>1. WaitOK'
    BY <1>1, EnqueueGrounded DEF Dispatch, EnqueueCommand, runtimeVars
  <2>2. TypeOK' /\ HandsOK' /\ DispatchOK' /\ RestOK'
    BY <1>1 DEF Grounded, Dispatch, EnqueueCommand, runtimeVars, processVars, apiVars, chainVars
  <2> QED
    BY <2>1, <2>2
<1>2. CASE DispatchRejects(c)
  BY <1>2 DEF DispatchRejects, Grounded, queueVars, processVars, GoesTo, Becomes, Request, Place
<1> QED
  BY <1>1, <1>2

(* A request is answered, or its poll ends.                                *)
LEMMA AnswerGrounded ==
  ASSUME Grounded, NEW p \in Callers, AnswerRequest(p) \/ PollEnds(p)
  PROVE  Settled'
<1> USE SingleProcessAssumption, AgentRuntimeAssumption
    DEF Settled, TypeOK, HandsOK, DispatchOK, WaitOK, RestOK
<1>1. CASE AnswerRequest(p)
  <2>1. WaitOK'
    BY <1>1, EnqueueGrounded DEF AnswerRequest, EnqueueSession, runtimeVars
  <2>2. TypeOK' /\ HandsOK' /\ DispatchOK' /\ RestOK'
    BY <1>1 DEF Grounded, AnswerRequest, EnqueueSession, runtimeVars, processVars, chainVars,
                Becomes, Request
  <2> QED
    BY <2>1, <2>2
<1>2. CASE PollEnds(p)
  BY <1>2 DEF Grounded, IInv, QueueTypeOK, PollEnds, PollTimesOut, TimeOut, runtimeVars,
              processVars, apiVars, chainVars, Empty, Waiting
<1> QED
  BY <1>1, <1>2

(* The steps of a loop.                                                    *)
LEMMA RunGrounded ==
  ASSUME Grounded, NEW p \in Callers, RunRuntime(p) PROVE Settled'
<1> USE AgentRuntimeAssumption
    DEF Grounded, Settled, TypeOK, HandsOK, DispatchOK, WaitOK, RestOK, queueVars, runtimeVars,
        Place, Busy
<1>1. /\ told' = IF at[p] = "executing" THEN told \ {p} ELSE told
      /\ UNCHANGED <<phase, starts, served, subscribed, request, streaming, dispatcher, unheard>>
  BY DEF RunRuntime, processVars, apiVars
<1>0. at[p] = "executing" =>
        \A c \in dispatching : dispatcher[c][2] = "agent" => dispatcher[c][1] # p
  BY DEF RunRuntime, Dispatching
<1>2. CASE Poll(p)
  <2>1. /\ \A r \in Callers : answer'[r] = Waiting => at[r] = "polling" \/ r = p
        /\ at[p] = "top" /\ at' = [at EXCEPT ![p] = "polling"]
    BY <1>2, DequeueGrounded DEF Poll
  <2>2. WaitOK'
    BY <2>1
  <2>3. TypeOK' /\ HandsOK' /\ DispatchOK' /\ RestOK'
    BY <1>1, <1>2 DEF Poll
  <2> QED
    BY <2>2, <2>3
<1>3. CASE LeaveLoop(p)
  BY <1>1, <1>3 DEF LeaveLoop
<1>4. CASE SkipsAnswer(p) \/ Loads(p) \/ LoadRejects(p)
  BY <1>1, <1>4, InMemoryQueueAssumption
     DEF SkipsAnswer, Loads, LoadRejects, NextRound, GoesTo, Empty, Waiting
<1>5. CASE Drops(p)
  BY <1>1, <1>5 DEF Drops, NextRound, GoesTo
<1>6. CASE ProcessCommand(p)
  <2> USE <1>0, <1>1 DEF GoesTo, NextRound, CommandStatus
  <2>1. CASE Resolves(p)
    BY <2>1 DEF Resolves
  <2>2. CASE MarkRunning(p)
    BY <2>2 DEF MarkRunning
  <2>3. CASE AgentReturns(p)
    BY <2>3 DEF AgentReturns
  <2>4. CASE MarkDone(p)
    BY <2>4 DEF MarkDone
  <2>5. CASE Throws(p)
    BY <2>5 DEF Throws
  <2>6. CASE MarkFailed(p)
    BY <2>6 DEF MarkFailed
  <2>7. CASE EmitCommandFailed(p)
    BY <2>7 DEF EmitCommandFailed
  <2> QED
    BY <1>6, <2>1, <2>2, <2>3, <2>4, <2>5, <2>6, <2>7 DEF ProcessCommand
<1> QED
  BY <1>2, <1>3, <1>4, <1>5, <1>6 DEF RunRuntime, RunLoop

(* Every step keeps the first layer.                                       *)
LEMMA NextGrounded == ASSUME Grounded, [Next]_allVars PROVE Grounded'
<1>1. CASE Next
  <2>1. IInv'
    BY <1>1, QueueSteps, StepIInv DEF Grounded
  <2>2. Settled'
    BY <1>1, StepsOfNext, QuietGrounded, StartStopGrounded, StartSessionGrounded,
       DispatchGrounded, AnswerGrounded, RunGrounded
  <2> QED
    BY <2>1, <2>2 DEF Grounded, Settled
<1>2. CASE UNCHANGED allVars
  BY <1>2 DEF Grounded, IInv, QueueTypeOK, ResolversWait, TypeOK, HandsOK, DispatchOK, WaitOK,
              RestOK, allVars, vars, queueVars, runtimeVars, processVars, apiVars, chainVars
<1> QED
  BY <1>1, <1>2
-----------------------------------------------------------------------------
(* What the start lets pass has a provider for each role, since a role     *)
(* asks for one that is checked, or for one that needs no key.             *)
LEMMA RolesAreChecked ==
  ASSUME NEW env, IntakeServiceIsCreated(env) PROVE ServedRoles(env) = Role
<1> SUFFICES ASSUME NEW r \in Role PROVE ProviderOf(env, r) \in Providers(env)
  BY DEF ServedRoles
<1>1. /\ ConfiguredProviders(env) \cap KeyedProviders \subseteq Providers(env)
      /\ AgentProviderDefault(env) \in Providers(env)
  BY DEF IntakeServiceIsCreated, ValidProvidersConfig
<1> DEFINE own == ParseAgentProvider(env.role[r])
<1>2. own \in ConfiguredProviders(env) /\ own \in AgentProviderId \cup {Unset}
  BY DEF ConfiguredProviders, ParseAgentProvider
<1>3. ProviderOf(env, r) = IF own # Unset THEN own ELSE AgentProviderDefault(env)
  BY DEF ProviderOf, Otherwise
<1> HIDE DEF own
<1>4. CliProviders \cup {"ollama"} \subseteq Providers(env)
  BY DEF Providers
<1> QED
  BY <1>1, <1>2, <1>3, <1>4 DEF AgentProviderId

(* No process runs at the start.                                           *)
LEMMA InitOrdered == Init => Ordered
<1> SUFFICES ASSUME Init PROVE Ordered
  OBVIOUS
<1>1. HeardUnlessStopping
  BY DEF Init, HeardUnlessStopping
<1>2. ASSUME NEW p \in Callers PROVE PhaseOK(p)
  <2>1. CASE p \in Restarted
    BY <2>1 DEF Init, PhaseOK
  <2>2. CASE p \notin Restarted
    BY <2>2 DEF Init, PhaseOK
  <2> QED
    BY <2>1, <2>2
<1>3. ASSUME NEW p \in Callers PROVE EmitOK(p)
  BY DEF Init, EmitOK
<1> QED
  BY <1>1, <1>2, <1>3 DEF Ordered

(* What an event leads to is heard where its phase says so.                *)
LEMMA EmitOrdered ==
  ASSUME Grounded, Ordered, NEW p \in Callers, NEW c \in Commands, NEW emitter \in Emitter,
         EmitLeadingTo(c, p, emitter),
         phase[p] \in {"subscribed", "started", "up", "closing", "closed", "stopping"}
  PROVE  HeardUnlessStopping'
BY DEF Grounded, TypeOK, Ordered, PhaseOK, EmitLeadingTo, HeardUnlessStopping

(* Every step keeps the second layer.                                      *)
LEMMA NextOrdered == ASSUME Grounded, Ordered, Next PROVE Ordered'
<1> USE DEF Ordered, PhaseOK, EmitOK
<1>1. ASSUME NEW p \in Callers, Quiet(p) PROVE Ordered'
  BY <1>1 DEF Grounded, TypeOK, RestOK, HeardUnlessStopping, Quiet, SubscribeOrchestrator, Listen,
       Restart, AcceptRequest, OpenStream, CloseStream, Signal, ListenerCloses,
       RuntimeStopped, Enters, Becomes, vars, runtimeVars, processVars, apiVars, chainVars
<1>2. ASSUME NEW p \in Callers, StartRuntime(p) PROVE Ordered'
  BY <1>2, RolesAreChecked
     DEF Grounded, TypeOK, HeardUnlessStopping, StartRuntime, Enters, commandVars, apiVars,
         chainVars
<1>3. ASSUME NEW p \in Callers, StopRuntime(p) PROVE Ordered'
  BY <1>3 DEF Grounded, TypeOK, HeardUnlessStopping, StopRuntime, Stop, Enters, apiVars, chainVars
<1>4. ASSUME NEW p \in Callers, Ends(p) PROVE Ordered'
  BY <1>4 DEF Grounded, TypeOK, HeardUnlessStopping, Ends, Enters
<1>5. ASSUME NEW p \in Callers, StartSession(p) PROVE Ordered'
  <2>1. phase[p] \in {"up", "closing"}
    BY <1>5 DEF StartSession
  <2>2. HeardUnlessStopping'
    BY <1>5, <2>1, EmitOrdered, SingleProcessAssumption DEF StartSession, Emitter
  <2>3. \A q \in Callers : PhaseOK(q)' /\ EmitOK(q)'
    BY <1>5, <2>1, SingleProcessAssumption
       DEF Grounded, TypeOK, StartSession, EmitLeadingTo, Create, Becomes, vars, runtimeVars,
           processVars
  <2> QED
    BY <2>2, <2>3
<1>6. ASSUME NEW p \in Callers, AgentEmitsDecision(p) PROVE Ordered'
  <2> DEFINE c == Successor[current[p]]
  <2>1. /\ at[p] = "executing"
        /\ c \in Commands \cup {None}
        /\ IF c = None THEN UNCHANGED <<vars, dispatcher, unheard>>
           ELSE EmitLeadingTo(c, p, "agent")
        /\ UNCHANGED <<processVars, apiVars>>
    BY <1>6, SingleProcessAssumption, AgentRuntimeAssumption
       DEF AgentEmitsDecision, Grounded, TypeOK, HandsOK, Busy
  <2> HIDE DEF c
  <2>2. phase[p] \in {"started", "up", "closing", "closed", "stopping"}
    BY <2>1 DEF Grounded, TypeOK, RestOK, Phase, Booting, Shutdown
  <2>3. CASE c = None
    BY <2>1, <2>3 DEF vars, runtimeVars, processVars, apiVars, HeardUnlessStopping
  <2>4. CASE c # None
    <3>1. HeardUnlessStopping'
      BY <2>1, <2>2, <2>4, EmitOrdered DEF Emitter
    <3>2. \A q \in Callers : PhaseOK(q)' /\ EmitOK(q)'
      BY <2>1, <2>4 DEF Grounded, TypeOK, EmitLeadingTo, Create, vars, runtimeVars,
                        processVars, apiVars
    <3> QED
      BY <3>1, <3>2
  <2> QED
    BY <2>3, <2>4
<1>7. ASSUME NEW p \in Callers, AnswerRequest(p) PROVE Ordered'
  BY <1>7 DEF Grounded, TypeOK, HeardUnlessStopping, AnswerRequest, EnqueueSession, Becomes,
              Dispatching, runtimeVars, processVars, chainVars
<1>8. ASSUME NEW p \in Callers, RunRuntime(p) \/ PollEnds(p) PROVE Ordered'
  <2>1. UNCHANGED <<running, dispatching, phase, starts, served, subscribed, request, streaming,
                    dispatcher, unheard>>
    BY <1>8 DEF RunRuntime, PollEnds, PollTimesOut, RunLoop, Poll, LeaveLoop, SkipsAnswer,
                Loads, LoadRejects, Drops, ProcessCommand, Resolves, MarkRunning,
                AgentReturns, MarkDone, Throws, MarkFailed, EmitCommandFailed, NextRound,
                runtimeVars, processVars, apiVars, chainVars
  <2> QED
    BY <2>1 DEF HeardUnlessStopping
<1>9. ASSUME NEW c \in Commands, Dispatch(c) \/ DispatchRejects(c) PROVE Ordered'
  <2>1. CASE Dispatch(c)
    BY <2>1 DEF Dispatch, EnqueueCommand, HeardUnlessStopping, runtimeVars, processVars, apiVars,
                chainVars
  <2>2. CASE DispatchRejects(c)
    BY <2>2 DEF Grounded, TypeOK, DispatchOK, Emitter, DispatchRejects, Becomes, HeardUnlessStopping,
                processVars
  <2> QED
    BY <1>9, <2>1, <2>2
<1> QED
  BY <1>1, <1>2, <1>3, <1>4, <1>5, <1>6, <1>7, <1>8, <1>9, StepsOfNext
-----------------------------------------------------------------------------
(* What a queue step does to a command's place among the items.            *)
LEMMA QueueStays ==
  ASSUME items' = items
  PROVE  (OnceInQueue => OnceInQueue') /\ \A c : InQueue(c)' <=> InQueue(c)
BY DEF OnceInQueue, InQueue

(* An id that is appended is in the queue, once if it was not.             *)
LEMMA QueueGrows ==
  ASSUME items \in Seq(Items), NEW i \in Items, items' = Append(items, i)
  PROVE  /\ \A c : InQueue(c)' <=> InQueue(c) \/ c = i
         /\ OnceInQueue /\ (i \in Commands => ~InQueue(i)) => OnceInQueue'
<1>1. /\ Len(items) \in Nat /\ DOMAIN items = 1 .. Len(items)
      /\ DOMAIN items' = 1 .. Len(items) + 1
      /\ \A k \in 1 .. Len(items) : items'[k] = items[k]
      /\ items'[Len(items) + 1] = i
  BY AppendProperties, LenProperties
<1>2. \A c : InQueue(c)' <=> InQueue(c) \/ c = i
  BY <1>1 DEF InQueue
<1>3. ASSUME OnceInQueue, i \in Commands => ~InQueue(i) PROVE OnceInQueue'
  BY <1>1, <1>3 DEF OnceInQueue, InQueue
<1> QED
  BY <1>2, <1>3

(* The head that is taken is not in the rest.                              *)
LEMMA QueueShrinks ==
  ASSUME items \in Seq(Items), items # <<>>, OnceInQueue, items' = Tail(items)
  PROVE  /\ OnceInQueue' /\ InQueue(Head(items))
         /\ \A c \in Commands : InQueue(c)' <=> InQueue(c) /\ c # Head(items)
<1>1. /\ Len(items) \in Nat \ {0} /\ DOMAIN items = 1 .. Len(items)
      /\ Head(items) = items[1]
      /\ DOMAIN items' = 1 .. Len(items) - 1
      /\ \A k \in 1 .. Len(items) - 1 : items'[k] = items[k + 1]
  BY HeadTailProperties, LenProperties, EmptySeq
<1>2. InQueue(Head(items))
  BY <1>1 DEF InQueue
<1>3. OnceInQueue'
  BY <1>1 DEF OnceInQueue
<1>4. ASSUME NEW c \in Commands, InQueue(c)' PROVE InQueue(c) /\ c # Head(items)
  <2>1. PICK k \in 1 .. Len(items) - 1 : items'[k] = c
    BY <1>1, <1>4 DEF InQueue
  <2>2. k + 1 \in DOMAIN items /\ items[k + 1] = c /\ 1 \in DOMAIN items /\ k + 1 # 1
    BY <1>1, <2>1
  <2> QED
    BY <1>1, <2>2 DEF InQueue, OnceInQueue
<1>5. ASSUME NEW c \in Commands, InQueue(c), c # Head(items) PROVE InQueue(c)'
  <2>1. PICK k \in 1 .. Len(items) : items[k] = c
    BY <1>1, <1>5 DEF InQueue
  <2>2. k - 1 \in 1 .. Len(items) - 1 /\ items'[k - 1] = items[(k - 1) + 1] /\ (k - 1) + 1 = k
    BY <1>1, <1>5, <2>1
  <2> QED
    BY <1>1, <2>1, <2>2 DEF InQueue
<1> QED
  BY <1>2, <1>3, <1>4, <1>5

Layers == Grounded /\ Single /\ Kept

(* What the steps of this layer need of the first.                         *)
LEMMA GroundedMeans ==
  ASSUME Grounded
  PROVE  /\ items \in Seq(Items)
         /\ answer \in [Callers -> Items \cup {Idle, Waiting, Empty}]
         /\ status \in [Commands -> CommandStatus] /\ dispatching \subseteq Commands
         /\ at \in [Callers -> Place] /\ current \in [Callers -> Commands \cup {None}]
         /\ executions \in [Commands -> Nat]
         /\ \A r \in Callers : current[r] # None <=> at[r] \in Busy
         /\ None \notin Commands /\ Commands \subseteq Items
         /\ {Idle, Waiting, Empty} \cap Commands = {}
BY AgentRuntimeAssumption, InMemoryQueueAssumption
   DEF Grounded, IInv, QueueTypeOK, TypeOK, HandsOK

(* No command exists at the start.                                         *)
LEMMA InitLayers == Init => Single /\ Kept
<1> SUFFICES ASSUME Init PROVE Single /\ Kept
  OBVIOUS
<1>1. items = <<>> /\ \A c : ~InQueue(c)
  BY DEF Init, QueueInit, InQueue
<1>2. /\ status = [c \in Commands |-> "absent"] /\ dispatching = {}
      /\ executions = [c \in Commands |-> 0]
      /\ \A r \in Callers : current[r] = None /\ at[r] \in {"off", "top"}
  BY DEF Init
<1>3. \A r \in Callers, c \in Commands : ~Held(r, c)
  BY <1>2, AgentRuntimeAssumption DEF Held
<1>4. OnceInQueue
  BY <1>1 DEF OnceInQueue
<1>5. Single
  BY <1>1, <1>2, <1>3, <1>4 DEF Single, ExecutedOnce
<1> QED
  BY <1>2, <1>5 DEF Kept, NothingLost

(* A step that leaves the items, and what each runtime holds, as they are. *)
LEMMA QuietSingle ==
  ASSUME Layers, NEW p \in Callers, Quiet(p) \/ StartRuntime(p) \/ StopRuntime(p)
  PROVE  Single' /\ Kept'
<1>1. /\ UNCHANGED <<items, answer, status, dispatching, current, executions, reported, dropped>>
      /\ at' = at \/ (at[p] = "off" /\ at' = [at EXCEPT ![p] = "top"])
  BY DEF Layers, Grounded, TypeOK, RestOK, vars, queueVars, runtimeVars, Quiet, SubscribeOrchestrator,
         Listen, Restart, AcceptRequest, OpenStream, CloseStream, Signal, ListenerCloses,
         RuntimeStopped, StartRuntime, StopRuntime, Stop, commandVars
<1>2. /\ OnceInQueue' /\ \A c : InQueue(c)' <=> InQueue(c)
  BY <1>1, QueueStays DEF Layers, Single
<1>3. \A r \in Callers : at[r] # at'[r] => current[r] = None /\ at'[r] = "top"
  BY <1>1, GroundedMeans DEF Layers, Busy
<1>4. \A r \in Callers, c \in Commands : Held(r, c)' <=> Held(r, c)
  BY <1>1, <1>3, GroundedMeans DEF Layers, Held
<1>5. \A c \in Commands : InHand(c)' <=> InHand(c)
  BY <1>4 DEF InHand, Held
<1>6. \A c \in Commands : Fresh(c)' <=> Fresh(c)
  BY <1>1, <1>2, <1>3, <1>4, GroundedMeans DEF Layers, Fresh, Held
<1>7. Single'
  BY <1>1, <1>2, <1>4, <1>6 DEF Layers, Single, ExecutedOnce
<1> QED
  BY <1>1, <1>2, <1>3, <1>5, <1>7 DEF Layers, Kept, NothingLost

(* A process ends and loses what it had in hand.                           *)
LEMMA EndsSingle ==
  ASSUME Layers, NEW p \in Callers, Ends(p) PROVE Single' /\ Kept'
<1>1. /\ UNCHANGED <<items, status, executions, reported>>
      /\ answer' = answer \/ answer' = [answer EXCEPT ![p] = Empty]
      /\ at' = [at EXCEPT ![p] = "off"] /\ current' = [current EXCEPT ![p] = None]
      /\ dropped' = dropped \cup InHandOf(p) \cup (dispatching \ dispatching')
      /\ dispatching' \subseteq dispatching
  BY DEF Ends, queueVars, TimeOut
<1>2. OnceInQueue' /\ \A c : InQueue(c)' <=> InQueue(c)
  BY <1>1, QueueStays DEF Layers, Single
<1>3. \A r \in Callers, c \in Commands : Held(r, c)' <=> Held(r, c) /\ r # p
  BY <1>1, GroundedMeans DEF Layers, Held
<1>4. \A c \in Commands : InHand(c)' \/ c \in dropped' \/ ~InHand(c)
  <2> SUFFICES ASSUME NEW c \in Commands, NEW r \in Callers, Held(r, c)
               PROVE  InHand(c)' \/ c \in dropped'
    BY DEF InHand, Held
  <2>1. CASE r = p
    BY <1>1, <2>1, GroundedMeans DEF Layers, Held, InHandOf
  <2>2. CASE r # p
    BY <1>3, <2>2 DEF InHand, Held
  <2> QED
    BY <2>1, <2>2
<1>5. \A c \in Commands : Fresh(c)' => Fresh(c)
  BY <1>1, <1>2, <1>3, GroundedMeans DEF Layers, Fresh
<1>6. Single'
  BY <1>1, <1>2, <1>3, <1>5 DEF Layers, Single, ExecutedOnce
<1>7. \A r \in Callers : at'[r] = "reporting" => at[r] = "reporting" /\ current'[r] = current[r]
  BY <1>1, GroundedMeans DEF Layers
<1> QED
  BY <1>1, <1>2, <1>4, <1>6, <1>7 DEF Layers, Kept, NothingLost

(* A command is created: it is nowhere else.                               *)
LEMMA EmitSingle ==
  ASSUME Layers, NEW p \in Callers, StartSession(p) \/ AgentEmitsDecision(p)
  PROVE  Single' /\ Kept'
<1>1. \/ UNCHANGED vars
      \/ \E c \in Commands : Create(c)
  BY SingleProcessAssumption, AgentRuntimeAssumption
     DEF Layers, Grounded, TypeOK, HandsOK, Busy, StartSession, AgentEmitsDecision, EmitLeadingTo
<1>2. CASE UNCHANGED vars
  BY <1>2 DEF vars, queueVars, runtimeVars, Layers, Single, Kept, OnceInQueue, Held, Fresh,
              InQueue, InHand, ExecutedOnce, NothingLost
<1>3. ASSUME NEW c \in Commands, Create(c) PROVE Single' /\ Kept'
  <2>1. /\ UNCHANGED <<items, answer, at, current, executions, reported, dropped>>
        /\ status[c] = "absent" /\ status' = [status EXCEPT ![c] = "PENDING"]
        /\ dispatching' = dispatching \cup {c}
    BY <1>3 DEF Create, queueVars, runtimeVars
  <2>2. OnceInQueue' /\ \A d : InQueue(d)' <=> InQueue(d)
    BY <2>1, QueueStays DEF Layers, Single
  <2>3. \A r \in Callers, d \in Commands : Held(r, d)' <=> Held(r, d)
    BY <2>1 DEF Held
  <2>4. \A d \in Commands : (Fresh(d)' => Fresh(d)) /\ (InHand(d)' <=> InHand(d))
    BY <2>1, <2>2, <2>3, GroundedMeans DEF Layers, Fresh, InHand, Held
  <2>5. Single'
    BY <2>1, <2>2, <2>3, <2>4, GroundedMeans DEF Layers, Single, ExecutedOnce
  <2>6. \A r \in Callers : at[r] = "reporting" => current[r] # c
    BY <2>1, GroundedMeans DEF Layers, Single, Held
  <2> QED
    BY <2>1, <2>2, <2>4, <2>5, <2>6, GroundedMeans DEF Layers, Kept, NothingLost
<1> QED
  BY <1>1, <1>2, <1>3

(* An item goes to a poll that waits, or among the items.                  *)
LEMMA EnqueueSingle ==
  ASSUME Layers, NEW i \in Items, Enqueue(i),
         i \in Commands => i \in dispatching,
         dispatching' = dispatching \ {i},
         UNCHANGED <<status, at, current, executions, reported, dropped>>
  PROVE  Single' /\ Kept'
<1>1. CASE answer' = answer /\ items' = Append(items, i)
  <2>1. /\ \A c : InQueue(c)' <=> InQueue(c) \/ c = i
        /\ OnceInQueue'
    BY <1>1, QueueGrows, GroundedMeans DEF Layers, Single
  <2>2. \A r \in Callers, c \in Commands : Held(r, c)' <=> Held(r, c)
    BY <1>1 DEF Held
  <2>3. \A c \in Commands : (Fresh(c)' => Fresh(c)) /\ (InHand(c)' <=> InHand(c))
    BY <2>1, <2>2 DEF Fresh, InHand, Held
  <2>4. Single'
    BY <2>1, <2>2, <2>3 DEF Layers, Single, ExecutedOnce
  <2> QED
    BY <2>1, <2>3, <2>4 DEF Layers, Kept, NothingLost
<1>2. ASSUME NEW w \in Callers, answer[w] = Waiting, items' = items,
             answer' = [answer EXCEPT ![w] = i]
      PROVE  Single' /\ Kept'
  <2>1. OnceInQueue' /\ \A c : InQueue(c)' <=> InQueue(c)
    BY <1>2, QueueStays DEF Layers, Single
  <2>2. at[w] = "polling" /\ current[w] = None
    BY <1>2, GroundedMeans DEF Layers, Grounded, WaitOK, Busy
  <2>3. \A r \in Callers, c \in Commands : Held(r, c)' <=> Held(r, c) \/ (r = w /\ c = i)
    BY <1>2, <2>2, GroundedMeans DEF Layers, Held
  <2>4. \A c \in Commands : (Fresh(c)' => Fresh(c)) /\ (InHand(c)' <=> InHand(c) \/ c = i)
    BY <1>2, <2>1, <2>3 DEF Fresh, InHand, Held
  <2>5. Single'
    BY <1>2, <2>1, <2>3, <2>4 DEF Layers, Single, ExecutedOnce
  <2> QED
    BY <1>2, <2>1, <2>4, <2>5 DEF Layers, Kept, NothingLost
<1> QED
  BY <1>1, <1>2, EnqueueMeets DEF Layers, Grounded

(* A command is created and enqueued, or its dispatch rejected.            *)
LEMMA DispatchSingle ==
  ASSUME Layers, NEW c \in Commands, Dispatch(c) \/ DispatchRejects(c)
  PROVE  Single' /\ Kept'
<1>1. CASE Dispatch(c)
  BY <1>1, EnqueueSingle, AgentRuntimeAssumption DEF Dispatch, EnqueueCommand, runtimeVars
<1>2. CASE DispatchRejects(c)
  <2>1. /\ UNCHANGED <<items, answer, status, current, executions, reported>>
        /\ c \in dispatching /\ dispatching' = dispatching \ {c} /\ dropped' = dropped \cup {c}
    BY <1>2 DEF DispatchRejects, queueVars
  <2>2. at' = at \/ \E p \in told : at[p] = "executing" /\ at' = [at EXCEPT ![p] = "failing"]
    BY <1>2 DEF Layers, Grounded, DispatchOK, DispatchRejects, GoesTo
  <2>3. OnceInQueue' /\ \A d : InQueue(d)' <=> InQueue(d)
    BY <2>1, QueueStays DEF Layers, Single
  <2>4. /\ \A r \in Callers : at'[r] # at[r] => at[r] = "executing" /\ at'[r] = "failing"
    BY <2>2, GroundedMeans DEF Layers
  <2>5. \A r \in Callers, d \in Commands : Held(r, d)' <=> Held(r, d)
    BY <2>1, <2>4 DEF Held
  <2>6. \A d \in Commands : (Fresh(d)' => Fresh(d)) /\ (InHand(d)' <=> InHand(d))
    BY <2>1, <2>3, <2>4, <2>5 DEF Fresh, InHand, Held
  <2>7. Single'
    BY <2>1, <2>3, <2>5, <2>6 DEF Layers, Single, ExecutedOnce
  <2> QED
    BY <2>1, <2>3, <2>4, <2>6, <2>7 DEF Layers, Kept, NothingLost
<1> QED
  BY <1>1, <1>2

(* A request is answered, or its poll ends.                                *)
LEMMA AnswerSingle ==
  ASSUME Layers, NEW p \in Callers, AnswerRequest(p) \/ PollEnds(p)
  PROVE  Single' /\ Kept'
<1>1. CASE AnswerRequest(p)
  <2>1. Session \in Items /\ Session \notin Commands
    BY SingleProcessAssumption, AgentRuntimeAssumption
  <2>2. Enqueue(Session) /\ UNCHANGED <<status, dispatching, at, current, executions, reported, dropped>>
    BY <1>1 DEF AnswerRequest, EnqueueSession, runtimeVars
  <2>3. dispatching' = dispatching \ {Session}
    BY <2>1, <2>2, GroundedMeans DEF Layers
  <2> QED
    BY <2>1, <2>2, <2>3, EnqueueSingle
<1>2. CASE PollEnds(p)
  <2>1. /\ UNCHANGED <<items, status, dispatching, at, current, executions, reported, dropped>>
        /\ answer[p] = Waiting /\ answer' = [answer EXCEPT ![p] = Empty]
    BY <1>2 DEF PollEnds, PollTimesOut, TimeOut, runtimeVars
  <2>2. OnceInQueue' /\ \A c : InQueue(c)' <=> InQueue(c)
    BY <2>1, QueueStays DEF Layers, Single
  <2>3. \A r \in Callers, c \in Commands : Held(r, c)' <=> Held(r, c)
    BY <2>1, GroundedMeans DEF Layers, Held
  <2>4. \A c \in Commands : (Fresh(c)' => Fresh(c)) /\ (InHand(c)' <=> InHand(c))
    BY <2>1, <2>2, <2>3 DEF Fresh, InHand, Held
  <2>5. Single'
    BY <2>1, <2>2, <2>3, <2>4 DEF Layers, Single, ExecutedOnce
  <2> QED
    BY <2>1, <2>2, <2>4, <2>5 DEF Layers, Kept, NothingLost
<1> QED
  BY <1>1, <1>2

(* The loop takes the first item, or waits.                                *)
LEMMA PollSingle ==
  ASSUME Layers, NEW p \in Callers, Poll(p) PROVE Single' /\ Kept'
<1>1. /\ UNCHANGED <<status, dispatching, current, executions, reported, dropped>>
      /\ at[p] = "top" /\ current[p] = None /\ at' = [at EXCEPT ![p] = "polling"]
  BY GroundedMeans DEF Layers, Poll, Busy
<1>2. CASE /\ items # <<>> /\ items' = Tail(items)
           /\ answer' = [answer EXCEPT ![p] = Head(items)]
  <2>1. /\ OnceInQueue' /\ InQueue(Head(items))
        /\ \A c \in Commands : InQueue(c)' <=> InQueue(c) /\ c # Head(items)
    BY <1>2, QueueShrinks, GroundedMeans DEF Layers, Single
  <2>2. \A r \in Callers, c \in Commands :
          Held(r, c)' <=> Held(r, c) \/ (r = p /\ c = Head(items))
    BY <1>1, <1>2, GroundedMeans DEF Layers, Held
  <2>3. \A c \in Commands :
          (Fresh(c)' => Fresh(c)) /\ (InHand(c)' <=> InHand(c) \/ c = Head(items))
    BY <1>1, <2>1, <2>2, GroundedMeans DEF Layers, Fresh, InHand, Held
  <2>4. Single'
    BY <1>1, <2>1, <2>2, <2>3 DEF Layers, Single, ExecutedOnce
  <2> QED
    BY <1>1, <2>1, <2>3, <2>4, GroundedMeans DEF Layers, Kept, NothingLost
<1>3. CASE items' = items /\ answer' = [answer EXCEPT ![p] = Waiting]
  <2>1. OnceInQueue' /\ \A c : InQueue(c)' <=> InQueue(c)
    BY <1>3, QueueStays DEF Layers, Single
  <2>2. \A r \in Callers, c \in Commands : Held(r, c)' <=> Held(r, c)
    BY <1>1, <1>3, GroundedMeans DEF Layers, Held
  <2>3. \A c \in Commands : (Fresh(c)' => Fresh(c)) /\ (InHand(c)' <=> InHand(c))
    BY <1>1, <2>1, <2>2, GroundedMeans DEF Layers, Fresh, InHand, Held
  <2>4. Single'
    BY <1>1, <2>1, <2>2, <2>3 DEF Layers, Single, ExecutedOnce
  <2> QED
    BY <1>1, <2>1, <2>3, <2>4, GroundedMeans DEF Layers, Kept, NothingLost
<1> QED
  BY <1>2, <1>3, DequeueMeets DEF Poll, Layers, Grounded

(* The loop goes on to its next round: with nothing in hand, with an       *)
(* answer that is no command, or past a command that is dropped.           *)
LEMMA RoundSingle ==
  ASSUME Layers, NEW p \in Callers,
         LeaveLoop(p) \/ SkipsAnswer(p) \/ LoadRejects(p) \/ Drops(p)
  PROVE  Single' /\ Kept'
<1>1. /\ UNCHANGED <<items, answer, status, dispatching, executions, reported>>
      /\ at'[p] \in {"top", "off"} /\ \A r \in Callers : r # p => at'[r] = at[r]
      /\ current'[p] = None /\ \A r \in Callers : r # p => current'[r] = current[r]
      /\ dropped \subseteq dropped'
      /\ \A c \in Commands : Held(p, c) => c \in dropped'
  BY GroundedMeans, InMemoryQueueAssumption, AgentRuntimeAssumption
     DEF Layers, queueVars, LeaveLoop, SkipsAnswer, LoadRejects, Drops, NextRound, GoesTo, Held, Busy
<1>2. OnceInQueue' /\ \A c : InQueue(c)' <=> InQueue(c)
  BY <1>1, QueueStays DEF Layers, Single
<1>3. \A r \in Callers, c \in Commands : Held(r, c)' <=> Held(r, c) /\ r # p
  BY <1>1, GroundedMeans DEF Layers, Held
<1>4. \A c \in Commands : (Fresh(c)' => Fresh(c)) /\ (InHand(c)' \/ c \in dropped' \/ ~InHand(c))
  BY <1>1, <1>2, <1>3 DEF Fresh, InHand, Held
<1>5. Single'
  BY <1>1, <1>2, <1>3, <1>4 DEF Layers, Single, ExecutedOnce
<1> QED
  BY <1>1, <1>2, <1>4, <1>5 DEF Layers, Kept, NothingLost

(* A runtime goes from one place to the next with its command in hand.     *)
LEMMA MoveSingle ==
  ASSUME Layers, NEW p \in Callers,
         Loads(p) \/ Resolves(p) \/ AgentReturns(p) \/ Throws(p)
  PROVE  Single' /\ Kept'
<1>1. /\ UNCHANGED <<items, answer, status, dispatching, executions, reported, dropped>>
      /\ at'[p] # "reporting" /\ \A r \in Callers : r # p => at'[r] = at[r]
      /\ \A r \in Callers : r # p => current'[r] = current[r]
      /\ at'[p] \in {"resolving", "starting"} => at[p] \in {"polling", "resolving"}
  BY GroundedMeans DEF Layers, queueVars, Loads, Resolves, AgentReturns, Throws, GoesTo
<1>2. OnceInQueue' /\ \A c : InQueue(c)' <=> InQueue(c)
  BY <1>1, QueueStays DEF Layers, Single
<1>3. \A c \in Commands : Held(p, c)' <=> Held(p, c)
  BY GroundedMeans DEF Layers, Held, Loads, Resolves, AgentReturns, Throws, GoesTo, Busy, queueVars
<1>4. \A r \in Callers, c \in Commands : Held(r, c)' <=> Held(r, c)
  BY <1>1, <1>3 DEF Held
<1>5. at'[p] # "polling"
  BY GroundedMeans DEF Layers, Loads, Resolves, AgentReturns, Throws, GoesTo
<1>6. \A c \in Commands : (Fresh(c)' => Fresh(c)) /\ (InHand(c)' <=> InHand(c))
  BY <1>1, <1>2, <1>4, <1>5 DEF Fresh, InHand, Held
<1>7. Single'
  BY <1>1, <1>2, <1>4, <1>6 DEF Layers, Single, ExecutedOnce
<1> QED
  BY <1>1, <1>2, <1>6, <1>7 DEF Layers, Kept, NothingLost

(* A runtime writes the status of its command, which nobody else holds.    *)
LEMMA MarkSingle ==
  ASSUME Layers, NEW p \in Callers,
         MarkRunning(p) \/ MarkDone(p) \/ MarkFailed(p) \/ EmitCommandFailed(p)
  PROVE  Single' /\ Kept'
<1>a. at[p] \in Busy
  BY DEF MarkRunning, MarkDone, MarkFailed, EmitCommandFailed, Busy
<1>b. PICK c \in Commands : c = current[p]
  BY <1>a, GroundedMeans DEF Layers
<1>1. /\ Held(p, c)
      /\ status[c] # "absent" /\ c \notin dispatching /\ ~InQueue(c)
      /\ \A r \in Callers : Held(r, c) => r = p
      /\ at[p] = "starting" => executions[c] = 0
  <2>1. Held(p, c)
    BY <1>b DEF Held
  <2> QED
    BY <2>1 DEF Layers, Single, Fresh
<1>2. /\ UNCHANGED <<items, answer, dispatching, dropped>>
      /\ \A r \in Callers : r # p => at'[r] = at[r] /\ current'[r] = current[r]
      /\ at'[p] \in {"executing", "reporting", "top"}
      /\ at'[p] # "top" => current'[p] = c
      /\ at'[p] = "top" => current'[p] = None
  BY <1>b, GroundedMeans
     DEF Layers, queueVars, MarkRunning, MarkDone, MarkFailed, EmitCommandFailed, NextRound, GoesTo
<1>3. /\ status' \in [Commands -> CommandStatus]
      /\ \A d \in Commands : d # c => status'[d] = status[d] /\ executions'[d] = executions[d]
      /\ status'[c] # "absent" /\ executions'[c] <= 1
      /\ reported \subseteq reported'
  <2> USE <1>1, <1>b, GroundedMeans DEF CommandStatus
  <2>1. executions[c] <= 1
    BY DEF Layers, Single, ExecutedOnce
  <2>2. CASE MarkRunning(p)
    BY <2>2 DEF Layers, MarkRunning
  <2>3. CASE MarkDone(p) \/ MarkFailed(p) \/ EmitCommandFailed(p)
    BY <2>1, <2>3 DEF Layers, MarkDone, MarkFailed, EmitCommandFailed
  <2> QED
    BY <2>2, <2>3
<1>4. /\ at'[p] = "reporting" => status'[c] = "FAILED"
      /\ at'[p] = "top" => status'[c] = "DONE" \/ (status'[c] = "FAILED" /\ c \in reported')
  BY <1>1, <1>b, GroundedMeans
     DEF Layers, Kept, MarkRunning, MarkDone, MarkFailed, EmitCommandFailed, NextRound, GoesTo
<1>5. OnceInQueue' /\ \A d : InQueue(d)' <=> InQueue(d)
  BY <1>2, QueueStays DEF Layers, Single
<1>6. /\ \A r \in Callers, d \in Commands : r # p => (Held(r, d)' <=> Held(r, d))
      /\ \A d \in Commands : Held(p, d)' <=> (d = c /\ at'[p] # "top")
  BY <1>1, <1>2, <1>b, AgentRuntimeAssumption DEF Held
<1>7. ASSUME NEW d \in Commands, d # c
      PROVE  (Fresh(d)' => Fresh(d)) /\ (InHand(d)' <=> InHand(d))
  <2>1. \A r \in Callers : Held(r, d) => r # p
    BY <1>b, <1>a, <1>7, AgentRuntimeAssumption DEF Held, Busy
  <2>2. \A r \in Callers : Held(r, d)' <=> Held(r, d)
    BY <1>6, <1>7, <2>1
  <2>3. Fresh(d)' => Fresh(d)
    BY <1>2, <1>3, <1>5, <1>7, <2>1, <2>2 DEF Fresh
  <2> QED
    BY <2>2, <2>3 DEF InHand, Held
<1>8. ~Fresh(c)'
  BY <1>1, <1>2, <1>3, <1>5, <1>6 DEF Fresh
<1>9. at'[p] # "top" => InHand(c)'
  BY <1>1, <1>2 DEF InHand
<1>10. Single'
  BY <1>1, <1>2, <1>3, <1>5, <1>6, <1>7, <1>8 DEF Layers, Single, ExecutedOnce
<1>11. NothingLost'
  BY <1>2, <1>3, <1>4, <1>5, <1>7, <1>9, <1>1 DEF Layers, Kept, NothingLost, CommandStatus
<1>12. \A r \in Callers : at'[r] = "reporting" => status'[current'[r]] = "FAILED"
  <2> SUFFICES ASSUME NEW r \in Callers, at'[r] = "reporting", r # p
               PROVE  status'[current'[r]] = "FAILED"
    BY <1>2, <1>4
  <2>1. current[r] \in Commands /\ Held(r, current[r]) /\ at[r] = "reporting"
    BY <1>2, GroundedMeans DEF Layers, Held, Busy
  <2>2. current[r] # c
    BY <1>1, <2>1
  <2> QED
    BY <1>2, <1>3, <2>1, <2>2 DEF Layers, Kept
<1> QED
  BY <1>10, <1>11, <1>12 DEF Kept

(* Every step keeps the third layer.                                       *)
LEMMA NextSingle == ASSUME Layers, Next PROVE Single' /\ Kept'
<1>1. ASSUME NEW p \in Callers, RunRuntime(p) PROVE Single' /\ Kept'
  <2>1. RunLoop(p)
    BY <1>1 DEF RunRuntime
  <2> QED
    BY <2>1, PollSingle, RoundSingle, MoveSingle, MarkSingle DEF RunLoop, ProcessCommand
<1> QED
  BY <1>1, StepsOfNext, QuietSingle, EndsSingle, EmitSingle, DispatchSingle, AnswerSingle

(* Every step keeps Inv.                                                   *)
LEMMA NextInv == ASSUME Inv, [Next]_allVars PROVE Inv'
<1>1. CASE Next
  BY <1>1, NextGrounded, NextOrdered, NextSingle DEF Inv, Layers
<1>2. CASE UNCHANGED allVars
  <2>1. Grounded'
    BY <1>2, NextGrounded DEF Inv
  <2>2. Ordered'
    BY <1>2 DEF Inv, Ordered, PhaseOK, EmitOK, HeardUnlessStopping, allVars, vars, runtimeVars,
                processVars, apiVars, chainVars
  <2>3. Single' /\ Kept'
    BY <1>2 DEF Inv, allVars, vars, queueVars, runtimeVars, Single, Kept, OnceInQueue, Held, Fresh,
                InQueue, InHand, ExecutedOnce, NothingLost
  <2> QED
    BY <2>1, <2>2, <2>3 DEF Inv
<1> QED
  BY <1>1, <1>2
-----------------------------------------------------------------------------
(* The three layers together are an inductive invariant of the processes.  *)
THEOREM Invariance == Spec => []Inv
<1>1. Init => Inv
  BY InitGrounded, InitOrdered, InitLayers DEF Inv
<1>2. Inv /\ [Next]_allVars => Inv'
  BY NextInv
<1> QED
  BY <1>1, <1>2, PTL DEF Spec

(* Types of the processes, their runtimes and their queue (index.ts).      *)
THEOREM TypeCorrect == Spec => [](TypeOK /\ QueueTypeOK)
<1>1. Inv => TypeOK /\ QueueTypeOK
  BY DEF Inv, Grounded, IInv
<1> QED
  BY <1>1, Invariance, PTL

(* Whatever the operator has set, the check of config-validation.ts lets   *)
(* no runtime start whose roles ask for a provider that is not there.      *)
THEOREM RolesAreServed == Spec => []EveryRoleServed
<1>1. Inv => EveryRoleServed
  BY DEF Inv, Ordered, PhaseOK, EveryRoleServed
<1> QED
  BY <1>1, Invariance, PTL

(* A decision is heard in every phase of index.ts but one: once the bus    *)
(* has let go of the orchestrator and the runtime ends its last command.   *)
THEOREM DecisionsAreHeard == Spec => []HeardUnlessStopping
<1>1. Inv => HeardUnlessStopping
  BY DEF Inv, Ordered
<1> QED
  BY <1>1, Invariance, PTL

(* The order of the shutdown in runtime/index.ts leaves nobody to use the  *)
(* storage that it closes.                                                 *)
THEOREM StorageIsFree == Spec => []ReleasedIsQuiet
<1>1. ASSUME Inv, NEW p \in Callers, phase[p] = "releasing"
      PROVE  /\ at[p] = "off" /\ request[p] = "none"
             /\ \A c \in dispatching : dispatcher[c][1] # p
  <2>1. at[p] = "off" /\ request[p] = "none"
    BY <1>1 DEF Inv, Grounded, RestOK, Ordered, PhaseOK
  <2>2. ASSUME NEW c \in dispatching, dispatcher[c][1] = p PROVE FALSE
    <3>1. /\ dispatcher[c] \in Callers \X Emitter
          /\ dispatcher[c][2] # "agent"
      BY <1>1, <2>1, <2>2 DEF Inv, Grounded, DispatchOK
    <3>2. dispatcher[c] = <<p, "request">>
      BY <2>2, <3>1 DEF Emitter
    <3> QED
      BY <1>1, <2>1, <3>2 DEF Inv, Ordered, EmitOK
  <2> QED
    BY <2>1, <2>2
<1>2. Inv => ReleasedIsQuiet
  BY <1>1 DEF ReleasedIsQuiet
<1> QED
  BY <1>2, Invariance, PTL

(* runtime.ts does not ask whether a command is still pending, and need    *)
(* not: the way of its id through dispatch and queue, whatever processes   *)
(* start, stop or are killed, brings it to one agent at most.              *)
THEOREM ExecutedAtMostOnce == Spec => []ExecutedOnce
<1>1. Inv => ExecutedOnce
  BY DEF Inv, Single
<1> QED
  BY <1>1, Invariance, PTL

(* A command of command-service.ts that is not over is somewhere on its    *)
(* way, and a failure of runtime.ts is on its way to the orchestrator,     *)
(* except for what an exception or the end of a process drops.             *)
THEOREM NothingIsLost == Spec => []NothingLost
<1>1. Inv => NothingLost
  BY DEF Inv, Kept
<1> QED
  BY <1>1, Invariance, PTL

(* The processes together use the queue as its contract has it.            *)
THEOREM ProcessesKeepContract == Spec => KeepsContract
<1>1. Init => QueueInit
  BY DEF Init
<1>2. [Next]_allVars => [QueueNext]_queueVars
  BY QueueSteps DEF allVars, vars, queueVars
<1> QED
  BY <1>1, <1>2, QueueKeepsContract, PTL DEF Spec, QueueSpec
=============================================================================
