--------------------------- MODULE InMemoryQueue ---------------------------
(***************************************************************************)
(* project/modules/infra/inmemory-queue.ts: items in an array, and a set   *)
(* of the resolvers of calls that wait, served in the order they came.     *)
(* The list and the blocked clients of the Redis backend behave alike.     *)
(*                                                                         *)
(* Each method runs to its end without an await, so each is one action. A  *)
(* promise is taken to be answered when it is resolved; its caller goes on *)
(* later.                                                                  *)
(***************************************************************************)
EXTENDS Naturals, SequencesExt

CONSTANTS Items, Callers

Idle    == "idle"
Waiting == "waiting"
Empty   == "null"

ASSUME InMemoryQueueAssumption == Items \cap {Idle, Waiting, Empty} = {}

VARIABLES
  items,             (* the array                                          *)
  waitingResolvers,  (* the callers of the resolvers in the set, in order  *)
  answer             (* per caller, what its latest promise resolved to    *)

queueVars == <<items, waitingResolvers, answer>>

QueueInit ==
  /\ items = <<>>
  /\ waitingResolvers = <<>>
  /\ answer = [c \in Callers |-> Idle]

(* The resolver of a call that has timed out is settled and does nothing.  *)
Resolve(c, value) ==
  IF answer[c] = Waiting THEN [answer EXCEPT ![c] = value] ELSE answer

(* Mutant: an item is put into the array although a caller waits.          *)
EnqueueBehind(i) ==
  /\ items' = Append(items, i)
  /\ UNCHANGED <<waitingResolvers, answer>>

Enqueue(i) ==
  \/ /\ waitingResolvers # <<>>
     /\ answer' = Resolve(Head(waitingResolvers), i)
     /\ waitingResolvers' = Tail(waitingResolvers)
     /\ UNCHANGED items
  \/ /\ waitingResolvers = <<>>
     /\ items' = Append(items, i)
     /\ UNCHANGED <<waitingResolvers, answer>>

(* Mutant: the item stays in the array.                                    *)
DequeuePeeks(c) ==
  /\ answer[c] # Waiting
  /\ \/ /\ items # <<>>
        /\ answer' = [answer EXCEPT ![c] = Head(items)]
        /\ UNCHANGED <<items, waitingResolvers>>
     \/ /\ items = <<>>
        /\ answer' = [answer EXCEPT ![c] = Waiting]
        /\ waitingResolvers' = Append(waitingResolvers, c)
        /\ UNCHANGED items

Dequeue(c) ==
  /\ answer[c] # Waiting
  /\ \/ /\ items # <<>>
        /\ answer' = [answer EXCEPT ![c] = Head(items)]
        /\ items' = Tail(items)
        /\ UNCHANGED waitingResolvers
     \/ /\ items = <<>>
        /\ answer' = [answer EXCEPT ![c] = Waiting]
        /\ waitingResolvers' = Append(waitingResolvers, c)
        /\ UNCHANGED items

(* Mutant: the resolver stays in the set.                                  *)
TimeOutUndeleted(c) ==
  /\ answer[c] = Waiting
  /\ answer' = [answer EXCEPT ![c] = Empty]
  /\ UNCHANGED <<items, waitingResolvers>>

(* The timer of a call that waits.                                         *)
TimeOut(c) ==
  /\ answer[c] = Waiting
  /\ answer' = [answer EXCEPT ![c] = Empty]
  /\ \E k \in DOMAIN waitingResolvers :
       /\ waitingResolvers[k] = c
       /\ waitingResolvers' = RemoveAt(waitingResolvers, k)
  /\ UNCHANGED items

Close ==
  /\ answer' = [c \in Callers |-> IF answer[c] = Waiting THEN Empty ELSE answer[c]]
  /\ waitingResolvers' = <<>>
  /\ UNCHANGED items

QueueNext ==
  \/ \E i \in Items : Enqueue(i)
  \/ \E c \in Callers : Dequeue(c) \/ TimeOut(c)
  \/ Close

QueueSpec == QueueInit /\ [][QueueNext]_queueVars
-----------------------------------------------------------------------------
(* The array is the backlog of the contract; who waits is told by answer.  *)
Contract == INSTANCE CommandQueue WITH backlog <- items

(* The queue keeps the promise of CommandQueue: no item is lost, given to  *)
(* two calls or overtaken, and no call comes back empty-handed while there *)
(* is one.                                                                 *)
KeepsContract == Contract!Spec

(* Every variable of the queue holds a value of its type.                  *)
QueueTypeOK ==
  /\ items \in Seq(Items)
  /\ waitingResolvers \in Seq(Callers)
  /\ answer \in [Callers -> Items \cup {Idle, Waiting, Empty}]

(* A resolver in the set belongs to a call that waits, in the order of the *)
(* calls, one per caller; and nobody waits while an item is in the array.  *)
ResolversWait ==
  /\ \A c \in Callers :
       answer[c] = Waiting <=> \E k \in DOMAIN waitingResolvers : waitingResolvers[k] = c
  /\ \A j, k \in DOMAIN waitingResolvers : waitingResolvers[j] = waitingResolvers[k] => j = k
  /\ waitingResolvers # <<>> => items = <<>>
=============================================================================
