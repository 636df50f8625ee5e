-------------------------- MODULE AgentLoopProofs --------------------------
(***************************************************************************)
(* The conversation of a native model is well formed, and its last word    *)
(* decides, for every bound of the loops, tool list and batch of calls.    *)
(***************************************************************************)
EXTENDS AgentLoop, TLAPS

MessageType == [role : {"system", "user", "assistant", "tool"},
                ids : SUBSET CallIds, id : CallIds \cup {NoId}]

Distinct(calls) ==
  \A j, k \in DOMAIN calls : calls[j].id = calls[k].id /\ calls[j].id # NoId => j = k

(* The calls of message a that are not in todo are answered right behind   *)
(* it, and the conversation ends there.                                    *)
Open(t, a, calls) ==
  /\ Answers(t, a) = (a + 1)..Len(t)
  /\ Ids(calls) \subseteq t[a].ids
  /\ {t[j].id : j \in Answers(t, a)} = t[a].ids \ Ids(calls)
  /\ \A j, k \in Answers(t, a) : t[j].id = t[k].id => j = k

Shape ==
  /\ run \in RunType
  /\ transcript \in Seq(MessageType)
  /\ todo \in Seq(CallType) /\ Distinct(todo)
  /\ stage \in {"start", "route"} => transcript = <<>>

Conversation ==
  /\ NoOrphans(transcript)
  /\ stage = "tools" =>
       \E a \in CallMessages(transcript) :
         /\ Open(transcript, a, todo)
         /\ \A i \in CallMessages(transcript) \ {a} : Settled(transcript, i)
  /\ stage # "tools" => \A i \in CallMessages(transcript) : Settled(transcript, i)

(* last is empty until a completion without tool calls ends an iteration,  *)
(* and then it is that completion's text: an answer is returned, and an    *)
(* empty one starts the next iteration.                                    *)
LastWord ==
  /\ stage \in {"start", "route", "ask", "tools"} => last = ""
  /\ stage = "between" /\ last # "" =>
       last = heard.text /\ (heard.calls = <<>> \/ ~run.enableTools) /\ complete
  /\ stage = "result" /\ run.provider = "llm" /\ stdout = "pass" =>
       heard.text = "pass" /\ (heard.calls = <<>> \/ ~run.enableTools)
  /\ stage \in {"start", "route", "ask", "tools", "between", "result"} => decision = None

IInv == Shape /\ Conversation /\ LastWord /\ LastWordApproves
-----------------------------------------------------------------------------
(* Whether a message is settled depends on itself and on its answers.      *)
LEMMA SettledSame ==
  ASSUME NEW t, NEW u, NEW i, Settled(t, i), u[i] = t[i],
         Answers(u, i) = Answers(t, i), \A j \in Answers(t, i) : u[j] = t[j]
  PROVE  Settled(u, i)
<1>1. {u[j].id : j \in Answers(u, i)} = {t[j].id : j \in Answers(t, i)}
  OBVIOUS
<1> QED
  BY <1>1 DEF Settled

(* A message of another role settles nothing and orphans nothing.          *)
LEMMA AppendOther ==
  ASSUME NEW t \in Seq(MessageType), NEW m \in MessageType, m.role # "tool"
  PROVE  /\ Append(t, m) \in Seq(MessageType)
         /\ \A i \in DOMAIN t : Answers(Append(t, m), i) = Answers(t, i)
         /\ Answers(Append(t, m), Len(t) + 1) = {}
         /\ \A i \in DOMAIN t : Settled(t, i) => Settled(Append(t, m), i)
         /\ CallMessages(Append(t, m)) =
              CallMessages(t) \cup (IF m.role = "assistant" THEN {Len(t) + 1} ELSE {})
         /\ NoOrphans(t) => NoOrphans(Append(t, m))
<1> DEFINE u == Append(t, m)
<1>1. u \in Seq(MessageType) /\ Len(u) = Len(t) + 1 /\ u[Len(t) + 1] = m
      /\ (\A i \in DOMAIN t : u[i] = t[i]) /\ DOMAIN t = 1..Len(t) /\ DOMAIN u = 1..(Len(t) + 1)
  OBVIOUS
<1>2. ASSUME NEW i \in DOMAIN t PROVE Answers(u, i) = Answers(t, i)
  BY <1>1, <1>2 DEF Answers
<1>3. Answers(u, Len(t) + 1) = {}
  BY <1>1 DEF Answers
<1>4. ASSUME NEW i \in DOMAIN t, Settled(t, i) PROVE Settled(u, i)
  <2>1. \A j \in Answers(t, i) : u[j] = t[j]
    BY <1>1, <1>4 DEF Answers
  <2>2. u[i] = t[i] /\ Answers(u, i) = Answers(t, i)
    BY <1>1, <1>2, <1>4
  <2> QED
    BY <1>4, <2>1, <2>2, SettledSame
<1>5. CallMessages(u) = CallMessages(t) \cup (IF m.role = "assistant" THEN {Len(t) + 1} ELSE {})
  BY <1>1 DEF CallMessages
<1>6. ASSUME NoOrphans(t) PROVE NoOrphans(u)
  <2> SUFFICES ASSUME NEW j \in DOMAIN u, u[j].role = "tool"
               PROVE  \E i \in CallMessages(u) : j \in Answers(u, i)
    BY DEF NoOrphans
  <2>1. j \in DOMAIN t /\ t[j].role = "tool"
    BY <1>1
  <2>2. PICK i \in CallMessages(t) : j \in Answers(t, i)
    BY <1>6, <2>1 DEF NoOrphans
  <2>3. i \in DOMAIN t /\ i \in CallMessages(u)
    BY <1>5 DEF CallMessages
  <2> QED
    BY <1>2, <2>2, <2>3
<1> QED
  BY <1>1, <1>2, <1>3, <1>4, <1>5, <1>6

(* The answer to a call belongs to the message a the conversation ends     *)
(* with, and to no other.                                                  *)
LEMMA AppendTool ==
  ASSUME NEW t \in Seq(MessageType), NEW m \in MessageType, m.role = "tool",
         NEW a \in CallMessages(t), Answers(t, a) = (a + 1)..Len(t)
  PROVE  /\ Append(t, m) \in Seq(MessageType)
         /\ Answers(Append(t, m), a) = (a + 1)..(Len(t) + 1)
         /\ \A i \in CallMessages(t) \ {a} : Settled(t, i) => Settled(Append(t, m), i)
         /\ CallMessages(Append(t, m)) = CallMessages(t)
         /\ NoOrphans(t) => NoOrphans(Append(t, m))
<1> DEFINE u == Append(t, m)
<1>1. u \in Seq(MessageType) /\ Len(u) = Len(t) + 1 /\ u[Len(t) + 1] = m /\ Len(t) \in Nat
      /\ (\A i \in DOMAIN t : u[i] = t[i]) /\ DOMAIN t = 1..Len(t) /\ DOMAIN u = 1..(Len(t) + 1)
  OBVIOUS
<1>2. a \in 1..Len(t) /\ t[a].role = "assistant" /\ \A k \in (a + 1)..Len(t) : t[k].role = "tool"
  <2>1. a \in 1..Len(t) /\ t[a].role = "assistant"
    BY <1>1 DEF CallMessages
  <2>2. ASSUME NEW k \in (a + 1)..Len(t) PROVE t[k].role = "tool"
    <3>1. k \in Answers(t, a)
      BY <2>2
    <3>2. k \in (a + 1)..k
      BY <2>1, <2>2, <1>1
    <3> QED
      BY <3>1, <3>2 DEF Answers
  <2> QED
    BY <2>1, <2>2
<1>3. Answers(u, a) = (a + 1)..(Len(t) + 1)
  BY <1>1, <1>2 DEF Answers
<1>4. CallMessages(u) = CallMessages(t)
  BY <1>1 DEF CallMessages
<1>5. ASSUME NEW i \in CallMessages(t), i # a PROVE i < a /\ Answers(u, i) = Answers(t, i)
  <2>1. i \in 1..Len(t) /\ t[i].role = "assistant"
    BY <1>1, <1>5 DEF CallMessages
  <2>2. i < a
    BY <1>1, <1>2, <1>5, <2>1
  <2>3. ~(\A k \in (i + 1)..(Len(t) + 1) : u[k].role = "tool")
    BY <1>1, <1>2, <2>1, <2>2
  <2> QED
    BY <1>1, <2>1, <2>2, <2>3 DEF Answers
<1>6. ASSUME NEW i \in CallMessages(t) \ {a}, Settled(t, i) PROVE Settled(u, i)
  <2>1. \A j \in Answers(t, i) : u[j] = t[j]
    BY <1>1, <1>6 DEF Answers, CallMessages
  <2>2. u[i] = t[i] /\ Answers(u, i) = Answers(t, i)
    BY <1>1, <1>5, <1>6 DEF CallMessages
  <2> QED
    BY <1>6, <2>1, <2>2, SettledSame
<1>7. ASSUME NoOrphans(t) PROVE NoOrphans(u)
  <2> SUFFICES ASSUME NEW j \in DOMAIN u, u[j].role = "tool"
               PROVE  \E i \in CallMessages(u) : j \in Answers(u, i)
    BY DEF NoOrphans
  <2>1. CASE j = Len(t) + 1
    <3>1. j \in (a + 1)..(Len(t) + 1) /\ a \in CallMessages(u)
      BY <1>1, <1>2, <1>4, <2>1
    <3> QED
      BY <1>3, <3>1
  <2>2. CASE j # Len(t) + 1
    <3>1. j \in DOMAIN t /\ t[j].role = "tool"
      BY <1>1, <2>2
    <3>2. PICK i \in CallMessages(t) : j \in Answers(t, i)
      BY <1>7, <3>1 DEF NoOrphans
    <3>3. CASE i = a
      <4>1. j \in (a + 1)..(Len(t) + 1)
        BY <1>1, <1>2, <3>2, <3>3
      <4> QED
        BY <1>3, <1>4, <4>1
    <3>4. CASE i # a
      BY <1>4, <1>5, <3>2, <3>4
    <3> QED
      BY <3>3, <3>4
  <2> QED
    BY <2>1, <2>2
<1> QED
  BY <1>1, <1>3, <1>4, <1>6, <1>7

(* What is left of the ids when the first call has been handled.           *)
LEMMA TailIds ==
  ASSUME NEW calls \in Seq(CallType), calls # <<>>, Distinct(calls)
  PROVE  /\ Tail(calls) \in Seq(CallType) /\ Distinct(Tail(calls)) /\ Head(calls) \in CallType
         /\ Head(calls).id = NoId => Ids(Tail(calls)) = Ids(calls)
         /\ Head(calls).id # NoId =>
              Head(calls).id \in Ids(calls) /\ Ids(Tail(calls)) = Ids(calls) \ {Head(calls).id}
<1>1. /\ Tail(calls) \in Seq(CallType) /\ Head(calls) = calls[1] /\ calls[1] \in CallType
      /\ Len(calls) \in Nat \ {0} /\ DOMAIN calls = 1..Len(calls)
      /\ DOMAIN Tail(calls) = 1..(Len(calls) - 1)
      /\ \A k \in 1..(Len(calls) - 1) : Tail(calls)[k] = calls[k + 1]
  OBVIOUS
<1>2. Distinct(Tail(calls))
  BY <1>1 DEF Distinct
<1>3. Ids(calls) = (Ids(Tail(calls)) \cup {calls[1].id}) \ {NoId}
  <2> DEFINE rest == Tail(calls)
  <2>1. ASSUME NEW k \in DOMAIN calls, k # 1
        PROVE  k - 1 \in DOMAIN rest /\ rest[k - 1] = calls[k]
    BY <1>1, <2>1
  <2>2. ASSUME NEW k \in DOMAIN rest
        PROVE  k + 1 \in DOMAIN calls /\ rest[k] = calls[k + 1]
    BY <1>1, <2>2
  <2>3. 1 \in DOMAIN calls
    BY <1>1
  <2> HIDE DEF rest
  <2>4. {calls[k].id : k \in DOMAIN calls} = {rest[k].id : k \in DOMAIN rest} \cup {calls[1].id}
    BY <2>1, <2>2, <2>3
  <2> QED
    BY <2>4 DEF Ids, rest
<1>4. calls[1].id # NoId => calls[1].id \notin Ids(Tail(calls))
  BY <1>1 DEF Ids, Distinct
<1>5. NoId \notin Ids(Tail(calls))
  BY DEF Ids
<1> QED
  BY <1>1, <1>2, <1>3, <1>4, <1>5

(* The first call is answered.                                             *)
LEMMA AnswerCall ==
  ASSUME Shape, Conversation, stage = "tools", stage' = "tools", todo # <<>>,
         Head(todo).id # NoId, todo' = Tail(todo),
         transcript' = Append(transcript, ToolMessage(Head(todo)))
  PROVE  /\ transcript' \in Seq(MessageType)
         /\ Conversation'
<1> DEFINE m == ToolMessage(Head(todo))
<1>1. /\ transcript \in Seq(MessageType) /\ todo \in Seq(CallType) /\ Distinct(todo)
      /\ Len(transcript) \in Nat
  BY DEF Shape
<1>2. /\ Head(todo) \in CallType /\ Head(todo).id \in Ids(todo)
      /\ Ids(todo') = Ids(todo) \ {Head(todo).id}
  BY <1>1, TailIds
<1>3. m \in MessageType /\ m.role = "tool" /\ m.id = Head(todo).id
  BY <1>2 DEF ToolMessage, MessageType, CallType
<1>4. PICK a \in CallMessages(transcript) :
        /\ Open(transcript, a, todo)
        /\ \A i \in CallMessages(transcript) \ {a} : Settled(transcript, i)
  BY DEF Conversation
<1>5. NoOrphans(transcript) /\ Answers(transcript, a) = (a + 1)..Len(transcript)
      /\ a \in 1..Len(transcript)
  BY <1>1, <1>4 DEF Conversation, Open, CallMessages
<1> HIDE DEF m
<1>6. /\ transcript' \in Seq(MessageType)
      /\ Answers(transcript', a) = (a + 1)..(Len(transcript) + 1)
      /\ \A i \in CallMessages(transcript) \ {a} : Settled(transcript', i)
      /\ CallMessages(transcript') = CallMessages(transcript)
      /\ NoOrphans(transcript')
  BY <1>1, <1>3, <1>4, <1>5, AppendTool DEF m
<1>7. /\ Len(transcript') = Len(transcript) + 1
      /\ transcript'[Len(transcript) + 1] = m
      /\ \A i \in 1..Len(transcript) : transcript'[i] = transcript[i]
  BY <1>1, <1>3 DEF m
<1>8. Open(transcript', a, todo')
  <2> DEFINE old == (a + 1)..Len(transcript)
             n == Len(transcript) + 1
  <2>1. Answers(transcript', a) = old \cup {n} /\ n \notin old
        /\ \A j \in old : transcript'[j] = transcript[j]
    BY <1>1, <1>5, <1>6, <1>7
  <2>2. /\ {transcript[j].id : j \in old} = transcript[a].ids \ Ids(todo)
        /\ \A j, k \in old : transcript[j].id = transcript[k].id => j = k
        /\ Ids(todo) \subseteq transcript[a].ids
    BY <1>4, <1>5 DEF Open
  <2>3. transcript'[a] = transcript[a] /\ transcript'[n].id = Head(todo).id
        /\ Answers(transcript', a) = (a + 1)..Len(transcript')
    BY <1>3, <1>5, <1>6, <1>7
  <2> HIDE DEF old, n
  <2> DEFINE ids == transcript[a].ids
             left == Ids(todo)
             x == Head(todo).id
             id(j) == transcript'[j].id
  <2>4. x \in left /\ Ids(todo') = left \ {x} /\ left \subseteq ids
    BY <1>2, <2>2
  <2>5. {id(j) : j \in old} = ids \ left
    <3>1. {id(j) : j \in old} = {transcript[j].id : j \in old}
      BY <2>1
    <3> QED
      BY <2>2, <3>1
  <2>6. /\ id(n) = x
        /\ \A j, k \in old : id(j) = id(k) => j = k
    BY <2>1, <2>2, <2>3
  <2>7. \A j \in old : id(j) # x
    BY <2>4, <2>5
  <2> HIDE DEF ids, left, x, id
  <2>8. \A j, k \in old \cup {n} : id(j) = id(k) => j = k
    BY <2>6, <2>7
  <2>9. {id(j) : j \in old \cup {n}} = ids \ (left \ {x})
    BY <2>4, <2>5, <2>6
  <2> QED
    BY <2>1, <2>3, <2>4, <2>8, <2>9 DEF Open, id, ids
<1> QED
  BY <1>4, <1>6, <1>8 DEF Conversation

(* The model asks for tools.                                               *)
LEMMA AskForTools ==
  ASSUME Shape, Conversation, stage = "ask", stage' = "tools",
         NEW calls \in Batches, todo' = calls,
         transcript' = Append(transcript, CallMessage(calls))
  PROVE  /\ transcript' \in Seq(MessageType)
         /\ todo' \in Seq(CallType) /\ Distinct(todo)'
         /\ Conversation'
<1> DEFINE m == CallMessage(calls)
           a == Len(transcript) + 1
<1>1. transcript \in Seq(MessageType) /\ Len(transcript) \in Nat
  BY DEF Shape
<1>2. calls \in Seq(CallType) /\ Distinct(calls)
  BY BatchesAssumption DEF Distinct
<1>3. m \in MessageType /\ m.role = "assistant" /\ m.ids = Ids(calls)
  <2>1. Ids(calls) \subseteq CallIds
    <3>1. ASSUME NEW k \in DOMAIN calls PROVE calls[k].id \in CallIds \cup {NoId}
      <4>1. calls[k] \in CallType
        BY <1>2, <3>1
      <4> QED
        BY <4>1 DEF CallType
    <3> QED
      BY <3>1 DEF Ids
  <2> QED
    BY <2>1 DEF CallMessage, MessageType
<1> HIDE DEF m
<1>4. /\ transcript' \in Seq(MessageType)
      /\ Answers(transcript', a) = {}
      /\ \A i \in CallMessages(transcript) : Settled(transcript', i)
      /\ CallMessages(transcript') = CallMessages(transcript) \cup {a}
      /\ NoOrphans(transcript')
  <2>1. NoOrphans(transcript) /\ \A i \in CallMessages(transcript) : Settled(transcript, i)
    BY DEF Conversation
  <2>2. CallMessages(transcript) \subseteq DOMAIN transcript
    BY DEF CallMessages
  <2> QED
    BY <1>1, <1>3, <2>1, <2>2, AppendOther DEF m
<1>5. transcript'[a] = m /\ Len(transcript') = a
  BY <1>1, <1>3 DEF m
<1>6. Open(transcript', a, todo')
  <2>1. (a + 1)..Len(transcript') = {}
    BY <1>1, <1>5
  <2>2. {transcript'[j].id : j \in Answers(transcript', a)} = {}
    BY <1>4
  <2> QED
    BY <1>3, <1>4, <1>5, <2>1, <2>2 DEF Open
<1> QED
  BY <1>2, <1>4, <1>6 DEF Conversation

(* With all calls handled, the last message with calls is settled too.     *)
LEMMA CallsHandled ==
  ASSUME NEW t, NEW a, Open(t, a, <<>>)
  PROVE  Settled(t, a)
<1>1. Ids(<<>>) = {}
  BY DEF Ids
<1> QED
  BY <1>1 DEF Open, Settled

(* IInv holds before run() has begun.                                      *)
THEOREM Initial == Init => IInv
<1> SUFFICES ASSUME Init PROVE IInv
  OBVIOUS
<1>1. run \in RunType
  BY RunsAssumption DEF Init
<1>2. transcript \in Seq(MessageType) /\ todo \in Seq(CallType)
      /\ DOMAIN transcript = {} /\ DOMAIN todo = {}
  <2>1. transcript = <<>> /\ todo = <<>>
    BY DEF Init
  <2>2. \A T : <<>> \in Seq(T)
    OBVIOUS
  <2>3. DOMAIN <<>> = {}
    OBVIOUS
  <2> QED
    BY <2>1, <2>2, <2>3
<1>3. Shape
  BY <1>1, <1>2 DEF Init, Shape, Distinct
<1>4. Conversation
  <2>1. CallMessages(transcript) = {} /\ stage = "start"
    BY <1>2 DEF CallMessages, Init
  <2> QED
    BY <1>2, <2>1 DEF Conversation, NoOrphans
<1>5. LastWord /\ LastWordApproves
  BY DEF Init, LastWord, LastWordApproves
<1> QED
  BY <1>3, <1>4, <1>5 DEF IInv

(* What no action of the loop touches stays as it is.                      *)
LEMMA Untouched ==
  ASSUME IInv, UNCHANGED <<run, transcript, todo>>,
         stage # "tools", stage' # "tools", stage' \notin {"start", "route"}
  PROVE  Shape' /\ Conversation'
  BY DEF IInv, Shape, Conversation, NoOrphans, CallMessages, Settled, Answers, Distinct

(* Every step of the loop, of a tool and of the model keeps IInv.          *)
THEOREM Inductive == IInv /\ [Next]_vars => IInv'
<1> SUFFICES ASSUME IInv, [Next]_vars PROVE IInv'
  OBVIOUS
<1> USE DEF agentVars, loopVars
<1>1. CASE StartTask
  <2>1. Shape' /\ Conversation'
    BY <1>1 DEF IInv, StartTask, Shape, Conversation, NoOrphans, CallMessages, Settled, Answers, Distinct
  <2> QED
    BY <1>1, <2>1 DEF IInv, StartTask, LastWord, LastWordApproves
<1>2. CASE StartRun
  <2>1. transcript' \in Seq(MessageType) /\ CallMessages(transcript') = {} /\ NoOrphans(transcript')
    <3> DEFINE t == <<Message("system"), Message("user")>>
    <3>1. /\ Message("system") \in MessageType /\ Message("system").role = "system"
          /\ Message("user") \in MessageType /\ Message("user").role = "user"
      BY DEF Message, MessageType
    <3> HIDE DEF t
    <3>2. t \in Seq(MessageType) /\ DOMAIN t = 1..2
          /\ t[1].role = "system" /\ t[2].role = "user"
      BY <3>1 DEF t
    <3>3. \A i \in DOMAIN t : t[i].role \in {"system", "user"}
      BY <3>2
    <3> QED
      BY <1>2, <3>2, <3>3 DEF StartRun, CallMessages, NoOrphans, t
  <2>2. Shape' /\ Conversation'
    BY <1>2, <2>1 DEF IInv, StartRun, Shape, Conversation, Distinct
  <2> QED
    BY <1>2, <2>2 DEF IInv, StartRun, LastWord, LastWordApproves
<1>3. CASE Throws
  <2>1. Shape' /\ Conversation'
    BY <1>3, Untouched DEF Throws
  <2> QED
    BY <1>3, <2>1 DEF IInv, Throws, LastWord, LastWordApproves
<1>4. CASE \E text \in CliOutputs : RunCli(text)
  <2>1. Shape' /\ Conversation'
    BY <1>4, Untouched DEF RunCli
  <2> QED
    BY <1>4, <2>1 DEF IInv, RunCli, LastWord, LastWordApproves
<1>5. CASE ReceiveNothing
  <2>1. Shape' /\ Conversation'
    BY <1>5, Untouched DEF ReceiveNothing
  <2> QED
    BY <1>5, <2>1 DEF IInv, ReceiveNothing, LastWord, LastWordApproves
<1>6. CASE \E text \in Texts : \E calls \in Batches \cup {<<>>} : ReceiveAnswer(text, calls)
  <2>1. Shape' /\ Conversation'
    BY <1>6, Untouched DEF ReceiveAnswer
  <2>2. PICK text \in Texts, calls \in Batches \cup {<<>>} : ReceiveAnswer(text, calls)
    BY <1>6
  <2>3. decision' = None /\ stage' = "between" /\ last' = text /\ complete'
        /\ heard'.text = text /\ heard'.calls = calls
        /\ (calls = <<>> \/ ~run.enableTools) /\ run' = run
    BY <2>2 DEF IInv, ReceiveAnswer, LastWord
  <2>4. LastWord' /\ LastWordApproves'
    BY <2>3 DEF LastWord, LastWordApproves
  <2> QED
    BY <2>1, <2>4 DEF IInv
<1>7. CASE \E text \in Texts : \E calls \in Batches : ReceiveCalls(text, calls)
  <2>1. PICK text \in Texts, calls \in Batches : ReceiveCalls(text, calls)
    BY <1>7
  <2>2. /\ transcript' \in Seq(MessageType) /\ todo' \in Seq(CallType)
        /\ Distinct(todo)' /\ Conversation'
    BY <2>1, AskForTools DEF IInv, ReceiveCalls
  <2>3. Shape'
    BY <2>1, <2>2 DEF IInv, ReceiveCalls, Shape
  <2> QED
    BY <2>1, <2>2, <2>3 DEF IInv, ReceiveCalls, LastWord, LastWordApproves
<1>8. CASE SkipCall
  <2>1. /\ Tail(todo) \in Seq(CallType) /\ Distinct(Tail(todo))
        /\ Ids(Tail(todo)) = Ids(todo)
    BY <1>8, TailIds DEF IInv, Shape, SkipCall
  <2>2. Shape'
    BY <1>8, <2>1 DEF IInv, Shape, SkipCall, Distinct
  <2>3. \A a : Open(transcript, a, todo) => Open(transcript, a, Tail(todo))
    BY <2>1 DEF Open
  <2>4. Conversation'
    BY <1>8, <2>3 DEF IInv, Conversation, SkipCall
  <2> QED
    BY <1>8, <2>2, <2>4 DEF IInv, SkipCall, LastWord, LastWordApproves
<1>9. CASE RefuseCall \/ ExecuteCall
  <2>1. /\ stage = "tools" /\ stage' = "tools" /\ todo # <<>> /\ Head(todo).id # NoId
        /\ todo' = Tail(todo) /\ run' = run
        /\ transcript' = Append(transcript, ToolMessage(Head(todo)))
    BY <1>9 DEF RefuseCall, ExecuteCall
  <2>2. transcript' \in Seq(MessageType) /\ Conversation'
    BY <2>1, AnswerCall DEF IInv
  <2>3. Tail(todo) \in Seq(CallType) /\ Distinct(Tail(todo))
    BY <2>1, TailIds DEF IInv, Shape
  <2>4. Shape'
    BY <2>1, <2>2, <2>3 DEF IInv, Shape, Distinct
  <2> QED
    BY <1>9, <2>2, <2>4 DEF IInv, RefuseCall, ExecuteCall, LastWord, LastWordApproves
<1>10. CASE NextStep
  <2>1. PICK a \in CallMessages(transcript) :
          /\ Open(transcript, a, <<>>)
          /\ \A i \in CallMessages(transcript) \ {a} : Settled(transcript, i)
    BY <1>10 DEF IInv, Conversation, NextStep
  <2>2. \A i \in CallMessages(transcript) : Settled(transcript, i)
    BY <2>1, CallsHandled
  <2>3. Shape' /\ Conversation'
    BY <1>10, <2>2 DEF IInv, Shape, Conversation, NextStep, Distinct
  <2> QED
    BY <1>10, <2>3 DEF IInv, NextStep, LastWord, LastWordApproves
<1>11. CASE Return
  <2>1. Shape' /\ Conversation'
    BY <1>11, Untouched DEF Return
  <2>2. LastWord'
    BY <1>11 DEF IInv, Return, LastWord, Completed
  <2> QED
    BY <1>11, <2>1, <2>2 DEF IInv, Return, LastWord, LastWordApproves
<1>12. CASE Continue
  <2>1. Message("user") \in MessageType /\ Message("user").role = "user"
    BY DEF Message, MessageType
  <2>2. /\ transcript' \in Seq(MessageType)
        /\ CallMessages(transcript') = CallMessages(transcript)
        /\ \A i \in CallMessages(transcript) : Settled(transcript', i)
        /\ NoOrphans(transcript')
    <3>1. /\ transcript \in Seq(MessageType) /\ NoOrphans(transcript)
          /\ \A i \in CallMessages(transcript) : Settled(transcript, i)
          /\ CallMessages(transcript) \subseteq DOMAIN transcript
      BY <1>12 DEF IInv, Shape, Conversation, Continue, CallMessages
    <3> QED
      BY <1>12, <2>1, <3>1, AppendOther DEF Continue
  <2>3. Shape' /\ Conversation'
    BY <1>12, <2>2 DEF IInv, Shape, Conversation, Continue, Distinct
  <2> QED
    BY <1>12, <2>3 DEF IInv, Continue, LastWord, LastWordApproves
<1>13. CASE Decide
  <2>1. Shape' /\ Conversation'
    BY <1>13, Untouched DEF Decide
  <2>2. LastWordApproves'
    <3>1. decision'.event = "TEST_PASSED" => stdout = "pass"
      BY <1>13 DEF Decide, DecisionOn
    <3> QED
      BY <1>13, <3>1 DEF IInv, Decide, LastWord, LastWordApproves
  <2> QED
    BY <1>13, <2>1, <2>2 DEF IInv, Decide, LastWord
<1>14. CASE MarkTask
  <2>1. Shape' /\ Conversation'
    BY <1>14, Untouched DEF MarkTask
  <2> QED
    BY <1>14, <2>1 DEF IInv, MarkTask, LastWord, LastWordApproves
<1>15. CASE Emit
  <2>1. Shape' /\ Conversation'
    BY <1>15, Untouched DEF Emit
  <2> QED
    BY <1>15, <2>1 DEF IInv, Emit, LastWord, LastWordApproves
<1>16. CASE UNCHANGED vars
  <2>1. UNCHANGED <<run, stage, transcript, todo, heard, complete, last, stdout, decision>>
    BY <1>16 DEF vars
  <2>2. Shape'
    BY <2>1 DEF IInv, Shape, Distinct
  <2>3. Conversation'
    BY <2>1 DEF IInv, Conversation
  <2>4. LastWord' /\ LastWordApproves'
    BY <2>1 DEF IInv, LastWord, LastWordApproves
  <2> QED
    BY <2>2, <2>3, <2>4 DEF IInv
<1> QED
  BY <1>1, <1>2, <1>3, <1>4, <1>5, <1>6, <1>7, <1>8, <1>9, <1>10, <1>11, <1>12, <1>13,
     <1>14, <1>15, <1>16 DEF Next, Steps, Receive

(* WellFormedConversation holds in every state.                            *)
THEOREM ConversationIsWellFormed == Spec => []WellFormedConversation
<1>1. IInv => WellFormedConversation
  BY DEF IInv, Conversation, WellFormedConversation
<1> QED
  BY <1>1, Initial, Inductive, PTL DEF Spec

(* LastWordApproves holds in every state.                                  *)
THEOREM TheLastWordDecides == Spec => []LastWordApproves
<1>1. IInv => LastWordApproves
  BY DEF IInv
<1> QED
  BY <1>1, Initial, Inductive, PTL DEF Spec
=============================================================================
