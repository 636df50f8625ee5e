------------------------------- MODULE Intake -------------------------------
(***************************************************************************)
(* The chat intake (modules/intake): a message of a thread is turned by a  *)
(* language model into a structured request; a task that lacks a required  *)
(* field becomes the draft of its thread, and the thread's next messages   *)
(* are answers to it.  Drafts and the map of threads to workspaces live in *)
(* the memory of the API process.  The model's answer is any payload it    *)
(* may send back; a message is what the code looks for in its text.        *)
(***************************************************************************)
EXTENDS ApiData

CONSTANTS Threads,             \* thread ids clients may send, session ids apart
          DefaultKey           \* 'default', the key of a message without a thread

VARIABLES pendingByThreadId,   \* key -> the draft waiting for an answer
          workspaceByThreadId  \* thread or session -> key

intakeVars == <<pendingByThreadId, workspaceByThreadId>>

(* What the intake looks for in the text of a message.                     *)
Messages == [noStart : BOOLEAN,                  \* hasExplicitNoStartIntent
             taskWords : BOOLEAN,                \* hasStrongTaskIntent
             url : Repos \cup {None}]   \* extractScmFromMessage

(* What the language model may return, as far as the intake reads it.      *)
Payloads == [action : {"CONVERSE", "START_SESSION", "GET_SESSION", "GET_EVENTS", "OTHER"},
             route : {"CONVERSE", "TASK"},
             sessionId : {"given", None},
             autoStart : BOOLEAN \cup {None},
             repo : Repos \cup {"unsupported", None}]

Failure    == [action |-> "ERROR"]
Conversing == [action |-> "CONVERSE"]
Lookup     == [action |-> "LOOKUP"]

(* hasExplicitNoStartIntent: the words of the message win over the model.  *)
AutoStart(payload, message) == ~message.noStart /\ payload.autoStart # FALSE

(* normalizeContext: a repository of the model, even one whose provider is *)
(* unknown, hides the URL in the message; what cannot be normalised is     *)
(* dropped by the validation.                                              *)
RepositoryOf(payload, message) ==
    CASE payload.repo \in Repos -> payload.repo
      [] payload.repo = "unsupported"  -> None
      [] OTHER                         -> message.url

Normalize(payload, message) ==
    IF payload.action = "CONVERSE" \/ payload.route = "CONVERSE" THEN Conversing
    ELSE IF payload.action \in {"GET_SESSION", "GET_EVENTS"}
         THEN IF payload.sessionId = None THEN Failure ELSE Lookup
    ELSE IF payload.action = "OTHER" /\ ~message.taskWords THEN Conversing
    ELSE [action |-> "START_SESSION", repo |-> RepositoryOf(payload, message),
          autoStart |-> AutoStart(payload, message)]

(* parseJson and the provider's exit code: no request at all.              *)
ParsedRequests == {Normalize(p, m) : p \in Payloads, m \in Messages} \cup {Failure}

(* collectMissingFields with the configured schema: the goal, which a      *)
(* parsed request always has (it falls back on the message), and the       *)
(* repository.                                                             *)
IsComplete(request) == request.repo # None

(* applyPendingAnswer, applyUserAnswer: the answer is taken for the first  *)
(* missing field, whatever it says.                                        *)
Answered(draft, answer) == [draft EXCEPT !.repo = answer]

(* normalizeThreadKey: a thread that made a session goes on with the key   *)
(* of that session.                                                        *)
ThreadKey(thread) ==
    IF thread = None THEN DefaultKey
    ELSE IF thread \in DOMAIN workspaceByThreadId THEN workspaceByThreadId[thread]
    ELSE thread

HasDraft(key)     == key \in DOMAIN pendingByThreadId
KeepDraft(key, d) == pendingByThreadId' = Put(pendingByThreadId, key, d)

(* Mutant: the draft is left in place when its last answer has come.       *)
DiscardDraft_Never(key) == UNCHANGED pendingByThreadId

DiscardDraft(key) == pendingByThreadId' = Drop(pendingByThreadId, key)

(* Mutant: the session is bound to the thread it came from, not to its key.*)
BindWorkspace_ToThread(thread, session, key) ==
    workspaceByThreadId' =
        Put(workspaceByThreadId, session, IF thread = None THEN DefaultKey ELSE thread)

(* executeStartSession records with which key the session and the thread   *)
(* it came from go on.                                                     *)
BindWorkspace(thread, session, key) ==
    workspaceByThreadId' =
        LET bound == Put(workspaceByThreadId, session, key)
        IN  IF thread = None THEN bound ELSE Put(bound, thread, key)

=============================================================================
