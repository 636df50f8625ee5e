----------------------------- MODULE ChatClient -----------------------------
(***************************************************************************)
(* The pages that a user talks to the program through:                     *)
(* project/ui/app/chat/page.tsx and project/ui/app/projects/[id]/page.tsx, *)
(* over the routes of project/ui/app/api and those of the API server.      *)
(*                                                                         *)
(* A conversation has the id of its thread, first a local one and from its *)
(* first task on the id of the session that the server made of it.  Events *)
(* are numbered in the order in which they are emitted.                    *)
(*                                                                         *)
(* A handler and the rendering that follows it are one step.  Titles,      *)
(* unread counts, the layout and the voice input are left out.             *)
(***************************************************************************)
EXTENDS Integers, FiniteSets, SequencesExt

CONSTANTS
  Local,         (* ids that the page gives to new conversations           *)
  Sessions,      (* ids that the server gives to new sessions              *)
  Old,           (* sessions that the project already had                  *)
  None,
  Cap,           (* events that a list keeps: 400 in the code              *)
  Mixes          (* bounds: what may happen in one behaviour, see Kind     *)

(* What is counted: new conversations, questions, changes of followLatest, *)
(* refreshes of the feedback, renamings, events, interrupted streams.      *)
Kind == {"local", "question", "follow", "sync", "rename", "event", "drop"}

Ids    == Local \cup Sessions \cup Old
Kinds  == {"completed", "failed", "other"}

(* The page's own, and any that the API reports, which has other letters.  *)
Status == {"idle", "running", "completed", "failed", "reported"}

ASSUME ChatClientAssumption ==
  /\ Local \cap Sessions = {} /\ (Local \cup Sessions) \cap Old = {}
  /\ IsFiniteSet(Old)
  /\ None \notin Local \cup Sessions \cup Old \cup [status : Status, events : SUBSET Nat]
  /\ Cap \in Nat \ {0}
  /\ Mixes \subseteq [page : {"chat", "project"}, left : [Kind -> Nat]]

VARIABLES
  page,        (* "chat" or "project"                                      *)
  mounted,     (* the page has not been left                               *)
  order,       (* sessionOrder: the conversations of the sidebar           *)
  traces,      (* sessionTraces: per conversation its entry, or None       *)
  active,      (* activeSessionId and its reference                        *)
  follow,      (* followLatest                                             *)
  messages,    (* the messages of all conversations                        *)
  pending,     (* the message that is being answered (isLoading), or None  *)
  syncing,     (* the session whose feedback is being refreshed, or None   *)
  renaming,    (* the conversation that is being renamed, or None          *)
  loading,     (* how far loadProject is, and the sessions it has read     *)
  registered,  (* sourcesRef: per conversation its event source, or 0      *)
  sources,     (* the event sources that were created                      *)
  created,     (* the sessions of the server, the latest first             *)
  events,      (* the events of the server                                 *)
  left         (* per kind, how often it may still happen                  *)

(* What the properties remember.                                           *)
VARIABLES
  root,       (* per id, the conversation that it continues                *)
  gone,       (* conversations deleted, or replaced by loadProject         *)
  brought,    (* conversations that loadProject added                      *)
  split,      (* threads of which loadProject listed an earlier session    *)
  late,       (* sessions of which an event came after a later one         *)
  abandoned   (* the page was left with a request under way                *)

viewVars   == <<order, traces, active, follow, messages>>
askVars    == <<pending, syncing, renaming, loading>>
sourceVars == <<registered, sources>>
serverVars == <<created, events>>
history    == <<root, gone, brought, split, late, abandoned>>
pageVars == <<page, mounted, viewVars, askVars, sourceVars, serverVars, left, history>>

Entry(status, seen) == [status |-> status, events |-> seen]
NewEntry == Entry("idle", {})

EventsOf(s) == { e \in DOMAIN events : events[e].session = s }

PageInit ==
  /\ \E mix \in Mixes : page = mix.page /\ left = mix.left
  /\ mounted = TRUE
  /\ order = <<>> /\ messages = <<>> /\ active = None /\ follow = TRUE
  /\ traces = [c \in Ids |-> None]
  /\ pending = None /\ syncing = None /\ renaming = None
  /\ loading = [stage |-> IF page = "project" THEN "reading" ELSE "over", list |-> <<>>]
  /\ registered = [c \in Ids |-> 0] /\ sources = <<>>
  /\ created = SetToSeq(Old)
  /\ events = [e \in 1 .. Cardinality(Old) |-> [session |-> created[e], kind |-> "completed"]]
  /\ root = [c \in Ids |-> c] /\ gone = {} /\ brought = {} /\ split = {}
  /\ late = {} /\ abandoned = FALSE

Counts(kind) == left[kind] > 0 /\ left' = [left EXCEPT ![kind] = @ - 1]
-----------------------------------------------------------------------------
(* Entries and event sources.                                              *)

(* ensureSessionEntry.                                                     *)
Ensured(entries, c) ==
  IF entries[c] = None THEN [entries EXCEPT ![c] = NewEntry] ELSE entries

(* upsertSessionMeta, of a status.                                         *)
Upserted(entries, c, status) ==
  [Ensured(entries, c) EXCEPT ![c].status = status]

(* migrateSessionId: the entry of c becomes the one of s.                  *)
Migrated(entries, c, s) ==
  LET from == IF entries[c] = None THEN Entry("running", {}) ELSE entries[c]
      to   == IF entries[s] = None THEN from ELSE entries[s]
  IN [entries EXCEPT ![c] = None, ![s] = to]

Closed(list, k) ==
  IF k = 0 THEN list ELSE [list EXCEPT ![k].state = "closed", ![k].coming = {}]

(* ensureSessionStream.  A source is registered until it is closed, even   *)
(* when the server has refused it for good.                                *)
EnsuresStream(s, register, list) ==
  IF register[s] # 0
  THEN registered' = register /\ sources' = list
  ELSE /\ sources' = Append(list, [session |-> s, state |-> "connecting", coming |-> {}])
       /\ registered' = [register EXCEPT ![s] = Len(list) + 1]

Open == { k \in DOMAIN sources : sources[k].state \notin {"closed", "refused"} }
-----------------------------------------------------------------------------
(* What the user does.                                                     *)

(* createLocalSession.                                                     *)
CreateLocalSession(c) ==
  /\ mounted /\ traces[c] = None /\ c \notin gone
  /\ \A s \in Sessions : root[s] # c
  /\ Counts("local")
  /\ traces' = Ensured(traces, c)
  /\ order' = <<c>> \o order
  /\ active' = c /\ follow' = FALSE
  /\ UNCHANGED <<page, mounted, messages, askVars, sourceVars, serverVars, history>>

(* markSessionAsActive, from the sidebar.                                  *)
SelectSession(c) ==
  /\ mounted /\ Contains(order, c) /\ active # c
  /\ active' = c
  /\ UNCHANGED <<page, mounted, order, traces, follow, messages, askVars, sourceVars,
                 serverVars, left, history>>

ToggleFollow ==
  /\ mounted /\ active # None /\ Counts("follow")
  /\ follow' = ~follow
  /\ UNCHANGED <<page, mounted, order, traces, active, messages, askVars, sourceVars,
                 serverVars, history>>

(* What a filter leaves of a list, and the messages of a conversation.     *)
Without(list, removed) ==
  LET rest[n \in 0 .. Len(list)] ==
        IF n = 0 THEN <<>>
        ELSE IF list[n] \in removed THEN rest[n - 1] ELSE Append(rest[n - 1], list[n])
  IN  rest[Len(list)]

Said(c) == { m \in ToSet(messages) : m.conv = c }

(* Mutant: the event source of the conversation is forgotten.              *)
DeleteSessionOnly(c) ==
  /\ mounted /\ Contains(order, c)
  /\ LET remaining == Without(order, {c}) IN
       /\ order' = remaining
       /\ active' = IF active # c THEN active
                    ELSE IF remaining = <<>> THEN None ELSE remaining[1]
  /\ messages' = Without(messages, Said(c))
  /\ traces' = [traces EXCEPT ![c] = None]
  /\ registered' = [registered EXCEPT ![c] = 0]
  /\ UNCHANGED sources
  /\ gone' = gone \cup {c}
  /\ UNCHANGED <<page, mounted, follow, askVars, serverVars, left, root, brought,
                 split, late, abandoned>>

(* deleteSession: from the page; the server is not told.                   *)
DeleteSession(c) ==
  /\ mounted /\ Contains(order, c)
  /\ LET remaining == Without(order, {c}) IN
       /\ order' = remaining
       /\ active' = IF active # c THEN active
                    ELSE IF remaining = <<>> THEN None ELSE remaining[1]
  /\ messages' = Without(messages, Said(c))
  /\ traces' = [traces EXCEPT ![c] = None]
  /\ registered' = [registered EXCEPT ![c] = 0]
  /\ sources' = Closed(sources, registered[c])
  /\ gone' = gone \cup {c}
  /\ UNCHANGED <<page, mounted, follow, askVars, serverVars, left, root, brought,
                 split, late, abandoned>>

(* handleSubmit, up to its fetch.                                          *)
Submit ==
  /\ mounted /\ pending = None /\ active # None /\ Counts("question")
  /\ messages' = Append(messages, [conv |-> active, thread |-> root[active],
                                   about |-> <<"question", left.question>>])
  /\ pending' = [conv |-> active, thread |-> root[active], no |-> left.question, session |-> None]
  /\ UNCHANGED <<page, mounted, order, traces, active, follow, syncing, renaming, loading,
                 sourceVars, serverVars, history>>

(* handleSyncScmFeedback, up to its fetch.                                 *)
SyncScmFeedback ==
  /\ mounted /\ syncing = None /\ active # None /\ Counts("sync")
  /\ syncing' = active
  /\ UNCHANGED <<page, mounted, viewVars, pending, renaming, loading, sourceVars,
                 serverVars, history>>

(* commitRenameSession, up to its fetch; of the entry only the title       *)
(* changes.                                                                *)
CommitRename(c) ==
  /\ mounted /\ renaming = None /\ Contains(order, c) /\ Counts("rename")
  /\ renaming' = c
  /\ UNCHANGED <<page, mounted, viewVars, pending, syncing, loading, sourceVars,
                 serverVars, history>>

(* The page is left: its state goes, its event sources are closed.  What   *)
(* it has asked for will be answered.                                      *)
LeavePage ==
  /\ mounted
  /\ mounted' = FALSE
  /\ order' = <<>> /\ messages' = <<>> /\ active' = None
  /\ traces' = [c \in Ids |-> None]
  /\ registered' = [c \in Ids |-> 0]
  /\ sources' = [k \in DOMAIN sources |->
                   IF k \in Open THEN [sources[k] EXCEPT !.state = "closed", !.coming = {}]
                   ELSE sources[k]]
  /\ abandoned' = (pending # None \/ syncing # None)
  /\ loading' = [loading EXCEPT !.stage = "over"]
  /\ UNCHANGED <<page, follow, pending, syncing, renaming, serverVars, left, root, gone,
                 brought, split, late>>

User ==
  \/ \E c \in Local : CreateLocalSession(c)
  \/ \E c \in Ids : SelectSession(c) \/ DeleteSession(c) \/ CommitRename(c)
  \/ ToggleFollow \/ Submit \/ SyncScmFeedback \/ LeavePage
-----------------------------------------------------------------------------
(* The server.                                                             *)

(* A message becomes a task, each of which has a session of its own.       *)
CreateSession(s) ==
  /\ pending # None /\ pending.session = None /\ ~Contains(created, s)
  /\ created' = <<s>> \o created
  /\ pending' = [pending EXCEPT !.session = s]
  /\ UNCHANGED <<page, mounted, viewVars, syncing, renaming, loading, sourceVars,
                 events, left, history>>

(* An event goes to the streams that have subscribed.                      *)
Emit(s, kind) ==
  /\ Contains(created, s) /\ Counts("event")
  /\ events' = Append(events, [session |-> s, kind |-> kind])
  /\ sources' = [k \in DOMAIN sources |->
                   IF sources[k].session = s /\ sources[k].state = "live"
                   THEN [sources[k] EXCEPT !.coming = @ \cup {Len(events')}] ELSE sources[k]]
  /\ UNCHANGED <<page, mounted, viewVars, askVars, registered, created, history>>

SourceBecomes(k, state, coming) ==
  /\ sources' = [sources EXCEPT ![k].state = state, ![k].coming = coming]
  /\ UNCHANGED <<page, mounted, viewVars, askVars, registered, created, events, history>>

(* The stream begins with the events that the repository lists; what is    *)
(* emitted before it has subscribed is not sent.                           *)
ListStream(k) ==
  /\ sources[k].state = "connecting"
  /\ SourceBecomes(k, "listed", EventsOf(sources[k].session))
  /\ UNCHANGED left

SubscribeStream(k) ==
  /\ sources[k].state = "listed"
  /\ SourceBecomes(k, "live", sources[k].coming)
  /\ UNCHANGED left

(* An answer other than a stream: the browser does not try again.          *)
RefuseStream(k) ==
  /\ sources[k].state = "connecting"
  /\ SourceBecomes(k, "refused", {})
  /\ UNCHANGED left

(* The connection is lost: the browser tries again.                        *)
DropStream(k) ==
  /\ sources[k].state \in {"listed", "live"} /\ Counts("drop")
  /\ SourceBecomes(k, "connecting", {})

ServerActs ==
  \/ \E s \in Sessions : CreateSession(s)
  \/ \E s \in Sessions \cup Old, kind \in Kinds : Emit(s, kind)
  \/ \E k \in DOMAIN sources :
       ListStream(k) \/ SubscribeStream(k) \/ RefuseStream(k) \/ DropStream(k)
-----------------------------------------------------------------------------
(* What the page makes of an event: onEvent.                               *)

(* Mutant: the first word stands.                                          *)
StatusOfFirstWord(kind, current) ==
  IF current \in {"completed", "failed"} THEN current
  ELSE IF kind \in {"completed", "failed"} THEN kind ELSE "running"

(* toSessionStatusFromEvent.                                               *)
StatusFromEvent(kind, current) ==
  IF kind \in {"completed", "failed"} THEN kind
  ELSE IF current \in {"completed", "failed"} THEN current ELSE "running"

(* The latest Cap events.                                                  *)
Capped(seen) == { e \in seen : Cardinality({ d \in seen : d >= e }) <= Cap }

(* Mutant: what a new connection brings again is not recognised.           *)
IsThere(c, e) == traces[c] # None

IsNews(c, e) == traces[c] # None /\ e \notin traces[c].events

(* Only the chat page tells of it, of the conversation that is looked at.  *)
Tellings(s, e) ==
  IF page = "chat" /\ active = s /\ events[e].kind # "other"
  THEN <<[conv |-> s, thread |-> root[s], about |-> <<"event", e>>]>>
  ELSE <<>>

Deliver(k) ==
  /\ mounted /\ k \in Open /\ sources[k].coming # {}
  /\ LET s == sources[k].session
         e == Min(sources[k].coming)
     IN /\ sources' = [sources EXCEPT ![k].coming = @ \ {e}]
        /\ IF IsNews(s, e)
           THEN /\ traces' = [traces EXCEPT
                     ![s].status = StatusFromEvent(events[e].kind, @),
                     ![s].events = Capped(@ \cup {e})]
                /\ messages' = messages \o Tellings(s, e)
                /\ late' = IF \E d \in traces[s].events \cap EventsOf(s) : d > e
                           THEN late \cup {s} ELSE late
           ELSE UNCHANGED <<traces, messages, late>>
  /\ UNCHANGED <<page, mounted, order, active, follow, askVars, registered, serverVars,
                 left, root, gone, brought, split, abandoned>>
-----------------------------------------------------------------------------
(* What the page makes of the answers.                                     *)

(* Mutant: only the question goes with the session.                        *)
RelinkedQuestion(list, c, s) ==
  [m \in DOMAIN list |->
     IF list[m].about = <<"question", pending.no>> THEN [list[m] EXCEPT !.conv = s]
     ELSE list[m]]

Relinked(list, c, s) ==
  [m \in DOMAIN list |-> IF list[m].conv = c THEN [list[m] EXCEPT !.conv = s] ELSE list[m]]

Answered == pending' = None /\ UNCHANGED <<syncing, renaming, loading, left>>

Answer(c) == [conv |-> c, thread |-> pending.thread, about |-> <<"answer", pending.no>>]

(* A task: the conversation becomes the one of its session, moves to the   *)
(* top and is followed by an event source.                                 *)
AnswerTask ==
  /\ mounted /\ pending # None /\ pending.session # None
  /\ LET c == pending.conv
         s == pending.session
     IN /\ traces' = Upserted(Migrated(traces, c, s), s, "reported")
        /\ order' = <<s>> \o Without(order, {c, s})
        /\ messages' = Append(Relinked(messages, c, s), Answer(s))
        /\ active' = IF active = c \/ active = None \/ follow THEN s ELSE active
        /\ EnsuresStream(s, [registered EXCEPT ![c] = 0], Closed(sources, registered[c]))
        /\ root' = [root EXCEPT ![s] = pending.thread]
  /\ Answered
  /\ UNCHANGED <<page, mounted, follow, serverVars, gone, brought, split, late, abandoned>>

(* A reply in words, or questions.                                         *)
AnswerInWords ==
  /\ mounted /\ pending # None /\ pending.session = None
  /\ messages' = Append(messages, Answer(pending.conv))
  /\ traces' = Upserted(traces, pending.conv, "idle")
  /\ Answered
  /\ UNCHANGED <<page, mounted, order, active, follow, sourceVars, serverVars, history>>

(* The error belongs to no conversation, so that nobody sees it.           *)
AnswerFails ==
  /\ pending # None
  /\ Answered
  /\ UNCHANGED <<page, mounted, viewVars, sourceVars, serverVars, history>>

(* The answer to a page that was left: nothing of it is still there.       *)
AnswerTooLate ==
  /\ ~mounted /\ pending # None
  /\ IF pending.session = None THEN UNCHANGED sourceVars
     ELSE EnsuresStream(pending.session, registered, sources)
  /\ Answered
  /\ UNCHANGED <<page, mounted, viewVars, serverVars, history>>

Synced == syncing' = None /\ UNCHANGED <<pending, renaming, loading, left>>

SyncBringsFeedback ==
  /\ Contains(created, syncing)
  /\ EnsuresStream(syncing, registered, sources)
  /\ traces' = IF mounted /\ registered[syncing] = 0 THEN Ensured(traces, syncing) ELSE traces
  /\ Synced
  /\ UNCHANGED <<page, mounted, order, active, follow, messages, serverVars, history>>

SyncBringsNothing ==
  /\ syncing # None
  /\ Synced
  /\ UNCHANGED <<page, mounted, viewVars, sourceVars, serverVars, history>>

RenameEnds ==
  /\ renaming # None
  /\ renaming' = None
  /\ \/ UNCHANGED traces                                        (* accepted *)
     \/ mounted /\ traces' = Ensured(traces, renaming)     (* and rolled back *)
  /\ UNCHANGED <<page, mounted, order, active, follow, messages, pending, syncing,
                 loading, sourceVars, serverVars, left, history>>

(* loadProject: the server lists the sessions of the project ...           *)
ReadProject ==
  /\ loading.stage = "reading"
  /\ loading' = [stage |-> "read", list |-> created]
  /\ UNCHANGED <<page, mounted, viewVars, pending, syncing, renaming, sourceVars,
                 serverVars, left, history>>

(* ... and the page puts them in the place of those it has.                *)
LoadProject ==
  /\ loading.stage = "read"
  /\ loading' = [loading EXCEPT !.stage = "over"]
  /\ LET listed == ToSet(loading.list) IN
       IF listed = {} THEN UNCHANGED <<order, traces, active, gone, brought, split>>
       ELSE /\ order' = loading.list
            /\ traces' = [c \in Ids |-> IF c \in listed THEN Entry("reported", {}) ELSE traces[c]]
            /\ active' = IF active = None THEN loading.list[1] ELSE active
            /\ gone' = gone \cup (ToSet(order) \ listed)
            /\ brought' = brought \cup (listed \ ToSet(order))
            /\ split' = split \cup { root[s] : s \in { d \in listed \ ToSet(order) : root[d] # d } }
  /\ UNCHANGED <<page, mounted, follow, messages, pending, syncing, renaming, sourceVars,
                 serverVars, left, root, late, abandoned>>

Answers ==
  \/ AnswerTask \/ AnswerInWords \/ AnswerFails \/ AnswerTooLate
  \/ SyncBringsFeedback \/ SyncBringsNothing \/ RenameEnds
  \/ ReadProject \/ LoadProject
-----------------------------------------------------------------------------
PageNext == User \/ ServerActs \/ Answers \/ \E k \in DOMAIN sources : Deliver(k)

PageSpec == PageInit /\ [][PageNext]_pageVars
-----------------------------------------------------------------------------
(* Properties.                                                             *)

(* What was said in one conversation stays in one conversation, whatever   *)
(* sessions it goes through and whoever looks at what meanwhile, unless    *)
(* loadProject has listed a session that it had left; and it can be found  *)
(* in the sidebar unless the user deleted it or loadProject replaced the   *)
(* list it was in.                                                         *)
ConversationsHoldTogether ==
  /\ \A m, n \in DOMAIN messages :
       messages[m].thread = messages[n].thread /\ messages[m].thread \notin split
         => messages[m].conv = messages[n].conv
  /\ \A m \in DOMAIN messages :
       Contains(order, messages[m].conv) \/ messages[m].conv \in gone

(* The event sources of the page are those it knows of, one per session,   *)
(* so that it can close them: none is left behind by a conversation that   *)
(* moved on or was deleted.  A page that has been left has none, unless a  *)
(* request was under way.  Every conversation that a task was accepted in  *)
(* has one; loadProject brings conversations without.                      *)
StreamsMatchSessions ==
  /\ mounted =>
       /\ Open \subseteq { registered[s] : s \in Ids }
       /\ \A s \in Sessions : root[s] # s /\ Contains(order, s) /\ s \notin brought => registered[s] # 0
  /\ ~mounted /\ ~abandoned => Open = {}

(* However often a stream is connected again and the events come anew, the *)
(* end or the failure of a task is told once, unless the conversation has  *)
(* had more events than the list of its entry keeps.                       *)
TellsOnce ==
  \A m, n \in DOMAIN messages :
    /\ m # n
    /\ messages[m].about[1] = "event"
    /\ messages[m].about = messages[n].about
    => Cardinality({ e \in DOMAIN events : root[events[e].session] = messages[m].thread }) > Cap

(* A session that is shown as completed, or failed, is so by the last word *)
(* among its events, a success after a failure included, unless events     *)
(* that the stream had missed came after later ones.                       *)
StatusIsTheLastWord ==
  \A s \in Sessions \cup Old :
    /\ traces[s] # None /\ traces[s].status \in {"completed", "failed"}
    /\ s \notin late
    => LET words == { e \in traces[s].events \cap EventsOf(s) : events[e].kind # "other" }
       IN words # {} => events[Max(words)].kind = traces[s].status
=============================================================================
