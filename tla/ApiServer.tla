----------------------------- MODULE ApiServer ------------------------------
(***************************************************************************)
(* The requests of the HTTP API that change state (api/server.ts), each an *)
(* asynchronous handler in one process: between two awaits of one handler  *)
(* any other handler may run, and so may the orchestrator, in a process of *)
(* its own.  A slot of `req` holds a request, `at` the await it is at.     *)
(* Every await may reject (Fail), which ends the request with an error,    *)
(* and the API may restart (Restart), which loses the requests, the drafts *)
(* and the workspaces of the threads.  Requests that only read are left    *)
(* out; the SCM synchronisation is in ScmWebhook.                          *)
(***************************************************************************)
EXTENDS SessionStore, Accounts, Intake

CONSTANTS Registered,          \* the users the database starts with, logged in
          Slots,               \* requests handled at the same time
          Mixes                \* bound: how much of each kind a behaviour has, see Kinds

(* Four kinds of requests, updates by the orchestrator, and faults.       *)
Kinds == {"account", "project", "session", "message", "update", "fault"}

ASSUME ApiServerAssumption ==
    /\ Registered \in Seq(People) /\ Mixes \subseteq [Kinds -> Nat]
    /\ None \notin Nat \cup Repos \cup Threads \cup {DefaultKey}
    /\ Threads \cap Nat = {}

VARIABLES req,                 \* slot -> the request in it
          orch,                \* the session update the orchestrator is at
          announced,           \* sessions with a SESSION_STARTED
          visits,              \* sessions the session queue was given
          left,                \* what is left of the behaviour's mix
          arrived,             \* number of requests so far
          cut,                 \* history: sessions whose start was cut short
          raced,               \* history: sessions with overlapping updates
          forgotten,           \* history: sessions older than the last restart
          intended             \* history: the rows, each patch applied in turn

outVars  == <<orch, announced, visits>>
bounds   == <<left, arrived>>
histVars == <<cut, raced, forgotten, intended>>
vars == <<sessions, accountVars, intakeVars, req, outVars, bounds, histVars>>

Idle == [at |-> "idle"]
At(r, point)     == req[r].at = point
Go(r, next)      == req' = [req EXCEPT ![r] = next]
Step(r, point)   == Go(r, [req[r] EXCEPT !.at = point])
Finish(r)        == Go(r, Idle)
Spend(kind)      == left[kind] > 0 /\ left' = [left EXCEPT ![kind] = @ - 1]

(* A request arrives, and is named by its number.                          *)
Number == arrived + 1
Arrives(r, kind) == At(r, "idle") /\ Spend(kind) /\ arrived' = Number

(* An update is open from its first read to its write.                     *)
UpdatingNow(s) ==
    \/ \E r \in Slots : /\ req[r].at \in {"updateTitle", "writeTitle", "writeStarted"}
                        /\ req[r].session = s
    \/ orch.at = "write" /\ orch.session = s
Open(s) == raced' = IF UpdatingNow(s) THEN raced \cup {s} ELSE raced
Intend(s, change) ==
    intended' = [intended EXCEPT ![s] = IF s \in raced THEN sessions'[s] ELSE Patched(@, change)]

-----------------------------------------------------------------------------
(* Accounts and projects.                                                  *)

(* POST /auth/register: look the e-mail up, hash the password ...          *)
Register(r, person) ==
    /\ Arrives(r, "account")
    /\ UsersWithEmail(person) = {}
    /\ Go(r, [at |-> "hash", person |-> person])
    /\ UNCHANGED <<sessions, accountVars, intakeVars, outVars, histVars>>

(* ... insert the user, or fail if the e-mail was taken in the meantime,   *)
(* and log in; a failure in between is a user who has yet to log in.       *)
CreateUser(r) ==
    /\ At(r, "hash")
    /\ IF MayInsertUser(req[r].person)
       THEN InsertUser(req[r].person) /\ (IssueToken(Len(users) + 1) \/ UNCHANGED tokens)
       ELSE UNCHANGED <<users, tokens>>
    /\ Finish(r)
    /\ UNCHANGED <<sessions, projects, intakeVars, outVars, bounds, histVars>>

(* POST /auth/login with the right password; a wrong one changes nothing.  *)
Login(r, person) ==
    /\ Arrives(r, "account")
    /\ \E u \in UsersWithEmail(person) : IssueToken(u)
    /\ UNCHANGED <<sessions, users, projects, intakeVars, req, outVars, histVars>>

(* POST /auth/logout, or the token's time is up.                           *)
Logout(t) ==
    /\ tokens[t].live
    /\ Revoke(t)
    /\ UNCHANGED <<sessions, users, projects, intakeVars, req, outVars, bounds, histVars>>

(* authenticateRequest, the first await of every other request.            *)
Authorised(r, kind, user) ==
    /\ Arrives(r, kind)
    /\ \E t \in TokenIds : Authenticates(t, user)

(* POST, PATCH and DELETE /projects: one write; whose a project is, which  *)
(* they read before, never changes.                                        *)
PostProject(r, user, repo) ==
    /\ Authorised(r, "project", user)
    /\ InsertProject(user, repo)
    /\ UNCHANGED <<sessions, users, tokens, intakeVars, req, outVars, histVars>>

PatchProject(r, user, p, repo) ==
    /\ Authorised(r, "project", user)
    /\ p \in OwnProjects(user)
    /\ projects' = [projects EXCEPT ![p].repo = repo]
    /\ UNCHANGED <<sessions, users, tokens, intakeVars, req, outVars, histVars>>

DeleteProject(r, user, p) ==
    /\ Authorised(r, "project", user)
    /\ p \in OwnProjects(user)
    /\ projects' = [projects EXCEPT ![p].deleted = TRUE]
    /\ UNCHANGED <<sessions, users, tokens, intakeVars, req, outVars, histVars>>

(* resolveProjectForRequest: the project the request names, if it is the   *)
(* user's; else the newest with the repository, or, without one, of all;   *)
(* else a new one, which is a write of its own.  The reads change nothing  *)
(* and follow the request's arrival at once.                               *)
ProjectFor(user, projectId, repo) ==
    LET fitting == {p \in OwnProjects(user) : repo \in {None, projects[p].repo}}
    IN  IF projectId \in OwnProjects(user) THEN projectId
        ELSE IF fitting # {} THEN Newest(fitting)
        ELSE None

Resolving(next, user, projectId, repo) ==
    LET project == ProjectFor(user, projectId, repo)
    IN  [at |-> IF project = None THEN "newProject" ELSE next, next |-> next,
         user |-> user, project |-> project, repo |-> repo, number |-> Number]

NewProject(r) ==
    /\ At(r, "newProject")
    /\ InsertProject(req[r].user, IF req[r].repo = None THEN Blank ELSE req[r].repo)
    /\ Go(r, [req[r] EXCEPT !.at = req[r].next, !.project = Len(projects) + 1])
    /\ UNCHANGED <<sessions, users, tokens, intakeVars, outVars, bounds, histVars>>

-----------------------------------------------------------------------------
(* Sessions.                                                               *)

(* POST /sessions.                                                         *)
PostSession(r, user, projectId, repo, autoStart) ==
    /\ Authorised(r, "session", user)
    /\ Go(r, With(Resolving("create", user, projectId, repo),
                  [thread |-> None, key |-> None, autoStart |-> autoStart]))
    /\ UNCHANGED <<sessions, accountVars, intakeVars, outVars, histVars>>

(* createSession, and in the intake what follows it up to the next await;  *)
(* a request without a key is one of POST /sessions.                       *)
CreateSession(r) ==
    /\ At(r, "create")
    /\ InsertRow(req[r].user, req[r].project, req[r].number, req[r].key)
    /\ intended' = sessions'
    /\ IF req[r].key = None THEN UNCHANGED intakeVars
       ELSE /\ BindWorkspace(req[r].thread, Len(sessions) + 1, req[r].key)
            /\ UNCHANGED pendingByThreadId
    /\ IF req[r].autoStart
       THEN Go(r, [at |-> "start", session |-> Len(sessions) + 1,
                   next |-> IF req[r].key = None THEN "enqueue" ELSE "view"])
       ELSE Finish(r)
    /\ UNCHANGED <<accountVars, outVars, bounds, cut, raced, forgotten>>

(* POST /sessions/:id/start.                                               *)
PostStart(r, user, s) ==
    /\ Authorised(r, "session", user)
    /\ Go(r, [at |-> "start", session |-> s, next |-> "enqueue"])
    /\ UNCHANGED <<sessions, accountVars, intakeVars, outVars, histVars>>

(* Mutant: nothing either for a session that runs already.                 *)
StartSession_NotRunning(r) ==
    /\ At(r, "start")
    /\ Step(r, IF sessions[req[r].session].status = "CREATED" THEN "update" ELSE req[r].next)
    /\ UNCHANGED <<sessions, accountVars, intakeVars, outVars, bounds, histVars>>

(* startSession: nothing for a completed session; else set RUNNING, with   *)
(* the read and the write of the repository apart, and emit.               *)
StartSession(r) ==
    /\ At(r, "start")
    /\ Step(r, IF sessions[req[r].session].status = "COMPLETED" THEN req[r].next ELSE "update")
    /\ UNCHANGED <<sessions, accountVars, intakeVars, outVars, bounds, histVars>>

ReadStarted(r) ==
    /\ At(r, "update")
    /\ Open(req[r].session)
    /\ Go(r, With([req[r] EXCEPT !.at = "writeStarted"], [row |-> sessions[req[r].session]]))
    /\ UNCHANGED <<sessions, accountVars, intakeVars, outVars, bounds, cut, forgotten, intended>>

WriteStarted(r) ==
    /\ At(r, "writeStarted")
    /\ WriteRow(req[r].session, Patched(req[r].row, [status |-> "RUNNING"]))
    /\ Intend(req[r].session, [status |-> "RUNNING"])
    /\ Go(r, [at |-> "emit", session |-> req[r].session, next |-> req[r].next])
    /\ UNCHANGED <<accountVars, intakeVars, outVars, bounds, cut, raced, forgotten>>

EmitStarted(r) ==
    /\ At(r, "emit")
    /\ announced' = announced \cup {req[r].session}
    /\ Step(r, req[r].next)
    /\ UNCHANGED <<sessions, accountVars, intakeVars, orch, visits, bounds, histVars>>

(* The intake answers with the session's status, and the handler gives the *)
(* session to a worker only if that is RUNNING.                            *)
ViewStarted(r) ==
    /\ At(r, "view")
    /\ IF sessions[req[r].session].status = "RUNNING" THEN Step(r, "enqueue") ELSE Finish(r)
    /\ UNCHANGED <<sessions, accountVars, intakeVars, outVars, bounds, histVars>>

EnqueueVisit(r) ==
    /\ At(r, "enqueue")
    /\ visits' = visits \cup {req[r].session}
    /\ Finish(r)
    /\ UNCHANGED <<sessions, accountVars, intakeVars, orch, announced, bounds, histVars>>

(* PATCH /sessions/:id: renameSession reads the context, then the          *)
(* repository reads the row and writes it back with that context.          *)
PatchSession(r, user, s) ==
    /\ Authorised(r, "session", user)
    /\ Open(s)
    /\ Go(r, [at |-> "updateTitle", session |-> s,
              patch |-> [ContextOf(sessions[s]) EXCEPT !.title = Number]])
    /\ UNCHANGED <<sessions, accountVars, intakeVars, outVars, cut, forgotten, intended>>

ReadRenamed(r) ==
    /\ At(r, "updateTitle")
    /\ Go(r, With([req[r] EXCEPT !.at = "writeTitle"], [row |-> sessions[req[r].session]]))
    /\ UNCHANGED <<sessions, accountVars, intakeVars, outVars, bounds, histVars>>

WriteRenamed(r) ==
    /\ At(r, "writeTitle")
    /\ WriteRow(req[r].session, Patched(req[r].row, req[r].patch))
    /\ Intend(req[r].session, [title |-> req[r].patch.title])
    /\ Finish(r)
    /\ UNCHANGED <<accountVars, intakeVars, outVars, bounds, cut, raced, forgotten>>

-----------------------------------------------------------------------------
(* POST /intake/requests.  No client sends the repository in the body.     *)

PostMessage(r, user, thread, projectId) ==
    /\ Authorised(r, "message", user)
    /\ Go(r, With(Resolving("message", user, projectId, None), [thread |-> thread]))
    /\ UNCHANGED <<sessions, accountVars, intakeVars, outVars, histVars>>

(* executeStartSession is reached with a complete request.                 *)
Executing(r, key, request) ==
    Go(r, [at |-> "create", user |-> req[r].user, project |-> req[r].project,
           number |-> request.number, thread |-> req[r].thread, key |-> key,
           autoStart |-> request.autoStart])

(* handleMessage up to its first await: an answer to the draft, if the     *)
(* thread has one, whatever the message says; else the model is asked.     *)
HandleMessage(r, answer) ==
    LET key == ThreadKey(req[r].thread)
    IN  /\ At(r, "message")
        /\ IF HasDraft(key)
           THEN LET updated == Answered(pendingByThreadId[key], answer)
                IN  IF IsComplete(updated)
                    THEN DiscardDraft(key) /\ Executing(r, key, updated)
                    ELSE KeepDraft(key, updated) /\ Finish(r)
           ELSE /\ Go(r, With([req[r] EXCEPT !.at = "parse"], [key |-> key]))
                /\ UNCHANGED pendingByThreadId
        /\ UNCHANGED <<sessions, accountVars, workspaceByThreadId, outVars, bounds, histVars>>

(* What handleMessage does with the model's request.                       *)
HandleRequest(r, request) ==
    /\ At(r, "parse")
    /\ IF request.action # "START_SESSION" THEN Finish(r) /\ UNCHANGED pendingByThreadId
       ELSE LET draft == [repo |-> request.repo, autoStart |-> request.autoStart,
                          number |-> req[r].number]
            IN  IF IsComplete(request)
                THEN Executing(r, req[r].key, draft) /\ UNCHANGED pendingByThreadId
                ELSE KeepDraft(req[r].key, draft) /\ Finish(r)
    /\ UNCHANGED <<sessions, accountVars, workspaceByThreadId, outVars, bounds, histVars>>

-----------------------------------------------------------------------------
(* The orchestrator, as far as it writes rows: a status, or the pull       *)
(* request, with the context it has read.  A session completes only after  *)
(* a worker's visit.                                                       *)
OrchestratorReads(s) ==
    /\ orch = Idle /\ s \in announced
    /\ Spend("update")
    /\ Open(s)
    /\ \E patch \in {[status |-> "FAILED"], [ContextOf(sessions[s]) EXCEPT !.pr = "pr"]}
                    \cup (IF s \in visits THEN {[status |-> "COMPLETED"]} ELSE {}) :
         orch' = [at |-> "write", session |-> s, row |-> sessions[s], patch |-> patch]
    /\ UNCHANGED <<sessions, accountVars, intakeVars, req, announced, visits, arrived, cut, forgotten, intended>>

OrchestratorWrites ==
    /\ orch.at = "write"
    /\ WriteRow(orch.session, Patched(orch.row, orch.patch))
    /\ Intend(orch.session, IF "pr" \in DOMAIN orch.patch THEN [pr |-> "pr"] ELSE orch.patch)
    /\ orch' = Idle
    /\ UNCHANGED <<accountVars, intakeVars, req, announced, visits, bounds, cut, raced, forgotten>>

-----------------------------------------------------------------------------
(* Faults.                                                                 *)
StartsNow(r) == IF req[r].at \in {"emit", "view", "enqueue"} THEN {req[r].session} ELSE {}

(* An await of the handler rejects.  Before the handler has changed        *)
(* anything that is a request that never came, and is left out.            *)
Fail(r) ==
    /\ req[r].at \in {"create", "start", "update", "writeStarted", "emit", "view", "enqueue"}
    /\ Spend("fault")
    /\ Finish(r)
    /\ cut' = cut \cup StartsNow(r)
    /\ UNCHANGED <<sessions, accountVars, intakeVars, outVars, arrived, raced, forgotten, intended>>

(* The API process stops and starts again.                                 *)
Restart ==
    /\ <<req, intakeVars>> # <<[r \in Slots |-> Idle], <<>>, <<>>>>
    /\ Spend("fault")
    /\ req' = [r \in Slots |-> Idle]
    /\ pendingByThreadId' = <<>> /\ workspaceByThreadId' = <<>>
    /\ cut' = cut \cup UNION {StartsNow(r) : r \in Slots}
    /\ forgotten' = SessionIds
    /\ UNCHANGED <<sessions, accountVars, outVars, arrived, raced, intended>>

-----------------------------------------------------------------------------
Init ==
    /\ users = Registered
    /\ tokens = [u \in DOMAIN Registered |-> [user |-> u, live |-> TRUE]]
    /\ sessions = <<>> /\ projects = <<>>
    /\ pendingByThreadId = <<>> /\ workspaceByThreadId = <<>>
    /\ req = [r \in Slots |-> Idle] /\ orch = Idle
    /\ announced = {} /\ visits = {}
    /\ left \in Mixes /\ arrived = 0
    /\ cut = {} /\ raced = {} /\ forgotten = {} /\ intended = <<>>

AccountRequest(r) ==
    \/ \E person \in People : Register(r, person) \/ Login(r, person)
    \/ CreateUser(r)

ProjectRequest(r, user) ==
    \/ \E repo \in Repos : PostProject(r, user, repo)
    \/ \E p \in ProjectIds, repo \in Repos : PatchProject(r, user, p, repo)
    \/ \E p \in ProjectIds : DeleteProject(r, user, p)

SessionRequest(r, user) ==
    \/ \E p \in ProjectIds \cup {None}, repo \in Repos \cup {None}, autoStart \in BOOLEAN :
         PostSession(r, user, p, repo, autoStart)
    \/ \E p \in ProjectIds \cup {None}, thread \in Threads \cup SessionIds \cup {None} :
         PostMessage(r, user, thread, p)
    \/ \E s \in SessionIds : PostStart(r, user, s) \/ PatchSession(r, user, s)

HandlerStep(r) ==
    \/ NewProject(r)
    \/ CreateSession(r)
    \/ StartSession(r) \/ ReadStarted(r) \/ WriteStarted(r)
    \/ EmitStarted(r) \/ ViewStarted(r) \/ EnqueueVisit(r)
    \/ ReadRenamed(r) \/ WriteRenamed(r)
    \/ \E answer \in Repos \cup {None} : HandleMessage(r, answer)
    \/ \E request \in ParsedRequests : HandleRequest(r, request)

Orchestrator ==
    \/ \E s \in SessionIds : OrchestratorReads(s)
    \/ OrchestratorWrites

Next ==
    \/ \E r \in Slots :
         \/ AccountRequest(r) \/ HandlerStep(r) \/ Fail(r)
         \/ \E user \in UserIds : ProjectRequest(r, user) \/ SessionRequest(r, user)
    \/ \E t \in TokenIds : Logout(t)
    \/ Orchestrator
    \/ Restart

Spec == Init /\ [][Next]_vars

-----------------------------------------------------------------------------
(* Properties.                                                             *)

(* A message becomes at most one session, however many messages complete   *)
(* its draft at the same time; and the session belongs to a user who owns  *)
(* its project, also when two users write on one thread and one completes  *)
(* the other's draft, or a project is deleted on the way                   *)
(* (server.ts:132-167, user-intake-service.ts:39-61, 323-338).             *)
OneSessionPerMessage ==
    /\ \A s, q \in SessionIds : sessions[s].goal = sessions[q].goal => s = q
    /\ \A s \in SessionIds : projects[sessions[s].project].user = sessions[s].user

(* A row loses what was written to it only when two updates of the session *)
(* overlapped (session-service.ts:132-153, the repositories' update).      *)
RecordsSurvive == \A s \in SessionIds \ raced : sessions[s] = intended[s]

(* A session set RUNNING is announced and given to a worker, unless the    *)
(* request that started it is still on its way or was cut short; and a     *)
(* worker is never sent to a session nobody announced (server.ts:330-352,  *)
(* 382-392, 398-420, session-service.ts:63-83).                            *)
StartIsWhole ==
    /\ visits \subseteq announced
    /\ \A s \in SessionIds \ (cut \cup raced) :
         sessions[s].status = "RUNNING" =>
            s \in visits \/ \E r \in Slots : s \in StartsNow(r)

(* A message sent to a session of the intake goes on in that session's     *)
(* workspace, as long as the API has not restarted                         *)
(* (user-intake-service.ts:150-162, 228-232).                              *)
ThreadKeepsWorkspace ==
    \A s \in SessionIds \ forgotten :
        sessions[s].workspace # None => ThreadKey(s) = sessions[s].workspace

=============================================================================
