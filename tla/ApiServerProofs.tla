-------------------------- MODULE ApiServerProofs ---------------------------
(***************************************************************************)
(* Theorems about ApiServer, for any slots, mixes, users and threads: a    *)
(* message becomes one session at most and its owner is right, an update   *)
(* is lost only where two overlap, a start is whole unless it was cut, and *)
(* a thread keeps its workspace.                                           *)
(*                                                                         *)
(* The inductive invariant says of every request, at each await, what it   *)
(* has read and how that is against the rows now (Owning, Updating,        *)
(* Starting, Threading), and that the number of a message is in one place  *)
(* on its way from the request over the draft to the row (Numbered).       *)
(***************************************************************************)
EXTENDS ApiServer, Integers, SequenceTheorems, WellFoundedInduction, TLAPS

Statuses == {"CREATED", "RUNNING", "COMPLETED", "FAILED"}

Keys == Threads \cup Nat \cup {DefaultKey}

Rows == [user : Nat, project : Nat, goal : Nat, status : Statuses,
         title : Nat \cup {None}, pr : {"pr", None}, workspace : Keys \cup {None}]

Contexts == [title : Nat \cup {None}, pr : {"pr", None}, workspace : Keys \cup {None}]

Drafts == [repo : Repos \cup {None}, autoStart : BOOLEAN, number : Nat]

(* A request at each of its awaits.                                        *)
Hashing  == [at : {"hash"}, person : People]
Posted   == [at : {"newProject", "create"}, next : {"create"}, user : Nat,
             project : Nat \cup {None}, repo : Repos \cup {None}, number : Nat,
             thread : {None}, key : {None}, autoStart : BOOLEAN]
Message  == [at : {"newProject", "message"}, next : {"message"}, user : Nat,
             project : Nat \cup {None}, repo : Repos \cup {None}, number : Nat,
             thread : Threads \cup Nat \cup {None}]
Asking   == [at : {"parse"}, next : {"message"}, user : Nat,
             project : Nat \cup {None}, repo : Repos \cup {None}, number : Nat,
             thread : Threads \cup Nat \cup {None}, key : Keys]
Complete == [at : {"create"}, user : Nat, project : Nat \cup {None}, number : Nat,
             thread : Threads \cup Nat \cup {None}, key : Keys, autoStart : BOOLEAN]
Begun    == [at : {"start", "update", "emit", "view", "enqueue"}, session : Nat,
             next : {"enqueue", "view"}]
Begins   == [at : {"writeStarted"}, session : Nat, next : {"enqueue", "view"}, row : Rows]
Renames  == [at : {"updateTitle"}, session : Nat, patch : Contexts]
Renamed  == [at : {"writeTitle"}, session : Nat, patch : Contexts, row : Rows]

AllRequests == {Idle} \cup Hashing \cup Posted \cup Message \cup Asking \cup Complete
                 \cup Begun \cup Begins \cup Renames \cup Renamed

StatusUpdates == [at : {"write"}, session : Nat, row : Rows,
                  patch : [status : {"FAILED", "COMPLETED"}]]
PrUpdates     == [at : {"write"}, session : Nat, row : Rows, patch : Contexts]

TypeOK ==
  /\ users \in Seq(People)
  /\ tokens \in Seq([user : Nat, live : BOOLEAN])
  /\ projects \in Seq([user : Nat, repo : Repos \cup {Blank}, deleted : BOOLEAN])
  /\ sessions \in Seq(Rows)
  /\ intended \in Seq(Rows) /\ Len(intended) = Len(sessions)
  /\ DOMAIN pendingByThreadId \subseteq Keys
  /\ \A k \in DOMAIN pendingByThreadId : pendingByThreadId[k] \in Drafts
  /\ DOMAIN workspaceByThreadId \subseteq Threads \cup Nat
  /\ \A k \in DOMAIN workspaceByThreadId : workspaceByThreadId[k] \in Keys
  /\ req \in [Slots -> AllRequests]
  /\ orch \in {Idle} \cup StatusUpdates \cup PrUpdates
  /\ announced \subseteq SessionIds
  /\ left \in [Kinds -> Nat] /\ arrived \in Nat

(* The awaits of a request about a message or a session to be.             *)
Carries(r) == req[r].at \in {"newProject", "message", "parse", "create"}

(* The awaits of a request about a session there is.                       *)
Serves(r) == req[r].at \in {"start", "update", "writeStarted", "emit", "view", "enqueue",
                            "updateTitle", "writeTitle"}

Writes(r) == req[r].at \in {"writeStarted", "writeTitle"}

(* What belongs to whom: the project of a request that has one, and of a   *)
(* session, is its user's.                                                 *)
Owning ==
  /\ \A r \in Slots : req[r].at \in {"message", "parse", "create"} =>
       /\ req[r].project \in ProjectIds
       /\ projects[req[r].project].user = req[r].user
  /\ \A s \in SessionIds : /\ sessions[s].project \in ProjectIds
                           /\ projects[sessions[s].project].user = sessions[s].user

(* Each number is in one place: a request, a draft or a row.               *)
Numbered ==
  /\ \A r \in Slots : Carries(r) => req[r].number <= arrived
  /\ \A k \in DOMAIN pendingByThreadId : pendingByThreadId[k].number <= arrived
  /\ \A s \in SessionIds : sessions[s].goal <= arrived
  /\ \A r, q \in Slots : Carries(r) /\ Carries(q) /\ req[r].number = req[q].number => r = q
  /\ \A k, l \in DOMAIN pendingByThreadId :
       pendingByThreadId[k].number = pendingByThreadId[l].number => k = l
  /\ \A s, q \in SessionIds : sessions[s].goal = sessions[q].goal => s = q
  /\ \A r \in Slots : Carries(r) =>
       /\ \A k \in DOMAIN pendingByThreadId : pendingByThreadId[k].number # req[r].number
       /\ \A s \in SessionIds : sessions[s].goal # req[r].number
  /\ \A k \in DOMAIN pendingByThreadId, s \in SessionIds :
       pendingByThreadId[k].number # sessions[s].goal

(* A row that was read is the session's, but for what may be updated.      *)
SameSession(row, s) ==
  /\ row.user = sessions[s].user /\ row.project = sessions[s].project
  /\ row.goal = sessions[s].goal /\ row.workspace = sessions[s].workspace

InUpdate(r, s) == req[r].at \in {"updateTitle", "writeTitle", "writeStarted"} /\ req[r].session = s

(* Updates of a session that has not been raced do not overlap, and write  *)
(* back what is there.                                                     *)
Updating ==
  /\ \A r \in Slots : Serves(r) => req[r].session \in SessionIds
  /\ orch.at = "write" => orch.session \in SessionIds
  /\ \A r, q \in Slots, s \in SessionIds \ raced : InUpdate(r, s) /\ InUpdate(q, s) => r = q
  /\ \A r \in Slots, s \in SessionIds \ raced : InUpdate(r, s) => ~(orch.at = "write" /\ orch.session = s)
  /\ \A r \in Slots : Writes(r) =>
       /\ SameSession(req[r].row, req[r].session)
       /\ req[r].session \notin raced => req[r].row = sessions[req[r].session]
  /\ \A r \in Slots : req[r].at \in {"updateTitle", "writeTitle"} =>
       /\ req[r].patch.workspace = sessions[req[r].session].workspace
       /\ req[r].session \notin raced => req[r].patch.pr = sessions[req[r].session].pr
  /\ orch.at = "write" =>
       /\ SameSession(orch.row, orch.session)
       /\ orch.session \notin raced => orch.row = sessions[orch.session]
       /\ orch.patch \in Contexts => /\ orch.patch.workspace = orch.row.workspace
                                     /\ orch.patch.title = orch.row.title
                                     /\ orch.patch.pr = "pr"

(* Who goes to a worker has been announced, and only a visit completes.    *)
Starting ==
  /\ \A r \in Slots : req[r].at \in {"view", "enqueue"} => req[r].session \in announced
  /\ \A s \in SessionIds : sessions[s].status = "COMPLETED" => s \in visits
  /\ \A r \in Slots : Writes(r) /\ req[r].row.status = "COMPLETED" => req[r].session \in visits
  /\ orch.at = "write" =>
       /\ orch.session \in announced
       /\ orch.row.status = "COMPLETED" => orch.session \in visits
       /\ orch.patch = [status |-> "COMPLETED"] => orch.session \in visits

(* A request goes on in the workspace of the session it was sent to.       *)
Threading ==
  /\ \A r \in Slots : Carries(r) /\ req[r].thread \in Nat => req[r].thread \in SessionIds
  /\ \A r \in Slots :
       /\ req[r].at \in {"parse", "create"} /\ req[r].key # None
       /\ req[r].thread \in SessionIds \ forgotten
       /\ sessions[req[r].thread].workspace # None
       => req[r].key = sessions[req[r].thread].workspace
  /\ \A s \in SessionIds \ forgotten : sessions[s].workspace # None =>
       s \in DOMAIN workspaceByThreadId /\ workspaceByThreadId[s] = sessions[s].workspace

Inv == /\ TypeOK /\ Owning /\ Numbered /\ Updating /\ Starting /\ Threading
       /\ RecordsSurvive /\ StartIsWhole
-----------------------------------------------------------------------------
(* The least of a set of numbers, and the greatest of one that is bounded: *)
(* what Newest chooses.                                                    *)
LEMMA LessThanIsWellFounded ==
  IsWellFoundedOn({ss \in Nat \X Nat : ss[1] < ss[2]}, Nat)
BY NatLessThanWellFounded DEF OpToRel

(* A set of numbers up to n has a greatest.                                *)
LEMMA GreatestOf ==
  ASSUME NEW n \in Nat, NEW T \in SUBSET (1 .. n), T # {}
  PROVE  \E m \in T : \A k \in T : k <= m
<1> DEFINE R == {ss \in Nat \X Nat : ss[1] < ss[2]}
           U == {m \in Nat : n - m \in T}
<1>1. IsWellFoundedOn(R, Nat)
  BY LessThanIsWellFounded
<1>2. U # {} /\ U \subseteq Nat
  <2>1. PICK m \in T : TRUE
    OBVIOUS
  <2>2. m \in 1 .. n /\ n - m \in Nat /\ n - (n - m) = m
    OBVIOUS
  <2>3. n - m \in U
    BY <2>1, <2>2
  <2> QED BY <2>3
<1>3. PICK m \in U : \A k \in U : ~ (<<k, m>> \in R)
  <2> HIDE DEF R, U
  <2> QED BY <1>1, <1>2, WFMin
<1>4. m \in Nat /\ n - m \in T
  OBVIOUS
<1>5. ASSUME NEW k \in T PROVE k <= n - m
  <2>1. k \in 1 .. n /\ n - k \in Nat /\ n - (n - k) = k
    OBVIOUS
  <2>2. n - k \in U
    BY <2>1
  <2>3. ~ (n - k < m)
    BY <1>2, <1>3, <1>4, <2>1, <2>2
  <2> QED BY <1>4, <2>1, <2>3
<1> QED BY <1>4, <1>5

(* What resolveProjectForRequest finds is the user's.                      *)
LEMMA ProjectIsOwn ==
  ASSUME TypeOK, NEW user, NEW projectId, NEW repo
  PROVE  LET p == ProjectFor(user, projectId, repo)
         IN  p = None \/ p \in OwnProjects(user)
<1> DEFINE fitting == {p \in OwnProjects(user) : repo \in {None, projects[p].repo}}
<1>1. fitting \subseteq OwnProjects(user) /\ fitting \subseteq 1 .. Len(projects)
      /\ Len(projects) \in Nat
  BY DEF TypeOK, OwnProjects, ProjectIds
<1>2. /\ projectId \in OwnProjects(user) => ProjectFor(user, projectId, repo) = projectId
      /\ projectId \notin OwnProjects(user) /\ fitting = {}
           => ProjectFor(user, projectId, repo) = None
      /\ projectId \notin OwnProjects(user) /\ fitting # {}
           => ProjectFor(user, projectId, repo) = Newest(fitting)
  BY DEF ProjectFor
<1> HIDE DEF fitting
<1>3. ASSUME fitting # {} PROVE Newest(fitting) \in fitting
  <2>1. \E m \in fitting : \A k \in fitting : k <= m
    BY <1>1, <1>3, GreatestOf
  <2> QED BY <2>1 DEF Newest
<1> QED BY <1>1, <1>2, <1>3

(* What update() makes of a row.                                           *)
LEMMA StatusIsPatched ==
  ASSUME NEW row \in Rows, NEW st \in Statuses
  PROVE  LET new == Patched(row, [status |-> st])
         IN  /\ new \in Rows /\ new.status = st
             /\ new.user = row.user /\ new.project = row.project /\ new.goal = row.goal
             /\ new.title = row.title /\ new.pr = row.pr /\ new.workspace = row.workspace
BY DEF Patched, Rows

(* What a row is when a context was written to it, field by field.         *)
LEMMA ContextIsPatched ==
  ASSUME NEW row \in Rows, NEW c \in Contexts
  PROVE  LET new == Patched(row, c)
         IN  /\ new \in Rows /\ new.status = row.status
             /\ new.user = row.user /\ new.project = row.project /\ new.goal = row.goal
             /\ new.title = c.title /\ new.pr = c.pr /\ new.workspace = c.workspace
BY DEF Patched, Rows, Contexts

(* The same for the title that PATCH /sessions/:id writes.                 *)
LEMMA TitleIsPatched ==
  ASSUME NEW row \in Rows, NEW t \in Nat \cup {None}
  PROVE  LET new == Patched(row, [title |-> t])
         IN  /\ new \in Rows /\ new.status = row.status
             /\ new.user = row.user /\ new.project = row.project /\ new.goal = row.goal
             /\ new.title = t /\ new.pr = row.pr /\ new.workspace = row.workspace
BY DEF Patched, Rows

(* The same for the pull request that the orchestrator writes.             *)
LEMMA PrIsPatched ==
  ASSUME NEW row \in Rows
  PROVE  LET new == Patched(row, [pr |-> "pr"])
         IN  /\ new \in Rows /\ new.status = row.status
             /\ new.user = row.user /\ new.project = row.project /\ new.goal = row.goal
             /\ new.title = row.title /\ new.pr = "pr" /\ new.workspace = row.workspace
BY DEF Patched, Rows

(* Rows with the same fields are the same.                                 *)
LEMMA RowsAgree ==
  ASSUME NEW a \in Rows, NEW b \in Rows, a.user = b.user, a.project = b.project,
         a.goal = b.goal, a.status = b.status, a.title = b.title, a.pr = b.pr,
         a.workspace = b.workspace
  PROVE  a = b
BY DEF Rows

(* What mergeContext copies out of a row.                                  *)
LEMMA ContextTypes ==
  ASSUME NEW row \in Rows
  PROVE  /\ ContextOf(row) \in Contexts
         /\ ContextOf(row).title = row.title /\ ContextOf(row).pr = row.pr
         /\ ContextOf(row).workspace = row.workspace
BY DEF ContextOf, ContextFields, Rows, Contexts
-----------------------------------------------------------------------------
(* The await a request is at says what it holds.                           *)
LEMMA HeldAt ==
  ASSUME NEW q \in AllRequests
  PROVE  /\ q.at = "idle" => q = Idle
         /\ q.at = "hash" => q \in Hashing
         /\ q.at = "newProject" => q \in Posted \cup Message
         /\ q.at = "message" => q \in Message
         /\ q.at = "parse" => q \in Asking
         /\ q.at = "create" => q \in Posted \cup Complete
         /\ q.at \in {"start", "update", "emit", "view", "enqueue"} => q \in Begun
         /\ q.at = "writeStarted" => q \in Begins
         /\ q.at = "updateTitle" => q \in Renames
         /\ q.at = "writeTitle" => q \in Renamed
BY DEF AllRequests, Idle, Hashing, Posted, Message, Asking, Complete, Begun, Begins, Renames, Renamed

(* One request goes to its next await.                                     *)
LEMMA GoMoves ==
  ASSUME TypeOK, NEW r \in Slots, NEW next \in AllRequests, Go(r, next)
  PROVE  /\ req' \in [Slots -> AllRequests] /\ req'[r] = next
         /\ \A q \in Slots \ {r} : req'[q] = req[q]
BY DEF TypeOK, Go

(* A request that is answered leaves its slot idle.                        *)
LEMMA FinishMoves ==
  ASSUME TypeOK, NEW r \in Slots, Finish(r)
  PROVE  /\ req' \in [Slots -> AllRequests] /\ req'[r] = Idle /\ Idle.at = "idle"
         /\ \A q \in Slots \ {r} : req'[q] = req[q]
<1>1. Idle \in AllRequests /\ Idle.at = "idle"
  BY DEF AllRequests, Idle
<1> QED BY <1>1, GoMoves DEF Finish

(* A request about a session goes on with what it has.                     *)
LEMMA StepMoves ==
  ASSUME TypeOK, NEW r \in Slots, req[r].at \in {"start", "update", "emit", "view", "enqueue"},
         NEW point \in {"start", "update", "emit", "view", "enqueue"}, Step(r, point)
  PROVE  /\ req' \in [Slots -> AllRequests]
         /\ req'[r].at = point /\ req'[r].session = req[r].session
         /\ req'[r].next = req[r].next
         /\ \A q \in Slots \ {r} : req'[q] = req[q]
<1>1. req[r] \in Begun
  BY HeldAt DEF TypeOK
<1> DEFINE next == [req[r] EXCEPT !.at = point]
<1>2. next \in Begun /\ next.at = point /\ next.session = req[r].session /\ next.next = req[r].next
  BY <1>1 DEF Begun
<1>3. next \in AllRequests /\ Go(r, next)
  BY <1>2 DEF AllRequests, Step
<1> HIDE DEF next
<1> QED BY <1>2, <1>3, GoMoves

(* A request is taken up by a slot that is free.                           *)
LEMMA Arriving ==
  ASSUME TypeOK, NEW r \in Slots, NEW kind \in Kinds, Arrives(r, kind)
  PROVE  /\ req[r] = Idle /\ req[r].at = "idle" /\ arrived' = arrived + 1 /\ arrived' \in Nat
         /\ left' \in [Kinds -> Nat]
<1>1. left \in [Kinds -> Nat] /\ left[kind] \in Nat /\ left[kind] > 0 /\ req[r] \in AllRequests
      /\ left' = [left EXCEPT ![kind] = @ - 1] /\ arrived \in Nat
  BY DEF TypeOK, Arrives, Spend
<1>2. left[kind] - 1 \in Nat
  BY <1>1
<1>3. left' \in [Kinds -> Nat]
  BY <1>1, <1>2
<1> QED BY <1>1, <1>3, HeldAt DEF Arrives, At, Number

(* A request for a session, or a message, with the project it is for.      *)
LEMMA PostArrives ==
  ASSUME TypeOK, NEW r \in Slots, NEW user \in UserIds, NEW p, NEW repo \in Repos \cup {None},
         NEW autoStart \in BOOLEAN, PostSession(r, user, p, repo, autoStart)
  PROVE  /\ req' \in [Slots -> AllRequests] /\ \A q \in Slots \ {r} : req'[q] = req[q]
         /\ req[r].at = "idle"
         /\ req'[r].at \in {"newProject", "create"} /\ req'[r].number = arrived + 1
         /\ req'[r].at = "create" => req'[r].project \in OwnProjects(req'[r].user)
         /\ req'[r].thread = None /\ req'[r].key = None
<1> DEFINE project == ProjectFor(user, p, repo)
           next == With(Resolving("create", user, p, repo),
                        [thread |-> None, key |-> None, autoStart |-> autoStart])
<1>1. project = None \/ project \in OwnProjects(user)
  BY ProjectIsOwn
<1>2. project \in Nat \cup {None} /\ user \in Nat
  BY <1>1 DEF TypeOK, OwnProjects, ProjectIds, UserIds
<1>3. req[r].at = "idle" /\ Number \in Nat /\ Number = arrived + 1
  BY DEF PostSession, Authorised, Arrives, At, Number, TypeOK
<1> HIDE DEF project
<1>4. next = [at |-> IF project = None THEN "newProject" ELSE "create", next |-> "create",
              user |-> user, project |-> project, repo |-> repo, number |-> Number,
              thread |-> None, key |-> None, autoStart |-> autoStart]
  BY DEF Resolving, With, project
<1>5. next \in Posted
  BY <1>2, <1>3, <1>4 DEF Posted
<1>6. /\ next.at \in {"newProject", "create"} /\ next.number = Number
      /\ next.at = "create" => next.project \in OwnProjects(next.user)
      /\ next.thread = None /\ next.key = None
  BY <1>1, <1>4
<1>7. Go(r, next)
  BY DEF PostSession
<1> HIDE DEF next
<1>8. next \in AllRequests
  BY <1>5 DEF AllRequests
<1> QED BY <1>3, <1>6, <1>7, <1>8, GoMoves

(* POST /messages: the request takes the next number, and the project it   *)
(* goes on with is one of its user.                                        *)
LEMMA MessageArrives ==
  ASSUME TypeOK, NEW r \in Slots, NEW user \in UserIds,
         NEW thread \in Threads \cup SessionIds \cup {None}, NEW p,
         PostMessage(r, user, thread, p)
  PROVE  /\ req' \in [Slots -> AllRequests] /\ \A q \in Slots \ {r} : req'[q] = req[q]
         /\ req[r].at = "idle"
         /\ req'[r].at \in {"newProject", "message"} /\ req'[r].number = arrived + 1
         /\ req'[r].at = "message" => req'[r].project \in OwnProjects(req'[r].user)
         /\ req'[r].thread = thread
<1> DEFINE project == ProjectFor(user, p, None)
           next == With(Resolving("message", user, p, None), [thread |-> thread])
<1>1. project = None \/ project \in OwnProjects(user)
  BY ProjectIsOwn
<1>2. project \in Nat \cup {None} /\ user \in Nat /\ thread \in Threads \cup Nat \cup {None}
  BY <1>1 DEF TypeOK, OwnProjects, ProjectIds, UserIds, SessionIds
<1>3. req[r].at = "idle" /\ Number \in Nat /\ Number = arrived + 1
  BY DEF PostMessage, Authorised, Arrives, At, Number, TypeOK
<1> HIDE DEF project
<1>4. next = [at |-> IF project = None THEN "newProject" ELSE "message", next |-> "message",
              user |-> user, project |-> project, repo |-> None, number |-> Number,
              thread |-> thread]
  BY DEF Resolving, With, project
<1>5. next \in Message
  BY <1>2, <1>3, <1>4 DEF Message
<1>6. /\ next.at \in {"newProject", "message"} /\ next.number = Number
      /\ next.at = "message" => next.project \in OwnProjects(next.user)
      /\ next.thread = thread
  BY <1>1, <1>4
<1>7. Go(r, next)
  BY DEF PostMessage
<1> HIDE DEF next
<1>8. next \in AllRequests
  BY <1>5 DEF AllRequests
<1> QED BY <1>3, <1>6, <1>7, <1>8, GoMoves

(* The project a message created is the newest row.                        *)
LEMMA ProjectArrives ==
  ASSUME TypeOK, NEW r \in Slots, NewProject(r)
  PROVE  /\ req' \in [Slots -> AllRequests] /\ \A q \in Slots \ {r} : req'[q] = req[q]
         /\ req[r].at = "newProject"
         /\ req'[r].at \in {"message", "create"} /\ req'[r].number = req[r].number
         /\ req'[r].user = req[r].user /\ req'[r].user \in Nat
         /\ req'[r].project = Len(projects) + 1
         /\ req'[r].thread = req[r].thread
         /\ req'[r].at = "create" => req'[r].key = None
<1> DEFINE next == [req[r] EXCEPT !.at = req[r].next, !.project = Len(projects) + 1]
<1>1. req[r] \in Posted \cup Message /\ req[r].at = "newProject"
  BY HeldAt DEF NewProject, At, TypeOK
<1>2. Len(projects) + 1 \in Nat
  BY DEF TypeOK
<1>3. CASE req[r] \in Posted
  <2>1. /\ next \in Posted /\ next.at = "create" /\ next.number = req[r].number
        /\ next.user = req[r].user /\ next.project = Len(projects) + 1
        /\ next.thread = req[r].thread /\ next.key = None /\ req[r].user \in Nat
    BY <1>2, <1>3 DEF Posted
  <2>2. next \in AllRequests /\ Go(r, next)
    BY <2>1 DEF AllRequests, NewProject
  <2> HIDE DEF next
  <2> QED BY <1>1, <2>1, <2>2, GoMoves
<1>4. CASE req[r] \in Message
  <2>1. /\ next \in Message /\ next.at = "message" /\ next.number = req[r].number
        /\ next.user = req[r].user /\ next.project = Len(projects) + 1
        /\ next.thread = req[r].thread /\ req[r].user \in Nat
    BY <1>2, <1>4 DEF Message
  <2>2. next \in AllRequests /\ Go(r, next)
    BY <2>1 DEF AllRequests, NewProject
  <2> HIDE DEF next
  <2> QED BY <1>1, <2>1, <2>2, GoMoves
<1> QED BY <1>1, <1>3, <1>4

(* The key under which a draft is kept.                                    *)
LEMMA KeyTypes ==
  ASSUME TypeOK, NEW thread \in Threads \cup Nat \cup {None}
  PROVE  ThreadKey(thread) \in Keys
BY DEF TypeOK, ThreadKey, Keys

(* What the model's answer may come to, if it is a task.                   *)
LEMMA TaskTypes ==
  ASSUME NEW request \in ParsedRequests, request.action = "START_SESSION"
  PROVE  request.repo \in Repos \cup {None} /\ request.autoStart \in BOOLEAN
<1>1. Failure.action # "START_SESSION" /\ Conversing.action # "START_SESSION"
      /\ Lookup.action # "START_SESSION"
  BY DEF Failure, Conversing, Lookup
<1>2. PICK p \in Payloads, m \in Messages : request = Normalize(p, m)
  BY <1>1 DEF ParsedRequests
<1> DEFINE task == [action |-> "START_SESSION", repo |-> RepositoryOf(p, m), autoStart |-> AutoStart(p, m)]
<1>3. Normalize(p, m) \in {Failure, Conversing, Lookup, task}
  BY Zenon DEF Normalize
<1>4. request = task
  BY <1>1, <1>2, <1>3
<1>5. RepositoryOf(p, m) \in Repos \cup {None}
  BY DEF RepositoryOf, Payloads, Messages
<1>6. AutoStart(p, m) \in BOOLEAN
  BY Zenon DEF AutoStart
<1> HIDE DEF task
<1>7. task.repo = RepositoryOf(p, m) /\ task.autoStart = AutoStart(p, m)
  BY Zenon DEF task
<1> QED BY <1>4, <1>5, <1>6, <1>7

(* executeStartSession is reached with what the message had.               *)
LEMMA ExecutingMoves ==
  ASSUME TypeOK, NEW r \in Slots, req[r].at \in {"message", "parse"}, NEW key \in Keys,
         NEW request, request.number \in Nat, request.autoStart \in BOOLEAN,
         Executing(r, key, request)
  PROVE  /\ req' \in [Slots -> AllRequests] /\ \A q \in Slots \ {r} : req'[q] = req[q]
         /\ req'[r].at = "create" /\ req'[r].number = request.number
         /\ req'[r].user = req[r].user /\ req'[r].project = req[r].project
         /\ req'[r].thread = req[r].thread /\ req'[r].key = key
<1> DEFINE next == [at |-> "create", user |-> req[r].user, project |-> req[r].project,
                    number |-> request.number, thread |-> req[r].thread, key |-> key,
                    autoStart |-> request.autoStart]
<1>1. req[r] \in Message \cup Asking
  BY HeldAt DEF TypeOK
<1>2. /\ req[r].user \in Nat /\ req[r].project \in Nat \cup {None}
      /\ req[r].thread \in Threads \cup Nat \cup {None}
  BY <1>1 DEF Message, Asking
<1>3. next \in Complete
  BY <1>2 DEF Complete
<1>4. next \in AllRequests /\ Go(r, next)
  BY <1>3 DEF AllRequests, Executing
<1>5. /\ next.at = "create" /\ next.number = request.number
      /\ next.user = req[r].user /\ next.project = req[r].project
      /\ next.thread = req[r].thread /\ next.key = key
  OBVIOUS
<1> HIDE DEF next
<1> QED BY <1>4, <1>5, GoMoves

(* A message asks the model with the key of its thread.                    *)
LEMMA AskingMoves ==
  ASSUME TypeOK, NEW r \in Slots, req[r].at = "message", NEW key \in Keys,
         Go(r, With([req[r] EXCEPT !.at = "parse"], [key |-> key]))
  PROVE  /\ req' \in [Slots -> AllRequests] /\ \A q \in Slots \ {r} : req'[q] = req[q]
         /\ req'[r].at = "parse" /\ req'[r].number = req[r].number
         /\ req'[r].user = req[r].user /\ req'[r].project = req[r].project
         /\ req'[r].thread = req[r].thread /\ req'[r].key = key
<1> DEFINE next == With([req[r] EXCEPT !.at = "parse"], [key |-> key])
<1>1. req[r] \in Message
  BY HeldAt DEF TypeOK
<1>2. next = [at |-> "parse", next |-> req[r].next, user |-> req[r].user,
              project |-> req[r].project, repo |-> req[r].repo, number |-> req[r].number,
              thread |-> req[r].thread, key |-> key]
  BY <1>1 DEF With, Message
<1>3. next \in Asking
  BY <1>1, <1>2 DEF Asking, Message
<1>4. /\ next.at = "parse" /\ next.number = req[r].number
      /\ next.user = req[r].user /\ next.project = req[r].project
      /\ next.thread = req[r].thread /\ next.key = key
  BY <1>2
<1> HIDE DEF next
<1>5. next \in AllRequests /\ Go(r, next)
  BY <1>3 DEF AllRequests, next
<1> QED BY <1>4, <1>5, GoMoves

(* A start, from its arrival to the write of the row.                      *)
LEMMA StartArrives ==
  ASSUME TypeOK, NEW r \in Slots, NEW user, NEW s \in SessionIds, PostStart(r, user, s)
  PROVE  /\ req' \in [Slots -> AllRequests] /\ \A q \in Slots \ {r} : req'[q] = req[q]
         /\ req[r].at = "idle"
         /\ req'[r].at = "start" /\ req'[r].session = s /\ req'[r].next = "enqueue"
<1> DEFINE next == [at |-> "start", session |-> s, next |-> "enqueue"]
<1>1. s \in Nat /\ req[r].at = "idle"
  BY DEF TypeOK, SessionIds, PostStart, Authorised, Arrives, At
<1>2. next \in Begun /\ next.at = "start" /\ next.session = s /\ next.next = "enqueue"
  BY <1>1 DEF Begun
<1>3. next \in AllRequests /\ Go(r, next)
  BY <1>2 DEF AllRequests, PostStart
<1> HIDE DEF next
<1> QED BY <1>1, <1>2, <1>3, GoMoves

(* markSessionStarted reads the row it will write back.                    *)
LEMMA RowIsRead ==
  ASSUME TypeOK, NEW r \in Slots, req[r].session \in SessionIds, ReadStarted(r)
  PROVE  /\ req' \in [Slots -> AllRequests] /\ \A q \in Slots \ {r} : req'[q] = req[q]
         /\ req[r].at = "update"
         /\ req'[r].at = "writeStarted" /\ req'[r].session = req[r].session
         /\ req'[r].row = sessions[req[r].session]
<1> DEFINE next == With([req[r] EXCEPT !.at = "writeStarted"], [row |-> sessions[req[r].session]])
<1>1. req[r] \in Begun /\ req[r].at = "update"
  BY HeldAt DEF TypeOK, ReadStarted, At
<1>2. next = [at |-> "writeStarted", session |-> req[r].session, next |-> req[r].next,
              row |-> sessions[req[r].session]]
  BY <1>1 DEF With, Begun
<1>3. sessions[req[r].session] \in Rows
  BY DEF TypeOK, SessionIds
<1>4. /\ next \in Begins /\ next.at = "writeStarted" /\ next.session = req[r].session
      /\ next.row = sessions[req[r].session]
  BY <1>1, <1>2, <1>3 DEF Begins, Begun
<1> HIDE DEF next
<1>5. next \in AllRequests /\ Go(r, next)
  BY <1>4 DEF AllRequests, ReadStarted, next
<1> QED BY <1>1, <1>4, <1>5, GoMoves

(* markSessionStarted has written the row and goes on to emit.             *)
LEMMA StartIsWritten ==
  ASSUME TypeOK, NEW r \in Slots, WriteStarted(r)
  PROVE  /\ req' \in [Slots -> AllRequests] /\ \A q \in Slots \ {r} : req'[q] = req[q]
         /\ req[r].at = "writeStarted" /\ req[r] \in Begins
         /\ req'[r].at = "emit" /\ req'[r].session = req[r].session
<1> DEFINE next == [at |-> "emit", session |-> req[r].session, next |-> req[r].next]
<1>1. req[r] \in Begins /\ req[r].at = "writeStarted"
  BY HeldAt DEF TypeOK, WriteStarted, At
<1>2. next \in Begun /\ next.at = "emit" /\ next.session = req[r].session
  BY <1>1 DEF Begins, Begun
<1>3. next \in AllRequests /\ Go(r, next)
  BY <1>2 DEF AllRequests, WriteStarted
<1> HIDE DEF next
<1> QED BY <1>1, <1>2, <1>3, GoMoves

(* A rename, from the read of the context to that of the row.              *)
LEMMA RenameArrives ==
  ASSUME TypeOK, NEW r \in Slots, NEW user, NEW s \in SessionIds, PatchSession(r, user, s)
  PROVE  /\ req' \in [Slots -> AllRequests] /\ \A q \in Slots \ {r} : req'[q] = req[q]
         /\ req[r].at = "idle"
         /\ req'[r].at = "updateTitle" /\ req'[r].session = s
         /\ req'[r].patch.pr = sessions[s].pr
         /\ req'[r].patch.workspace = sessions[s].workspace
<1> DEFINE patch == [ContextOf(sessions[s]) EXCEPT !.title = Number]
           next == [at |-> "updateTitle", session |-> s, patch |-> patch]
<1>1. s \in Nat /\ req[r].at = "idle" /\ sessions[s] \in Rows /\ Number \in Nat
  BY DEF TypeOK, SessionIds, PatchSession, Authorised, Arrives, At, Number
<1>2. /\ ContextOf(sessions[s]) \in Contexts /\ ContextOf(sessions[s]).pr = sessions[s].pr
      /\ ContextOf(sessions[s]).workspace = sessions[s].workspace
  BY <1>1, ContextTypes
<1>3. patch \in Contexts /\ patch.pr = sessions[s].pr /\ patch.workspace = sessions[s].workspace
  BY <1>1, <1>2 DEF Contexts
<1> HIDE DEF patch
<1>4. next \in Renames /\ next.at = "updateTitle" /\ next.session = s /\ next.patch = patch
  BY <1>1, <1>3 DEF Renames
<1>5. next \in AllRequests /\ Go(r, next)
  BY <1>4 DEF AllRequests, PatchSession, patch
<1> HIDE DEF next
<1> QED BY <1>1, <1>3, <1>4, <1>5, GoMoves

(* PATCH /sessions/:id reads the row it will write back.                   *)
LEMMA RenameReads ==
  ASSUME TypeOK, NEW r \in Slots, req[r].session \in SessionIds, ReadRenamed(r)
  PROVE  /\ req' \in [Slots -> AllRequests] /\ \A q \in Slots \ {r} : req'[q] = req[q]
         /\ req[r].at = "updateTitle"
         /\ req'[r].at = "writeTitle" /\ req'[r].session = req[r].session
         /\ req'[r].patch = req[r].patch
         /\ req'[r].row = sessions[req[r].session]
<1> DEFINE next == With([req[r] EXCEPT !.at = "writeTitle"], [row |-> sessions[req[r].session]])
<1>1. req[r] \in Renames /\ req[r].at = "updateTitle"
  BY HeldAt DEF TypeOK, ReadRenamed, At
<1>2. next = [at |-> "writeTitle", session |-> req[r].session, patch |-> req[r].patch,
              row |-> sessions[req[r].session]]
  BY <1>1 DEF With, Renames
<1>3. sessions[req[r].session] \in Rows
  BY DEF TypeOK, SessionIds
<1>4. /\ next \in Renamed /\ next.at = "writeTitle" /\ next.session = req[r].session
      /\ next.patch = req[r].patch /\ next.row = sessions[req[r].session]
  BY <1>1, <1>2, <1>3 DEF Renamed, Renames
<1> HIDE DEF next
<1>5. next \in AllRequests /\ Go(r, next)
  BY <1>4 DEF AllRequests, ReadRenamed, next
<1> QED BY <1>1, <1>4, <1>5, GoMoves

-----------------------------------------------------------------------------
(* At the start there are users, and nothing else.                         *)
LEMMA InitInv == Init => Inv
<1> SUFFICES ASSUME Init PROVE Inv
  OBVIOUS
<1>1. /\ users \in Seq(People) /\ Registered \in Seq(People) /\ left \in [Kinds -> Nat]
      /\ projects = <<>> /\ sessions = <<>> /\ intended = <<>>
      /\ pendingByThreadId = <<>> /\ workspaceByThreadId = <<>>
      /\ announced = {} /\ visits = {} /\ arrived = 0
      /\ req = [r \in Slots |-> Idle] /\ orch = Idle
  BY ApiServerAssumption DEF Init
<1>2. tokens \in Seq([user : Nat, live : BOOLEAN])
  <2>1. Len(Registered) \in Nat /\ DOMAIN Registered = 1 .. Len(Registered)
    BY <1>1
  <2>2. \A u \in 1 .. Len(Registered) : [user |-> u, live |-> TRUE] \in [user : Nat, live : BOOLEAN]
    OBVIOUS
  <2>3. tokens \in [1 .. Len(Registered) -> [user : Nat, live : BOOLEAN]]
    BY <2>1, <2>2 DEF Init
  <2> QED BY <2>1, <2>3, SeqDef
<1>3. Idle.at = "idle" /\ Idle \in AllRequests
  BY DEF Idle, AllRequests
<1>4. \A r \in Slots : req[r].at = "idle"
  BY <1>1, <1>3
<1>5. SessionIds = {}
  BY <1>1 DEF SessionIds
<1>6. DOMAIN pendingByThreadId = {} /\ DOMAIN workspaceByThreadId = {}
  BY <1>1
<1>7. TypeOK
  <2>1. req \in [Slots -> AllRequests]
    BY <1>1, <1>3
  <2> QED BY <1>1, <1>2, <1>5, <1>6, <2>1 DEF TypeOK
<1>8. Owning /\ Numbered /\ Threading
  BY <1>4, <1>5, <1>6 DEF Owning, Numbered, Threading, Carries
<1>9. Updating /\ Starting
  BY <1>1, <1>3, <1>4, <1>5 DEF Updating, Starting, Serves, Writes, InUpdate
<1>10. RecordsSurvive /\ StartIsWhole
  BY <1>1, <1>5 DEF RecordsSurvive, StartIsWhole
<1> QED BY <1>7, <1>8, <1>9, <1>10 DEF Inv

(* Every step is one of these.                                             *)
LEMMA NextIsOne ==
  ASSUME [Next]_vars
  PROVE  \/ \E r \in Slots, person \in People : Register(r, person) \/ Login(r, person)
         \/ \E r \in Slots : CreateUser(r) \/ Fail(r)
         \/ \E r \in Slots, user \in UserIds, repo \in Repos : PostProject(r, user, repo)
         \/ \E r \in Slots, user \in UserIds, p \in ProjectIds :
              DeleteProject(r, user, p) \/ \E repo \in Repos : PatchProject(r, user, p, repo)
         \/ \E r \in Slots, user \in UserIds, p \in ProjectIds \cup {None},
               repo \in Repos \cup {None}, autoStart \in BOOLEAN :
              PostSession(r, user, p, repo, autoStart)
         \/ \E r \in Slots, user \in UserIds, p \in ProjectIds \cup {None},
               thread \in Threads \cup SessionIds \cup {None} : PostMessage(r, user, thread, p)
         \/ \E r \in Slots, user \in UserIds, s \in SessionIds :
              PostStart(r, user, s) \/ PatchSession(r, user, s)
         \/ \E r \in Slots : NewProject(r) \/ CreateSession(r)
         \/ \E r \in Slots : StartSession(r) \/ ReadStarted(r) \/ WriteStarted(r)
         \/ \E r \in Slots : EmitStarted(r) \/ ViewStarted(r) \/ EnqueueVisit(r)
         \/ \E r \in Slots : ReadRenamed(r) \/ WriteRenamed(r)
         \/ \E r \in Slots, answer \in Repos \cup {None} : HandleMessage(r, answer)
         \/ \E r \in Slots, request \in ParsedRequests : HandleRequest(r, request)
         \/ \E t \in TokenIds : Logout(t)
         \/ \E s \in SessionIds : OrchestratorReads(s)
         \/ OrchestratorWrites
         \/ Restart
         \/ UNCHANGED vars
BY DEF Next, AccountRequest, HandlerStep, ProjectRequest, SessionRequest, Orchestrator
-----------------------------------------------------------------------------
(* Every bound on kinds of requests stays a natural number.                *)
LEMMA Spending ==
  ASSUME TypeOK, NEW kind \in Kinds, Spend(kind)
  PROVE  left' \in [Kinds -> Nat]
<1>1. left \in [Kinds -> Nat] /\ left[kind] \in Nat /\ left[kind] > 0
      /\ left' = [left EXCEPT ![kind] = @ - 1]
  BY DEF TypeOK, Spend
<1>2. left[kind] - 1 \in Nat
  BY <1>1
<1> QED BY <1>1, <1>2

(* The patches of the orchestrator.                                        *)
LEMMA OrchestratorHolds ==
  ASSUME TypeOK, NEW s \in SessionIds, OrchestratorReads(s)
  PROVE  /\ orch' \in StatusUpdates \cup PrUpdates /\ orch'.at = "write"
         /\ orch'.session = s /\ orch'.row = sessions[s]
         /\ orch'.patch = [status |-> "COMPLETED"] => s \in visits
         /\ orch'.patch \in Contexts => /\ orch'.patch.workspace = sessions[s].workspace
                                        /\ orch'.patch.title = sessions[s].title
                                        /\ orch'.patch.pr = "pr"
<1> DEFINE context == [ContextOf(sessions[s]) EXCEPT !.pr = "pr"]
<1>1. s \in Nat /\ sessions[s] \in Rows
  BY DEF TypeOK, SessionIds
<1>2. /\ context \in Contexts /\ context.pr = "pr" /\ context.title = sessions[s].title
      /\ context.workspace = sessions[s].workspace
  BY <1>1, ContextTypes DEF Contexts
<1>3. PICK patch \in {[status |-> "FAILED"], context}
                 \cup (IF s \in visits THEN {[status |-> "COMPLETED"]} ELSE {}) :
        orch' = [at |-> "write", session |-> s, row |-> sessions[s], patch |-> patch]
  BY DEF OrchestratorReads
<1> HIDE DEF context
<1>4. /\ orch'.at = "write" /\ orch'.session = s /\ orch'.row = sessions[s] /\ orch'.patch = patch
  BY <1>3
<1>5. /\ [status |-> "FAILED"] # [status |-> "COMPLETED"]
      /\ [status |-> "FAILED"] \notin Contexts /\ [status |-> "COMPLETED"] \notin Contexts
      /\ [status |-> "COMPLETED"] \notin {context}
  <2>1. [status |-> "FAILED"].status # [status |-> "COMPLETED"].status
    OBVIOUS
  <2>2. \A c \in Contexts : "title" \in DOMAIN c
    BY DEF Contexts
  <2>3. "title" \notin DOMAIN [status |-> "FAILED"] /\ "title" \notin DOMAIN [status |-> "COMPLETED"]
    OBVIOUS
  <2> QED BY <1>2, <2>1, <2>2, <2>3
<1>6. CASE patch = context
  BY <1>1, <1>2, <1>3, <1>4, <1>5, <1>6 DEF PrUpdates
<1>7. CASE patch = [status |-> "FAILED"]
  BY <1>1, <1>3, <1>4, <1>5, <1>7 DEF StatusUpdates
<1>8. CASE s \in visits /\ patch = [status |-> "COMPLETED"]
  BY <1>1, <1>3, <1>4, <1>5, <1>8 DEF StatusUpdates
<1> QED BY <1>3, <1>6, <1>7, <1>8

(* What the orchestrator writes back.                                      *)
LEMMA OrchestratorPatches ==
  ASSUME TypeOK, orch.at = "write"
  PROVE  LET new == Patched(orch.row, orch.patch)
         IN  /\ orch \in StatusUpdates \cup PrUpdates /\ orch.row \in Rows /\ new \in Rows
             /\ new.user = orch.row.user /\ new.project = orch.row.project
             /\ new.goal = orch.row.goal
             /\ orch \in StatusUpdates =>
                  /\ orch.patch = [status |-> orch.patch.status] /\ "pr" \notin DOMAIN orch.patch
                  /\ orch.patch.status \in {"FAILED", "COMPLETED"}
                  /\ new.status = orch.patch.status
                  /\ new.workspace = orch.row.workspace
                  /\ new.title = orch.row.title /\ new.pr = orch.row.pr
             /\ orch \in PrUpdates =>
                  /\ orch.patch \in Contexts /\ "pr" \in DOMAIN orch.patch
                  /\ new.status = orch.row.status
                  /\ new.workspace = orch.patch.workspace
                  /\ new.title = orch.patch.title /\ new.pr = orch.patch.pr
<1>1. orch \in StatusUpdates \cup PrUpdates
  BY DEF TypeOK, Idle
<1>2. CASE orch \in StatusUpdates
  <2>1. /\ orch.row \in Rows /\ orch.patch \in [status : {"FAILED", "COMPLETED"}]
    BY <1>2 DEF StatusUpdates
  <2>2. orch.patch = [status |-> orch.patch.status] /\ DOMAIN orch.patch = {"status"}
        /\ orch.patch.status \in {"FAILED", "COMPLETED"}
    BY <2>1
  <2>3. orch.patch \notin Contexts
    BY <2>2 DEF Contexts
  <2>4. orch \notin PrUpdates
    BY <2>3 DEF PrUpdates
  <2>5. orch.patch.status \in Statuses
    BY <2>2 DEF Statuses
  <2> QED BY <1>2, <2>1, <2>2, <2>4, <2>5, StatusIsPatched
<1>3. CASE orch \in PrUpdates
  <2>1. /\ orch.row \in Rows /\ orch.patch \in Contexts
    BY <1>3 DEF PrUpdates
  <2>2. "pr" \in DOMAIN orch.patch /\ "status" \notin DOMAIN orch.patch
    BY <2>1 DEF Contexts
  <2>3. orch \notin StatusUpdates
    BY <2>2 DEF StatusUpdates
  <2> QED BY <1>3, <2>1, <2>2, <2>3, ContextIsPatched
<1> QED BY <1>1, <1>2, <1>3

(* The writes of a row leave the table what it is.                         *)
LEMMA RowIsWritten ==
  ASSUME TypeOK, NEW s \in SessionIds, NEW row \in Rows, WriteRow(s, row)
  PROVE  /\ sessions' \in Seq(Rows) /\ Len(sessions') = Len(sessions)
         /\ SessionIds' = SessionIds /\ sessions'[s] = row
         /\ \A t \in SessionIds \ {s} : sessions'[t] = sessions[t]
BY DEF TypeOK, WriteRow, SessionIds

(* What intended is after a write: the row where an overlap was seen, else *)
(* the row of updates one after the other.                                 *)
LEMMA Intending ==
  ASSUME TypeOK, NEW s \in SessionIds, NEW change, Intend(s, change),
         sessions'[s] \in Rows, Patched(intended[s], change) \in Rows
  PROVE  /\ intended' \in Seq(Rows) /\ Len(intended') = Len(intended)
         /\ intended'[s] = IF s \in raced THEN sessions'[s] ELSE Patched(intended[s], change)
         /\ \A t \in SessionIds \ {s} : intended'[t] = intended[t]
<1> DEFINE new == IF s \in raced THEN sessions'[s] ELSE Patched(intended[s], change)
<1>1. intended' = [intended EXCEPT ![s] = new] /\ new \in Rows
  BY DEF Intend
<1>2. s \in DOMAIN intended /\ SessionIds = 1 .. Len(intended) /\ intended \in Seq(Rows)
  BY DEF TypeOK, SessionIds
<1> HIDE DEF new
<1>3. /\ intended' \in Seq(Rows) /\ Len(intended') = Len(intended)
      /\ intended'[s] = new /\ \A t \in SessionIds \ {s} : intended'[t] = intended[t]
  BY <1>1, <1>2
<1> QED BY <1>3 DEF new
-----------------------------------------------------------------------------
(* Three kinds of steps.  Most keep what carries messages: no request      *)
(* takes a number or a project, and the rows keep what they are about.     *)
Steady ==
  /\ \A q \in Slots : Carries(q)' => req'[q] = req[q]
  /\ Len(sessions') = Len(sessions)
  /\ \A s \in SessionIds :
       /\ sessions'[s].user = sessions[s].user /\ sessions'[s].project = sessions[s].project
       /\ sessions'[s].goal = sessions[s].goal /\ sessions'[s].workspace = sessions[s].workspace
  /\ Len(projects) <= Len(projects')
  /\ \A p \in ProjectIds : projects'[p].user = projects[p].user
  /\ arrived <= arrived'
  /\ \/ pendingByThreadId' = pendingByThreadId
     \/ pendingByThreadId' = <<>>
  /\ \/ workspaceByThreadId' = workspaceByThreadId /\ forgotten' = forgotten
     \/ forgotten' = SessionIds

(* A step that adds no row and neither takes in nor moves on a message     *)
(* keeps what is said of owners, numbers and threads.                      *)
LEMMA SteadyKeeps ==
  ASSUME Inv, TypeOK', Steady
  PROVE  Owning' /\ Numbered' /\ Threading'
<1>1. SessionIds' = SessionIds /\ SessionIds = 1 .. Len(sessions)
  BY DEF Inv, TypeOK, Steady, SessionIds
<1>2. ProjectIds \subseteq ProjectIds'
  BY DEF Inv, TypeOK, Steady, ProjectIds
<1>3. \A q \in Slots : Carries(q)' => Carries(q) /\ req'[q] = req[q]
  BY DEF Steady, Carries
<1>4. \A q \in Slots : req'[q].at \in {"message", "parse", "create"} => Carries(q)'
  BY DEF Carries
<1>5. Owning'
  <2>1. ASSUME NEW q \in Slots, req'[q].at \in {"message", "parse", "create"}
        PROVE  /\ req'[q].project \in ProjectIds'
               /\ projects'[req'[q].project].user = req'[q].user
    BY <1>2, <1>3, <1>4, <2>1 DEF Owning, Inv, Steady
  <2>2. ASSUME NEW s \in SessionIds'
        PROVE  /\ sessions'[s].project \in ProjectIds'
               /\ projects'[sessions'[s].project].user = sessions'[s].user
    BY <1>1, <1>2, <2>2 DEF Owning, Inv, Steady
  <2> QED BY <2>1, <2>2 DEF Owning
<1>6. Numbered'
  <2>1. /\ DOMAIN pendingByThreadId' \subseteq DOMAIN pendingByThreadId
        /\ \A k \in DOMAIN pendingByThreadId' : pendingByThreadId'[k] = pendingByThreadId[k]
    BY DEF Steady
  <2>2. /\ \A r \in Slots : Carries(r)' => req'[r].number <= arrived'
        /\ \A k \in DOMAIN pendingByThreadId' : pendingByThreadId'[k].number <= arrived'
        /\ \A s \in SessionIds' : sessions'[s].goal <= arrived'
    <3>1. arrived \in Nat /\ arrived' \in Nat /\ arrived <= arrived'
      BY DEF Inv, TypeOK, Steady
    <3>2. ASSUME NEW r \in Slots, Carries(r)' PROVE req'[r].number <= arrived'
      <4>1. req[r] \in Posted \cup Message \cup Asking \cup Complete
        BY <1>3, <3>2, HeldAt DEF Carries, Inv, TypeOK
      <4>2. req[r].number \in Nat
        BY <4>1 DEF Posted, Message, Asking, Complete
      <4> QED BY <1>3, <3>1, <3>2, <4>2 DEF Numbered, Inv
    <3>3. ASSUME NEW k \in DOMAIN pendingByThreadId' PROVE pendingByThreadId'[k].number <= arrived'
      <4>1. pendingByThreadId[k].number \in Nat
        BY <2>1 DEF Inv, TypeOK, Drafts
      <4> QED BY <2>1, <3>1, <4>1 DEF Numbered, Inv
    <3>4. ASSUME NEW s \in SessionIds' PROVE sessions'[s].goal <= arrived'
      <4>1. s \in SessionIds /\ sessions[s] \in Rows
        BY <1>1 DEF Inv, TypeOK, SessionIds
      <4>2. sessions[s].goal <= arrived /\ sessions'[s].goal = sessions[s].goal
        BY <4>1 DEF Inv, Numbered, Steady
      <4> QED BY <3>1, <4>1, <4>2 DEF Rows
    <3> QED BY <3>2, <3>3, <3>4
  <2>3. \A s \in SessionIds' : s \in SessionIds /\ sessions'[s].goal = sessions[s].goal
    BY <1>1 DEF Steady
  <2>4. \A r, q \in Slots : Carries(r)' /\ Carries(q)' /\ req'[r].number = req'[q].number => r = q
    BY <1>3 DEF Numbered, Inv
  <2>5. /\ \A k, l \in DOMAIN pendingByThreadId' :
             pendingByThreadId'[k].number = pendingByThreadId'[l].number => k = l
        /\ \A s, q \in SessionIds' : sessions'[s].goal = sessions'[q].goal => s = q
    BY <2>1, <2>3 DEF Numbered, Inv
  <2>6. /\ \A r \in Slots : Carries(r)' =>
             /\ \A k \in DOMAIN pendingByThreadId' : pendingByThreadId'[k].number # req'[r].number
             /\ \A s \in SessionIds' : sessions'[s].goal # req'[r].number
        /\ \A k \in DOMAIN pendingByThreadId', s \in SessionIds' :
             pendingByThreadId'[k].number # sessions'[s].goal
    BY <1>3, <2>1, <2>3 DEF Numbered, Inv
  <2> QED BY <2>2, <2>4, <2>5, <2>6 DEF Numbered
<1>7. Threading'
  <2>1. \/ workspaceByThreadId' = workspaceByThreadId /\ forgotten' = forgotten
        \/ forgotten' = SessionIds
    BY Zenon DEF Steady
  <2>2. \A r \in Slots : Carries(r)' /\ req'[r].thread \in Nat => req'[r].thread \in SessionIds'
    BY <1>1, <1>3 DEF Threading, Inv
  <2>3. ASSUME NEW r \in Slots, req'[r].at \in {"parse", "create"}, req'[r].key # None,
               req'[r].thread \in SessionIds' \ forgotten',
               sessions'[req'[r].thread].workspace # None
        PROVE  req'[r].key = sessions'[req'[r].thread].workspace
    BY <1>1, <1>3, <1>4, <2>1, <2>3 DEF Threading, Inv, Steady
  <2>4. ASSUME NEW s \in SessionIds' \ forgotten', sessions'[s].workspace # None
        PROVE  s \in DOMAIN workspaceByThreadId' /\ workspaceByThreadId'[s] = sessions'[s].workspace
    BY <1>1, <2>1, <2>4 DEF Threading, Inv, Steady
  <2> QED BY <2>2, <2>3, <2>4 DEF Threading
<1> QED BY <1>5, <1>6, <1>7

(* Most steps leave the rows alone, and no update begins.                  *)
RowsStay ==
  /\ sessions' = sessions /\ orch' = orch /\ raced' = raced /\ intended' = intended
  /\ announced \subseteq announced' /\ visits \subseteq visits' /\ visits' \subseteq announced'
  /\ cut \subseteq cut'
  /\ \A q \in Slots : Serves(q)' =>
       \/ req'[q] = req[q]
       \/ /\ req'[q].at \in {"start", "update", "emit", "view", "enqueue"}
          /\ req'[q].session \in SessionIds
          /\ req'[q].at \in {"view", "enqueue"} => req'[q].session \in announced'
  /\ \A q \in Slots : \A s \in StartsNow(q) :
       s \in StartsNow(q)' \cup cut' \cup visits' \/ sessions[s].status # "RUNNING"

(* A step that leaves the rows alone keeps what is said of updates and     *)
(* starts.                                                                 *)
LEMMA RowsStayKeeps ==
  ASSUME Inv, TypeOK', RowsStay
  PROVE  Updating' /\ Starting' /\ RecordsSurvive' /\ StartIsWhole'
<1> DEFINE kept == {"updateTitle", "writeTitle", "writeStarted"}
<1>1. /\ sessions' = sessions /\ orch' = orch /\ raced' = raced /\ intended' = intended
      /\ announced \subseteq announced' /\ visits \subseteq visits' /\ visits' \subseteq announced'
      /\ cut \subseteq cut'
  BY DEF RowsStay
<1>2. SessionIds' = SessionIds
  BY <1>1 DEF SessionIds
<1>3. ASSUME NEW q \in Slots, Serves(q)'
      PROVE  \/ req'[q] = req[q] /\ Serves(q)
             \/ /\ req'[q].at \in {"start", "update", "emit", "view", "enqueue"}
                /\ req'[q].session \in SessionIds
                /\ req'[q].at \in {"view", "enqueue"} => req'[q].session \in announced'
  BY <1>3 DEF RowsStay, Serves
<1>4. ASSUME NEW q \in Slots, req'[q].at \in kept PROVE req'[q] = req[q]
  <2>1. Serves(q)'
    BY <1>4 DEF Serves
  <2> QED BY <1>3, <1>4, <2>1
<1>5. \A q \in Slots, s \in SessionIds : InUpdate(q, s)' => InUpdate(q, s)
  BY <1>4 DEF InUpdate
<1>6. \A q \in Slots : Writes(q)' => Writes(q) /\ req'[q] = req[q]
  BY <1>4 DEF Writes
<1>7. Updating'
  <2>1. \A q \in Slots : Serves(q)' => req'[q].session \in SessionIds'
    BY <1>2, <1>3 DEF Updating, Inv
  <2>2. /\ \A r, q \in Slots, s \in SessionIds' \ raced' : InUpdate(r, s)' /\ InUpdate(q, s)' => r = q
        /\ \A r \in Slots, s \in SessionIds' \ raced' :
             InUpdate(r, s)' => ~(orch'.at = "write" /\ orch'.session = s)
    BY <1>1, <1>2, <1>5 DEF Updating, Inv
  <2>3. \A r \in Slots : Writes(r)' =>
          /\ SameSession(req[r].row, req[r].session)'
          /\ req'[r].session \notin raced' => req'[r].row = sessions'[req'[r].session]
    BY <1>1, <1>6 DEF Updating, Inv, SameSession
  <2>4. \A r \in Slots : req'[r].at \in {"updateTitle", "writeTitle"} =>
          /\ req'[r].patch.workspace = sessions'[req'[r].session].workspace
          /\ req'[r].session \notin raced' => req'[r].patch.pr = sessions'[req'[r].session].pr
    BY <1>1, <1>4 DEF Updating, Inv
  <2>5. orch'.at = "write" =>
          /\ orch'.session \in SessionIds'
          /\ SameSession(orch.row, orch.session)'
          /\ orch'.session \notin raced' => orch'.row = sessions'[orch'.session]
          /\ orch'.patch \in Contexts => /\ orch'.patch.workspace = orch'.row.workspace
                                         /\ orch'.patch.title = orch'.row.title
                                         /\ orch'.patch.pr = "pr"
    BY <1>1, <1>2 DEF Updating, Inv, SameSession
  <2> QED BY <2>1, <2>2, <2>3, <2>4, <2>5 DEF Updating
<1>8. Starting'
  <2>1. \A r \in Slots : req'[r].at \in {"view", "enqueue"} => req'[r].session \in announced'
    <3>1. \A r \in Slots : req'[r].at \in {"view", "enqueue"} => Serves(r)'
      BY DEF Serves
    <3> QED BY <1>1, <1>3, <3>1 DEF Starting, Inv
  <2>2. \A s \in SessionIds' : sessions'[s].status = "COMPLETED" => s \in visits'
    BY <1>1, <1>2 DEF Starting, Inv
  <2>3. \A r \in Slots : Writes(r)' /\ req'[r].row.status = "COMPLETED" => req'[r].session \in visits'
    BY <1>1, <1>6 DEF Starting, Inv
  <2>4. orch'.at = "write" =>
          /\ orch'.session \in announced'
          /\ orch'.row.status = "COMPLETED" => orch'.session \in visits'
          /\ orch'.patch = [status |-> "COMPLETED"] => orch'.session \in visits'
    BY <1>1 DEF Starting, Inv
  <2> QED BY <2>1, <2>2, <2>3, <2>4 DEF Starting
<1>9. RecordsSurvive'
  BY <1>1, <1>2 DEF RecordsSurvive, Inv
<1>10. StartIsWhole'
  <2>1. ASSUME NEW s \in SessionIds' \ (cut' \cup raced'), sessions'[s].status = "RUNNING"
        PROVE  s \in visits' \/ \E r \in Slots : s \in StartsNow(r)'
    <3>1. s \in visits \/ \E r \in Slots : s \in StartsNow(r)
      BY <1>1, <1>2, <2>1 DEF StartIsWhole, Inv
    <3>2. \A q \in Slots : s \in StartsNow(q) => s \in StartsNow(q)' \/ s \in visits'
      BY <1>1, <2>1 DEF RowsStay
    <3> QED BY <1>1, <3>1, <3>2
  <2> QED BY <1>1, <2>1 DEF StartIsWhole
<1> QED BY <1>7, <1>8, <1>9, <1>10

(* A row is written back: with what was read of it, if no other update of  *)
(* the session has been open since.                                        *)
Writing(s, row) ==
  /\ s \in SessionIds /\ row \in Rows /\ WriteRow(s, row) /\ SameSession(row, s)
  /\ announced' = announced /\ visits' = visits /\ cut' = cut /\ raced' = raced
  /\ \A q \in Slots : Serves(q)' =>
       \/ req'[q] = req[q]
       \/ req'[q].at = "emit" /\ req'[q].session = s
  /\ orch' = orch \/ orch' = Idle
  /\ s \notin raced => /\ \A q \in Slots : ~InUpdate(q, s)'
                       /\ ~(orch'.at = "write" /\ orch'.session = s)
                       /\ row = intended'[s]
  /\ row.status = "COMPLETED" => s \in visits
  /\ \A t \in SessionIds \ {s} : intended'[t] = intended[t]
  /\ row.status = "RUNNING" =>
       s \in cut \cup raced \cup visits \/ \E q \in Slots : s \in StartsNow(q)'
  /\ \A q \in Slots : StartsNow(q) \subseteq StartsNow(q)'

(* So does one that writes a row back, ...                                 *)
LEMMA WritingKeeps ==
  ASSUME Inv, TypeOK', NEW s, NEW row, Writing(s, row)
  PROVE  Updating' /\ Starting' /\ RecordsSurvive' /\ StartIsWhole'
<1>1. /\ s \in SessionIds /\ row \in Rows /\ WriteRow(s, row) /\ SameSession(row, s)
      /\ announced' = announced /\ visits' = visits /\ cut' = cut /\ raced' = raced
      /\ orch' = orch \/ orch' = Idle
      /\ row.status = "COMPLETED" => s \in visits
      /\ \A t \in SessionIds \ {s} : intended'[t] = intended[t]
  BY DEF Writing
<1>2. /\ SessionIds' = SessionIds /\ sessions'[s] = row
      /\ \A t \in SessionIds \ {s} : sessions'[t] = sessions[t]
  BY <1>1, RowIsWritten DEF Inv
<1>3. \A t \in SessionIds :
        /\ sessions'[t].user = sessions[t].user /\ sessions'[t].project = sessions[t].project
        /\ sessions'[t].goal = sessions[t].goal /\ sessions'[t].workspace = sessions[t].workspace
  BY <1>1, <1>2 DEF SameSession
<1>4. ASSUME NEW q \in Slots, Serves(q)'
      PROVE  \/ req'[q] = req[q] /\ Serves(q)
             \/ req'[q].at = "emit" /\ req'[q].session = s
  BY <1>4 DEF Writing, Serves
<1>5. \A q \in Slots : req'[q].at \in {"updateTitle", "writeTitle", "writeStarted"} => req'[q] = req[q]
  <2>1. \A q \in Slots : req'[q].at \in {"updateTitle", "writeTitle", "writeStarted"} => Serves(q)'
    BY DEF Serves
  <2> QED BY <1>4, <2>1
<1>6. \A q \in Slots, t \in SessionIds : InUpdate(q, t)' => InUpdate(q, t)
  BY <1>5 DEF InUpdate
<1>7. \A q \in Slots : Writes(q)' => /\ Writes(q) /\ req'[q] = req[q]
                                     /\ req[q].session \in SessionIds
                                     /\ req[q].session \notin raced => req[q].session # s
  <2>1. ASSUME NEW q \in Slots, Writes(q)'
        PROVE  /\ Writes(q) /\ req'[q] = req[q]
               /\ req[q].session \in SessionIds
               /\ req[q].session \notin raced => req[q].session # s
    <3>1. Writes(q) /\ req'[q] = req[q] /\ Serves(q)
      BY <1>5, <2>1 DEF Writes, Serves
    <3>2. req[q].session = s => InUpdate(q, s)'
      BY <2>1, <3>1 DEF Writes, InUpdate
    <3> QED BY <1>1, <3>1, <3>2 DEF Writing, Updating, Inv
  <2> QED BY <2>1
<1>8. orch'.at = "write" => /\ orch' = orch /\ orch.session \in SessionIds
                            /\ orch.session \notin raced => orch.session # s
  BY <1>1 DEF Writing, Updating, Inv, Idle
<1>9. Updating'
  <2>1. \A q \in Slots : Serves(q)' => req'[q].session \in SessionIds'
    BY <1>1, <1>2, <1>4 DEF Updating, Inv
  <2>2. /\ \A r, q \in Slots, t \in SessionIds' \ raced' : InUpdate(r, t)' /\ InUpdate(q, t)' => r = q
        /\ \A r \in Slots, t \in SessionIds' \ raced' :
             InUpdate(r, t)' => ~(orch'.at = "write" /\ orch'.session = t)
    BY <1>1, <1>2, <1>6, <1>8 DEF Updating, Inv
  <2>3. \A r \in Slots : Writes(r)' =>
          /\ SameSession(req[r].row, req[r].session)'
          /\ req'[r].session \notin raced' => req'[r].row = sessions'[req'[r].session]
    BY <1>1, <1>2, <1>3, <1>7 DEF Updating, Inv, SameSession
  <2>4. ASSUME NEW r \in Slots, req'[r].at \in {"updateTitle", "writeTitle"}
        PROVE  /\ req'[r].patch.workspace = sessions'[req'[r].session].workspace
               /\ req'[r].session \notin raced' => req'[r].patch.pr = sessions'[req'[r].session].pr
    <3>1. req'[r] = req[r] /\ Serves(r)
      BY <1>5, <2>4 DEF Serves
    <3>2. req[r].session \in SessionIds /\ (req[r].session = s => InUpdate(r, s)')
      BY <2>4, <3>1 DEF Updating, Inv, InUpdate
    <3>3. req[r].session \notin raced => req[r].session # s
      BY <3>2 DEF Writing
    <3> QED BY <1>1, <1>2, <1>3, <2>4, <3>1, <3>2, <3>3 DEF Updating, Inv
  <2>5. orch'.at = "write" =>
          /\ orch'.session \in SessionIds'
          /\ SameSession(orch.row, orch.session)'
          /\ orch'.session \notin raced' => orch'.row = sessions'[orch'.session]
          /\ orch'.patch \in Contexts => /\ orch'.patch.workspace = orch'.row.workspace
                                         /\ orch'.patch.title = orch'.row.title
                                         /\ orch'.patch.pr = "pr"
    BY <1>1, <1>2, <1>3, <1>8 DEF Updating, Inv, SameSession
  <2> QED BY <2>1, <2>2, <2>3, <2>4, <2>5 DEF Updating
<1>10. Starting'
  <2>1. \A r \in Slots : req'[r].at \in {"view", "enqueue"} => req'[r].session \in announced'
    <3>1. \A r \in Slots : req'[r].at \in {"view", "enqueue"} => Serves(r)'
      BY DEF Serves
    <3> QED BY <1>1, <1>4, <3>1 DEF Starting, Inv
  <2>2. \A t \in SessionIds' : sessions'[t].status = "COMPLETED" => t \in visits'
    BY <1>1, <1>2 DEF Starting, Inv
  <2>3. \A r \in Slots : Writes(r)' /\ req'[r].row.status = "COMPLETED" => req'[r].session \in visits'
    BY <1>1, <1>7 DEF Starting, Inv
  <2>4. orch'.at = "write" =>
          /\ orch'.session \in announced'
          /\ orch'.row.status = "COMPLETED" => orch'.session \in visits'
          /\ orch'.patch = [status |-> "COMPLETED"] => orch'.session \in visits'
    BY <1>1, <1>8 DEF Starting, Inv
  <2> QED BY <2>1, <2>2, <2>3, <2>4 DEF Starting
<1>11. RecordsSurvive'
  BY <1>1, <1>2 DEF Writing, RecordsSurvive, Inv
<1>12. StartIsWhole'
  <2>1. visits' \subseteq announced'
    BY <1>1 DEF StartIsWhole, Inv
  <2>2. ASSUME NEW t \in SessionIds' \ (cut' \cup raced'), sessions'[t].status = "RUNNING"
        PROVE  t \in visits' \/ \E r \in Slots : t \in StartsNow(r)'
    <3>1. CASE t = s
      BY <1>1, <1>2, <2>2, <3>1 DEF Writing
    <3>2. CASE t # s
      <4>1. t \in visits \/ \E r \in Slots : t \in StartsNow(r)
        BY <1>1, <1>2, <2>2, <3>2 DEF StartIsWhole, Inv
      <4>2. \A q \in Slots : StartsNow(q) \subseteq StartsNow(q)'
        BY DEF Writing
      <4> QED BY <1>1, <4>1, <4>2
    <3> QED BY <3>1, <3>2
  <2> QED BY <2>1, <2>2 DEF StartIsWhole
<1> QED BY <1>9, <1>10, <1>11, <1>12

(* A row, or its context, is read to be written back; whoever opens an     *)
(* update while another is open races with it.                             *)
Reading(s) ==
  /\ s \in SessionIds
  /\ sessions' = sessions /\ announced' = announced /\ visits' = visits
  /\ cut' = cut /\ intended' = intended
  /\ raced' = raced \/ raced' = raced \cup {s}
  /\ \A q \in Slots : Serves(q)' =>
       \/ req'[q] = req[q]
       \/ /\ req'[q].at \in {"updateTitle", "writeTitle", "writeStarted"} /\ req'[q].session = s
          /\ Writes(q)' => req'[q].row = sessions[s]
          /\ req'[q].at \in {"updateTitle", "writeTitle"} =>
               /\ req'[q].patch.workspace = sessions[s].workspace
               /\ s \notin raced' => req'[q].patch.pr = sessions[s].pr
  /\ s \notin raced' =>
       /\ \A p, q \in Slots : InUpdate(p, s)' /\ InUpdate(q, s)' => p = q
       /\ \A q \in Slots : InUpdate(q, s)' => ~(orch'.at = "write" /\ orch'.session = s)
  /\ \/ orch' = orch
     \/ /\ orch'.session = s /\ orch'.row = sessions[s] /\ s \in announced
        /\ orch'.patch = [status |-> "COMPLETED"] => s \in visits
        /\ orch'.patch \in Contexts => /\ orch'.patch.workspace = sessions[s].workspace
                                       /\ orch'.patch.title = sessions[s].title
                                       /\ orch'.patch.pr = "pr"
  /\ \A q \in Slots : StartsNow(q) \subseteq StartsNow(q)'

(* ... and one that reads a row it is going to write.                      *)
LEMMA ReadingKeeps ==
  ASSUME Inv, TypeOK', NEW s, Reading(s)
  PROVE  Updating' /\ Starting' /\ RecordsSurvive' /\ StartIsWhole'
<1>1. /\ s \in SessionIds /\ SessionIds' = SessionIds
      /\ sessions' = sessions /\ announced' = announced /\ visits' = visits
      /\ cut' = cut /\ intended' = intended
      /\ raced' = raced \/ raced' = raced \cup {s}
  BY DEF Reading, SessionIds
<1>2. ASSUME NEW q \in Slots, Serves(q)'
      PROVE  \/ req'[q] = req[q] /\ Serves(q)
             \/ /\ req'[q].at \in {"updateTitle", "writeTitle", "writeStarted"} /\ req'[q].session = s
                /\ Writes(q)' => req'[q].row = sessions[s]
                /\ req'[q].at \in {"updateTitle", "writeTitle"} =>
                     /\ req'[q].patch.workspace = sessions[s].workspace
                     /\ s \notin raced' => req'[q].patch.pr = sessions[s].pr
  BY <1>2 DEF Reading, Serves
<1>3. \A q \in Slots : /\ Writes(q)' => Serves(q)'
                       /\ req'[q].at \in {"updateTitle", "writeTitle", "writeStarted"} => Serves(q)'
                       /\ req'[q].at \in {"view", "enqueue"} => Serves(q)'
  BY DEF Writes, Serves
<1>4. \A q \in Slots, t \in SessionIds : t # s /\ InUpdate(q, t)' => InUpdate(q, t)
  BY <1>2, <1>3 DEF InUpdate
<1>5. Updating'
  <2>1. \A q \in Slots : Serves(q)' => req'[q].session \in SessionIds'
    BY <1>1, <1>2 DEF Updating, Inv
  <2>2. ASSUME NEW t \in SessionIds' \ raced'
        PROVE  /\ \A r, q \in Slots : InUpdate(r, t)' /\ InUpdate(q, t)' => r = q
               /\ \A r \in Slots : InUpdate(r, t)' => ~(orch'.at = "write" /\ orch'.session = t)
    <3>1. CASE t = s
      BY <2>2, <3>1 DEF Reading
    <3>2. CASE t # s
      <4>1. t \in SessionIds \ raced /\ \A q \in Slots : InUpdate(q, t)' => InUpdate(q, t)
        BY <1>1, <1>4, <2>2, <3>2
      <4>2. orch'.at = "write" /\ orch'.session = t => orch' = orch
        BY <3>2 DEF Reading
      <4> QED BY <4>1, <4>2 DEF Updating, Inv
    <3> QED BY <3>1, <3>2
  <2>3. ASSUME NEW r \in Slots, Writes(r)'
        PROVE  /\ SameSession(req[r].row, req[r].session)'
               /\ req'[r].session \notin raced' => req'[r].row = sessions'[req'[r].session]
    <3>1. Serves(r)'
      BY <1>3, <2>3
    <3>2. CASE req'[r] = req[r]
      <4>1. Writes(r)
        BY <2>3, <3>2 DEF Writes
      <4> QED BY <1>1, <3>2, <4>1 DEF Updating, Inv, SameSession
    <3>3. CASE req'[r].session = s /\ req'[r].row = sessions[s]
      BY <1>1, <3>3 DEF SameSession
    <3> QED BY <1>2, <2>3, <3>1, <3>2, <3>3
  <2>4. ASSUME NEW r \in Slots, req'[r].at \in {"updateTitle", "writeTitle"}
        PROVE  /\ req'[r].patch.workspace = sessions'[req'[r].session].workspace
               /\ req'[r].session \notin raced' => req'[r].patch.pr = sessions'[req'[r].session].pr
    <3>1. Serves(r)'
      BY <1>3, <2>4
    <3>2. CASE req'[r] = req[r]
      BY <1>1, <2>4, <3>2 DEF Updating, Inv
    <3> QED BY <1>1, <1>2, <2>4, <3>1, <3>2
  <2>5. orch'.at = "write" =>
          /\ orch'.session \in SessionIds'
          /\ SameSession(orch.row, orch.session)'
          /\ orch'.session \notin raced' => orch'.row = sessions'[orch'.session]
          /\ orch'.patch \in Contexts => /\ orch'.patch.workspace = orch'.row.workspace
                                         /\ orch'.patch.title = orch'.row.title
                                         /\ orch'.patch.pr = "pr"
    <3>1. CASE orch' = orch
      BY <1>1, <3>1 DEF Updating, Inv, SameSession
    <3>2. CASE orch' # orch
      BY <1>1, <3>2 DEF Reading, SameSession
    <3> QED BY <3>1, <3>2
  <2> QED BY <2>1, <2>2, <2>3, <2>4, <2>5 DEF Updating
<1>6. Starting'
  <2>1. \A r \in Slots : req'[r].at \in {"view", "enqueue"} => req'[r].session \in announced'
    BY <1>1, <1>2, <1>3 DEF Starting, Inv
  <2>2. \A t \in SessionIds' : sessions'[t].status = "COMPLETED" => t \in visits'
    BY <1>1 DEF Starting, Inv
  <2>3. ASSUME NEW r \in Slots, Writes(r)', req'[r].row.status = "COMPLETED"
        PROVE  req'[r].session \in visits'
    <3>1. Serves(r)'
      BY <1>3, <2>3
    <3>2. CASE req'[r] = req[r]
      <4>1. Writes(r)
        BY <2>3, <3>2 DEF Writes
      <4> QED BY <1>1, <2>3, <3>2, <4>1 DEF Starting, Inv
    <3>3. CASE req'[r].session = s /\ req'[r].row = sessions[s]
      BY <1>1, <2>3, <3>3 DEF Starting, Inv
    <3> QED BY <1>2, <2>3, <3>1, <3>2, <3>3
  <2>4. orch'.at = "write" =>
          /\ orch'.session \in announced'
          /\ orch'.row.status = "COMPLETED" => orch'.session \in visits'
          /\ orch'.patch = [status |-> "COMPLETED"] => orch'.session \in visits'
    <3>1. CASE orch' = orch
      BY <1>1, <3>1 DEF Starting, Inv
    <3>2. CASE orch' # orch
      BY <1>1, <3>2 DEF Reading, Starting, Inv
    <3> QED BY <3>1, <3>2
  <2> QED BY <2>1, <2>2, <2>3, <2>4 DEF Starting
<1>7. RecordsSurvive'
  BY <1>1 DEF RecordsSurvive, Inv
<1>8. StartIsWhole'
  <2>1. visits' \subseteq announced'
    BY <1>1 DEF StartIsWhole, Inv
  <2>2. ASSUME NEW t \in SessionIds' \ (cut' \cup raced'), sessions'[t].status = "RUNNING"
        PROVE  t \in visits' \/ \E r \in Slots : t \in StartsNow(r)'
    <3>1. t \in visits \/ \E r \in Slots : t \in StartsNow(r)
      BY <1>1, <2>2 DEF StartIsWhole, Inv
    <3>2. \A q \in Slots : StartsNow(q) \subseteq StartsNow(q)'
      BY DEF Reading
    <3> QED BY <1>1, <3>1, <3>2
  <2> QED BY <2>1, <2>2 DEF StartIsWhole
<1> QED BY <1>5, <1>6, <1>7, <1>8
-----------------------------------------------------------------------------
(* A message, or what the model made of it, has been handled, under the    *)
(* key of its thread: it goes on, with its own number or with that of the  *)
(* draft it completes, or it ends, and may leave a draft.                  *)
Moved(r, key) ==
  /\ req'[r].at \in {"parse", "create"} /\ req'[r].key = key
  /\ req'[r].user = req[r].user /\ req'[r].project = req[r].project
  /\ req'[r].thread = req[r].thread

Handled(r, key) ==
  /\ req[r].at \in {"message", "parse"} /\ key \in Keys
  /\ req[r].at = "message" => key = ThreadKey(req[r].thread)
  /\ req[r].at = "parse" => key = req[r].key
  /\ req' \in [Slots -> AllRequests] /\ \A q \in Slots \ {r} : req'[q] = req[q]
  /\ \/ req'[r] = Idle /\ pendingByThreadId' = pendingByThreadId
     \/ /\ Moved(r, key) /\ req'[r].number = req[r].number
        /\ pendingByThreadId' = pendingByThreadId
     \/ /\ Moved(r, key) /\ key \in DOMAIN pendingByThreadId
        /\ req'[r].number = pendingByThreadId[key].number
        /\ pendingByThreadId' = Drop(pendingByThreadId, key)
     \/ /\ req'[r] = Idle
        /\ \E d \in Drafts :
             /\ pendingByThreadId' = Put(pendingByThreadId, key, d)
             /\ \/ d.number = req[r].number
                \/ key \in DOMAIN pendingByThreadId /\ d.number = pendingByThreadId[key].number

(* handleMessage of user-intake-agent.ts: the number of the message goes   *)
(* to the request that creates the session or to the draft.                *)
LEMMA MessageIsHandled ==
  ASSUME TypeOK, NEW r \in Slots, NEW answer \in Repos \cup {None}, HandleMessage(r, answer)
  PROVE  Handled(r, ThreadKey(req[r].thread))
<1> DEFINE key == ThreadKey(req[r].thread)
<1>1. req[r].at = "message" /\ req[r] \in Message
  BY HeldAt DEF HandleMessage, At, TypeOK
<1>2. key \in Keys
  BY <1>1, KeyTypes DEF Message
<1>3. /\ HasDraft(key) => IF IsComplete(Answered(pendingByThreadId[key], answer))
                          THEN /\ DiscardDraft(key)
                               /\ Executing(r, key, Answered(pendingByThreadId[key], answer))
                          ELSE /\ KeepDraft(key, Answered(pendingByThreadId[key], answer))
                               /\ Finish(r)
      /\ ~HasDraft(key) => /\ Go(r, With([req[r] EXCEPT !.at = "parse"], [key |-> key]))
                           /\ pendingByThreadId' = pendingByThreadId
  BY DEF HandleMessage
<1> HIDE DEF key
<1>4. CASE HasDraft(key)
  <2> DEFINE updated == Answered(pendingByThreadId[key], answer)
  <2>1. key \in DOMAIN pendingByThreadId /\ pendingByThreadId[key] \in Drafts
    BY <1>4 DEF HasDraft, TypeOK
  <2>2. updated \in Drafts /\ updated.number = pendingByThreadId[key].number
    BY <2>1 DEF Answered, Drafts
  <2> HIDE DEF updated
  <2>3. updated.number \in Nat /\ updated.autoStart \in BOOLEAN
    BY <2>2 DEF Drafts
  <2>4. CASE IsComplete(updated)
    <3>1. DiscardDraft(key) /\ Executing(r, key, updated)
      BY <1>3, <1>4, <2>4 DEF updated
    <3>2. /\ req' \in [Slots -> AllRequests] /\ \A q \in Slots \ {r} : req'[q] = req[q]
          /\ req'[r].at = "create" /\ req'[r].number = updated.number
          /\ req'[r].user = req[r].user /\ req'[r].project = req[r].project
          /\ req'[r].thread = req[r].thread /\ req'[r].key = key
      BY <1>1, <1>2, <2>3, <3>1, ExecutingMoves
    <3> QED BY <1>1, <1>2, <2>1, <2>2, <3>1, <3>2 DEF Handled, Moved, DiscardDraft, key
  <2>5. CASE ~IsComplete(updated)
    <3>1. KeepDraft(key, updated) /\ Finish(r)
      BY <1>3, <1>4, <2>5 DEF updated
    <3> QED BY <1>1, <1>2, <2>1, <2>2, <3>1, FinishMoves DEF Handled, KeepDraft, key
  <2> QED BY <2>4, <2>5
<1>5. CASE ~HasDraft(key)
  <2>1. /\ req' \in [Slots -> AllRequests] /\ \A q \in Slots \ {r} : req'[q] = req[q]
        /\ req'[r].at = "parse" /\ req'[r].number = req[r].number
        /\ req'[r].user = req[r].user /\ req'[r].project = req[r].project
        /\ req'[r].thread = req[r].thread /\ req'[r].key = key
    BY <1>1, <1>2, <1>3, <1>5, AskingMoves
  <2> QED BY <1>1, <1>2, <1>3, <1>5, <2>1 DEF Handled, Moved, key
<1> QED BY <1>4, <1>5

(* The same for a message that the parser has made a request of.           *)
LEMMA RequestIsHandled ==
  ASSUME TypeOK, NEW r \in Slots, NEW request \in ParsedRequests, HandleRequest(r, request)
  PROVE  Handled(r, req[r].key)
<1> DEFINE draft == [repo |-> request.repo, autoStart |-> request.autoStart,
                     number |-> req[r].number]
<1>1. req[r].at = "parse" /\ req[r] \in Asking
  BY HeldAt DEF HandleRequest, At, TypeOK
<1>2. req[r].key \in Keys /\ req[r].number \in Nat
  BY <1>1 DEF Asking
<1>3. CASE request.action # "START_SESSION"
  <2>1. Finish(r) /\ pendingByThreadId' = pendingByThreadId
    BY <1>3 DEF HandleRequest
  <2> QED BY <1>1, <1>2, <2>1, FinishMoves DEF Handled
<1>4. CASE request.action = "START_SESSION"
  <2>1. request.repo \in Repos \cup {None} /\ request.autoStart \in BOOLEAN
    BY <1>4, TaskTypes
  <2>2. draft \in Drafts /\ draft.number = req[r].number /\ draft.number \in Nat
        /\ draft.autoStart \in BOOLEAN
    BY <1>2, <2>1 DEF Drafts
  <2>3. IF IsComplete(request)
        THEN Executing(r, req[r].key, draft) /\ pendingByThreadId' = pendingByThreadId
        ELSE KeepDraft(req[r].key, draft) /\ Finish(r)
    BY <1>4 DEF HandleRequest
  <2> HIDE DEF draft
  <2>4. CASE IsComplete(request)
    <3>1. /\ req' \in [Slots -> AllRequests] /\ \A q \in Slots \ {r} : req'[q] = req[q]
          /\ req'[r].at = "create" /\ req'[r].number = draft.number
          /\ req'[r].user = req[r].user /\ req'[r].project = req[r].project
          /\ req'[r].thread = req[r].thread /\ req'[r].key = req[r].key
      BY <1>1, <1>2, <2>2, <2>3, <2>4, ExecutingMoves
    <3> QED BY <1>1, <1>2, <2>2, <2>3, <2>4, <3>1 DEF Handled, Moved
  <2>5. CASE ~IsComplete(request)
    BY <1>1, <1>2, <2>2, <2>3, <2>5, FinishMoves DEF Handled, KeepDraft
  <2> QED BY <2>4, <2>5
<1> QED BY <1>3, <1>4

(* The drafts stay drafts under keys.                                      *)
LEMMA DraftsAreTyped ==
  ASSUME TypeOK, NEW r \in Slots, NEW key, Handled(r, key)
  PROVE  /\ DOMAIN pendingByThreadId' \subseteq Keys
         /\ \A k \in DOMAIN pendingByThreadId' : pendingByThreadId'[k] \in Drafts
<1>1. key \in Keys
  BY DEF Handled
<1>2. CASE pendingByThreadId' = pendingByThreadId
  BY <1>2 DEF TypeOK
<1>3. CASE pendingByThreadId' = Drop(pendingByThreadId, key)
  BY <1>3 DEF TypeOK, Drop
<1>4. ASSUME NEW d \in Drafts, pendingByThreadId' = Put(pendingByThreadId, key, d)
      PROVE  /\ DOMAIN pendingByThreadId' \subseteq Keys
             /\ \A k \in DOMAIN pendingByThreadId' : pendingByThreadId'[k] \in Drafts
  BY <1>1, <1>4 DEF TypeOK, Put
<1> QED BY <1>2, <1>3, <1>4 DEF Handled

(* A session is created: its row, its workspace, and the request's way on. *)
LEMMA SessionIsCreated ==
  ASSUME Inv, NEW r \in Slots, CreateSession(r)
  PROVE  /\ req[r].at = "create" /\ Carries(r)
         /\ req' \in [Slots -> AllRequests] /\ \A q \in Slots \ {r} : req'[q] = req[q]
         /\ \/ req'[r] = Idle
            \/ req'[r].at = "start" /\ req'[r].session = Len(sessions) + 1
         /\ sessions' \in Seq(Rows) /\ Len(sessions') = Len(sessions) + 1
         /\ SessionIds' = SessionIds \cup {Len(sessions) + 1}
         /\ Len(sessions) + 1 \in Nat /\ Len(sessions) + 1 \notin SessionIds
         /\ \A s \in SessionIds : sessions'[s] = sessions[s]
         /\ LET row == sessions'[Len(sessions) + 1]
            IN  /\ row.user = req[r].user /\ row.project = req[r].project
                /\ row.goal = req[r].number /\ row.status = "CREATED"
                /\ row.workspace = req[r].key
         /\ req[r].key \in Keys \cup {None}
         /\ req[r].key = None => workspaceByThreadId' = workspaceByThreadId
         /\ req[r].key # None =>
              /\ req[r].thread \in Threads \cup Nat \cup {None}
              /\ workspaceByThreadId' =
                   LET bound == Put(workspaceByThreadId, Len(sessions) + 1, req[r].key)
                   IN  IF req[r].thread = None THEN bound
                       ELSE Put(bound, req[r].thread, req[r].key)
<1> DEFINE new == Len(sessions) + 1
           row == [user |-> req[r].user, project |-> req[r].project, goal |-> req[r].number,
                   status |-> "CREATED", title |-> None, pr |-> None, workspace |-> req[r].key]
<1>1. req[r].at = "create" /\ Carries(r) /\ req[r] \in Posted \cup Complete
  BY HeldAt DEF CreateSession, At, Carries, Inv, TypeOK
<1>2. /\ req[r].user \in Nat /\ req[r].number \in Nat /\ req[r].key \in Keys \cup {None}
      /\ req[r].thread \in Threads \cup Nat \cup {None} /\ req[r].autoStart \in BOOLEAN
  BY <1>1 DEF Posted, Complete
<1>3. req[r].project \in Nat
  BY <1>1 DEF Inv, Owning, TypeOK, ProjectIds
<1>4. sessions \in Seq(Rows) /\ Len(sessions) \in Nat /\ new \in Nat /\ SessionIds = 1 .. Len(sessions)
  BY DEF Inv, TypeOK, SessionIds
<1>5. row \in Rows
  BY <1>2, <1>3 DEF Rows, Statuses
<1>6. sessions' = Append(sessions, row)
  BY DEF CreateSession, InsertRow
<1>7. /\ row.user = req[r].user /\ row.project = req[r].project /\ row.goal = req[r].number
      /\ row.status = "CREATED" /\ row.workspace = req[r].key
  OBVIOUS
<1> HIDE DEF row
<1>8. /\ sessions' \in Seq(Rows) /\ Len(sessions') = new /\ sessions'[new] = row
      /\ SessionIds' = SessionIds \cup {new} /\ new \notin SessionIds
      /\ \A s \in SessionIds : sessions'[s] = sessions[s]
  BY <1>4, <1>5, <1>6, AppendProperties DEF SessionIds
<1>9. /\ req' \in [Slots -> AllRequests] /\ \A q \in Slots \ {r} : req'[q] = req[q]
      /\ \/ req'[r] = Idle
         \/ req'[r].at = "start" /\ req'[r].session = new
  <2>1. CASE req[r].autoStart
    <3> DEFINE next == [at |-> "start", session |-> new,
                        next |-> IF req[r].key = None THEN "enqueue" ELSE "view"]
    <3>1. Go(r, next)
      BY <2>1 DEF CreateSession
    <3>2. next \in Begun /\ next.at = "start" /\ next.session = new
      BY <1>4 DEF Begun
    <3> HIDE DEF next
    <3>3. next \in AllRequests
      BY <3>2 DEF AllRequests
    <3> QED BY <3>1, <3>2, <3>3, GoMoves DEF Inv
  <2>2. CASE ~req[r].autoStart
    BY <2>2, FinishMoves DEF CreateSession, Inv
  <2> QED BY <2>1, <2>2
<1>10. /\ req[r].key = None => workspaceByThreadId' = workspaceByThreadId
       /\ req[r].key # None => BindWorkspace(req[r].thread, new, req[r].key)
  BY DEF CreateSession, intakeVars
<1> HIDE DEF new
<1>11. req[r].key # None =>
         workspaceByThreadId' =
            LET bound == Put(workspaceByThreadId, new, req[r].key)
            IN  IF req[r].thread = None THEN bound
                ELSE Put(bound, req[r].thread, req[r].key)
  BY <1>10 DEF BindWorkspace
<1> QED BY <1>1, <1>2, <1>4, <1>7, <1>8, <1>9, <1>10, <1>11 DEF new

(* What is bound after that: the session, the thread if there is one, and  *)
(* what was bound before.                                                  *)
LEMMA BoundWorkspaces ==
  ASSUME Inv, NEW r \in Slots, CreateSession(r), req[r].key # None
  PROVE  /\ DOMAIN workspaceByThreadId' \subseteq Threads \cup Nat
         /\ \A k \in DOMAIN workspaceByThreadId' : workspaceByThreadId'[k] \in Keys
         /\ Len(sessions) + 1 \in DOMAIN workspaceByThreadId'
         /\ workspaceByThreadId'[Len(sessions) + 1] = req[r].key
         /\ \A k \in DOMAIN workspaceByThreadId \ {Len(sessions) + 1, req[r].thread} :
              k \in DOMAIN workspaceByThreadId' /\ workspaceByThreadId'[k] = workspaceByThreadId[k]
         /\ req[r].thread # None =>
              /\ req[r].thread \in DOMAIN workspaceByThreadId'
              /\ workspaceByThreadId'[req[r].thread] = req[r].key
<1> DEFINE new == Len(sessions) + 1
           bound == Put(workspaceByThreadId, new, req[r].key)
<1>1. /\ new \in Nat /\ req[r].key \in Keys /\ req[r].thread \in Threads \cup Nat \cup {None}
      /\ workspaceByThreadId' = IF req[r].thread = None THEN bound
                                ELSE Put(bound, req[r].thread, req[r].key)
  BY SessionIsCreated, Zenon
<1>2. /\ DOMAIN workspaceByThreadId \subseteq Threads \cup Nat
      /\ \A k \in DOMAIN workspaceByThreadId : workspaceByThreadId[k] \in Keys
  BY DEF Inv, TypeOK
<1>3. /\ DOMAIN bound = DOMAIN workspaceByThreadId \cup {new} /\ bound[new] = req[r].key
      /\ \A k \in DOMAIN workspaceByThreadId \ {new} : bound[k] = workspaceByThreadId[k]
  BY DEF Put
<1> HIDE DEF new, bound
<1>4. CASE req[r].thread = None
  BY <1>1, <1>2, <1>3, <1>4 DEF new
<1>5. CASE req[r].thread # None
  <2>1. /\ DOMAIN workspaceByThreadId' = DOMAIN bound \cup {req[r].thread}
        /\ workspaceByThreadId'[req[r].thread] = req[r].key
        /\ \A k \in DOMAIN bound \ {req[r].thread} : workspaceByThreadId'[k] = bound[k]
    BY <1>1, <1>5 DEF Put
  <2> QED BY <1>1, <1>2, <1>3, <1>5, <2>1 DEF new
<1> QED BY <1>4, <1>5
-----------------------------------------------------------------------------
(* A table stays one of its rows.                                          *)
LEMMA RowIsTyped ==
  ASSUME NEW S, NEW table \in Seq(S), NEW i \in 1 .. Len(table)
  PROVE  table[i] \in S
OBVIOUS

(* A table with one row replaced is a table, ...                           *)
LEMMA RowIsReplaced ==
  ASSUME NEW S, NEW table \in Seq(S), NEW i \in 1 .. Len(table), NEW row \in S
  PROVE  [table EXCEPT ![i] = row] \in Seq(S)
OBVIOUS

(* ... and so is one with a row added.                                     *)
LEMMA RowIsAdded ==
  ASSUME NEW S, NEW table \in Seq(S), NEW row \in S
  PROVE  Append(table, row) \in Seq(S)
OBVIOUS

(* The types, action by action.                                            *)
LEMMA TypeNext == Inv /\ [Next]_vars => TypeOK'
<1> SUFFICES ASSUME Inv, [Next]_vars PROVE TypeOK'
  OBVIOUS
<1> USE DEF accountVars, intakeVars, outVars, bounds, histVars
<1>0. TypeOK /\ Updating
  BY DEF Inv
<1>k. {"account", "project", "session", "message", "update", "fault"} \subseteq Kinds
  BY DEF Kinds
<1>1. ASSUME NEW r \in Slots, NEW person \in People, Register(r, person) PROVE TypeOK'
  <2> DEFINE next == [at |-> "hash", person |-> person]
  <2>1. next \in Hashing
    BY DEF Hashing
  <2>2. next \in AllRequests /\ Go(r, next) /\ Arrives(r, "account")
    BY <1>1, <2>1 DEF AllRequests, Register
  <2> HIDE DEF next
  <2>3. req' \in [Slots -> AllRequests] /\ arrived' \in Nat /\ left' \in [Kinds -> Nat]
    BY <1>0, <1>k, <2>2, GoMoves, Arriving
  <2> QED BY <1>0, <1>1, <2>3 DEF TypeOK, Register, SessionIds
<1>2. ASSUME NEW r \in Slots, NEW person \in People, Login(r, person) PROVE TypeOK'
  <2>1. PICK u \in UsersWithEmail(person) : IssueToken(u)
    BY <1>2 DEF Login
  <2>2. [user |-> u, live |-> TRUE] \in [user : Nat, live : BOOLEAN]
    BY <1>0, <2>1 DEF UsersWithEmail, UserIds, TypeOK
  <2>3. tokens' \in Seq([user : Nat, live : BOOLEAN])
    BY <1>0, <2>1, <2>2, AppendProperties DEF IssueToken, TypeOK
  <2>4. arrived' \in Nat /\ left' \in [Kinds -> Nat]
    BY <1>0, <1>k, <1>2, Arriving DEF Login
  <2> QED BY <1>0, <1>2, <2>3, <2>4 DEF TypeOK, Login, SessionIds
<1>3. ASSUME NEW r \in Slots, CreateUser(r) PROVE TypeOK'
  <2>1. req' \in [Slots -> AllRequests]
    BY <1>0, <1>3, FinishMoves DEF CreateUser
  <2>2. req[r].person \in People
    BY <1>0, <1>3, HeldAt DEF CreateUser, At, TypeOK, Hashing
  <2>3. users' \in Seq(People)
    <3>1. users' = Append(users, req[r].person) \/ users' = users
      BY <1>3 DEF CreateUser, InsertUser
    <3>2. users \in Seq(People)
      BY <1>0 DEF TypeOK
    <3>3. Append(users, req[r].person) \in Seq(People)
      BY <2>2, <3>2, RowIsAdded
    <3> QED BY <3>1, <3>2, <3>3
  <2>4. [user |-> Len(users) + 1, live |-> TRUE] \in [user : Nat, live : BOOLEAN]
    BY <1>0 DEF TypeOK
  <2>5. tokens' \in Seq([user : Nat, live : BOOLEAN])
    <3>1. tokens' = Append(tokens, [user |-> Len(users) + 1, live |-> TRUE]) \/ tokens' = tokens
      BY <1>3 DEF CreateUser, IssueToken
    <3>2. tokens \in Seq([user : Nat, live : BOOLEAN])
      BY <1>0 DEF TypeOK
    <3>3. Append(tokens, [user |-> Len(users) + 1, live |-> TRUE]) \in Seq([user : Nat, live : BOOLEAN])
      BY <2>4, <3>2, RowIsAdded
    <3> QED BY <3>1, <3>2, <3>3
  <2> QED BY <1>0, <1>3, <2>1, <2>3, <2>5 DEF TypeOK, CreateUser, SessionIds
<1>4. ASSUME NEW r \in Slots, Fail(r) PROVE TypeOK'
  <2>1. req' \in [Slots -> AllRequests] /\ left' \in [Kinds -> Nat]
    BY <1>0, <1>k, <1>4, FinishMoves, Spending DEF Fail
  <2> QED BY <1>0, <1>4, <2>1 DEF TypeOK, Fail, SessionIds
<1>5. ASSUME NEW r \in Slots, NEW user \in UserIds, NEW repo \in Repos, PostProject(r, user, repo)
      PROVE  TypeOK'
  <2>1. arrived' \in Nat /\ left' \in [Kinds -> Nat]
    BY <1>0, <1>k, <1>5, Arriving DEF PostProject, Authorised
  <2>2. [user |-> user, repo |-> repo, deleted |-> FALSE]
          \in [user : Nat, repo : Repos \cup {Blank}, deleted : BOOLEAN]
    BY <1>0 DEF TypeOK, UserIds
  <2>3. projects' \in Seq([user : Nat, repo : Repos \cup {Blank}, deleted : BOOLEAN])
    BY <1>0, <1>5, <2>2, AppendProperties DEF PostProject, InsertProject, TypeOK
  <2> QED BY <1>0, <1>5, <2>1, <2>3 DEF TypeOK, PostProject, SessionIds
<1>6. ASSUME NEW r \in Slots, NEW user \in UserIds, NEW p \in ProjectIds,
             \/ DeleteProject(r, user, p)
             \/ \E repo \in Repos : PatchProject(r, user, p, repo)
      PROVE  TypeOK'
  <2>1. arrived' \in Nat /\ left' \in [Kinds -> Nat]
    BY <1>0, <1>k, <1>6, Arriving DEF PatchProject, DeleteProject, Authorised
  <2>2. projects \in Seq([user : Nat, repo : Repos \cup {Blank}, deleted : BOOLEAN])
        /\ p \in 1 .. Len(projects)
    BY <1>0 DEF TypeOK, ProjectIds
  <2>3. projects[p] \in [user : Nat, repo : Repos \cup {Blank}, deleted : BOOLEAN]
    BY <2>2, RowIsTyped
  <2>4. \A new \in [user : Nat, repo : Repos \cup {Blank}, deleted : BOOLEAN] :
          [projects EXCEPT ![p] = new]
            \in Seq([user : Nat, repo : Repos \cup {Blank}, deleted : BOOLEAN])
    BY <2>2, RowIsReplaced
  <2>5. \/ projects' = [projects EXCEPT ![p] = [projects[p] EXCEPT !.deleted = TRUE]]
        \/ \E repo \in Repos : projects' = [projects EXCEPT ![p] = [projects[p] EXCEPT !.repo = repo]]
    BY <1>6 DEF DeleteProject, PatchProject
  <2>6. /\ [projects[p] EXCEPT !.deleted = TRUE]
             \in [user : Nat, repo : Repos \cup {Blank}, deleted : BOOLEAN]
        /\ \A repo \in Repos : [projects[p] EXCEPT !.repo = repo]
             \in [user : Nat, repo : Repos \cup {Blank}, deleted : BOOLEAN]
    BY <2>3
  <2>7. projects' \in Seq([user : Nat, repo : Repos \cup {Blank}, deleted : BOOLEAN])
    BY <2>4, <2>5, <2>6
  <2>8. UNCHANGED <<sessions, users, tokens, intakeVars, req, outVars, histVars>>
    BY <1>6 DEF DeleteProject, PatchProject
  <2> QED BY <1>0, <2>1, <2>7, <2>8 DEF TypeOK, SessionIds
<1>7. ASSUME NEW r \in Slots, NEW user \in UserIds, NEW p \in ProjectIds \cup {None},
             NEW repo \in Repos \cup {None}, NEW autoStart \in BOOLEAN,
             PostSession(r, user, p, repo, autoStart)
      PROVE  TypeOK'
  <2>1. arrived' \in Nat /\ left' \in [Kinds -> Nat]
    BY <1>0, <1>k, <1>7, Arriving DEF PostSession, Authorised
  <2>2. req' \in [Slots -> AllRequests]
    BY <1>0, <1>7, PostArrives
  <2> QED BY <1>0, <1>7, <2>1, <2>2 DEF TypeOK, PostSession, SessionIds
<1>8. ASSUME NEW r \in Slots, NEW user \in UserIds, NEW p \in ProjectIds \cup {None},
             NEW thread \in Threads \cup SessionIds \cup {None}, PostMessage(r, user, thread, p)
      PROVE  TypeOK'
  <2>1. arrived' \in Nat /\ left' \in [Kinds -> Nat]
    BY <1>0, <1>k, <1>8, Arriving DEF PostMessage, Authorised
  <2>2. req' \in [Slots -> AllRequests]
    BY <1>0, <1>8, MessageArrives
  <2> QED BY <1>0, <1>8, <2>1, <2>2 DEF TypeOK, PostMessage, SessionIds
<1>9. ASSUME NEW r \in Slots, NEW user \in UserIds, NEW s \in SessionIds,
             PostStart(r, user, s) \/ PatchSession(r, user, s)
      PROVE  TypeOK'
  <2>1. arrived' \in Nat /\ left' \in [Kinds -> Nat]
    BY <1>0, <1>k, <1>9, Arriving DEF PostStart, PatchSession, Authorised
  <2>2. req' \in [Slots -> AllRequests]
    BY <1>0, <1>9, StartArrives, RenameArrives
  <2>3. UNCHANGED <<sessions, accountVars, intakeVars, outVars, intended>>
    BY <1>9 DEF PostStart, PatchSession
  <2> QED BY <1>0, <2>1, <2>2, <2>3 DEF TypeOK, SessionIds
<1>10. ASSUME NEW r \in Slots, NewProject(r) PROVE TypeOK'
  <2>1. req' \in [Slots -> AllRequests]
    BY <1>0, <1>10, ProjectArrives
  <2>2. req[r] \in Posted \cup Message
    BY <1>0, <1>10, HeldAt DEF NewProject, At, TypeOK
  <2>3. [user |-> req[r].user, repo |-> IF req[r].repo = None THEN Blank ELSE req[r].repo,
         deleted |-> FALSE] \in [user : Nat, repo : Repos \cup {Blank}, deleted : BOOLEAN]
    BY <2>2 DEF Posted, Message
  <2>4. projects' \in Seq([user : Nat, repo : Repos \cup {Blank}, deleted : BOOLEAN])
    BY <1>0, <1>10, <2>3, AppendProperties DEF NewProject, InsertProject, TypeOK
  <2> QED BY <1>0, <1>10, <2>1, <2>4 DEF TypeOK, NewProject, SessionIds
<1>11. ASSUME NEW r \in Slots, CreateSession(r) PROVE TypeOK'
  <2>1. /\ req' \in [Slots -> AllRequests] /\ sessions' \in Seq(Rows)
        /\ SessionIds' = SessionIds \cup {Len(sessions) + 1}
    BY <1>11, SessionIsCreated
  <2>2. intended' = sessions' /\ UNCHANGED <<accountVars, outVars, bounds, pendingByThreadId>>
    BY <1>11 DEF CreateSession
  <2>3. /\ DOMAIN workspaceByThreadId' \subseteq Threads \cup Nat
        /\ \A k \in DOMAIN workspaceByThreadId' : workspaceByThreadId'[k] \in Keys
    <3>1. CASE req[r].key = None
      <4>1. workspaceByThreadId' = workspaceByThreadId
        BY <1>11, <3>1 DEF CreateSession
      <4> QED BY <1>0, <4>1 DEF TypeOK
    <3>2. CASE req[r].key # None
      BY <1>11, <3>2, BoundWorkspaces
    <3> QED BY <3>1, <3>2
  <2>4. announced' \subseteq SessionIds'
    BY <1>0, <2>1, <2>2 DEF TypeOK
  <2> QED BY <1>0, <2>1, <2>2, <2>3, <2>4 DEF TypeOK
<1>12. ASSUME NEW r \in Slots, StartSession(r) \/ ViewStarted(r) \/ EmitStarted(r) \/ EnqueueVisit(r)
       PROVE  TypeOK'
  <2>1. req[r] \in Begun /\ Serves(r)
    BY <1>0, <1>12, HeldAt DEF StartSession, ViewStarted, EmitStarted, EnqueueVisit, At, TypeOK, Serves
  <2>2. req[r].next \in {"enqueue", "view"} /\ req[r].session \in SessionIds
    BY <1>0, <2>1 DEF Begun, Updating
  <2>3. \/ Finish(r)
        \/ \E point \in {"start", "update", "emit", "view", "enqueue"} : Step(r, point)
    BY <1>12, <2>2 DEF StartSession, ViewStarted, EmitStarted, EnqueueVisit
  <2>4. req[r].at \in {"start", "update", "emit", "view", "enqueue"}
    BY <2>1 DEF Begun
  <2>5. req' \in [Slots -> AllRequests]
    BY <1>0, <2>3, <2>4, FinishMoves, StepMoves
  <2>6. announced' \subseteq SessionIds
    BY <1>0, <1>12, <2>2 DEF TypeOK, StartSession, ViewStarted, EmitStarted, EnqueueVisit
  <2>7. UNCHANGED <<sessions, accountVars, intakeVars, orch, bounds, histVars>>
    BY <1>12 DEF StartSession, ViewStarted, EmitStarted, EnqueueVisit
  <2> QED BY <1>0, <2>5, <2>6, <2>7 DEF TypeOK, SessionIds
<1>13. ASSUME NEW r \in Slots, ReadStarted(r) \/ ReadRenamed(r) PROVE TypeOK'
  <2>1. req[r].session \in SessionIds
    BY <1>0, <1>13 DEF ReadStarted, ReadRenamed, At, Updating, Serves
  <2>2. req' \in [Slots -> AllRequests]
    BY <1>0, <1>13, <2>1, RowIsRead, RenameReads
  <2>3. UNCHANGED <<sessions, accountVars, intakeVars, outVars, bounds, intended>>
    BY <1>13 DEF ReadStarted, ReadRenamed
  <2> QED BY <1>0, <2>2, <2>3 DEF TypeOK, SessionIds
<1>14. ASSUME NEW r \in Slots, WriteStarted(r) PROVE TypeOK'
  <2>1. req' \in [Slots -> AllRequests] /\ req[r].at = "writeStarted" /\ req[r] \in Begins
    BY <1>0, <1>14, StartIsWritten
  <2>2. req[r].session \in SessionIds /\ req[r].row \in Rows
    BY <1>0, <2>1 DEF Updating, Serves, Begins
  <2>3. "RUNNING" \in Statuses /\ intended[req[r].session] \in Rows
    BY <1>0, <2>2 DEF Statuses, TypeOK, SessionIds
  <2>4. /\ Patched(req[r].row, [status |-> "RUNNING"]) \in Rows
        /\ Patched(intended[req[r].session], [status |-> "RUNNING"]) \in Rows
    BY <2>2, <2>3, StatusIsPatched
  <2>5. sessions' \in Seq(Rows) /\ Len(sessions') = Len(sessions) /\ SessionIds' = SessionIds
        /\ sessions'[req[r].session] \in Rows
    BY <1>0, <1>14, <2>2, <2>4, RowIsWritten DEF WriteStarted
  <2>6. intended' \in Seq(Rows) /\ Len(intended') = Len(intended)
    BY <1>0, <1>14, <2>2, <2>4, <2>5, Intending DEF WriteStarted
  <2> QED BY <1>0, <1>14, <2>1, <2>5, <2>6 DEF TypeOK, WriteStarted
<1>15. ASSUME NEW r \in Slots, WriteRenamed(r) PROVE TypeOK'
  <2>1. req' \in [Slots -> AllRequests] /\ req[r].at = "writeTitle" /\ req[r] \in Renamed
    BY <1>0, <1>15, FinishMoves, HeldAt DEF WriteRenamed, At, TypeOK
  <2>2. req[r].session \in SessionIds /\ req[r].row \in Rows /\ req[r].patch \in Contexts
    BY <1>0, <2>1 DEF Updating, Serves, Renamed
  <2>3. req[r].patch.title \in Nat \cup {None} /\ intended[req[r].session] \in Rows
    BY <1>0, <2>2 DEF Contexts, TypeOK, SessionIds
  <2>4. /\ Patched(req[r].row, req[r].patch) \in Rows
        /\ Patched(intended[req[r].session], [title |-> req[r].patch.title]) \in Rows
    BY <2>2, <2>3, ContextIsPatched, TitleIsPatched
  <2>5. sessions' \in Seq(Rows) /\ Len(sessions') = Len(sessions) /\ SessionIds' = SessionIds
        /\ sessions'[req[r].session] \in Rows
    BY <1>0, <1>15, <2>2, <2>4, RowIsWritten DEF WriteRenamed
  <2>6. intended' \in Seq(Rows) /\ Len(intended') = Len(intended)
    BY <1>0, <1>15, <2>2, <2>4, <2>5, Intending DEF WriteRenamed
  <2> QED BY <1>0, <1>15, <2>1, <2>5, <2>6 DEF TypeOK, WriteRenamed
<1>16. ASSUME NEW r \in Slots, NEW key, Handled(r, key),
              UNCHANGED <<sessions, accountVars, workspaceByThreadId, outVars, bounds, histVars>>
       PROVE  TypeOK'
  <2>1. /\ DOMAIN pendingByThreadId' \subseteq Keys
        /\ \A k \in DOMAIN pendingByThreadId' : pendingByThreadId'[k] \in Drafts
    BY <1>0, <1>16, DraftsAreTyped
  <2>2. req' \in [Slots -> AllRequests]
    BY <1>16 DEF Handled
  <2> QED BY <1>0, <1>16, <2>1, <2>2 DEF TypeOK, SessionIds
<1>17. ASSUME NEW r \in Slots, NEW answer \in Repos \cup {None}, HandleMessage(r, answer) PROVE TypeOK'
  BY <1>0, <1>16, <1>17, MessageIsHandled DEF HandleMessage
<1>18. ASSUME NEW r \in Slots, NEW request \in ParsedRequests, HandleRequest(r, request) PROVE TypeOK'
  BY <1>0, <1>16, <1>18, RequestIsHandled DEF HandleRequest
<1>19. ASSUME NEW t \in TokenIds, Logout(t) PROVE TypeOK'
  <2>1. tokens \in Seq([user : Nat, live : BOOLEAN]) /\ t \in 1 .. Len(tokens)
    BY <1>0 DEF TypeOK, TokenIds
  <2>2. [tokens[t] EXCEPT !.live = FALSE] \in [user : Nat, live : BOOLEAN]
    <3>1. tokens[t] \in [user : Nat, live : BOOLEAN]
      BY <2>1, RowIsTyped
    <3> QED BY <3>1
  <2>3. tokens' = [tokens EXCEPT ![t] = [tokens[t] EXCEPT !.live = FALSE]]
    BY <1>19 DEF Logout, Revoke
  <2>4. tokens' \in Seq([user : Nat, live : BOOLEAN])
    BY <2>1, <2>2, <2>3, RowIsReplaced
  <2> QED BY <1>0, <1>19, <2>4 DEF TypeOK, Logout, SessionIds
<1>20. ASSUME NEW s \in SessionIds, OrchestratorReads(s) PROVE TypeOK'
  <2>1. orch' \in StatusUpdates \cup PrUpdates /\ left' \in [Kinds -> Nat]
    BY <1>0, <1>k, <1>20, OrchestratorHolds, Spending DEF OrchestratorReads
  <2> QED BY <1>0, <1>20, <2>1 DEF TypeOK, OrchestratorReads, SessionIds
<1>21. CASE OrchestratorWrites
  <2>1. orch.at = "write" /\ orch.session \in SessionIds
    BY <1>0, <1>21 DEF OrchestratorWrites, Updating
  <2> DEFINE change == IF "pr" \in DOMAIN orch.patch THEN [pr |-> "pr"] ELSE orch.patch
  <2>2. intended[orch.session] \in Rows /\ {"FAILED", "COMPLETED"} \subseteq Statuses
    BY <1>0, <2>1 DEF TypeOK, SessionIds, Statuses
  <2>3. Patched(orch.row, orch.patch) \in Rows
    BY <1>0, <2>1, OrchestratorPatches
  <2>4. Patched(intended[orch.session], change) \in Rows
    <3>1. CASE orch \in StatusUpdates
      BY <1>0, <2>1, <2>2, <3>1, OrchestratorPatches, StatusIsPatched
    <3>2. CASE orch \in PrUpdates
      BY <1>0, <2>1, <2>2, <3>2, OrchestratorPatches, PrIsPatched
    <3> QED BY <1>0, <2>1, <3>1, <3>2, OrchestratorPatches
  <2>5. sessions' \in Seq(Rows) /\ Len(sessions') = Len(sessions) /\ SessionIds' = SessionIds
        /\ sessions'[orch.session] \in Rows
    BY <1>0, <1>21, <2>1, <2>3, RowIsWritten DEF OrchestratorWrites
  <2>6. intended' \in Seq(Rows) /\ Len(intended') = Len(intended)
    BY <1>0, <1>21, <2>1, <2>4, <2>5, Intending DEF OrchestratorWrites
  <2> QED BY <1>0, <1>21, <2>5, <2>6 DEF TypeOK, OrchestratorWrites
<1>22. CASE Restart
  <2>1. Idle \in AllRequests /\ left' \in [Kinds -> Nat]
    BY <1>0, <1>k, <1>22, Spending DEF Restart, AllRequests
  <2>2. req' \in [Slots -> AllRequests]
    BY <1>22, <2>1 DEF Restart
  <2>3. DOMAIN pendingByThreadId' = {} /\ DOMAIN workspaceByThreadId' = {}
    BY <1>22 DEF Restart
  <2> QED BY <1>0, <1>22, <2>1, <2>2, <2>3 DEF TypeOK, Restart, SessionIds
<1>23. CASE UNCHANGED vars
  BY <1>0, <1>23 DEF TypeOK, vars, SessionIds
<1> QED
  BY <1>1, <1>2, <1>3, <1>4, <1>5, <1>6, <1>7, <1>8, <1>9, <1>10, <1>11, <1>12, <1>13, <1>14,
     <1>15, <1>17, <1>18, <1>19, <1>20, <1>21, <1>22, <1>23, NextIsOne
-----------------------------------------------------------------------------
(* Steps that touch neither a message nor a session: accounts, projects,   *)
(* and requests that end, for whatever reason.                             *)
Quiet ==
  /\ sessions' = sessions /\ orch' = orch /\ announced' = announced /\ visits' = visits
  /\ raced' = raced /\ intended' = intended /\ cut \subseteq cut'
  /\ \A q \in Slots : \/ req'[q] = req[q]
                      \/ req'[q].at \in {"idle", "hash"} /\ StartsNow(q) \subseteq cut'
  /\ Len(projects) <= Len(projects')
  /\ \A p \in ProjectIds : projects'[p].user = projects[p].user
  /\ arrived <= arrived'
  /\ \/ pendingByThreadId' = pendingByThreadId
     \/ pendingByThreadId' = <<>>
  /\ \/ workspaceByThreadId' = workspaceByThreadId /\ forgotten' = forgotten
     \/ forgotten' = SessionIds

(* Requests that touch neither sessions nor messages keep Inv, ...         *)
LEMMA QuietKeeps ==
  ASSUME Inv, TypeOK', Quiet
  PROVE  Inv'
<1>1. \A q \in Slots : \/ req'[q] = req[q]
                       \/ ~Carries(q)' /\ ~Serves(q)' /\ StartsNow(q) \subseteq cut'
  <2>1. \A q \in Slots : req'[q].at \in {"idle", "hash"} => ~Carries(q)' /\ ~Serves(q)'
    BY DEF Carries, Serves
  <2>2. \A q \in Slots : \/ req'[q] = req[q]
                         \/ req'[q].at \in {"idle", "hash"} /\ StartsNow(q) \subseteq cut'
    BY Zenon DEF Quiet
  <2> QED BY <2>1, <2>2
<1>2. Steady
  BY <1>1 DEF Quiet, Steady
<1>3. visits \subseteq announced
  BY DEF Inv, StartIsWhole
<1>4. \A q \in Slots : req'[q] = req[q] => StartsNow(q)' = StartsNow(q)
  BY DEF StartsNow
<1>5. RowsStay
  BY <1>1, <1>3, <1>4 DEF Quiet, RowsStay
<1> QED BY <1>2, <1>5, SteadyKeeps, RowsStayKeeps DEF Inv

(* ... and these are such: accounts, tokens, projects, a request that      *)
(* fails, a restart.                                                       *)
LEMMA QuietSteps ==
  ASSUME Inv, TypeOK',
         \/ \E r \in Slots, person \in People : Register(r, person) \/ Login(r, person)
         \/ \E r \in Slots : CreateUser(r) \/ Fail(r)
         \/ \E r \in Slots, user \in UserIds, repo \in Repos : PostProject(r, user, repo)
         \/ \E r \in Slots, user \in UserIds, p \in ProjectIds :
              DeleteProject(r, user, p) \/ \E repo \in Repos : PatchProject(r, user, p, repo)
         \/ \E t \in TokenIds : Logout(t)
         \/ Restart
         \/ UNCHANGED vars
  PROVE  Inv'
<1> USE DEF accountVars, intakeVars, outVars, bounds, histVars
<1>0. TypeOK /\ arrived \in Nat /\ Len(projects) \in Nat
      /\ arrived <= arrived /\ arrived <= arrived + 1 /\ Len(projects) <= Len(projects)
  BY DEF Inv, TypeOK
<1>1. ASSUME NEW r \in Slots, NEW person \in People, Register(r, person) PROVE Quiet
  <2>1. req[r].at = "idle" /\ arrived' = arrived + 1
    BY <1>1 DEF Register, Arrives, At, Number
  <2>2. StartsNow(r) = {}
    BY <2>1 DEF StartsNow
  <2>3. \A q \in Slots : q = r \/ req'[q] = req[q]
    BY <1>0, <1>1 DEF Register, Go, TypeOK
  <2>4. req'[r].at = "hash"
    BY <1>0, <1>1 DEF Register, Go, TypeOK
  <2>5. UNCHANGED <<sessions, accountVars, intakeVars, outVars, histVars>>
    BY <1>1 DEF Register
  <2> QED BY <1>0, <2>1, <2>2, <2>3, <2>4, <2>5 DEF Quiet
<1>2. ASSUME NEW r \in Slots, NEW person \in People, Login(r, person) PROVE Quiet
  BY <1>0, <1>2 DEF Quiet, Login, Arrives, Number
<1>3. ASSUME NEW r \in Slots, CreateUser(r) PROVE Quiet
  <2>1. StartsNow(r) = {}
    BY <1>3 DEF StartsNow, CreateUser, At
  <2>2. req'[r].at = "idle" /\ \A q \in Slots : q = r \/ req'[q] = req[q]
    BY <1>0, <1>3, FinishMoves DEF CreateUser
  <2>3. UNCHANGED <<sessions, projects, intakeVars, outVars, bounds, histVars>>
    BY <1>3 DEF CreateUser
  <2> QED BY <1>0, <2>1, <2>2, <2>3 DEF Quiet
<1>4. ASSUME NEW r \in Slots, Fail(r) PROVE Quiet
  <2>1. req'[r].at = "idle" /\ \A q \in Slots : q = r \/ req'[q] = req[q]
    BY <1>0, <1>4, FinishMoves DEF Fail
  <2>2. cut' = cut \cup StartsNow(r)
        /\ UNCHANGED <<sessions, accountVars, intakeVars, outVars, arrived, raced, forgotten, intended>>
    BY <1>4 DEF Fail
  <2> QED BY <1>0, <2>1, <2>2 DEF Quiet
<1>5. ASSUME NEW r \in Slots, NEW user \in UserIds, NEW repo \in Repos, PostProject(r, user, repo)
      PROVE  Quiet
  <2>1. /\ arrived' = arrived + 1
        /\ UNCHANGED <<sessions, users, tokens, intakeVars, req, outVars, histVars>>
    BY <1>5 DEF PostProject, Authorised, Arrives, Number
  <2>2. projects \in Seq([user : Nat, repo : Repos \cup {Blank}, deleted : BOOLEAN])
    BY <1>0 DEF TypeOK
  <2> DEFINE new == [user |-> user, repo |-> repo, deleted |-> FALSE]
  <2>3. projects' = Append(projects, new)
    BY <1>5 DEF PostProject, InsertProject
  <2> HIDE DEF new
  <2>4. /\ Len(projects') = Len(projects) + 1
        /\ \A p \in 1 .. Len(projects) : projects'[p] = projects[p]
    BY <2>2, <2>3
  <2>5. Len(projects) <= Len(projects') /\ \A p \in ProjectIds : projects'[p].user = projects[p].user
    BY <1>0, <2>2, <2>4 DEF ProjectIds
  <2> QED BY <1>0, <2>1, <2>5 DEF Quiet
<1>6. ASSUME NEW r \in Slots, NEW user \in UserIds, NEW p \in ProjectIds,
             \/ DeleteProject(r, user, p)
             \/ \E repo \in Repos : PatchProject(r, user, p, repo)
      PROVE  Quiet
  <2>1. /\ arrived' = arrived + 1
        /\ UNCHANGED <<sessions, users, tokens, intakeVars, req, outVars, histVars>>
    BY <1>6 DEF DeleteProject, PatchProject, Authorised, Arrives, Number
  <2>2. projects \in Seq([user : Nat, repo : Repos \cup {Blank}, deleted : BOOLEAN])
    BY <1>0 DEF TypeOK
  <2>3. \A q \in ProjectIds : projects[q] \in [user : Nat, repo : Repos \cup {Blank}, deleted : BOOLEAN]
    <3>1. ProjectIds = 1 .. Len(projects)
      BY <2>2 DEF ProjectIds
    <3> QED BY <2>2, <3>1, RowIsTyped
  <2>4. \/ projects' = [projects EXCEPT ![p] = [projects[p] EXCEPT !.deleted = TRUE]]
        \/ \E repo \in Repos : projects' = [projects EXCEPT ![p] = [projects[p] EXCEPT !.repo = repo]]
    BY <1>6 DEF DeleteProject, PatchProject
  <2>5. PICK row : projects' = [projects EXCEPT ![p] = row] /\ row.user = projects[p].user
    <3>1. /\ [projects[p] EXCEPT !.deleted = TRUE].user = projects[p].user
          /\ \A repo \in Repos : [projects[p] EXCEPT !.repo = repo].user = projects[p].user
      BY <2>3
    <3> QED BY <2>4, <3>1
  <2>6. Len(projects') = Len(projects) /\ \A q \in ProjectIds : projects'[q].user = projects[q].user
    BY <2>2, <2>5 DEF ProjectIds
  <2> QED BY <1>0, <2>1, <2>6 DEF Quiet
<1>7. ASSUME NEW t \in TokenIds, Logout(t) PROVE Quiet
  BY <1>0, <1>7 DEF Quiet, Logout
<1>8. CASE Restart
  <2>1. \A q \in Slots : req'[q].at = "idle"
    BY <1>8 DEF Restart, Idle
  <2>2. /\ \A q \in Slots : StartsNow(q) \subseteq cut'
        /\ cut \subseteq cut' /\ pendingByThreadId' = <<>> /\ forgotten' = SessionIds
        /\ UNCHANGED <<sessions, accountVars, outVars, arrived, raced, intended>>
    BY <1>8 DEF Restart
  <2>3. /\ sessions' = sessions /\ orch' = orch /\ announced' = announced /\ visits' = visits
        /\ raced' = raced /\ intended' = intended /\ projects' = projects /\ arrived' = arrived
    BY <2>2
  <2>4. Quiet
    BY <1>0, <2>1, <2>2, <2>3 DEF Quiet
  <2> QED BY <2>4, QuietKeeps
<1>9. CASE UNCHANGED vars
  <2>1. /\ sessions' = sessions /\ orch' = orch /\ announced' = announced /\ visits' = visits
        /\ raced' = raced /\ intended' = intended /\ projects' = projects /\ arrived' = arrived
        /\ req' = req /\ cut' = cut /\ forgotten' = forgotten
        /\ pendingByThreadId' = pendingByThreadId /\ workspaceByThreadId' = workspaceByThreadId
    BY <1>9 DEF vars
  <2>2. Quiet
    BY <1>0, <2>1 DEF Quiet
  <2> QED BY <2>2, QuietKeeps
<1> QED
  BY <1>1, <1>2, <1>3, <1>4, <1>5, <1>6, <1>7, <1>8, <1>9, QuietKeeps

(* A request that serves a session carries no message.                     *)
LEMMA ServingIsSteady ==
  ASSUME Inv, NEW r \in Slots, \A q \in Slots \ {r} : req'[q] = req[q],
         req'[r].at \notin {"newProject", "message", "parse", "create"},
         Len(sessions') = Len(sessions),
         \A s \in SessionIds :
           /\ sessions'[s].user = sessions[s].user /\ sessions'[s].project = sessions[s].project
           /\ sessions'[s].goal = sessions[s].goal /\ sessions'[s].workspace = sessions[s].workspace,
         projects' = projects, arrived' = arrived \/ arrived' = arrived + 1,
         pendingByThreadId' = pendingByThreadId, workspaceByThreadId' = workspaceByThreadId,
         forgotten' = forgotten
  PROVE  Steady
<1>1. Len(projects) <= Len(projects') /\ arrived <= arrived'
  BY DEF Inv, TypeOK
<1>2. \A q \in Slots : Carries(q)' => req'[q] = req[q]
  BY DEF Carries
<1> QED BY <1>1, <1>2 DEF Steady

(* A start, but for the read and the write of the row.                     *)
LEMMA StartSteps ==
  ASSUME Inv, TypeOK', NEW r \in Slots,
         \/ \E user \in UserIds, s \in SessionIds : PostStart(r, user, s)
         \/ StartSession(r) \/ EmitStarted(r) \/ ViewStarted(r) \/ EnqueueVisit(r)
  PROVE  Inv'
<1> USE DEF accountVars, intakeVars, outVars, bounds, histVars
<1>0. TypeOK /\ Updating /\ Starting /\ visits \subseteq announced
  BY DEF Inv, StartIsWhole
<1>1. /\ sessions' = sessions /\ projects' = projects /\ orch' = orch
      /\ pendingByThreadId' = pendingByThreadId /\ workspaceByThreadId' = workspaceByThreadId
      /\ cut' = cut /\ raced' = raced /\ forgotten' = forgotten /\ intended' = intended
      /\ arrived' = arrived \/ arrived' = arrived + 1
  BY DEF PostStart, StartSession, EmitStarted, ViewStarted, EnqueueVisit, Authorised, Arrives, Number
<1> DEFINE served == /\ \A q \in Slots \ {r} : req'[q] = req[q]
                     /\ \/ req'[r].at \in {"idle"}
                        \/ /\ req'[r].at \in {"start", "update", "emit", "view", "enqueue"}
                           /\ req'[r].session \in SessionIds
                           /\ req'[r].at \in {"view", "enqueue"} => req'[r].session \in announced'
                     /\ announced \subseteq announced' /\ visits \subseteq visits'
                     /\ visits' \subseteq announced'
                     /\ \A s \in StartsNow(r) :
                          s \in StartsNow(r)' \cup visits' \/ sessions[s].status # "RUNNING"
<1>2. ASSUME served PROVE Inv'
  <2>1. req'[r].at \notin {"newProject", "message", "parse", "create"}
    BY <1>2
  <2>2. Steady
    BY <1>1, <1>2, <2>1, ServingIsSteady
  <2>3. \A q \in Slots \ {r} : req'[q] = req[q] /\ StartsNow(q)' = StartsNow(q)
    BY <1>2 DEF StartsNow
  <2>4. Serves(r)' => req'[r].at # "idle"
    BY DEF Serves
  <2>5. RowsStay
    BY <1>1, <1>2, <2>3, <2>4 DEF RowsStay
  <2> QED BY <2>2, <2>5, SteadyKeeps, RowsStayKeeps DEF Inv
<1>3. ASSUME NEW user \in UserIds, NEW s \in SessionIds, PostStart(r, user, s) PROVE served
  <2>1. announced' = announced /\ visits' = visits
    BY <1>3 DEF PostStart
  <2>2. /\ \A q \in Slots \ {r} : req'[q] = req[q]
        /\ req[r].at = "idle" /\ req'[r].at = "start" /\ req'[r].session = s
    BY <1>0, <1>3, StartArrives
  <2>3. StartsNow(r) = {}
    BY <2>2 DEF StartsNow
  <2> QED BY <1>0, <2>1, <2>2, <2>3
<1>4. CASE StartSession(r)
  <2>1. announced' = announced /\ visits' = visits /\ req[r].at = "start"
    BY <1>4 DEF StartSession, At
  <2>2. req[r] \in Begun /\ req[r].session \in SessionIds
    BY <1>0, <2>1, HeldAt DEF TypeOK, Updating, Serves
  <2>3. StartsNow(r) = {}
    BY <2>1 DEF StartsNow
  <2>4. CASE sessions[req[r].session].status = "COMPLETED"
    <3>1. req[r].session \in announced /\ req[r].next \in {"enqueue", "view"} /\ Step(r, req[r].next)
      BY <1>0, <1>4, <2>2, <2>4 DEF Starting, Begun, StartSession
    <3>2. /\ \A q \in Slots \ {r} : req'[q] = req[q]
          /\ req'[r].at = req[r].next /\ req'[r].session = req[r].session
      BY <1>0, <2>1, <3>1, StepMoves
    <3>3. served
      BY <1>0, <2>1, <2>2, <2>3, <3>1, <3>2
    <3> QED BY <1>2, <3>3
  <2>5. CASE sessions[req[r].session].status # "COMPLETED"
    <3>1. Step(r, "update")
      BY <1>4, <2>5 DEF StartSession
    <3>2. /\ \A q \in Slots \ {r} : req'[q] = req[q]
          /\ req'[r].at = "update" /\ req'[r].session = req[r].session
      BY <1>0, <2>1, <3>1, StepMoves
    <3>3. served
      BY <1>0, <2>1, <2>2, <2>3, <3>2
    <3> QED BY <1>2, <3>3
  <2> QED BY <2>4, <2>5
<1>5. CASE EmitStarted(r)
  <2>1. announced' = announced \cup {req[r].session} /\ visits' = visits /\ req[r].at = "emit"
        /\ Step(r, req[r].next)
    BY <1>5 DEF EmitStarted, At
  <2>2. req[r] \in Begun /\ req[r].session \in SessionIds /\ req[r].next \in {"enqueue", "view"}
    BY <1>0, <2>1, HeldAt DEF TypeOK, Updating, Serves, Begun
  <2>3. /\ \A q \in Slots \ {r} : req'[q] = req[q]
        /\ req'[r].at = req[r].next /\ req'[r].session = req[r].session
    BY <1>0, <2>1, <2>2, StepMoves
  <2>4. StartsNow(r) = {req[r].session} /\ StartsNow(r)' = {req[r].session}
    BY <2>1, <2>2, <2>3 DEF StartsNow
  <2>5. served
    BY <1>0, <2>1, <2>2, <2>3, <2>4
  <2> QED BY <1>2, <2>5
<1>6. CASE ViewStarted(r)
  <2>1. announced' = announced /\ visits' = visits /\ req[r].at = "view"
    BY <1>6 DEF ViewStarted, At
  <2>2. /\ req[r] \in Begun /\ req[r].session \in SessionIds /\ req[r].session \in announced
        /\ StartsNow(r) = {req[r].session}
    BY <1>0, <2>1, HeldAt DEF TypeOK, Updating, Starting, Serves, StartsNow
  <2>3. CASE sessions[req[r].session].status = "RUNNING"
    <3>1. Step(r, "enqueue")
      BY <1>6, <2>3 DEF ViewStarted
    <3>2. /\ \A q \in Slots \ {r} : req'[q] = req[q]
          /\ req'[r].at = "enqueue" /\ req'[r].session = req[r].session
      BY <1>0, <2>1, <3>1, StepMoves
    <3>3. StartsNow(r)' = {req[r].session}
      BY <3>2 DEF StartsNow
    <3>4. served
      BY <1>0, <2>1, <2>2, <3>2, <3>3
    <3> QED BY <1>2, <3>4
  <2>4. CASE sessions[req[r].session].status # "RUNNING"
    <3>1. req'[r].at = "idle" /\ \A q \in Slots \ {r} : req'[q] = req[q]
      BY <1>0, <1>6, <2>4, FinishMoves DEF ViewStarted
    <3>2. served
      BY <1>0, <2>1, <2>2, <2>4, <3>1
    <3> QED BY <1>2, <3>2
  <2> QED BY <2>3, <2>4
<1>7. CASE EnqueueVisit(r)
  <2>1. announced' = announced /\ visits' = visits \cup {req[r].session} /\ req[r].at = "enqueue"
    BY <1>7 DEF EnqueueVisit, At
  <2>2. req[r].session \in announced /\ StartsNow(r) = {req[r].session}
    BY <1>0, <2>1 DEF Starting, StartsNow
  <2>3. req'[r].at = "idle" /\ \A q \in Slots \ {r} : req'[q] = req[q]
    BY <1>0, <1>7, FinishMoves DEF EnqueueVisit
  <2>4. served
    BY <1>0, <2>1, <2>2, <2>3
  <2> QED BY <1>2, <2>4
<1> QED BY <1>2, <1>3, <1>4, <1>5, <1>6, <1>7

(* An update that opens while none is open is not raced.                   *)
LEMMA OpensAlone ==
  ASSUME NEW s, Open(s)
  PROVE  /\ raced' = raced \/ raced' = raced \cup {s}
         /\ s \notin raced' => /\ \A q \in Slots : ~InUpdate(q, s)
                               /\ ~(orch.at = "write" /\ orch.session = s)
BY DEF Open, UpdatingNow, InUpdate

(* The reads of a row that is to be written back.                          *)
LEMMA ReadSteps ==
  ASSUME Inv, TypeOK', NEW r \in Slots,
         \/ \E user \in UserIds, s \in SessionIds : PatchSession(r, user, s)
         \/ ReadStarted(r) \/ ReadRenamed(r)
  PROVE  Inv'
<1> USE DEF accountVars, intakeVars, outVars, bounds, histVars
<1>0. TypeOK /\ Updating
  BY DEF Inv
<1>1. /\ sessions' = sessions /\ projects' = projects /\ orch' = orch
      /\ announced' = announced /\ visits' = visits
      /\ pendingByThreadId' = pendingByThreadId /\ workspaceByThreadId' = workspaceByThreadId
      /\ cut' = cut /\ forgotten' = forgotten /\ intended' = intended
      /\ arrived' = arrived \/ arrived' = arrived + 1
  BY DEF PatchSession, ReadStarted, ReadRenamed, Authorised, Arrives, Number
<1>2. ASSUME NEW s \in SessionIds, \A q \in Slots \ {r} : req'[q] = req[q],
             req[r].at \notin {"emit", "view", "enqueue"},
             req'[r].at \in {"updateTitle", "writeTitle", "writeStarted"}, req'[r].session = s,
             req'[r].at \in {"writeTitle", "writeStarted"} => req'[r].row = sessions[s],
             req'[r].at \in {"updateTitle", "writeTitle"} =>
               /\ req'[r].patch.workspace = sessions[s].workspace
               /\ s \notin raced' => req'[r].patch.pr = sessions[s].pr,
             \/ Open(s)
             \/ InUpdate(r, s) /\ raced' = raced
      PROVE  Inv'
  <2>1. req'[r].at \notin {"newProject", "message", "parse", "create"}
    BY <1>2
  <2>2. Steady
    BY <1>1, <1>2, <2>1, ServingIsSteady
  <2>3. \A q \in Slots : StartsNow(q) \subseteq StartsNow(q)'
    BY <1>2 DEF StartsNow
  <2>4. raced' = raced \/ raced' = raced \cup {s}
    BY <1>2, OpensAlone
  <2>5. \A q \in Slots \ {r} : InUpdate(q, s)' <=> InUpdate(q, s)
    BY <1>2 DEF InUpdate
  <2>6. s \notin raced' => /\ \A q \in Slots \ {r} : ~InUpdate(q, s)
                           /\ ~(orch.at = "write" /\ orch.session = s)
    <3>1. CASE Open(s)
      BY <3>1, OpensAlone
    <3>2. CASE InUpdate(r, s) /\ raced' = raced
      BY <1>0, <3>2 DEF Updating
    <3> QED BY <1>2, <3>1, <3>2
  <2>7. Writes(r)' => req'[r].row = sessions[s]
    BY <1>2 DEF Writes
  <2>8. Reading(s)
    BY <1>1, <1>2, <2>3, <2>4, <2>5, <2>6, <2>7 DEF Reading
  <2> QED BY <2>2, <2>8, SteadyKeeps, ReadingKeeps DEF Inv
<1>3. ASSUME NEW user \in UserIds, NEW s \in SessionIds, PatchSession(r, user, s) PROVE Inv'
  <2>1. Open(s)
    BY <1>3 DEF PatchSession
  <2>2. /\ \A q \in Slots \ {r} : req'[q] = req[q]
        /\ req[r].at = "idle" /\ req'[r].at = "updateTitle" /\ req'[r].session = s
        /\ req'[r].patch.pr = sessions[s].pr
        /\ req'[r].patch.workspace = sessions[s].workspace
    BY <1>0, <1>3, RenameArrives
  <2> QED BY <1>2, <2>1, <2>2
<1>4. CASE ReadStarted(r)
  <2>1. req[r].at = "update" /\ Open(req[r].session)
    BY <1>4 DEF ReadStarted, At
  <2>2. req[r].session \in SessionIds
    BY <1>0, <2>1 DEF Updating, Serves
  <2>3. /\ \A q \in Slots \ {r} : req'[q] = req[q]
        /\ req'[r].at = "writeStarted" /\ req'[r].session = req[r].session
        /\ req'[r].row = sessions[req[r].session]
    BY <1>0, <1>4, <2>2, RowIsRead
  <2> QED BY <1>2, <2>1, <2>2, <2>3
<1>5. CASE ReadRenamed(r)
  <2>1. req[r].at = "updateTitle" /\ raced' = raced
    BY <1>5 DEF ReadRenamed, At
  <2>2. req[r].session \in SessionIds
    BY <1>0, <2>1 DEF Updating, Serves
  <2>3. /\ \A q \in Slots \ {r} : req'[q] = req[q]
        /\ req'[r].at = "writeTitle" /\ req'[r].session = req[r].session
        /\ req'[r].patch = req[r].patch
        /\ req'[r].row = sessions[req[r].session]
    BY <1>0, <1>5, <2>2, RenameReads
  <2>4. InUpdate(r, req[r].session)
    BY <2>1 DEF InUpdate
  <2>5. /\ req[r].patch.workspace = sessions[req[r].session].workspace
        /\ req[r].session \notin raced' => req[r].patch.pr = sessions[req[r].session].pr
    BY <1>0, <2>1 DEF Updating
  <2> QED BY <1>2, <2>1, <2>2, <2>3, <2>4, <2>5
<1> QED BY <1>3, <1>4, <1>5

(* The orchestrator reads a row to write its pull request (updateContext). *)
LEMMA OrchestratorReadsStep ==
  ASSUME Inv, TypeOK', NEW s \in SessionIds, OrchestratorReads(s)
  PROVE  Inv'
<1> USE DEF accountVars, intakeVars, outVars, bounds, histVars
<1>0. TypeOK /\ s \in announced /\ Open(s)
  BY DEF Inv, OrchestratorReads
<1>1. /\ sessions' = sessions /\ projects' = projects /\ req' = req
      /\ announced' = announced /\ visits' = visits
      /\ pendingByThreadId' = pendingByThreadId /\ workspaceByThreadId' = workspaceByThreadId
      /\ cut' = cut /\ forgotten' = forgotten /\ intended' = intended /\ arrived' = arrived
  BY DEF OrchestratorReads
<1>2. Steady
  BY <1>0, <1>1 DEF Steady, TypeOK
<1>3. /\ orch'.session = s /\ orch'.row = sessions[s]
      /\ orch'.patch = [status |-> "COMPLETED"] => s \in visits
      /\ orch'.patch \in Contexts => /\ orch'.patch.workspace = sessions[s].workspace
                                     /\ orch'.patch.title = sessions[s].title
                                     /\ orch'.patch.pr = "pr"
  BY <1>0, OrchestratorHolds
<1>4. /\ raced' = raced \/ raced' = raced \cup {s}
      /\ s \notin raced' => \A q \in Slots : ~InUpdate(q, s)'
  BY <1>0, <1>1, OpensAlone DEF InUpdate
<1>5. \A q \in Slots : StartsNow(q)' = StartsNow(q)
  BY <1>1 DEF StartsNow
<1>6. Reading(s)
  BY <1>0, <1>1, <1>3, <1>4, <1>5 DEF Reading
<1> QED BY <1>2, <1>6, SteadyKeeps, ReadingKeeps DEF Inv

(* The writes, of a start, of a new title, and of the orchestrator.  If no *)
(* other update was open since the read, the row is the one that was read, *)
(* with the change made.                                                   *)
LEMMA WritingIsSteady ==
  ASSUME Inv, NEW s \in SessionIds, NEW row \in Rows, WriteRow(s, row), SameSession(row, s),
         \A q \in Slots : Carries(q)' => req'[q] = req[q],
         projects' = projects, arrived' = arrived,
         pendingByThreadId' = pendingByThreadId, workspaceByThreadId' = workspaceByThreadId,
         forgotten' = forgotten
  PROVE  Steady
<1>1. /\ Len(sessions') = Len(sessions) /\ sessions'[s] = row
      /\ \A t \in SessionIds \ {s} : sessions'[t] = sessions[t]
  BY RowIsWritten DEF Inv
<1>2. \A t \in SessionIds :
        /\ sessions'[t].user = sessions[t].user /\ sessions'[t].project = sessions[t].project
        /\ sessions'[t].goal = sessions[t].goal /\ sessions'[t].workspace = sessions[t].workspace
  BY <1>1 DEF SameSession
<1>3. Len(projects) <= Len(projects') /\ arrived <= arrived'
  BY DEF Inv, TypeOK
<1> QED BY <1>1, <1>2, <1>3 DEF Steady

(* A status that was there stays explained.                                *)
LEMMA RunningIsExplained ==
  ASSUME Inv, NEW s \in SessionIds, s \notin raced, sessions[s].status = "RUNNING"
  PROVE  s \in cut \cup visits \/ \E q \in Slots : s \in StartsNow(q)
BY DEF Inv, StartIsWhole

(* The write of markSessionStarted.                                        *)
LEMMA StartWritesStep ==
  ASSUME Inv, TypeOK', NEW r \in Slots, WriteStarted(r)
  PROVE  Inv'
<1> USE DEF accountVars, intakeVars, outVars, bounds, histVars
<1>s. PICK s, row : s = req[r].session /\ row = Patched(req[r].row, [status |-> "RUNNING"])
  OBVIOUS
<1>0. TypeOK /\ Updating /\ Starting /\ RecordsSurvive
  BY DEF Inv
<1>1. /\ projects' = projects /\ orch' = orch /\ announced' = announced /\ visits' = visits
      /\ pendingByThreadId' = pendingByThreadId /\ workspaceByThreadId' = workspaceByThreadId
      /\ cut' = cut /\ raced' = raced /\ forgotten' = forgotten /\ arrived' = arrived
      /\ WriteRow(s, row) /\ Intend(s, [status |-> "RUNNING"])
  BY <1>s DEF WriteStarted
<1>2. /\ \A q \in Slots \ {r} : req'[q] = req[q]
      /\ req[r].at = "writeStarted" /\ req[r] \in Begins
      /\ req'[r].at = "emit" /\ req'[r].session = s
  BY <1>s, <1>0, StartIsWritten
<1>3. s \in SessionIds /\ req[r].row \in Rows /\ InUpdate(r, s) /\ Writes(r) /\ "RUNNING" \in Statuses
  BY <1>s, <1>0, <1>2 DEF Updating, Serves, Begins, InUpdate, Writes, Statuses
<1>4. /\ SameSession(req[r].row, s)
      /\ s \notin raced => req[r].row = sessions[s]
  BY <1>s, <1>0, <1>3 DEF Updating
<1>5. /\ row \in Rows /\ row.status = "RUNNING"
      /\ row.user = req[r].row.user /\ row.project = req[r].row.project
      /\ row.goal = req[r].row.goal /\ row.workspace = req[r].row.workspace
  BY <1>s, <1>3, StatusIsPatched
<1>6. intended[s] \in Rows /\ sessions'[s] \in Rows
  BY <1>0, <1>1, <1>3, <1>5, RowIsWritten DEF TypeOK, SessionIds
<1>7. Patched(intended[s], [status |-> "RUNNING"]) \in Rows
  BY <1>3, <1>6, StatusIsPatched
<1>8. /\ intended'[s] = IF s \in raced THEN sessions'[s]
                        ELSE Patched(intended[s], [status |-> "RUNNING"])
      /\ \A t \in SessionIds \ {s} : intended'[t] = intended[t]
  BY <1>0, <1>1, <1>3, <1>6, <1>7, Intending
<1>9. s \notin raced => row = intended'[s]
  BY <1>s, <1>0, <1>3, <1>4, <1>8 DEF RecordsSurvive
<1>10. SameSession(row, s)
  BY <1>4, <1>5 DEF SameSession
<1>11. s \notin raced => /\ \A q \in Slots : ~InUpdate(q, s)'
                         /\ ~(orch'.at = "write" /\ orch'.session = s)
  <2>1. \A q \in Slots \ {r} : InUpdate(q, s)' <=> InUpdate(q, s)
    BY <1>2 DEF InUpdate
  <2>2. ~InUpdate(r, s)'
    BY <1>2 DEF InUpdate
  <2> QED BY <1>0, <1>1, <1>3, <2>1, <2>2 DEF Updating
<1>12. s \in StartsNow(r)' /\ \A q \in Slots : StartsNow(q) \subseteq StartsNow(q)'
  BY <1>2 DEF StartsNow
<1>13. /\ \A q \in Slots : Carries(q)' => req'[q] = req[q]
       /\ \A q \in Slots : Serves(q)' => \/ req'[q] = req[q]
                                         \/ req'[q].at = "emit" /\ req'[q].session = s
  BY <1>2 DEF Carries
<1>14. Steady
  BY <1>1, <1>3, <1>5, <1>10, <1>13, WritingIsSteady
<1>15. Writing(s, row)
  BY <1>1, <1>3, <1>5, <1>8, <1>9, <1>10, <1>11, <1>12, <1>13 DEF Writing
<1> QED BY <1>14, <1>15, SteadyKeeps, WritingKeeps DEF Inv

(* The write of PATCH /sessions/:id.                                       *)
LEMMA RenameWritesStep ==
  ASSUME Inv, TypeOK', NEW r \in Slots, WriteRenamed(r)
  PROVE  Inv'
<1> USE DEF accountVars, intakeVars, outVars, bounds, histVars
<1>s. PICK s, row, title : /\ s = req[r].session /\ row = Patched(req[r].row, req[r].patch)
                           /\ title = req[r].patch.title
  OBVIOUS
<1>0. TypeOK /\ Updating /\ Starting /\ RecordsSurvive
  BY DEF Inv
<1>1. /\ projects' = projects /\ orch' = orch /\ announced' = announced /\ visits' = visits
      /\ pendingByThreadId' = pendingByThreadId /\ workspaceByThreadId' = workspaceByThreadId
      /\ cut' = cut /\ raced' = raced /\ forgotten' = forgotten /\ arrived' = arrived
      /\ WriteRow(s, row) /\ Intend(s, [title |-> title])
  BY <1>s DEF WriteRenamed
<1>2. /\ \A q \in Slots \ {r} : req'[q] = req[q]
      /\ req[r].at = "writeTitle" /\ req[r] \in Renamed
      /\ req'[r].at = "idle"
  BY <1>0, FinishMoves, HeldAt DEF WriteRenamed, At, TypeOK
<1>3. /\ s \in SessionIds /\ req[r].row \in Rows /\ req[r].patch \in Contexts
      /\ InUpdate(r, s) /\ Writes(r) /\ title \in Nat \cup {None}
  BY <1>s, <1>0, <1>2 DEF Updating, Serves, Renamed, InUpdate, Writes, Contexts
<1>4. /\ SameSession(req[r].row, s) /\ req[r].patch.workspace = sessions[s].workspace
      /\ s \notin raced => req[r].row = sessions[s] /\ req[r].patch.pr = sessions[s].pr
      /\ req[r].row.status = "COMPLETED" => s \in visits
  BY <1>s, <1>0, <1>2, <1>3 DEF Updating, Starting
<1>5. /\ row \in Rows /\ row.status = req[r].row.status
      /\ row.user = req[r].row.user /\ row.project = req[r].row.project
      /\ row.goal = req[r].row.goal /\ row.workspace = req[r].patch.workspace
      /\ row.title = title /\ row.pr = req[r].patch.pr
  BY <1>s, <1>3, ContextIsPatched
<1>6. intended[s] \in Rows /\ sessions'[s] \in Rows
  BY <1>0, <1>1, <1>3, <1>5, RowIsWritten DEF TypeOK, SessionIds
<1> DEFINE new == Patched(intended[s], [title |-> title])
<1>7. /\ new \in Rows /\ new.status = intended[s].status
      /\ new.user = intended[s].user /\ new.project = intended[s].project
      /\ new.goal = intended[s].goal /\ new.title = title /\ new.pr = intended[s].pr
      /\ new.workspace = intended[s].workspace
  BY <1>3, <1>6, TitleIsPatched
<1>8. /\ intended'[s] = IF s \in raced THEN sessions'[s] ELSE new
      /\ \A t \in SessionIds \ {s} : intended'[t] = intended[t]
  BY <1>0, <1>1, <1>3, <1>6, <1>7, Intending
<1> HIDE DEF new
<1>9. s \notin raced => row = intended'[s]
  <2>1. ASSUME s \notin raced PROVE row = new
    <3>1. intended[s] = sessions[s] /\ req[r].row = sessions[s]
      BY <1>0, <1>3, <1>4, <2>1 DEF RecordsSurvive
    <3> QED BY <1>4, <1>5, <1>7, <2>1, <3>1, RowsAgree
  <2> QED BY <1>8, <2>1
<1>10. SameSession(row, s)
  BY <1>4, <1>5 DEF SameSession
<1>11. s \notin raced => /\ \A q \in Slots : ~InUpdate(q, s)'
                         /\ ~(orch'.at = "write" /\ orch'.session = s)
  <2>1. \A q \in Slots \ {r} : InUpdate(q, s)' <=> InUpdate(q, s)
    BY <1>2 DEF InUpdate
  <2>2. ~InUpdate(r, s)'
    BY <1>2 DEF InUpdate
  <2> QED BY <1>0, <1>1, <1>3, <2>1, <2>2 DEF Updating
<1>12. \A q \in Slots : StartsNow(q) \subseteq StartsNow(q)'
  BY <1>2 DEF StartsNow
<1>13. /\ \A q \in Slots : Carries(q)' => req'[q] = req[q]
       /\ \A q \in Slots : Serves(q)' => req'[q] = req[q]
  BY <1>2 DEF Carries, Serves
<1>14. row.status = "RUNNING" =>
         s \in cut \cup raced \cup visits \/ \E q \in Slots : s \in StartsNow(q)'
  BY <1>3, <1>4, <1>5, <1>12, RunningIsExplained
<1>15. Steady
  BY <1>1, <1>3, <1>5, <1>10, <1>13, WritingIsSteady
<1>16. Writing(s, row)
  BY <1>1, <1>3, <1>4, <1>5, <1>8, <1>9, <1>10, <1>11, <1>12, <1>13, <1>14 DEF Writing
<1> QED BY <1>15, <1>16, SteadyKeeps, WritingKeeps DEF Inv

(* The write of the orchestrator, which may undo one of the API's.         *)
LEMMA OrchestratorWritesStep ==
  ASSUME Inv, TypeOK', OrchestratorWrites
  PROVE  Inv'
<1> USE DEF accountVars, intakeVars, outVars, bounds, histVars
<1>s. PICK s, row, change :
        /\ s = orch.session /\ row = Patched(orch.row, orch.patch)
        /\ change = IF "pr" \in DOMAIN orch.patch THEN [pr |-> "pr"] ELSE orch.patch
  OBVIOUS
<1> DEFINE new == Patched(intended[s], change)
<1>0. TypeOK /\ Updating /\ Starting /\ RecordsSurvive
  BY DEF Inv
<1>1. /\ projects' = projects /\ req' = req /\ announced' = announced /\ visits' = visits
      /\ pendingByThreadId' = pendingByThreadId /\ workspaceByThreadId' = workspaceByThreadId
      /\ cut' = cut /\ raced' = raced /\ forgotten' = forgotten /\ arrived' = arrived
      /\ WriteRow(s, row) /\ Intend(s, change) /\ orch.at = "write" /\ orch' = Idle
  BY <1>s DEF OrchestratorWrites
<1>2. /\ s \in SessionIds /\ SameSession(orch.row, s)
      /\ s \notin raced => orch.row = sessions[s]
      /\ orch.patch \in Contexts => /\ orch.patch.workspace = orch.row.workspace
                                    /\ orch.patch.title = orch.row.title
                                    /\ orch.patch.pr = "pr"
      /\ orch.row.status = "COMPLETED" => s \in visits
      /\ orch.patch = [status |-> "COMPLETED"] => s \in visits
  BY <1>s, <1>0, <1>1 DEF Updating, Starting
<1>3. intended[s] \in Rows /\ {"FAILED", "COMPLETED"} \subseteq Statuses
  BY <1>0, <1>2 DEF TypeOK, SessionIds, Statuses
<1>4. /\ row \in Rows /\ row.user = orch.row.user /\ row.project = orch.row.project
      /\ row.goal = orch.row.goal /\ row.workspace = orch.row.workspace
      /\ new \in Rows
      /\ orch.row = intended[s] => row = new
      /\ row.status = "COMPLETED" => s \in visits
      /\ row.status = "RUNNING" => orch.row.status = "RUNNING"
  <2>1. orch \in StatusUpdates \cup PrUpdates /\ orch.row \in Rows /\ row \in Rows
        /\ row.user = orch.row.user /\ row.project = orch.row.project /\ row.goal = orch.row.goal
    BY <1>s, <1>0, <1>1, OrchestratorPatches
  <2>2. CASE orch \in StatusUpdates
    <3>1. /\ orch.patch = [status |-> orch.patch.status] /\ "pr" \notin DOMAIN orch.patch
          /\ orch.patch.status \in {"FAILED", "COMPLETED"}
          /\ row.status = orch.patch.status /\ row.workspace = orch.row.workspace
      BY <1>s, <1>0, <1>1, <2>2, OrchestratorPatches
    <3>2. change = orch.patch /\ orch.patch.status \in Statuses
      BY <1>s, <1>3, <3>1
    <3>3. new \in Rows
      BY <1>3, <3>1, <3>2, StatusIsPatched
    <3>4. orch.row = intended[s] => row = new
      BY <1>s, <3>2
    <3>5. row.status = "COMPLETED" => orch.patch = [status |-> "COMPLETED"]
      BY <3>1
    <3>6. row.status # "RUNNING"
      BY <3>1
    <3> HIDE DEF new
    <3> QED BY <1>2, <2>1, <3>1, <3>3, <3>4, <3>5, <3>6
  <2>3. CASE orch \in PrUpdates
    <3>1. /\ orch.patch \in Contexts /\ "pr" \in DOMAIN orch.patch
          /\ row.status = orch.row.status /\ row.workspace = orch.patch.workspace
          /\ row.title = orch.patch.title /\ row.pr = orch.patch.pr
      BY <1>s, <1>0, <1>1, <2>3, OrchestratorPatches
    <3>2. change = [pr |-> "pr"]
      BY <1>s, <3>1
    <3>3. /\ new \in Rows /\ new.status = intended[s].status
          /\ new.user = intended[s].user /\ new.project = intended[s].project
          /\ new.goal = intended[s].goal /\ new.title = intended[s].title /\ new.pr = "pr"
          /\ new.workspace = intended[s].workspace
      BY <1>3, <3>2, PrIsPatched
    <3> HIDE DEF new
    <3>4. orch.row = intended[s] => row = new
      BY <1>2, <2>1, <3>1, <3>3, RowsAgree
    <3> QED BY <1>2, <2>1, <3>1, <3>3, <3>4
  <2> QED BY <2>1, <2>2, <2>3
<1>5. sessions'[s] \in Rows
  BY <1>0, <1>1, <1>2, <1>4, RowIsWritten
<1>6. /\ intended'[s] = IF s \in raced THEN sessions'[s] ELSE new
      /\ \A t \in SessionIds \ {s} : intended'[t] = intended[t]
  BY <1>0, <1>1, <1>2, <1>3, <1>4, <1>5, Intending
<1> HIDE DEF new
<1>7. s \notin raced => row = intended'[s]
  BY <1>0, <1>2, <1>4, <1>6 DEF RecordsSurvive
<1>8. SameSession(row, s)
  BY <1>2, <1>4 DEF SameSession
<1>9. /\ s \notin raced => \A q \in Slots : ~InUpdate(q, s)'
      /\ orch'.at # "write"
  <2>1. \A q \in Slots : InUpdate(q, s)' <=> InUpdate(q, s)
    BY <1>1 DEF InUpdate
  <2> QED BY <1>s, <1>0, <1>1, <1>2, <2>1 DEF Updating, Idle
<1>10. \A q \in Slots : StartsNow(q)' = StartsNow(q)
  BY <1>1 DEF StartsNow
<1>11. row.status = "RUNNING" =>
         s \in cut \cup raced \cup visits \/ \E q \in Slots : s \in StartsNow(q)'
  BY <1>2, <1>4, <1>10, RunningIsExplained
<1>12. Steady
  BY <1>1, <1>2, <1>4, <1>8, WritingIsSteady
<1>13. Writing(s, row)
  BY <1>1, <1>2, <1>4, <1>6, <1>7, <1>8, <1>9, <1>10, <1>11 DEF Writing
<1> QED BY <1>12, <1>13, SteadyKeeps, WritingKeeps DEF Inv
-----------------------------------------------------------------------------
(* A message on its way: what each conjunct of the invariant needs.        *)
LEMMA NumberIsTyped ==
  ASSUME TypeOK, NEW q \in Slots, Carries(q)
  PROVE  req[q].number \in Nat
<1>1. req[q] \in Posted \cup Message \cup Asking \cup Complete
  BY HeldAt DEF Carries, TypeOK
<1> QED BY <1>1 DEF Posted, Message, Asking, Complete

(* The number of a message stays in one place.                             *)
LEMMA NumbersKeep ==
  ASSUME Inv, TypeOK', NEW r \in Slots, \A q \in Slots \ {r} : req'[q] = req[q],
         sessions' = sessions, arrived' = arrived \/ arrived' = arrived + 1,
         NEW key,
         \/ ~Carries(r)' /\ pendingByThreadId' = pendingByThreadId
         \/ /\ req'[r].number = arrived + 1 /\ arrived' = arrived + 1
            /\ pendingByThreadId' = pendingByThreadId
         \/ /\ Carries(r) /\ req'[r].number = req[r].number
            /\ pendingByThreadId' = pendingByThreadId
         \/ /\ key \in DOMAIN pendingByThreadId
            /\ req'[r].number = pendingByThreadId[key].number
            /\ pendingByThreadId' = Drop(pendingByThreadId, key)
         \/ /\ Carries(r) /\ ~Carries(r)'
            /\ \E d : /\ pendingByThreadId' = Put(pendingByThreadId, key, d)
                      /\ \/ d.number = req[r].number
                         \/ /\ key \in DOMAIN pendingByThreadId
                            /\ d.number = pendingByThreadId[key].number
  PROVE  Numbered'
<1>1. SessionIds' = SessionIds /\ Numbered /\ arrived \in Nat
      /\ \A s \in SessionIds : sessions[s].goal \in Nat
  <2>1. \A s \in SessionIds : sessions[s] \in Rows
    BY DEF Inv, TypeOK, SessionIds
  <2> QED BY <2>1 DEF SessionIds, Inv, TypeOK, Rows
<1>2. \A q \in Slots \ {r} : Carries(q)' <=> Carries(q)
  BY DEF Carries
<1>3. /\ \A q \in Slots : Carries(q) => req[q].number \in Nat /\ req[q].number <= arrived
      /\ \A k \in DOMAIN pendingByThreadId :
           pendingByThreadId[k].number \in Nat /\ pendingByThreadId[k].number <= arrived
      /\ \A s \in SessionIds : sessions[s].goal <= arrived
  BY <1>1, NumberIsTyped DEF Inv, TypeOK, Numbered, Drafts
<1>4. arrived <= arrived' /\ \A n \in Nat : n <= arrived => n <= arrived' /\ n # arrived + 1
  BY <1>1
<1>5. CASE ~Carries(r)' /\ pendingByThreadId' = pendingByThreadId
  <2>1. \A q \in Slots : Carries(q)' => Carries(q) /\ req'[q] = req[q]
    BY <1>2, <1>5
  <2> QED BY <1>1, <1>3, <1>4, <1>5, <2>1 DEF Numbered
<1>6. CASE /\ req'[r].number = arrived + 1 /\ arrived' = arrived + 1
           /\ pendingByThreadId' = pendingByThreadId
  <2>1. /\ \A q \in Slots : Carries(q)' => req'[q].number <= arrived'
        /\ \A p, q \in Slots : Carries(p)' /\ Carries(q)' /\ req'[p].number = req'[q].number => p = q
    BY <1>1, <1>2, <1>3, <1>4, <1>6 DEF Numbered
  <2>2. \A q \in Slots : Carries(q)' =>
          /\ \A k \in DOMAIN pendingByThreadId' : pendingByThreadId'[k].number # req'[q].number
          /\ \A s \in SessionIds' : sessions'[s].goal # req'[q].number
    BY <1>1, <1>2, <1>3, <1>4, <1>6 DEF Numbered
  <2> QED BY <1>1, <1>3, <1>4, <1>6, <2>1, <2>2 DEF Numbered
<1>7. CASE /\ Carries(r) /\ req'[r].number = req[r].number
           /\ pendingByThreadId' = pendingByThreadId
  <2>1. \A q \in Slots : Carries(q)' => Carries(q) /\ req'[q].number = req[q].number
    BY <1>2, <1>7
  <2> QED BY <1>1, <1>3, <1>4, <1>7, <2>1 DEF Numbered
<1>8. CASE /\ key \in DOMAIN pendingByThreadId
           /\ req'[r].number = pendingByThreadId[key].number
           /\ pendingByThreadId' = Drop(pendingByThreadId, key)
  <2>1. /\ DOMAIN pendingByThreadId' = DOMAIN pendingByThreadId \ {key}
        /\ \A k \in DOMAIN pendingByThreadId' : pendingByThreadId'[k] = pendingByThreadId[k]
    BY <1>8 DEF Drop
  <2>2. /\ \A q \in Slots : Carries(q)' => req'[q].number <= arrived'
        /\ \A p, q \in Slots : Carries(p)' /\ Carries(q)' /\ req'[p].number = req'[q].number => p = q
    BY <1>1, <1>2, <1>3, <1>4, <1>8 DEF Numbered
  <2>3. \A q \in Slots : Carries(q)' =>
          /\ \A k \in DOMAIN pendingByThreadId' : pendingByThreadId'[k].number # req'[q].number
          /\ \A s \in SessionIds' : sessions'[s].goal # req'[q].number
    BY <1>1, <1>2, <1>8, <2>1 DEF Numbered
  <2>4. /\ \A k \in DOMAIN pendingByThreadId' : pendingByThreadId'[k].number <= arrived'
        /\ \A k, l \in DOMAIN pendingByThreadId' :
             pendingByThreadId'[k].number = pendingByThreadId'[l].number => k = l
        /\ \A k \in DOMAIN pendingByThreadId', s \in SessionIds' :
             pendingByThreadId'[k].number # sessions'[s].goal
    BY <1>1, <1>3, <1>4, <2>1 DEF Numbered
  <2>5. /\ \A s \in SessionIds' : sessions'[s].goal <= arrived'
        /\ \A s, t \in SessionIds' : sessions'[s].goal = sessions'[t].goal => s = t
    BY <1>1, <1>3, <1>4 DEF Numbered
  <2> QED BY <2>2, <2>3, <2>4, <2>5 DEF Numbered
<1>9. CASE /\ Carries(r) /\ ~Carries(r)'
           /\ \E d : /\ pendingByThreadId' = Put(pendingByThreadId, key, d)
                     /\ \/ d.number = req[r].number
                        \/ /\ key \in DOMAIN pendingByThreadId
                           /\ d.number = pendingByThreadId[key].number
  <2>1. PICK d : /\ pendingByThreadId' = Put(pendingByThreadId, key, d)
                 /\ \/ d.number = req[r].number
                    \/ /\ key \in DOMAIN pendingByThreadId
                       /\ d.number = pendingByThreadId[key].number
    BY <1>9
  <2>2. /\ DOMAIN pendingByThreadId' = DOMAIN pendingByThreadId \cup {key}
        /\ pendingByThreadId'[key] = d
        /\ \A k \in DOMAIN pendingByThreadId \ {key} : pendingByThreadId'[k] = pendingByThreadId[k]
    BY <2>1 DEF Put
  <2>3. \A q \in Slots : Carries(q)' => Carries(q) /\ req'[q] = req[q] /\ q # r
    BY <1>2, <1>9
  <2>4. /\ d.number \in Nat /\ d.number <= arrived
        /\ \A q \in Slots : Carries(q) /\ q # r => req[q].number # d.number
        /\ \A k \in DOMAIN pendingByThreadId \ {key} : pendingByThreadId[k].number # d.number
        /\ \A s \in SessionIds : sessions[s].goal # d.number
    <3>1. CASE d.number = req[r].number
      BY <1>1, <1>3, <1>9, <3>1 DEF Numbered
    <3>2. CASE key \in DOMAIN pendingByThreadId /\ d.number = pendingByThreadId[key].number
      BY <1>1, <1>3, <3>2 DEF Numbered
    <3> QED BY <2>1, <3>1, <3>2
  <2>5. /\ \A q \in Slots : Carries(q)' => req'[q].number <= arrived'
        /\ \A p, q \in Slots : Carries(p)' /\ Carries(q)' /\ req'[p].number = req'[q].number => p = q
        /\ \A s \in SessionIds' : sessions'[s].goal <= arrived'
        /\ \A s, t \in SessionIds' : sessions'[s].goal = sessions'[t].goal => s = t
    BY <1>1, <1>3, <1>4, <2>3 DEF Numbered
  <2>6. \A q \in Slots : Carries(q)' =>
          /\ \A k \in DOMAIN pendingByThreadId' : pendingByThreadId'[k].number # req'[q].number
          /\ \A s \in SessionIds' : sessions'[s].goal # req'[q].number
    BY <1>1, <2>2, <2>3, <2>4 DEF Numbered
  <2>7. /\ \A k \in DOMAIN pendingByThreadId' : pendingByThreadId'[k].number <= arrived'
        /\ \A k \in DOMAIN pendingByThreadId', s \in SessionIds' :
             pendingByThreadId'[k].number # sessions'[s].goal
    BY <1>1, <1>3, <1>4, <2>2, <2>4 DEF Numbered
  <2>8. \A k, l \in DOMAIN pendingByThreadId' :
          pendingByThreadId'[k].number = pendingByThreadId'[l].number => k = l
    BY <1>1, <2>2, <2>4 DEF Numbered
  <2> QED BY <2>5, <2>6, <2>7, <2>8 DEF Numbered
<1> QED BY <1>5, <1>6, <1>7, <1>8, <1>9

(* What else a step of a message has to see to: its project and its thread.*)
LEMMA CarryingKeeps ==
  ASSUME Inv, TypeOK', Numbered', NEW r \in Slots, \A q \in Slots \ {r} : req'[q] = req[q],
         sessions' = sessions, orch' = orch, announced' = announced, visits' = visits,
         cut' = cut, raced' = raced, forgotten' = forgotten, intended' = intended,
         workspaceByThreadId' = workspaceByThreadId,
         ProjectIds \subseteq ProjectIds',
         \A p \in ProjectIds : projects'[p].user = projects[p].user,
         req[r].at \notin {"emit", "view", "enqueue"},
         req'[r].at \in {"idle", "newProject", "message", "parse", "create"},
         req'[r].at \in {"message", "parse", "create"} =>
           /\ req'[r].project \in ProjectIds'
           /\ projects'[req'[r].project].user = req'[r].user,
         Carries(r)' /\ req'[r].thread \in Nat => req'[r].thread \in SessionIds,
         /\ req'[r].at \in {"parse", "create"} /\ req'[r].key # None
         /\ req'[r].thread \in SessionIds \ forgotten
         /\ sessions[req'[r].thread].workspace # None
         => req'[r].key = sessions[req'[r].thread].workspace
  PROVE  Inv'
<1>1. SessionIds' = SessionIds
  BY DEF SessionIds
<1>2. Owning'
  <2>1. \A q \in Slots : q # r /\ req'[q].at \in {"message", "parse", "create"} =>
          /\ req'[q].project \in ProjectIds'
          /\ projects'[req'[q].project].user = req'[q].user
    BY DEF Inv, Owning
  <2>2. \A s \in SessionIds' : /\ sessions'[s].project \in ProjectIds'
                               /\ projects'[sessions'[s].project].user = sessions'[s].user
    BY <1>1 DEF Inv, Owning
  <2> QED BY <2>1, <2>2 DEF Owning
<1>3. Threading'
  <2>1. \A q \in Slots : Carries(q)' /\ req'[q].thread \in Nat => req'[q].thread \in SessionIds'
    <3>1. \A q \in Slots \ {r} : Carries(q)' => Carries(q)
      BY DEF Carries
    <3> QED BY <1>1, <3>1 DEF Inv, Threading
  <2>2. ASSUME NEW q \in Slots, req'[q].at \in {"parse", "create"}, req'[q].key # None,
               req'[q].thread \in SessionIds' \ forgotten',
               sessions'[req'[q].thread].workspace # None
        PROVE  req'[q].key = sessions'[req'[q].thread].workspace
    BY <1>1, <2>2 DEF Inv, Threading
  <2>3. \A s \in SessionIds' \ forgotten' : sessions'[s].workspace # None =>
          s \in DOMAIN workspaceByThreadId' /\ workspaceByThreadId'[s] = sessions'[s].workspace
    BY <1>1 DEF Inv, Threading
  <2> QED BY <2>1, <2>2, <2>3 DEF Threading
<1>4. RowsStay
  <2>1. visits \subseteq announced
    BY DEF Inv, StartIsWhole
  <2>2. ~Serves(r)' /\ StartsNow(r) = {}
    BY DEF Serves, StartsNow
  <2>3. \A q \in Slots \ {r} : StartsNow(q)' = StartsNow(q)
    BY DEF StartsNow
  <2> QED BY <2>1, <2>2, <2>3 DEF RowsStay
<1> QED BY <1>2, <1>3, <1>4, RowsStayKeeps DEF Inv

(* A session or a message is asked for.                                    *)
LEMMA PostSteps ==
  ASSUME Inv, TypeOK', NEW r \in Slots, NEW user \in UserIds,
         \/ \E p \in ProjectIds \cup {None}, repo \in Repos \cup {None}, autoStart \in BOOLEAN :
              PostSession(r, user, p, repo, autoStart)
         \/ \E p \in ProjectIds \cup {None}, thread \in Threads \cup SessionIds \cup {None} :
              PostMessage(r, user, thread, p)
  PROVE  Inv'
<1> USE DEF accountVars, intakeVars, outVars, bounds, histVars
<1>0. TypeOK
  BY DEF Inv
<1>1. /\ sessions' = sessions /\ projects' = projects /\ orch' = orch
      /\ announced' = announced /\ visits' = visits
      /\ pendingByThreadId' = pendingByThreadId /\ workspaceByThreadId' = workspaceByThreadId
      /\ cut' = cut /\ raced' = raced /\ forgotten' = forgotten /\ intended' = intended
      /\ arrived' = arrived + 1
  BY DEF PostSession, PostMessage, Authorised, Arrives, Number
<1>2. /\ \A q \in Slots \ {r} : req'[q] = req[q]
      /\ req[r].at = "idle" /\ req'[r].number = arrived + 1
      /\ req'[r].at \in {"newProject", "message", "create"}
      /\ req'[r].at \in {"message", "create"} => req'[r].project \in OwnProjects(req'[r].user)
      /\ req'[r].at = "create" => req'[r].key = None
      /\ req'[r].thread \in Threads \cup SessionIds \cup {None}
  <2>1. ASSUME NEW p \in ProjectIds \cup {None}, NEW repo \in Repos \cup {None},
               NEW autoStart \in BOOLEAN, PostSession(r, user, p, repo, autoStart)
        PROVE  <1>2!:
    BY <1>0, <2>1, PostArrives
  <2>2. ASSUME NEW p \in ProjectIds \cup {None},
               NEW thread \in Threads \cup SessionIds \cup {None}, PostMessage(r, user, thread, p)
        PROVE  <1>2!:
    BY <1>0, <2>2, MessageArrives
  <2> QED BY <2>1, <2>2
<1>3. Numbered'
  BY <1>1, <1>2, NumbersKeep
<1>4. req'[r].at \in {"message", "parse", "create"} =>
        /\ req'[r].project \in ProjectIds'
        /\ projects'[req'[r].project].user = req'[r].user
  BY <1>1, <1>2 DEF OwnProjects, ProjectIds
<1>5. req'[r].thread \in Nat => req'[r].thread \in SessionIds
  BY <1>2, ApiServerAssumption
<1>6. ProjectIds' = ProjectIds
  BY <1>1 DEF ProjectIds
<1> QED BY <1>1, <1>2, <1>3, <1>4, <1>5, <1>6, CarryingKeeps

(* A message that creates its project first.                               *)
LEMMA NewProjectStep ==
  ASSUME Inv, TypeOK', NEW r \in Slots, NewProject(r)
  PROVE  Inv'
<1> USE DEF accountVars, intakeVars, outVars, bounds, histVars
<1>0. TypeOK
  BY DEF Inv
<1>1. /\ sessions' = sessions /\ orch' = orch /\ announced' = announced /\ visits' = visits
      /\ pendingByThreadId' = pendingByThreadId /\ workspaceByThreadId' = workspaceByThreadId
      /\ cut' = cut /\ raced' = raced /\ forgotten' = forgotten /\ intended' = intended
      /\ arrived' = arrived
  BY DEF NewProject
<1>2. /\ \A q \in Slots \ {r} : req'[q] = req[q]
      /\ req[r].at = "newProject"
      /\ req'[r].at \in {"message", "create"} /\ req'[r].number = req[r].number
      /\ req'[r].user = req[r].user
      /\ req'[r].project = Len(projects) + 1
      /\ req'[r].thread = req[r].thread
      /\ req'[r].at = "create" => req'[r].key = None
  BY <1>0, ProjectArrives
<1>3. /\ ProjectIds \subseteq ProjectIds' /\ Len(projects) + 1 \in ProjectIds'
      /\ projects'[Len(projects) + 1].user = req[r].user
      /\ \A p \in ProjectIds : projects'[p].user = projects[p].user
  <2> DEFINE new == [user |-> req[r].user,
                     repo |-> IF req[r].repo = None THEN Blank ELSE req[r].repo, deleted |-> FALSE]
  <2>1. projects' = Append(projects, new) /\ new.user = req[r].user
    BY DEF NewProject, InsertProject
  <2>2. projects \in Seq([user : Nat, repo : Repos \cup {Blank}, deleted : BOOLEAN])
    BY <1>0 DEF TypeOK
  <2> HIDE DEF new
  <2>3. /\ Len(projects') = Len(projects) + 1 /\ Len(projects) \in Nat
        /\ DOMAIN projects = 1 .. Len(projects) /\ DOMAIN projects' = 1 .. (Len(projects) + 1)
        /\ projects'[Len(projects) + 1] = new
        /\ \A p \in 1 .. Len(projects) : projects'[p] = projects[p]
    BY <2>1, <2>2
  <2> QED BY <2>1, <2>3 DEF ProjectIds
<1>4. Carries(r)
  BY <1>2 DEF Carries
<1>5. Numbered'
  BY <1>1, <1>2, <1>4, NumbersKeep
<1>6. req'[r].thread \in Nat => req'[r].thread \in SessionIds
  BY <1>2, <1>4 DEF Inv, Threading
<1> QED BY <1>1, <1>2, <1>3, <1>5, <1>6, CarryingKeeps

(* A message is handled.                                                   *)
LEMMA HandledStep ==
  ASSUME Inv, TypeOK', NEW r \in Slots, NEW key, Handled(r, key),
         UNCHANGED <<sessions, accountVars, workspaceByThreadId, outVars, bounds, histVars>>
  PROVE  Inv'
<1> USE DEF accountVars, intakeVars, outVars, bounds, histVars
<1>0. TypeOK /\ Idle.at = "idle"
  BY DEF Inv, Idle
<1>1. /\ sessions' = sessions /\ projects' = projects /\ orch' = orch
      /\ announced' = announced /\ visits' = visits /\ workspaceByThreadId' = workspaceByThreadId
      /\ cut' = cut /\ raced' = raced /\ forgotten' = forgotten /\ intended' = intended
      /\ arrived' = arrived
  OBVIOUS
<1>2. /\ \A q \in Slots \ {r} : req'[q] = req[q]
      /\ req[r].at \in {"message", "parse"} /\ Carries(r)
      /\ req'[r].at = "idle" \/ Moved(r, key)
  BY <1>0 DEF Handled, Carries
<1>3. Numbered'
  <2>1. req'[r] = Idle => ~Carries(r)'
    BY <1>0 DEF Carries
  <2> QED BY <1>1, <1>2, <2>1, NumbersKeep DEF Handled
<1>4. Moved(r, key) => /\ req'[r].project \in ProjectIds'
                       /\ projects'[req'[r].project].user = req'[r].user
  BY <1>1, <1>2 DEF Moved, Inv, Owning, ProjectIds
<1>5. Moved(r, key) /\ req'[r].thread \in Nat => req'[r].thread \in SessionIds
  BY <1>2 DEF Moved, Inv, Threading
<1>6. ASSUME Moved(r, key), key # None, req[r].thread \in SessionIds \ forgotten,
             sessions[req[r].thread].workspace # None
      PROVE  key = sessions[req[r].thread].workspace
  <2>1. CASE req[r].at = "message"
    <3>1. key = ThreadKey(req[r].thread)
      BY <2>1 DEF Handled
    <3>2. req[r].thread # None
      BY <1>0, <1>6, ApiServerAssumption DEF TypeOK, SessionIds
    <3> QED BY <1>6, <3>1, <3>2 DEF Inv, Threading, ThreadKey
  <2>2. CASE req[r].at = "parse"
    <3>1. key = req[r].key
      BY <2>2 DEF Handled
    <3> QED BY <1>6, <2>2, <3>1 DEF Inv, Threading
  <2> QED BY <1>2, <2>1, <2>2
<1>7. ProjectIds' = ProjectIds
  BY <1>1 DEF ProjectIds
<1>8. CASE Moved(r, key)
  <2>1. /\ req'[r].at \in {"parse", "create"} /\ req'[r].key = key
        /\ req'[r].thread = req[r].thread
    BY <1>8 DEF Moved
  <2> QED BY <1>1, <1>2, <1>3, <1>4, <1>5, <1>6, <1>7, <1>8, <2>1, CarryingKeeps
<1>9. CASE req'[r].at = "idle"
  <2>1. ~Carries(r)'
    BY <1>9 DEF Carries
  <2> QED BY <1>1, <1>2, <1>3, <1>7, <1>9, <2>1, CarryingKeeps
<1> QED BY <1>2, <1>8, <1>9

(* A session is created: its row takes the message's number, project and   *)
(* key, and nothing has been said of it yet.                               *)
LEMMA CreateStep ==
  ASSUME Inv, TypeOK', NEW r \in Slots, CreateSession(r)
  PROVE  Inv'
<1> USE DEF accountVars, intakeVars, outVars, bounds, histVars
<1>s. PICK s : s = Len(sessions) + 1
  OBVIOUS
<1>0. TypeOK /\ Updating /\ Starting /\ Owning /\ Numbered /\ Threading /\ StartIsWhole
      /\ Idle.at = "idle"
  BY DEF Inv, Idle
<1>1. /\ projects' = projects /\ orch' = orch /\ announced' = announced /\ visits' = visits
      /\ pendingByThreadId' = pendingByThreadId /\ arrived' = arrived
      /\ cut' = cut /\ raced' = raced /\ forgotten' = forgotten /\ intended' = sessions'
  BY DEF CreateSession
<1>2. /\ req[r].at = "create" /\ Carries(r)
      /\ \A q \in Slots \ {r} : req'[q] = req[q]
      /\ \/ req'[r] = Idle
         \/ req'[r].at = "start" /\ req'[r].session = s
      /\ SessionIds' = SessionIds \cup {s} /\ s \in Nat /\ s \notin SessionIds
      /\ \A t \in SessionIds : sessions'[t] = sessions[t]
      /\ sessions'[s].user = req[r].user /\ sessions'[s].project = req[r].project
      /\ sessions'[s].goal = req[r].number /\ sessions'[s].status = "CREATED"
      /\ sessions'[s].workspace = req[r].key
      /\ req[r].key = None => workspaceByThreadId' = workspaceByThreadId
  BY <1>s, SessionIsCreated
<1>3. ~Carries(r)' /\ ~Writes(r)'
  BY <1>0, <1>2 DEF Carries, Writes
<1>4. \A q \in Slots : /\ Carries(q)' => Carries(q) /\ req'[q] = req[q] /\ q # r
                       /\ Writes(q)' => Writes(q) /\ req'[q] = req[q]
  BY <1>2, <1>3 DEF Carries, Writes
<1>5. \A q \in Slots : req'[q].at \in {"message", "parse", "create"} => Carries(q)'
  BY DEF Carries
<1>6. Owning'
  <2>1. \A q \in Slots : req'[q].at \in {"message", "parse", "create"} =>
          /\ req'[q].project \in ProjectIds'
          /\ projects'[req'[q].project].user = req'[q].user
    BY <1>0, <1>1, <1>4, <1>5 DEF Owning, ProjectIds
  <2>2. ASSUME NEW t \in SessionIds'
        PROVE  /\ sessions'[t].project \in ProjectIds'
               /\ projects'[sessions'[t].project].user = sessions'[t].user
    BY <1>0, <1>1, <1>2 DEF Owning, ProjectIds
  <2> QED BY <2>1, <2>2 DEF Owning
<1>7. Numbered'
  <2>1. /\ \A q \in Slots : Carries(q)' => req'[q].number <= arrived'
        /\ \A k \in DOMAIN pendingByThreadId' : pendingByThreadId'[k].number <= arrived'
        /\ \A t \in SessionIds' : sessions'[t].goal <= arrived'
    BY <1>0, <1>1, <1>2, <1>4 DEF Numbered
  <2>2. /\ \A p, q \in Slots : Carries(p)' /\ Carries(q)' /\ req'[p].number = req'[q].number => p = q
        /\ \A k, l \in DOMAIN pendingByThreadId' :
             pendingByThreadId'[k].number = pendingByThreadId'[l].number => k = l
        /\ \A t, q \in SessionIds' : sessions'[t].goal = sessions'[q].goal => t = q
    BY <1>0, <1>1, <1>2, <1>4 DEF Numbered
  <2>3. /\ \A q \in Slots : Carries(q)' =>
             /\ \A k \in DOMAIN pendingByThreadId' : pendingByThreadId'[k].number # req'[q].number
             /\ \A t \in SessionIds' : sessions'[t].goal # req'[q].number
        /\ \A k \in DOMAIN pendingByThreadId', t \in SessionIds' :
             pendingByThreadId'[k].number # sessions'[t].goal
    BY <1>0, <1>1, <1>2, <1>4 DEF Numbered
  <2> QED BY <2>1, <2>2, <2>3 DEF Numbered
<1>8. Threading'
  <2>1. \A q \in Slots : Carries(q)' /\ req'[q].thread \in Nat => req'[q].thread \in SessionIds'
    BY <1>0, <1>2, <1>4 DEF Threading
  <2>2. ASSUME NEW q \in Slots, req'[q].at \in {"parse", "create"}, req'[q].key # None,
               req'[q].thread \in SessionIds' \ forgotten',
               sessions'[req'[q].thread].workspace # None
        PROVE  req'[q].key = sessions'[req'[q].thread].workspace
    <3>1. Carries(q) /\ req'[q] = req[q]
      BY <1>4, <1>5, <2>2
    <3>2. req[q].thread \in SessionIds
      BY <1>0, <1>2, <2>2, <3>1 DEF Threading, TypeOK, SessionIds
    <3> QED BY <1>0, <1>1, <1>2, <2>2, <3>1, <3>2 DEF Threading
  <2>3. ASSUME NEW t \in SessionIds' \ forgotten', sessions'[t].workspace # None
        PROVE  t \in DOMAIN workspaceByThreadId' /\ workspaceByThreadId'[t] = sessions'[t].workspace
    <3>1. CASE req[r].key = None
      BY <1>0, <1>1, <1>2, <2>3, <3>1 DEF Threading
    <3>2. CASE req[r].key # None
      <4>1. /\ s \in DOMAIN workspaceByThreadId' /\ workspaceByThreadId'[s] = req[r].key
            /\ \A k \in DOMAIN workspaceByThreadId \ {s, req[r].thread} :
                 k \in DOMAIN workspaceByThreadId' /\ workspaceByThreadId'[k] = workspaceByThreadId[k]
            /\ req[r].thread # None =>
                 /\ req[r].thread \in DOMAIN workspaceByThreadId'
                 /\ workspaceByThreadId'[req[r].thread] = req[r].key
        BY <1>s, <3>2, BoundWorkspaces
      <4>2. CASE t = s
        BY <1>2, <4>1, <4>2
      <4>3. CASE t # s /\ t = req[r].thread
        <5>1. t # None /\ t \in SessionIds \ forgotten
          BY <1>0, <1>1, <1>2, <2>3, <4>3, ApiServerAssumption DEF TypeOK, SessionIds
        <5>2. req[r].key = sessions[t].workspace
          BY <1>0, <1>2, <2>3, <3>2, <4>3, <5>1 DEF Threading
        <5> QED BY <1>2, <4>1, <4>3, <5>1, <5>2
      <4>4. CASE t # s /\ t # req[r].thread
        <5>1. t \in SessionIds \ forgotten /\ sessions'[t] = sessions[t]
          BY <1>1, <1>2, <2>3, <4>4
        <5> QED BY <1>0, <2>3, <4>1, <4>4, <5>1 DEF Threading
      <4> QED BY <4>2, <4>3, <4>4
    <3> QED BY <3>1, <3>2
  <2> QED BY <2>1, <2>2, <2>3 DEF Threading
<1>9. Updating'
  <2>1. ASSUME NEW q \in Slots, Serves(q)' PROVE req'[q].session \in SessionIds'
    <3>1. CASE q = r
      <4>1. req'[r] # Idle
        BY <1>0, <2>1, <3>1 DEF Serves
      <4> QED BY <1>2, <3>1, <4>1
    <3>2. CASE q # r
      <4>1. Serves(q) /\ req'[q] = req[q]
        BY <1>2, <2>1, <3>2 DEF Serves
      <4> QED BY <1>0, <1>2, <4>1 DEF Updating
    <3> QED BY <3>1, <3>2
  <2>2. \A q \in Slots : req'[q].at \in {"updateTitle", "writeTitle", "writeStarted"} =>
          req'[q] = req[q] /\ req[q].session \in SessionIds
    <3>1. \A q \in Slots : req'[q].at \in {"updateTitle", "writeTitle", "writeStarted"} => q # r
      BY <1>0, <1>2
    <3>2. \A q \in Slots : req[q].at \in {"updateTitle", "writeTitle", "writeStarted"} => Serves(q)
      BY DEF Serves
    <3> QED BY <1>0, <1>2, <3>1, <3>2 DEF Updating
  <2>3. \A q \in Slots, t \in SessionIds' : InUpdate(q, t)' => InUpdate(q, t) /\ t \in SessionIds
    BY <2>2 DEF InUpdate
  <2>4. orch.at = "write" => /\ orch.session \in SessionIds
                             /\ sessions'[orch.session] = sessions[orch.session]
    BY <1>0, <1>2 DEF Updating
  <2>5. /\ \A p, q \in Slots, t \in SessionIds' \ raced' : InUpdate(p, t)' /\ InUpdate(q, t)' => p = q
        /\ \A q \in Slots, t \in SessionIds' \ raced' :
             InUpdate(q, t)' => ~(orch'.at = "write" /\ orch'.session = t)
    BY <1>0, <1>1, <2>3 DEF Updating
  <2>6. ASSUME NEW q \in Slots, Writes(q)'
        PROVE  /\ SameSession(req[q].row, req[q].session)'
               /\ req'[q].session \notin raced' => req'[q].row = sessions'[req'[q].session]
    <3>1. /\ Writes(q) /\ req'[q] = req[q] /\ req[q].session \in SessionIds
          /\ sessions'[req[q].session] = sessions[req[q].session]
      BY <1>2, <1>4, <2>2, <2>6 DEF Writes
    <3> QED BY <1>0, <1>1, <3>1 DEF Updating, SameSession
  <2>7. ASSUME NEW q \in Slots, req'[q].at \in {"updateTitle", "writeTitle"}
        PROVE  /\ req'[q].patch.workspace = sessions'[req'[q].session].workspace
               /\ req'[q].session \notin raced' => req'[q].patch.pr = sessions'[req'[q].session].pr
    <3>1. /\ req'[q] = req[q] /\ req[q].session \in SessionIds
          /\ sessions'[req[q].session] = sessions[req[q].session]
      BY <1>2, <2>2, <2>7
    <3> QED BY <1>0, <1>1, <2>7, <3>1 DEF Updating
  <2>8. orch'.at = "write" =>
          /\ orch'.session \in SessionIds'
          /\ SameSession(orch.row, orch.session)'
          /\ orch'.session \notin raced' => orch'.row = sessions'[orch'.session]
          /\ orch'.patch \in Contexts => /\ orch'.patch.workspace = orch'.row.workspace
                                         /\ orch'.patch.title = orch'.row.title
                                         /\ orch'.patch.pr = "pr"
    BY <1>0, <1>1, <1>2, <2>4 DEF Updating, SameSession
  <2> QED BY <2>1, <2>5, <2>6, <2>7, <2>8 DEF Updating
<1>10. Starting'
  <2>1. \A q \in Slots : req'[q].at \in {"view", "enqueue"} => req'[q].session \in announced'
    <3>1. \A q \in Slots : req'[q].at \in {"view", "enqueue"} => q # r
      BY <1>0, <1>2
    <3> QED BY <1>0, <1>1, <1>2, <3>1 DEF Starting
  <2>2. \A t \in SessionIds' : sessions'[t].status = "COMPLETED" => t \in visits'
    BY <1>0, <1>1, <1>2 DEF Starting
  <2>3. \A q \in Slots : Writes(q)' /\ req'[q].row.status = "COMPLETED" => req'[q].session \in visits'
    BY <1>0, <1>1, <1>4 DEF Starting
  <2>4. orch'.at = "write" =>
          /\ orch'.session \in announced'
          /\ orch'.row.status = "COMPLETED" => orch'.session \in visits'
          /\ orch'.patch = [status |-> "COMPLETED"] => orch'.session \in visits'
    BY <1>0, <1>1 DEF Starting
  <2> QED BY <2>1, <2>2, <2>3, <2>4 DEF Starting
<1>11. RecordsSurvive'
  BY <1>1 DEF RecordsSurvive
<1>12. StartIsWhole'
  <2>1. ASSUME NEW t \in SessionIds' \ (cut' \cup raced'), sessions'[t].status = "RUNNING"
        PROVE  t \in visits' \/ \E q \in Slots : t \in StartsNow(q)'
    <3>1. t \in SessionIds \ (cut \cup raced) /\ sessions[t].status = "RUNNING"
      BY <1>1, <1>2, <2>1
    <3>2. t \in visits \/ \E q \in Slots : t \in StartsNow(q)
      BY <1>0, <3>1 DEF StartIsWhole
    <3>3. \A q \in Slots : StartsNow(q) \subseteq StartsNow(q)'
      BY <1>2 DEF StartsNow
    <3> QED BY <1>1, <3>2, <3>3
  <2>2. visits' \subseteq announced'
    BY <1>0, <1>1 DEF StartIsWhole
  <2> QED BY <2>1, <2>2 DEF StartIsWhole
<1> QED BY <1>6, <1>7, <1>8, <1>9, <1>10, <1>11, <1>12 DEF Inv

(* Every step keeps the invariant.                                         *)
LEMMA InvNext == Inv /\ [Next]_vars => Inv'
<1> SUFFICES ASSUME Inv, [Next]_vars PROVE Inv'
  OBVIOUS
<1>1. TypeOK' /\ TypeOK
  BY TypeNext DEF Inv
<1>2. ASSUME NEW r \in Slots, NEW answer \in Repos \cup {None}, HandleMessage(r, answer) PROVE Inv'
  BY <1>1, <1>2, MessageIsHandled, HandledStep DEF HandleMessage
<1>3. ASSUME NEW r \in Slots, NEW request \in ParsedRequests, HandleRequest(r, request) PROVE Inv'
  BY <1>1, <1>3, RequestIsHandled, HandledStep DEF HandleRequest
<1> QED
  BY <1>1, <1>2, <1>3, NextIsOne, QuietSteps, StartSteps, ReadSteps, OrchestratorReadsStep,
     StartWritesStep, RenameWritesStep, OrchestratorWritesStep, PostSteps, NewProjectStep, CreateStep

(* Inv holds in every reachable state.                                     *)
LEMMA InvAlways == Spec => []Inv
BY InitInv, InvNext, PTL DEF Spec
-----------------------------------------------------------------------------
(* Every request, row and draft has its type, at every await: in            *)
(* particular a session's row always has all its columns, and no map of    *)
(* the intake has a key that is no thread, session or default (server.ts,  *)
(* session-service.ts, user-intake-service.ts).                            *)
THEOREM ApiTypes == Spec => []TypeOK
<1>1. Inv => TypeOK
  BY DEF Inv
<1> QED BY <1>1, InvAlways, PTL

(* A row loses what was written to it only when two updates of the session *)
(* overlapped, of a start, a rename or the orchestrator, for any number of *)
(* requests at a time (session-service.ts:132-153, the repositories'       *)
(* update).                                                                *)
THEOREM UpdatesSurvive == Spec => []RecordsSurvive
<1>1. Inv => RecordsSurvive
  BY DEF Inv
<1> QED BY <1>1, InvAlways, PTL

(* A session set RUNNING is announced and given to a worker, or its start  *)
(* is on its way or was cut short (server.ts:330-352, 382-392, 398-420,    *)
(* session-service.ts:63-83).                                              *)
THEOREM StartsAreWhole == Spec => []StartIsWhole
<1>1. Inv => StartIsWhole
  BY DEF Inv
<1> QED BY <1>1, InvAlways, PTL

(* A message becomes at most one session, and its project is its user's    *)
(* (server.ts:132-167, user-intake-service.ts:39-61, 323-338).             *)
THEOREM MessagesBecomeOneSession == Spec => []OneSessionPerMessage
<1>1. Inv => OneSessionPerMessage
  BY DEF Inv, Numbered, Owning, OneSessionPerMessage
<1> QED BY <1>1, InvAlways, PTL

(* A message sent to a session of the intake goes on in that session's     *)
(* workspace until the API restarts (user-intake-service.ts:150-162,       *)
(* 228-232).                                                               *)
THEOREM ThreadsKeepTheirWorkspace == Spec => []ThreadKeepsWorkspace
<1>1. Inv => ThreadKeepsWorkspace
  <2> SUFFICES ASSUME Inv, NEW s \in SessionIds \ forgotten, sessions[s].workspace # None
               PROVE  ThreadKey(s) = sessions[s].workspace
    BY DEF ThreadKeepsWorkspace
  <2>1. s # None
    BY ApiServerAssumption DEF Inv, TypeOK, SessionIds
  <2> QED BY <2>1 DEF Inv, Threading, ThreadKey
<1> QED BY <1>1, InvAlways, PTL
=============================================================================
