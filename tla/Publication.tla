----------------------------- MODULE Publication -----------------------------
(***************************************************************************)
(* The worktree of a session, from its preparation to the pull request:    *)
(* ScmService (modules/scm/scm-service.ts) with the git commands it runs,  *)
(* and the two handlers of the orchestrator that call it,                  *)
(* handleSessionStarted and publishChanges.  Orchestration has all of this *)
(* as one step with a few outcomes; here each command and each call is a   *)
(* step, and agents write in the worktree between any two.                 *)
(*                                                                         *)
(* A commit is the set of works it brings; the base branch is the empty    *)
(* sequence.  One handler runs at a time.  git, the provider and the       *)
(* people who push to the branch are external.                             *)
(***************************************************************************)
EXTENDS Naturals, SequencesExt, FiniteSets

CONSTANTS
  Edits,            (* works of agents that change a file git tracks       *)
  Files,            (* works that add a file                               *)
  Folders,          (* works that add an empty directory                   *)
  HumanWorks,       (* what people push to the branch of the session       *)
  NoBranch,         (* the branch does not exist                           *)
  MaxPublications,  (* bound on the publications of a behaviour            *)
  MaxPreparations,  (* bound on its preparations                           *)
  MaxFaults         (* bound on its rejected calls                         *)

ASSUME PublicationAssumption ==
  /\ MaxPublications \in Nat /\ MaxPreparations \in Nat /\ MaxFaults \in Nat
  /\ NoBranch \notin Seq(SUBSET (Edits \cup Files \cup Folders \cup HumanWorks))
  /\ Folders \cap (Edits \cup Files) = {}

VARIABLES
  stage,    (* the command or call the handler makes next                  *)
  config,   (* the provider, and whether there is a token for it           *)
  tree,     (* the session's clone and worktree on disk                    *)
  branch,   (* the session's branch at the provider                        *)
  request,  (* whether the provider has the pull request                   *)
  context,  (* what the session's context has: workspace, pull request     *)
  bound,    (* whether the pull request has its binding                    *)
  told,     (* the events of the last publication                          *)
  taken,    (* the works that were in the worktree when it began           *)
  stuck,    (* the works of commits whose push failed                      *)
  before,   (* what Settled was when the handler began                     *)
  spent     (* how often the bounded things have happened                  *)

pubVars == <<stage, config, tree, branch, request, context, bound, told, taken, stuck, before, spent>>

Works == Edits \cup Files \cup Folders

NoTree == [exists |-> FALSE, head |-> <<>>, unstaged |-> {}, kept |-> {}, staged |-> {},
           rebasing |-> FALSE, fetched |-> NoBranch, left |-> {}]

(* The part of the configuration in the context that matters here.         *)
ScmConfigs == [provider : {"github", "azure-devops"}, token : BOOLEAN]

(* What the context says of the workspace, and of a pull request.          *)
ScmWorkspace == context.workspace
ExistingPullRequest == context.pullRequest

(* The token is required before anything else for GitHub only.             *)
RequireTokenForProvider == config.provider = "github" => config.token

(* What is seen of the session from outside.                               *)
Settled == [workspace |-> context.workspace, pullRequest |-> context.pullRequest,
            request |-> request, bound |-> bound, told |-> told]

Init ==
  /\ stage = "idle"
  /\ config \in ScmConfigs
  /\ tree = NoTree
  /\ branch = NoBranch /\ request = FALSE
  /\ context = [workspace |-> FALSE, pullRequest |-> FALSE]
  /\ bound = FALSE
  /\ told = {} /\ taken = {} /\ stuck = {}
  /\ before = Settled
  /\ spent = [publications |-> 0, preparations |-> 0, faults |-> 0, pushes |-> 0]

MayFail == spent.faults < MaxFaults

(* The works that commits bring.                                           *)
Brought(commits) == UNION ToSet(commits)

Pushed == IF branch = NoBranch THEN {} ELSE Brought(branch)

(* What git sees: an empty directory only with a .gitkeep in it.           *)
Visible == tree.unstaged \ (Folders \ tree.kept)

(* A command that succeeds leads to the next stage.                        *)
Go(next) == stage' = next /\ UNCHANGED spent
-----------------------------------------------------------------------------
(* handleSessionStarted; without the token it rejects, and nothing changes. *)
StartPreparation ==
  /\ stage = "idle" /\ spent.preparations < MaxPreparations
  /\ RequireTokenForProvider
  /\ stage' = "reset"
  /\ before' = Settled
  /\ spent' = [spent EXCEPT !.preparations = @ + 1]
  /\ UNCHANGED <<config, tree, branch, request, context, bound, told, taken, stuck>>

(* The directories of an earlier preparation are removed; a removal that   *)
(* fails is not noticed.                                                   *)
ResetWorkspaceDirectories ==
  /\ stage = "reset"
  /\ stage' = "clone"
  /\ \/ tree' = NoTree /\ UNCHANGED spent
     \/ /\ MayFail /\ tree.exists
        /\ spent' = [spent EXCEPT !.faults = @ + 1]
        /\ \E l \in (SUBSET {"r", "w"}) \ {{}} : tree' = [NoTree EXCEPT !.left = l]
  /\ UNCHANGED <<config, branch, request, context, bound, told, taken, stuck, before>>

(* A clone into a directory that is still there is tried once more after   *)
(* another removal.                                                        *)
CloneRepositoryWithRecovery ==
  /\ stage = "clone"
  /\ Go("fetchBase")
  /\ tree' = [tree EXCEPT !.left = @ \ {"r"}]
  /\ UNCHANGED <<config, branch, request, context, bound, told, taken, stuck, before>>

FetchBaseBranch ==
  /\ stage = "fetchBase"
  /\ Go("worktree")
  /\ UNCHANGED <<config, tree, branch, request, context, bound, told, taken, stuck, before>>

CreateWorktree ==
  /\ stage = "worktree" /\ "w" \notin tree.left
  /\ Go("prepared")
  /\ tree' = [tree EXCEPT !.exists = TRUE]
  /\ UNCHANGED <<config, branch, request, context, bound, told, taken, stuck, before>>

(* The scm entry of the context is the configuration and the workspace:    *)
(* a pull request it had is dropped.                                       *)
SavePrepared ==
  /\ stage = "prepared"
  /\ Go("idle")
  /\ context' = [workspace |-> TRUE, pullRequest |-> FALSE]
  /\ UNCHANGED <<config, tree, branch, request, bound, told, taken, stuck, before>>

(* prepareWorkspace or the update rejects: so does the handler.            *)
FailPreparation ==
  /\ stage \in {"clone", "fetchBase", "worktree", "prepared"}
  /\ \/ MayFail /\ spent' = [spent EXCEPT !.faults = @ + 1]
     \/ stage = "worktree" /\ "w" \in tree.left /\ UNCHANGED spent
  /\ stage' = "idle"
  /\ UNCHANGED <<config, tree, branch, request, context, bound, told, taken, stuck, before>>

PrepareWorkspace ==
  \/ StartPreparation \/ ResetWorkspaceDirectories \/ CloneRepositoryWithRecovery
  \/ FetchBaseBranch \/ CreateWorktree \/ SavePrepared \/ FailPreparation
-----------------------------------------------------------------------------
(* An agent writes in the worktree, whatever the handler is doing.         *)
AgentWorks(w) ==
  /\ tree.exists
  /\ w \notin tree.unstaged \cup tree.staged \cup Brought(tree.head) \cup Pushed
  /\ tree' = [tree EXCEPT !.unstaged = @ \cup {w}]
  /\ UNCHANGED <<stage, config, branch, request, context, bound, told, taken, stuck, before, spent>>

(* A reviewer pushes to the branch of the pull request.                    *)
HumanPush(h) ==
  /\ branch # NoBranch /\ h \notin Pushed
  /\ branch' = Append(branch, {h})
  /\ spent' = [spent EXCEPT !.pushes = @ + 1]
  /\ UNCHANGED <<stage, config, tree, request, context, bound, told, taken, stuck, before>>
-----------------------------------------------------------------------------
(* publishChanges.                                                         *)
StartPublication ==
  /\ stage = "idle" /\ ScmWorkspace
  /\ spent.publications < MaxPublications
  /\ stage' = IF ExistingPullRequest THEN "fetch" ELSE "stage"
  /\ before' = Settled
  /\ told' = {}
  /\ taken' = (tree.unstaged \ Folders) \cup tree.staged \cup Brought(tree.head)
  /\ spent' = [spent EXCEPT !.publications = @ + 1]
  /\ UNCHANGED <<config, tree, branch, request, context, bound, stuck>>

FetchBranch ==
  /\ stage = "fetch" /\ tree.exists /\ branch # NoBranch
  /\ Go("rebase")
  /\ tree' = [tree EXCEPT !.fetched = branch]
  /\ UNCHANGED <<config, branch, request, context, bound, told, taken, stuck, before>>

(* git rebases nothing over changes of tracked files, nor while an earlier *)
(* rebase has not been finished.                                           *)
MayRebase == ~tree.rebasing /\ tree.staged = {} /\ tree.unstaged \cap Edits = {}

(* Commits without the known ones, in their order.                         *)
Without(commits, known) ==
  LET rest[n \in 0..Len(commits)] ==
        IF n = 0 THEN <<>>
        ELSE IF commits[n] \in known THEN rest[n - 1] ELSE Append(rest[n - 1], commits[n])
  IN  rest[Len(commits)]

(* The local commits that the branch at the provider does not have.        *)
Mine == Without(tree.head, ToSet(tree.fetched))

Diverged == Mine # <<>> /\ ~IsPrefix(tree.fetched, tree.head)

RebaseOntoRemoteBranch ==
  /\ stage = "rebase" /\ MayRebase
  /\ Go("stage")
  /\ tree' = [tree EXCEPT !.head = tree.fetched \o Mine]
  /\ UNCHANGED <<config, branch, request, context, bound, told, taken, stuck, before>>

AddAll ==
  /\ stage \in {"stage", "stageKept"} /\ tree.exists
  /\ Go(IF stage = "stage" THEN "status" ELSE "statusKept")
  /\ tree' = [tree EXCEPT !.staged = @ \cup Visible, !.unstaged = @ \ Visible]
  /\ UNCHANGED <<config, branch, request, context, bound, told, taken, stuck, before>>

(* git status also sees what was written since git add.                    *)
HasChanges ==
  /\ stage \in {"status", "statusKept"}
  /\ Go(IF tree.staged \cup Visible # {} THEN "commit"
        ELSE IF stage = "status" THEN "gitkeep" ELSE "unchanged")
  /\ UNCHANGED <<config, tree, branch, request, context, bound, told, taken, stuck, before>>

(* An error in the middle is ignored: some directories have their file.    *)
AddGitkeepToEmptyDirs ==
  LET empty == (tree.unstaged \cap Folders) \ tree.kept
  IN  /\ stage = "gitkeep"
      /\ \E k \in SUBSET empty :
           /\ \/ k = empty /\ UNCHANGED spent
              \/ k # empty /\ MayFail /\ spent' = [spent EXCEPT !.faults = @ + 1]
           /\ tree' = [tree EXCEPT !.kept = @ \cup k]
           /\ stage' = IF k = {} THEN "unchanged" ELSE "stageKept"
      /\ UNCHANGED <<config, branch, request, context, bound, told, taken, stuck, before>>

Commit ==
  /\ stage = "commit" /\ tree.staged # {}
  /\ Go("push")
  /\ tree' = [tree EXCEPT !.head = Append(@, tree.staged), !.staged = {}]
  /\ UNCHANGED <<config, branch, request, context, bound, told, taken, stuck, before>>

(* The provider takes a push that only adds to the branch.                 *)
PushBranch ==
  /\ stage = "push"
  /\ branch # NoBranch => IsPrefix(branch, tree.head)
  /\ Go(IF ExistingPullRequest THEN "feedback" ELSE "create")
  /\ branch' = tree.head
  /\ tree' = [tree EXCEPT !.fetched = tree.head]
  /\ UNCHANGED <<config, request, context, bound, told, taken, stuck, before>>

(* The provider has at most one open pull request of a branch.             *)
CreatePullRequest ==
  /\ stage = "create" /\ config.token /\ ~request
  /\ Go("feedback")
  /\ request' = TRUE
  /\ UNCHANGED <<config, tree, branch, context, bound, told, taken, stuck, before>>

CollectFeedback ==
  /\ stage = "feedback" /\ config.token
  /\ Go("save")
  /\ UNCHANGED <<config, tree, branch, request, context, bound, told, taken, stuck, before>>

(* Mutant: a result without changes leaves the entry as it is.             *)
KeepScmContext ==
  /\ stage \in {"save", "unchanged"}
  /\ Go(IF stage = "save" THEN "bind" ELSE "tellUnchanged")
  /\ context' = IF stage = "save" THEN [context EXCEPT !.pullRequest = TRUE] ELSE context
  /\ UNCHANGED <<config, tree, branch, request, bound, told, taken, stuck, before>>

(* The scm entry is the configuration, the workspace and this result: a    *)
(* result without changes has no pull request.                             *)
UpdateSessionScmContext ==
  /\ stage \in {"save", "unchanged"}
  /\ Go(IF stage = "save" THEN "bind" ELSE "tellUnchanged")
  /\ context' = [workspace |-> TRUE, pullRequest |-> stage = "save"]
  /\ UNCHANGED <<config, tree, branch, request, bound, told, taken, stuck, before>>

(* Mutant: the event is emitted before the binding is saved.               *)
BindLater ==
  /\ stage = "bind"
  /\ Go("tellFeedback")
  /\ told' = told \cup {"SCM_PR_CREATED"}
  /\ UNCHANGED <<config, tree, branch, request, context, bound, taken, stuck, before>>

Bind ==
  /\ stage = "bind"
  /\ Go("tellCreated")
  /\ bound' = TRUE
  /\ UNCHANGED <<config, tree, branch, request, context, told, taken, stuck, before>>

Tell(at, next, event) ==
  /\ stage = at
  /\ Go(next)
  /\ told' = told \cup {event}
  /\ UNCHANGED <<config, tree, branch, request, context, bound, taken, stuck, before>>

EmitResult ==
  \/ Tell("tellCreated", "tellFeedback", "SCM_PR_CREATED")
  \/ Tell("tellUnchanged", "tellFeedback", "SCM_NO_CHANGES")
  \/ Tell("tellFeedback", "idle", "SCM_FEEDBACK_SYNCED")
-----------------------------------------------------------------------------
Publishing ==
  {"fetch", "rebase", "stage", "status", "stageKept", "statusKept", "commit", "push", "create",
   "feedback", "save", "unchanged", "bind", "tellCreated", "tellUnchanged", "tellFeedback"}

(* What git or the provider cannot do whatever the network does.           *)
Refused ==
  \/ stage \in {"fetch", "stage"} /\ ~tree.exists
  \/ stage = "fetch" /\ branch = NoBranch
  \/ stage = "rebase" /\ ~MayRebase
  \/ stage = "commit" /\ tree.staged = {}
  \/ stage = "push" /\ branch # NoBranch /\ ~IsPrefix(branch, tree.head)
  \/ stage = "create" /\ (~config.token \/ request)
  \/ stage = "feedback" /\ ~config.token

(* publishChanges catches the error and emits SCM_PUBLISH_FAILED.          *)
CatchError ==
  /\ stage' = "idle"
  /\ told' = told \cup {"SCM_PUBLISH_FAILED"}
  /\ stuck' = IF stage = "push" THEN stuck \cup Brought(tree.head) ELSE stuck

PublicationRefused ==
  /\ Refused
  /\ CatchError
  /\ UNCHANGED <<config, tree, branch, request, context, bound, taken, before, spent>>

(* A rebase that meets a conflict stops in the middle and exits non-zero.  *)
RebaseConflict ==
  /\ stage = "rebase" /\ MayRebase /\ Diverged
  /\ CatchError
  /\ tree' = [tree EXCEPT !.rebasing = TRUE]
  /\ UNCHANGED <<config, branch, request, context, bound, taken, before, spent>>

(* A command or call is rejected; a push or a pull request may have been   *)
(* made, and only the answer be lost.                                      *)
PublicationFails ==
  /\ stage \in Publishing /\ MayFail
  /\ CatchError
  /\ \/ UNCHANGED <<branch, request>>
     \/ /\ stage = "push" /\ ~Refused
        /\ branch' = tree.head /\ UNCHANGED request
     \/ /\ stage = "create" /\ ~Refused
        /\ request' = TRUE /\ UNCHANGED branch
  /\ spent' = [spent EXCEPT !.faults = @ + 1]
  /\ UNCHANGED <<config, tree, context, bound, taken, before>>

PublishAndCollectFeedback ==
  \/ StartPublication \/ FetchBranch \/ RebaseOntoRemoteBranch \/ AddAll \/ HasChanges
  \/ AddGitkeepToEmptyDirs \/ Commit \/ PushBranch \/ CreatePullRequest \/ CollectFeedback
  \/ UpdateSessionScmContext \/ Bind \/ EmitResult
  \/ PublicationRefused \/ RebaseConflict \/ PublicationFails

(* What the orchestrator sees while a handler runs is what was before it.  *)
Seen == IF stage = "idle" THEN Settled ELSE before

Contract == INSTANCE PublicationContract
              WITH scm <- [workspace |-> Seen.workspace, pullRequest |-> Seen.pullRequest,
                           request |-> Seen.request, bound |-> Seen.bound],
                   told <- Seen.told

Next ==
  \/ PrepareWorkspace
  \/ PublishAndCollectFeedback
  \/ \E w \in Works : AgentWorks(w)
  \/ \E h \in HumanWorks : HumanPush(h)

Spec == Init /\ [][Next]_pubVars
-----------------------------------------------------------------------------
(* What is told of a publication is so.  When the pull request is there,   *)
(* every file an agent had written when the publication began is on the    *)
(* branch, the provider has the pull request, the context knows it and it  *)
(* has its binding, so that a webhook finds the session and the next       *)
(* publication goes to the same pull request.  When nothing has changed,   *)
(* nothing is left behind, unless an earlier push failed after its commit: *)
(* those commits stay in the worktree, where git status does not show them *)
(* (scm-service.ts:127-249, orchestration-service.ts:512-556).             *)
PublishedIsDelivered ==
  /\ "SCM_PR_CREATED" \in told =>
       /\ taken \subseteq Pushed
       /\ request /\ bound
       /\ stage = "tellFeedback" => context.pullRequest
  /\ "SCM_NO_CHANGES" \in told => taken \subseteq Pushed \cup stuck

(* Whatever command or call is rejected, preparing and publishing come to  *)
(* one of the outcomes that PublicationContract lists, those that          *)
(* Orchestration takes in one step among them: no event is told of a       *)
(* publication that left the context, the provider and the bindings        *)
(* otherwise (scm-service.ts:63-249, orchestration-service.ts:202-239,     *)
(* :480-588).                                                              *)
KeepsContract == Contract!Spec
=============================================================================
