---------------------------- MODULE ScmFeedback ----------------------------
(***************************************************************************)
(* What the SCM integration makes of what a provider says: the webhook     *)
(* payloads it turns into events, and the checks and comments it lists for *)
(* a pull request.                                                         *)
(*                                                                         *)
(* Models the normalisation of modules/scm/webhooks/scm-webhook-service.ts *)
(* and the repository names and lists of modules/scm/providers.            *)
(*                                                                         *)
(* A payload is a record of the fields the code looks at.  A text that is  *)
(* absent or blank is "", a number that is absent is 0; a repository is    *)
(* the sequence of its names, of which "" is absent, and letter case is    *)
(* left out: both sides of every comparison are lowered.                   *)
(***************************************************************************)
EXTENDS Naturals, SequencesExt

CONSTANT NoEvent  (* the null of the code *)

Providers == {"github", "azure-devops"}

FeedbackEvents == {"SCM_PIPELINE_FAILED", "SCM_PIPELINE_PASSED", "SCM_REVIEW_COMMENT_ADDED"}

NonEmpty(names) == SelectSeq(names, LAMBDA n : n # "")

(* The address of a repository is its host, the subdomain if that matters, *)
(* and the path; GitHub's path is owner and name, of which an address that *)
(* goes further down in the repository has more.                           *)
GitHubRepository(url) == <<url.path[1], url.path[2]>>

(* The two forms of an address at Azure DevOps; the name comes after _git. *)
AzureRepository(url) ==
  IF url.host = "dev.azure.com" THEN <<url.path[1], url.path[2], url.path[4]>>
                                ELSE <<url.subdomain, url.path[1], url.path[3]>>

(* The names of the repository that the binding of a pull request has.     *)
DisplayName(pr) ==
  IF pr.provider = "github" THEN GitHubRepository(pr.url) ELSE AzureRepository(pr.url)

FirstNumber(numbers) ==
  LET given == SelectSeq(numbers, LAMBDA n : n # 0)
  IN  IF given = <<>> THEN 0 ELSE Head(given)

GitHubPullRequest(m) ==
  IF m.number # 0 THEN m.number ELSE FirstNumber(m.listed)

GitHubPassing == {"success", "neutral", "skipped"}

(* A check run that has completed without a conclusion counts as passed, a *)
(* workflow run without one as nothing; only the first knows of neutral    *)
(* and skipped.                                                            *)
GitHubEvent(m) ==
  CASE m.repository = <<>> -> NoEvent
    [] /\ m.event = "pull_request_review_comment"
       /\ m.action = "created" /\ m.number # 0 /\ "" \notin ToSet(m.comments)
         -> "SCM_REVIEW_COMMENT_ADDED"
    [] m.event = "check_run" /\ m.action = "completed" /\ GitHubPullRequest(m) # 0
         -> IF m.status \in GitHubPassing \cup {""}
            THEN "SCM_PIPELINE_PASSED" ELSE "SCM_PIPELINE_FAILED"
    [] m.event = "workflow_run" /\ m.action = "completed" /\ GitHubPullRequest(m) # 0 /\ m.status # ""
         -> IF m.status = "success" THEN "SCM_PIPELINE_PASSED" ELSE "SCM_PIPELINE_FAILED"
    [] OTHER -> NoEvent

(* The comments of a payload that say something.                           *)
AzureComments(m) == NonEmpty(m.comments)

(* The status is looked at when the event is not about comments; one that  *)
(* is neither a success nor a failure says nothing.                        *)
AzureEvent(m) ==
  CASE FirstNumber(<<m.number>> \o m.listed) = 0 -> NoEvent
    [] m.event = "comment" -> IF AzureComments(m) = <<>> THEN NoEvent ELSE "SCM_REVIEW_COMMENT_ADDED"
    [] m.event # "comment" /\ m.status \in {"success", "succeeded"} -> "SCM_PIPELINE_PASSED"
    [] m.event # "comment" /\ m.status \in {"failed", "error", "rejected"} -> "SCM_PIPELINE_FAILED"
    [] OTHER -> NoEvent

(* The organisation is in the path of the collection's address, and the    *)
(* addresses at visualstudio.com have no path.                             *)
AzureOrganization(m) == IF m.collection = "dev.azure.com" THEN m.repository[1] ELSE ""

(* The names under which a binding is looked for, one after the other.     *)
AzureCandidates(m) ==
  LET project == Tail(m.repository)
  IN  SelectSeq(<<NonEmpty(<<AzureOrganization(m)>> \o project), NonEmpty(project)>>,
                LAMBDA c : c # <<>>)

(* The event of a payload, the names of its repository and the number of   *)
(* its pull request.                                                       *)
Normalized(m) ==
  IF m.provider = "github"
  THEN [type |-> GitHubEvent(m), candidates |-> <<m.repository>>, number |-> GitHubPullRequest(m)]
  ELSE [type |-> AzureEvent(m), candidates |-> AzureCandidates(m),
        number |-> FirstNumber(<<m.number>> \o m.listed)]

Actionable(m) == Normalized(m).type # NoEvent

(* Whether a list of checks has a failure, for the endpoint that asks.     *)
(* GitHub: a conclusion other than the passing ones, or a commit status    *)
(* that failed; a check that runs has no conclusion.                       *)
GitHubFailures(checks) ==
  { c \in checks : IF c.kind = "check-run" THEN c.status \notin GitHubPassing \cup {""}
                                           ELSE c.status \in {"failure", "error"} }

(* Azure DevOps: every status but success and "not set", so that one that  *)
(* is pending is listed as a failure.                                      *)
AzureFailures(checks) ==
  { c \in checks : c.status \notin {"succeeded", "success", "notset"} }

ListPipelineFailures(provider, checks) ==
  IF provider = "github" THEN GitHubFailures(checks) ELSE AzureFailures(checks)

(* The comments on lines and those of the conversation, for both providers *)
(* those that are not blank.                                               *)
ListReviewComments(comments) == { c \in comments : c # "" }
=============================================================================
