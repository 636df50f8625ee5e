--------------------------- MODULE MCScmWebhook ---------------------------
(***************************************************************************)
(* A small instance of ScmWebhook: one pull request at each provider and   *)
(* payloads of every kind about them, well-formed and not.                 *)
(***************************************************************************)
EXTENDS ScmWebhook, TLC

CONSTANTS r1, r2, r3, y1, s1, s2

ThreeRequests == {r1, r2, r3}
OneSync       == {y1}
RequestsAlike == Permutations(ThreeRequests)

G == [provider |-> "github", number |-> 7, session |-> s1,
      url |-> [host |-> "github.com", subdomain |-> "", path |-> <<"acme", "app", "tree">>]]
A == [provider |-> "azure-devops", number |-> 7, session |-> s2,
      url |-> [host |-> "visualstudio.com", subdomain |-> "org", path |-> <<"proj", "_git", "app">>]]
TwoPullRequests == {G, A}

FromGitHub ==
  [provider |-> "github", about |-> G, hasId |-> TRUE, repository |-> <<"acme", "app">>,
   event |-> "pull_request_review_comment", action |-> "created", number |-> 7,
   listed |-> <<>>, comments |-> <<"rename this">>, status |-> ""]
FromAzure ==
  [provider |-> "azure-devops", about |-> A, hasId |-> TRUE, repository |-> <<"org", "proj", "app">>,
   collection |-> "dev.azure.com", event |-> "comment", number |-> 0,
   listed |-> <<7>>, comments |-> <<"", "rename this">>, status |-> ""]

Payloads ==
  { [FromGitHub EXCEPT !.event = "check_run", !.action = "completed", !.number = 0,
                       !.listed = <<0, 7>>, !.status = "failed"],
    [FromGitHub EXCEPT !.comments = <<"">>],
    FromAzure,
    [FromAzure EXCEPT !.event = "build", !.hasId = FALSE, !.status = "failed"],
    [FromAzure EXCEPT !.collection = "visualstudio.com"] }

ListedChecks ==
  { {}, {[kind |-> "check-run", status |-> "neutral"], [kind |-> "status", status |-> "error"]} }
ListedComments == { {""}, {"", "rename this"} }
OnlyGitHub == {"github"}

(* The payloads are as ScmWebhookProofs takes them to be.                  *)
ASSUME InstancePayloads == PayloadsTell
=============================================================================
