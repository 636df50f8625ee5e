------------------------------ MODULE Accounts ------------------------------
(***************************************************************************)
(* Users, their login tokens and their projects: what the authentication   *)
(* and project services ask of their repositories (modules/auth,           *)
(* modules/project).  A person is an e-mail address; a token is a number,  *)
(* never reused.  A deleted project keeps its row here, marked, so that    *)
(* what refers to it can still be spoken of: neither schema cascades and   *)
(* SQLite does not enforce the foreign key.                                *)
(***************************************************************************)
EXTENDS ApiData

CONSTANTS People,              \* e-mail addresses
          Blank                \* 'about:blank', the repository of a default project

VARIABLES users,               \* rows of app_users, in order: the e-mail of each
          tokens,              \* rows of app_user_sessions: [user, live]
          projects             \* rows of projects: [user, repo, deleted]

accountVars == <<users, tokens, projects>>

UserIds    == DOMAIN users
TokenIds   == DOMAIN tokens
ProjectIds == DOMAIN projects

(* findUserByEmail.                                                        *)
UsersWithEmail(person) == {u \in UserIds : users[u] = person}

(* createUser: the INSERT that the UNIQUE of app_users.email guards.       *)
MayInsertUser(person) == UsersWithEmail(person) = {}

InsertUser(person) == users' = Append(users, person)

(* createSession of AuthService: a fresh token for the user.               *)
IssueToken(user) == tokens' = Append(tokens, [user |-> user, live |-> TRUE])

(* revokeSessionByTokenHash.  An expired token is as good as revoked: the  *)
(* next request that shows it is refused and revokes it.                   *)
Revoke(t) == tokens' = [tokens EXCEPT ![t].live = FALSE]

(* getAuthenticatedUser: a live token stands for its user; the user is     *)
(* looked up afterwards, but no user is ever deleted.                      *)
Authenticates(t, user) == tokens[t].live /\ tokens[t].user = user

OwnProjects(user) ==
    {p \in ProjectIds : projects[p].user = user /\ ~projects[p].deleted}

Newest(set) == CHOOSE p \in set : \A q \in set : q <= p

(* createProject: nothing in the schema makes (user, repo) unique.         *)
InsertProject(user, repo) ==
    projects' = Append(projects, [user |-> user, repo |-> repo, deleted |-> FALSE])

=============================================================================
