---------------------------- MODULE SessionStore ----------------------------
(***************************************************************************)
(* The table of sessions as its repositories keep it                       *)
(* (modules/session/*-session-repo.ts).  A row is                          *)
(*   [user, project, goal, status, title, pr, workspace]                   *)
(* title, pr (context.scm.publish) and workspace are the parts of the JSON *)
(* context that this code writes.  No repository has a transaction: update *)
(* reads the row, merges the patch and writes every column back, so that   *)
(* it is two steps of the caller, ReadRow and WriteRow.                    *)
(***************************************************************************)
EXTENDS ApiData

VARIABLE sessions              \* session id -> its row; ids are 1, 2, ...

SessionIds == DOMAIN sessions

ContextFields == {"title", "pr", "workspace"}

(* A patch of the context carries the whole context object, as its author  *)
(* last read it, with some fields changed.                                 *)
ContextOf(row) == [f \in ContextFields |-> row[f]]

(* Mutant: the spread of the current row is forgotten for the context, as  *)
(* if the column were written from the patch alone.                        *)
Patched_ContextFromPatch(row, patch) ==
    [f \in DOMAIN row |-> IF f \in DOMAIN patch THEN patch[f]
                          ELSE IF f \in {"title", "pr"} THEN None ELSE row[f]]

(* update(): the patched row.  A patch without a context keeps the row's.  *)
Patched(row, patch) == [f \in DOMAIN row |-> IF f \in DOMAIN patch THEN patch[f] ELSE row[f]]

(* createSession(): a new row, status CREATED.                             *)
InsertRow(user, project, goal, workspace) ==
    sessions' = Append(sessions,
                       [user |-> user, project |-> project, goal |-> goal,
                        status |-> "CREATED", title |-> None, pr |-> None,
                        workspace |-> workspace])

WriteRow(s, row) == sessions' = [sessions EXCEPT ![s] = row]

=============================================================================
