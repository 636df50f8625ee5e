---------------------------- MODULE MCAgentLoop ----------------------------
(***************************************************************************)
(* A small instance of AgentLoop: two iterations of two steps, and batches *)
(* of one or two calls of all the kinds the loop tells apart.              *)
(***************************************************************************)
EXTENDS AgentLoop

TwoIds == {"c1", "c2"}
OneTool == {"edit_file"}
OneSkill == {"skill"}

Call(id, type, tool) == [id |-> id, type |-> type, tool |-> tool]

SomeBatches ==
  { <<Call("c1", "function", "edit_file")>>,
    <<Call(NoId, "function", "edit_file")>>,
    <<Call("c1", "function", "edit_file"), Call("c2", "function", "made_up")>>,
    <<Call("c1", "custom", "edit_file"), Call(NoId, "function", "edit_file")>>,
    <<Call("c2", "function", "made_up"), Call("c1", "function", "edit_file")>> }

SomeRuns ==
  { r \in RunType :
      /\ r.role = "generate" => ~r.shouldFail
      /\ r.provider # "llm" => r.enableTools
      /\ r.skills = {} \/ r.role = "generate" }
=============================================================================
