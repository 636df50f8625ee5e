--------------------------- MODULE MCSingleProcess ---------------------------
(***************************************************************************)
(* A small instance of SingleProcess: one process that is started, stopped *)
(* and started again, beside one that stays up; a session of two commands. *)
(***************************************************************************)
EXTENDS SingleProcess, TLC

CONSTANTS p1, p2, c1, c2, s1

TwoProcesses == {p1, p2}
OneRestarted == {p1}
TwoCommands  == {c1, c2}
OneSession   == {s1}
AllItems     == {c1, c2, s1}
InOrder      == c1 :> c2 @@ c2 :> None

(* Providers without and with a key, and a text that names none.           *)
Texts == {"codex", "openai", "none such"}

(* One role with a provider of its own; a key of its own or the common one.*)
SmallEnvironments ==
  { [provider |-> chosen, preset |-> "none such", default |-> "groq",
     role |-> [r \in Role |-> IF r = own THEN "openai" ELSE "none such"],
     intake |-> "ollama", keys |-> keys, apiKey |-> common] :
      chosen \in Texts, own \in Role, keys \in {{}, {"openai", "groq"}},
      common \in BOOLEAN }
=============================================================================
