---------------------------- MODULE Configuration ----------------------------
(***************************************************************************)
(* Which agent providers a process has, and which one each role asks for:  *)
(* project/config/app-config.ts and                                        *)
(* project/runtime/factories/agent-factories.ts.                           *)
(*                                                                         *)
(* An environment is what the operator sets.  Providers are told apart by  *)
(* whether they need a key; models, addresses and limits are left out.     *)
(***************************************************************************)

Unset == "unset"

CliProviders   == {"codex", "copilot", "gemini"}
KeyedProviders == {"openai", "groq", "deepseek", "qwen", "doubao"}
AgentProviderId == CliProviders \cup KeyedProviders \cup {"ollama"}

(* The roles that can be given a provider of their own.                    *)
Role == {"plan", "generate", "verify", "review"}

(* AGENT_PROVIDER, AGENT_PRESET, AGENT_PROVIDER_DEFAULT, _PLAN and its     *)
(* like, and _INTAKE, of any text; the keys of single providers that are   *)
(* set, and whether AGENT_API_KEY is.                                      *)
Environment(texts) ==
  [provider : texts, preset : texts, default : texts, role : [Role -> texts],
   intake : texts, keys : SUBSET KeyedProviders, apiKey : BOOLEAN]

(* A text that names no provider counts as none.                           *)
ParseAgentProvider(text) == IF text \in AgentProviderId THEN text ELSE Unset

ParseLlmProvider(text) ==
  IF text \in AgentProviderId \ CliProviders THEN text ELSE Unset

Otherwise(first, second) == IF first # Unset THEN first ELSE second

AgentProvider(env) ==
  Otherwise(ParseAgentProvider(env.provider), ParseAgentProvider(env.preset))

AgentProviderDefault(env) ==
  Otherwise(AgentProvider(env),
            Otherwise(ParseAgentProvider(env.default), "codex"))

(* AGENT_API_KEY is the key of the provider AGENT_PROVIDER names.          *)
HasKey(env, provider) ==
  provider \in env.keys \/ (env.apiKey /\ AgentProvider(env) = provider)

(* The providers of a router.  Ollama needs no key.                        *)
Providers(env) ==
  CliProviders \cup {"ollama"} \cup { p \in KeyedProviders : HasKey(env, p) }

(* Mutant: REVIEW has been forgotten.                                      *)
ConfiguredButReview(env) ==
  {AgentProviderDefault(env)}
    \cup { ParseAgentProvider(env.role[r]) : r \in Role \ {"review"} }

ConfiguredProviders(env) ==
  {AgentProviderDefault(env)}
    \cup { ParseAgentProvider(env.role[r]) : r \in Role }

(* What validateProvidersConfig lets pass.                                 *)
ValidProvidersConfig(env) ==
  /\ ConfiguredProviders(env) \cap KeyedProviders \subseteq Providers(env)
  /\ AgentProviderDefault(env) \in Providers(env)

(* The intake asks the provider configured for it, or one that has a key,  *)
(* or Ollama; only the first may lack its key.                             *)
IntakeAgentIsCreated(env) ==
  ParseLlmProvider(env.intake) \in KeyedProviders =>
    HasKey(env, ParseLlmProvider(env.intake))

(* createUserIntakeService throws nothing.                                 *)
IntakeServiceIsCreated(env) ==
  ValidProvidersConfig(env) /\ IntakeAgentIsCreated(env)

(* The provider that the role's agent asks the router for.                 *)
ProviderOf(env, role) ==
  Otherwise(ParseAgentProvider(env.role[role]), AgentProviderDefault(env))

(* The roles whose runs the router does not reject for want of a provider. *)
ServedRoles(env) == { r \in Role : ProviderOf(env, r) \in Providers(env) }
=============================================================================
