------------------------------ MODULE Startup -------------------------------
(***************************************************************************)
(* What a clnkr or clnkrd decides before its first query                   *)
(* (cmd/internal/clnkrapp/startup.go): flags and environment choose a      *)
(* provider, an api, a model, a base URL and an act protocol; the options  *)
(* of the request are checked against them; and the same choice then goes  *)
(* into the system prompt, the agent, the model client, the metadata saved *)
(* with the session, and the environment of every command the agent runs,  *)
(* where another clnkr may start from it.                                  *)
(*                                                                         *)
(* A text is what is left of it after trimming and lowering, which every   *)
(* reader of it does first; "" is a text that is absent or blank, and      *)
(* "odd" one that no parser knows.  Only an effort that is "blank" counts  *)
(* as given, and no parser knows it.  A model stands for the models that   *)
(* the classifiers of providerconfig.go do not tell apart, its dated       *)
(* snapshots among them: each strips the date or looks at a prefix.        *)
(***************************************************************************)
EXTENDS Integers, FiniteSets

CONSTANT StartupInputs   \* bound: flags and environments a user starts with

VARIABLES
  pc,        \* "flags", then "dumped", "failed" or "ready"
  inputs,    \* of the process that starts
  started,   \* what PrepareStartup made of them, Nothing before it
  parent     \* the same of the clnkr whose command started this one

vars == <<pc, inputs, started, parent>>

DefaultMaxTokens  == 4096
MaxNonStreaming   == 21333
MinThinkingBudget == 1024
Unset == -1

(***************************************************************************)
(* The classifiers of a model name, each as the models it accepts.         *)
(***************************************************************************)
unsupportedStructuredOpenAIModels == {"gpt-5.4-pro"}
KnownNonOpenAIModels      == {"chatgpt-4o"}
ReasoningCapableModels    == {"gpt-5", "gpt-5-pro", "gpt-5.1-codex-max", "o3", "gpt-5.4-pro"}
OpenAILookingModels       == ReasoningCapableModels \cup {"gpt-4.1"}
CodexMaxOrNewerModels     == {"gpt-5.1-codex-max"}
AnthropicOpus47Plus       == {"claude-opus-4-7"}
ExtendedThinkingModels    == {"claude-sonnet-4"} \cup AnthropicOpus47Plus

-----------------------------------------------------------------------------
(* Flags and environment *)

\* chooseValue: a flag that says something goes before the environment.
Chosen(flag, env) == IF flag # "" THEN flag ELSE env

\* A protocol given as a flag counts even when it is blank, and means "auto".
ActProtocolSetting(i) ==
  LET value == IF i.actSet THEN i.act ELSE Chosen("", i.env.act)
  IN  IF value = "" THEN "auto" ELSE value

provider(i)    == Chosen(i.provider, i.env.provider)
model(i)       == Chosen(i.model, i.env.model)
providerAPI(i) == Chosen(i.api, i.env.api)
baseURL(i)     == Chosen(i.url, i.env.url)

\* resolveContext and ResolveProviderAPI return without an error.
ContextResolves(i) ==
  /\ provider(i) \in {"anthropic", "openai"}
  /\ model(i) # ""
  /\ provider(i) = "anthropic" => providerAPI(i) = ""
  /\ providerAPI(i) \in {"", "auto", "chat", "responses"}
  /\ baseURL(i) # "odd"
  /\ provider(i) = "openai" => model(i) \notin unsupportedStructuredOpenAIModels

ResolveProviderAPI(i) ==
  IF provider(i) = "anthropic" THEN "auto"
  ELSE IF providerAPI(i) \in {"chat", "responses"} THEN providerAPI(i)
  ELSE IF model(i) \in OpenAILookingModels \ KnownNonOpenAIModels THEN "responses" ELSE "chat"

\* parseBaseURL drops the slashes at the end.
ResolvedURL(i) ==
  CASE baseURL(i) = ""     -> provider(i)
    [] baseURL(i) = "url/" -> "url"
    [] OTHER               -> baseURL(i)

SupportsBashToolCalls(p, api) == p = "anthropic" \/ (p = "openai" /\ api = "responses")

resolveActProtocol(setting, p, api) ==
  IF setting # "auto" THEN setting
  ELSE IF SupportsBashToolCalls(p, api) THEN "tool-calls" ELSE "inline"

-----------------------------------------------------------------------------
(* Options of the request *)

EffortSent(i) == i.effort \notin {"", "auto"}

effortValid(i, api) ==
  \/ ~EffortSent(i)
  \/ /\ i.effort \in {"low", "medium", "high"}
     /\ provider(i) = "openai" => /\ api # "chat"
                                  /\ model(i) = "gpt-5-pro" => i.effort = "high"
                                  /\ model(i) \in ReasoningCapableModels
  \/ /\ i.effort = "xhigh" /\ provider(i) = "openai" /\ api # "chat"
     /\ model(i) \in CodexMaxOrNewerModels

\* Faulty variant: a cap is taken for every api.
maxOutputValidAnywhere(i, api) ==
  i.max # Unset =>
    i.max >= 1 /\ (provider(i) = "anthropic" => i.max <= MaxNonStreaming)

maxOutputValid(i, api) ==
  i.max # Unset =>
    /\ i.max >= 1
    /\ provider(i) = "openai" => api = "responses"
    /\ provider(i) = "anthropic" => i.max <= MaxNonStreaming

EffectiveMaxTokens(max) == IF max = Unset THEN DefaultMaxTokens ELSE max

thinkingBudgetValid(i) ==
  i.budget # Unset =>
    /\ provider(i) = "anthropic"
    /\ model(i) \in ExtendedThinkingModels \ AnthropicOpus47Plus
    /\ ~EffortSent(i)
    /\ i.budget >= MinThinkingBudget
    /\ i.budget < EffectiveMaxTokens(i.max)

ValidateRequestOptions(i, api, act) ==
  /\ act = "tool-calls" => SupportsBashToolCalls(provider(i), api)
  /\ effortValid(i, api)
  /\ maxOutputValid(i, api)
  /\ thinkingBudgetValid(i)

-----------------------------------------------------------------------------
(* The prompt, and the configuration *)

Protocols == {"inline", "tool-calls"}

\* The context is needed for the prompt only when the protocol follows from it.
PromptLoads(i) ==
  /\ ActProtocolSetting(i) \in Protocols \cup {"auto"}
  /\ i.omit \/ ActProtocolSetting(i) \in Protocols \/ ContextResolves(i)

\* Faulty variant: "auto" means tool calls, whatever the provider.
LoadPromptUnresolved(i) ==
  [omitted    |-> i.omit,
   protocol   |-> IF i.omit \/ ActProtocolSetting(i) = "inline" THEN "inline" ELSE "tool-calls",
   unattended |-> i.unattended]

\* LoadPromptWithOptions: what the prompt tells the model about its turns.
LoadPrompt(i) ==
  [omitted    |-> i.omit,
   protocol   |-> IF i.omit THEN "inline"
                  ELSE resolveActProtocol(ActProtocolSetting(i), provider(i), ResolveProviderAPI(i)),
   unattended |-> i.unattended]

ResolvedConfig(i) ==
  [provider |-> provider(i), api |-> ResolveProviderAPI(i), model |-> model(i),
   url |-> ResolvedURL(i),
   act |-> resolveActProtocol(ActProtocolSetting(i), provider(i), ResolveProviderAPI(i)),
   effort |-> i.effort, max |-> i.max, budget |-> i.budget]

ConfigResolves(i) ==
  /\ ContextResolves(i)
  /\ i.env.key
  /\ ValidateRequestOptions(i, ResolvedConfig(i).api, ResolvedConfig(i).act)

-----------------------------------------------------------------------------
(* What is built from the configuration *)

ClientOf(c) == IF c.provider = "anthropic" THEN "messages"
               ELSE IF c.api = "responses" THEN "responses" ELSE "chat"

Sent(c) == c.effort \notin {"", "auto"}

\* NewModelWithOptions, and the requests the client then makes of it.
NewModel(c, unattended) ==
  [client |-> ClientOf(c), model |-> c.model, url |-> c.url, unattended |-> unattended,
   tools  |-> ClientOf(c) # "chat" /\ c.act = "tool-calls",
   effort |-> IF ClientOf(c) # "chat" /\ Sent(c) THEN c.effort ELSE "",
   max    |-> IF ClientOf(c) = "messages" THEN EffectiveMaxTokens(c.max)
              ELSE IF ClientOf(c) = "responses" THEN c.max ELSE Unset,
   thinking |-> IF ClientOf(c) # "messages" THEN "omitted"
                ELSE IF Sent(c) THEN "adaptive"
                ELSE IF c.budget # Unset THEN "enabled" ELSE "omitted",
   \* thinkingOptions: adaptive thinking has no budget
   budget |-> IF ClientOf(c) = "messages" /\ ~Sent(c) THEN c.budget ELSE Unset]

\* The fields of RunMetadata, its effective options as what they omit or say.
newRunMetadata(c) ==
  [provider |-> c.provider, api |-> c.api, model |-> c.model, act |-> c.act,
   effort   |-> IF Sent(c) THEN c.effort ELSE "",
   max      |-> IF c.provider = "anthropic" THEN EffectiveMaxTokens(c.max) ELSE c.max,
   thinking |-> IF c.provider # "anthropic" THEN "omitted"
                ELSE IF Sent(c) THEN "adaptive"
                ELSE IF c.budget # Unset THEN "enabled" ELSE "omitted",
   budget   |-> c.budget]

\* Faulty variant: exports an api for every provider.
commandEnvWithApi(c, env) ==
  [provider |-> c.provider, api |-> c.api, model |-> c.model, url |-> c.url,
   act |-> c.act, key |-> env.key]

\* commandEnvFromProviderConfig: the environment of the agent's commands.
commandEnvFromProviderConfig(c, env) ==
  [provider |-> c.provider, api |-> IF c.provider = "openai" THEN c.api ELSE "",
   model |-> c.model, url |-> c.url, act |-> c.act, key |-> env.key]

Nothing == [act |-> "none"]

\* The agent and what is around it; the compactor has the same client, attended.
Startup(i) ==
  LET c == ResolvedConfig(i)
  IN  [act       |-> c.act,
       prompt    |-> LoadPrompt(i),
       client    |-> NewModel(c, i.unattended),
       compactor |-> NewModel(c, FALSE),
       metadata  |-> newRunMetadata(c),
       env       |-> commandEnvFromProviderConfig(c, i.env)]

-----------------------------------------------------------------------------
(* Steps *)

Init == pc = "flags" /\ inputs \in StartupInputs /\ started = Nothing /\ parent = Nothing

\* --dump-system-prompt prints the prompt a run would have, and no more.
LoadStartupPrompt ==
  /\ pc = "flags" /\ inputs.dump /\ PromptLoads(inputs)
  /\ pc' = "dumped"
  /\ UNCHANGED <<inputs, started, parent>>

PrepareStartup ==
  /\ pc = "flags" /\ ~inputs.dump
  /\ PromptLoads(inputs) /\ ConfigResolves(inputs)
  /\ pc' = "ready"
  /\ started' = Startup(inputs)
  /\ UNCHANGED <<inputs, parent>>

StartupFails ==
  /\ pc = "flags"
  /\ ~PromptLoads(inputs) \/ (~inputs.dump /\ ~ConfigResolves(inputs))
  /\ pc' = "failed"
  /\ UNCHANGED <<inputs, started, parent>>

\* The flags of a clnkr that is started with none, unattended with -p.
NoFlags(env, unattended) ==
  [provider |-> "", api |-> "", model |-> "", url |-> "", act |-> "", actSet |-> FALSE,
   effort |-> "", max |-> Unset, budget |-> Unset,
   omit |-> FALSE, dump |-> FALSE, unattended |-> unattended, env |-> env]

\* A command of the agent starts another clnkr.
CommandStartsClnkr ==
  /\ pc = "ready" /\ parent = Nothing
  /\ \E unattended \in BOOLEAN : inputs' = NoFlags(started.env, unattended)
  /\ pc' = "flags" /\ parent' = started /\ started' = Nothing

Next == LoadStartupPrompt \/ PrepareStartup \/ StartupFails \/ CommandStartsClnkr

Spec == Init /\ [][Next]_vars

-----------------------------------------------------------------------------
(* Properties *)

(***************************************************************************)
(* The prompt is rendered before the configuration is resolved, from the   *)
(* same flags by another way (ResolvePromptActProtocol, ResolveConfig).    *)
(* They agree: the model is told to call the tool exactly when its client  *)
(* offers the tool and the agent expects such calls, and it is told that   *)
(* nobody answers its questions exactly when its schema forbids them.      *)
(***************************************************************************)
PromptMatches ==
  pc = "ready" =>
    /\ started.client.tools <=> started.act = "tool-calls"
    /\ ~started.prompt.omitted => started.prompt.protocol = started.act
    /\ started.prompt.unattended = started.client.unattended

(***************************************************************************)
(* What is recorded of a session is what was sent: the effective metadata  *)
(* (newRunMetadata), computed beside the client (NewModelWithOptions),     *)
(* names its model, its effort, its cap, its thinking and its budget.  An  *)
(* option the user gave is refused or sent, never dropped; and no request  *)
(* has an effort next to a budget, or a budget its cap does not cover.     *)
(***************************************************************************)
MetadataTruthful ==
  pc = "ready" =>
    LET client == started.client
        meta   == started.metadata
    IN  /\ \A field \in {"model", "effort", "max", "thinking", "budget"} :
             meta[field] = client[field]
        /\ EffortSent(inputs) => client.effort = inputs.effort
        /\ inputs.max # Unset => client.max = inputs.max
        /\ inputs.budget # Unset => client.budget = inputs.budget
        /\ client.budget # Unset => client.effort = "" /\ client.budget < client.max

(***************************************************************************)
(* A clnkr that a command starts without flags is set up by the exported   *)
(* environment (commandEnvFromProviderConfig) as the one around it: it     *)
(* starts, with the same client, model, server and act protocol.           *)
(***************************************************************************)
NestedSame ==
  parent # Nothing =>
    /\ pc # "failed"
    /\ pc = "ready" =>
         /\ started.act = parent.act /\ started.env = parent.env
         /\ \A field \in {"client", "model", "url", "tools"} :
              started.client[field] = parent.client[field]
=============================================================================
