----------------------------- MODULE MCFrontend -----------------------------
(***************************************************************************)
(* A clnkr from its flags to its prompt loop (runMain, runREPL): startup   *)
(* first, then the loop with the indicator.                                *)
(*                                                                         *)
(* Flags and environments for TLC: every source of provider, api, model    *)
(* and protocol with plain options; every option with every model; and     *)
(* what remains (base URLs, a missing key, --no-system-prompt and          *)
(* --dump-system-prompt, attended or not).                                 *)
(***************************************************************************)
EXTENDS Startup, WaitIndicator

Models == OpenAILookingModels \cup KnownNonOpenAIModels \cup ExtendedThinkingModels
            \cup {"llama", "claude-3-5"}

Flags(p, api, m, url, act, actSet, env) ==
  [NoFlags(env, FALSE) EXCEPT !.provider = p, !.api = api, !.model = m, !.url = url,
                              !.act = act, !.actSet = actSet]

Env(p, api, m, url, act, key) ==
  [provider |-> p, api |-> api, model |-> m, url |-> url, act |-> act, key |-> key]

\* The act protocol as a flag: not given, or given with a text.
ActFlags == {<<"auto", FALSE>>} \cup {<<a, TRUE>> : a \in {"", "auto", "inline", "tool-calls", "odd"}}

Sources ==
  {Flags(p, api, m, "", act[1], act[2], Env(ep, eapi, em, "", ea, TRUE)) :
     p \in {"", "anthropic", "openai"}, ep \in {"", "openai", "odd"},
     api \in {"", "chat", "auto"}, eapi \in {"", "responses", "odd"},
     m \in {"", "gpt-5", "gpt-5.4-pro", "chatgpt-4o", "llama"}, em \in {"", "gpt-5"},
     act \in {<<"auto", FALSE>>, <<"", TRUE>>, <<"tool-calls", TRUE>>}, ea \in {"", "inline"}}

Options ==
  {[Flags(p, api, m, "", "auto", FALSE, Env("", "", "", "", "", TRUE))
      EXCEPT !.effort = effort, !.max = max, !.budget = budget] :
     p \in {"anthropic", "openai"}, api \in {"", "chat"}, m \in Models,
     effort \in {"", "auto", "low", "high", "xhigh", "max", "blank", "odd"},
     max \in {Unset, 0, 2000, MaxNonStreaming, MaxNonStreaming + 1},
     budget \in {Unset, MinThinkingBudget - 1, MinThinkingBudget, 2000, DefaultMaxTokens}}

Settings ==
  {[Flags(p, "", "", url, act[1], act[2], Env("openai", "", m, eurl, ea, key))
      EXCEPT !.omit = omit, !.dump = dump, !.unattended = unattended] :
     p \in {"", "anthropic"}, m \in {"gpt-5", "llama"},
     url \in {"", "url/", "odd"}, eurl \in {"", "other"}, act \in ActFlags, ea \in {"", "tool-calls"},
     key \in BOOLEAN, omit \in BOOLEAN, dump \in BOOLEAN, unattended \in BOOLEAN}

MCInputs == Sources \cup Options \cup Settings

-----------------------------------------------------------------------------

\* Bound: the one start whose loop is explored.  What the loop does to the
\* indicator depends on no flag of the model.
LoopInputs ==
  Flags("openai", "", "gpt-5", "", "auto", FALSE, Env("", "", "", "", "", TRUE))

\* A command starts its clnkr only before anything was typed, so that the two
\* state spaces add up instead of multiplying.
StartupStep == Next /\ IndicatorInit /\ UNCHANGED indicatorVars

LoopStep == IndicatorNext /\ pc = "ready" /\ inputs = LoopInputs /\ UNCHANGED vars

\* A process that printed its prompt, failed, or sits at a prompt may rest.
Rests ==
  /\ pc \in {"dumped", "failed", "ready"} /\ MainAt("prompt")
  /\ UNCHANGED <<vars, indicatorVars>>

MCInit == Init /\ IndicatorInit

MCNext == StartupStep \/ LoopStep \/ Rests

MCSpec == MCInit /\ [][MCNext]_<<vars, indicatorVars>> /\ Fairness
=============================================================================
