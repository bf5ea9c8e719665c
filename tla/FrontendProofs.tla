--------------------------- MODULE FrontendProofs ---------------------------
(***************************************************************************)
(* Proofs about the parts of the frontends beside their loops.             *)
(*                                                                         *)
(* Startup, for every set of flags and environments.  A process that is    *)
(* ready was accepted by both passes over its flags, and what a nested one *)
(* is given is what the one around it resolved; so the properties come     *)
(* down to facts about the resolution of one input.                        *)
(*                                                                         *)
(* WaitIndicator, for every number of run goroutines: one renderer at a    *)
(* time, and a free line where the human types.  The first follows from    *)
(* how Stop looks again at i.done after its wait; the second from who may  *)
(* call Start while no run is cancelled: only the run that runDriverPrompt *)
(* waits for, which has called Stop before it asks or has ended before     *)
(* main does.                                                              *)
(***************************************************************************)
EXTENDS Startup, WaitIndicator, TLAPS

-----------------------------------------------------------------------------
(* Startup *)


-----------------------------------------------------------------------------
(* The inductive invariant *)

Accepted(i) == PromptLoads(i) /\ ConfigResolves(i)

\* A nested process has the environment of an input that was accepted.
StartupInv ==
  /\ parent = Nothing => inputs \in StartupInputs
  /\ pc = "ready" => Accepted(inputs) /\ started = Startup(inputs)
  /\ pc = "failed" => ~Accepted(inputs)
  /\ parent # Nothing =>
       \E i \in StartupInputs, unattended \in BOOLEAN :
         /\ Accepted(i) /\ parent = Startup(i)
         /\ inputs = NoFlags(parent.env, unattended)

\* What was started is something.
LEMMA StartedSomething ==
  ASSUME NEW i
  PROVE  Startup(i) # Nothing
<1>1. "env" \in DOMAIN Startup(i)
  BY DEF Startup
<1>2. "env" \notin DOMAIN Nothing
  BY DEF Nothing
<1> QED BY <1>1, <1>2

\* Every state of every behaviour has the invariant.
LEMMA StartupInvariance == Spec => []StartupInv
<1>1. Init => StartupInv
  BY DEF Init, StartupInv
<1>2. ASSUME StartupInv, [Next]_vars PROVE StartupInv'
  <2>1. CASE LoadStartupPrompt
    BY <1>2, <2>1 DEF StartupInv, LoadStartupPrompt
  <2>2. CASE PrepareStartup
    BY <1>2, <2>2 DEF StartupInv, PrepareStartup, Accepted
  <2>3. CASE StartupFails
    BY <1>2, <2>3 DEF StartupInv, StartupFails, Accepted
  <2>4. CASE CommandStartsClnkr
    <3>1. PICK unattended \in BOOLEAN : inputs' = NoFlags(started.env, unattended)
      BY <2>4 DEF CommandStartsClnkr
    <3>2. /\ inputs \in StartupInputs /\ Accepted(inputs) /\ started = Startup(inputs)
          /\ parent' = started /\ pc' = "flags"
      BY <1>2, <2>4 DEF StartupInv, CommandStartsClnkr
    <3>3. parent' # Nothing
      BY <3>2, StartedSomething
    <3> QED BY <3>1, <3>2, <3>3 DEF StartupInv
  <2>5. CASE UNCHANGED vars
    BY <1>2, <2>5 DEF StartupInv, vars
  <2> QED BY <1>2, <2>1, <2>2, <2>3, <2>4, <2>5 DEF Next
<1> QED BY <1>1, <1>2, PTL DEF Spec

-----------------------------------------------------------------------------
(* What is built of one input *)

\* The parts of Startup, each by the field that holds it.
LEMMA Parts ==
  ASSUME NEW i
  PROVE  LET s == Startup(i)
             c == ResolvedConfig(i)
         IN  /\ s.act = c.act /\ s.prompt = LoadPrompt(i)
             /\ s.client = NewModel(c, i.unattended)
             /\ s.metadata = newRunMetadata(c)
             /\ s.env = commandEnvFromProviderConfig(c, i.env)
BY DEF Startup

\* The fields of the configuration.
LEMMA ConfigParts ==
  ASSUME NEW i
  PROVE  LET c == ResolvedConfig(i)
         IN  /\ c.provider = provider(i) /\ c.api = ResolveProviderAPI(i)
             /\ c.model = model(i) /\ c.url = ResolvedURL(i)
             /\ c.act = resolveActProtocol(ActProtocolSetting(i), provider(i), ResolveProviderAPI(i))
             /\ c.effort = i.effort /\ c.max = i.max /\ c.budget = i.budget
BY DEF ResolvedConfig

\* The client follows the provider, and for openai the api.
LEMMA ClientFollows ==
  ASSUME NEW i, Accepted(i)
  PROVE  LET c == ResolvedConfig(i)
         IN  /\ ClientOf(c) \in {"messages", "responses", "chat"}
             /\ ClientOf(c) = "messages" <=> provider(i) = "anthropic"
             /\ ClientOf(c) = "responses" <=> provider(i) = "openai" /\ c.api = "responses"
             /\ ClientOf(c) = "chat" <=> provider(i) = "openai" /\ c.api = "chat"
BY ConfigParts DEF Accepted, ConfigResolves, ContextResolves, ResolveProviderAPI, ClientOf

\* The prompt, the client and the agent of an accepted input agree.
LEMMA PromptAgrees ==
  ASSUME NEW i, Accepted(i)
  PROVE  LET s == Startup(i)
         IN  /\ s.client.tools <=> s.act = "tool-calls"
             /\ ~s.prompt.omitted => s.prompt.protocol = s.act
             /\ s.prompt.unattended = s.client.unattended
<1> DEFINE s == Startup(i)
           c == ResolvedConfig(i)
           m == NewModel(c, i.unattended)
<1>1. s.act = c.act /\ s.prompt = LoadPrompt(i) /\ s.client = m
  BY Parts
<1>2. c.act = resolveActProtocol(ActProtocolSetting(i), provider(i), ResolveProviderAPI(i))
  BY ConfigParts
<1>3. m.tools = (ClientOf(c) # "chat" /\ c.act = "tool-calls") /\ m.unattended = i.unattended
  BY DEF NewModel
<1>4. c.act = "tool-calls" => SupportsBashToolCalls(provider(i), c.api)
  BY DEF Accepted, ConfigResolves, ValidateRequestOptions
<1>5. c.act = "tool-calls" => ClientOf(c) # "chat"
  BY <1>4, ClientFollows DEF SupportsBashToolCalls
<1> HIDE DEF s, c, m
<1>6. s.client.tools <=> s.act = "tool-calls"
  BY <1>1, <1>3, <1>5
<1>7. ~s.prompt.omitted => s.prompt.protocol = s.act
  BY <1>1, <1>2 DEF LoadPrompt
<1>8. s.prompt.unattended = s.client.unattended
  BY <1>1, <1>3 DEF LoadPrompt
<1> QED BY <1>6, <1>7, <1>8 DEF s

\* The metadata and the client of an accepted input agree.
LEMMA MetadataAgrees ==
  ASSUME NEW i, Accepted(i)
  PROVE  LET client == Startup(i).client
             meta   == Startup(i).metadata
         IN  /\ \A field \in {"model", "effort", "max", "thinking", "budget"} :
                  meta[field] = client[field]
             /\ EffortSent(i) => client.effort = i.effort
             /\ i.max # Unset => client.max = i.max
             /\ i.budget # Unset => client.budget = i.budget
             /\ client.budget # Unset => client.effort = "" /\ client.budget < client.max
<1> DEFINE c == ResolvedConfig(i)
           client == Startup(i).client
           meta == Startup(i).metadata
<1>1. client = NewModel(c, i.unattended) /\ meta = newRunMetadata(c)
  BY Parts
<1>2. /\ c.provider = provider(i) /\ c.effort = i.effort
      /\ c.max = i.max /\ c.budget = i.budget
  BY ConfigParts
<1>3. Sent(c) <=> EffortSent(i)
  BY <1>2 DEF Sent, EffortSent
<1>4. ClientOf(c) = "chat" => ~EffortSent(i) /\ i.max = Unset
  BY ClientFollows
     DEF Accepted, ConfigResolves, ValidateRequestOptions, effortValid, maxOutputValid
<1>5. i.budget # Unset =>
        /\ provider(i) = "anthropic" /\ ~EffortSent(i)
        /\ i.budget < EffectiveMaxTokens(i.max)
  BY DEF Accepted, ConfigResolves, ValidateRequestOptions, thinkingBudgetValid
<1>6. /\ ClientOf(c) \in {"messages", "responses", "chat"}
      /\ ClientOf(c) = "messages" <=> provider(i) = "anthropic"
  BY ClientFollows
<1> HIDE DEF c, client, meta
<1>7. /\ client.model = c.model
      /\ client.effort = (IF ClientOf(c) # "chat" /\ Sent(c) THEN c.effort ELSE "")
      /\ client.max = (IF ClientOf(c) = "messages" THEN EffectiveMaxTokens(c.max)
                       ELSE IF ClientOf(c) = "responses" THEN c.max ELSE Unset)
      /\ client.thinking = (IF ClientOf(c) # "messages" THEN "omitted"
                            ELSE IF Sent(c) THEN "adaptive"
                            ELSE IF c.budget # Unset THEN "enabled" ELSE "omitted")
      /\ client.budget = (IF ClientOf(c) = "messages" /\ ~Sent(c) THEN c.budget ELSE Unset)
  BY <1>1 DEF NewModel
<1>8. /\ meta.model = c.model /\ meta.budget = c.budget
      /\ meta.effort = (IF Sent(c) THEN c.effort ELSE "")
      /\ meta.max = (IF c.provider = "anthropic" THEN EffectiveMaxTokens(c.max) ELSE c.max)
      /\ meta.thinking = (IF c.provider # "anthropic" THEN "omitted"
                          ELSE IF Sent(c) THEN "adaptive"
                          ELSE IF c.budget # Unset THEN "enabled" ELSE "omitted")
  BY <1>1 DEF newRunMetadata
<1>9. client.effort = (IF EffortSent(i) THEN i.effort ELSE "") /\ meta.effort = client.effort
  BY <1>2, <1>3, <1>4, <1>7, <1>8
<1>10. meta.max = client.max /\ (i.max # Unset => client.max = i.max)
  BY <1>2, <1>4, <1>6, <1>7, <1>8 DEF EffectiveMaxTokens
<1>11. meta.thinking = client.thinking
  BY <1>2, <1>6, <1>7, <1>8
<1>12. client.budget = i.budget /\ meta.budget = i.budget
  BY <1>2, <1>3, <1>5, <1>6, <1>7, <1>8
<1>13. client.budget # Unset => client.effort = "" /\ client.budget < client.max
  BY <1>2, <1>5, <1>6, <1>7, <1>9, <1>12
<1>14. \A field \in {"model", "effort", "max", "thinking", "budget"} :
         meta[field] = client[field]
  BY <1>7, <1>8, <1>9, <1>10, <1>11, <1>12
<1>15. EffortSent(i) => client.effort = i.effort
  BY <1>9
<1>16. i.budget # Unset => client.budget = i.budget
  BY <1>12
<1> QED BY <1>10, <1>13, <1>14, <1>15, <1>16 DEF client, meta

\* What a nested clnkr finds in its environment is resolved to itself.
LEMMA NestedResolves ==
  ASSUME NEW i, Accepted(i), NEW unattended \in BOOLEAN,
         NEW n, n = NoFlags(Startup(i).env, unattended)
  PROVE  LET c == ResolvedConfig(i)
             d == ResolvedConfig(n)
         IN  /\ Accepted(n) /\ n.env = Startup(i).env
             /\ d.provider = c.provider /\ d.api = c.api /\ d.model = c.model
             /\ d.url = c.url /\ d.act = c.act
<1> DEFINE c == ResolvedConfig(i)
           e == Startup(i).env
<1>1. e = commandEnvFromProviderConfig(c, i.env)
  BY Parts
<1>2. /\ c.provider = provider(i) /\ c.api = ResolveProviderAPI(i)
      /\ c.model = model(i) /\ c.url = ResolvedURL(i)
      /\ c.act = resolveActProtocol(ActProtocolSetting(i), provider(i), c.api)
  BY ConfigParts
<1>3. /\ n.env = e /\ n.provider = "" /\ n.api = "" /\ n.model = "" /\ n.url = ""
      /\ n.actSet = FALSE /\ n.effort = "" /\ n.max = Unset /\ n.budget = Unset
  BY DEF NoFlags
<1> HIDE DEF c, e
<1>4. /\ e.provider = provider(i) /\ e.model = model(i) /\ e.url = c.url
      /\ e.act = c.act /\ e.key = i.env.key
      /\ e.api = (IF provider(i) = "openai" THEN c.api ELSE "")
  BY <1>1, <1>2 DEF commandEnvFromProviderConfig
<1>5. /\ provider(i) \in {"anthropic", "openai"} /\ model(i) # "" /\ i.env.key
      /\ baseURL(i) # "odd"
      /\ provider(i) = "openai" => model(i) \notin unsupportedStructuredOpenAIModels
  BY DEF Accepted, ConfigResolves, ContextResolves
<1>6. c.act \in Protocols
  BY <1>2 DEF Accepted, PromptLoads, resolveActProtocol, Protocols
<1>7. c.url \notin {"", "url/", "odd"}
  BY <1>2, <1>5 DEF ResolvedURL
<1>8. c.api \in (IF provider(i) = "openai" THEN {"chat", "responses"} ELSE {"auto"})
  BY <1>2, <1>5 DEF ResolveProviderAPI
<1>9. /\ provider(n) = provider(i) /\ model(n) = model(i)
      /\ providerAPI(n) = e.api /\ baseURL(n) = c.url
  BY <1>3, <1>4 DEF provider, model, providerAPI, baseURL, Chosen
<1>10. ActProtocolSetting(n) = c.act
  BY <1>3, <1>4, <1>6 DEF ActProtocolSetting, Chosen, Protocols
<1>11. ContextResolves(n)
  BY <1>4, <1>5, <1>7, <1>8, <1>9 DEF ContextResolves
<1>12. ResolveProviderAPI(n) = c.api
  BY <1>4, <1>5, <1>8, <1>9 DEF ResolveProviderAPI
<1>13. ResolvedURL(n) = c.url
  BY <1>7, <1>9 DEF ResolvedURL
<1>14. resolveActProtocol(ActProtocolSetting(n), provider(n), ResolveProviderAPI(n)) = c.act
  BY <1>6, <1>10 DEF resolveActProtocol, Protocols
<1> DEFINE d == ResolvedConfig(n)
<1>15. /\ d.provider = c.provider /\ d.api = c.api /\ d.model = c.model
       /\ d.url = c.url /\ d.act = c.act
  BY <1>2, <1>9, <1>12, <1>13, <1>14, ConfigParts
<1> HIDE DEF d
<1>16. PromptLoads(n)
  BY <1>6, <1>10 DEF PromptLoads
<1>17. ValidateRequestOptions(n, d.api, d.act)
  <2>1. d.act = "tool-calls" => SupportsBashToolCalls(provider(n), d.api)
    BY <1>2, <1>9, <1>15 DEF Accepted, ConfigResolves, ValidateRequestOptions, c
  <2> QED
    BY <2>1, <1>3 DEF ValidateRequestOptions, effortValid, EffortSent, maxOutputValid,
       thinkingBudgetValid
<1>18. Accepted(n)
  BY <1>3, <1>4, <1>5, <1>11, <1>16, <1>17 DEF Accepted, ConfigResolves, d
<1> QED BY <1>3, <1>15, <1>18 DEF c, d, e

\* A nested clnkr is built like the one around it.
LEMMA NestedAgrees ==
  ASSUME NEW i, Accepted(i), NEW unattended \in BOOLEAN,
         NEW n, n = NoFlags(Startup(i).env, unattended)
  PROVE  LET s == Startup(n)
             p == Startup(i)
         IN  /\ s.act = p.act /\ s.env = p.env
             /\ \A field \in {"client", "model", "url", "tools"} :
                  s.client[field] = p.client[field]
<1> DEFINE c == ResolvedConfig(i)
           d == ResolvedConfig(n)
           s == Startup(n)
           p == Startup(i)
<1>1. /\ n.env = p.env
      /\ d.provider = c.provider /\ d.api = c.api /\ d.model = c.model
      /\ d.url = c.url /\ d.act = c.act
  BY NestedResolves
<1>2. /\ s.act = d.act /\ s.client = NewModel(d, n.unattended)
      /\ s.env = commandEnvFromProviderConfig(d, n.env)
  BY Parts
<1>3. /\ p.act = c.act /\ p.client = NewModel(c, i.unattended)
      /\ p.env = commandEnvFromProviderConfig(c, i.env)
  BY Parts
<1> HIDE DEF c, d, s, p
<1>4. s.env = p.env
  <2> DEFINE e == commandEnvFromProviderConfig(c, i.env)
  <2>1. n.env.key = i.env.key
    <3>1. e.key = i.env.key
      BY DEF commandEnvFromProviderConfig
    <3> HIDE DEF e
    <3>2. n.env = e
      BY <1>1, <1>3 DEF e
    <3> QED BY <3>1, <3>2
  <2>2. commandEnvFromProviderConfig(d, n.env) = commandEnvFromProviderConfig(c, i.env)
    BY <1>1, <2>1 DEF commandEnvFromProviderConfig
  <2> QED BY <1>2, <1>3, <2>2
<1>5. ClientOf(d) = ClientOf(c)
  BY <1>1 DEF ClientOf
<1> DEFINE m == NewModel(d, n.unattended)
           k == NewModel(c, i.unattended)
<1>6. /\ m.client = ClientOf(d) /\ m.model = d.model /\ m.url = d.url
      /\ m.tools = (ClientOf(d) # "chat" /\ d.act = "tool-calls")
  BY DEF NewModel
<1>7. /\ k.client = ClientOf(c) /\ k.model = c.model /\ k.url = c.url
      /\ k.tools = (ClientOf(c) # "chat" /\ c.act = "tool-calls")
  BY DEF NewModel
<1> HIDE DEF m, k
<1>8. \A field \in {"client", "model", "url", "tools"} : s.client[field] = p.client[field]
  BY <1>1, <1>2, <1>3, <1>5, <1>6, <1>7 DEF m, k
<1> QED BY <1>1, <1>2, <1>3, <1>4, <1>8 DEF s, p

-----------------------------------------------------------------------------
(* Results *)

\* The prompt, the client and the agent of every clnkr and clnkrd agree on how
\* the model gives a turn and on whether someone answers it, whatever it was
\* started with (LoadStartupPrompt and PrepareStartup, startup.go).
THEOREM PromptMatchesAlways == Spec => []PromptMatches
<1>1. StartupInv => PromptMatches
  BY PromptAgrees DEF StartupInv, PromptMatches
<1> QED BY <1>1, StartupInvariance, PTL

\* The effective options recorded with a session are those of its requests,
\* and no option is dropped, whatever the flags (newRunMetadata beside
\* NewModelWithOptions, clnkrapp.go).
THEOREM MetadataTruthfulAlways == Spec => []MetadataTruthful
<1>1. ASSUME StartupInv, pc = "ready" PROVE MetadataTruthful
  <2>1. Accepted(inputs) /\ started = Startup(inputs)
    BY <1>1 DEF StartupInv
  <2> QED BY <2>1, MetadataAgrees DEF MetadataTruthful
<1>2. StartupInv => MetadataTruthful
  BY <1>1 DEF MetadataTruthful
<1> QED BY <1>2, StartupInvariance, PTL

\* Whatever a clnkr was started with, one that its commands start without
\* flags starts too, and talks to the same model in the same way
\* (commandEnvFromProviderConfig, env.go).
THEOREM NestedSameAlways == Spec => []NestedSame
<1>1. ASSUME StartupInv, parent # Nothing PROVE NestedSame
  <2>1. PICK i \in StartupInputs, unattended \in BOOLEAN :
          /\ Accepted(i) /\ parent = Startup(i)
          /\ inputs = NoFlags(parent.env, unattended)
    BY <1>1 DEF StartupInv
  <2>2. Accepted(inputs)
    BY <2>1, NestedResolves
  <2>3. /\ Startup(inputs).act = parent.act /\ Startup(inputs).env = parent.env
        /\ \A field \in {"client", "model", "url", "tools"} :
             Startup(inputs).client[field] = parent.client[field]
    BY <2>1, NestedAgrees
  <2> QED BY <1>1, <2>2, <2>3 DEF StartupInv, NestedSame
<1>2. StartupInv => NestedSame
  BY <1>1 DEF NestedSame
<1> QED BY <1>2, StartupInvariance, PTL

-----------------------------------------------------------------------------
(* WaitIndicator *)


-----------------------------------------------------------------------------
(* The inductive invariant *)

Places == {"prompt", "select", "ask", "drain",
           "ended", "working", "querying", "answered", "asking"}

TypeInv ==
  /\ current \in Renderers \cup {Nil}
  /\ renderer \in [Renderers -> {"ended", "delay", "draw", "tick"}]
  /\ call \in [Callers -> {"none", "stop", "wait", "reset"}]
  /\ target \in [Callers -> Renderers \cup {Nil}]
  /\ at \in [Callers -> Places]
  /\ run \in Runs \cup {Nil}
  /\ cancelled \in [Runs -> BOOLEAN]

\* A caller that is about to forget a renderer knows that it has ended, and a
\* text on the line has its renderer.
RendererInv ==
  /\ \A i \in Alive : i = current
  /\ \A c \in Callers : call[c] = "reset" => target[c] \notin Alive
  /\ line => \E i \in Renderers : renderer[i] \in {"draw", "tick"}

\* Which goroutines go on: a run that main does not wait for is cancelled.
RunInv ==
  /\ at[Main] \in {"prompt", "select", "ask", "drain"}
  /\ at[Main] # "prompt" => run \in Runs
  /\ at[Main] = "drain" => at[run] = "ended"
  /\ \A r \in Runs :
       /\ at[r] \notin {"prompt", "select", "ask", "drain"}
       /\ at[r] \in {"ended", "asking"} => call[r] = "none"
       /\ at[r] # "ended" /\ (r # run \/ at[Main] = "prompt") => cancelled[r]

\* While nothing is cancelled, a Stop that has begun leaves nothing else to
\* draw, for the run that has its answer and for main before the prompt.
Quiet(c) ==
  /\ call[c] = "none" => Alive = {}
  /\ call[c] \in {"wait", "reset"} => Alive \subseteq {target[c]}

QuietInv ==
  \/ \E r \in Runs : cancelled[r]
  \/ /\ \A r \in Runs : at[r] \in {"answered", "asking"} => Quiet(r)
     /\ at[Main] = "prompt" => Quiet(Main)

IndicatorInv == TypeInv /\ RendererInv /\ RunInv /\ QuietInv
-----------------------------------------------------------------------------
(* Invariance *)

\* Main is no run, and Nil is no renderer.
LEMMA Identities ==
  /\ Nil \notin Renderers /\ Main \notin Runs /\ Nil \notin Runs
  /\ Callers = {Main} \cup Runs
BY MaxRunsAssumption DEF Nil, Renderers, Main, Runs, Callers

USE Identities

\* At the first prompt nothing is drawn and nothing runs.
LEMMA InitInv == IndicatorInit => IndicatorInv
BY DEF IndicatorInit, IndicatorInv, TypeInv, RendererInv, RunInv, QuietInv, Quiet, Alive, Places

\* Stop keeps the invariant: what it forgets has ended, and what came in its
\* place stays.
LEMMA StopInv ==
  ASSUME IndicatorInv, NEW c \in Callers, StopStep(c)
  PROVE  IndicatorInv'
<1> USE DEF IndicatorInv, TypeInv, RendererInv, RunInv, QuietInv, Quiet, Alive, loopVars
<1>1. CASE StopBegins(c)
  <2> USE <1>1 DEF StopBegins
  <2>1. TypeInv' OBVIOUS
  <2>2. RendererInv' OBVIOUS
  <2>3. RunInv' OBVIOUS
  <2>4. QuietInv' OBVIOUS
  <2> QED BY <2>1, <2>2, <2>3, <2>4
<1>2. CASE StopWaits(c)
  <2> USE <1>2 DEF StopWaits, indicator
  <2>1. TypeInv' OBVIOUS
  <2>2. RendererInv' OBVIOUS
  <2>3. RunInv' OBVIOUS
  <2>4. QuietInv' OBVIOUS
  <2> QED BY <2>1, <2>2, <2>3, <2>4
<1>3. CASE StopEnds(c)
  <2> USE <1>3 DEF StopEnds
  <2>1. TypeInv' OBVIOUS
  <2>2. RendererInv' OBVIOUS
  <2>3. RunInv' OBVIOUS
  <2>4. QuietInv' OBVIOUS
  <2> QED BY <2>1, <2>2, <2>3, <2>4
<1> QED BY <1>1, <1>2, <1>3 DEF StopStep

\* The goroutine that draws keeps it: it starts nothing, and it leaves no text
\* behind when it ends.
LEMMA RenderInv ==
  ASSUME IndicatorInv, NEW i \in Renderers, RenderStep(i)
  PROVE  IndicatorInv'
<1> USE DEF IndicatorInv, TypeInv, RendererInv, RunInv, QuietInv, Quiet, Alive, Becomes, stopVars, loopVars
<1>1. CASE EndsUnseen(i)
  <2> USE <1>1 DEF EndsUnseen
  <2>1. TypeInv' OBVIOUS
  <2>2. RendererInv' OBVIOUS
  <2>3. RunInv' OBVIOUS
  <2>4. QuietInv' OBVIOUS
  <2> QED BY <2>1, <2>2, <2>3, <2>4
<1>2. CASE Fires(i)
  <2> USE <1>2 DEF Fires
  <2>1. TypeInv' OBVIOUS
  <2>2. RendererInv' OBVIOUS
  <2>3. RunInv' OBVIOUS
  <2>4. QuietInv' OBVIOUS
  <2> QED BY <2>1, <2>2, <2>3, <2>4
<1>3. CASE Draws(i)
  <2> USE <1>3 DEF Draws
  <2>1. TypeInv' OBVIOUS
  <2>2. RendererInv' OBVIOUS
  <2>3. RunInv' OBVIOUS
  <2>4. QuietInv' OBVIOUS
  <2> QED BY <2>1, <2>2, <2>3, <2>4
<1>4. CASE Clears(i)
  <2> USE <1>4 DEF Clears
  <2>1. TypeInv' OBVIOUS
  <2>2. RendererInv' OBVIOUS
  <2>3. RunInv' OBVIOUS
  <2>4. QuietInv' OBVIOUS
  <2> QED BY <2>1, <2>2, <2>3, <2>4
<1> QED BY <1>1, <1>2, <1>3, <1>4 DEF RenderStep

\* A run keeps it: it calls Start only where it is not quiet or is cancelled,
\* and Stop before it asks.
LEMMA RunStepInv ==
  ASSUME IndicatorInv, NEW r \in Runs, RunStep(r)
  PROVE  IndicatorInv'
<1> USE DEF IndicatorInv, TypeInv, RendererInv, RunInv, QuietInv, Quiet, Alive, RunAt, Goes, Places, indicator, stopVars
<1>1. CASE Asks(r)
  <2> USE <1>1 DEF Asks, Start, Fresh
  <2>1. TypeInv' OBVIOUS
  <2>2. RendererInv' OBVIOUS
  <2>3. RunInv' OBVIOUS
  <2>4. QuietInv' OBVIOUS
  <2> QED BY <2>1, <2>2, <2>3, <2>4
<1>2. CASE Notifies(r)
  <2> USE <1>2 DEF Notifies, CallStop
  <2>1. TypeInv' OBVIOUS
  <2>2. RendererInv' OBVIOUS
  <2>3. RunInv' OBVIOUS
  <2>4. QuietInv' OBVIOUS
  <2> QED BY <2>1, <2>2, <2>3, <2>4
<1>3. CASE NeedsHuman(r)
  <2> USE <1>3 DEF NeedsHuman
  <2>1. TypeInv' OBVIOUS
  <2>2. RendererInv' OBVIOUS
  <2>3. RunInv' OBVIOUS
  <2>4. QuietInv' OBVIOUS
  <2> QED BY <2>1, <2>2, <2>3, <2>4
<1>4. CASE Ends(r)
  <2> USE <1>4 DEF Ends
  <2>1. TypeInv' OBVIOUS
  <2>2. RendererInv' OBVIOUS
  <2>3. RunInv' OBVIOUS
  <2>4. QuietInv' OBVIOUS
  <2> QED BY <2>1, <2>2, <2>3, <2>4
<1>5. CASE Compacts(r)
  <2> USE <1>5 DEF Compacts
  <2>1. TypeInv' OBVIOUS
  <2>2. RendererInv' OBVIOUS
  <2>3. RunInv' OBVIOUS
  <2>4. QuietInv' OBVIOUS
  <2> QED BY <2>1, <2>2, <2>3, <2>4
<1> QED BY <1>1, <1>2, <1>3, <1>4, <1>5 DEF RunStep

\* Main keeps it: it comes to its prompt through Stop, with the run ended or
\* cancelled.
LEMMA MainInv ==
  ASSUME IndicatorInv, MainStep
  PROVE  IndicatorInv'
<1> USE DEF IndicatorInv, TypeInv, RendererInv, RunInv, QuietInv, Quiet, Alive, MainAt, Others, Places, indicator, stopVars
<1>1. CASE \E r \in Runs : Prompt(r)
  <2> USE <1>1 DEF Prompt
  <2>1. TypeInv' OBVIOUS
  <2>2. RendererInv' OBVIOUS
  <2>3. RunInv' OBVIOUS
  <2>4. QuietInv' OBVIOUS
  <2> QED BY <2>1, <2>2, <2>3, <2>4
<1>2. CASE \E r \in Runs \cup {Nil}, kind \in {"request", "compacted", "last"} : HandleEvent(r, kind)
  <2> USE <1>2 DEF HandleEvent, CallStop
  <2>1. TypeInv' OBVIOUS
  <2>2. RendererInv' OBVIOUS
  <2>3. RunInv' OBVIOUS
  <2>4. QuietInv' OBVIOUS
  <2> QED BY <2>1, <2>2, <2>3, <2>4
<1>3. CASE Reply
  <2> USE <1>3 DEF Reply
  <2>1. TypeInv' OBVIOUS
  <2>2. RendererInv' OBVIOUS
  <2>3. RunInv' OBVIOUS
  <2>4. QuietInv' OBVIOUS
  <2> QED BY <2>1, <2>2, <2>3, <2>4
<1>4. CASE RunReturned
  <2> USE <1>4 DEF RunReturned
  <2>1. TypeInv' OBVIOUS
  <2>2. RendererInv' OBVIOUS
  <2>3. RunInv' OBVIOUS
  <2>4. QuietInv' OBVIOUS
  <2> QED BY <2>1, <2>2, <2>3, <2>4
<1>5. CASE Drained
  <2> USE <1>5 DEF Drained, CallStop
  <2>1. TypeInv' OBVIOUS
  <2>2. RendererInv' OBVIOUS
  <2>3. RunInv' OBVIOUS
  <2>4. QuietInv' OBVIOUS
  <2> QED BY <2>1, <2>2, <2>3, <2>4
<1>6. CASE Interrupt
  <2> USE <1>6 DEF Interrupt, CallStop
  <2>1. TypeInv' OBVIOUS
  <2>2. RendererInv' OBVIOUS
  <2>3. RunInv' OBVIOUS
  <2>4. QuietInv' OBVIOUS
  <2> QED BY <2>1, <2>2, <2>3, <2>4
<1> QED BY <1>1, <1>2, <1>3, <1>4, <1>5, <1>6 DEF MainStep

\* Every step keeps the invariant.
LEMMA NextInv == IndicatorInv /\ [IndicatorNext]_indicatorVars => IndicatorInv'
<1> SUFFICES ASSUME IndicatorInv, [IndicatorNext]_indicatorVars PROVE IndicatorInv'
  OBVIOUS
<1>1. CASE IndicatorNext
  BY <1>1, StopInv, RenderInv, RunStepInv, MainInv DEF IndicatorNext
<1>2. CASE UNCHANGED indicatorVars
  BY <1>2 DEF indicatorVars, indicator, stopVars, loopVars, IndicatorInv, TypeInv, RendererInv, RunInv,
     QuietInv, Quiet, Alive
<1> QED BY <1>1, <1>2

\* The invariant holds in every state of every behaviour.
LEMMA IndicatorInvariance == IndicatorSpec => []IndicatorInv
BY InitInv, NextInv, PTL DEF IndicatorSpec

-----------------------------------------------------------------------------
(* Results *)

\* However many goroutines call Start and Stop at once, one renderer draws, it
\* is the one Stop would stop, and an indicator without one has left no text
\* on the line (model_wait_indicator.go:26-68).
THEOREM OneRendererAlways == IndicatorSpec => []OneRenderer
<1>1. IndicatorInv => OneRenderer
  BY DEF IndicatorInv, RendererInv, TypeInv, OneRenderer, Alive
<1> QED BY <1>1, IndicatorInvariance, PTL

\* However many runs there are, the line is free where the human types, unless
\* one of them was interrupted (handleTerminalDriverEvent and runDriverPrompt,
\* main.go).
THEOREM LineFreeAlways == IndicatorSpec => []LineFree
<1>1. IndicatorInv => LineFree
  BY DEF IndicatorInv, TypeInv, RendererInv, RunInv, QuietInv, Quiet, LineFree, MainAt, Alive
<1> QED BY <1>1, IndicatorInvariance, PTL
=============================================================================
