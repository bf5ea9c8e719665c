# A TLA+ model of clnkr

clnkr is a coding agent written in Go: a model proposes batches of bash
commands, the host asks for approval (or not), runs them, and tells the model
what happened. This directory holds TLA+ modules for the parts of it whose
correctness lies in the order of things, TLC configurations that check them on
small instances, and TLAPS proofs of what holds on every instance.
`PROJECT.json` maps every definition to the lines it models.

Check one configuration with `tlc -config X.cfg Module`, one module of proofs
with `tlapm XProofs.tla`. Most constants are plain values, so most configurations
instantiate a module directly; the session store, which uses a symmetry, and the
model query and startup, whose inputs are sets of records, have an MC module.

## The system

| Part | State it keeps | Operations | Modules |
|---|---|---|---|
| Run policy loop (`run_policy.go`, `completion_gate.go`, loop of `agent.go`) | budgets used, retry counters, the armed backstop, guidance level | one attempt, the handling of each kind of turn, the final summary | `RunPolicy`, `RunPolicyProofs` |
| Transcript (`internal/core/transcript`) | the list of messages | classify, append state and resource blocks, find the compaction boundary, rewrite | `Transcript`, `AgentRunProofs` |
| Agent and executor of act turns (`agent.go`, `act_turn_executor.go`) | messages, cwd, environment snapshot | step, reject, execute, compact, resume | `AgentRun`, `AgentRunProofs` |
| Shell executor (`executor.go`, `shellstate`, `gitfeedback`) | a process group, the goroutine of os/exec, a state file | execute one command | `ShellExec`, `ShellExecProofs`; `Command` and `Outcomes` for what it promises |
| Driver (`clnkrapp/driver.go`) | running flag, pending request, event channel | Prompt, Compact, Reply, emit | `Driver` |
| clnkrd (`cmd/clnkrd/main.go`) | current run, end of input, its channels | read a command, select, shut down | `Clnkrd`, `ClnkrdProofs` |
| clnkr (`cmd/clnkr/main.go`) | prompt context, current run | prompt, handle events, drain, ask, interrupt | `Repl`, `ReplProofs` |
| Model wait indicator (`model_wait_indicator.go`) | a drawing goroutine, two channels, a line of the terminal | Start, Stop | `WaitIndicator`, `FrontendProofs` |
| Session store (`internal/session`) | a directory of files | save, load | `SessionStore`, `SessionStoreProofs`; `StoredSessions` for what it promises |
| Turn protocol (`turnschema.go`, `turn_canonical.go`, `internal/providers/actwire`) | none | parse, write, schemas | `TurnProtocol` |
| Provider clients (`internal/providers`) | the request under way | map the transcript, request, retry, read the answer | `ModelQuery`, `ModelQueryProofs`, `ProviderMessages` |
| Configuration and startup (`providerconfig` twice, `clnkrapp/startup.go`, `env.go`) | none; what it hands to the others | resolve flags and environment, build prompt, client, metadata, environment | `Startup`, `FrontendProofs` |
| Compactor factory | none | summarise | in `AgentRun`: it yields a summary or fails |
| System prompt, flags, output | none | | not modelled |

How they interact: startup turns flags and environment into an agent, a client
and a prompt. A frontend (clnkr or clnkrd) starts a goroutine that calls
`Driver.Prompt`, which runs the policy loop over the agent; the agent executes
commands with the shell executor. The goroutine sends events over a channel of
capacity 16, and in clnkr also starts and stops the wait indicator. When the
policy needs a human it registers a pending request, emits it and waits; the
frontend answers with `Driver.Reply`, a rendezvous on the request's own channel.
Contexts cancel from the signal handler through the frontend down to the run and
its process group. When a run ends, the frontend saves the agent's messages
through the session store. The environment of a command may start another clnkr.

What makes it hard: the reader, main and run goroutines of clnkrd race over
end of input, the run's last event and its result; clnkr abandons a run it
interrupts and goes on with the same driver, agent and terminal line; a
command's exit races its kill, its output, its state file and two timers; the
retry budgets of the loop reset one another; three provider clients each send
another schema and read the answer with another parser; compaction rewrites a
transcript whose parts refer to each other (call and result, state block and
cwd); what startup decides is computed in several places; sessions are saved by
several processes at once and must survive a crash. `PROJECT.json` lists each
hazard at its line, with the properties that watch it.

What makes each part correct:

- the loop: commands within the budget, retries within theirs, a bounded number
  of model turns, and an end;
- the transcript: each call with its result, the cwd the model was told last
  the one that is used, nothing rewritten except by compaction;
- the executor: an outcome and a snapshot that agree with the context and with
  the end of the shell, nothing of a killed command left behind, and a return;
- turns and providers: what a schema asks for is accepted, what is accepted can be
  written and read again, what is refused is refused as a whole, and a query ends;
- driver and frontends: no run leaks its events, request, flag or messages into
  the next or into the saved session; every request that was read can be
  answered; shutdown, SIGINT and end of input lead to an end;
- the indicator: one goroutine draws, never on the line the human types on;
- startup: prompt, client, agent, metadata and environment tell the same story;
- the store: published means whole, acknowledged means kept, newest means newest.

## The modules

**RunPolicy** is `runPolicyState`. `pc` is the place in the loop: `loop` before
the context check, `query` while the model is asked, `decide`, `execute` and
`finish` for an act turn, `clarify`, `compact` in the backstop, `final` and
`finalCompact` for the step limit summary. One action per way a step can go;
the model, the command and the human choose. A completion is one of the classes
`DoneTurns` that the gate tells apart.

**Transcript** has the operators of the transcript package. A message is a record
of its kind with what later code reads of it: the cwd of a state block, the call
ids of a turn, the id and outcome of a result, the numbers of a resource block.

**AgentRun** EXTENDS both. Each of its actions is an action of `RunPolicy`
conjoined with what the same handler does to messages, cwd and env. What a command
comes to is a member of `Reported` of `Outcomes`: the agent's context, whether
all went well, and the kind of snapshot. `CutEnv` is the environment after a
snapshot that the kill cut short. Between runs the frontend compacts, or the
process ends and a new one resumes the session.

**Outcomes** says which outcomes and snapshots go together with which context and
which end of the shell (`Allowed`). **Command** is the abstract command: it is called,
may be stopped, its shell ends, and it returns a result that is `Allowed`.

**ShellExec** is `ShellExecutor.Execute`: the calling goroutine from Detect to
Collect, `watchCtx` of os/exec with its kill and its timer, bash with its EXIT trap,
one child in the background that is in the process group, on the output pipe, or
both, and the state file. It implements `Command` (`ImplementsCommand`), and so what
`AgentRun` assumes of a command is what the executor is shown to do.

**ProviderMessages** maps a transcript to the request of the two clients that
offer bash as a tool: messages with blocks for Anthropic, a flat list of items
for the Responses API. `AgentRun` EXTENDS it for `RequestPaired`, and a resume
may choose another act protocol than the session was made with.

**TurnProtocol** has the turns on the wire. A JSON object is a record that says of
each field whether it is absent, null, empty, blank or there. `ProviderAccepts`
and `StrictAccepts` are the two parsers, `CanonicalTurnJSON` and `ProviderJSON`
the two writers, `SchemaAllows` the JSON schema of a request. They are operators
without state, in a module other components use.

**ModelQuery** EXTENDS it with one query by one of the three clients. `Parsed` is
what each client makes of the body of a 200; the actions are those of the request
loop: `Send`, a failure of the connection, an answer, a refusal that ends the query
or one that is followed by a wait, and the three ways a wait ends. The server
is the environment. `MCModelQuery` gives the turns it answers with: the fields
of a turn of each type take all their values, and those of other turns stray
from what the schema asks. A body with calls, refusals or several blocks takes
its text from the small set `FewTexts`.

**Driver** has one record per run goroutine and one action per step between two
points where it can block or be seen: setting the flag, registering a request,
emitting, waiting, returning. What the agent does is reduced to: works, asks,
compacts, ends, fails. The operators for the frontend's side (`StartDriverRun`,
`TakeHold`, `HandOver`, `LetGo`, `Cancelled`) are used by the two frontends.

**Clnkrd** EXTENDS Driver with the reader goroutine, the main goroutine and a
client. `view` is what the client can know from its own lines and from stdout;
it is `rude` once it writes a run command or a reply its view does not call for,
or a line that does not decode. Properties about being served are for clients
that are not. A shutdown closes stdin; a read that is under way then ends or goes on
(`closedInRead`), which depends on what stdin is: on a blocking pipe or terminal, which
a process usually gets, it goes on until the client writes a line or closes its end.

**Repl** EXTENDS Driver with clnkr's prompt loop. `run` is the run
`runDriverPrompt` waits for; interrupted runs stay active beside it. Single-task
mode is the same `runDriverPrompt` in full-send mode with an empty stdin.

**WaitIndicator** is the indicator with its callers: each step of `Start` and `Stop`
under the mutex is one action, and a done channel has an identity that is used
again only when nobody refers to it. A run goroutine is reduced to what it tells the
indicator (`agent.Notify`) and the driver; the main goroutine to the places where it
stops the indicator, the compaction by the context backstop in the middle of a run
among them. A renderer ends on its stop channel only at a `select`.

**Startup** is one process from flags and environment to what `PrepareStartup` builds,
and, once, a process that a command of it starts with what it exported. `Chosen`,
`ResolveProviderAPI`, `resolveActProtocol` and `ValidateRequestOptions` are
operators; `Startup(i)` puts together what the several callees make of input `i`.
A model name stands for the models no classifier tells apart. `MCFrontend` puts the
two together as one clnkr, from its flags to its loop.

**SessionStore** has any number of calls of `SaveSession`, one load, and a file
system: `dir` is what processes see, `durable` the names the disk holds,
`flushed` the files it holds. A power failure keeps any set of names between
`durable` and `dir`, and any state of unsynced files. `os.ReadDir` is two
actions: a name linked in between may be listed or not. `MCSessionStore` adds
the symmetry of the saving calls, which no definition tells apart.

**StoredSessions** is the promise of that store without files, names, clock or sync:
saves are acknowledged and stay, a load lists what was stored when it began and has a
newest session in front. `SessionStore` implements it (`ImplementsStore`): `stored`
is mapped to the acknowledged sessions that are whole behind a name.

Definitions whose comment begins with "Faulty variant" are mutations of the
definition that follows them; no specification uses them. They show that the
property they are listed with can fail.

## The runs

| Run | What it shows | States |
|---|---|---|
| `run_policy` | `BudgetRespected` and `TurnBound` for the loop, and that runs end (`FullSendEnds`, `CancelledRunEnds`) | 162,066 |
| `agent_run` | pairing of calls and results (`CallsAnswered`, `ResultsOwned`, `BatchOutcomes`), the cwd the model was told is the one that is used (`StateCurrent`), compaction as the only rewrite, requests that pair calls and results as the provider demands | 1,166,883 |
| `shell_exec` | the executor implements `Command`; a killed shell leaves no group; the result comes (`CommandReturns`) | 24,665 |
| `clnkrd` | runs do not leak into one another or past the save (`NothingOutlivesRun`), replies are honoured, every end is reported, SIGINT, shutdown and end of input end the process (the first two except where a shutdown waits for a read that outlives the close of stdin) | 258,698 |
| `repl` | one run at a time uses the agent though runs are abandoned, a clean prompt, SIGINT always brings the prompt back and ends what it interrupted | 82,875 |
| `model_query` | schemas and parsers agree (`SchemaAccepted`), accepted turns survive the transcript (`CanonicalStable`), no half accepted answers, retries within their bound and all of it, cancellation ends every wait | 265,512 |
| `frontend` | prompt, client and agent follow one act protocol, the metadata is what is sent, a nested clnkr starts with the same provider; then, in the loop, one renderer at a time, a free line where the human types, a `Stop` that returns | 155,646 |
| `session_store` | `WholeSessions`, and that the store implements `StoredSessions` under kills and power failures | 644,602 (symmetry) |

Four runs restate what the documentation says and the code does not do,
and in each TLC finds the disagreement:

- `clnkrd_next_run`: after `done` the next prompt may still be refused, which
  ends the process; the event is sent before the goroutine has returned.
- `clnkrd_shutdown`: after `shutdown` the loop waits for its reader (`main.go:321`).
  Where closing stdin does not end the read that is under way, the process stays until
  the client closes its end, and SIGINT does not end it: that wait does not look at
  the context. `InterruptExits` and `PoliteClientCanEnd` show that it is the only such
  wait (`StuckInRead`), and that the end of stdin always ends the process. The test
  of a shutdown without the end of input has an `io.Pipe`, whose close ends the read.
- `repl_stale_request`: after SIGINT the approval request of the abandoned run is
  printed under the next prompt, and its answer goes to the request of the new
  run, which was not shown.
- `shell_survivor`: a command that is cancelled between the end of bash and the end
  of its output is reported as cancelled without a kill, so a child in its process
  group lives on. `StoppedGroupDies` shows that a shell that was still running takes
  its group with it.

### What the model shows of the code besides

These are consequences of the code as it is. They contradict no comment or
document, or only a reading of one, and no property is stated against them.

- An approval that is cancelled leaves the turn's tool calls without results
  (`run_policy.go:147`); `CallsAnswered` and `RequestPaired` exempt such a turn, so
  that no property catches it.
- The tail kept by compaction may start at a message of the host: resource blocks
  and gate guidance count as user-authored (`compact.go:53`).
- Refused replies written to clnkrd without waiting can fill the channel while the
  loop waits in `Reply` (`main.go:439`). `PoliteClientCanEnd` shows that this does not
  happen to a client that waits its turn.
- An abandoned run may start the indicator after main has stopped it, and the text
  stays over the prompt until the next driver event; `LineFree` speaks of runs that
  were not interrupted. A `Start` that comes while a `Stop` waits is lost.
- A nested clnkr that overrides only the provider or the model inherits the resolved
  base URL and act protocol of the one around it, and may fail with them.
  `NestedSame` is about one that overrides nothing.
- A command that leaves a child on its output and exits with zero after more than
  `WaitDelay` is reported as an error (`ErrWaitDelay`). A command that removes its
  state file is reported as an error whatever its exit status (`executor.go:93`).
- git is asked without a context before and after a command; where it hangs,
  cancellation does not end it (`gitfeedback/git.go:99`).
- A question or summary of nothing but white space: `turnFromProviderPayload`
  compares with the empty string and accepts it, `CanonicalTurnJSON` trims and
  refuses it, so the query ends with an error where `clnkr.7` promises a protocol
  correction. `FromTurn` models it.
- The entry of a new project directory in its parent is not synced
  (`session.go:111`); the promise of the store holds from when it reached the disk
  (`PowerTakesHome` is the other case). A newest file that cannot be decoded makes
  `--continue` fail for good; `WholeSessions` shows that the store makes none.

### Bounds

- `MaxSteps = 5`, `MaxBatch = 3`: batches that fit, that are cut, and that meet
  the limit exactly; all three pressure levels occur; two batches and a failed
  one fit in a run. `MaxReplies` bounds human answers, which nothing in the code
  does. The proofs remove these bounds.
- `MaxMessages = 8`, `MaxCalls = 6` in `AgentRun`: no query starts beyond eight
  messages. Two turns with calls, a compaction with `KeepRecentTurns = 2` and a
  resume fit; the boundary falls on every kind of message.
- `Children` in `ShellExec` has every kind of process that matters to kill or
  output. One child at a time: several differ only in when the last of a kind ends.
- `EventCap = 2` stands for 16. What matters is a channel that fills while its
  reader is elsewhere; two slots hold an event of an earlier request next to a
  newer one.
- `MaxLines = 4` in `Clnkrd`: prompt, reply, reply and one more, the reader being
  one line ahead. The reader's channel has its real capacity of one. The proofs
  remove this bound and that of the channel.
- `MaxRuns = 2`, `MaxPrompts = 3`, `MaxInterrupts = 1` in `Repl`: an abandoned
  run next to one that is refused and one that comes after it. A second SIGINT
  during the second run would only abandon that one as well.
- `MaxRuns = 2` in `WaitIndicator`: an abandoned run beside the next, and three
  callers of `Stop` at once. Events of a run are a set of at most one of each kind, and
  of compactions at most one waits.
- `LoopInputs` in `MCFrontend`: the loop is explored behind one start, and a command
  starts a clnkr only before anything was typed. Neither reads what the other writes.
- `maxAttempts = 3` in `ModelQuery` (5 in the code): a first, a middle and a last
  request. Bodies have at most two calls and two blocks of text: one good and one
  unusable call occur in both orders.
- `MCInputs` in `MCFrontend` is three products: every source of provider, api, model and
  protocol with plain options; every option with every class of model; base URLs,
  keys and modes. The proofs hold for every set of inputs.
- Three saves, `MaxTime = 2`, `MaxSeq = 2` (1000 in the code) in `SessionStore`:
  two calls that share an instant, a third that finds no free name, one that
  comes later. The clock never goes back; a wall clock that is set back makes an
  older instant the newest name, and the promise says nothing then.

Deadlock is checked in `run_policy`, `clnkrd`, `clnkrd_next_run`, `clnkrd_shutdown`,
`shell_exec`, `shell_survivor` and `frontend`, where a process that is over or sits at
its prompt may rest. It is off in `agent_run`, where the bounds stop
the model; in `model_query`, which ends when the query has what it wanted; in `repl`
and `repl_stale_request`, where the loop may rest at a prompt nobody types at once the
prompts are used up; and in `session_store`, where all calls may have returned.

### Fairness

- Runs: weak fairness of the model's and the host's steps together. HTTP clients
  time out after 240 s (`anthropic.go:79`, `openai.go:48`,
  `openairesponses.go:59`) and every call takes the context, so a query returns.
  Commands are assumed to end. A human owes no answer, and nobody must cancel.
- `ShellExec`: weak fairness of the calling goroutine, its timer included, and of the
  goroutine that kills. Nothing is owed by the command, by what it leaves in the
  background, or by git: `CommandReturns` begins when the context is done or bash
  has ended, and not within a question to git.
- `Clnkrd`: weak fairness of the reader, of the main goroutine and of the run
  goroutine: a goroutine that can run does. None for the client and the signal, so a
  read that outlives the close of stdin need never end.
- `Repl`: the same, and strong fairness of the select branches on the context,
  since Go picks among the ready cases at random, and of blocked senders, since
  a channel serves them in turn. With one run at a time `Clnkrd` does not need
  it.
- `WaitIndicator`: weak fairness of each step of `Stop` and of drawing, and strong
  fairness of the branch of `select` on a closed stop channel, again since Go picks
  at random. None for the runs and the human.
- `ModelQuery`: weak fairness of what the client does by itself, and of the failure
  of a request whose context is done, which `net/http` guarantees. None for the
  server, nor for a timer, which `Retry-After` may set to any length.
- `SessionStore` and `Startup` have no fairness; they promise safety only.

### Assumed of what is outside

os/exec is modelled as of the Go version in `go.mod` (1.25). SIGKILL takes effect at
once; a process id is not used again while it may still be signalled; writing the
state file does not fail; the output of a command is read within `WaitDelay` once no
process holds the pipe; only the host's own kill interrupts the trap. fsync covers the
file or the directory it is called on, and nothing else.

## The proofs

Each component has an inductive invariant (`IInv`, or as named below), one step per
action that it is preserved, and the theorems that follow. `Spec` needs no fairness in any of them.
The assumptions used are the named ones of the modules, which TLC evaluates in every
run.

| Module | Theorems | For every |
|---|---|---|
| `RunPolicyProofs` | `TypeCorrect`, `BudgetSafe`, `RetriesSafe`, `TurnsBounded`, `RunsShorten`, `CancelledRunsShorten` | budget, batch size, number of human replies |
| `ModelQueryProofs` | `TypeCorrect`, `AllAttempts`, `OverflowOnly`, `WholeAnswers`, `SchemasAccepted`, `AcceptedStable`, `QueriesShorten`, `CancelledQueriesShorten` | number of attempts, set of well-formed wire turns |
| `ShellExecProofs` | `TypeCorrect`, `GroupDies`, `ImplementsCommandAlways` | set of kinds of background process |
| `AgentRunProofs` | `AgentTypeCorrect`, `AgentImplementsLoop`, `DirectoryCurrent`, `EveryCallAnswered`, `EveryResultOwned`, `OutcomesLawful`, `HistoryKept`, `AnthropicPaired`, `ResponsesPaired`, `RequestsPaired` | budget, transcript, batch, set of directories, number of calls, compactions and resumptions |
| `FrontendProofs` | `PromptMatchesAlways`, `MetadataTruthfulAlways`, `NestedSameAlways`; `OneRendererAlways`, `LineFreeAlways` | set of flags and environments; number of runs |
| `SessionStoreProofs` | `TypeCorrect`, `WholeAlways`, `ImplementsStoreAlways` | number of saves, instants, sequence numbers |
| `ReplProofs` | `AgentExclusiveAlways`, `CleanPromptAlways` | number of runs, prompts and interrupts, channel capacity |
| `ClnkrdProofs` | `TypeCorrect`, `NothingOutlivesRunAlways`, `RepliesHonouredAlways`, `EndsReportedAlways` | number of lines and runs, channel capacity |

`RunPolicyProofs`: none of the last three is inductive. `IInv` strengthens them with
what holds inside a turn: a batch being handled is not empty, a finished one has
executed something (so the budget is spent by every act turn), and `protocolErrors`
is zero while a valid turn is handled. For the bound on turns, `9 * (MaxSteps +
replies) + 11`, it adds a potential, `Credit`: an attempt uses up a protocol failure,
a third of a rejection's worth of them, or a ninth of a command's; whatever refills a
retry budget is itself paid for by a command, a challenge or a human answer.
`RetryBudgets` (at the third failure in a row the run gives up) is proved only.

That runs end is liveness, but most of it is not. `RunLeft` is a natural number, zero
only when no run is under way: what the counters have not spent yet, six times, and the
stage of the turn. `RunsShorten` says that every step of a run leaves less, that the end
of its context leaves as much, and that only a reply of the human may leave more; so a
full-send run takes at most `RunLength` steps. `CancelledRunsShorten` counts the steps of
a run whose context is done, seven at most, with a budget or without; the one retry that
does not look at the context is among them. Since `AgentImplementsLoop`, both hold of the
agent as well. What `FullSendEnds` and `CancelledRunEnds` add is that the steps are
taken: this is fairness and ENABLED, and stays with TLC.

`AgentRunProofs` carries all seven properties of `AgentRun` and the refinement to
every transcript. None is inductive: a compaction parts what it parts at a boundary that is
searched from the end, and a batch is answered over several steps. `AgentInv` is the
invariant of the loop, the types, and three more parts:

- `TranscriptInv`, of a history alone: a compact block only at its head, every result
  behind the turn that made its call, and every turn with calls *settled*, that is
  answered by as many results as it has calls, in order and with lawful outcomes, or
  abandoned as the last before an authored message, but for the turn that is open;
- `BatchInv`: while a turn is being handled its results so far are all that follows
  it, and what each says agrees with `executed`, `batch` and `skipped`;
- `DirectoryInv`: the latest state block names the agent's directory whenever no
  command is being handled, and there is one by the time the model is queried.

The first part of the module is about transcripts alone. A history is extended (`Extends`)
or keeps a tail (`SameTail`); the lemmas say what either does to a turn's results, to
the owner of a result and to the latest state block. `BoundaryIs` and `CompactedIs`
say what the search for the boundary and the rewrite come to: the boundary is at an
authored message, so no result and its turn are on two sides of it, and the state
block is kept in front of a tail that has none. The kept tail is filtered, which would
need an induction; but a compact block is only at the head, so the filter takes nothing
from a tail that begins behind it, which needs none (`CompactFirst`). `Recorded` is what
every step does to the history, and `HistoryKept` follows from it. `PolicyStep` maps each
step to the loop's, so `BudgetSafe` and `TurnsBounded` hold of the agent too.

The third part of `AgentRunProofs` is about requests, `RequestPaired`. It needs of the
history, beside what `TranscriptInv` says, that the ids of its calls are all different:
`CallsInv` has this and, to make it inductive, that every id is below `nextCall`. A
compaction drops turns and moves the others together (`CallsFrom`), an act turn alone
takes new ids (`CallsGrow`), every other step appends messages without calls
(`Callless`). The rest says of a `Sendable` transcript, whatever its length, what the two
mappings make of it. A request is a transcript flattened message by message: `FlattenIs`
says which items it has and in which order, and `CountedUp` stands in for the induction
it would take, since the induction theorems of the library cannot be instantiated: a
set of positions that has the first, and with each the next, has the last, or else it
would have a greatest without its successor. `KnownIs` and
`OwnerIs` say which call a result is sent for, `RunIs` which results are merged into one
message; then `AnthropicPaired` and `ResponsesPaired` follow, and with `CallsInv` and
`TranscriptInv`, `RequestsPaired`.

`ModelQueryProofs`: what a query returns depends on its last answer only, so `IInv`
adds that nothing is returned before the query ends, that no old answer is there
while a request is under way, and that a client that repeats nothing never waits. The
rest is about the clients' reading of one answer, which the lemmas `ParsedWhole`,
`ParsedOverflow` and `ParsedMeant` state for each of the three. `ReadInv` ties the
result to that reading, so that schemas and parsers agree (`AllowedAccepted`, for every
wire turn, then `ParsedAllowed` and `ParsedCalls` for every client and mode), and what
was accepted is read back: a parser accepts only what is `Meant`, a turn that has
commands, or a text that says something and evidence that fits its status, and
`MeantBack` reads both written forms of such a turn field by field.
`OnlyOverflowCompacts` (only a server that says the context is too long makes the agent
compact) is proved only. `QueriesShorten` and `CancelledQueriesShorten` count the steps of
a query as those of a run are counted: three for every attempt, and three at most once
its context is done, since a timer may beat the context but no request follows it.

`ShellExecProofs`: the step that matters is `Load`, which reads the context, the error
of `Cmd.Run` and the state file long after they came about. `IInv` carries to it how
they go together: when bash has ended, who may have cut the file, and what each error
says of the status. With it every step is one of `Command` or leaves its variables
alone; this is the refinement, proved for `[Next]_vars` and lifted with PTL.

`FrontendProofs`, of the indicator (`IndicatorInv`): one renderer at a time follows from `Stop` looking again at
`i.done` after its wait, since it knows then that the renderer it waited for has ended.
The free line needs to know who may still call `Start` (`RunInv`) and that, while no
run was interrupted, a `Stop` that has begun leaves nothing else to draw (`Quiet`).

`FrontendProofs`, of startup (`StartupInv`): it says that what is ready was accepted by both passes over the
flags and is `Startup` of them, and that a nested process has the exported environment
of an accepted one. The theorems are then about the operators: what
`ValidateRequestOptions` excludes, and that resolving what was resolved changes nothing.

`SessionStoreProofs`: a name is linked only to a file that was written and synced
(`PublishedInv`), and a power failure spoils only files that were not. That the store
implements its promise needs `RInv`, three more parts. `HeldInv`: a call tries the
names of its instant in order and passes over those that are taken, so what it
acknowledges is on the disk together with the names before it, and no later call can
find one of those free again, not even after a loss of power. `OrderInv`: hence what was
acknowledged when a call began has an older name than the one it gets, on the same
instant too; here the clock must not run backwards. `ListInv`: a load has at least the
names acknowledged when it began. `SortedIs` says of the sorted list that it has every
name once and the newest in front, and `FilesReadGives` that this is an answer the
promise allows; `SaveRefines`, `LoadRefines` and `WorldRefines` map every step.

`ReplProofs`: the run that uses the agent holds the driver's flag, there is one such
run, and every run but the one the loop waits for has been cancelled. A run that was
turned away by the flag must not give it back, which is why the place in the run
(`emitBusy`, `returnBusy`) is part of it. `CleanPrompt` rests on `CleanInv`: while no
Ctrl-C came and requests can be answered, only the loop's run is active, its context is
not done, and it alone holds the flag and the request (`ActiveInv`, `HeldInv`); a
request is the last event until it is answered, so when the loop has printed it the run
is waiting, the reply cannot come too late or be refused, and no request is left among
the events that are drained behind a result (`RequestInv`). That a run in full-send mode
never asks is why the end of stdin does not matter there.

`ClnkrdProofs`: only the run the loop knows of is active, without a result, and it alone
holds the flag and the request (`OneRun`); a run is forgotten only with its result in
hand and the channel drained (`Over`). Hence no run is ever refused in clnkrd.
For the client's two properties `ServedInv` adds `PoliteInv`, what a client that writes
only what its view calls for can rely on while the loop serves it: at most one line that
asks for something is on its way (`LineInv`); while it is, the run it was written for
stays as it was, finished or waiting, and the channel of events stays empty; what the
client has read is the latest of what the run did (`ViewInv`); nothing follows a run's
last event, nor a request that is unanswered (`EventInv`); and a run that ended well has
said so (`ToldInv`).

Every safety property and every refinement that a passing run checks is a theorem.
Only model-checked is liveness: `FullSendEnds`, `CancelledRunEnds`, `CancelledQueryEnds`,
`CommandReturns`, `StopReturns`, `InterruptExits`, `PoliteClientCanEnd` and
`InterruptsEnd`. They rest on fairness and ENABLED, which the prover does not do; of the
first three, the part that does not is proved.

## Not modelled

- The text of messages, prompts and diffs, the repair of escaped JSON text, the
  wording of git feedback; the opaque items the Responses API wants back, token usage,
  URLs and headers. No property tells them apart.
- Flag parsing, help, event logging, program status and the drawing of the indicator's
  text: output without state.
- The save beside an abandoned run at exit (`cmd/clnkr/main.go:648`): it reads
  `Agent.messages` without synchronisation, to which the Go memory model gives no
  outcome a model could choose from. The SIGINT between two `NotifyContext`
  (`main.go:700`): no handler of the code runs in that window.
- In `RunPolicy` and `AgentRun` a query may fail at any time; `ModelQuery` says when it
  does, and is not composed with them. Neither is `Driver`, whose runs are abstract,
  with `RunPolicy`: the product is too large for TLC.

## Plan

Done, in this order: the run loop and its proofs; the transcript and the agent;
the driver with clnkrd; clnkr's loop; the session store; turns, queries and the
mapping of transcripts to requests, with the proofs about queries; the shell executor
with the abstract command that the agent builds on; the indicator; startup; the
promise of the store as a refinement; proofs for all of these and for both frontends; that the
store implements its promise; the transcript and the agent, for every history; the
client of clnkrd and the prompts of clnkr, for every number of lines; schemas and
parsers, for every wire turn; requests, for every transcript; the length of a run and of a
query, for every budget.

Left undone: `RunSpec`, an abstract run (asks, acts, ends) that `RunPolicy` and the run
goroutine of `Driver` would both implement. All the two have in common is that a run asks
in approval mode only and that a run which asks is left by an answer or by its context;
`RepliesHonoured` and `CleanPrompt` say more than that of the frontends. Nor are the
steps of the other components counted that have to end: a command, a `Stop`, the frontends'
loops.
