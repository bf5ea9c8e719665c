------------------------------ MODULE AgentRun ------------------------------
(***************************************************************************)
(* One agent (agent.go, act_turn_executor.go) over several runs of its     *)
(* loop: every action of RunPolicy together with what it does to the       *)
(* transcript, the working directory and the shell environment.  Between   *)
(* runs the frontend may compact the transcript or end the process and     *)
(* continue the saved session in a new one.                                *)
(***************************************************************************)
EXTENDS RunPolicy, ProviderMessages, Outcomes

CONSTANTS
  StartCwd,       \* working directory the process starts in
  NoEnv,          \* no environment snapshot captured yet
  CutEnv,         \* a snapshot that misses variables, and every later one
  ActProtocols,   \* act protocols to consider
  MaxMessages,    \* bound: transcript length beyond which no query starts
  MaxCalls        \* bound: tool calls the model makes in all runs

ASSUME StartCwdAssumption == StartCwd \in Cwds
ASSUME EnvAssumption      == NoEnv \notin Cwds /\ CutEnv \notin Cwds \cup {NoEnv}
ASSUME ProtocolAssumption == ActProtocols \subseteq {"tool-calls", "clnkr-inline"}
ASSUME MaxMessagesAssumption == MaxMessages \in Nat /\ MaxCalls \in Nat

VARIABLES
  actProtocol,   \* Agent.ActProtocol, chosen when the process starts
  messages,      \* Agent.messages
  cwd,           \* Agent.cwd
  env,           \* Agent.env: the snapshot of the shell that ended in that cwd
  nextCall       \* tool call ids are unique: the next one the model uses

agentVars == <<actProtocol, messages, cwd, env, nextCall>>
shellVars == <<cwd, env>>
vars == <<policyVars, agentVars>>

KeepRecentTurns == 2

-----------------------------------------------------------------------------
(* Transcript updates of agent.go *)

ResourceNow(used, turns) ==
  Resource(used, turns, IF resourcePressureGuidanceDue(used)
                        THEN commandBudgetPressure(used) ELSE "normal")

\* runStepAttempt and the start of Step, from a transcript and a directory.
Prepared(ms, dir) ==
  appendResourceStateMessage(appendStateMessageIfNeeded(ms, dir),
                             ResourceNow(commandsUsed, modelTurns))

CanCompact == FindCompactBoundary(messages, KeepRecentTurns) # 0

Compacted == RewriteForCompaction(messages, KeepRecentTurns)

\* Faulty variant: trusts the transcript to hold a directory.
RestoredCwdUnchecked(ms) == ExtractLatestCwd(ms)

\* restoreExecutionStateFromMessages
RestoredCwd(ms) == IF ExtractLatestCwd(ms) = NoCwd THEN cwd ELSE ExtractLatestCwd(ms)

Say(ms)  == messages' = messages \o ms /\ UNCHANGED <<shellVars, nextCall, actProtocol>>
Silently == UNCHANGED agentVars

\* Agent.Compact succeeds: messages and directory are rewritten together.
RewriteMessages ==
  /\ CanCompact
  /\ messages' = Compacted
  /\ cwd' = RestoredCwd(Compacted)
  /\ UNCHANGED <<env, nextCall, actProtocol>>

LatestTurn == Latest(Where(messages, LAMBDA m : m.kind = "turn"))

\* The tool call ids of the act turn being handled, none in clnkr-inline.
Calls == messages[LatestTurn].calls

\* appendSkippedToolResult for the i-th to the j-th action of that turn.
SkippedResults(i, j, why) ==
  IF Calls = <<>> THEN <<>> ELSE [k \in 1 .. (j - i + 1) |-> Result(Calls[i + k - 1], why)]

-----------------------------------------------------------------------------

AgentInit ==
  /\ Init
  /\ actProtocol \in ActProtocols
  /\ messages = <<>> /\ cwd = StartCwd /\ env = NoEnv /\ nextCall = 1

StartTask(m) ==
  /\ StartRun(m) /\ Len(messages) + 2 < MaxMessages
  /\ Say(<<Plain("task")>>)

\* /compact at the prompt, or the compact command of clnkrd.
CompactCommand ==
  /\ pc = "idle"
  /\ RewriteMessages
  /\ UNCHANGED policyVars

\* The process ends; another one resumes the saved session (AddMessages).
Resume ==
  /\ pc = "idle" /\ messages # <<>>
  /\ cwd' = IF ExtractLatestCwd(messages) = NoCwd THEN StartCwd ELSE ExtractLatestCwd(messages)
  /\ env' = NoEnv /\ actProtocol' \in ActProtocols
  /\ UNCHANGED <<policyVars, messages, nextCall>>

AgentAttempt ==
  /\ Attempt /\ Len(messages) < MaxMessages
  /\ messages' = Prepared(messages, cwd)
  /\ UNCHANGED <<shellVars, nextCall, actProtocol>>

AgentQueryFails == (QueryFails \/ QueryTooLong) /\ Silently

AgentBackstopRetries ==
  /\ BackstopRetries /\ CanCompact
  /\ cwd' = RestoredCwd(Compacted)
  /\ messages' = Prepared(Compacted, RestoredCwd(Compacted))
  /\ UNCHANGED <<env, nextCall, actProtocol>>

\* Nothing to compact, no summary, or the context done after the rewrite.
AgentBackstopFails ==
  /\ BackstopFails \/ FinalCompactFails
  /\ Silently \/ (cancelled /\ RewriteMessages)

AgentProtocolFailure ==
  HandleProtocolFailure /\ Say(<<Malformed, Plain("correction")>>)

AgentDone(d) ==
  \/ DoneAccepted(d) /\ Say(<<Turn(<<>>)>>)
  \/ /\ DoneRejected(d) \/ DoneChallenged(d)
     /\ Say(IF pc' = "loop" THEN <<Turn(<<>>), Plain("guidance")>> ELSE <<Turn(<<>>)>>)

AgentClarify ==
  \/ ClarifyTurn /\ Say(<<Turn(<<>>)>>)
  \/ ClarifyAnswered /\ Say(<<Plain("reply")>>)

AgentActTurn(n) ==
  /\ ActTurn(n)
  /\ LET ids == IF actProtocol = "tool-calls"
                THEN [k \in 1 .. n |-> nextCall + k - 1] ELSE <<>>
     IN  /\ nextCall + Len(ids) <= MaxCalls + 1
         /\ messages' = Append(messages, Turn(ids))
         /\ nextCall' = nextCall + Len(ids)
  /\ UNCHANGED <<shellVars, actProtocol>>

\* Faulty variant: answers only the commands that were proposed, not the ones
\* the step limit had already cut off.
AgentActRejectedShort ==
  /\ ActRejected
  /\ Say(IF Calls = <<>> THEN <<Plain("reply")>> ELSE SkippedResults(1, batch, "denied"))

\* RejectTurn: a denied result per tool call, or the reply as a message.
AgentActRejected ==
  /\ ActRejected
  /\ Say(IF Calls = <<>> THEN <<Plain("reply")>>
         ELSE SkippedResults(1, batch + skipped, "denied"))

\* The result of the next command of the batch, with the skips a failure
\* causes.
CommandResults(ok) ==
  LET id == IF Calls = <<>> THEN 0 ELSE Calls[executed + 1]
  IN  <<Result(id, IF ok THEN "ok" ELSE "failed")>>
        \o (IF ok THEN <<>> ELSE SkippedResults(executed + 2, batch, "skippedFailed"))

\* applyPostCommandState: the directory dir and the environment of the shell
\* that ended, if it left a snapshot.  A shell that began with an environment
\* cut short cannot report more than that.
NextEnv(snapshot, dir) ==
  CASE snapshot = "none"                  -> env
    [] snapshot = "cut" \/ env = CutEnv   -> CutEnv
    [] OTHER                              -> dir

\* Faulty variant: the environment snapshot is kept, its directory is not.
AgentExecuteForgettingCwd(ok, snapshot, dir) ==
  /\ ExecuteCommand(ok)
  /\ <<IF cancelled THEN "canceled" ELSE "live", ok, snapshot>> \in Reported
  /\ messages' = messages \o CommandResults(ok)
  /\ env' = NextEnv(snapshot, dir)
  /\ UNCHANGED <<cwd, nextCall, actProtocol>>

AgentExecute(ok, snapshot, dir) ==
  /\ ExecuteCommand(ok)
  /\ <<IF cancelled THEN "canceled" ELSE "live", ok, snapshot>> \in Reported
  /\ messages' = messages \o CommandResults(ok)
  /\ cwd' = IF snapshot = "none" THEN cwd ELSE dir
  /\ env' = NextEnv(snapshot, dir)
  /\ UNCHANGED <<nextCall, actProtocol>>

\* The transcript after a batch: skips for the commands beyond the step limit
\* and the new state; at the limit also the request for the final summary.
AfterBatch(why) ==
  LET ended == appendStateMessageIfNeeded(
                 messages \o SkippedResults(batch + 1, batch + skipped, why), cwd)
  IN  IF BudgetSpent
      THEN Append(appendResourceStateMessage(ended,
                    ResourceNow(commandsUsed + executed, modelTurns)),
                  Plain("stepLimit"))
      ELSE ended

\* Faulty variant: gives the wrong reason for commands beyond the step limit.
AgentFinishActMislabels ==
  /\ FinishAct /\ messages' = AfterBatch("skippedFailed")
  /\ UNCHANGED <<shellVars, nextCall, actProtocol>>

AgentFinishAct ==
  /\ FinishAct /\ messages' = AfterBatch("skippedMax")
  /\ UNCHANGED <<shellVars, nextCall, actProtocol>>

AgentFinal ==
  \/ FinalDone /\ Say(<<Turn(<<>>)>>)
  \/ FinalFails /\ (Silently \/ Say(<<Malformed>>))
  \/ FinalTooLong /\ Silently
  \/ FinalRetries /\ RewriteMessages

AgentWaits == (Cancel \/ LoopCancelled \/ PolicyFails \/ ActApproved) /\ Silently

AgentNext ==
  \/ \E m \in Modes : StartTask(m)
  \/ CompactCommand \/ Resume
  \/ AgentAttempt \/ AgentQueryFails \/ AgentBackstopRetries \/ AgentBackstopFails
  \/ AgentProtocolFailure \/ AgentClarify \/ AgentFinal
  \/ \E d \in DoneTurns : AgentDone(d)
  \/ \E n \in 1 .. MaxBatch : AgentActTurn(n)
  \/ AgentActRejected \/ AgentWaits \/ AgentFinishAct
  \/ \E ok \in BOOLEAN, snapshot \in Snapshots, dir \in Cwds :
       AgentExecute(ok, snapshot, dir)

AgentSpec == AgentInit /\ [][AgentNext]_vars

-----------------------------------------------------------------------------
(* Properties *)

\* The agent's fields and its messages have the types of agent.go.
AgentTypeOK ==
  /\ TypeOK
  /\ actProtocol \in ActProtocols
  /\ messages \in Seq(Message)
  /\ cwd \in Cwds /\ env \in Cwds \cup {NoEnv, CutEnv} /\ nextCall \in Nat \ {0}

Querying == pc \in {"query", "final"}

IsTurnWithCalls(ms, i) == ms[i].kind = "turn" /\ ms[i].calls # <<>>

\* The k-th call of turn i is answered where a provider expects it.
CallAnswered(ms, i, k) ==
  i + k <= Len(ms) /\ ms[i + k].kind = "result" /\ ms[i + k].id = ms[i].calls[k]

TurnAnswered(ms, i) == \A k \in 1 .. Len(ms[i].calls) : CallAnswered(ms, i, k)

\* Its run died waiting for approval.
TurnAbandoned(ms, i) == i < Len(ms) /\ ms[i + 1].kind = "task"

\* Result j answers a call of an earlier turn, with only answers in between.
ResultOwned(ms, j) ==
  \E i \in 1 .. (j - 1) :
    /\ IsTurnWithCalls(ms, i) /\ j - i <= Len(ms[i].calls)
    /\ \A k \in 1 .. (j - i) : CallAnswered(ms, i, k)

OutcomesOf(ms, i) == [k \in 1 .. Len(ms[i].calls) |-> ms[i + k].outcome]

\* All denied, or successes, then at most one failure, then only skips.
InOrder(o) ==
  /\ \A j, k \in DOMAIN o : o[j] = "denied" => o[k] = "denied"
  /\ \A j, k \in DOMAIN o : j < k /\ o[k] \in {"ok", "failed"} => o[j] = "ok"
  /\ \A k \in DOMAIN o : o[k] = "skippedFailed" => \E j \in 1 .. k : o[j] = "failed"

\* Whenever the model is queried, the directory it has been told last is the
\* one the next command runs in: also after a compaction, a failed batch, a
\* cancelled run or a resumed session.  Directory and environment always come
\* from the same shell.
StateCurrent ==
  /\ Querying => ExtractLatestCwd(messages) = cwd
  /\ env \in {NoEnv, CutEnv, cwd}

\* Whenever the loop goes round or queries, each tool call has been answered
\* exactly once, in order, right after its turn; the one exception is a run
\* that died waiting for approval, whose turn is followed by the next task.
CallsAnswered ==
  pc = "loop" \/ Querying =>
    \A i \in DOMAIN messages : IsTurnWithCalls(messages, i) =>
      TurnAnswered(messages, i) \/ TurnAbandoned(messages, i)

\* A tool result is never in the transcript without its call: compaction does
\* not cut between a turn and its results.
ResultsOwned ==
  \A j \in DOMAIN messages : messages[j].kind = "result" /\ messages[j].id # 0 =>
    ResultOwned(messages, j)

\* What a provider is sent pairs calls and results, whatever a compaction, a
\* resumption or another protocol left in the transcript.  For anthropic the
\* results of a turn are one message right after it, or are not there at all;
\* for the Responses API each output follows its call, and comes once.
RequestPaired ==
  pc = "query" /\ actProtocol = "tool-calls" =>
    LET sent  == AnthropicMessages(messages)
        items == ResponsesItems(messages)
    IN  /\ \A i \in DOMAIN sent :
             /\ sent[i].results # <<>> => i > 1 /\ sent[i - 1].uses = sent[i].results
             /\ sent[i].uses # <<>> =>
                  /\ i < Len(sent) /\ sent[i + 1].role = "user"
                  /\ sent[i + 1].results \in {sent[i].uses, <<>>}
        /\ \A j \in DOMAIN items : items[j].results # <<>> =>
             /\ \E i \in 1 .. (j - 1) : items[i].uses = items[j].results
             /\ \A i \in 1 .. (j - 1) : items[i].results # items[j].results

\* The outcomes of a batch: all denied, or successes, then at most one
\* failure, then only skips that name the right reason.
BatchOutcomes ==
  \A i \in DOMAIN messages :
    IsTurnWithCalls(messages, i) /\ TurnAnswered(messages, i) =>
      InOrder(OutcomesOf(messages, i))

IsExtension(new, old) ==
  Len(new) >= Len(old) /\ SubSeq(new, 1, Len(old)) = old

\* What a compaction does: it puts one summary block in front of an unchanged
\* tail that holds at least two authored messages, and keeps the directory the
\* model was told last.
CompactionRewrites ==
  /\ pc \in {"idle", "compact", "finalCompact"}
  /\ messages'[1] = Plain("compact")
  /\ \A i \in 2 .. Len(messages') : messages'[i] # Plain("compact")
  /\ ExtractLatestCwd(messages') = ExtractLatestCwd(messages)
  /\ \E b \in DOMAIN messages : \E n \in {2, 3} :
       /\ IsExtension(SubSeq(messages', n, Len(messages')),
                      SubSeq(messages, b, Len(messages)))
       /\ Cardinality({i \in b .. Len(messages) :
                         isUserAuthoredMessage(messages[i])}) >= 2

\* History is append-only but for compaction.
OnlyCompactionRewrites ==
  [][IsExtension(messages', messages) \/ CompactionRewrites]_messages
=============================================================================
