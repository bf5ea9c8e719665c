-------------------------------- MODULE Clnkrd --------------------------------
(***************************************************************************)
(* clnkrd's JSONL loop (cmd/clnkrd/main.go): a reader goroutine that       *)
(* decodes stdin into a channel of capacity one, the main goroutine that   *)
(* selects between commands, driver events, the end of the run and the     *)
(* context, and the run goroutine of Driver.  The client is whoever holds  *)
(* the other ends of stdin and stdout.                                     *)
(***************************************************************************)
EXTENDS Driver

CONSTANT MaxLines   \* bound: lines the client writes

ASSUME LinesAssumption == MaxLines \in Nat

VARIABLES
  readerPc,      \* "scan", "send" or "done", which closes inputs
  held,          \* the decoded line the reader is sending
  inputs,        \* the channel of lines
  mainPc,        \* where the main goroutine is
  run,           \* the run the loop knows of, NoRun for nil
  inputsClosed,  \* end of stdin seen, inputs = nil
  ctxDone,       \* runJSONL's context is cancelled
  interrupted,   \* by SIGINT, as opposed to by runJSONL itself
  stdin,         \* "open"; closed by runJSONL, on shutdown; or "closedInRead"
  exitCode,
  lines,         \* lines written so far
  view,          \* what the client knows from its own lines and the output
  refused        \* the kind of command runJSONL failed on for its timing

readerVars == <<readerPc, held, stdin>>
loopVars   == <<mainPc, run, inputsClosed, exitCode, refused>>
clientVars == <<lines, view>>
vars == <<driverVars, readerVars, inputs, loopVars, ctxDone, interrupted,
          clientVars>>

Lines == RunModes \cup Replies \cup {"shutdown", "bad"}

(***************************************************************************)
(* The client's view: nothing is running, a run is, a request is           *)
(* unanswered.  A client that writes a run command or a reply when its     *)
(* view does not call for one, or a bad line, is "rude" for good.          *)
(***************************************************************************)
Views == {"idle", "running", "asked", "rude"}

ViewAfterWriting(line) ==
  CASE line \in RunModes /\ view = "idle"  -> "running"
    [] line \in Replies  /\ view = "asked" -> "running"
    [] line = "shutdown" -> view
    [] OTHER -> "rude"

\* The view after the loop wrote these events.
ViewAfterSeeing(evs) ==
  IF evs = <<>> \/ view = "rude" THEN view
  ELSE [request |-> "asked", refusal |-> "running", compacted |-> "running",
        compaction |-> "idle", done |-> "idle", error |-> "idle"][evs[Len(evs)].kind]

Init ==
  /\ DriverInit
  /\ readerPc = "scan" /\ held = "bad" /\ inputs = <<>> /\ stdin = "open"
  /\ mainPc = "select" /\ run = NoRun /\ inputsClosed = FALSE /\ exitCode = "none"
  /\ ctxDone = FALSE /\ interrupted = FALSE
  /\ lines = 0 /\ view = "idle" /\ refused = "none"

-----------------------------------------------------------------------------
(* The client and the reader goroutine *)

CanRead == readerPc = "scan" /\ stdin # "closed"

\* The scanner returns a line the client wrote, "bad" if it does not decode or
\* is too long.  A pipe between the two would delay lines, not reorder them.
ClientWrites(line) ==
  /\ CanRead /\ lines < MaxLines
  /\ lines' = lines + 1 /\ view' = ViewAfterWriting(line)
  /\ held' = line /\ readerPc' = "send"
  /\ UNCHANGED <<driverVars, stdin, inputs, loopVars, ctxDone,
                 interrupted>>

ClientClosesStdin ==
  /\ CanRead
  /\ readerPc' = "done"
  /\ UNCHANGED <<driverVars, held, stdin, inputs, loopVars, ctxDone,
                 interrupted, clientVars>>

ReaderSends ==
  /\ readerPc = "send" /\ inputs = <<>>
  /\ inputs' = <<held>> /\ held' = "bad"
  /\ readerPc' = IF stdin = "open" THEN "scan" ELSE "done"
  /\ UNCHANGED <<driverVars, stdin, loopVars, ctxDone, interrupted,
                 clientVars>>

ReaderGivesUp ==
  /\ \/ readerPc = "send" /\ ctxDone
     \/ readerPc = "scan" /\ stdin = "closed"
  /\ readerPc' = "done" /\ held' = "bad"
  /\ UNCHANGED <<driverVars, stdin, inputs, loopVars, ctxDone,
                 interrupted, clientVars>>

\* SIGINT: signal.NotifyContext cancels the context every run descends from.
Interrupt ==
  /\ ~interrupted
  /\ interrupted' = TRUE /\ ctxDone' = TRUE /\ runs' = Cancelled({run})
  /\ UNCHANGED <<running, events, requestVars, readerVars, inputs, loopVars,
                 clientVars>>

-----------------------------------------------------------------------------
(* The main goroutine: ways out *)

Exit(code) == mainPc' = "exited" /\ exitCode' = code

ErrorCode == IF interrupted THEN "130" ELSE "1"

cancelRun == runs' = Cancelled({run})

\* fail: cancel the run and wait for it.
Fail == mainPc' = "failing" /\ UNCHANGED exitCode /\ cancelRun

\* The goroutine of the active run returned, if there is one.
RunJoined == run # NoRun => runs[run].done # "none"

\* drainDriverEvents: writes what is in the channel, or fails to write some of
\* it and is never called again.
Drain(written) ==
  /\ written \/ events # <<>>
  /\ events' = <<>>
  /\ view' = IF written THEN ViewAfterSeeing(events) ELSE view

FailReturns ==
  /\ mainPc = "failing" /\ RunJoined
  /\ Exit(ErrorCode) /\ Drain(TRUE)
  /\ UNCHANGED <<runs, running, requestVars, readerVars, inputs, run,
                 inputsClosed, refused, ctxDone, interrupted, lines>>

ShutdownJoinsRun(written) ==
  /\ mainPc = "shutdown" /\ RunJoined
  /\ Drain(written)
  /\ IF written THEN mainPc' = "joinReader" /\ UNCHANGED exitCode
     ELSE Exit(ErrorCode)
  /\ UNCHANGED <<runs, running, requestVars, readerVars, inputs, run,
                 inputsClosed, refused, ctxDone, interrupted, lines>>

ShutdownReturns ==
  /\ mainPc = "joinReader" /\ readerPc = "done"
  /\ Exit("0")
  /\ UNCHANGED <<driverVars, readerVars, inputs, run, inputsClosed, refused,
                 ctxDone, interrupted, clientVars>>

-----------------------------------------------------------------------------
(* The main goroutine: select *)

Selecting == mainPc = "select" /\ (~inputsClosed \/ run # NoRun)

\* Faulty variant: the end of stdin ends the loop, run or no run.
LoopEndsAtEof ==
  /\ mainPc = "select" /\ inputsClosed
  /\ Exit("0")
  /\ UNCHANGED <<driverVars, readerVars, inputs, run, inputsClosed, refused,
                 ctxDone, interrupted, clientVars>>

LoopEnds ==
  /\ mainPc = "select" /\ inputsClosed /\ run = NoRun
  /\ Exit("0")
  /\ UNCHANGED <<driverVars, readerVars, inputs, run, inputsClosed, refused,
                 ctxDone, interrupted, clientVars>>

InputsEnd ==
  /\ Selecting /\ ~inputsClosed /\ readerPc = "done" /\ inputs = <<>>
  /\ inputsClosed' = TRUE
  /\ IF pending # NoRun THEN cancelRun ELSE UNCHANGED runs
  /\ UNCHANGED <<running, events, requestVars, readerVars, inputs, mainPc,
                 run, exitCode, refused, ctxDone, interrupted, clientVars>>

Wrote == events' = Tail(events) /\ view' = ViewAfterSeeing(<<Head(events)>>)

\* Faulty variant: a request that comes up after the end of stdin is left
\* waiting.
WriteEventOnly(written) ==
  /\ Selecting /\ events # <<>>
  /\ IF written
     THEN Wrote /\ UNCHANGED <<mainPc, exitCode, runs>>
     ELSE Fail /\ events' = Tail(events) /\ UNCHANGED view
  /\ UNCHANGED <<running, requestVars, readerVars, inputs, run, inputsClosed,
                 refused, ctxDone, interrupted, lines>>

WriteEvent(written) ==
  /\ Selecting /\ events # <<>>
  /\ IF written
     THEN /\ Wrote
          /\ IF inputsClosed /\ pending # NoRun THEN cancelRun ELSE UNCHANGED runs
          /\ UNCHANGED <<mainPc, exitCode>>
     ELSE Fail /\ events' = Tail(events) /\ UNCHANGED view
  /\ UNCHANGED <<running, requestVars, readerVars, inputs, run, inputsClosed,
                 refused, ctxDone, interrupted, lines>>

CtxDone ==
  /\ Selecting /\ ctxDone
  /\ Fail
  /\ UNCHANGED <<running, events, requestVars, readerVars, inputs, run,
                 inputsClosed, refused, ctxDone, interrupted, clientVars>>

RunEnded == run # NoRun /\ runs[run].done # "none"

\* Faulty variant: does not drain the events the run left behind.
RunEndsUndrained(written) ==
  /\ Selecting /\ RunEnded
  /\ run' = NoRun /\ TakeResult(run)
  /\ IF runs[run].done = "ok" THEN UNCHANGED <<mainPc, exitCode>> ELSE Exit(ErrorCode)
  /\ UNCHANGED <<running, events, requestVars, readerVars, inputs,
                 inputsClosed, refused, ctxDone, interrupted, clientVars>>

\* The run is over: an error of its own ends the process.
RunEnds(written) ==
  /\ Selecting /\ RunEnded
  /\ run' = NoRun /\ TakeResult(run)
  /\ Drain(written)
  /\ IF written /\ runs[run].done = "ok" THEN UNCHANGED <<mainPc, exitCode>>
     ELSE Exit(ErrorCode)
  /\ UNCHANGED <<running, requestVars, readerVars, inputs, inputsClosed,
                 refused, ctxDone, interrupted, lines>>

-----------------------------------------------------------------------------
(* The main goroutine: a command *)

\* A command is handled after harvestReadyRun took note of a run that is over.
Receive(line) ==
  /\ Selecting /\ ~inputsClosed /\ inputs = <<line>> /\ inputs' = <<>>
  /\ RunEnded => runs[run].done = "ok"
  /\ IF RunEnded THEN Drain(TRUE) ELSE UNCHANGED <<events, view>>
  /\ UNCHANGED <<readerPc, held, inputsClosed, interrupted, lines>>

RunAfterHarvest == IF RunEnded THEN NoRun ELSE run

Refuse(what) == Fail /\ run' = RunAfterHarvest /\ refused' = what

HarvestFails(written) ==
  /\ Selecting /\ ~inputsClosed /\ inputs # <<>> /\ inputs' = <<>>
  /\ RunEnded /\ ~(runs[run].done = "ok" /\ written)
  /\ Drain(written) /\ run' = NoRun /\ TakeResult(run)
  /\ Exit(ErrorCode)
  /\ UNCHANGED <<running, requestVars, readerVars, inputsClosed, refused,
                 ctxDone, interrupted, lines>>

\* prompt and compact
StartCommand(m) ==
  /\ Receive(m) /\ RunAfterHarvest = NoRun
  /\ StartDriverRun(Some(IdleRuns), m, ctxDone)
  /\ run' = Some(IdleRuns)
  /\ UNCHANGED <<running, requestVars, stdin, mainPc, exitCode,
                 refused, ctxDone>>

StartRefused(m) ==
  /\ Receive(m) /\ RunAfterHarvest # NoRun
  /\ Refuse("run")
  /\ UNCHANGED <<running, requestVars, stdin, ctxDone>>

\* HasPendingReply, and the start of Reply; a request that goes away between
\* the two is refused by either.
ReplyCommand(text) ==
  /\ Receive(text) /\ pending # NoRun
  /\ TakeHold(text)
  /\ mainPc' = "replySend" /\ run' = RunAfterHarvest
  /\ UNCHANGED <<runs, running, stdin, exitCode, refused, ctxDone>>

ReplyWithoutRequest(text) ==
  /\ Receive(text) /\ pending = NoRun
  /\ Refuse("reply")
  /\ UNCHANGED <<running, requestVars, stdin, ctxDone>>

BadLine ==
  /\ Receive("bad")
  /\ Refuse(refused)
  /\ UNCHANGED <<running, requestVars, stdin, ctxDone>>

\* Close makes reads fail from now on.  One that is under way fails with it on
\* a stdin that can be polled, and on an in-memory pipe; on a blocking one,
\* which is what a process usually gets, it goes on until the client writes a
\* line or closes its end.
CloseStdin ==
  \/ stdin' = "closed"
  \/ readerPc = "scan" /\ stdin' = "closedInRead"

\* Cancels the run and the loop's own context, and closes stdin.
ShutdownCommand ==
  /\ Receive("shutdown")
  /\ cancelRun /\ ctxDone' = TRUE /\ CloseStdin
  /\ mainPc' = "shutdown" /\ run' = RunAfterHarvest
  /\ UNCHANGED <<running, requestVars, exitCode, refused>>

(* Driver.Reply, in the main goroutine *)

ReplySent ==
  /\ mainPc = "replySend" /\ mainPc' = "replyWait"
  /\ HandOver
  /\ UNCHANGED <<readerVars, inputs, run, inputsClosed, exitCode, refused,
                 ctxDone, interrupted, clientVars>>

ReplyReturns ==
  /\ mainPc = "replyWait" /\ replyTo = Closed
  /\ LetGo /\ mainPc' = "select"
  /\ UNCHANGED <<runs, running, events, readerVars, inputs, run,
                 inputsClosed, exitCode, refused, ctxDone, interrupted,
                 clientVars>>

\* The request is gone, or the loop's context is done.
ReplyFails ==
  /\ \/ mainPc = "replySend" /\ replyTo = Closed
     \/ mainPc \in {"replySend", "replyWait"} /\ ctxDone
  /\ LetGo /\ Fail /\ refused' = "reply"
  /\ UNCHANGED <<running, events, readerVars, inputs, run, inputsClosed,
                 ctxDone, interrupted, clientVars>>

-----------------------------------------------------------------------------

Client ==
  \/ \E line \in Lines : ClientWrites(line)
  \/ ClientClosesStdin

Reader == ReaderSends \/ ReaderGivesUp

Main ==
  \/ FailReturns \/ ShutdownReturns \/ LoopEnds \/ InputsEnd \/ CtxDone
  \/ \E written \in BOOLEAN :
       \/ WriteEvent(written) \/ RunEnds(written) \/ HarvestFails(written)
       \/ ShutdownJoinsRun(written)
  \/ \E m \in RunModes : StartCommand(m) \/ StartRefused(m)
  \/ \E text \in Replies : ReplyCommand(text) \/ ReplyWithoutRequest(text)
  \/ BadLine \/ ShutdownCommand
  \/ ReplySent \/ ReplyReturns \/ ReplyFails

RunGoroutine ==
  /\ \E r \in Runs : RunStep(r)
  /\ UNCHANGED <<readerVars, inputs, loopVars, ctxDone, interrupted,
                 clientVars>>

Alive == mainPc # "exited"

Exited == ~Alive /\ UNCHANGED vars

Next == (Alive /\ (Client \/ Interrupt \/ Reader \/ Main \/ RunGoroutine)) \/ Exited

\* Every goroutine that can run does; neither the client nor the signal must.
Fairness ==
  /\ WF_vars(Alive /\ Reader)
  /\ WF_vars(Alive /\ Main)
  /\ WF_vars(Alive /\ RunGoroutine)

Spec == Init /\ [][Next]_vars /\ Fairness

-----------------------------------------------------------------------------
(* Properties *)

\* The types of the loop's state, and the capacities of its channels.
ClnkrdTypeOK ==
  /\ DriverTypeOK
  /\ readerPc \in {"scan", "send", "done"} /\ held \in Lines
  /\ inputs \in {<<>>} \cup {<<l>> : l \in Lines}
  /\ mainPc \in {"select", "replySend", "replyWait", "failing", "shutdown",
                 "joinReader", "exited"}
  /\ run \in Runs \cup {NoRun} /\ inputsClosed \in BOOLEAN /\ ctxDone \in BOOLEAN
  /\ interrupted \in BOOLEAN /\ stdin \in {"open", "closed", "closedInRead"}
  /\ exitCode \in {"none", "0", "1", "130"} /\ lines \in 0 .. MaxLines
  /\ view \in Views /\ refused \in {"none", "run", "reply"}

\* While the loop knows of no run there is none: the goroutine has returned,
\* its request and the running flag are gone and its events are written, so the
\* next run starts clean and nothing of one run is reported during another.
\* However runJSONL returns, no run is left that could still change the
\* messages that runMain saves next.
NothingOutlivesRun ==
  /\ run = NoRun /\ Alive =>
       /\ \A r \in Runs : ~Active(r)
       /\ ~running /\ pending = NoRun /\ events = <<>>
  /\ ~Alive => \A r \in Runs : ~Active(r)

\* A client that answers a request it has read, once, is never told that there
\* is none, unless the process is being interrupted.
RepliesHonoured == refused = "reply" => view = "rude" \/ interrupted

\* When the process ends well at the end of stdin, the client has been told how
\* every run it started ended.
EndsReported ==
  exitCode = "0" /\ ~ctxDone /\ view # "rude" => view = "idle" /\ events = <<>>

\* What neither a signal nor the context ends: after a shutdown, main waits for
\* the reader, and the reader for the client.
StuckInRead ==
  mainPc = "joinReader" /\ readerPc = "scan" /\ stdin = "closedInRead"

\* A SIGINT ends the process wherever it waits, for a run, a request, a place in
\* a channel or the next line, with one exception: behind a shutdown it does not
\* end the wait for a read that outlives the close of stdin.  There the client
\* has to write or to close its end, and then the process does end.
InterruptExits == interrupted ~> (~Alive \/ StuckInRead)

AlwaysPolite == [](view # "rude")

ShutdownRead ==
  (held = "shutdown" /\ readerPc = "send") \/ inputs = <<"shutdown">>

\* A client that waits its turn can get rid of the process by closing its end
\* of stdin, also when an approval request comes up only later.  Its shutdown
\* ends the run and brings the loop to its last wait, for the reader; from there
\* the process ends by itself only if no read outlived the close of stdin.
PoliteClientCanEnd ==
  AlwaysPolite => (ShutdownRead \/ readerPc = "done") ~> (~Alive \/ StuckInRead)

\* doc/clnkrd.1.md: a shutdown cancels the run, drains the events and exits;
\* the client need not close stdin as well.
ShutdownExits == mainPc = "shutdown" ~> ~Alive

\* doc/clnkrd.1.md: a done event says that the prompt's run is completed, so
\* the next command is not refused for running at the same time.
NextRunAccepted == refused = "run" => view = "rude" \/ interrupted
=============================================================================
