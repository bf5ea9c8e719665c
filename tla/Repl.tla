--------------------------------- MODULE Repl ---------------------------------
(***************************************************************************)
(* clnkr's conversational loop (cmd/clnkr/main.go): the main goroutine     *)
(* reads a prompt from stdin, starts a run of Driver for it and selects    *)
(* between the run's events, its result and the context that SIGINT        *)
(* cancels.  Unlike clnkrd it does not wait for a run it cancels, so a run *)
(* and the events it left in the channel can outlive the prompt that       *)
(* started it.                                                             *)
(***************************************************************************)
EXTENDS Driver

CONSTANTS
  MaxPrompts,     \* bound: prompts the user types
  MaxInterrupts   \* bound: SIGINTs the user sends

ASSUME UserAssumption == MaxPrompts \in Nat /\ MaxInterrupts \in Nat

VARIABLES
  interactive,   \* showPrompt: stdin is a terminal
  mode,          \* approval, or full_send
  mainPc,        \* where the main goroutine is
  run,           \* the run runDriverPrompt waits for, NoRun outside of it
  runErr,        \* drainDriverEvents: how that run ended, "none" before
  ctxDone,       \* the context of runPromptLoop is cancelled
  stdin,         \* what the line reader will report once its lines are read
  shown,         \* the run whose request was printed last
  prompts, interrupts

settingVars == <<interactive, mode>>
userVars    == <<stdin, prompts, interrupts>>
vars == <<driverVars, settingVars, mainPc, run, runErr, ctxDone, shown, userVars>>

Init ==
  /\ DriverInit
  /\ interactive \in BOOLEAN /\ mode \in {"approval", "full_send"}
  /\ mode = "approval" => interactive
  /\ mainPc = "prompt" /\ run = NoRun /\ runErr = "none"
  /\ ctxDone = FALSE /\ stdin = "open" /\ shown = NoRun
  /\ prompts = 0 /\ interrupts = 0

-----------------------------------------------------------------------------
(* The user *)

Interrupt ==
  /\ interrupts < MaxInterrupts /\ ~ctxDone
  /\ interrupts' = interrupts + 1
  /\ ctxDone' = TRUE /\ runs' = Cancelled({run})
  /\ UNCHANGED <<running, events, requestVars, settingVars, mainPc, run,
                 runErr, shown, stdin, prompts>>

StdinEnds ==
  /\ stdin = "open"
  /\ stdin' \in {"eof", "failed"}
  /\ UNCHANGED <<driverVars, settingVars, mainPc, run, runErr, ctxDone, shown,
                 prompts, interrupts>>

-----------------------------------------------------------------------------
(* runPromptLoop, at the prompt *)

Exit == mainPc' = "exited"

\* Numbers neither used by a run nor by an event it left behind.
FreshRuns == {r \in IdleRuns : \A i \in DOMAIN events : events[i].run # r}

\* ReadLine may return a line although the context is done.
PromptTyped(m) ==
  /\ mainPc = "prompt" /\ stdin = "open" /\ prompts < MaxPrompts
  /\ prompts' = prompts + 1
  /\ FreshRuns # {} /\ run' = Some(FreshRuns)
  /\ StartDriverRun(run', m, ctxDone)
  /\ mainPc' = "select"
  /\ UNCHANGED <<running, events, requestVars, settingVars, runErr, ctxDone,
                 shown, stdin, interrupts>>

\* End of input, a failing read, or SIGINT at the prompt: the loop returns,
\* the session is saved and the process ends.
PromptEnds ==
  /\ mainPc = "prompt" /\ (stdin # "open" \/ ctxDone)
  /\ Exit
  /\ UNCHANGED <<driverVars, settingVars, run, runErr, ctxDone, shown,
                 userVars>>

-----------------------------------------------------------------------------
(* runDriverPrompt *)

\* runDriverPrompt returns: its deferred cancel, and in the loop a context of
\* its own for the next prompt, unless the error ends the process.
PromptReturns(err) ==
  /\ run' = NoRun /\ runErr' = "none" /\ ctxDone' = FALSE
  /\ runs' = Cancelled({run})
  /\ IF err = "input" \/ (err # "ok" /\ ~interactive)
     THEN Exit ELSE mainPc' = "prompt"

Draining == runErr # "none"

\* handleTerminalDriverEvent returned an error: it ends the prompt, or is kept
\* while the channel is drained if there is no error yet.
HandlingFails(err) ==
  IF Draining
  THEN /\ runErr' = IF runErr = "ok" \/ err = "input" THEN err ELSE runErr
       /\ mainPc' = "select"
       /\ UNCHANGED <<runs, run, ctxDone>>
  ELSE PromptReturns(err)

SelectInterrupted ==
  /\ mainPc = "select" /\ ~Draining /\ ctxDone
  /\ PromptReturns("error")
  /\ UNCHANGED <<running, events, requestVars, settingVars, shown, userVars>>

\* A request is printed and a reply is read for it; other events only print.
HandleEvent ==
  /\ mainPc = "select" /\ events # <<>>
  /\ events' = Tail(events)
  /\ IF Head(events).kind = "request"
     THEN mainPc' = "ask" /\ shown' = Head(events).run
     ELSE UNCHANGED <<mainPc, shown>>
  /\ UNCHANGED <<runs, running, requestVars, settingVars, run, runErr, ctxDone,
                 userVars>>

\* Faulty variant: returns without a look at the events that are left.
RunResultUndrained ==
  /\ mainPc = "select" /\ ~Draining /\ runs[run].done # "none"
  /\ PromptReturns(runs[run].done)
  /\ UNCHANGED <<running, events, requestVars, settingVars, shown, userVars>>

RunResult ==
  /\ mainPc = "select" /\ ~Draining /\ runs[run].done # "none"
  /\ runErr' = runs[run].done /\ TakeResult(run)
  /\ UNCHANGED <<running, events, requestVars, settingVars, mainPc, run,
                 ctxDone, shown, userVars>>

Drained ==
  /\ mainPc = "select" /\ Draining /\ events = <<>>
  /\ PromptReturns(runErr)
  /\ UNCHANGED <<running, events, requestVars, settingVars, shown, userVars>>

-----------------------------------------------------------------------------
(* replyToTerminalRequest *)

\* A blank line asks again; anything else goes to the pending request, if any.
ReplyTyped(text) ==
  /\ mainPc = "ask" /\ stdin = "open" /\ pending # NoRun
  /\ TakeHold(text) /\ mainPc' = "replySend"
  /\ UNCHANGED <<runs, running, events, settingVars, run, runErr, ctxDone,
                 shown, userVars>>

ReplyTypedTooLate ==
  /\ mainPc = "ask" /\ stdin = "open" /\ pending = NoRun
  /\ HandlingFails("error")
  /\ UNCHANGED <<running, events, requestVars, settingVars, shown, userVars>>

\* Stdin has ended; a failed read is reported once.
AskEnds ==
  /\ mainPc = "ask" /\ stdin # "open"
  /\ HandlingFails(IF stdin = "failed" THEN "input" ELSE "error")
  /\ stdin' = "eof"
  /\ UNCHANGED <<running, events, requestVars, settingVars, shown, prompts,
                 interrupts>>

ReplySent ==
  /\ mainPc = "replySend" /\ mainPc' = "replyWait"
  /\ HandOver
  /\ UNCHANGED <<settingVars, run, runErr, ctxDone, shown, userVars>>

ReplyReturns ==
  /\ mainPc = "replyWait" /\ replyTo = Closed
  /\ LetGo /\ mainPc' = "select"
  /\ UNCHANGED <<runs, running, events, settingVars, run, runErr, ctxDone,
                 shown, userVars>>

ReplyRefused ==
  /\ mainPc = "replySend" /\ replyTo = Closed
  /\ LetGo /\ HandlingFails("error")
  /\ UNCHANGED <<running, events, settingVars, shown, userVars>>

\* Faulty variant: a reply is read, and handed over, whatever becomes of the
\* context.
ReplyInterruptedNever == FALSE /\ UNCHANGED vars

\* replyToTerminalRequest waits for a line, and Reply for the run, with an eye
\* on the context.
ReplyInterrupted ==
  /\ mainPc \in {"ask", "replySend", "replyWait"} /\ ctxDone
  /\ IF mainPc = "ask" THEN UNCHANGED requestVars ELSE LetGo
  /\ HandlingFails("error")
  /\ UNCHANGED <<running, events, settingVars, shown, userVars>>

-----------------------------------------------------------------------------

Running == mainPc # "exited"

User ==
  \/ \E m \in {mode, "compact"} : PromptTyped(m)
  \/ \E text \in Replies \ {"blank"} : ReplyTyped(text)
  \/ ReplyTypedTooLate \/ Interrupt \/ StdinEnds

Main ==
  \/ PromptEnds \/ SelectInterrupted \/ HandleEvent \/ RunResult \/ Drained
  \/ AskEnds \/ ReplySent \/ ReplyReturns \/ ReplyRefused \/ ReplyInterrupted

MainWaits == UNCHANGED <<settingVars, mainPc, run, runErr, ctxDone, shown, userVars>>

RunGoroutine(r) == RunStep(r) /\ MainWaits

Next == Running /\ (User \/ Main \/ \E r \in Runs : RunGoroutine(r))

\* The goroutines that can run do.  A select that finds its context done again
\* and again takes that case at last, as Go picks among the ready ones at
\* random, and senders that wait for a channel are served in turn.  The user
\* owes neither a line nor a SIGINT.
Fairness ==
  /\ WF_vars(Running /\ Main)
  /\ SF_vars(Running /\ (SelectInterrupted \/ ReplyInterrupted))
  /\ \A r \in Runs :
       /\ WF_vars(Running /\ RunGoroutine(r))
       /\ SF_vars(Running /\ MainWaits /\ Emit(r))
       /\ SF_vars(Running /\ MainWaits /\ (EmitDropped(r) \/ AwaitCancelled(r)))

Spec == Init /\ [][Next]_vars /\ Fairness

-----------------------------------------------------------------------------
(* Properties *)

UsesAgent(r) == runs[r].pc \notin {"none", "start", "emitBusy", "returnBusy"}

\* The agent is not safe for concurrent use.  Although an interrupted run goes
\* on for a while next to the run of the next prompt, never two of them use it,
\* and a run the loop no longer waits for has been told to stop.
AgentExclusive ==
  /\ Cardinality({r \in Runs : UsesAgent(r)}) <= 1
  /\ \A r \in Runs \ {run} : Active(r) => runs[r].cancelled

\* Without a SIGINT, and without the end of stdin under a pending request, the
\* loop comes back to the prompt, or ends, only when the run is over and all
\* its events are handled, so the next prompt starts clean.
CleanPrompt ==
  mainPc \in {"prompt", "exited"} /\ interrupts = 0
    /\ (stdin = "open" \/ mode = "full_send") =>
      /\ \A r \in Runs : ~Active(r)
      /\ ~running /\ pending = NoRun /\ events = <<>>

\* A SIGINT brings the user back to the prompt or ends the process, whatever
\* the loop is waiting for; and the run it interrupts ends too, though nobody
\* may be there to take its events or to answer its requests.
InterruptsEnd ==
  /\ ctxDone ~> (~ctxDone \/ ~Running)
  /\ \A r \in Runs : (Active(r) /\ runs[r].cancelled) ~> (~Active(r) \/ ~Running)

\* doc/clnkr.1.md: clnkr asks for approval before each act turn, and approval
\* prompts show each requested command.  So the request a reply is handed to
\* is the one that was printed last.
ReplyAnswersShown ==
  [][\A r \in Runs : runs[r].pc = "await" /\ runs'[r].pc = "received" => shown = r]_vars
=============================================================================
