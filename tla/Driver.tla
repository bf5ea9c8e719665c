-------------------------------- MODULE Driver --------------------------------
(***************************************************************************)
(* The driver between an agent and its frontend (clnkrapp/driver.go): the  *)
(* goroutines that execute Prompt or Compact, the channel of events they   *)
(* send to the frontend, and the one pending request a run may be waiting  *)
(* on while the frontend answers with Reply.  A frontend starts one run at *)
(* a time, but may abandon one without waiting for it, so several may      *)
(* exist.  What the agent itself does is in AgentRun; here a run works     *)
(* until it asks, compacts, ends or fails.                                 *)
(***************************************************************************)
EXTENDS Naturals, Sequences, FiniteSets

CONSTANTS
  EventCap,    \* capacity of the event channel, 16 in NewDriver
  MaxRuns      \* bound: run goroutines that exist at a time

ASSUME EventCapAssumption == EventCap \in Nat \ {0}
ASSUME MaxRunsAssumption  == MaxRuns \in Nat \ {0}

VARIABLES
  runs,       \* the run goroutines: where each is, and its context
  running,    \* Driver.running
  pending,    \* the run whose request is Driver.pending
  events,     \* Driver.events
  replyTo,    \* the request that Reply took hold of, by its run, or Closed
  reply       \* the text on its way to that request

requestVars == <<pending, replyTo, reply>>
driverVars  == <<runs, running, events, requestVars>>

Runs  == 1 .. MaxRuns
NoRun  == 0
Closed == MaxRuns + 1   \* replyTo: the request was withdrawn

RunModes == {"approval", "full_send", "compact"}
Replies  == {"answer", "blank", "slashCompact"}

(* The emits of driver.go: what is sent, where the run goes on from there,  *)
(* and where it goes when its context was done first.  EventCompacted is    *)
(* "compaction" when it ends a run that was asked to compact, which who     *)
(* asked can tell from the one the backstop sends.                          *)
EventOf == [emitRequest |-> "request", emitRefusal |-> "refusal",
            emitCompacted |-> "compacted", emitDone |-> "done",
            emitCompaction |-> "compaction", emitError |-> "error",
            emitBusy |-> "error"]
SentTo  == [emitRequest |-> "await", emitRefusal |-> "request",
            emitCompacted |-> "loop", emitDone |-> "returnOk",
            emitCompaction |-> "returnOk",
            emitError |-> "returnErr", emitBusy |-> "returnBusy"]
DroppedTo == [emitRequest |-> "emitError", emitRefusal |-> "emitError",
              emitCompacted |-> "emitError", emitDone |-> "returnErr",
              emitCompaction |-> "returnErr",
              emitError |-> "returnErr", emitBusy |-> "returnBusy"]

Emitting == DOMAIN EventOf
RunPcs == {"none", "start", "loop", "work", "request", "await", "received",
           "returnOk", "returnErr", "returnBusy"} \cup Emitting
Events == [run: Runs, kind: {EventOf[e] : e \in Emitting}]

\* done is activeRun.done, the buffered result nobody has received yet;
\* canCompact, that the context length backstop is still armed.
Goroutines == [pc: RunPcs, mode: RunModes, cancelled: BOOLEAN,
               canCompact: BOOLEAN, done: {"none", "ok", "error"}]

NoGoroutine == [pc |-> "none", mode |-> "compact", cancelled |-> FALSE,
                canCompact |-> FALSE, done |-> "none"]

DriverInit ==
  /\ runs = [r \in Runs |-> NoGoroutine]
  /\ running = FALSE /\ pending = NoRun /\ events = <<>>
  /\ replyTo = NoRun /\ reply = "answer"

-----------------------------------------------------------------------------
(* What the frontend calls *)

Active(r) == runs[r].pc # "none"

IdleRuns == {r \in Runs : ~Active(r)}

\* The numbers of runs are identities only.
Some(rs) == CHOOSE r \in rs : TRUE

\* startDriverRun: a goroutine with a result channel and a context of its own,
\* done from the start if its parent is.
StartDriverRun(r, m, parentDone) ==
  runs' = [runs EXCEPT ![r] = [NoGoroutine EXCEPT
             !.pc = "start", !.mode = m, !.cancelled = parentDone,
             !.canCompact = (m # "compact")]]

\* The goroutines after the contexts of these runs were cancelled.
Cancelled(rs) ==
  [r \in Runs |-> IF r \in rs /\ Active(r)
                  THEN [runs[r] EXCEPT !.cancelled = TRUE] ELSE runs[r]]

\* Receiving from activeRun.done.
TakeResult(r) == runs' = [runs EXCEPT ![r].done = "none"]

\* Reply finds the pending request and keeps a reference to it.
TakeHold(text) == replyTo' = pending /\ reply' = text /\ UNCHANGED pending

\* The rendezvous of Reply and requestReply on the request's channel.
HandOver ==
  /\ replyTo \in Runs /\ runs[replyTo].pc = "await"
  /\ runs' = [runs EXCEPT ![replyTo].pc = "received"]
  /\ UNCHANGED <<running, events, requestVars>>

LetGo == replyTo' = NoRun /\ UNCHANGED <<pending, reply>>

-----------------------------------------------------------------------------
(* One run goroutine *)

RunGoes(r, from, to) ==
  runs[r].pc = from /\ runs' = [runs EXCEPT ![r].pc = to]

\* setRunning(true), refused while another run is active.
RunStarts(r) ==
  /\ RunGoes(r, "start", IF running THEN "emitBusy" ELSE "loop")
  /\ running' = TRUE
  /\ UNCHANGED <<events, requestVars>>

\* The loop looks at the context before it begins, or goes on, to work.
WorkBegins(r) ==
  /\ RunGoes(r, "loop", IF runs[r].cancelled THEN "emitError" ELSE "work")
  /\ UNCHANGED <<running, events, requestVars>>

\* The run is over after some more work: done, or failed.
WorkEnds(r) ==
  /\ \E to \in {"emitError", IF runs[r].mode = "compact"
                          THEN "emitCompaction" ELSE "emitDone"} :
       RunGoes(r, "work", to)
  /\ UNCHANGED <<running, events, requestVars>>

\* contextLengthBackstop, armed once per run.
WorkCompacts(r) ==
  /\ runs[r].pc = "work" /\ runs[r].canCompact
  /\ runs' = [runs EXCEPT ![r].pc = "emitCompacted", ![r].canCompact = FALSE]
  /\ UNCHANGED <<running, events, requestVars>>

WorkAsks(r) ==
  /\ runs[r].mode = "approval"
  /\ RunGoes(r, "work", "request")
  /\ UNCHANGED <<running, events, requestVars>>

\* Faulty variant: asks before the request can be answered.
RequestReplyUnregistered(r) ==
  /\ RunGoes(r, "request", "emitRequest")
  /\ UNCHANGED <<running, events, requestVars>>

\* setPending, before the frontend is told.
RequestReply(r) ==
  /\ RunGoes(r, "request", IF pending # NoRun THEN "emitError" ELSE "emitRequest")
  /\ pending' = IF pending # NoRun THEN pending ELSE r
  /\ UNCHANGED <<running, events, replyTo, reply>>

clearPending(r) ==
  /\ pending' = IF pending = r THEN NoRun ELSE pending
  /\ replyTo' = IF replyTo = r THEN Closed ELSE replyTo

SentBy(r) == [run |-> r, kind |-> EventOf[runs[r].pc]]

\* Faulty variant: an event channel without a limit.
EmitUnbounded(r) ==
  /\ runs[r].pc \in Emitting
  /\ events' = Append(events, SentBy(r))
  /\ runs' = [runs EXCEPT ![r].pc = SentTo[runs[r].pc]]
  /\ UNCHANGED <<running, requestVars>>

Emit(r) ==
  /\ runs[r].pc \in Emitting /\ Len(events) < EventCap
  /\ events' = Append(events, SentBy(r))
  /\ runs' = [runs EXCEPT ![r].pc = SentTo[runs[r].pc]]
  /\ UNCHANGED <<running, requestVars>>

EmitDropped(r) ==
  /\ runs[r].pc \in Emitting /\ runs[r].cancelled
  /\ runs' = [runs EXCEPT ![r].pc = DroppedTo[runs[r].pc]]
  /\ IF runs[r].pc = "emitRequest" THEN clearPending(r)
     ELSE UNCHANGED <<pending, replyTo>>
  /\ UNCHANGED <<running, events, reply>>

\* Faulty variant: waits for an answer whatever becomes of the context.
AwaitCancelledNever(r) == FALSE /\ UNCHANGED driverVars

AwaitCancelled(r) ==
  /\ runs[r].cancelled
  /\ RunGoes(r, "await", "emitError")
  /\ clearPending(r)
  /\ UNCHANGED <<running, events, reply>>

\* requestReply returns; waitForReply asks again after an empty reply, and
\* after it refused a reply that looks like /compact.
ReplyReceived(r) ==
  /\ RunGoes(r, "received", [answer |-> "loop", blank |-> "request",
                             slashCompact |-> "emitRefusal"][reply])
  /\ clearPending(r)
  /\ reply' = "answer"
  /\ UNCHANGED <<running, events>>

\* Faulty variant: a refused run clears the flag of the run it collided with.
RunReturnsAlwaysClearing(r) ==
  /\ runs[r].pc \in {"returnOk", "returnErr", "returnBusy"}
  /\ runs' = [runs EXCEPT ![r] = [NoGoroutine EXCEPT
                !.done = IF runs[r].pc = "returnOk" THEN "ok" ELSE "error"]]
  /\ running' = FALSE
  /\ UNCHANGED <<events, requestVars>>

\* setRunning(false), unless another run holds it; the result goes into a
\* channel of capacity one.
RunReturns(r) ==
  /\ runs[r].pc \in {"returnOk", "returnErr", "returnBusy"}
  /\ runs' = [runs EXCEPT ![r] = [NoGoroutine EXCEPT
                !.done = IF runs[r].pc = "returnOk" THEN "ok" ELSE "error"]]
  /\ running' = (running /\ runs[r].pc = "returnBusy")
  /\ UNCHANGED <<events, requestVars>>

RunStep(r) ==
  \/ RunStarts(r) \/ WorkBegins(r) \/ WorkEnds(r) \/ WorkCompacts(r)
  \/ WorkAsks(r) \/ RequestReply(r) \/ ReplyReceived(r) \/ AwaitCancelled(r)
  \/ Emit(r) \/ EmitDropped(r) \/ RunReturns(r)

DriverTypeOK ==
  /\ runs \in [Runs -> Goroutines]
  /\ running \in BOOLEAN /\ pending \in Runs \cup {NoRun}
  /\ events \in Seq(Events) /\ Len(events) <= EventCap
  /\ replyTo \in Runs \cup {NoRun, Closed} /\ reply \in Replies
=============================================================================
