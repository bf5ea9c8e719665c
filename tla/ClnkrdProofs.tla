---------------------------- MODULE ClnkrdProofs ----------------------------
(***************************************************************************)
(* Proofs about clnkrd's loop, for every number of lines and every         *)
(* capacity of the event channel.  The loop knows of every run there is:   *)
(* only the run it waits for is active; its result is there only once its  *)
(* goroutine has given back the flag and the request; and the loop forgets *)
(* a run only with its result in hand and the channel drained.  And a      *)
(* client that writes a line only when what it has read calls for it is    *)
(* served: while its line is on its way nothing changes that the line was  *)
(* written for, so its replies find the request they answer, and the end   *)
(* of each run is reported to it.                                          *)
(***************************************************************************)
EXTENDS Clnkrd, TLAPS

-----------------------------------------------------------------------------
(* The inductive invariant *)

LoopTypes ==
  /\ runs \in [Runs -> Goroutines] /\ running \in BOOLEAN /\ reply \in Replies
  /\ run \in Runs \cup {NoRun} /\ pending \in Runs \cup {NoRun}
  /\ ctxDone \in BOOLEAN
  /\ mainPc \in {"select", "replySend", "replyWait", "failing", "shutdown",
                 "joinReader", "exited"}

\* Only the loop's run is active, without a result yet, and it alone holds the
\* flag and the request.
OneRun ==
  /\ \A r \in Runs : Active(r) => r = run /\ runs[r].done = "none"
  /\ \A r \in Runs : runs[r].pc \notin {"emitBusy", "returnBusy"}
  /\ running => run # NoRun /\ runs[run].pc \notin {"none", "start"}
  /\ pending # NoRun => runs[pending].pc \in {"emitRequest", "await", "received"}
  /\ \A r \in Runs : runs[r].pc = "start" => ~running

\* Where the loop has forgotten the run, or is about to end, the run is over.
Over ==
  /\ run = NoRun /\ Alive => events = <<>>
  /\ mainPc \in {"joinReader", "exited"} => \A r \in Runs : ~Active(r)
  /\ mainPc \in {"replySend", "replyWait"} => run # NoRun

IInv == LoopTypes /\ OneRun /\ Over
-----------------------------------------------------------------------------
(* Steps of a run goroutine *)

\* NoRun is no run, and there is a run.
LEMMA Numbers == NoRun \notin Runs /\ Runs # {}
BY MaxRunsAssumption DEF NoRun, Runs

\* Where an emit leads: on with the request only from its own event, never to
\* a refusal.
LEMMA EmitTo ==
  ASSUME NEW e \in Emitting, e # "emitBusy"
  PROVE  /\ SentTo[e] \in RunPcs \ {"none", "start", "emitBusy", "returnBusy"}
         /\ DroppedTo[e] \in RunPcs \ {"none", "start", "emitBusy", "returnBusy"}
         /\ e = "emitRequest" => SentTo[e] = "await"
<1>1. e \in {"emitRequest", "emitRefusal", "emitCompacted", "emitDone",
             "emitCompaction", "emitError"}
  BY DEF Emitting, EventOf
<1> QED BY <1>1 DEF SentTo, DroppedTo, RunPcs, Emitting, EventOf

\* A goroutine that goes to another place, past its start, keeps the invariant
\* if the request goes with it and the flag stays.
LEMMA MoveInv ==
  ASSUME IInv, NEW r \in Runs, Active(r), runs[r].pc # "start" \/ (~running /\ running'),
         NEW to \in RunPcs \ {"none", "start", "emitBusy", "returnBusy"},
         \/ runs' = [runs EXCEPT ![r].pc = to]
         \/ runs' = [runs EXCEPT ![r].pc = to, ![r].canCompact = FALSE],
         runs[r].pc # "start" => running' = running,
         reply' \in Replies,
         \/ pending' = pending /\ (pending = r => to \in {"emitRequest", "await", "received"})
         \/ pending = NoRun /\ pending' = r /\ to = "emitRequest"
         \/ pending = r /\ pending' = NoRun,
         UNCHANGED <<run, mainPc, ctxDone>>
  PROVE  IInv'
<1>1. r = run /\ runs[r].done = "none"
  BY DEF IInv, OneRun
<1>2. /\ runs' \in [Runs -> Goroutines] /\ runs'[r].pc = to /\ runs'[r].done = "none"
      /\ \A s \in Runs \ {r} : runs'[s] = runs[s]
  <2>1. CASE runs' = [runs EXCEPT ![r].pc = to]
    BY <2>1, <1>1 DEF IInv, LoopTypes, Goroutines
  <2>2. CASE runs' = [runs EXCEPT ![r].pc = to, ![r].canCompact = FALSE]
    <3> DEFINE moved == [runs EXCEPT ![r].pc = to]
    <3>1. /\ moved \in [Runs -> Goroutines] /\ moved[r].pc = to /\ moved[r].done = "none"
          /\ \A s \in Runs \ {r} : moved[s] = runs[s]
      BY <1>1 DEF IInv, LoopTypes, Goroutines
    <3>2. runs' = [moved EXCEPT ![r].canCompact = FALSE]
      BY <2>2 DEF IInv, LoopTypes, Goroutines
    <3> HIDE DEF moved
    <3> QED BY <3>1, <3>2, ZenonT(30) DEF Goroutines
  <2> QED BY <2>1, <2>2
<1>3. running' \in BOOLEAN /\ (running' => running \/ runs[r].pc = "start")
  BY DEF IInv, LoopTypes
<1>4. LoopTypes'
  BY <1>2, <1>3 DEF IInv, LoopTypes
<1>5. OneRun'
  BY <1>1, <1>2, <1>3, Numbers DEF IInv, LoopTypes, OneRun, Active
<1>6. Over'
  BY <1>1, Numbers DEF IInv, LoopTypes, Over, Alive, Active
<1> QED BY <1>4, <1>5, <1>6 DEF IInv

\* A run that returns leaves its result, and neither flag nor request.
LEMMA ReturnInv ==
  ASSUME IInv, NEW r \in Runs, RunReturns(r), UNCHANGED <<run, mainPc, ctxDone>>
  PROVE  IInv'
<1> DEFINE g == [NoGoroutine EXCEPT !.done = IF runs[r].pc = "returnOk" THEN "ok" ELSE "error"]
<1>1. /\ runs' = [runs EXCEPT ![r] = g] /\ running' = (running /\ runs[r].pc = "returnBusy")
      /\ runs[r].pc \in {"returnOk", "returnErr", "returnBusy"}
      /\ UNCHANGED <<pending, reply>>
  BY DEF RunReturns, requestVars
<1>2. g.pc = "none" /\ g \in Goroutines
  BY DEF NoGoroutine, Goroutines, RunPcs, RunModes
<1> HIDE DEF g
<1>3. r = run /\ ~running' /\ running' \in BOOLEAN /\ pending = NoRun
  BY <1>1 DEF IInv, LoopTypes, OneRun, Active
<1>4. LoopTypes'
  BY <1>1, <1>2, <1>3 DEF IInv, LoopTypes
<1>5. OneRun'
  BY <1>1, <1>2, <1>3 DEF IInv, LoopTypes, OneRun, Active
<1>6. Over'
  BY <1>1, <1>2, <1>3, Numbers DEF IInv, LoopTypes, Over, Alive, Active
<1> QED BY <1>4, <1>5, <1>6 DEF IInv

\* Each step of a run keeps the invariant.
LEMMA RunInv ==
  ASSUME IInv, RunGoroutine
  PROVE  IInv'
<1>1. PICK r \in Runs : RunStep(r)
  BY DEF RunGoroutine
<1>2. UNCHANGED <<run, mainPc, ctxDone>>
  BY DEF RunGoroutine, loopVars
<1> USE DEF RunGoes, Active, RunPcs, Emitting, EventOf, requestVars
<1> running \in BOOLEAN /\ reply \in Replies /\ runs[r].pc \notin {"emitBusy", "returnBusy"}
  BY DEF IInv, LoopTypes, OneRun
<1> /\ pending = r => runs[r].pc \in {"emitRequest", "await", "received"}
    /\ runs[r].pc = "start" => ~running
  BY Numbers DEF IInv, OneRun
<1>3. CASE RunStarts(r)
  BY <1>2, <1>3, MoveInv DEF RunStarts
<1>4. CASE WorkBegins(r) BY <1>2, <1>4, MoveInv DEF WorkBegins
<1>5. CASE WorkEnds(r) BY <1>2, <1>5, MoveInv DEF WorkEnds
<1>6. CASE WorkCompacts(r) BY <1>2, <1>6, MoveInv DEF WorkCompacts
<1>7. CASE WorkAsks(r) BY <1>2, <1>7, MoveInv DEF WorkAsks
<1>8. CASE RequestReply(r)
  <2>1. CASE pending = NoRun BY <1>2, <1>8, <2>1, MoveInv DEF RequestReply
  <2>2. CASE pending # NoRun BY <1>2, <1>8, <2>2, MoveInv DEF RequestReply
  <2> QED BY <2>1, <2>2
<1>9. CASE ReplyReceived(r)
  <2> DEFINE to == [answer |-> "loop", blank |-> "request", slashCompact |-> "emitRefusal"][reply]
  <2>1. to \in {"loop", "request", "emitRefusal"}
    BY DEF Replies
  <2>2. /\ runs' = [runs EXCEPT ![r].pc = to] /\ runs[r].pc = "received"
        /\ reply' \in Replies /\ running' = running
        /\ pending' = IF pending = r THEN NoRun ELSE pending
    BY <1>9 DEF ReplyReceived, clearPending, Replies
  <2> HIDE DEF to
  <2> QED BY <1>2, <2>1, <2>2, MoveInv
<1>10. CASE AwaitCancelled(r)
  <2>1. /\ runs' = [runs EXCEPT ![r].pc = "emitError"] /\ runs[r].pc = "await"
        /\ reply' = reply /\ running' = running
        /\ pending' = IF pending = r THEN NoRun ELSE pending
    BY <1>10 DEF AwaitCancelled, clearPending
  <2> QED BY <1>2, <2>1, MoveInv
<1>11. CASE Emit(r)
  <2>1. /\ runs' = [runs EXCEPT ![r].pc = SentTo[runs[r].pc]] /\ runs[r].pc \in Emitting
        /\ UNCHANGED <<reply, running, pending>>
    BY <1>11 DEF Emit
  <2> QED BY <1>2, <2>1, EmitTo, MoveInv
<1>12. CASE EmitDropped(r)
  <2>1. /\ runs' = [runs EXCEPT ![r].pc = DroppedTo[runs[r].pc]] /\ runs[r].pc \in Emitting
        /\ UNCHANGED <<reply, running>>
        /\ \/ runs[r].pc = "emitRequest" /\ pending' = IF pending = r THEN NoRun ELSE pending
           \/ runs[r].pc # "emitRequest" /\ pending' = pending
    BY <1>12 DEF EmitDropped, clearPending
  <2> QED BY <1>2, <2>1, EmitTo, MoveInv
<1>13. CASE RunReturns(r) BY <1>2, <1>13, ReturnInv
<1> QED
  BY <1>1, <1>3, <1>4, <1>5, <1>6, <1>7, <1>8, <1>9, <1>10, <1>11, <1>12, <1>13 DEF RunStep

-----------------------------------------------------------------------------
(* Steps of the loop *)

\* At first there is no run.
LEMMA InitInv == Init => IInv
<1>1. NoGoroutine \in Goroutines /\ NoGoroutine.pc = "none"
  BY DEF NoGoroutine, Goroutines, RunPcs, RunModes
<1> QED
  BY <1>1 DEF Init, DriverInit, IInv, LoopTypes, OneRun, Over, Active, Alive, Replies

\* Whoever has the result of the run, or knows of none, knows that all is over.
LEMMA Ended ==
  ASSUME IInv, RunEnded \/ run = NoRun
  PROVE  (\A r \in Runs : ~Active(r)) /\ ~running /\ pending = NoRun
BY Numbers DEF IInv, LoopTypes, OneRun, RunEnded, Active

\* Every goroutine stays where it is: nothing but contexts and results change.
Still ==
  /\ runs' \in [Runs -> Goroutines]
  /\ \A r \in Runs : runs'[r].pc = runs[r].pc

\* Cancelling the run keeps every goroutine where it is.
LEMMA CancelStill ==
  ASSUME IInv, cancelRun
  PROVE  Still /\ \A r \in Runs : runs'[r].done = runs[r].done
<1>1. runs \in [Runs -> Goroutines]
  BY DEF IInv, LoopTypes
<1>2. ASSUME NEW r \in Runs
      PROVE  /\ runs'[r] \in Goroutines
             /\ runs'[r].pc = runs[r].pc /\ runs'[r].done = runs[r].done
  <2>1. runs'[r] = runs[r] \/ runs'[r] = [runs[r] EXCEPT !.cancelled = TRUE]
    BY DEF cancelRun, Cancelled
  <2> QED BY <1>1, <2>1 DEF Goroutines
<1>3. runs' = [r \in Runs |-> runs'[r]]
  BY DEF cancelRun, Cancelled
<1> QED BY <1>2, <1>3 DEF Still

\* A step that keeps the run the loop knows of.
LEMMA KeepInv ==
  ASSUME IInv, Still, \A r \in Runs : runs'[r].done = runs[r].done,
         UNCHANGED <<running, pending, run>>, reply' \in Replies, ctxDone' \in BOOLEAN,
         mainPc' \in {"select", "replySend", "replyWait", "failing", "shutdown",
                      "joinReader", "exited"},
         Over'
  PROVE  IInv'
BY DEF IInv, LoopTypes, OneRun, Still, Active

\* A step that forgets a run that is over.
LEMMA ForgetInv ==
  ASSUME IInv, RunEnded \/ run = NoRun, run' = NoRun, Still,
         UNCHANGED <<running, pending>>, reply' \in Replies, ctxDone' \in BOOLEAN,
         mainPc' \in {"select", "failing", "shutdown", "exited"},
         mainPc' # "exited" => events' = <<>>
  PROVE  IInv'
<1>1. (\A r \in Runs : ~Active(r)) /\ ~running /\ pending = NoRun
  BY Ended
<1>2. \A r \in Runs : ~Active(r)'
  BY <1>1 DEF Still, Active
<1> QED
  BY <1>1, <1>2 DEF IInv, LoopTypes, OneRun, Over, Alive, Still, Active

\* The reader, the client and the signal leave the runs alone, or cancel one.
LEMMA OthersInv ==
  ASSUME IInv, Client \/ Interrupt \/ Reader
  PROVE  IInv'
<1>1. CASE Client \/ Reader
  <2>1. UNCHANGED <<driverVars, mainPc, run, ctxDone>>
    BY <1>1 DEF Client, Reader, ClientWrites, ClientClosesStdin, ReaderSends, ReaderGivesUp,
       loopVars
  <2> QED
    BY <2>1 DEF driverVars, requestVars, IInv, LoopTypes, OneRun, Over, Alive, Active
<1>2. CASE Interrupt
  <2>1. /\ cancelRun /\ ctxDone' = TRUE
        /\ UNCHANGED <<running, pending, reply, events, run, mainPc>>
    BY <1>2 DEF Interrupt, cancelRun, requestVars, loopVars
  <2>2. Still /\ \A r \in Runs : runs'[r].done = runs[r].done
    BY <2>1, CancelStill
  <2>3. Over'
    BY <2>1, <2>2 DEF IInv, Over, Alive, Active, Still
  <2> QED BY <2>1, <2>2, <2>3, KeepInv DEF IInv, LoopTypes
<1> QED BY <1>1, <1>2

\* A command keeps the invariant: a run that is over is forgotten before it, with
\* its events written, and no other is.
LEMMA CommandInv ==
  ASSUME IInv, NEW line, Receive(line), run' = RunAfterHarvest,
         Still, \A r \in Runs : runs'[r].done = runs[r].done,
         UNCHANGED <<running, pending>>, reply' \in Replies, ctxDone' \in BOOLEAN,
         mainPc' \in {"replySend", "failing", "shutdown"},
         mainPc' = "replySend" => RunAfterHarvest # NoRun
  PROVE  IInv'
<1>1. CASE RunEnded
  <2>1. events' = <<>> /\ run' = NoRun
    BY <1>1 DEF Receive, Drain, RunAfterHarvest
  <2>2. mainPc' \in {"failing", "shutdown"}
    BY <1>1 DEF RunAfterHarvest
  <2> QED BY <1>1, <2>1, <2>2, ForgetInv
<1>2. CASE ~RunEnded
  <2>1. UNCHANGED <<run, events>> /\ Alive
    BY <1>2 DEF Receive, RunAfterHarvest, Selecting, Alive
  <2>2. Over'
    BY <1>2, <2>1 DEF IInv, Over, Alive, RunAfterHarvest
  <2> QED BY <2>1, <2>2, KeepInv
<1> QED BY <1>1, <1>2

\* A run is started where there is none.
LEMMA StartIs ==
  ASSUME IInv, NEW m \in RunModes, StartCommand(m)
  PROVE  /\ \A r \in Runs : ~Active(r)
         /\ ~running /\ pending = NoRun /\ mainPc = "select"
         /\ run' \in Runs /\ runs' \in [Runs -> Goroutines]
         /\ runs'[run'].pc = "start" /\ runs'[run'].done = "none"
         /\ runs'[run'].cancelled = ctxDone
         /\ \A r \in Runs \ {run'} : runs'[r] = runs[r]
         /\ UNCHANGED <<running, pending, reply, mainPc, ctxDone>>
<1> DEFINE g == [NoGoroutine EXCEPT !.pc = "start", !.mode = m, !.cancelled = ctxDone,
                                    !.canCompact = (m # "compact")]
<1>1. RunEnded \/ run = NoRun
  BY DEF StartCommand, RunAfterHarvest
<1>2. (\A r \in Runs : ~Active(r)) /\ ~running /\ pending = NoRun
  BY <1>1, Ended
<1>3. IdleRuns = Runs
  BY <1>2 DEF IdleRuns
<1>4. Some(IdleRuns) \in Runs
  BY <1>3, Numbers DEF Some
<1>5. /\ runs' = [runs EXCEPT ![run'] = g] /\ run' \in Runs
      /\ UNCHANGED <<running, pending, reply, mainPc, ctxDone>> /\ mainPc = "select"
  BY <1>4 DEF StartCommand, StartDriverRun, Receive, Selecting, requestVars
<1>6. /\ g.pc = "start" /\ g.done = "none" /\ g.cancelled = ctxDone /\ g \in Goroutines
      /\ runs \in [Runs -> Goroutines]
  BY DEF IInv, LoopTypes, NoGoroutine, Goroutines, RunPcs, RunModes
<1> HIDE DEF g
<1> QED BY <1>2, <1>5, <1>6

\* It is then the one the loop knows of.
LEMMA StartInv ==
  ASSUME IInv, NEW m \in RunModes, StartCommand(m)
  PROVE  IInv'
<1>1. LoopTypes'
  BY StartIs DEF IInv, LoopTypes
<1>2. OneRun'
  BY StartIs DEF IInv, LoopTypes, OneRun, Active
<1>3. Over'
  BY StartIs, Numbers DEF Over, Alive
<1> QED BY <1>1, <1>2, <1>3 DEF IInv

\* Reply hands its text to the run that waits for it, which is the loop's.
LEMMA ReplySentInv ==
  ASSUME IInv, ReplySent
  PROVE  IInv'
<1>1. /\ replyTo \in Runs /\ runs[replyTo].pc = "await"
      /\ runs' = [runs EXCEPT ![replyTo].pc = "received"]
      /\ mainPc = "replySend" /\ mainPc' = "replyWait"
      /\ UNCHANGED <<running, pending, reply, run, ctxDone>>
  BY DEF ReplySent, HandOver, requestVars
<1>2. /\ runs' \in [Runs -> Goroutines]
      /\ runs'[replyTo].pc = "received" /\ runs'[replyTo].done = runs[replyTo].done
      /\ \A r \in Runs \ {replyTo} : runs'[r] = runs[r]
  <2>1. "received" \in RunPcs
    BY DEF RunPcs
  <2> QED BY <1>1, <2>1 DEF IInv, LoopTypes, Goroutines
<1>3. LoopTypes'
  BY <1>1, <1>2 DEF IInv, LoopTypes
<1>4. OneRun'
  BY <1>1, <1>2 DEF IInv, LoopTypes, OneRun, Active
<1>5. Over'
  BY <1>1 DEF IInv, Over
<1> QED BY <1>3, <1>4, <1>5 DEF IInv

\* What the loop does keeps the invariant.
LEMMA MainInv ==
  ASSUME IInv, Main
  PROVE  IInv'
<1> USE DEF requestVars, readerVars, clientVars
<1> /\ ctxDone \in BOOLEAN /\ reply \in Replies /\ run \in Runs \cup {NoRun}
    /\ runs \in [Runs -> Goroutines]
  BY DEF IInv, LoopTypes
<1>1. CASE FailReturns
  <2>1. /\ UNCHANGED <<runs, running, pending, reply, run, ctxDone>> /\ mainPc' = "exited"
        /\ RunEnded \/ run = NoRun
    BY <1>1 DEF FailReturns, Exit, RunJoined, RunEnded
  <2>2. Still /\ Over'
    BY <2>1, Ended DEF Still, Over, Alive, Active
  <2> QED BY <2>1, <2>2, KeepInv
<1>2. CASE ShutdownReturns
  <2>1. UNCHANGED <<runs, running, pending, reply, run, ctxDone>> /\ mainPc' = "exited"
        /\ mainPc = "joinReader"
    BY <1>2 DEF ShutdownReturns, Exit, driverVars
  <2>2. Still /\ Over'
    BY <2>1 DEF IInv, Still, Over, Alive, Active
  <2> QED BY <2>1, <2>2, KeepInv
<1>3. CASE LoopEnds
  <2>1. UNCHANGED <<runs, running, pending, reply, run, ctxDone>> /\ mainPc' = "exited"
        /\ run = NoRun
    BY <1>3 DEF LoopEnds, Exit, driverVars
  <2>2. Still /\ Over'
    BY <2>1, Ended DEF Still, Over, Alive, Active
  <2> QED BY <2>1, <2>2, KeepInv
<1>4. CASE InputsEnd
  <2>1. /\ UNCHANGED <<running, pending, reply, run, ctxDone, mainPc, events>>
        /\ mainPc = "select" /\ (cancelRun \/ UNCHANGED runs)
    BY <1>4 DEF InputsEnd, Selecting
  <2>2. Still /\ \A r \in Runs : runs'[r].done = runs[r].done
    BY <2>1, CancelStill DEF Still
  <2>3. Over'
    BY <2>1 DEF IInv, Over, Alive
  <2> QED BY <2>1, <2>2, <2>3, KeepInv
<1>5. CASE CtxDone
  <2>1. /\ UNCHANGED <<running, pending, reply, run, ctxDone, events>>
        /\ mainPc = "select" /\ mainPc' = "failing" /\ cancelRun
    BY <1>5 DEF CtxDone, Selecting, Fail
  <2>2. Over'
    BY <2>1 DEF IInv, Over, Alive
  <2> QED BY <2>1, <2>2, CancelStill, KeepInv
<1>6. ASSUME NEW written \in BOOLEAN, WriteEvent(written) PROVE IInv'
  <2>1. /\ UNCHANGED <<running, pending, reply, run, ctxDone>>
        /\ mainPc = "select" /\ events # <<>> /\ mainPc' \in {"select", "failing"}
        /\ cancelRun \/ UNCHANGED runs
    BY <1>6 DEF WriteEvent, Selecting, Fail
  <2>2. Still /\ \A r \in Runs : runs'[r].done = runs[r].done
    BY <2>1, CancelStill DEF Still
  <2>3. Over'
    BY <2>1 DEF IInv, Over, Alive
  <2> QED BY <2>1, <2>2, <2>3, KeepInv
<1>7. ASSUME NEW written \in BOOLEAN, RunEnds(written) \/ HarvestFails(written) PROVE IInv'
  <2>1. /\ UNCHANGED <<running, pending, reply, ctxDone>> /\ run' = NoRun /\ events' = <<>>
        /\ RunEnded /\ mainPc' \in {"select", "exited"}
        /\ runs' = [runs EXCEPT ![run].done = "none"]
    BY <1>7 DEF RunEnds, HarvestFails, Drain, Exit, Selecting, TakeResult
  <2>2. Still
    BY <2>1 DEF RunEnded, Still, Goroutines
  <2> QED BY <2>1, <2>2, ForgetInv
<1>8. ASSUME NEW written \in BOOLEAN, ShutdownJoinsRun(written) PROVE IInv'
  <2>1. /\ UNCHANGED <<runs, running, pending, reply, run, ctxDone>> /\ events' = <<>>
        /\ mainPc' \in {"joinReader", "exited"} /\ (RunEnded \/ run = NoRun)
    BY <1>8 DEF ShutdownJoinsRun, Exit, Drain, RunJoined, RunEnded
  <2>2. Still /\ Over'
    BY <2>1, Ended DEF Still, Over, Alive, Active
  <2> QED BY <2>1, <2>2, KeepInv
<1>9. ASSUME NEW m \in RunModes, StartRefused(m) PROVE IInv'
  <2>1. /\ Receive(m) /\ cancelRun /\ run' = RunAfterHarvest /\ mainPc' = "failing"
        /\ UNCHANGED <<running, pending, reply, ctxDone>>
    BY <1>9 DEF StartRefused, Refuse, Fail
  <2> QED BY <2>1, CancelStill, CommandInv
<1>10. ASSUME NEW text \in Replies, ReplyCommand(text) PROVE IInv'
  <2>1. /\ Receive(text) /\ UNCHANGED <<runs, running, pending, ctxDone>> /\ reply' = text
        /\ run' = RunAfterHarvest /\ mainPc' = "replySend" /\ pending # NoRun
    BY <1>10 DEF ReplyCommand, TakeHold
  <2>2. RunAfterHarvest # NoRun
    BY <2>1, Ended DEF RunAfterHarvest
  <2>3. Still
    BY <2>1 DEF Still
  <2> QED BY <2>1, <2>2, <2>3, CommandInv
<1>11. ASSUME NEW text \in Replies, ReplyWithoutRequest(text) PROVE IInv'
  <2>1. /\ Receive(text) /\ cancelRun /\ run' = RunAfterHarvest /\ mainPc' = "failing"
        /\ UNCHANGED <<running, pending, reply, ctxDone>>
    BY <1>11 DEF ReplyWithoutRequest, Refuse, Fail
  <2> QED BY <2>1, CancelStill, CommandInv
<1>12. CASE BadLine
  <2>1. /\ Receive("bad") /\ cancelRun /\ run' = RunAfterHarvest /\ mainPc' = "failing"
        /\ UNCHANGED <<running, pending, reply, ctxDone>>
    BY <1>12 DEF BadLine, Refuse, Fail
  <2> QED BY <2>1, CancelStill, CommandInv
<1>13. CASE ShutdownCommand
  <2>1. /\ Receive("shutdown") /\ cancelRun /\ run' = RunAfterHarvest /\ mainPc' = "shutdown"
        /\ UNCHANGED <<running, pending, reply>> /\ ctxDone' = TRUE
    BY <1>13 DEF ShutdownCommand
  <2> QED BY <2>1, CancelStill, CommandInv
<1>14. CASE ReplyReturns
  <2>1. /\ UNCHANGED <<runs, running, pending, reply, run, ctxDone, events>>
        /\ mainPc = "replyWait" /\ mainPc' = "select"
    BY <1>14 DEF ReplyReturns, LetGo
  <2>2. Still /\ Over'
    BY <2>1 DEF IInv, Still, Over, Alive
  <2> QED BY <2>1, <2>2, KeepInv
<1>15. CASE ReplyFails
  <2>1. /\ UNCHANGED <<running, pending, reply, run, ctxDone, events>> /\ cancelRun
        /\ mainPc \in {"replySend", "replyWait"} /\ mainPc' = "failing"
    BY <1>15 DEF ReplyFails, LetGo, Fail
  <2>2. Over'
    BY <2>1 DEF IInv, Over, Alive
  <2> QED BY <2>1, <2>2, CancelStill, KeepInv
<1> QED
  BY <1>1, <1>2, <1>3, <1>4, <1>5, <1>6, <1>7, <1>8, <1>9, <1>10, <1>11, <1>12, <1>13,
     <1>14, <1>15, StartInv, ReplySentInv DEF Main

\* Every step keeps the invariant.
LEMMA InvStep == IInv /\ [Next]_vars => IInv'
<1> SUFFICES ASSUME IInv, [Next]_vars PROVE IInv'
  OBVIOUS
<1>1. CASE Alive /\ (Client \/ Interrupt \/ Reader)
  BY <1>1, OthersInv
<1>2. CASE Alive /\ Main
  BY <1>2, MainInv
<1>3. CASE Alive /\ RunGoroutine
  BY <1>3, RunInv
<1>4. CASE UNCHANGED vars
  BY <1>4 DEF vars, driverVars, requestVars, loopVars, IInv, LoopTypes, OneRun, Over,
     Alive, Active
<1> QED BY <1>1, <1>2, <1>3, <1>4 DEF Next, Exited

\* The invariant holds in every state of every behaviour.
LEMMA Invariance == Spec => []IInv
BY InvStep, InitInv, PTL DEF Spec

-----------------------------------------------------------------------------
(* Results *)

\* Whatever the client writes, and whenever it stops, no run outlives the one
\* runJSONL waits for: between runs there is none, with its request, its flag
\* and its events, and none is left when runMain saves the messages
\* (drainDriverEvents, cancelAndWait, cmd/clnkrd/main.go).
THEOREM NothingOutlivesRunAlways == Spec => []NothingOutlivesRun
<1>1. ASSUME IInv PROVE NothingOutlivesRun
  <2>1. CASE run = NoRun /\ Alive
    BY <1>1, <2>1, Ended DEF IInv, Over, NothingOutlivesRun
  <2>2. CASE ~Alive
    BY <1>1, <2>2 DEF IInv, Over, Alive, NothingOutlivesRun
  <2>3. CASE run # NoRun /\ Alive
    BY <2>3 DEF NothingOutlivesRun
  <2> QED BY <2>1, <2>2, <2>3
<1> QED BY <1>1, Invariance, PTL

-----------------------------------------------------------------------------
(* The types, which need the invariant: a run is started in a free place *)

\* What LoopTypes leaves of the types.
RestTypes ==
  /\ events \in Seq(Events) /\ Len(events) <= EventCap
  /\ replyTo \in Runs \cup {NoRun, Closed}
  /\ readerPc \in {"scan", "send", "done"} /\ held \in Lines
  /\ inputs \in {<<>>} \cup {<<l>> : l \in Lines}
  /\ inputsClosed \in BOOLEAN /\ interrupted \in BOOLEAN /\ stdin \in {"open", "closed", "closedInRead"}
  /\ exitCode \in {"none", "0", "1", "130"} /\ lines \in 0 .. MaxLines
  /\ view \in Views /\ refused \in {"none", "run", "reply"}

\* The kinds of events.
LEMMA EventsAre ==
  /\ Events = [run : Runs, kind : {"request", "refusal", "compacted", "done",
                                   "compaction", "error"}]
  /\ <<>> \in Seq(Events) /\ Len(<<>>) = 0
<1>1. Emitting = {"emitRequest", "emitRefusal", "emitCompacted", "emitDone",
                  "emitCompaction", "emitError", "emitBusy"}
  BY DEF Emitting, EventOf
<1>2. {EventOf[e] : e \in Emitting}
        = {"request", "refusal", "compacted", "done", "compaction", "error"}
  BY <1>1 DEF EventOf
<1>3. <<>> \in Seq(Events) /\ Len(<<>>) = 0
  OBVIOUS
<1>4. Events = [run : Runs, kind : {"request", "refusal", "compacted", "done",
                                    "compaction", "error"}]
  BY <1>2, Zenon DEF Events
<1> QED BY <1>3, <1>4

\* Writing events leaves the client with one of its views.
LEMMA SeenType ==
  ASSUME view \in Views, NEW evs \in Seq(Events)
  PROVE  ViewAfterSeeing(evs) \in Views
<1>1. CASE evs = <<>> \/ view = "rude"
  BY <1>1 DEF ViewAfterSeeing
<1>2. CASE evs # <<>> /\ view # "rude"
  <2>1. evs[Len(evs)] \in Events
    BY <1>2
  <2>2. evs[Len(evs)].kind \in {"request", "refusal", "compacted", "done", "compaction", "error"}
    BY <2>1, EventsAre
  <2> QED BY <1>2, <2>2 DEF ViewAfterSeeing, Views
<1> QED BY <1>1, <1>2

\* Taking the first event off the channel.
LEMMA HeadOff ==
  ASSUME events \in Seq(Events), Len(events) <= EventCap, events # <<>>
  PROVE  /\ <<Head(events)>> \in Seq(Events)
         /\ Tail(events) \in Seq(Events) /\ Len(Tail(events)) <= EventCap
<1>1. Len(events) \in Nat /\ EventCap \in Nat /\ Len(events) >= 1
  BY EventCapAssumption
<1>2. Head(events) \in Events /\ Tail(events) \in Seq(Events)
      /\ Len(Tail(events)) = Len(events) - 1
  OBVIOUS
<1> QED BY <1>1, <1>2

\* The client, the reader and the signal keep the types.
LEMMA OthersTypes ==
  ASSUME LoopTypes, RestTypes, Client \/ Interrupt \/ Reader
  PROVE  RestTypes'
<1>1. ASSUME NEW line \in Lines, ClientWrites(line) PROVE RestTypes'
  <2>1. lines' \in 0 .. MaxLines
    BY <1>1, LinesAssumption DEF ClientWrites, RestTypes
  <2>2. ViewAfterWriting(line) \in Views
    BY DEF ViewAfterWriting, Views, RestTypes
  <2> QED
    BY <1>1, <2>1, <2>2 DEF ClientWrites, RestTypes, driverVars, requestVars, loopVars
<1>2. CASE ClientClosesStdin
  BY <1>2 DEF ClientClosesStdin, RestTypes, driverVars, requestVars, loopVars, clientVars
<1>3. CASE ReaderSends
  BY <1>3 DEF ReaderSends, RestTypes, driverVars, requestVars, loopVars, clientVars, Lines
<1>4. CASE ReaderGivesUp
  BY <1>4 DEF ReaderGivesUp, RestTypes, driverVars, requestVars, loopVars, clientVars, Lines
<1>5. CASE Interrupt
  BY <1>5 DEF Interrupt, RestTypes, requestVars, readerVars, loopVars, clientVars
<1> QED BY <1>1, <1>2, <1>3, <1>4, <1>5 DEF Client, Reader

\* A run keeps them: it sends events of its kinds while there is room.
LEMMA RunTypes ==
  ASSUME LoopTypes, RestTypes, RunGoroutine
  PROVE  RestTypes'
<1>1. PICK r \in Runs : RunStep(r)
  BY DEF RunGoroutine
<1>2. /\ events' = events \/ (events' = Append(events, SentBy(r)) /\ Len(events) < EventCap
                              /\ runs[r].pc \in Emitting)
      /\ replyTo' = replyTo \/ replyTo' = Closed
  BY <1>1 DEF RunStep, RunStarts, WorkBegins, WorkEnds, WorkCompacts, WorkAsks, RequestReply,
     ReplyReceived, AwaitCancelled, Emit, EmitDropped, RunReturns, clearPending, requestVars
<1>3. events' \in Seq(Events) /\ Len(events') <= EventCap
  <2>1. runs[r].pc \in Emitting => SentBy(r) \in Events
    BY DEF SentBy, Events
  <2>2. events \in Seq(Events) /\ Len(events) \in Nat /\ EventCap \in Nat /\ Len(events) <= EventCap
    BY EventCapAssumption DEF RestTypes
  <2> QED BY <1>2, <2>1, <2>2
<1>4. UNCHANGED <<readerVars, inputs, loopVars, interrupted, clientVars>>
  BY DEF RunGoroutine
<1> QED
  BY <1>2, <1>3, <1>4 DEF RestTypes, readerVars, loopVars, clientVars

\* So does the loop.
LEMMA MainTypes ==
  ASSUME LoopTypes, RestTypes, Main
  PROVE  RestTypes'
<1> USE DEF requestVars, readerVars, clientVars
<1>1. /\ events' \in {events, <<>>} \/ (events # <<>> /\ events' = Tail(events))
      /\ \/ view' = view \/ view' = ViewAfterSeeing(events)
         \/ events # <<>> /\ view' = ViewAfterSeeing(<<Head(events)>>)
  BY DEF Main, FailReturns, ShutdownReturns, LoopEnds, InputsEnd, CtxDone, WriteEvent, Wrote,
     RunEnds, HarvestFails, ShutdownJoinsRun, StartCommand, StartRefused, ReplyCommand,
     ReplyWithoutRequest, BadLine, ShutdownCommand, ReplySent, ReplyReturns, ReplyFails,
     Receive, Drain, HandOver, driverVars, LetGo, TakeHold
<1>2. events' \in Seq(Events) /\ Len(events') <= EventCap /\ view' \in Views
  <2>1. events \in Seq(Events) /\ Len(events) <= EventCap /\ view \in Views /\ 0 <= EventCap
    BY EventCapAssumption DEF RestTypes
  <2>2. <<>> \in Seq(Events) /\ Len(<<>>) = 0
    BY EventsAre
  <2> QED BY <1>1, <2>1, <2>2, HeadOff, SeenType
<1>3. /\ replyTo' \in {replyTo, pending, NoRun}
      /\ inputs' \in {inputs, <<>>} /\ UNCHANGED <<readerPc, held, interrupted, lines>>
      /\ inputsClosed' \in {inputsClosed, TRUE} /\ stdin' \in {stdin, "closed", "closedInRead"}
      /\ exitCode' \in {exitCode, "0", "1", "130"} /\ refused' \in {refused, "run", "reply"}
  BY DEF Main, FailReturns, ShutdownReturns, LoopEnds, InputsEnd, CtxDone, WriteEvent, Wrote,
     RunEnds, HarvestFails, ShutdownJoinsRun, StartCommand, StartRefused, ReplyCommand,
     ReplyWithoutRequest, BadLine, ShutdownCommand, CloseStdin, ReplySent, ReplyReturns,
     ReplyFails, Receive, Drain, HandOver, driverVars, LetGo, TakeHold, Exit, ErrorCode, Fail, Refuse,
     loopVars
<1>4. replyTo' \in Runs \cup {NoRun, Closed} /\ inputs' \in {<<>>} \cup {<<l>> : l \in Lines}
  BY <1>3 DEF LoopTypes, RestTypes
<1>5. /\ readerPc' \in {"scan", "send", "done"} /\ held' \in Lines /\ lines' \in 0 .. MaxLines
      /\ interrupted' \in BOOLEAN /\ inputsClosed' \in BOOLEAN /\ stdin' \in {"open", "closed", "closedInRead"}
  BY <1>3 DEF RestTypes
<1>6. exitCode' \in {"none", "0", "1", "130"} /\ refused' \in {"none", "run", "reply"}
  BY <1>3 DEF RestTypes
<1> QED BY <1>2, <1>4, <1>5, <1>6 DEF RestTypes

\* They hold at first.
LEMMA InitTypes == Init => RestTypes
<1>1. /\ 0 <= EventCap /\ 0 \in 0 .. MaxLines /\ "bad" \in Lines /\ "idle" \in Views
      /\ <<>> \in Seq(Events) /\ Len(<<>>) = 0 /\ NoRun \in {NoRun, Closed}
  BY EventsAre, EventCapAssumption, LinesAssumption DEF Lines, Views
<1> QED BY <1>1 DEF Init, DriverInit, RestTypes

\* Every step of the system keeps them.
LEMMA TypesStep == LoopTypes /\ RestTypes /\ [Next]_vars => RestTypes'
<1> SUFFICES ASSUME LoopTypes, RestTypes, [Next]_vars PROVE RestTypes'
  OBVIOUS
<1>1. CASE Next
  BY <1>1, OthersTypes, MainTypes, RunTypes DEF Next, Exited, vars, RestTypes, driverVars,
     requestVars, readerVars, loopVars, clientVars
<1>2. CASE UNCHANGED vars
  BY <1>2 DEF vars, RestTypes, driverVars, requestVars, readerVars, loopVars, clientVars
<1> QED BY <1>1, <1>2

\* The types hold in every state.
LEMMA TypesInvariance == Spec => [](IInv /\ RestTypes)
<1>1. Init => IInv /\ RestTypes
  BY InitInv, InitTypes
<1>2. IInv /\ RestTypes /\ [Next]_vars => IInv' /\ RestTypes'
  BY InvStep, TypesStep DEF IInv
<1> QED BY <1>1, <1>2, PTL DEF Spec

\* The loop and the driver keep their types, and no channel takes more than its
\* capacity.
THEOREM TypeCorrect == Spec => []ClnkrdTypeOK
<1>1. IInv /\ RestTypes => ClnkrdTypeOK
  BY DEF IInv, LoopTypes, RestTypes, ClnkrdTypeOK, DriverTypeOK
<1> QED BY <1>1, TypesInvariance, PTL

-----------------------------------------------------------------------------
(* What a polite client knows *)

Serving == {"select", "replySend", "replyWait"}

\* Lines the client must not write before its view says so.
Asking == RunModes \cup Replies

\* A line of these is on its way to the loop.
Sent(L) == (readerPc = "send" /\ held \in L) \/ (\E l \in L : inputs = <<l>>)

Finals == {"compaction", "done", "error"}

\* The run has sent all it will, and owes at most its result.
Finished == run = NoRun \/ runs[run].pc \in {"none", "returnOk", "returnErr"}

\* The run waits for an answer, and only an answer moves it.
Waiting ==
  run # NoRun /\ pending = run /\ runs[run].pc = "await" /\ ~runs[run].cancelled

Polite == view # "rude" /\ ~ctxDone /\ mainPc \in Serving

\* One line that asks for something is on its way at most, and while it is
\* nothing changes that it was written for.
LineInv ==
  /\ ~(readerPc = "send" /\ held \in Asking /\ \E l \in Asking : inputs = <<l>>)
  /\ Sent(RunModes) => mainPc = "select" /\ view = "running" /\ events = <<>> /\ Finished
  /\ Sent(Replies) => mainPc = "select" /\ view = "running" /\ events = <<>> /\ Waiting

\* What the client has read is the latest of what the run did, where it matters.
ViewInv ==
  /\ view = "idle" => mainPc = "select" /\ events = <<>> /\ Finished
  /\ view = "asked" => mainPc = "select" /\ (inputsClosed \/ (events = <<>> /\ Waiting))
  /\ mainPc \in {"replySend", "replyWait"} => view = "running" /\ ~inputsClosed
  /\ mainPc = "replySend" => events = <<>> /\ Waiting /\ replyTo = run

\* Nothing follows a run's last event, nor a request while it is unanswered.
EventInv ==
  \A i \in DOMAIN events :
    /\ events[i].kind \in Finals => i = Len(events) /\ Finished
    /\ events[i].kind = "request" => inputsClosed \/ (i = Len(events) /\ Waiting)

\* A run that ended well has said so.
ToldInv ==
  run = NoRun \/ runs[run].pc = "returnOk" \/ runs[run].done = "ok" =>
    Sent(RunModes) \/ ViewAfterSeeing(events) = "idle"

PoliteInv == Polite =>
  /\ inputsClosed \/ run = NoRun \/ ~runs[run].cancelled
  /\ LineInv /\ ViewInv /\ EventInv /\ ToldInv

\* How the loop's own variables go together, for every client.
LoopInv ==
  /\ inputsClosed => readerPc = "done" /\ inputs = <<>>
  /\ ctxDone => interrupted \/ mainPc \notin Serving
  /\ mainPc \in {"shutdown", "joinReader"} => ctxDone
  /\ Alive => exitCode = "none"
  /\ \A r \in Runs : runs[r].pc \in {"emitRequest", "await", "received"} => pending = r

ServedInv ==
  IInv /\ RestTypes /\ LoopInv /\ PoliteInv /\ RepliesHonoured /\ EndsReported

\* What the view becomes depends on the last of the events alone.
LEMMA SeenIs ==
  ASSUME NEW evs \in Seq(Events)
  PROVE  /\ evs = <<>> \/ view = "rude" => ViewAfterSeeing(evs) = view
         /\ evs # <<>> /\ view # "rude" =>
              /\ Len(evs) \in DOMAIN evs
              /\ ViewAfterSeeing(evs) \in {"idle", "asked", "running"}
              /\ ViewAfterSeeing(evs) = "idle" <=> evs[Len(evs)].kind \in Finals
              /\ ViewAfterSeeing(evs) = "asked" <=> evs[Len(evs)].kind = "request"
<1>1. CASE evs = <<>> \/ view = "rude"
  BY <1>1 DEF ViewAfterSeeing
<1>2. CASE evs # <<>> /\ view # "rude"
  <2>1. evs[Len(evs)] \in Events /\ Len(evs) \in DOMAIN evs
    BY <1>2
  <2>2. evs[Len(evs)].kind \in {"request", "refusal", "compacted", "done", "compaction", "error"}
    BY <2>1, EventsAre
  <2> QED BY <1>2, <2>1, <2>2 DEF ViewAfterSeeing, Finals
<1> QED BY <1>1, <1>2

\* The channel of lines has one of them at most.
LEMMA OneLine == \A l, m : <<l>> # <<>> /\ (<<l>> = <<m>> => l = m)
OBVIOUS

\* The kinds of lines.
LEMMA LineKinds ==
  /\ \A l \in RunModes : l \notin Replies /\ l # "shutdown" /\ l # "bad" /\ l \in Asking
  /\ \A l \in Replies : l # "shutdown" /\ l # "bad" /\ l \in Asking
BY DEF RunModes, Replies, Asking

\* A line that is on its way was written, and is of one kind.
LEMMA SentIs ==
  ASSUME LoopInv, Polite, PoliteInv
  PROVE  /\ inputsClosed => ~Sent(Asking)
         /\ Sent(Asking) <=> Sent(RunModes) \/ Sent(Replies)
         /\ view # "running" => ~Sent(Asking)
         /\ mainPc # "select" => ~Sent(Asking)
<1>1. Sent(Asking) <=> Sent(RunModes) \/ Sent(Replies)
  BY DEF Sent, Asking
<1>2. inputsClosed => ~Sent(Asking)
  BY OneLine DEF LoopInv, Sent
<1> QED BY <1>1, <1>2 DEF PoliteInv, LineInv

\* A run that waits is active and has not ended.
LEMMA WaitingIs ==
  ASSUME IInv, Waiting
  PROVE  /\ run \in Runs /\ runs[run].done = "none" /\ run # NoRun
         /\ pending = run /\ runs[run].pc = "await" /\ ~runs[run].cancelled
         /\ ~Finished /\ ~RunEnded
<1>1. run \in Runs /\ run # NoRun /\ runs[run].pc = "await" /\ pending = run
      /\ ~runs[run].cancelled
  BY DEF IInv, LoopTypes, Waiting
<1> QED BY <1>1 DEF IInv, OneRun, Active, Finished, RunEnded

\* A client that writes a line its view calls for stays polite, and the line
\* will find what it was written for.
LEMMA WritePolite ==
  ASSUME ServedInv, Alive, NEW line \in Lines, ClientWrites(line)
  PROVE  PoliteInv'
<1> SUFFICES ASSUME Polite' PROVE PoliteInv'
  BY DEF PoliteInv
<1>1. /\ readerPc = "scan" /\ readerPc' = "send" /\ held' = line /\ inputs' = inputs
      /\ view' = ViewAfterWriting(line)
      /\ UNCHANGED <<runs, pending, replyTo, events, mainPc, run, inputsClosed, ctxDone>>
  BY DEF ClientWrites, CanRead, driverVars, requestVars, loopVars
<1>2. view # "rude" /\ Polite /\ ~inputsClosed
  BY <1>1 DEF Polite, ViewAfterWriting, ServedInv, LoopInv
<1>3. /\ inputsClosed \/ run = NoRun \/ ~runs[run].cancelled
      /\ LineInv /\ ViewInv /\ EventInv /\ ToldInv /\ LoopInv /\ events \in Seq(Events)
  BY <1>2 DEF ServedInv, PoliteInv, RestTypes
<1>4. /\ Finished' = Finished /\ Waiting' = Waiting /\ EventInv'
      /\ inputsClosed' \/ run' = NoRun \/ ~runs'[run'].cancelled
  BY <1>1, <1>3 DEF Finished, Waiting, EventInv
<1>5. CASE line \in RunModes
  <2>1. view = "idle" /\ view' = "running"
    BY <1>1, <1>5, LineKinds DEF ViewAfterWriting, Polite
  <2>2. ~Sent(Asking) /\ mainPc = "select" /\ events = <<>> /\ Finished
    BY <1>2, <1>3, <2>1, SentIs DEF ViewInv, ServedInv
  <2>3. ~(\E l \in Asking : inputs' = <<l>>) /\ ~Sent(Replies)' /\ Sent(RunModes)'
    BY <1>1, <1>5, <2>2, LineKinds DEF Sent, Asking
  <2> QED
    BY <1>1, <1>4, <2>1, <2>2, <2>3 DEF PoliteInv, LineInv, ViewInv, ToldInv
<1>6. CASE line \in Replies
  <2>1. view = "asked" /\ view' = "running"
    BY <1>1, <1>6, LineKinds DEF ViewAfterWriting, Polite
  <2>2. ~Sent(Asking) /\ mainPc = "select" /\ events = <<>> /\ Waiting
    BY <1>2, <1>3, <2>1, SentIs DEF ViewInv, ServedInv
  <2>3. ~(\E l \in Asking : inputs' = <<l>>) /\ ~Sent(RunModes)' /\ Sent(Replies)'
    BY <1>1, <1>6, <2>2, LineKinds DEF Sent, Asking
  <2>4. ToldInv'
    BY <1>1, <2>2, WaitingIs DEF ServedInv, Waiting, ToldInv
  <2> QED
    BY <1>1, <1>4, <2>1, <2>2, <2>3, <2>4 DEF PoliteInv, LineInv, ViewInv
<1>7. CASE line \notin RunModes \cup Replies
  <2>1. line = "shutdown" /\ view' = view
    BY <1>1, <1>7 DEF ViewAfterWriting, Polite, Lines
  <2>2. \A L \in {RunModes, Replies} : Sent(L)' => Sent(L)
    BY <1>1, <1>7, <2>1 DEF Sent
  <2>3. /\ Sent(RunModes)' => Sent(RunModes)
        /\ Sent(Replies)' => Sent(Replies)
        /\ Sent(RunModes) => Sent(RunModes)'
    BY <1>1, <1>7, <2>1, <2>2 DEF Sent
  <2>4. LineInv' /\ ViewInv'
    BY <1>1, <1>3, <1>4, <1>7, <2>1, <2>3 DEF LineInv, ViewInv, Asking
  <2>5. ToldInv'
    BY <1>1, <1>3, <2>1, <2>3 DEF ToldInv, ViewAfterSeeing
  <2> QED BY <1>4, <2>4, <2>5 DEF PoliteInv
<1> QED BY <1>5, <1>6, <1>7

\* The client, the reader and the signal.
LEMMA OthersServed ==
  ASSUME ServedInv, Alive, Client \/ Interrupt \/ Reader
  PROVE  LoopInv' /\ PoliteInv' /\ RepliesHonoured' /\ EndsReported'
<1> USE DEF driverVars, requestVars, loopVars, clientVars, readerVars
<1> exitCode = "none"
  BY DEF ServedInv, LoopInv
<1>1. ASSUME NEW line \in Lines, ClientWrites(line)
      PROVE  LoopInv' /\ PoliteInv' /\ RepliesHonoured' /\ EndsReported'
  <2>1. PoliteInv'
    BY <1>1, WritePolite
  <2>2. LoopInv'
    BY <1>1 DEF ClientWrites, CanRead, ServedInv, LoopInv, Alive
  <2>3. line = "shutdown" => line \notin RunModes /\ line \notin Replies
    BY LineKinds
  <2>4. view = "rude" => view' = "rude"
    BY <1>1, <2>3 DEF ClientWrites, ViewAfterWriting
  <2>5. RepliesHonoured' /\ EndsReported'
    BY <1>1, <2>4 DEF ClientWrites, ServedInv, RepliesHonoured, EndsReported
  <2> QED BY <2>1, <2>2, <2>5
<1>2. CASE Interrupt
  <2>1. ctxDone' /\ UNCHANGED <<pending, mainPc, readerPc, inputs, inputsClosed, exitCode, view,
                                refused>> /\ interrupted'
    BY <1>2 DEF Interrupt
  <2>2. \A r \in Runs : runs'[r].pc = runs[r].pc
    BY <1>2, CancelStill DEF Interrupt, cancelRun, ServedInv, Still
  <2>3. LoopInv'
    BY <2>1, <2>2 DEF ServedInv, LoopInv, Alive
  <2> QED BY <2>1, <2>3 DEF PoliteInv, Polite, RepliesHonoured, EndsReported
<1>3. CASE ClientClosesStdin \/ Reader
  <2>1. /\ UNCHANGED <<driverVars, loopVars, ctxDone, interrupted, clientVars>>
        /\ \/ readerPc' = "done" /\ inputs' = inputs /\ (readerPc = "send" => ctxDone)
           \/ readerPc = "send" /\ readerPc' \in {"scan", "done"} /\ inputs = <<>>
              /\ inputs' = <<held>>
    BY <1>3 DEF ClientClosesStdin, Reader, ReaderSends, ReaderGivesUp, CanRead
  <2>2. LoopInv' /\ RepliesHonoured' /\ EndsReported'
    BY <2>1 DEF ServedInv, LoopInv, Alive, RepliesHonoured, EndsReported
  <2>3. PoliteInv'
    <3> SUFFICES ASSUME Polite' PROVE PoliteInv'
      BY DEF PoliteInv
    <3>1. Polite /\ readerPc' \in {"scan", "done"}
      BY <2>1 DEF Polite
    <3>2. ASSUME NEW L PROVE Sent(L)' <=> Sent(L)
      <4>1. CASE readerPc' = "done" /\ inputs' = inputs /\ (readerPc = "send" => ctxDone)
        BY <4>1, <3>1 DEF Sent, Polite
      <4>2. CASE readerPc = "send" /\ readerPc' \in {"scan", "done"} /\ inputs = <<>>
                 /\ inputs' = <<held>>
        BY <4>2, OneLine DEF Sent
      <4> QED BY <2>1, <4>1, <4>2
    <3>3. /\ inputsClosed \/ run = NoRun \/ ~runs[run].cancelled
          /\ LineInv /\ ViewInv /\ EventInv /\ ToldInv
      BY <3>1 DEF ServedInv, PoliteInv
    <3>4. /\ Finished' = Finished /\ Waiting' = Waiting /\ EventInv'
          /\ ViewAfterSeeing(events)' = ViewAfterSeeing(events)
      BY <2>1, <3>3 DEF Finished, Waiting, EventInv, ViewAfterSeeing
    <3>5. Sent(RunModes)' = Sent(RunModes) /\ Sent(Replies)' = Sent(Replies)
      BY <3>2
    <3>6. LineInv'
      BY <2>1, <3>1, <3>3, <3>4, <3>5 DEF LineInv
    <3>7. ViewInv' /\ ToldInv'
      BY <2>1, <3>3, <3>4, <3>5 DEF ViewInv, ToldInv
    <3> QED BY <2>1, <3>3, <3>4, <3>6, <3>7 DEF PoliteInv
  <2> QED BY <2>2, <2>3
<1> QED BY <1>1, <1>2, <1>3 DEF Client

\* A run that is neither over nor waiting goes on: what it sends is what its
\* next place says.
MovesOn(to) ==
  /\ run \in Runs /\ ~Finished /\ ~Waiting
  /\ runs'[run].pc = to /\ runs'[run].cancelled = runs[run].cancelled
  /\ runs'[run].done = "none"
  /\ \/ events' = events /\ to # "returnOk"
     \/ \E e \in Events :
          /\ events' = Append(events, e)
          /\ e.kind \in Finals => to \in {"returnOk", "returnErr"}
          /\ e.kind = "request" => to = "await" /\ pending' = run
          /\ to = "returnOk" => e.kind \in Finals

\* Who asks, or is asked, is the registered run after the step too.
Registered ==
  \A s \in Runs : runs'[s].pc \in {"emitRequest", "await", "received"} => pending' = s

\* Such a step leaves a polite client with what it knows.
LEMMA MovePolite ==
  ASSUME ServedInv, NEW to, MovesOn(to),
         UNCHANGED <<readerVars, inputs, loopVars, ctxDone, interrupted, clientVars>>
  PROVE  PoliteInv'
<1> SUFFICES ASSUME Polite' PROVE PoliteInv'
  BY DEF PoliteInv
<1>1. UNCHANGED <<readerPc, held, inputs, mainPc, run, inputsClosed, ctxDone, view>>
  BY DEF readerVars, loopVars, clientVars
<1>2. Polite /\ view # "rude" /\ view' # "rude"
  BY <1>1 DEF Polite
<1>3. /\ inputsClosed \/ run = NoRun \/ ~runs[run].cancelled
      /\ LineInv /\ ViewInv /\ EventInv /\ ToldInv /\ events \in Seq(Events)
      /\ run # NoRun
  BY <1>2, Numbers DEF ServedInv, PoliteInv, RestTypes, MovesOn
<1>4. ~Sent(RunModes) /\ ~Sent(Replies) /\ view # "idle" /\ mainPc # "replySend"
      /\ (view = "asked" => inputsClosed)
  BY <1>3 DEF MovesOn, LineInv, ViewInv
<1>5. \A i \in DOMAIN events : /\ events[i].kind \notin Finals
                               /\ events[i].kind = "request" => inputsClosed
  BY <1>3 DEF MovesOn, EventInv
<1>6. ~Sent(RunModes)' /\ ~Sent(Replies)'
  BY <1>1, <1>4 DEF Sent
<1>7. LineInv' /\ ViewInv'
  BY <1>1, <1>3, <1>4, <1>6 DEF LineInv, ViewInv
<1>8. EventInv' /\ (to = "returnOk" => ViewAfterSeeing(events)' = "idle")
  <2>1. CASE events' = events /\ to # "returnOk"
    BY <1>1, <1>5, <2>1 DEF EventInv
  <2>2. ASSUME NEW e \in Events, events' = Append(events, e),
               e.kind \in Finals => to \in {"returnOk", "returnErr"},
               e.kind = "request" => to = "await" /\ pending' = run,
               to = "returnOk" => e.kind \in Finals
        PROVE  EventInv' /\ (to = "returnOk" => ViewAfterSeeing(events)' = "idle")
    <3>1. /\ events' \in Seq(Events) /\ Len(events') = Len(events) + 1 /\ Len(events) \in Nat
          /\ events'[Len(events')] = e /\ \A i \in DOMAIN events : events'[i] = events[i]
          /\ DOMAIN events' = 1 .. Len(events') /\ DOMAIN events = 1 .. Len(events)
          /\ events' # <<>>
      BY <1>3, <2>2
    <3>2. e.kind \in Finals => Finished'
      BY <1>1, <2>2 DEF MovesOn, Finished
    <3>3. e.kind = "request" => inputsClosed' \/ Waiting'
      BY <1>1, <1>3, <2>2 DEF MovesOn, Waiting
    <3>4. ASSUME NEW i \in DOMAIN events'
          PROVE  /\ events'[i].kind \in Finals => i = Len(events') /\ Finished'
                 /\ events'[i].kind = "request"
                      => inputsClosed' \/ (i = Len(events') /\ Waiting')
      <4>1. CASE i = Len(events')
        BY <3>1, <3>2, <3>3, <4>1
      <4>2. CASE i # Len(events')
        <5>1. i \in DOMAIN events
          BY <3>1, <4>2
        <5> QED BY <1>1, <1>5, <3>1, <5>1
      <4> QED BY <4>1, <4>2
    <3>5. EventInv'
      BY <3>4 DEF EventInv
    <3>6. to = "returnOk" => ViewAfterSeeing(events)' = "idle"
      <4>1. view # "rude" /\ events' # <<>> /\ view' = view
        BY <1>1, <1>2, <3>1
      <4>2. ViewAfterSeeing(events') = "idle" <=> e.kind \in Finals
        BY <3>1, <4>1, SeenIs
      <4>3. ViewAfterSeeing(events)' = ViewAfterSeeing(events')
        BY <4>1 DEF ViewAfterSeeing
      <4> QED BY <2>2, <4>2, <4>3
    <3> QED BY <3>5, <3>6
  <2> QED BY <2>1, <2>2 DEF MovesOn
<1>9. ToldInv'
  BY <1>1, <1>3, <1>8 DEF ToldInv, MovesOn
<1> QED BY <1>1, <1>3, <1>7, <1>8, <1>9 DEF PoliteInv, MovesOn

\* What each emit sends, and where it leads, sent or not.
LEMMA EmitKinds ==
  ASSUME NEW e \in Emitting, e # "emitBusy"
  PROVE  /\ EventOf[e] \in Finals => SentTo[e] \in {"returnOk", "returnErr"}
         /\ EventOf[e] = "request" => e = "emitRequest"
         /\ SentTo[e] = "returnOk" => EventOf[e] \in Finals
         /\ e = "emitRequest" <=> SentTo[e] = "await"
         /\ SentTo[e] \notin {"emitRequest", "received"}
         /\ DroppedTo[e] \in {"emitError", "returnErr"}
<1>1. e \in {"emitRequest", "emitRefusal", "emitCompacted", "emitDone",
             "emitCompaction", "emitError"}
  BY DEF Emitting, EventOf
<1> QED BY <1>1 DEF SentTo, DroppedTo, EventOf, Finals

\* A goroutine that goes elsewhere keeps all but its place.
LEMMA GoesTo ==
  ASSUME runs \in [Runs -> Goroutines], NEW r \in Runs, NEW to,
         \/ runs' = [runs EXCEPT ![r].pc = to]
         \/ runs' = [runs EXCEPT ![r].pc = to, ![r].canCompact = FALSE]
  PROVE  /\ runs'[r].pc = to /\ runs'[r].cancelled = runs[r].cancelled
         /\ runs'[r].done = runs[r].done
         /\ \A s \in Runs \ {r} : runs'[s] = runs[s]
<1>1. CASE runs' = [runs EXCEPT ![r].pc = to]
  BY <1>1 DEF Goroutines
<1>2. CASE runs' = [runs EXCEPT ![r].pc = to, ![r].canCompact = FALSE]
  <2> DEFINE moved == [runs EXCEPT ![r].pc = to]
  <2>1. /\ moved[r].pc = to /\ moved[r].cancelled = runs[r].cancelled
        /\ moved[r].done = runs[r].done /\ \A s \in Runs \ {r} : moved[s] = runs[s]
        /\ DOMAIN moved = Runs
        /\ DOMAIN moved[r] = {"pc", "mode", "cancelled", "canCompact", "done"}
    BY DEF Goroutines
  <2>2. runs' = [moved EXCEPT ![r].canCompact = FALSE]
    BY <1>2 DEF Goroutines
  <2> HIDE DEF moved
  <2> QED BY <2>1, <2>2
<1> QED BY <1>1, <1>2

\* A step of a run that does not return goes on.
LEMMA GoesOn ==
  ASSUME ServedInv, NEW r \in Runs, NEW to,
         runs[r].pc \notin {"none", "returnOk", "returnErr"},
         runs[r].pc # "await" \/ runs[r].cancelled,
         \/ runs' = [runs EXCEPT ![r].pc = to]
         \/ runs' = [runs EXCEPT ![r].pc = to, ![r].canCompact = FALSE],
         \/ events' = events /\ to # "returnOk"
         \/ \E e \in Events :
              /\ events' = Append(events, e)
              /\ e.kind \in Finals => to \in {"returnOk", "returnErr"}
              /\ e.kind = "request" => to = "await" /\ pending' = r
              /\ to = "returnOk" => e.kind \in Finals,
         to \in {"emitRequest", "await", "received"} => pending' = r
  PROVE  MovesOn(to) /\ Registered
<1>1. runs \in [Runs -> Goroutines]
  BY DEF ServedInv, IInv, LoopTypes
<1>2. r = run /\ runs[r].done = "none" /\ \A s \in Runs : s # r => runs[s].pc = "none"
  BY DEF ServedInv, IInv, OneRun, Active
<1>3. /\ runs'[r].pc = to /\ runs'[r].cancelled = runs[r].cancelled
      /\ runs'[r].done = runs[r].done /\ \A s \in Runs \ {r} : runs'[s] = runs[s]
  BY <1>1, GoesTo
<1>4. ~Finished /\ ~Waiting
  BY <1>2, Numbers DEF Finished, Waiting
<1> QED BY <1>2, <1>3, <1>4 DEF MovesOn, Registered

\* What a step of the run does: it goes on, or it returns.
LEMMA RunMoves ==
  ASSUME ServedInv, RunGoroutine
  PROVE  ((\E to : MovesOn(to)) \/ (run \in Runs /\ RunReturns(run))) /\ Registered
<1> DEFINE Goal == ((\E to : MovesOn(to)) \/ (run \in Runs /\ RunReturns(run))) /\ Registered
<1> SUFFICES Goal
  OBVIOUS
<1>1. PICK r \in Runs : RunStep(r)
  BY DEF RunGoroutine
<1>2. ASSUME NEW to, MovesOn(to), Registered
      PROVE  Goal
  BY <1>2
<1> HIDE DEF Goal
<1> USE DEF RunGoes, requestVars
<1>3. CASE RunStarts(r)
  <2>1. PICK to \in {"emitBusy", "loop"} : runs' = [runs EXCEPT ![r].pc = to]
    BY <1>3 DEF RunStarts
  <2> QED BY <1>2, <1>3, <2>1, GoesOn DEF RunStarts
<1>4. CASE WorkBegins(r)
  <2>1. PICK to \in {"emitError", "work"} : runs' = [runs EXCEPT ![r].pc = to]
    BY <1>4 DEF WorkBegins
  <2> QED BY <1>2, <1>4, <2>1, GoesOn DEF WorkBegins
<1>5. CASE WorkEnds(r)
  <2>1. PICK to \in {"emitError", "emitCompaction", "emitDone"} :
          runs' = [runs EXCEPT ![r].pc = to]
    BY <1>5 DEF WorkEnds
  <2> QED BY <1>2, <1>5, <2>1, GoesOn DEF WorkEnds
<1>6. CASE WorkCompacts(r)
  <2>1. PICK to \in {"emitCompacted"} :
          /\ runs' = [runs EXCEPT ![r].pc = to, ![r].canCompact = FALSE]
          /\ events' = events /\ runs[r].pc = "work"
    BY <1>6 DEF WorkCompacts
  <2> QED BY <1>2, <2>1, GoesOn
<1>7. CASE WorkAsks(r)
  <2>1. PICK to \in {"request"} :
          runs' = [runs EXCEPT ![r].pc = to] /\ events' = events /\ runs[r].pc = "work"
    BY <1>7 DEF WorkAsks
  <2> QED BY <1>2, <2>1, GoesOn
<1>8. CASE RequestReply(r)
  <2>1. PICK to \in {"emitError", "emitRequest"} :
          /\ runs' = [runs EXCEPT ![r].pc = to] /\ runs[r].pc = "request"
          /\ events' = events /\ (to = "emitRequest" => pending' = r)
    BY <1>8 DEF RequestReply
  <2> QED BY <1>2, <2>1, GoesOn
<1>9. CASE ReplyReceived(r)
  <2> DEFINE to == [answer |-> "loop", blank |-> "request", slashCompact |-> "emitRefusal"][reply]
  <2>1. to \in {"loop", "request", "emitRefusal"}
    BY DEF Replies, ServedInv, IInv, LoopTypes
  <2>2. runs' = [runs EXCEPT ![r].pc = to] /\ runs[r].pc = "received" /\ events' = events
    BY <1>9 DEF ReplyReceived
  <2> HIDE DEF to
  <2> QED BY <1>2, <2>1, <2>2, GoesOn
<1>10. CASE AwaitCancelled(r)
  <2>1. PICK to \in {"emitError"} :
          /\ runs' = [runs EXCEPT ![r].pc = to] /\ events' = events
          /\ runs[r].pc = "await" /\ runs[r].cancelled
    BY <1>10 DEF AwaitCancelled
  <2> QED BY <1>2, <2>1, GoesOn
<1>11. CASE Emit(r)
  <2> DEFINE to == SentTo[runs[r].pc]
  <2>1. /\ runs' = [runs EXCEPT ![r].pc = to] /\ runs[r].pc \in Emitting
        /\ events' = Append(events, SentBy(r)) /\ UNCHANGED pending
        /\ runs[r].pc # "emitBusy"
    BY <1>11 DEF Emit, ServedInv, IInv, OneRun
  <2>2. runs[r].pc \notin {"none", "returnOk", "returnErr", "await"}
    BY <2>1 DEF Emitting, EventOf
  <2>3. SentBy(r) \in Events /\ SentBy(r).kind = EventOf[runs[r].pc]
    BY <2>1 DEF SentBy, Events
  <2>4. runs[r].pc = "emitRequest" => pending = r
    BY DEF ServedInv, LoopInv
  <2>5. /\ SentBy(r).kind \in Finals => to \in {"returnOk", "returnErr"}
        /\ SentBy(r).kind = "request" => to = "await" /\ pending' = r
        /\ to = "returnOk" => SentBy(r).kind \in Finals
        /\ to \in {"emitRequest", "await", "received"} => pending' = r
    BY <2>1, <2>3, <2>4, EmitKinds
  <2> HIDE DEF to
  <2> QED BY <1>2, <2>1, <2>2, <2>3, <2>5, GoesOn
<1>12. CASE EmitDropped(r)
  <2> DEFINE to == DroppedTo[runs[r].pc]
  <2>1. /\ runs' = [runs EXCEPT ![r].pc = to] /\ runs[r].pc \in Emitting
        /\ events' = events /\ runs[r].pc # "emitBusy"
    BY <1>12 DEF EmitDropped, ServedInv, IInv, OneRun
  <2>2. runs[r].pc \notin {"none", "returnOk", "returnErr", "await"}
    BY <2>1 DEF Emitting, EventOf
  <2>3. to \in {"emitError", "returnErr"}
    BY <2>1, EmitKinds
  <2> HIDE DEF to
  <2> QED BY <1>2, <2>1, <2>2, <2>3, GoesOn
<1>13. CASE RunReturns(r)
  <2>1. r = run /\ \A s \in Runs : s # r => runs[s].pc = "none"
    BY <1>13 DEF RunReturns, ServedInv, IInv, OneRun, Active
  <2>2. \A s \in Runs : runs'[s].pc = "none"
    BY <1>13, <2>1 DEF RunReturns, NoGoroutine, ServedInv, IInv, LoopTypes
  <2> QED BY <1>13, <2>1, <2>2 DEF Goal, Registered
<1> QED
  BY <1>1, <1>3, <1>4, <1>5, <1>6, <1>7, <1>8, <1>9, <1>10, <1>11, <1>12, <1>13 DEF RunStep

\* A step of the run.
LEMMA RunServed ==
  ASSUME ServedInv, Alive, RunGoroutine
  PROVE  LoopInv' /\ PoliteInv' /\ RepliesHonoured' /\ EndsReported'
<1>1. UNCHANGED <<readerVars, inputs, loopVars, ctxDone, interrupted, clientVars>>
  BY DEF RunGoroutine
<1>2. UNCHANGED <<readerPc, held, inputs, mainPc, run, inputsClosed, ctxDone, view, exitCode,
                  refused, interrupted>>
  BY <1>1 DEF readerVars, loopVars, clientVars
<1>3. LoopInv' /\ RepliesHonoured' /\ EndsReported'
  BY <1>2, RunMoves DEF Registered, ServedInv, LoopInv, Alive, RepliesHonoured, EndsReported
<1>4. ASSUME run \in Runs, RunReturns(run), Polite'
      PROVE  PoliteInv'
  <2>1. /\ Polite
        /\ inputsClosed \/ run = NoRun \/ ~runs[run].cancelled
        /\ LineInv /\ ViewInv /\ EventInv /\ ToldInv /\ run # NoRun
    BY <1>2, <1>4, Numbers DEF Polite, ServedInv, PoliteInv
  <2>2. /\ runs[run].pc \in {"returnOk", "returnErr"} /\ UNCHANGED <<events, pending, replyTo>>
        /\ runs'[run].pc = "none" /\ runs'[run].cancelled = FALSE
        /\ runs'[run].done = "ok" => runs[run].pc = "returnOk"
    BY <1>4 DEF RunReturns, requestVars, NoGoroutine, ServedInv, IInv, LoopTypes, OneRun
  <2>3. Finished /\ Finished' /\ ~Waiting
    BY <1>2, <2>2 DEF Finished, Waiting
  <2>4. Sent(RunModes)' = Sent(RunModes) /\ Sent(Replies)' = Sent(Replies)
        /\ ViewAfterSeeing(events)' = ViewAfterSeeing(events)
    BY <1>2, <2>2 DEF Sent, ViewAfterSeeing
  <2>5. LineInv' /\ ViewInv'
    BY <1>2, <2>1, <2>2, <2>3, <2>4 DEF LineInv, ViewInv
  <2>6. EventInv' /\ ToldInv'
    BY <1>2, <2>1, <2>2, <2>3, <2>4 DEF EventInv, ToldInv
  <2> QED BY <1>2, <2>2, <2>5, <2>6 DEF PoliteInv
<1> QED BY <1>1, <1>3, <1>4, RunMoves, MovePolite DEF PoliteInv

\* How the loop's variables go on from a step of the loop.
LEMMA MainLoop ==
  ASSUME ServedInv, Alive, Main
  PROVE  LoopInv'
<1> USE DEF requestVars, readerVars, loopVars, driverVars, clientVars
<1> /\ runs \in [Runs -> Goroutines] /\ exitCode = "none"
    /\ LoopInv /\ IInv
  BY DEF ServedInv, IInv, LoopTypes, LoopInv
<1>1. /\ pending' = pending
      /\ \/ cancelRun \/ UNCHANGED runs \/ (TakeResult(run) /\ RunEnded) \/ ReplySent
         \/ \E m \in RunModes : StartCommand(m)
  BY DEF Main, FailReturns, ShutdownReturns, LoopEnds, InputsEnd, CtxDone, WriteEvent,
     RunEnds, HarvestFails, ShutdownJoinsRun, StartRefused, ReplyCommand,
     ReplyWithoutRequest, BadLine, ShutdownCommand, ReplySent, ReplyReturns, ReplyFails,
     HandOver, LetGo, TakeHold, Fail, Refuse, StartCommand
<1>2. Registered
  <2>1. CASE cancelRun
    BY <1>1, <2>1, CancelStill DEF Still, LoopInv, Registered
  <2>2. CASE UNCHANGED runs
    BY <1>1, <2>2 DEF LoopInv, Registered
  <2>3. CASE TakeResult(run) /\ RunEnded
    <3>1. \A r \in Runs : runs'[r].pc = runs[r].pc
      BY <2>3 DEF TakeResult, Goroutines
    <3> QED BY <1>1, <3>1 DEF LoopInv, Registered
  <2>4. CASE ReplySent
    <3>1. /\ replyTo \in Runs /\ runs[replyTo].pc = "await"
          /\ \A r \in Runs \ {replyTo} : runs'[r] = runs[r]
      BY <2>4 DEF ReplySent, HandOver
    <3> QED BY <1>1, <3>1 DEF LoopInv, Registered
  <2>5. ASSUME NEW m \in RunModes, StartCommand(m) PROVE Registered
    BY <2>5, StartIs DEF Registered, Active
  <2> QED BY <1>1, <2>1, <2>2, <2>3, <2>4, <2>5
<1> USE DEF Main, FailReturns, ShutdownReturns, LoopEnds, InputsEnd, CtxDone, WriteEvent,
     RunEnds, HarvestFails, ShutdownJoinsRun, StartRefused, ReplyCommand,
     ReplyWithoutRequest, BadLine, ShutdownCommand, ReplySent, ReplyReturns, ReplyFails,
     Receive, StartCommand, Refuse, Fail, Exit, Selecting
<1>3. UNCHANGED <<readerPc, interrupted>> /\ inputs' \in {inputs, <<>>}
  OBVIOUS
<1>4. inputsClosed' => inputsClosed \/ (readerPc = "done" /\ inputs = <<>>)
  OBVIOUS
<1>5. mainPc' \in Serving => mainPc \in Serving /\ ctxDone' = ctxDone
  BY DEF Serving
<1>6. mainPc' # "exited" => exitCode' = exitCode
  OBVIOUS
<1>7. mainPc' \in {"shutdown", "joinReader"} => ctxDone'
  BY DEF LoopInv
<1> QED BY <1>2, <1>3, <1>4, <1>5, <1>6, <1>7 DEF LoopInv, Registered, Alive

\* A client that was rude stays so.
LEMMA RudeStays ==
  ASSUME Main, view = "rude"
  PROVE  view' = "rude"
BY DEF Main, FailReturns, ShutdownReturns, LoopEnds, InputsEnd, CtxDone, WriteEvent, Wrote,
   RunEnds, HarvestFails, ShutdownJoinsRun, StartCommand, StartRefused, ReplyCommand,
   ReplyWithoutRequest, BadLine, ShutdownCommand, ReplySent, ReplyReturns, ReplyFails,
   Receive, Drain, HandOver, driverVars, LetGo, TakeHold, ViewAfterSeeing, clientVars

\* A reply that was called for is never refused.
LEMMA MainHonours ==
  ASSUME ServedInv, Alive, Main
  PROVE  RepliesHonoured'
<1> USE DEF requestVars, readerVars, loopVars, driverVars, clientVars
<1> SUFFICES ASSUME refused' = "reply", view' # "rude", ~interrupted'
             PROVE  FALSE
  BY DEF RepliesHonoured
<1>1. view # "rude"
  BY RudeStays
<1>2. ~interrupted
  BY DEF Main, FailReturns, ShutdownReturns, LoopEnds, InputsEnd, CtxDone, WriteEvent,
     RunEnds, HarvestFails, ShutdownJoinsRun, StartRefused, ReplyCommand,
     ReplyWithoutRequest, BadLine, ShutdownCommand, ReplySent, ReplyReturns, ReplyFails,
     Receive, StartCommand
<1>3. refused # "reply"
  BY <1>1, <1>2 DEF ServedInv, RepliesHonoured
<1>4. ReplyFails \/ \E text \in Replies : ReplyWithoutRequest(text)
  BY <1>3 DEF Main, FailReturns, ShutdownReturns, LoopEnds, InputsEnd, CtxDone, WriteEvent,
     RunEnds, HarvestFails, ShutdownJoinsRun, StartRefused, ReplyCommand,
     BadLine, ShutdownCommand, ReplySent, ReplyReturns, Receive, StartCommand, Refuse
<1>5. mainPc \in Serving
  BY <1>4 DEF ReplyFails, ReplyWithoutRequest, Receive, Selecting, Serving
<1>6. ~ctxDone /\ LineInv /\ ViewInv
  BY <1>1, <1>2, <1>5 DEF ServedInv, LoopInv, PoliteInv, Polite
<1>7. CASE ReplyFails
  <2>1. mainPc = "replySend" /\ replyTo = Closed
    BY <1>6, <1>7 DEF ReplyFails
  <2>2. run = Closed /\ Waiting
    BY <1>6, <2>1 DEF ViewInv
  <2>3. run \in Runs
    BY <2>2, WaitingIs DEF ServedInv
  <2> QED BY <2>2, <2>3, MaxRunsAssumption DEF Closed, Runs
<1>8. ASSUME NEW text \in Replies, ReplyWithoutRequest(text) PROVE FALSE
  <2>1. inputs = <<text>> /\ pending = NoRun
    BY <1>8 DEF ReplyWithoutRequest, Receive
  <2>2. Waiting
    BY <1>6, <2>1 DEF LineInv, Sent
  <2> QED BY <2>1, <2>2, WaitingIs DEF ServedInv
<1> QED BY <1>4, <1>7, <1>8

\* The loop ends well only when it has told how every run ended.
LEMMA MainReports ==
  ASSUME ServedInv, Alive, Main
  PROVE  EndsReported'
<1> USE DEF requestVars, readerVars, loopVars, driverVars, clientVars
<1> SUFFICES ASSUME exitCode' = "0", ~ctxDone', view' # "rude"
             PROVE  view' = "idle" /\ events' = <<>>
  BY DEF EndsReported
<1>1. exitCode = "none"
  BY DEF ServedInv, LoopInv
<1>2. LoopEnds \/ ShutdownReturns
  BY <1>1 DEF Main, FailReturns, InputsEnd, CtxDone, WriteEvent,
     RunEnds, HarvestFails, ShutdownJoinsRun, StartRefused, ReplyCommand,
     ReplyWithoutRequest, BadLine, ShutdownCommand, ReplySent, ReplyReturns, ReplyFails,
     StartCommand, Exit, ErrorCode, Fail, Refuse
<1>3. LoopEnds
  BY <1>2 DEF ShutdownReturns, ServedInv, LoopInv
<1>4. /\ mainPc = "select" /\ inputsClosed /\ run = NoRun /\ ~ctxDone /\ view # "rude"
      /\ view' = view /\ events' = events
  BY <1>3 DEF LoopEnds
<1>5. Polite /\ PoliteInv /\ LoopInv /\ ToldInv /\ events = <<>>
  BY <1>4 DEF Polite, Serving, ServedInv, PoliteInv, IInv, Over, Alive
<1>6. ~Sent(RunModes)
  BY <1>4, <1>5, SentIs
<1>7. view = "idle"
  BY <1>4, <1>5, <1>6 DEF ToldInv, ViewAfterSeeing
<1> QED BY <1>4, <1>5, <1>7

\* The end of stdin comes after every line.
LEMMA InputsEndPolite ==
  ASSUME ServedInv, Polite, InputsEnd
  PROVE  PoliteInv'
<1>1. /\ mainPc' = mainPc /\ readerPc = "done" /\ inputs = <<>> /\ inputsClosed'
      /\ cancelRun \/ UNCHANGED runs
      /\ UNCHANGED <<events, view, run, readerPc, inputs>>
  BY DEF InputsEnd, readerVars, clientVars
<1>2. LineInv /\ ViewInv /\ EventInv /\ ToldInv
  BY DEF ServedInv, PoliteInv
<1>3. \A r \in Runs : runs'[r].pc = runs[r].pc /\ runs'[r].done = runs[r].done
  BY <1>1, CancelStill DEF ServedInv, Still
<1>4. run \in Runs \cup {NoRun}
  BY DEF ServedInv, IInv, LoopTypes
<1>5. (Finished' = Finished) /\ ViewAfterSeeing(events)' = ViewAfterSeeing(events)
  BY <1>1, <1>3, <1>4 DEF Finished, ViewAfterSeeing
<1>6. ~Sent(RunModes) /\ ~Sent(RunModes)' /\ ~Sent(Replies)'
  BY <1>1, OneLine DEF Sent
<1>7. LineInv' /\ EventInv'
  BY <1>1, <1>2, <1>5, <1>6 DEF LineInv, EventInv
<1>8. mainPc = "select"
  BY DEF InputsEnd, Selecting
<1>9. ViewInv' /\ ToldInv'
  BY <1>1, <1>2, <1>3, <1>4, <1>5, <1>6, <1>8 DEF ViewInv, ToldInv
<1> QED BY <1>1, <1>7, <1>9 DEF PoliteInv

\* Only a single event leaves nothing behind.
LEMMA TailIs ==
  ASSUME NEW evs \in Seq(Events), evs # <<>>, Tail(evs) = <<>>
  PROVE  Len(evs) = 1
<1>1. Len(Tail(evs)) = Len(evs) - 1 /\ Len(evs) \in Nat
  OBVIOUS
<1>2. Len(Tail(evs)) = Len(<<>>)
  BY Zenon
<1>3. Len(<<>>) = 0
  OBVIOUS
<1>4. Len(Tail(evs)) = 0
  BY <1>2, <1>3, Zenon
<1> QED
  <2> DEFINE rest  == Len(Tail(evs))
             count == Len(evs)
  <2> HIDE DEF rest, count
  <2>1. rest = count - 1 /\ count \in Nat /\ rest = 0
    BY <1>1, <1>4, Zenon DEF rest, count
  <2>2. count = 1
    BY <2>1
  <2> QED BY <2>2 DEF count

\* Writing an event tells the client no more than what the run did.
LEMMA WritePolitely ==
  ASSUME ServedInv, Polite, WriteEvent(TRUE)
  PROVE  PoliteInv'
<1> DEFINE h == Head(events)
<1>1. /\ mainPc = "select" /\ mainPc' = mainPc /\ events # <<>> /\ events' = Tail(events)
      /\ view' = ViewAfterSeeing(<<h>>)
      /\ (cancelRun /\ inputsClosed) \/ UNCHANGED runs
      /\ UNCHANGED <<run, pending, replyTo, inputsClosed, readerPc, held, inputs>>
  BY DEF WriteEvent, Wrote, Selecting, readerVars, requestVars
<1>2. /\ inputsClosed \/ run = NoRun \/ ~runs[run].cancelled
      /\ LineInv /\ ViewInv /\ EventInv /\ ToldInv /\ events \in Seq(Events) /\ view # "rude"
  BY DEF ServedInv, PoliteInv, RestTypes, Polite
<1>3. \A r \in Runs : runs'[r].pc = runs[r].pc /\ runs'[r].done = runs[r].done
  BY <1>1, CancelStill DEF ServedInv, Still
<1>4. run \in Runs \cup {NoRun}
  BY DEF ServedInv, IInv, LoopTypes
<1>5. /\ Finished' = Finished /\ (~inputsClosed => Waiting' = Waiting)
      /\ inputsClosed' \/ run' = NoRun \/ ~runs'[run'].cancelled
  BY <1>1, <1>2, <1>3, <1>4 DEF Finished, Waiting
<1>6. ~Sent(RunModes) /\ ~Sent(Replies) /\ ~Sent(RunModes)' /\ ~Sent(Replies)'
  BY <1>1, <1>2 DEF LineInv, Sent
<1>7. /\ h \in Events /\ h = events[1] /\ Len(events) \in Nat /\ Len(events) >= 1
      /\ Tail(events) \in Seq(Events) /\ Len(Tail(events)) = Len(events) - 1
      /\ DOMAIN events = 1 .. Len(events) /\ DOMAIN Tail(events) = 1 .. Len(events) - 1
      /\ \A i \in 1 .. Len(events) - 1 : Tail(events)[i] = events[i + 1]
  BY <1>1, <1>2
<1>8. /\ view' \in {"idle", "asked", "running"}
      /\ view' = "idle" <=> h.kind \in Finals
      /\ view' = "asked" <=> h.kind = "request"
  <2>1. <<h>> \in Seq(Events) /\ <<h>> # <<>> /\ Len(<<h>>) = 1 /\ <<h>>[1] = h
    BY <1>7
  <2> HIDE DEF h
  <2> QED BY <1>1, <1>2, <2>1, SeenIs
<1> HIDE DEF h
<1>9. /\ h.kind \in Finals => Len(events) = 1 /\ Finished
      /\ h.kind = "request" => inputsClosed \/ (Len(events) = 1 /\ Waiting)
  BY <1>2, <1>7 DEF EventInv
<1>10. Len(events) = 1 => events' = <<>>
  BY <1>1, <1>7
<1>11. LineInv'
  BY <1>1, <1>2, <1>6 DEF LineInv
<1>12. ViewInv'
  BY <1>1, <1>5, <1>8, <1>9, <1>10 DEF ViewInv
<1>13. EventInv'
  <2> SUFFICES ASSUME NEW i \in DOMAIN events'
               PROVE  /\ events'[i].kind \in Finals => i = Len(events') /\ Finished'
                      /\ events'[i].kind = "request"
                           => inputsClosed' \/ (i = Len(events') /\ Waiting')
    BY DEF EventInv
  <2>1. /\ events'[i] = events[i + 1] /\ i + 1 \in DOMAIN events
        /\ (i + 1 = Len(events) => i = Len(events'))
    BY <1>1, <1>7
  <2> QED BY <1>1, <1>2, <1>5, <2>1 DEF EventInv
<1>14. ToldInv'
  <2> SUFFICES ASSUME run = NoRun \/ runs[run].pc = "returnOk" \/ runs[run].done = "ok"
               PROVE  ViewAfterSeeing(events)' = "idle"
    BY <1>1, <1>3, <1>4 DEF ToldInv
  <2>1. events[Len(events)].kind \in Finals
    BY <1>1, <1>2, <1>6, SeenIs DEF ToldInv
  <2>2. CASE events' = <<>>
    <3>1. Len(events) = 1
      BY <1>1, <1>2, <2>2, TailIs, Zenon
    <3>2. h = events[Len(events)]
      BY <1>7, <3>1
    <3> QED BY <1>8, <2>1, <2>2, <3>2 DEF ViewAfterSeeing
  <2>3. CASE events' # <<>>
    <3>1. events'[Len(events')] = events[Len(events)]
      BY <1>1, <1>7, <2>3
    <3> QED BY <1>8, <2>1, <2>3, <3>1 DEF ViewAfterSeeing, Finals
  <2> QED BY <2>2, <2>3
<1> QED BY <1>5, <1>11, <1>12, <1>13, <1>14 DEF PoliteInv

\* With the result of a run that ended well come the rest of its events.
LEMMA RunEndsPolite ==
  ASSUME ServedInv, Polite, RunEnds(TRUE), runs[run].done = "ok"
  PROVE  PoliteInv'
<1>1. /\ mainPc = "select" /\ mainPc' = mainPc /\ run' = NoRun /\ RunEnded /\ events' = <<>>
      /\ view' = ViewAfterSeeing(events)
      /\ UNCHANGED <<inputsClosed, readerPc, held, inputs>>
  BY DEF RunEnds, Drain, Selecting, readerVars
<1>2. /\ LineInv /\ ToldInv /\ events \in Seq(Events) /\ view # "rude"
  BY DEF ServedInv, PoliteInv, RestTypes, Polite
<1>3. Finished' /\ ~Waiting
  BY <1>1, WaitingIs DEF ServedInv, Finished
<1>4. Sent(RunModes)' = Sent(RunModes) /\ ~Sent(Replies)'
  BY <1>1, <1>2, <1>3 DEF Sent, LineInv
<1>5. Sent(RunModes) => view' = "running"
  BY <1>1, <1>2 DEF LineInv, ViewAfterSeeing
<1>6. ~Sent(RunModes) => view' = "idle"
  BY <1>1, <1>2 DEF ToldInv
<1>7. LineInv' /\ ViewInv'
  BY <1>1, <1>2, <1>3, <1>4, <1>5, <1>6 DEF LineInv, ViewInv
<1>8. EventInv' /\ ToldInv'
  BY <1>1, <1>4, <1>6 DEF EventInv, ToldInv, ViewAfterSeeing
<1> QED BY <1>1, <1>7, <1>8 DEF PoliteInv

\* A run is started for a client that has asked for it, and for nothing else.
LEMMA StartPolite ==
  ASSUME ServedInv, Polite, NEW m \in RunModes, StartCommand(m)
  PROVE  PoliteInv'
<1>1. /\ inputs = <<m>> /\ inputs' = <<>> /\ UNCHANGED <<readerPc, held, inputsClosed>>
      /\ mainPc = "select" /\ mainPc' = "select" /\ ~ctxDone
      /\ run' \in Runs /\ runs'[run'].pc = "start" /\ runs'[run'].done = "none"
      /\ ~runs'[run'].cancelled
  BY StartIs DEF ServedInv, StartCommand, Receive, Polite
<1>2. LineInv /\ Sent(RunModes) /\ m \in Asking
  BY <1>1 DEF ServedInv, PoliteInv, Sent, Asking
<1>3. view = "running" /\ events = <<>>
  BY <1>2 DEF LineInv
<1>4. view' = "running" /\ events' = <<>>
  BY <1>3 DEF StartCommand, Receive, Drain, ViewAfterSeeing
<1>5. ~Sent(RunModes)' /\ ~Sent(Replies)'
  BY <1>1, <1>2, OneLine DEF LineInv, Sent, Asking
<1>6. LineInv'
  BY <1>1, <1>5, OneLine DEF LineInv
<1>7. ViewInv' /\ EventInv' /\ ToldInv'
  BY <1>1, <1>4, Numbers DEF ViewInv, EventInv, ToldInv
<1> QED BY <1>1, <1>6, <1>7 DEF PoliteInv

\* A reply goes to the run whose request the client has read.
LEMMA ReplyPolite ==
  ASSUME ServedInv, Polite, NEW text \in Replies, ReplyCommand(text)
  PROVE  PoliteInv'
<1>1. /\ inputs = <<text>> /\ inputs' = <<>> /\ UNCHANGED <<readerPc, held, inputsClosed>>
      /\ mainPc' = "replySend" /\ ~inputsClosed
      /\ UNCHANGED <<runs, pending>> /\ replyTo' = pending /\ run' = RunAfterHarvest
  BY DEF ReplyCommand, Receive, TakeHold
<1>2. LineInv /\ Sent(Replies) /\ text \in Asking
  BY <1>1 DEF ServedInv, PoliteInv, Sent, Asking
<1>3. view = "running" /\ events = <<>> /\ Waiting
  BY <1>2 DEF LineInv
<1>4. ~RunEnded /\ run # NoRun /\ pending = run /\ runs[run].done = "none"
      /\ runs[run].pc = "await" /\ ~runs[run].cancelled
  BY <1>3, WaitingIs DEF ServedInv
<1>5. UNCHANGED <<view, events, run>>
  BY <1>1, <1>4 DEF ReplyCommand, Receive, RunAfterHarvest
<1>6. ~Sent(RunModes)' /\ ~Sent(Replies)'
  BY <1>1, <1>2, OneLine DEF LineInv, Sent, Asking
<1>7. LineInv'
  BY <1>1, <1>6, OneLine DEF LineInv
<1>8. Waiting'
  BY <1>1, <1>4, <1>5 DEF Waiting
<1>9. ViewInv' /\ EventInv' /\ ToldInv'
  BY <1>1, <1>3, <1>4, <1>5, <1>8 DEF ViewInv, EventInv, ToldInv
<1> QED BY <1>1, <1>4, <1>5, <1>7, <1>9 DEF PoliteInv

\* Handing the text over, and returning from Reply, change nothing the client
\* knows.
LEMMA HandOverPolite ==
  ASSUME ServedInv, Polite, ReplySent \/ ReplyReturns
  PROVE  PoliteInv'
<1>1. /\ UNCHANGED <<readerPc, held, inputs, inputsClosed, view, events, run>>
      /\ mainPc' \in {"replyWait", "select"} /\ mainPc # "select"
      /\ mainPc \in {"replySend", "replyWait"}
  BY DEF ReplySent, ReplyReturns, HandOver, readerVars, clientVars
<1>2. /\ inputsClosed \/ run = NoRun \/ ~runs[run].cancelled
      /\ LineInv /\ ViewInv /\ EventInv /\ ToldInv /\ LoopInv /\ PoliteInv
  BY DEF ServedInv, PoliteInv
<1>3. view = "running" /\ ~inputsClosed /\ ~Sent(Asking) /\ ~Sent(RunModes) /\ ~Sent(Replies)
  BY <1>1, <1>2, SentIs DEF ViewInv
<1>4. ~Sent(RunModes)' /\ ~Sent(Replies)'
  BY <1>1, <1>3 DEF Sent
<1>5. LineInv' /\ ViewInv'
  BY <1>1, <1>2, <1>3, <1>4 DEF LineInv, ViewInv
<1>6. CASE ReplySent
  <2>1. events = <<>> /\ Waiting /\ replyTo = run
    BY <1>2, <1>6 DEF ReplySent, ViewInv
  <2>2. run \in Runs /\ runs[run].done = "none" /\ ~runs[run].cancelled
    BY <2>1, WaitingIs DEF ServedInv
  <2>3. runs' = [runs EXCEPT ![run].pc = "received"] /\ runs \in [Runs -> Goroutines]
    BY <1>6, <2>1 DEF ReplySent, HandOver, ServedInv, IInv, LoopTypes
  <2>4. runs'[run].pc = "received" /\ runs'[run].done = "none" /\ ~runs'[run].cancelled
    BY <2>2, <2>3, GoesTo
  <2>5. EventInv' /\ ToldInv'
    BY <1>1, <2>1, <2>2, <2>4, Numbers DEF EventInv, ToldInv
  <2> QED BY <1>1, <1>5, <2>4, <2>5 DEF PoliteInv
<1>7. CASE ReplyReturns
  <2>1. UNCHANGED <<runs, pending>>
    BY <1>7 DEF ReplyReturns, LetGo
  <2>2. Finished' = Finished /\ Waiting' = Waiting
        /\ ViewAfterSeeing(events)' = ViewAfterSeeing(events)
    BY <1>1, <2>1 DEF Finished, Waiting, ViewAfterSeeing
  <2>3. EventInv' /\ ToldInv'
    BY <1>1, <1>2, <1>3, <2>1, <2>2 DEF EventInv, ToldInv
  <2> QED BY <1>1, <1>2, <1>5, <2>1, <2>3 DEF PoliteInv
<1> QED BY <1>6, <1>7

\* A step of the loop that goes on serving.
LEMMA MainPolite ==
  ASSUME ServedInv, Alive, Main
  PROVE  PoliteInv'
<1> SUFFICES ASSUME Polite' PROVE PoliteInv'
  BY DEF PoliteInv
<1>1. \/ InputsEnd \/ WriteEvent(TRUE) \/ (RunEnds(TRUE) /\ runs[run].done = "ok")
      \/ \E m \in RunModes : StartCommand(m)
      \/ \E text \in Replies : ReplyCommand(text)
      \/ ReplySent \/ ReplyReturns
  BY ZenonT(30) DEF Main, FailReturns, ShutdownReturns, LoopEnds, CtxDone, WriteEvent,
     RunEnds, HarvestFails, ShutdownJoinsRun, StartRefused,
     ReplyWithoutRequest, BadLine, ShutdownCommand, ReplyFails,
     Exit, Fail, Refuse, Polite, Serving
<1>2. /\ mainPc \in Serving
      /\ ctxDone' = ctxDone
  BY <1>1 DEF InputsEnd, WriteEvent, RunEnds, StartCommand, ReplyCommand, ReplySent,
     ReplyReturns, Receive, Selecting, Serving
<1>3. view # "rude"
  BY RudeStays DEF Polite
<1>4. Polite
  BY <1>2, <1>3 DEF Polite
<1> QED
  BY <1>1, <1>4, InputsEndPolite, WritePolitely, RunEndsPolite, StartPolite, ReplyPolite,
     HandOverPolite

\* At first the client has asked for nothing.
LEMMA InitServed == Init => ServedInv
<1> SUFFICES ASSUME Init PROVE ServedInv
  OBVIOUS
<1>1. /\ IInv /\ RestTypes
  BY InitInv, InitTypes
<1>2. /\ readerPc = "scan" /\ inputs = <<>> /\ mainPc = "select" /\ run = NoRun
      /\ inputsClosed = FALSE /\ exitCode = "none" /\ ctxDone = FALSE /\ view = "idle"
      /\ refused = "none" /\ events = <<>> /\ runs = [r \in Runs |-> NoGoroutine]
  BY DEF Init, DriverInit
<1>3. \A r \in Runs : runs[r].pc = "none"
  BY <1>2 DEF NoGoroutine
<1>4. LoopInv /\ RepliesHonoured /\ EndsReported
  BY <1>2, <1>3 DEF LoopInv, RepliesHonoured, EndsReported, Serving
<1>5. ~Sent(RunModes) /\ ~Sent(Replies)
  BY <1>2, OneLine DEF Sent
<1>6. LineInv /\ ViewInv
  BY <1>2, <1>5 DEF LineInv, ViewInv, Finished
<1>7. EventInv /\ ToldInv
  BY <1>2 DEF EventInv, ToldInv, ViewAfterSeeing
<1> QED BY <1>1, <1>2, <1>4, <1>6, <1>7 DEF ServedInv, PoliteInv

\* Every step keeps what a polite client knows.
LEMMA ServedStep == ServedInv /\ [Next]_vars => ServedInv'
<1> SUFFICES ASSUME ServedInv, [Next]_vars PROVE ServedInv'
  OBVIOUS
<1>1. IInv' /\ RestTypes'
  BY InvStep, TypesStep DEF ServedInv, IInv
<1>2. CASE UNCHANGED vars
  <2>1. LoopInv' /\ RepliesHonoured' /\ EndsReported'
    BY <1>2 DEF vars, driverVars, requestVars, readerVars, loopVars, clientVars, ServedInv,
       LoopInv, Alive, RepliesHonoured, EndsReported
  <2>2. PoliteInv'
    BY <1>2 DEF vars, driverVars, requestVars, readerVars, loopVars, clientVars, ServedInv,
       PoliteInv, Polite, LineInv, ViewInv, EventInv, ToldInv, Sent, Finished, Waiting,
       ViewAfterSeeing
  <2> QED BY <1>1, <2>1, <2>2 DEF ServedInv
<1>3. CASE Alive /\ (Client \/ Interrupt \/ Reader)
  BY <1>1, <1>3, OthersServed DEF ServedInv
<1>4. CASE Alive /\ Main
  BY <1>1, <1>4, MainLoop, MainPolite, MainHonours, MainReports DEF ServedInv
<1>5. CASE Alive /\ RunGoroutine
  BY <1>1, <1>5, RunServed DEF ServedInv
<1> QED BY <1>2, <1>3, <1>4, <1>5 DEF Next, Exited

\* What the client has read is what the run has come to, in every state.
LEMMA ServedAlways == Spec => []ServedInv
BY InitServed, ServedStep, PTL DEF Spec

\* However lines, events and results are interleaved, and however many there
\* are, a client that answers each request it reads once is never told that
\* there is none (Driver.Reply, handleReply), unless a SIGINT came between.
THEOREM RepliesHonouredAlways == Spec => []RepliesHonoured
<1>1. ServedInv => RepliesHonoured
  BY DEF ServedInv
<1> QED BY <1>1, ServedAlways, PTL

\* When the loop ends at the end of stdin, the client has read how each run it
\* started ended (runJSONL, drainDriverEvents).
THEOREM EndsReportedAlways == Spec => []EndsReported
<1>1. ServedInv => EndsReported
  BY DEF ServedInv
<1> QED BY <1>1, ServedAlways, PTL
=============================================================================
