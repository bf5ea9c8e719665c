---------------------------- MODULE WaitIndicator ---------------------------
(***************************************************************************)
(* modelWaitIndicator (model_wait_indicator.go): one line of the terminal  *)
(* that a goroutine redraws while the model is asked, and that the prompts *)
(* of clnkr share.  The run goroutines start and stop it from              *)
(* agent.Notify, the main goroutine stops it at every driver event and     *)
(* when runDriverPrompt returns (main.go).  A run that SIGINT abandoned    *)
(* goes on beside the prompt until it notices its context.                 *)
(***************************************************************************)
EXTENDS Naturals, FiniteSets

CONSTANT MaxRuns   \* bound: run goroutines that exist at a time

ASSUME MaxRunsAssumption == MaxRuns \in Nat \ {0}

Runs    == 1 .. MaxRuns
Main    == 0
Callers == {Main} \cup Runs

\* Identities of the done channels: a fresh one is taken while none is current,
\* by one caller, when each of the others may still wait for an old one.
Renderers == 1 .. (MaxRuns + 1)
Nil       == 0

VARIABLES
  current,    \* i.done: Nil, or the renderer whose channel it is
  stopOpen,   \* i.stop # nil
  renderer,   \* per renderer: ended, delay, draw, tick
  stopped,    \* its stop channel is closed; nobody looks once it has ended
  line,       \* the terminal line shows a waiting text
  call,       \* per caller: none, or the place in Stop
  target,     \* the done channel that Stop waits for
  at,         \* per caller: its place outside the indicator
  run,        \* the run runDriverPrompt waits for
  cancelled,  \* per run: its context is done
  events      \* the driver's channel: runs and kinds of event

indicator == <<current, stopOpen, renderer, stopped, line>>
stopVars  == <<call, target>>
loopVars  == <<at, run, cancelled, events>>
indicatorVars == <<indicator, stopVars, loopVars>>

Alive == {i \in Renderers : renderer[i] # "ended"}

IndicatorInit ==
  /\ current = Nil /\ stopOpen = FALSE /\ line = FALSE
  /\ renderer = [i \in Renderers |-> "ended"] /\ stopped = [i \in Renderers |-> FALSE]
  /\ call = [c \in Callers |-> "none"] /\ target = [c \in Callers |-> Nil]
  /\ at = [c \in Callers |-> IF c = Main THEN "prompt" ELSE "ended"]
  /\ run = Nil /\ cancelled = [r \in Runs |-> FALSE] /\ events = {}

-----------------------------------------------------------------------------
(* Start and Stop; i.mu makes each step between two waits one action *)

Fresh(i) == i \notin Alive \cup {current} /\ \A c \in Callers : target[c] # i

\* Start returns at once while i.done is set, also if Stop is about to end it.
Start ==
  IF current # Nil THEN UNCHANGED indicator
  ELSE \E i \in Renderers :
         /\ Fresh(i) /\ \A j \in Renderers : Fresh(j) => i <= j
         /\ current' = i /\ stopOpen' = TRUE
         /\ renderer' = [renderer EXCEPT ![i] = "delay"]
         /\ UNCHANGED <<stopped, line>>

\* Faulty variant: only the run's own notifications stop the indicator.
CallStopInRun(c, next) ==
  /\ call[c] = "none"
  /\ call' = [call EXCEPT ![c] = IF c = Main THEN "none" ELSE "stop"]
  /\ at' = [at EXCEPT ![c] = next]
  /\ UNCHANGED target

\* Caller c calls Stop, and is at place next when it returns.
CallStop(c, next) ==
  /\ call[c] = "none"
  /\ call' = [call EXCEPT ![c] = "stop"] /\ at' = [at EXCEPT ![c] = next]
  /\ UNCHANGED target

\* Faulty variant: waits for the renderer without telling it to stop.
StopBeginsSilently(c) ==
  /\ call[c] = "stop"
  /\ call' = [call EXCEPT ![c] = IF current = Nil THEN "none" ELSE "wait"]
  /\ target' = [target EXCEPT ![c] = current]
  /\ stopOpen' = FALSE
  /\ UNCHANGED <<current, renderer, stopped, line, loopVars>>

\* The stop channel is closed by the first of several callers.
StopBegins(c) ==
  /\ call[c] = "stop"
  /\ call' = [call EXCEPT ![c] = IF current = Nil THEN "none" ELSE "wait"]
  /\ target' = [target EXCEPT ![c] = current]
  /\ stopOpen' = FALSE
  /\ stopped' = IF stopOpen THEN [stopped EXCEPT ![current] = TRUE] ELSE stopped
  /\ UNCHANGED <<current, renderer, line, loopVars>>

StopWaits(c) ==
  /\ call[c] = "wait" /\ target[c] \notin Alive
  /\ call' = [call EXCEPT ![c] = "reset"]
  /\ UNCHANGED <<indicator, target, loopVars>>

\* Faulty variant: does not look whose channel i.done is by now.
StopEndsBlindly(c) ==
  /\ call[c] = "reset"
  /\ current' = Nil
  /\ call' = [call EXCEPT ![c] = "none"] /\ target' = [target EXCEPT ![c] = Nil]
  /\ UNCHANGED <<stopOpen, renderer, stopped, line, loopVars>>

StopEnds(c) ==
  /\ call[c] = "reset"
  /\ current' = IF current = target[c] THEN Nil ELSE current
  /\ call' = [call EXCEPT ![c] = "none"] /\ target' = [target EXCEPT ![c] = Nil]
  /\ UNCHANGED <<stopOpen, renderer, stopped, line, loopVars>>

-----------------------------------------------------------------------------
(* The goroutine run *)

Becomes(i, state) ==
  /\ renderer' = [renderer EXCEPT ![i] = state]
  /\ stopped' = [stopped EXCEPT ![i] = @ /\ state # "ended"]
  /\ UNCHANGED <<current, stopOpen, stopVars, loopVars>>

\* Stopped before anything was drawn: nothing to clear.
EndsUnseen(i) == renderer[i] = "delay" /\ stopped[i] /\ Becomes(i, "ended") /\ UNCHANGED line

\* delay.C or ticker.C; select may prefer it to a stop channel that is closed.
Fires(i) == renderer[i] \in {"delay", "tick"} /\ Becomes(i, "draw") /\ UNCHANGED line

Draws(i) == renderer[i] = "draw" /\ Becomes(i, "tick") /\ line' = TRUE

Clears(i) == renderer[i] = "tick" /\ stopped[i] /\ Becomes(i, "ended") /\ line' = FALSE

-----------------------------------------------------------------------------
(* A run goroutine, reduced to what it tells the indicator and the driver *)

RunAt(r, place) == at[r] = place /\ call[r] = "none"

Goes(r, place) == at' = [at EXCEPT ![r] = place] /\ UNCHANGED <<run, cancelled>>

\* A query, or the final summary, which is asked for without a look at the
\* context.
Asks(r) ==
  /\ RunAt(r, "working") \/ RunAt(r, "answered")
  /\ Start
  /\ Goes(r, "querying") /\ UNCHANGED <<events, stopVars>>

\* Any other event stops the indicator: an answer, a command, a debug text.
Notifies(r) ==
  /\ CallStop(r, IF at[r] = "working" THEN "working" ELSE "answered")
  /\ at[r] \in {"working", "querying", "answered"}
  /\ UNCHANGED <<indicator, run, cancelled, events>>

\* The backstop has compacted a transcript that was too long for the model,
\* which the run notified as any other event; main hears of it by itself, and
\* handles it the same whosever it is.
Compacts(r) ==
  /\ RunAt(r, "answered")
  /\ events' = events \cup {<<Nil, "compacted">>}
  /\ UNCHANGED <<indicator, stopVars, at, run, cancelled>>

\* DecideAct or Clarify
NeedsHuman(r) ==
  /\ RunAt(r, "answered")
  /\ events' = events \cup {<<r, "request">>}
  /\ Goes(r, "asking") /\ UNCHANGED <<indicator, stopVars>>

\* The run ends: also out of a query that failed, which notifies nobody.  A
\* run whose context is done may drop its last event.
Ends(r) ==
  /\ \/ RunAt(r, "working") \/ RunAt(r, "querying") \/ RunAt(r, "answered")
     \/ RunAt(r, "asking") /\ cancelled[r]
  /\ \/ events' = events \cup {<<r, "last">>}
     \/ cancelled[r] /\ UNCHANGED events
  /\ Goes(r, "ended") /\ UNCHANGED <<indicator, stopVars>>

-----------------------------------------------------------------------------
(* The main goroutine *)

MainAt(place) == at[Main] = place /\ call[Main] = "none"

Others == UNCHANGED <<indicator, stopVars>>

\* A prompt is typed.  The driver refuses it while a run is under way.
Prompt(r) ==
  /\ MainAt("prompt") /\ at[r] = "ended"
  /\ run' = r /\ cancelled' = [cancelled EXCEPT ![r] = FALSE]
  /\ IF \A o \in Runs : at[o] = "ended"
     THEN at' = [at EXCEPT ![Main] = "select", ![r] = "working"] /\ UNCHANGED events
     ELSE at' = [at EXCEPT ![Main] = "select"] /\ events' = events \cup {<<r, "last">>}
  /\ Others

\* handleTerminalDriverEvent, perhaps of an earlier run: stops the indicator,
\* then asks or prints.
HandleEvent(r, kind) ==
  /\ MainAt("select") \/ MainAt("drain")
  /\ <<r, kind>> \in events /\ events' = events \ {<<r, kind>>}
  /\ CallStop(Main, IF kind = "request" THEN "ask" ELSE at[Main])
  /\ UNCHANGED <<indicator, run, cancelled>>

\* The typed line goes to the run that waits for one, if any does.
Reply ==
  /\ MainAt("ask")
  /\ at' = [c \in Callers |-> IF c = Main THEN "select"
                              ELSE IF at[c] = "asking" THEN "answered" ELSE at[c]]
  /\ UNCHANGED <<run, cancelled, events>> /\ Others

RunReturned ==
  /\ MainAt("select") /\ at[run] = "ended"
  /\ at' = [at EXCEPT ![Main] = "drain"]
  /\ UNCHANGED <<run, cancelled, events>> /\ Others

\* drainDriverEvents found nothing more; the deferred Stop, then the prompt.
Drained ==
  /\ MainAt("drain") /\ events = {}
  /\ CallStop(Main, "prompt")
  /\ UNCHANGED <<indicator, run, cancelled, events>>

\* SIGINT: cancel, the deferred Stop, then the prompt, beside the run.
Interrupt ==
  /\ MainAt("select") \/ MainAt("ask")
  /\ cancelled' = [cancelled EXCEPT ![run] = TRUE]
  /\ CallStop(Main, "prompt")
  /\ UNCHANGED <<indicator, run, events>>

-----------------------------------------------------------------------------

StopStep(c)   == StopBegins(c) \/ StopWaits(c) \/ StopEnds(c)
RenderStep(i) == EndsUnseen(i) \/ Fires(i) \/ Draws(i) \/ Clears(i)
RunStep(r)    == Asks(r) \/ Notifies(r) \/ Compacts(r) \/ NeedsHuman(r) \/ Ends(r)

MainStep ==
  \/ \E r \in Runs : Prompt(r)
  \/ \E r \in Runs, kind \in {"request", "last"} : HandleEvent(r, kind)
  \/ HandleEvent(Nil, "compacted")
  \/ Reply \/ RunReturned \/ Drained \/ Interrupt

IndicatorNext ==
  \/ \E c \in Callers : StopStep(c)
  \/ \E i \in Renderers : RenderStep(i)
  \/ \E r \in Runs : RunStep(r)
  \/ MainStep

\* Goroutines that can run do.  select picks at random among its ready cases,
\* so a closed stop channel is not passed over for ever.
Fairness ==
  /\ \A c \in Callers : WF_indicatorVars(StopStep(c))
  /\ \A i \in Renderers :
       /\ WF_indicatorVars(Draws(i))
       /\ SF_indicatorVars(EndsUnseen(i) \/ Clears(i))

IndicatorSpec == IndicatorInit /\ [][IndicatorNext]_indicatorVars /\ Fairness

-----------------------------------------------------------------------------

\* The indicator has one renderer at a time, however starts and stops of
\* several goroutines overlap, and it is the one Stop would stop.  When
\* i.done is nil nothing is drawn any more, and no text is left on the line.
OneRenderer ==
  /\ \A i \in Alive : i = current
  /\ current = Nil => ~line

\* Where clnkr waits for the human to type, at its prompt or below the request
\* of a run that waits, the line is free and stays so, unless a run that was
\* interrupted still notifies or did so after the prompt came back.
LineFree ==
  MainAt("prompt") \/ (MainAt("ask") /\ at[run] = "asking") =>
    (Alive = {} /\ ~line) \/ \E r \in Runs : cancelled[r]

\* Stop returns, so that neither the prompt nor the run hangs on the drawing.
StopReturns == \A c \in Callers : call[c] # "none" ~> call[c] = "none"
=============================================================================
