-------------------------- MODULE ShellExecProofs --------------------------
(***************************************************************************)
(* Proofs about ShellExec for every kind of background process: its types, *)
(* that a stopped command leaves nothing in its group, and that Execute    *)
(* implements Command.  The step that matters for the last is Load; the    *)
(* invariant carries to it what the processes left behind: how the error   *)
(* of Cmd.Run, the context, the end of bash and the state file go together.*)
(***************************************************************************)
EXTENDS ShellExec, TLAPS

USE ChildrenAssumption

-----------------------------------------------------------------------------
(* The inductive invariant *)

\* bash has ended in some way exactly when it is there and does not run, and
\* it is killed only for a context that is done.
EndInv ==
  /\ status = "none" <=> shell \in {"none", "body", "trap"}
  /\ status = "killed" => context # "live" /\ ~InGroup(child)
  /\ pc \in {"detect", "wrap", "start"} => shell = "none"
  /\ pc \in {"watch", "pipes"} => shell = "reaped"
  /\ pc = "load" => shell \in {"none", "reaped"}

\* Only its trap fills the state file, and only the kill stops it midway.
FileInv ==
  /\ file = "cut" => shell = "trap" \/ status = "killed"
  /\ status = "none" /\ shell # "trap" => file \in {"none", "gone", "empty"}

\* What the error says of the status and the context on its way to Load.
ErrInv ==
  /\ watcher \in {"ctx", "failed"} => context # "live"
  /\ pc \in {"detect", "wrap", "start", "wait"} => err = "nil"
  /\ pc = "watch" => err \in {"nil", "exit"}
  /\ pc = "pipes" => err # "waitdelay"
  /\ pc \in {"watch", "pipes", "load"} =>
       /\ err \in {"nil", "waitdelay"} => status = "zero"
       /\ err = "exit" => status \notin {"none", "zero"}
       /\ err = "failed" => status = "none" \/ (status = "zero" /\ context # "live")
       /\ err = "ctx" => status \in {"none", "zero"} /\ context # "live"

IInv == ShellTypeOK /\ EndInv /\ FileInv /\ ErrInv

-----------------------------------------------------------------------------
(* The result *)

\* What Execute gives back is a result of the abstract command.
LEMMA GivenResult ==
  ASSUME NEW outcome \in Promise!OutcomeTypes, NEW snapshot \in Promise!Snapshots,
         Give(outcome, snapshot)
  PROVE  result' \in Promise!Results
BY DEF Give, Promise!Results

\* The outcome and the snapshot that Load reads are among those of a result.
LEMMA OutcomeTyped ==
  ASSUME IInv, pc = "load"
  PROVE  /\ classifyCommandOutcome \in Promise!OutcomeTypes
         /\ Snapshot \in Promise!Snapshots
<1>1. classifyCommandOutcome \in Promise!OutcomeTypes
  BY DEF IInv, ShellTypeOK, ErrInv, classifyCommandOutcome, ExitCode, Promise!StoppedAs,
         Promise!OutcomeTypes, Promise!Statuses
<1>2. Snapshot \in Promise!Snapshots
  BY DEF Snapshot, Promise!Snapshots
<1> QED BY <1>1, <1>2
-----------------------------------------------------------------------------
(* Invariance *)

\* Before the first command the invariant holds.
LEMMA InitInv == Init => IInv
BY DEF Init, IInv, ShellTypeOK, EndInv, FileInv, ErrInv, Returned,
       Promise!Statuses, Promise!NoResult

\* Execute itself keeps the invariant, from Wrap to Load.
LEMMA CallerInv ==
  ASSUME IInv, Caller
  PROVE  IInv'
<1> USE DEF IInv, ShellTypeOK, EndInv, FileInv, ErrInv, Returned, processes
<1>1. CASE Wrap BY <1>1 DEF Wrap
<1>2. CASE WrapFails
  <2>1. result' \in Promise!Results
    BY <1>2, GivenResult DEF WrapFails, Promise!OutcomeTypes, Promise!Snapshots
  <2> QED BY <2>1, <1>2 DEF WrapFails
<1>3. CASE StartFails BY <1>3 DEF StartFails
<1>4. CASE Start BY <1>4 DEF Start
<1>5. CASE Reap BY <1>5 DEF Reap
<1>6. CASE TakeWatcher BY <1>6 DEF TakeWatcher, Received
<1>7. CASE OutputEnds BY <1>7 DEF OutputEnds
<1>8. CASE WaitDelayExpires BY <1>8 DEF WaitDelayExpires
<1>9. CASE Load
  <2>1. result' \in Promise!Results
    BY <1>9, GivenResult, OutcomeTyped DEF Load
  <2> QED BY <2>1, <1>9 DEF Load
<1>10. CASE LoadFails
  <2>1. result' \in Promise!Results
    BY <1>10, GivenResult DEF LoadFails, Promise!OutcomeTypes, Promise!Snapshots
  <2> QED BY <2>1, <1>10 DEF LoadFails
<1> QED
  BY <1>1, <1>2, <1>3, <1>4, <1>5, <1>6, <1>7, <1>8, <1>9, <1>10 DEF Caller

\* The goroutine watchCtx keeps it: Cancel ends bash, with its group, only
\* when the context is done.
LEMMA WatcherInv ==
  ASSUME IInv, Watcher
  PROVE  IInv'
<1> USE DEF IInv, ShellTypeOK, EndInv, FileInv, ErrInv, Returned, processes
<1>1. CASE Cancel BY <1>1 DEF Cancel, ShellRuns, InGroup, GroupAlive
<1>2. CASE ClosePipes BY <1>2 DEF ClosePipes
<1> QED BY <1>1, <1>2 DEF Watcher

\* The questions to git keep it.
LEMMA GitInv ==
  ASSUME IInv, Git
  PROVE  IInv'
BY DEF Git, Detect, Collect, IInv, ShellTypeOK, EndInv, FileInv, ErrInv, Returned, processes

\* The context, bash and its child keep it: bash ends once, and nothing joins
\* its group afterwards.
LEMMA EnvironmentInv ==
  ASSUME IInv, Environment
  PROVE  IInv'
<1> USE DEF IInv, ShellTypeOK, EndInv, FileInv, ErrInv, Returned, processes
<1>1. CASE Execute BY <1>1 DEF Execute
<1>2. CASE ContextDone BY <1>2 DEF ContextDone
<1>3. CASE StartsChild BY <1>3 DEF StartsChild
<1>4. CASE ChildEnds BY <1>4 DEF ChildEnds, InGroup
<1>5. CASE RemovesFile BY <1>5 DEF RemovesFile
<1>6. CASE TrapBegins BY <1>6 DEF TrapBegins
<1>7. CASE TrapWrites BY <1>7 DEF TrapWrites
<1>8. CASE TrapEnds BY <1>8 DEF TrapEnds, Promise!Statuses
<1>9. CASE EndsWithoutTrap BY <1>9 DEF EndsWithoutTrap, Promise!Statuses
<1> QED
  BY <1>1, <1>2, <1>3, <1>4, <1>5, <1>6, <1>7, <1>8, <1>9 DEF Environment

\* Every step keeps the invariant.
LEMMA NextInv == IInv /\ [Next]_vars => IInv'
<1> SUFFICES ASSUME IInv, [Next]_vars PROVE IInv'
  OBVIOUS
<1>1. CASE Next
  BY <1>1, CallerInv, WatcherInv, GitInv, EnvironmentInv DEF Next
<1>2. CASE UNCHANGED vars
  BY <1>2 DEF vars, IInv, ShellTypeOK, EndInv, FileInv, ErrInv, Returned
<1> QED BY <1>1, <1>2

\* The invariant holds in every state of every behaviour.
LEMMA Invariance == Spec => []IInv
BY InitInv, NextInv, PTL DEF Spec
-----------------------------------------------------------------------------
(* Results *)

\* The state of Execute keeps its types, and the state file, the watching
\* goroutine, the pipes and bash are held exactly as long as ShellTypeOK says,
\* for every kind of process a command may leave (executor.go:40-120).
THEOREM TypeCorrect == Spec => []ShellTypeOK
BY Invariance, PTL DEF IInv

\* A command that was stopped while its shell ran leaves no process of its
\* group behind: nothing joins the group once bash is dead, and the kill takes
\* bash and its group in one step (Cancel, executor.go:73).
THEOREM GroupDies == Spec => []StoppedGroupDies
<1>1. IInv => StoppedGroupDies
  BY DEF IInv, EndInv, StoppedGroupDies
<1> QED BY <1>1, Invariance, PTL

-----------------------------------------------------------------------------
(* Refinement of Command *)

HIDE DEF IInv

called == pc \notin {"idle", "collect"}

\* The result of Load agrees with the context and the end of bash.
LEMMA LoadAllowed ==
  ASSUME IInv, Load
  PROVE  result' \in Promise!Allowed(context, status)
<1> DEFINE c == classifyCommandOutcome
           r == [outcome |-> c, snapshot |-> Snapshot]
<1>1. /\ result' = r /\ r.outcome = c /\ r.snapshot = Snapshot
      /\ r \in Promise!Results
  BY OutcomeTyped DEF Load, Give, Promise!Results
<1>2. /\ err = "nil" => c = "zero"
      /\ err # "nil" /\ context # "live" => c = Promise!StoppedAs(context)
      /\ err = "exit" /\ context = "live" => c = status
      /\ err \notin {"nil", "exit"} /\ context = "live" => c = "error"
  BY DEF Load, IInv, EndInv, classifyCommandOutcome, ExitCode
<1>3. pc = "load" /\ shell # "trap"
  BY DEF Load, IInv, EndInv
<1> HIDE DEF c
<1>4. c \in Promise!Statuses => c = status /\ (context = "live" \/ status = "zero")
  BY <1>2, <1>3 DEF IInv, ErrInv, Promise!Statuses, Promise!StoppedAs
<1>5. c \in {"cancelled", "timeout"} => context # "live" /\ c = Promise!StoppedAs(context)
  BY <1>2, <1>3 DEF IInv, ShellTypeOK, ErrInv, Promise!Statuses
<1>6. c = "error" =>
        Snapshot = "none" \/ (Snapshot = "whole" /\ status = "zero" /\ context = "live")
  BY <1>2, <1>3 DEF IInv, ShellTypeOK, FileInv, ErrInv, Snapshot, Promise!Statuses,
     Promise!StoppedAs
<1>7. Snapshot = "cut" => status = "killed" /\ c = Promise!StoppedAs(context)
  BY <1>2, <1>3 DEF IInv, ShellTypeOK, EndInv, FileInv, ErrInv, Snapshot
<1>8. status = "none" => Snapshot = "none" /\ c \in {"cancelled", "timeout", "error"}
  BY <1>2, <1>3 DEF IInv, ShellTypeOK, FileInv, ErrInv, Snapshot, Promise!StoppedAs
<1> HIDE DEF r
<1> QED
  BY <1>1, <1>4, <1>5, <1>6, <1>7, <1>8 DEF Promise!Allowed

\* An error without a snapshot is allowed whatever happened.
LEMMA ErrorAllowed ==
  ASSUME Give("error", "none")
  PROVE  result' \in Promise!Allowed(context, status)
BY DEF Give, Promise!Allowed, Promise!Results, Promise!OutcomeTypes, Promise!Statuses,
       Promise!Snapshots

\* Every step of Execute, its processes and its timers is a step of Command or
\* none of its business.
LEMMA StepSimulates ==
  ASSUME IInv, [Next]_vars
  PROVE  [Promise!Next]_<<called, context, status, result>>
<1> SUFFICES ASSUME Next
             PROVE  Promise!Next \/ UNCHANGED <<called, context, status, result>>
  BY DEF vars, called
<1>1. CASE Caller
  <2>1. CASE Load
    BY <2>1, LoadAllowed DEF Load, called, Promise!Next, Promise!Return
  <2>2. CASE LoadFails
    BY <2>2, ErrorAllowed DEF LoadFails, called, Promise!Next, Promise!Return
  <2>3. CASE WrapFails
    BY <2>3, ErrorAllowed DEF WrapFails, called, processes, Promise!Next, Promise!Return
  <2>4. CASE ~(Load \/ LoadFails \/ WrapFails)
    BY <1>1, <2>4 DEF Caller, called, processes, Wrap, StartFails, Start, Reap, TakeWatcher,
       OutputEnds, WaitDelayExpires
  <2> QED BY <2>1, <2>2, <2>3, <2>4
<1>2. CASE Watcher
  <2>1. CASE Cancel
    BY <2>1 DEF Cancel, ShellRuns, called, IInv, ShellTypeOK, EndInv,
       Promise!Next, Promise!ShellEnds
  <2>2. CASE ClosePipes
    BY <2>2 DEF ClosePipes, called, processes
  <2> QED BY <1>2, <2>1, <2>2 DEF Watcher
<1>3. CASE Git
  BY <1>3 DEF Git, Detect, Collect, called, processes
<1>4. CASE Environment
  <2>1. CASE Execute
    BY <2>1 DEF Execute, called, Promise!Next, Promise!Call
  <2>2. CASE ContextDone
    BY <2>2 DEF ContextDone, called, processes, Promise!Next, Promise!Stop
  <2>3. CASE TrapEnds \/ EndsWithoutTrap
    BY <2>3 DEF TrapEnds, EndsWithoutTrap, called, IInv, ShellTypeOK, EndInv,
       Promise!Next, Promise!ShellEnds, Promise!Statuses
  <2>4. CASE StartsChild \/ ChildEnds \/ RemovesFile \/ TrapBegins \/ TrapWrites
    BY <2>4 DEF StartsChild, ChildEnds, RemovesFile, TrapBegins, TrapWrites, called
  <2> QED BY <1>4, <2>1, <2>2, <2>3, <2>4 DEF Environment
<1> QED BY <1>1, <1>2, <1>3, <1>4 DEF Next

\* Execute implements Command: whatever the order in which bash exits, the
\* kill comes, the timers fire and the output ends, its outcome and snapshot
\* agree with the context and with the end of bash
\* (classifyCommandOutcome and applyPostState, executor.go).
THEOREM ImplementsCommandAlways == Spec => ImplementsCommand
<1>1. Init => Promise!Init
  BY DEF Init, Promise!Init
<1>2. IInv /\ [Next]_vars => [Promise!Next]_<<pc \notin {"idle", "collect"}, context, status, result>>
  BY StepSimulates DEF called
<1> QED BY <1>1, <1>2, Invariance, PTL DEF Spec, ImplementsCommand, Promise!Spec
=============================================================================
