------------------------------ MODULE ShellExec -----------------------------
(***************************************************************************)
(* ShellExecutor.Execute (executor.go) with the processes it starts: bash, *)
(* one child it may leave in the background, the goroutine of os/exec that *)
(* watches the context, the state file of shellstate and the two questions *)
(* to git.  os/exec is modelled as of the Go version in go.mod (1.25).     *)
(*                                                                         *)
(* Assumed of the operating system: SIGKILL takes effect at once, a process*)
(* id is not used again while its number may still be signalled, writing   *)
(* the state file does not fail, and the output of a command is read       *)
(* within WaitDelay once no process holds the pipe any more.               *)
(***************************************************************************)

CONSTANT Children   \* kinds of background process a command may leave

ASSUME ChildrenAssumption ==
  Children \subseteq {"grouped", "piped", "both"}

VARIABLES
  pc,        \* where Execute is
  context,   \* "live", or why ctx is done
  baseline,  \* Detect found a clean worktree
  shell,     \* bash: none, body, trap (EXIT trap running), zombie, reaped
  status,    \* how bash ended, "none" before
  child,     \* the background process: in the process group, on the pipe, or both
  file,      \* the state file: none, gone (removed by the command), or its content
  watcher,   \* watchCtx: off, watching, or what it will hand to Wait
  pipes,     \* the parent's ends of the output pipes
  err,       \* the error of Cmd.Run so far
  result     \* the result classified last

vars == <<pc, context, baseline, shell, status, child, file, watcher, pipes, err, result>>
processes == <<shell, status, child, file>>

Promise == INSTANCE Command
  WITH called <- pc \notin {"idle", "collect"}, fate <- status

InGroup(c) == c \in {"grouped", "both"}
OnPipe(c)  == c \in {"piped", "both"}

ShellRuns == shell \in {"body", "trap"}

GroupAlive == shell \in {"body", "trap", "zombie"} \/ InGroup(child)

-----------------------------------------------------------------------------
(* The calling goroutine *)

Init ==
  /\ pc = "idle" /\ context = "live" /\ baseline = FALSE
  /\ shell = "none" /\ status = "none" /\ child = "none" /\ file = "none"
  /\ watcher = "off" /\ pipes = "closed" /\ err = "nil"
  /\ result = Promise!NoResult

\* The agent executes a command, of the same run or of a later one.  What an
\* earlier command left in the background is no longer followed.
Execute ==
  /\ pc = "idle" /\ pc' = "detect"
  /\ context' \in {context, "live"}
  /\ shell' = "none" /\ status' = "none" /\ child' = "none" /\ err' = "nil"
  /\ UNCHANGED <<baseline, file, watcher, pipes, result>>

\* git has no context: it takes as long as it takes.
Detect ==
  /\ pc = "detect" /\ pc' = "wrap"
  /\ baseline' \in BOOLEAN
  /\ UNCHANGED <<context, processes, watcher, pipes, err, result>>

Give(outcome, snapshot) == result' = [outcome |-> outcome, snapshot |-> snapshot]

Wrap ==
  /\ pc = "wrap" /\ pc' = "start" /\ file' = "empty"
  /\ UNCHANGED <<context, baseline, shell, status, child, watcher, pipes, err, result>>

WrapFails ==
  /\ pc = "wrap" /\ pc' = "idle"
  /\ Give("error", "none")
  /\ UNCHANGED <<context, baseline, processes, watcher, pipes, err>>

\* Cmd.Start with a context that is done, or where bash cannot start.
StartFails ==
  /\ pc = "start" /\ pc' = "load"
  /\ err' \in IF context = "live" THEN {"failed"} ELSE {"ctx"}
  /\ UNCHANGED <<context, baseline, processes, watcher, pipes, result>>

Start ==
  /\ pc = "start" /\ context = "live" /\ pc' = "wait"
  /\ shell' = "body" /\ watcher' = "watching" /\ pipes' = "open"
  /\ UNCHANGED <<context, baseline, status, child, file, err, result>>

\* Process.Wait
Reap ==
  /\ pc = "wait" /\ shell = "zombie"
  /\ pc' = "watch" /\ shell' = "reaped"
  /\ err' = IF status = "zero" THEN "nil" ELSE "exit"
  /\ UNCHANGED <<context, baseline, status, child, file, watcher, pipes, result>>

\* Wait receives from watchCtx, which may not have noticed the context yet.
Received(w) == IF err = "nil" /\ w # "watching" THEN w ELSE err

TakeWatcher ==
  /\ pc = "watch" /\ pc' = "pipes"
  /\ watcher' = "off" /\ err' = Received(watcher)
  /\ UNCHANGED <<context, baseline, processes, pipes, result>>

\* awaitGoroutines: the output has ended, or a process that is left keeps
\* its pipe open for longer than WaitDelay.
OutputEnds ==
  /\ pc = "pipes" /\ pc' = "load"
  /\ pipes = "open" => ~OnPipe(child)
  /\ pipes' = "closed"
  /\ UNCHANGED <<context, baseline, processes, watcher, err, result>>

\* Faulty variant: WaitDelay is set on the kill alone, so a command that was
\* not stopped waits for whoever keeps its output open.
WaitDelayAfterKill ==
  /\ pc = "pipes" /\ pc' = "load" /\ err = "ctx"
  /\ pipes = "open" /\ OnPipe(child)
  /\ pipes' = "closed"
  /\ UNCHANGED <<context, baseline, processes, watcher, err, result>>

WaitDelayExpires ==
  /\ pc = "pipes" /\ pc' = "load"
  /\ pipes = "open" /\ OnPipe(child)
  /\ pipes' = "closed"
  /\ err' = IF err = "nil" THEN "waitdelay" ELSE err
  /\ UNCHANGED <<context, baseline, processes, watcher, result>>

\* ProcessState.ExitCode is -1 for every signal.
ExitCode == IF status = "killed" THEN "signal" ELSE status

\* Faulty variant: looks at the exit status before the context.
classifyByStatus ==
  IF err = "nil" THEN "zero"
  ELSE IF err = "exit" THEN ExitCode
  ELSE IF context # "live" THEN Promise!StoppedAs(context)
  ELSE "error"

classifyCommandOutcome ==
  IF err = "nil" THEN "zero"
  ELSE IF context # "live" THEN Promise!StoppedAs(context)
  ELSE IF err = "exit" THEN ExitCode
  ELSE "error"

\* Load: a state file that was never written gives no snapshot.
Snapshot == IF file \in {"cut", "whole"} THEN file ELSE "none"

\* Faulty variant: leaves the state file behind.
LoadKeepsFile ==
  /\ pc = "load" /\ file # "gone"
  /\ Give(classifyCommandOutcome, Snapshot)
  /\ pc' = IF baseline THEN "collect" ELSE "idle"
  /\ UNCHANGED <<context, baseline, processes, watcher, pipes, err>>

\* The outcome, the snapshot and the removal of the state file.
Load ==
  /\ pc = "load" /\ file # "gone"
  /\ Give(classifyCommandOutcome, Snapshot)
  /\ file' = "none"
  /\ pc' = IF baseline THEN "collect" ELSE "idle"
  /\ UNCHANGED <<context, baseline, shell, status, child, watcher, pipes, err>>

\* The command removed its state file: the result is an error, without git.
LoadFails ==
  /\ pc = "load" /\ file = "gone"
  /\ Give("error", "none")
  /\ file' = "none" /\ pc' = "idle"
  /\ UNCHANGED <<context, baseline, shell, status, child, watcher, pipes, err>>

Collect ==
  /\ pc = "collect" /\ pc' = "idle"
  /\ UNCHANGED <<context, baseline, processes, watcher, pipes, err, result>>

-----------------------------------------------------------------------------
(* The goroutine watchCtx *)

\* Faulty variant: kill with the id of bash in the place of its group.
CancelShellOnly ==
  /\ watcher = "watching" /\ context # "live"
  /\ watcher' = IF GroupAlive THEN "ctx" ELSE "failed"
  /\ IF ShellRuns THEN shell' = "zombie" /\ status' = "killed"
                  ELSE UNCHANGED <<shell, status>>
  /\ UNCHANGED <<pc, context, baseline, child, file, pipes, err, result>>

\* cmd.Cancel: SIGKILL to the process group.  The group may be empty already.
Cancel ==
  /\ watcher = "watching" /\ context # "live"
  /\ watcher' = IF GroupAlive THEN "ctx" ELSE "failed"
  /\ IF ShellRuns THEN shell' = "zombie" /\ status' = "killed"
                  ELSE UNCHANGED <<shell, status>>
  /\ child' = IF InGroup(child) THEN "none" ELSE child
  /\ UNCHANGED <<pc, context, baseline, file, pipes, err, result>>

\* WaitDelay after the kill is over and Wait has not come for the result.
ClosePipes ==
  /\ watcher \in {"ctx", "failed"} /\ pipes = "open"
  /\ pipes' = "closed"
  /\ UNCHANGED <<pc, context, baseline, processes, watcher, err, result>>

-----------------------------------------------------------------------------
(* The environment: the context, bash, and what bash leaves behind *)

ContextDone ==
  /\ context = "live" /\ context' \in {"canceled", "deadline"}
  /\ UNCHANGED <<pc, baseline, processes, watcher, pipes, err, result>>

StartsChild ==
  /\ shell = "body" /\ child = "none"
  /\ child' \in Children
  /\ UNCHANGED <<pc, context, baseline, shell, status, file, watcher, pipes, err, result>>

ChildEnds ==
  /\ child # "none" /\ child' = "none"
  /\ UNCHANGED <<pc, context, baseline, shell, status, file, watcher, pipes, err, result>>

RemovesFile ==
  /\ shell = "body" /\ file = "empty" /\ file' = "gone"
  /\ UNCHANGED <<pc, context, baseline, shell, status, child, watcher, pipes, err, result>>

\* The body ends and the EXIT trap of Wrap truncates the state file, or
\* creates it where the command removed it.
TrapBegins ==
  /\ shell = "body" /\ shell' = "trap" /\ file' = "empty"
  /\ UNCHANGED <<pc, context, baseline, status, child, watcher, pipes, err, result>>

\* printf and a part of env -0, then the rest of it.
TrapWrites ==
  /\ shell = "trap" /\ file # "whole"
  /\ file' = IF file = "empty" THEN "cut" ELSE "whole"
  /\ UNCHANGED <<pc, context, baseline, shell, status, child, watcher, pipes, err, result>>

\* The trap ends with the status of the body.
TrapEnds ==
  /\ shell = "trap" /\ file = "whole" /\ shell' = "zombie"
  /\ status' \in {"zero", "nonzero"}
  /\ UNCHANGED <<pc, context, baseline, child, file, watcher, pipes, err, result>>

\* bash ends without its trap: exec, a trap of its own, a signal.
EndsWithoutTrap ==
  /\ shell = "body" /\ shell' = "zombie"
  /\ status' \in Promise!Statuses
  /\ UNCHANGED <<pc, context, baseline, child, file, watcher, pipes, err, result>>

-----------------------------------------------------------------------------

Caller ==
  \/ Wrap \/ WrapFails \/ StartFails \/ Start \/ Reap \/ TakeWatcher
  \/ OutputEnds \/ WaitDelayExpires \/ Load \/ LoadFails

Watcher == Cancel \/ ClosePipes

Git == Detect \/ Collect

Environment ==
  \/ Execute \/ ContextDone \/ StartsChild \/ ChildEnds \/ RemovesFile
  \/ TrapBegins \/ TrapWrites \/ TrapEnds \/ EndsWithoutTrap

Next == Caller \/ Watcher \/ Git \/ Environment

\* Goroutines that can run do, and timers fire.  Nothing is owed by the
\* command, by what it leaves in the background, or by git.
Spec == Init /\ [][Next]_vars /\ WF_vars(Caller) /\ WF_vars(Cancel)

-----------------------------------------------------------------------------

Returned == pc \in {"collect", "idle"}

\* Execute's values, and what it owns while it runs and gives back before it
\* returns: the state file (cleanup), the watching goroutine, the pipes, and
\* bash itself, which is reaped.
ShellTypeOK ==
  /\ pc \in {"idle", "detect", "wrap", "start", "wait", "watch", "pipes", "load", "collect"}
  /\ context \in {"live", "canceled", "deadline"} /\ baseline \in BOOLEAN
  /\ shell \in {"none", "body", "trap", "zombie", "reaped"}
  /\ status \in Promise!Statuses \cup {"none", "killed"}
  /\ child \in Children \cup {"none"}
  /\ file \in {"none", "gone", "empty", "cut", "whole"}
  /\ watcher \in {"off", "watching", "ctx", "failed"} /\ pipes \in {"open", "closed"}
  /\ err \in {"nil", "failed", "ctx", "exit", "waitdelay"}
  /\ result \in Promise!Results \cup {Promise!NoResult}
  /\ Returned \/ pc \in {"detect", "wrap"} <=> file = "none"
  /\ watcher # "off" <=> pc \in {"wait", "watch"}
  /\ pipes = "open" => pc \in {"wait", "watch", "pipes"}
  /\ shell \in {"body", "trap", "zombie"} <=> pc = "wait"

\* A command whose shell was still running when it was stopped leaves no
\* process of its group behind (Setpgid and Cancel of executor.go).
StoppedGroupDies == Returned /\ status = "killed" => ~InGroup(child)

\* The executor implements Command: its outcome and its snapshot agree with
\* the context and with the end of the shell, whatever the order of exit,
\* kill, timer and output (classifyCommandOutcome, applyPostState).
ImplementsCommand == Promise!Spec

\* Once the context is done, or bash has ended, the result comes, even if a
\* process that left the group keeps the output open (WaitDelay).
CommandReturns ==
  /\ pc \in {"start", "wait", "watch", "pipes", "load"}
  /\ context # "live" \/ shell \in {"zombie", "reaped"}
  ~> Returned

\* clnkr.7: "On cancellation, clnkr kills the command process group. Child
\* processes should not survive cancellation while they remain in that
\* process group."  (executor.go:73)
NoChildSurvives ==
  Returned /\ result.outcome = "cancelled" => ~InGroup(child)

=============================================================================
