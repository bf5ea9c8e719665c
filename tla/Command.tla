------------------------------ MODULE Command -------------------------------
(***************************************************************************)
(* What ShellExecutor promises the agent about one command, whatever the   *)
(* processes, pipes and timers below it do.  A command may be stopped by   *)
(* its context, its shell ends in some way, and one result is returned     *)
(* that agrees with both.                                                  *)
(***************************************************************************)
EXTENDS Outcomes

VARIABLES
  called,   \* a call of Execute is under way
  context,  \* "live", or the reason the context ended with
  fate,     \* how the shell ended, "none" before
  result    \* what the last call returned, NoResult before the first

-----------------------------------------------------------------------------

Init == ~called /\ context = "live" /\ fate = "none" /\ result = NoResult

\* The next command of the run, or the first one of a later run.
Call ==
  /\ ~called /\ called'
  /\ context' \in {context, "live"} /\ fate' = "none"
  /\ UNCHANGED result

Stop ==
  /\ context = "live" /\ context' \in {"canceled", "deadline"}
  /\ UNCHANGED <<called, fate, result>>

ShellEnds ==
  /\ called /\ fate = "none"
  /\ fate' \in Statuses \cup (IF context = "live" THEN {} ELSE {"killed"})
  /\ UNCHANGED <<called, context, result>>

Return ==
  /\ called /\ ~called'
  /\ result' \in Allowed(context, fate)
  /\ UNCHANGED <<context, fate>>

Next == Call \/ Stop \/ ShellEnds \/ Return

Spec == Init /\ [][Next]_<<called, context, fate, result>>
=============================================================================
