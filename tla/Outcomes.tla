------------------------------ MODULE Outcomes ------------------------------
(***************************************************************************)
(* What one command may come to, as ShellExecutor tells the agent: how its *)
(* outcome and its shell snapshot go together.                             *)
(***************************************************************************)

\* The ends of a shell that nobody stopped: exit codes, or a signal.
Statuses  == {"zero", "nonzero", "signal"}
Snapshots == {"none", "cut", "whole"}

OutcomeTypes == {"cancelled", "timeout", "error"} \cup Statuses

Results == [outcome : OutcomeTypes, snapshot : Snapshots]

NoResult == [outcome |-> "none", snapshot |-> "none"]

\* A stopped command is reported as what stopped it, if it did not end well.
StoppedAs(ctx) == IF ctx = "deadline" THEN "timeout" ELSE "cancelled"

\* The results a call may return when its context is ctx and its shell ended
\* with status st.  The exit status is the one of the shell and stands for a
\* context that is live, or for a shell that ended well first.  A snapshot
\* is cut short only by the kill of a command that was stopped.  An error is
\* never reported in the place of an exit status other than zero, unless the
\* snapshot is lost.
Allowed(ctx, st) ==
  { r \in Results :
      /\ r.outcome \in Statuses => r.outcome = st /\ (ctx = "live" \/ st = "zero")
      /\ r.outcome \in {"cancelled", "timeout"} => ctx # "live" /\ r.outcome = StoppedAs(ctx)
      /\ r.outcome = "error" =>
           r.snapshot = "none" \/ (r.snapshot = "whole" /\ st = "zero" /\ ctx = "live")
      /\ r.snapshot = "cut" => st = "killed" /\ r.outcome = StoppedAs(ctx)
      /\ st = "none" => r.snapshot = "none" /\ r.outcome \in {"cancelled", "timeout", "error"} }

\* The same for an agent, which sees its context and whether all went well.
Reported ==
  { t \in {"live", "canceled", "deadline"} \X BOOLEAN \X Snapshots :
      \E st \in Statuses \cup {"none", "killed"} : \E r \in Allowed(t[1], st) :
        (r.outcome = "zero") = t[2] /\ r.snapshot = t[3] }
=============================================================================
