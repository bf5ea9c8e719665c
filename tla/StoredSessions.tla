--------------------------- MODULE StoredSessions ---------------------------
(***************************************************************************)
(* What the session store (internal/session) promises to those who save    *)
(* and load, with no file, name, clock or sync in it: a session whose save *)
(* returned nil stays, unless the directory it is in was never settled;    *)
(* and a load lists everything that was saved when it began, with a newest *)
(* session in front, whatever is saved meanwhile.                          *)
(***************************************************************************)
EXTENDS Naturals, Sequences, FiniteSets, SequencesExt

CONSTANT Savers    \* the calls of SaveSession

VARIABLES
  stored,     \* the sessions whose save was acknowledged
  before,     \* per call, what was stored when it began
  settled,    \* the project directory itself is on the disk
  load        \* the one load that is looked at

promiseVars == <<stored, before, settled, load>>

NoLoad == [pc |-> "idle", asof |-> {}, result |-> <<>>, failed |-> FALSE]

Init ==
  /\ stored = {} /\ before = [s \in Savers |-> {}]
  /\ settled \in BOOLEAN
  /\ load = NoLoad

SaveBegins(s) ==
  /\ before' = [before EXCEPT ![s] = stored]
  /\ UNCHANGED <<stored, settled, load>>

SaveReturns(s) ==
  /\ stored' = stored \cup {s}
  /\ UNCHANGED <<before, settled, load>>

LoadBegins ==
  /\ load.pc = "idle"
  /\ load' = [NoLoad EXCEPT !.pc = "reading", !.asof = stored]
  /\ UNCHANGED <<stored, before, settled>>

\* Nothing saved when the load began is missing, and none of it began after
\* the session in front was stored.
Answers(asof, result) ==
  /\ asof \subseteq ToSet(result)
  /\ \A s \in asof : Head(result) \notin before[s]

Orders == UNION {SetToSeqs(ss) : ss \in SUBSET Savers}

LoadReturns ==
  /\ load.pc = "reading"
  /\ \E result \in Orders :
       /\ Answers(load.asof, result)
       /\ load' = [load EXCEPT !.pc = "done", !.result = result]
  /\ UNCHANGED <<stored, before, settled>>

LoadEnds ==
  /\ load.pc = "done" /\ load' = NoLoad
  /\ UNCHANGED <<stored, before, settled>>

Settles == settled' = TRUE /\ UNCHANGED <<stored, before, load>>

\* The machine stops: no load goes on, and what was stored stays.
Stops == load' = NoLoad /\ settled' = TRUE /\ UNCHANGED <<stored, before>>

\* It stops and takes a directory that was not settled.
Loses ==
  /\ ~settled
  /\ stored' = {} /\ before' = [s \in Savers |-> {}] /\ load' = NoLoad
  /\ UNCHANGED settled

Next ==
  \/ \E s \in Savers : SaveBegins(s) \/ SaveReturns(s)
  \/ LoadBegins \/ LoadReturns \/ LoadEnds
  \/ Settles \/ Stops \/ Loses

Spec == Init /\ [][Next]_promiseVars
=============================================================================
