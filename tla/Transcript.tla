----------------------------- MODULE Transcript -----------------------------
(***************************************************************************)
(* The message history sent to the model and the pure functions over it    *)
(* (internal/core/transcript), with the helpers of agent.go that build     *)
(* host messages.  A message is a record that keeps what the code reads    *)
(* back from it; `kind' is where it came from, which the code has to       *)
(* recognise again from its text (messageKind).                            *)
(***************************************************************************)
EXTENDS Integers, Sequences, FiniteSets

CONSTANTS
  Cwds,     \* working directories
  NoCwd     \* the empty string: no directory reported

ASSUME NoCwdAssumption == NoCwd \notin Cwds

(* What the human typed, what the host added, what the model said *)
HumanKinds == {"task", "reply"}
HostKinds  == {"guidance", "correction", "stepLimit", "compact"}

Plain(kind)        == [kind |-> kind]
State(cwd)         == [kind |-> "state", cwd |-> cwd]
Result(id, o)      == [kind |-> "result", id |-> id, outcome |-> o]
Turn(calls)        == [kind |-> "turn", calls |-> calls]
Malformed          == Plain("malformed")
Resource(used, turns, guidance) ==
  [kind |-> "resource", used |-> used, turns |-> turns, guidance |-> guidance]

Outcomes == {"ok", "failed", "denied", "skippedFailed", "skippedMax"}

Message ==
  [kind: HumanKinds \cup HostKinds \cup {"malformed"}]
    \cup [kind: {"state"}, cwd: Cwds]
    \cup [kind: {"result"}, id: Nat, outcome: Outcomes]
    \cup [kind: {"turn"}, calls: Seq(Nat)]
    \cup [kind: {"resource"}, used: Nat, turns: Nat,
          guidance: {"normal", "low", "critical"}]

-----------------------------------------------------------------------------

\* Faulty variant: takes a command result for something the user wrote.
messageKindResultAuthored(m) ==
  CASE m.kind \in {"turn", "malformed"} -> ""
    [] m.kind \in {"compact", "state"}  -> m.kind
    [] m.kind = "correction"            -> "protocol"
    [] OTHER                            -> "authored"

\* What the code makes of a message: whatever is not recognised as a compact
\* block, a state, a command result or a protocol correction is "authored",
\* resource states and the host's guidance included.
messageKind(m) ==
  CASE m.kind \in {"turn", "malformed"} -> ""
    [] m.kind \in {"compact", "state"}  -> m.kind
    [] m.kind = "result"                -> "command"
    [] m.kind = "correction"            -> "protocol"
    [] OTHER                            -> "authored"

Where(messages, Test(_)) == {i \in DOMAIN messages : Test(messages[i])}

Latest(S) == CHOOSE i \in S : \A j \in S : j <= i

isState(m)               == messageKind(m) = "state"
IsCompactMessage(m)      == messageKind(m) = "compact"
isUserAuthoredMessage(m) == messageKind(m) = "authored"

ExtractLatestCwd(messages) ==
  LET states == Where(messages, isState)
  IN  IF states = {} THEN NoCwd ELSE messages[Latest(states)].cwd

appendStateMessageIfNeeded(messages, cwd) ==
  IF ExtractLatestCwd(messages) = cwd THEN messages
  ELSE Append(messages, State(cwd))

appendResourceStateMessage(messages, m) ==
  IF messages # <<>> /\ messages[Len(messages)] = m THEN messages
  ELSE Append(messages, m)

-----------------------------------------------------------------------------
(* Compaction *)

\* The index of the first message to keep, 0 when there is too little history.
FindCompactBoundary(messages, keepRecentTurns) ==
  LET authored == Where(messages, isUserAuthoredMessage)
      starts   == {i \in authored :
                     Cardinality({j \in authored : j >= i}) = keepRecentTurns}
  IN  IF keepRecentTurns < 1 \/ Cardinality(authored) <= keepRecentTurns
      THEN 0 ELSE CHOOSE i \in starts : TRUE

\* The tail that is kept, without the compact blocks in it.
keptTail(tail) ==
  LET kept[i \in 0 .. Len(tail)] ==
        IF i = 0 THEN <<>>
        ELSE IF IsCompactMessage(tail[i]) THEN kept[i - 1]
        ELSE Append(kept[i - 1], tail[i])
  IN  kept[Len(tail)]

\* Faulty variant: loses the state when it is older than the tail.
RewriteForgettingState(messages, keepRecentTurns) ==
  LET boundary == FindCompactBoundary(messages, keepRecentTurns)
      tail == SubSeq(messages, boundary, Len(messages))
  IN  <<Plain("compact")>> \o keptTail(tail)

RewriteForCompaction(messages, keepRecentTurns) ==
  LET boundary == FindCompactBoundary(messages, keepRecentTurns)
      states   == Where(messages, isState)
      tail     == SubSeq(messages, boundary, Len(messages))
      kept     == IF states # {} /\ Latest(states) < boundary
                  THEN <<messages[Latest(states)]>> ELSE <<>>
  IN  <<Plain("compact")>> \o kept \o keptTail(tail)
=============================================================================
