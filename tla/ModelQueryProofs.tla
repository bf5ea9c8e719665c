-------------------------- MODULE ModelQueryProofs --------------------------
(***************************************************************************)
(* Invariance proofs for ModelQuery, for every number of attempts and      *)
(* every set of well-formed wire turns a server may answer with.  What a   *)
(* query returns is decided by its last answer, so the invariants say that *)
(* nothing is returned before, that no answer is left from an earlier      *)
(* request while one is under way, and that the result was read off the    *)
(* answer that is there.  The rest is about what the clients make of one   *)
(* answer, and about the forms a parsed turn is written in; at the end, how*)
(* many steps a query may take.                                            *)
(***************************************************************************)
EXTENDS ModelQuery, TLAPS

-----------------------------------------------------------------------------
(* The inductive invariant *)

\* Where a query is, and what its variables hold there.
ProgressInv ==
  /\ pc \in {"returned", "ready", "sent", "pause", "waiting"}
  /\ query \in Queries /\ cancelled \in BOOLEAN
  /\ pc # "returned" => result = Outcome("none")
  /\ pc = "sent" => answer = NoAnswer

\* What AttemptsUsed rests on: a client that repeats nothing never waits.
AttemptInv ==
  /\ attempt \in 1 .. maxAttempts
  /\ ~Repeats(query) => attempt = 1 /\ pc \notin {"pause", "waiting"}
  /\ AttemptsUsed

IInv == ProgressInv /\ AttemptInv /\ NothingHalfAccepted /\ OnlyOverflowCompacts

-----------------------------------------------------------------------------
(* What the clients make of an answer *)

\* The calls of every answer are a sequence of calls.
LEMMA BodyCalls ==
  ASSUME NEW b \in Bodies
  PROVE  b.calls \in Seq(Calls) /\ WireTypeOK(b.turn)
<1>1. CASE \E w \in Texts : b = Plain(w)
  BY <1>1, TextsAssumption DEF Plain
<1>2. CASE b \in [says: {"nothing", "broken", "failed", "overflow", "refusal"},
                  text: {"none", "blank", "turn"}, turn: FewTexts,
                  blocks: {1, 2}, calls: CallSeqs]
  <2>1. b.calls \in CallSeqs /\ b.turn \in FewTexts
    BY <1>2
  <2>2. b.calls = <<>> \/ (\E c \in Calls : b.calls = <<c>>)
          \/ (\E c, d \in Calls : b.calls = <<c, d>>)
    BY <2>1 DEF CallSeqs
  <2>3. b.calls \in Seq(Calls)
    <3>1. \A c \in Calls : <<c>> \in Seq(Calls)
      OBVIOUS
    <3>2. \A c, d \in Calls : <<c, d>> \in Seq(Calls)
      OBVIOUS
    <3>3. <<>> \in Seq(Calls)
      OBVIOUS
    <3> QED BY <2>2, <3>1, <3>2, <3>3
  <2> QED BY <2>1, <2>3, TextsAssumption
<1> QED BY <1>1, <1>2 DEF Bodies

\* NothingHalfAccepted for one answer: a turn that makes commands run comes
\* from an answer that is usable as a whole.
WholeAnswer(q, b) ==
  LET r == Parsed(q, b)
  IN  r.kind = "turn" /\ r.turn.type = "act" =>
        IF q.tools
        THEN /\ Len(r.turn.commands) = Len(b.calls) /\ r.paired = Len(b.calls)
             /\ \A i \in DOMAIN b.calls : UsableCall(q, b.calls[i])
        ELSE /\ r.paired = 0 /\ Commanded(b.turn)
             /\ Len(r.turn.commands) = Len(b.turn.commands)

\* A turn parsed from text has the commands of that text, and no calls.
LEMMA TextTurn ==
  ASSUME NEW w, WireTypeOK(w), NEW accepted \in BOOLEAN,
         accepted => ProviderAccepts(w) \/ StrictAccepts(w),
         FromTurn(w, accepted).kind = "turn",
         FromTurn(w, accepted).turn.type = "act"
  PROVE  /\ FromTurn(w, accepted).paired = 0 /\ w.type = "act" /\ accepted
         /\ Commanded(w)
         /\ Len(FromTurn(w, accepted).turn.commands) = Len(w.commands)
<1> DEFINE t == TurnOf(w)
<1>1. accepted
  BY DEF FromTurn, Outcome
<1>2. FromTurn(w, accepted) = Accepted(t, 0)
  BY <1>1 DEF FromTurn, Outcome
<1>3. Accepted(t, 0).turn = t /\ Accepted(t, 0).paired = 0
  BY DEF Accepted
<1>4. FromTurn(w, accepted).turn = t /\ FromTurn(w, accepted).paired = 0
  <2> HIDE DEF t
  <2> QED BY <1>2, <1>3, Zenon
<1>5. w.type \in Types
  BY <1>1 DEF ProviderAccepts, StrictAccepts, Types
<1>6. w.type = "act"
  <2>1. t.type = "act"
    <3> HIDE DEF t
    <3> QED BY <1>4
  <2>2. CASE w.type = "clarify"
    <3>1. t = Clarify(w.question)
      BY <2>2 DEF TurnOf
    <3>2. Clarify(w.question).type = "clarify"
      BY DEF Clarify
    <3> QED BY <2>1, <3>1, <3>2
  <2>3. CASE w.type = "done"
    <3>1. t = Done(w.summary, w.status, w.checks, w.risks)
      BY <2>3 DEF TurnOf
    <3>2. Done(w.summary, w.status, w.checks, w.risks).type = "done"
      BY DEF Done
    <3> QED BY <2>1, <3>1, <3>2
  <2> QED BY <1>5, <2>2, <2>3 DEF Types
<1>7. Commanded(w)
  BY <1>1, <1>6 DEF ProviderAccepts, StrictAccepts
<1>8. Len(t.commands) = Len(w.commands)
  <2> DEFINE actions == [i \in DOMAIN w.commands |-> ActionOf(w.commands[i])]
  <2>1. w.commands \in Seq(WireCommands)
    BY DEF WireTypeOK
  <2>2. t = Act(actions)
    BY <1>6 DEF TurnOf
  <2>3. Act(actions).commands = actions
    BY DEF Act
  <2>4. Len(actions) = Len(w.commands)
    BY <2>1
  <2> HIDE DEF actions, t
  <2> QED BY <2>2, <2>3, <2>4
<1> HIDE DEF t
<1> QED BY <1>1, <1>4, <1>6, <1>7, <1>8

\* The turn of some calls has one command for each, paired with it.
LEMMA CallsTurn ==
  ASSUME NEW calls \in Seq(Calls)
  PROVE  /\ Len(FromCalls(calls).turn.commands) = Len(calls)
         /\ FromCalls(calls).paired = Len(calls)
<1> DEFINE actions == [i \in DOMAIN calls |-> [hasDir |-> FALSE]]
<1>1. FromCalls(calls) = Accepted(Act(actions), Len(calls))
  BY DEF FromCalls
<1>2. /\ Accepted(Act(actions), Len(calls)).turn = Act(actions)
      /\ Accepted(Act(actions), Len(calls)).paired = Len(calls)
  BY DEF Accepted
<1>3. Act(actions).commands = actions
  BY DEF Act
<1>4. Len(actions) = Len(calls)
  OBVIOUS
<1> HIDE DEF actions
<1> QED BY <1>1, <1>2, <1>3, <1>4

\* No client takes a command from half an answer.
LEMMA ParsedWhole ==
  ASSUME NEW q \in Queries, NEW b \in Bodies
  PROVE  WholeAnswer(q, b)
<1> DEFINE r == Parsed(q, b)
<1> SUFFICES ASSUME r.kind = "turn", r.turn.type = "act"
             PROVE  IF q.tools
                    THEN /\ Len(r.turn.commands) = Len(b.calls)
                         /\ r.paired = Len(b.calls)
                         /\ \A i \in DOMAIN b.calls : UsableCall(q, b.calls[i])
                    ELSE /\ r.paired = 0 /\ Commanded(b.turn)
                         /\ Len(r.turn.commands) = Len(b.turn.commands)
  BY DEF WholeAnswer
<1>1. b.calls \in Seq(Calls) /\ WireTypeOK(b.turn)
  BY BodyCalls
<1>2. q.provider \in {"chat", "responses", "messages"} /\ q.tools \in BOOLEAN
        /\ (q.provider = "chat" => ~q.tools)
  BY DEF Queries
<1>3. CASE q.tools /\ b.calls # <<>> /\ r = FromCalls(b.calls)
             /\ \A i \in DOMAIN b.calls : UsableCall(q, b.calls[i])
  BY <1>1, <1>3, CallsTurn
<1>4. ASSUME NEW accepted \in BOOLEAN, r = FromTurn(b.turn, accepted),
             accepted => ProviderAccepts(b.turn) \/ StrictAccepts(b.turn),
             q.tools /\ accepted => b.turn.type # "act"
      PROVE  IF q.tools
             THEN /\ Len(r.turn.commands) = Len(b.calls)
                  /\ r.paired = Len(b.calls)
                  /\ \A i \in DOMAIN b.calls : UsableCall(q, b.calls[i])
             ELSE /\ r.paired = 0 /\ Commanded(b.turn)
                  /\ Len(r.turn.commands) = Len(b.turn.commands)
  <2> HIDE DEF r
  <2>1. /\ r.paired = 0 /\ b.turn.type = "act" /\ accepted /\ Commanded(b.turn)
        /\ Len(r.turn.commands) = Len(b.turn.commands)
    BY <1>1, <1>4, TextTurn
  <2> QED BY <2>1, <1>4
<1>5. CASE q.provider = "chat"
  <2>1. r = FromTurn(b.turn, ProviderAccepts(b.turn) \/ StrictAccepts(b.turn))
    BY <1>5 DEF Parsed, ParsedByChat, Outcome
  <2>2. (ProviderAccepts(b.turn) \/ StrictAccepts(b.turn)) \in BOOLEAN
    OBVIOUS
  <2> QED BY <1>2, <1>4, <1>5, <2>1, <2>2
<1>6. ASSUME q.provider # "chat"
      PROVE  \/ /\ q.tools /\ b.calls # <<>> /\ r = FromCalls(b.calls)
                /\ \A i \in DOMAIN b.calls : UsableCall(q, b.calls[i])
             \/ r = FromTurn(b.turn, IF q.tools THEN ToolTextAccepts(b.turn)
                                                ELSE ProviderAccepts(b.turn))
  <2>1. CASE q.provider = "responses"
    BY <2>1 DEF Parsed, ParsedByResponses, ResponsesCalls, Outcome
  <2>2. CASE q.provider = "messages"
    BY <2>2 DEF Parsed, ParsedByAnthropic, AnthropicCalls, Outcome
  <2> QED BY <1>2, <1>6, <2>1, <2>2
<1>7. CASE r = FromTurn(b.turn, IF q.tools THEN ToolTextAccepts(b.turn)
                                           ELSE ProviderAccepts(b.turn))
  <2> DEFINE accepted == IF q.tools THEN ToolTextAccepts(b.turn)
                                    ELSE ProviderAccepts(b.turn)
  <2>1. /\ accepted \in BOOLEAN
        /\ accepted => ProviderAccepts(b.turn) \/ StrictAccepts(b.turn)
        /\ q.tools /\ accepted => b.turn.type # "act"
    BY DEF ToolTextAccepts, ProviderAccepts
  <2> QED BY <1>4, <1>7, <2>1
<1> QED BY <1>3, <1>5, <1>6, <1>7

\* Only a body that says the context overflowed is read as such, and never by
\* the chat client.
LEMMA ParsedOverflow ==
  ASSUME NEW q \in Queries, NEW b \in Bodies, Parsed(q, b).kind = "tooLong"
  PROVE  b.says = "overflow" /\ q.provider # "chat"
<1>1. q.provider \in {"chat", "responses", "messages"}
  BY DEF Queries
<1>2. \A w, accepted : FromTurn(w, accepted).kind # "tooLong"
  BY DEF FromTurn, Outcome, Accepted
<1>3. \A calls : FromCalls(calls).kind # "tooLong"
  BY DEF FromCalls, Accepted
<1>4. CASE q.provider = "chat"
  BY <1>2, <1>4 DEF Parsed, ParsedByChat, Outcome
<1>5. CASE q.provider = "responses"
  BY <1>2, <1>3, <1>5 DEF Parsed, ParsedByResponses, ResponsesCalls, Outcome
<1>6. CASE q.provider = "messages"
  BY <1>2, <1>3, <1>6 DEF Parsed, ParsedByAnthropic, AnthropicCalls, Outcome
<1> QED BY <1>1, <1>4, <1>5, <1>6
-----------------------------------------------------------------------------
(* Invariance *)

LEMMA IInvInit == Init => IInv
<1> SUFFICES ASSUME Init PROVE IInv
  OBVIOUS
<1>1. result.kind = "none" /\ answer = NoAnswer /\ attempt = 1 /\ pc = "ready"
  BY DEF Init, Outcome
<1>2. ProgressInv
  BY DEF Init, ProgressInv
<1>3. AttemptInv
  BY <1>1, AttemptsAssumption DEF AttemptInv, AttemptsUsed, NoAnswer
<1> QED BY <1>1, <1>2, <1>3 DEF IInv, NothingHalfAccepted, OnlyOverflowCompacts

\* A result that is no act turn, and speaks of no overflow, breaks nothing.
Harmless(r) == r.kind \notin {"turn", "tooLong"}

LEMMA HarmlessOutcomes ==
  Harmless(Outcome("none")) /\ Harmless(Outcome("error"))
BY DEF Harmless, Outcome

LEMMA IInvPreserved == IInv /\ [Next]_vars => IInv'
<1> SUFFICES ASSUME IInv, [Next]_vars PROVE IInv'
  OBVIOUS
<1> USE AttemptsAssumption
<1>0. /\ ProgressInv /\ AttemptInv /\ AttemptsUsed
      /\ NothingHalfAccepted /\ OnlyOverflowCompacts
  BY DEF IInv, AttemptInv
<1>h. Harmless(result') => NothingHalfAccepted' /\ OnlyOverflowCompacts'
  BY DEF Harmless, NothingHalfAccepted, OnlyOverflowCompacts
<1>1. CASE Cancel
  <2>1. ProgressInv' /\ AttemptInv'
    BY <1>0, <1>1 DEF Cancel, ProgressInv, AttemptInv, AttemptsUsed, Repeats
  <2>2. Harmless(result')
    BY <1>0, <1>1, HarmlessOutcomes DEF Cancel, ProgressInv
  <2> QED BY <1>h, <2>1, <2>2 DEF IInv
<1>2. CASE Send
  <2>1. ProgressInv' /\ AttemptInv'
    BY <1>0, <1>2 DEF Send, ProgressInv, AttemptInv, AttemptsUsed, Repeats
  <2>2. Harmless(result')
    BY <1>0, <1>2, HarmlessOutcomes DEF Send, ProgressInv
  <2> QED BY <1>h, <2>1, <2>2 DEF IInv
<1>3. CASE RequestFails
  <2>1. ProgressInv'
    BY <1>0, <1>3 DEF RequestFails, Returns, ProgressInv
  <2>2. answer.status \in {"throttled", "unavailable"} => cancelled
    BY <1>0, <1>3 DEF RequestFails, ProgressInv, NoAnswer
  <2>3. AttemptInv'
    BY <1>0, <1>3, <2>2
       DEF RequestFails, Returns, ProgressInv, AttemptInv, AttemptsUsed, Repeats
  <2>4. Harmless(result')
    BY <1>3, HarmlessOutcomes DEF RequestFails, Returns
  <2> QED BY <1>h, <2>1, <2>3, <2>4 DEF IInv
<1>4. ASSUME NEW b \in Bodies, AnswerArrives(b) PROVE IInv'
  <2>1. /\ pc = "sent" /\ pc' = "returned" /\ result' = Parsed(query, b)
        /\ answer' = Answered(b)
        /\ UNCHANGED <<query, attempt, cancelled>>
    BY <1>4 DEF AnswerArrives, Returns
  <2>2. ProgressInv'
    BY <1>0, <2>1 DEF ProgressInv
  <2>3. answer'.status = "ok" /\ answer'.body = b
    BY <2>1 DEF Answered
  <2>4. AttemptInv'
    BY <1>0, <2>1, <2>3 DEF AttemptInv, AttemptsUsed, Repeats
  <2>5. query \in Queries
    BY <1>0 DEF ProgressInv
  <2>6. NothingHalfAccepted'
    <3>1. WholeAnswer(query, b)
      BY <2>5, ParsedWhole
    <3> QED BY <2>1, <2>3, <3>1, Zenon DEF NothingHalfAccepted, WholeAnswer
  <2>7. OnlyOverflowCompacts'
    BY <2>1, <2>3, <2>5, ParsedOverflow DEF OnlyOverflowCompacts
  <2> QED BY <2>2, <2>4, <2>6, <2>7 DEF IInv
<1>5. ASSUME NEW r \in Refusals, RefusalEnds(r) PROVE IInv'
  <2>1. /\ pc = "sent" /\ pc' = "returned" /\ result' = apiError(r)
        /\ answer' = RefusedWith(r) /\ (~retryableStatus(r) \/ LastAttempt)
        /\ UNCHANGED <<query, attempt, cancelled>>
    BY <1>5 DEF RefusalEnds, Returns
  <2>2. ProgressInv'
    BY <1>0, <2>1 DEF ProgressInv
  <2>3. answer'.status = r.status /\ answer'.long = r.long
    BY <2>1 DEF RefusedWith
  <2>4. AttemptInv'
    BY <1>0, <2>1, <2>3
       DEF AttemptInv, AttemptsUsed, Repeats, retryableStatus, LastAttempt
  <2>5. NothingHalfAccepted'
    BY <2>1 DEF NothingHalfAccepted, apiError, Outcome
  <2>6. OnlyOverflowCompacts'
    BY <2>1, <2>3 DEF OnlyOverflowCompacts, apiError, Outcome, isContextLengthError
  <2> QED BY <2>2, <2>4, <2>5, <2>6 DEF IInv
<1>6. ASSUME NEW r \in Refusals, RefusalWaits(r) PROVE IInv'
  <2>1. /\ pc = "sent" /\ pc' \in {"pause", "waiting"} /\ ~LastAttempt
        /\ UNCHANGED <<query, attempt, cancelled, result>>
    BY <1>6 DEF RefusalWaits
  <2>2. ProgressInv'
    BY <1>0, <2>1 DEF ProgressInv
  <2>3. AttemptInv'
    BY <1>0, <2>1 DEF AttemptInv, AttemptsUsed, Repeats, LastAttempt
  <2>4. Harmless(result')
    BY <1>0, <2>1, HarmlessOutcomes DEF ProgressInv
  <2> QED BY <1>h, <2>2, <2>3, <2>4 DEF IInv
<1>7. CASE NoPause \/ TimerFires
  <2>1. /\ pc \in {"pause", "waiting"} /\ pc' = "ready" /\ attempt' = attempt + 1
        /\ UNCHANGED <<query, cancelled, answer, result>>
    BY <1>7 DEF NoPause, TimerFires, NextAttempt
  <2>2. ProgressInv'
    BY <1>0, <2>1 DEF ProgressInv
  <2>3. AttemptInv'
    BY <1>0, <2>1 DEF AttemptInv, AttemptsUsed, Repeats
  <2>4. Harmless(result')
    BY <1>0, <2>1, HarmlessOutcomes DEF ProgressInv
  <2> QED BY <1>h, <2>2, <2>3, <2>4 DEF IInv
<1>8. CASE WaitCancelled
  <2>1. /\ cancelled /\ pc' = "returned" /\ result' = Outcome("error")
        /\ UNCHANGED <<query, attempt, cancelled, answer>>
    BY <1>8 DEF WaitCancelled, Returns
  <2>2. ProgressInv'
    BY <1>0, <2>1 DEF ProgressInv
  <2>3. AttemptInv'
    BY <1>0, <1>8, <2>1 DEF WaitCancelled, AttemptInv, AttemptsUsed, Repeats
  <2>4. Harmless(result')
    BY <2>1, HarmlessOutcomes
  <2> QED BY <1>h, <2>2, <2>3, <2>4 DEF IInv
<1>9. CASE UNCHANGED vars
  BY <1>0, <1>9 DEF vars, IInv, ProgressInv, AttemptInv, AttemptsUsed, Repeats,
                    NothingHalfAccepted, OnlyOverflowCompacts
<1> QED
  BY <1>1, <1>2, <1>3, <1>4, <1>5, <1>6, <1>7, <1>8, <1>9 DEF Next, QueryStep

THEOREM Invariance == Spec => []IInv
BY IInvInit, IInvPreserved, PTL DEF Spec

\* A client that repeats its requests gives up on a server that may come back
\* only after all of them, for every number of attempts.
THEOREM AllAttempts == Spec => []AttemptsUsed
<1>1. IInv => AttemptsUsed
  BY DEF IInv, AttemptInv
<1> QED BY <1>1, Invariance, PTL

\* The agent is told that the context is too long only by a server that said
\* so, for every answer.
THEOREM OverflowOnly == Spec => []OnlyOverflowCompacts
<1>1. IInv => OnlyOverflowCompacts
  BY DEF IInv
<1> QED BY <1>1, Invariance, PTL

\* No client takes commands from an answer that is unusable in any part, for
\* every set of answers.
THEOREM WholeAnswers == Spec => []NothingHalfAccepted
<1>1. IInv => NothingHalfAccepted
  BY DEF IInv
<1> QED BY <1>1, Invariance, PTL

-----------------------------------------------------------------------------
(* Turns that survive the transcript *)

Actions == [hasDir : BOOLEAN]

\* A turn with commands, or with a text that says something and evidence that
\* fits its status.
Meant(t) ==
  \/ \E commands \in Seq(Actions) : commands # <<>> /\ t = Act(commands)
  \/ t = Clarify("text")
  \/ \E status, checks, risks :
       /\ checks \in {"none", "some"} /\ risks \in {"none", "some"}
       /\ EvidenceFits(status, checks, risks) /\ t = Done("text", status, checks, risks)

\* CanonicalStable for one turn.
Stable(t) ==
  LET c == CanonicalTurnJSON(t)
      w == NormalizeForProvider(c)
  IN  /\ StrictAccepts(c) /\ TurnOf(c) = t
      /\ ProviderAccepts(w) /\ TurnOf(w) = t
      /\ NormalizeForProvider(w) = w

\* Mapping a sequence gives a sequence, of the same length.
LEMMA MappedSeq ==
  ASSUME NEW S, NEW s \in Seq(S), s # <<>>, NEW T, NEW f,
         DOMAIN f = DOMAIN s, f = [i \in DOMAIN f |-> f[i]], \A i \in DOMAIN s : f[i] \in T
  PROVE  f \in Seq(T) /\ f # <<>>
<1>1. Len(s) \in Nat /\ DOMAIN s = 1 .. Len(s) /\ Len(s) # 0
  OBVIOUS
<1>2. f \in [1 .. Len(s) -> T]
  BY <1>1, Zenon
<1>3. f \in Seq(T)
  BY <1>1, <1>2
<1>4. DOMAIN f # {}
  BY <1>1
<1> QED BY <1>3, <1>4

\* What the parsers accept, and can be written, is meant.
LEMMA AcceptedMeant ==
  ASSUME NEW w, WireTypeOK(w), ProviderAccepts(w) \/ StrictAccepts(w),
         HasCanonicalForm(TurnOf(w))
  PROVE  Meant(TurnOf(w))
<1>1. CASE w.type = "act"
  <2> DEFINE commands == [i \in DOMAIN w.commands |-> ActionOf(w.commands[i])]
  <2>1. w.commands \in Seq(WireCommands) /\ w.commands # <<>>
    BY <1>1 DEF WireTypeOK, ProviderAccepts, StrictAccepts, Commanded
  <2>2. commands \in Seq(Actions) /\ commands # <<>>
    <3>1. /\ DOMAIN commands = DOMAIN w.commands /\ commands = [i \in DOMAIN commands |-> commands[i]]
          /\ \A i \in DOMAIN w.commands : commands[i] \in Actions
      BY DEF Actions, ActionOf
    <3> HIDE DEF commands
    <3> QED BY <2>1, <3>1, MappedSeq
  <2>3. TurnOf(w) = Act(commands)
    BY <1>1 DEF TurnOf
  <2> QED BY <2>2, <2>3 DEF Meant
<1>2. CASE w.type = "clarify"
  <2>1. TurnOf(w) = Clarify(w.question)
    BY <1>2 DEF TurnOf
  <2>2. Clarify(w.question).type = "clarify" /\ Clarify(w.question).text = w.question
    BY DEF Clarify
  <2>3. w.question = "text"
    BY <2>1, <2>2 DEF HasCanonicalForm
  <2> QED BY <2>1, <2>3 DEF Meant
<1>3. CASE w.type = "done"
  <2> DEFINE t == Done(w.summary, w.status, w.checks, w.risks)
  <2>1. TurnOf(w) = t
    BY <1>3 DEF TurnOf
  <2>2. t.type = "done" /\ t.text = w.summary
    BY DEF Done
  <2>3. w.summary = "text"
    BY <2>1, <2>2 DEF HasCanonicalForm
  <2>4. Verified(w)
    BY <1>3 DEF ProviderAccepts, StrictAccepts
  <2> QED BY <2>1, <2>3, <2>4 DEF Meant, Verified
<1> QED BY <1>1, <1>2, <1>3 DEF ProviderAccepts, StrictAccepts

\* So is a turn made of calls.
LEMMA CallsMeant ==
  ASSUME NEW calls \in Seq(Calls), calls # <<>>
  PROVE  Meant(FromCalls(calls).turn)
<1> DEFINE commands == [i \in DOMAIN calls |-> [hasDir |-> FALSE]]
<1>1. commands \in Seq(Actions) /\ commands # <<>>
  <2>1. /\ DOMAIN commands = DOMAIN calls /\ commands = [i \in DOMAIN commands |-> commands[i]]
        /\ \A i \in DOMAIN calls : commands[i] \in Actions
    BY DEF Actions
  <2> HIDE DEF commands
  <2> QED BY <2>1, MappedSeq
<1>2. FromCalls(calls).turn = Act(commands)
  BY DEF FromCalls, Accepted
<1> QED BY <1>1, <1>2 DEF Meant

\* The commands of a turn are those it is written with.
LEMMA CommandsBack ==
  ASSUME NEW commands \in Seq(Actions), commands # <<>>,
         NEW w, w.type = "act", w.bash = "value",
         w.commands = [i \in DOMAIN commands |-> WireCommand(commands[i])]
  PROVE  Commanded(w) /\ TurnOf(w) = Act(commands)
<1>1. \A i \in DOMAIN commands : commands[i] \in Actions
  OBVIOUS
<1>2. ASSUME NEW i \in DOMAIN commands
      PROVE  /\ w.commands[i] = WireCommand(commands[i])
             /\ ActionOf(w.commands[i]) = commands[i]
  BY <1>1 DEF WireCommand, ActionOf, Actions
<1>3. DOMAIN w.commands = DOMAIN commands
  OBVIOUS
<1>4. w.commands # <<>>
  BY <1>3
<1>5. [i \in DOMAIN w.commands |-> ActionOf(w.commands[i])] = commands
  BY <1>2, <1>3
<1>6. Commanded(w)
  BY <1>2, <1>3, <1>4 DEF Commanded, WireCommand
<1> QED BY <1>5, <1>6 DEF TurnOf

\* A turn that is meant is read back from its canonical form, and from the one
\* a provider is sent.
LEMMA MeantBack ==
  ASSUME NEW t, Meant(t)
  PROVE  /\ StrictAccepts(CanonicalTurnJSON(t)) /\ TurnOf(CanonicalTurnJSON(t)) = t
         /\ ProviderAccepts(ProviderJSON(t)) /\ TurnOf(ProviderJSON(t)) = t
<1> DEFINE c == CanonicalTurnJSON(t)
           p == ProviderJSON(t)
<1>1. CASE \E commands \in Seq(Actions) : commands # <<>> /\ t = Act(commands)
  <2>1. PICK commands \in Seq(Actions) : commands # <<>> /\ t = Act(commands)
    BY <1>1
  <2>2. t.type = "act" /\ t.commands = commands
    BY <2>1 DEF Act
  <2>3. /\ c.shape = "bare" /\ c.type = "act" /\ c.bash = "value"
        /\ c.commands = [i \in DOMAIN commands |-> WireCommand(commands[i])]
        /\ c.question = "absent" /\ c.summary = "absent"
        /\ c.verification = "absent" /\ c.risks = "absent"
    BY <2>2 DEF CanonicalTurnJSON, Bare
  <2>4. /\ p.shape = "wrapped" /\ p.type = "act" /\ p.bash = "value"
        /\ p.commands = [i \in DOMAIN commands |-> WireCommand(commands[i])]
        /\ p.question = "null" /\ p.summary = "null"
    BY <2>2 DEF ProviderJSON, CanonicalTurnJSON, Bare
  <2> HIDE DEF c, p
  <2>5. Commanded(c) /\ TurnOf(c) = t
    BY <2>1, <2>3, CommandsBack
  <2>6. Commanded(p) /\ TurnOf(p) = t
    BY <2>1, <2>4, CommandsBack
  <2>7. StrictAccepts(c)
    BY <2>3, <2>5 DEF StrictAccepts
  <2>8. ProviderAccepts(p)
    BY <2>4, <2>6 DEF ProviderAccepts, Missing
  <2> QED BY <2>5, <2>6, <2>7, <2>8 DEF c, p
<1>2. CASE t = Clarify("text")
  <2>1. t.type = "clarify" /\ t.text = "text"
    BY <1>2 DEF Clarify
  <2>2. /\ c.shape = "bare" /\ c.type = "clarify" /\ c.question = "text"
        /\ c.bash = "absent" /\ c.summary = "absent"
        /\ c.verification = "absent" /\ c.risks = "absent"
    BY <2>1 DEF CanonicalTurnJSON, Bare
  <2>3. /\ p.shape = "wrapped" /\ p.type = "clarify" /\ p.question = "text"
        /\ p.bash = "null" /\ p.summary = "null"
    BY <2>1 DEF ProviderJSON, CanonicalTurnJSON, Bare
  <2> HIDE DEF c, p
  <2>4. TurnOf(c) = t /\ TurnOf(p) = t
    BY <1>2, <2>2, <2>3 DEF TurnOf
  <2>5. StrictAccepts(c)
    BY <2>2 DEF StrictAccepts
  <2>6. ProviderAccepts(p)
    BY <2>3 DEF ProviderAccepts, Missing
  <2> QED BY <2>4, <2>5, <2>6 DEF c, p
<1>3. ASSUME NEW status, NEW checks \in {"none", "some"}, NEW risks \in {"none", "some"},
             EvidenceFits(status, checks, risks), t = Done("text", status, checks, risks)
      PROVE  /\ StrictAccepts(c) /\ TurnOf(c) = t /\ ProviderAccepts(p) /\ TurnOf(p) = t
  <2>1. /\ t.type = "done" /\ t.text = "text" /\ t.status = status
        /\ t.checks = checks /\ t.risks = risks
    BY <1>3 DEF Done
  <2>2. /\ c.shape = "bare" /\ c.type = "done" /\ c.summary = "text"
        /\ c.bash = "absent" /\ c.question = "absent"
        /\ c.verification = "value" /\ c.status = status
        /\ c.checks = checks /\ c.risks = risks
    BY <2>1 DEF CanonicalTurnJSON, Bare, KnownRisks
  <2>3. /\ p.shape = "wrapped" /\ p.type = "done" /\ p.summary = "text"
        /\ p.bash = "null" /\ p.question = "null"
        /\ p.verification = "value" /\ p.status = status
        /\ p.checks = checks /\ p.risks = risks
    <3>1. c = [shape |-> "bare", type |-> "done", bash |-> "absent", commands |-> <<>>,
               question |-> "absent", summary |-> "text", verification |-> "value",
               status |-> status, checks |-> checks, risks |-> risks]
      BY <2>1 DEF CanonicalTurnJSON, Bare, KnownRisks
    <3> HIDE DEF c
    <3>2. p = [c EXCEPT !.shape = "wrapped", !.bash = "null", !.question = "null",
                        !.summary = "text"]
      BY <3>1 DEF ProviderJSON, c
    <3> QED BY <3>1, <3>2
  <2> HIDE DEF c, p
  <2>4. TurnOf(c) = t /\ TurnOf(p) = t
    BY <1>3, <2>2, <2>3 DEF TurnOf
  <2>5. Verified(c) /\ Verified(p)
    BY <1>3, <2>2, <2>3 DEF Verified
  <2>6. StrictAccepts(c)
    BY <2>2, <2>5 DEF StrictAccepts
  <2>7. ProviderAccepts(p)
    BY <2>3, <2>5 DEF ProviderAccepts, Missing
  <2> QED BY <2>4, <2>6, <2>7
<1> QED BY <1>1, <1>2, <1>3 DEF Meant

\* So it is stable.
LEMMA MeantStable ==
  ASSUME NEW t, Meant(t)
  PROVE  Stable(t)
<1> DEFINE c == CanonicalTurnJSON(t)
           p == ProviderJSON(t)
<1>1. StrictAccepts(c) /\ TurnOf(c) = t /\ ProviderAccepts(p) /\ TurnOf(p) = t
  BY MeantBack
<1>2. NormalizeForProvider(c) = p
  BY <1>1 DEF NormalizeForProvider
<1>3. NormalizeForProvider(p) = p
  BY <1>1 DEF NormalizeForProvider
<1> QED BY <1>1, <1>2, <1>3 DEF Stable

\* Every client takes a turn only if it is meant.
LEMMA ParsedMeant ==
  ASSUME NEW q \in Queries, NEW b \in Bodies, Parsed(q, b).kind = "turn"
  PROVE  Meant(Parsed(q, b).turn)
<1> DEFINE r == Parsed(q, b)
<1>1. b.calls \in Seq(Calls) /\ WireTypeOK(b.turn)
  BY BodyCalls
<1>2. ASSUME NEW accepted \in BOOLEAN, r = FromTurn(b.turn, accepted),
             accepted => ProviderAccepts(b.turn) \/ StrictAccepts(b.turn)
      PROVE  Meant(r.turn)
  <2>1. accepted /\ HasCanonicalForm(TurnOf(b.turn)) /\ r = Accepted(TurnOf(b.turn), 0)
    BY <1>2 DEF FromTurn, Outcome
  <2>2. Accepted(TurnOf(b.turn), 0).turn = TurnOf(b.turn)
    BY DEF Accepted
  <2>3. Meant(TurnOf(b.turn))
    BY <1>1, <1>2, <2>1, AcceptedMeant
  <2> HIDE DEF r
  <2> QED BY <2>1, <2>2, <2>3, Zenon
<1>3. CASE b.calls # <<>> /\ r = FromCalls(b.calls)
  BY <1>1, <1>3, CallsMeant
<1>4. CASE q.provider = "chat"
  <2>1. r = FromTurn(b.turn, ProviderAccepts(b.turn) \/ StrictAccepts(b.turn))
    BY <1>4 DEF Parsed, ParsedByChat, Outcome
  <2>2. (ProviderAccepts(b.turn) \/ StrictAccepts(b.turn)) \in BOOLEAN
    OBVIOUS
  <2> QED BY <1>2, <2>1, <2>2
<1>5. ASSUME q.provider # "chat"
      PROVE  \/ b.calls # <<>> /\ r = FromCalls(b.calls)
             \/ r = FromTurn(b.turn, IF q.tools THEN ToolTextAccepts(b.turn)
                                                ELSE ProviderAccepts(b.turn))
  <2>1. CASE q.provider = "responses"
    BY <2>1 DEF Parsed, ParsedByResponses, ResponsesCalls, Outcome
  <2>2. CASE q.provider = "messages"
    BY <2>2 DEF Parsed, ParsedByAnthropic, AnthropicCalls, Outcome
  <2> QED BY <1>5, <2>1, <2>2 DEF Queries
<1>6. CASE r = FromTurn(b.turn, IF q.tools THEN ToolTextAccepts(b.turn)
                                           ELSE ProviderAccepts(b.turn))
  <2> DEFINE accepted == IF q.tools THEN ToolTextAccepts(b.turn)
                                    ELSE ProviderAccepts(b.turn)
  <2>1. accepted \in BOOLEAN /\ (accepted => ProviderAccepts(b.turn) \/ StrictAccepts(b.turn))
    BY DEF ToolTextAccepts, ProviderAccepts
  <2> QED BY <1>2, <1>6, <2>1
<1> QED BY <1>3, <1>4, <1>5, <1>6

-----------------------------------------------------------------------------
(* Schemas and parsers *)

\* What a schema lets through, and is not blank where it must say something,
\* is a turn the parsers of providers take, and is written in its canonical form.
LEMMA AllowedAccepted ==
  ASSUME NEW w, WireTypeOK(w), NEW types, SchemaAllows(types, w), Meaningful(w)
  PROVE  ProviderAccepts(w) /\ HasCanonicalForm(TurnOf(w)) /\ w.type \in types
<1>1. w.shape = "wrapped" /\ w.type \in types
  BY DEF SchemaAllows
<1>2. CASE w.type = "act"
  <2>1. Commanded(w) /\ w.question = "null" /\ w.summary = "null"
    BY <1>2 DEF SchemaAllows, Meaningful, Commanded
  <2>2. TurnOf(w).type = "act"
    BY <1>2 DEF TurnOf, Act
  <2> QED BY <1>1, <1>2, <2>1, <2>2 DEF ProviderAccepts, HasCanonicalForm, Missing
<1>3. CASE w.type = "clarify"
  <2>1. w.question = "text" /\ w.bash = "null" /\ w.summary = "null"
    BY <1>3 DEF SchemaAllows, Meaningful, WireTypeOK, WireStrings, Missing
  <2>2. TurnOf(w).text = "text"
    BY <1>3, <2>1 DEF TurnOf, Clarify
  <2> QED BY <1>1, <1>3, <2>1, <2>2 DEF ProviderAccepts, HasCanonicalForm, Missing
<1>4. CASE w.type = "done"
  <2>1. w.summary = "text" /\ w.bash = "null" /\ w.question = "null"
    BY <1>4 DEF SchemaAllows, Meaningful, WireTypeOK, WireStrings, Missing
  <2>2. Verified(w)
    BY <1>4 DEF SchemaAllows, Meaningful, WireTypeOK, WireChecks, WireRisks, Missing, Verified
  <2>3. TurnOf(w).text = "text"
    BY <1>4, <2>1 DEF TurnOf, Done
  <2> QED BY <1>1, <1>4, <2>1, <2>2, <2>3 DEF ProviderAccepts, HasCanonicalForm, Missing
<1> QED BY <1>2, <1>3, <1>4 DEF SchemaAllows

\* Every client takes such a turn as what it is.
LEMMA ParsedAllowed ==
  ASSUME NEW q \in Queries, q.kind # "text", NEW b \in Bodies,
         b.says = "nothing", b.text = "turn", b.calls = <<>>, b.blocks = 1,
         SchemaAllows(AllowedTypes(q), b.turn), Meaningful(b.turn)
  PROVE  Parsed(q, b) = Accepted(TurnOf(b.turn), 0)
<1> DEFINE w == b.turn
<1>1. ProviderAccepts(w) /\ HasCanonicalForm(TurnOf(w)) /\ w.type \in AllowedTypes(q)
  BY BodyCalls, AllowedAccepted
<1>2. FromTurn(w, TRUE) = Accepted(TurnOf(w), 0)
  BY <1>1 DEF FromTurn
<1>3. q.tools => ToolTextAccepts(w)
  <2>1. q.tools => q.kind = "turn"
    BY DEF Queries
  <2> QED BY <1>1, <2>1 DEF ToolTextAccepts, AllowedTypes
<1>4. CASE q.provider = "chat"
  BY <1>1, <1>2, <1>4 DEF Parsed, ParsedByChat
<1>5. CASE q.provider = "responses"
  BY <1>1, <1>2, <1>3, <1>5 DEF Parsed, ParsedByResponses
<1>6. CASE q.provider = "messages"
  BY <1>1, <1>2, <1>3, <1>6 DEF Parsed, ParsedByAnthropic, OneBlockExpected
<1> QED BY <1>4, <1>5, <1>6 DEF Queries

\* In tool-call mode every client takes usable calls alone.
LEMMA ParsedCalls ==
  ASSUME NEW q \in Queries, q.tools, NEW b \in Bodies,
         b.says = "nothing", b.text = "none", b.calls # <<>>,
         \A i \in DOMAIN b.calls : b.calls[i] = "good"
  PROVE  Parsed(q, b).kind = "turn" /\ Parsed(q, b).paired = Len(b.calls)
<1>1. \A i \in DOMAIN b.calls : UsableCall(q, b.calls[i])
  BY DEF UsableCall
<1>2. Parsed(q, b) = FromCalls(b.calls)
  <2>1. CASE q.provider = "responses"
    BY <1>1, <2>1 DEF Parsed, ParsedByResponses, ResponsesCalls
  <2>2. CASE q.provider = "messages"
    BY <1>1, <2>2 DEF Parsed, ParsedByAnthropic, AnthropicCalls
  <2> QED BY <2>1, <2>2 DEF Queries
<1>3. FromCalls(b.calls).kind = "turn" /\ FromCalls(b.calls).paired = Len(b.calls)
  BY DEF FromCalls, Accepted
<1> QED BY <1>2, <1>3

\* The kinds of results.
LEMMA ParsedKind ==
  ASSUME NEW q \in Queries, NEW b \in Bodies
  PROVE  Parsed(q, b).kind \in Results
<1>1. \A k : Outcome(k).kind = k
  BY DEF Outcome
<1>2. \A w, accepted : FromTurn(w, accepted).kind \in {"protocolErr", "turn", "error"}
  BY DEF FromTurn, Accepted, Outcome
<1>3. \A calls : FromCalls(calls).kind = "turn"
  BY DEF FromCalls, Accepted
<1> USE <1>1, <1>2, <1>3 DEF Results
<1>4. CASE q.provider = "chat"
  BY <1>4 DEF Parsed, ParsedByChat
<1>5. CASE q.provider = "responses"
  BY <1>5 DEF Parsed, ParsedByResponses, ResponsesCalls
<1>6. CASE q.provider = "messages"
  BY <1>6 DEF Parsed, ParsedByAnthropic, AnthropicCalls
<1> QED BY <1>4, <1>5, <1>6 DEF Queries

-----------------------------------------------------------------------------
(* What the result has to do with the answer *)

\* A result was read off the answer that is there, and no turn comes from
\* anything else.
ReadInv ==
  /\ answer.status \in {"none", "ok"} \cup {r.status : r \in Refusals}
  /\ result.kind \in Results
  /\ answer.status # "ok" => result.kind # "turn" /\ answer.body = Plain(Prose)
  /\ answer.status = "ok" =>
       pc = "returned" /\ answer.body \in Bodies /\ result = Parsed(query, answer.body)

\* Before the first answer nothing is read.
LEMMA ReadInit == Init => ReadInv
BY DEF Init, ReadInv, NoAnswer, Outcome, Results

\* A refusal is no answer to read.
LEMMA RefusalIs ==
  ASSUME NEW r \in Refusals
  PROVE  /\ RefusedWith(r).status \in {x.status : x \in Refusals}
         /\ RefusedWith(r).status # "ok" /\ RefusedWith(r).body = Plain(Prose)
         /\ apiError(r).kind \in {"tooLong", "error"}
BY DEF RefusedWith, Refusals, apiError, Outcome

\* Every step reads the answer that is there.
LEMMA ReadStep == IInv /\ ReadInv /\ [Next]_vars => ReadInv'
<1> SUFFICES ASSUME IInv, ReadInv, [Next]_vars PROVE ReadInv'
  OBVIOUS
<1>1. query \in Queries /\ (pc # "returned" => answer.status # "ok")
  BY DEF IInv, ProgressInv, ReadInv
<1>2. Outcome("error").kind = "error" /\ "error" \in Results
  BY DEF Outcome, Results
<1>3. CASE Cancel
  BY <1>1, <1>3 DEF Cancel, ReadInv
<1>4. CASE Send
  BY <1>1, <1>4 DEF Send, ReadInv, NoAnswer
<1>5. CASE RequestFails \/ WaitCancelled
  <2>1. UNCHANGED answer /\ result' = Outcome("error") /\ pc # "returned"
    BY <1>5 DEF RequestFails, WaitCancelled, Returns
  <2> QED BY <1>1, <1>2, <2>1 DEF ReadInv
<1>6. ASSUME NEW b \in Bodies, AnswerArrives(b) PROVE ReadInv'
  <2>1. /\ pc' = "returned" /\ result' = Parsed(query, b) /\ query' = query
        /\ answer'.status = "ok" /\ answer'.body = b
    BY <1>6 DEF AnswerArrives, Returns, Answered
  <2>2. Parsed(query, b).kind \in Results
    BY <1>1, ParsedKind
  <2> QED BY <2>1, <2>2 DEF ReadInv
<1>7. ASSUME NEW r \in Refusals, RefusalEnds(r) PROVE ReadInv'
  <2>1. answer' = RefusedWith(r) /\ result' = apiError(r)
    BY <1>7 DEF RefusalEnds, Returns
  <2> QED BY <2>1, RefusalIs DEF ReadInv, Results
<1>8. ASSUME NEW r \in Refusals, RefusalWaits(r) PROVE ReadInv'
  <2>1. answer' = RefusedWith(r) /\ result' = result /\ pc = "sent"
    BY <1>8 DEF RefusalWaits
  <2> QED BY <1>1, <2>1, RefusalIs DEF ReadInv
<1>9. CASE NoPause \/ TimerFires
  <2>1. UNCHANGED <<answer, result>> /\ pc # "returned"
    BY <1>9 DEF NoPause, TimerFires, NextAttempt
  <2> QED BY <1>1, <2>1 DEF ReadInv
<1>10. CASE UNCHANGED vars
  BY <1>10 DEF vars, ReadInv
<1> QED
  BY <1>3, <1>4, <1>5, <1>6, <1>7, <1>8, <1>9, <1>10 DEF Next, QueryStep

\* It holds in every state.
LEMMA ReadInvariance == Spec => [](IInv /\ ReadInv)
BY IInvInit, IInvPreserved, ReadInit, ReadStep, PTL DEF Spec

\* Every body has the types of a body.
LEMMA BodyIs ==
  ASSUME NEW b \in Bodies
  PROVE  b \in Body
<1>1. b.calls \in Seq(Calls)
  BY BodyCalls
<1>2. CASE \E w \in Texts : b = Plain(w)
  <2>1. <<>> \in Seq(Calls)
    OBVIOUS
  <2> QED BY <1>2, <2>1 DEF Plain, Body
<1>3. CASE b \in [says: {"nothing", "broken", "failed", "overflow", "refusal"},
                  text: {"none", "blank", "turn"}, turn: FewTexts,
                  blocks: {1, 2}, calls: CallSeqs]
  BY <1>1, <1>3, TextsAssumption DEF Body
<1> QED BY <1>2, <1>3 DEF Bodies

\* A query keeps its types, and makes no more requests than its client allows.
THEOREM TypeCorrect == Spec => []QueryTypeOK
<1>1. ASSUME IInv, ReadInv PROVE QueryTypeOK
  <2>1. attempt \in 1 .. (IF Repeats(query) THEN maxAttempts ELSE 1)
    BY <1>1 DEF IInv, AttemptInv
  <2>2. answer.status = "ok" => answer.body \in Body /\ WireTypeOK(answer.body.turn)
    BY <1>1, BodyIs, BodyCalls DEF ReadInv
  <2>3. answer.status # "ok" => WireTypeOK(answer.body.turn)
    <3>1. WireTypeOK(Prose)
      BY DEF Prose, Bare, WireTypeOK, Missing, WireStrings, Types, Statuses, WireChecks, WireRisks
    <3>2. Plain(Prose).turn = Prose
      BY DEF Plain
    <3> QED BY <1>1, <3>1, <3>2 DEF ReadInv
  <2> QED BY <1>1, <2>1, <2>2, <2>3 DEF IInv, ProgressInv, ReadInv, QueryTypeOK
<1> QED BY <1>1, ReadInvariance, PTL

\* For every answer: the schema a request carries and the parser its answer
\* meets agree, by every client and in every mode (actwire/schema.go, protocol.go,
\* the providers' parse functions).
THEOREM SchemasAccepted == Spec => []SchemaAccepted
<1>1. ASSUME IInv, ReadInv PROVE SchemaAccepted
  <2> DEFINE b == answer.body
  <2>1. query \in Queries
    BY <1>1 DEF IInv, ProgressInv
  <2>2. answer.status = "ok" => b \in Bodies /\ result = Parsed(query, b)
    BY <1>1 DEF ReadInv
  <2> HIDE DEF b
  <2>3. ASSUME answer.status = "ok", query.kind # "text", b.says = "nothing", b.text = "turn",
               b.calls = <<>>, b.blocks = 1,
               SchemaAllows(AllowedTypes(query), b.turn), Meaningful(b.turn)
        PROVE  result = Accepted(TurnOf(b.turn), 0)
    BY <2>1, <2>2, <2>3, ParsedAllowed
  <2>4. ASSUME answer.status = "ok", query.tools, b.says = "nothing", b.text = "none",
               b.calls # <<>>, \A i \in DOMAIN b.calls : b.calls[i] = "good"
        PROVE  result.kind = "turn" /\ result.paired = Len(b.calls)
    BY <2>1, <2>2, <2>4, ParsedCalls
  <2> QED BY <2>3, <2>4, Zenon DEF SchemaAccepted, AnsweredText, b
<1> QED BY <1>1, ReadInvariance, PTL

\* For every answer: the turn that was accepted is read back from the canonical
\* form the transcript keeps, and from the one a provider is sent later
\* (turn_canonical.go, NormalizeMessagesForProvider).
THEOREM AcceptedStable == Spec => []CanonicalStable
<1>1. ASSUME IInv, ReadInv, result.kind = "turn" PROVE Stable(result.turn)
  <2>1. query \in Queries /\ answer.body \in Bodies /\ result = Parsed(query, answer.body)
    BY <1>1 DEF IInv, ProgressInv, ReadInv
  <2>2. Meant(result.turn)
    BY <1>1, <2>1, ParsedMeant
  <2> QED BY <2>2, MeantStable
<1>2. IInv /\ ReadInv => CanonicalStable
  BY <1>1, Zenon DEF CanonicalStable, Stable
<1> QED BY <1>2, ReadInvariance, PTL

-----------------------------------------------------------------------------
(* Why queries return.  TLC checks CancelledQueryEnds; proved here is what  *)
(* its fairness rests on.                                                   *)

\* What is left of a query: of the request it is at, and of the ones its
\* client may still make.
QueryLeft ==
  IF pc = "returned" THEN 0
  ELSE 3 * (maxAttempts - attempt)
         + (IF pc = "ready" THEN 3 ELSE IF pc = "sent" THEN 2 ELSE 1)

\* What is left of a query whose context is done.
CancelledLeft ==
  IF pc = "returned" THEN 0
  ELSE IF pc = "sent" THEN 3 ELSE IF pc \in {"pause", "waiting"} THEN 2 ELSE 1

\* For every number of attempts: a query takes at most three steps for each, and
\* the one that ends its context.  Whatever the server does, every other step
\* leaves less of it (doRequest and the retry loops of the clients).
THEOREM QueriesShorten ==
  Spec => /\ [](QueryLeft \in 0 .. 3 * maxAttempts)
          /\ [][Cancel \/ QueryLeft' < QueryLeft]_vars
<1>1. IInv => QueryLeft \in 0 .. 3 * maxAttempts
  BY AttemptsAssumption DEF IInv, AttemptInv, QueryLeft
<1>2. ASSUME IInv, Next PROVE Cancel \/ QueryLeft' < QueryLeft
  <2> /\ attempt \in 1 .. maxAttempts
      /\ pc \in {"pause", "waiting"} => attempt < maxAttempts
    BY <1>2 DEF IInv, AttemptInv, AttemptsUsed
  <2> USE AttemptsAssumption DEF QueryLeft, Returns, NextAttempt
  <2>1. CASE Send
    BY <2>1 DEF Send
  <2>2. CASE RequestFails
    BY <2>2 DEF RequestFails
  <2>3. CASE NoPause \/ TimerFires
    BY <2>3 DEF NoPause, TimerFires
  <2>4. CASE WaitCancelled
    BY <2>4 DEF WaitCancelled
  <2>5. ASSUME NEW b \in Bodies, AnswerArrives(b) PROVE QueryLeft' < QueryLeft
    BY <2>5 DEF AnswerArrives
  <2>6. ASSUME NEW r \in Refusals, RefusalEnds(r) PROVE QueryLeft' < QueryLeft
    BY <2>6 DEF RefusalEnds
  <2>7. ASSUME NEW r \in Refusals, RefusalWaits(r) PROVE QueryLeft' < QueryLeft
    BY <2>7 DEF RefusalWaits
  <2> QED
    BY <1>2, <2>1, <2>2, <2>3, <2>4, <2>5, <2>6, <2>7 DEF Next, QueryStep
<1>3. IInv /\ [Next]_vars => [Cancel \/ QueryLeft' < QueryLeft]_vars
  BY <1>2
<1> QED BY <1>1, <1>3, Invariance, PTL DEF Spec

\* Once its context is done a query takes at most three more steps, however
\* often and after whatever wait it would be repeated: a timer may still beat
\* the context, but the request behind it is not sent.
THEOREM CancelledQueriesShorten ==
  Spec => [][cancelled => /\ CancelledLeft \in 1 .. 3 /\ CancelledLeft' \in 0 .. 2
                          /\ CancelledLeft' < CancelledLeft]_vars
<1> DEFINE Shorter == /\ CancelledLeft \in 1 .. 3 /\ CancelledLeft' \in 0 .. 2
                      /\ CancelledLeft' < CancelledLeft
<1>1. ASSUME IInv, Next, cancelled PROVE Shorter
  <2> USE <1>1 DEF CancelledLeft, Returns, NextAttempt
  <2>1. CASE Send \/ Cancel
    BY <2>1 DEF Send, Cancel
  <2>2. CASE RequestFails
    BY <2>2 DEF RequestFails
  <2>3. CASE NoPause \/ TimerFires
    BY <2>3 DEF NoPause, TimerFires
  <2>4. CASE WaitCancelled
    BY <2>4 DEF WaitCancelled
  <2>5. ASSUME NEW b \in Bodies, AnswerArrives(b) PROVE Shorter
    BY <2>5 DEF AnswerArrives
  <2>6. ASSUME NEW r \in Refusals, RefusalEnds(r) PROVE Shorter
    BY <2>6 DEF RefusalEnds
  <2>7. ASSUME NEW r \in Refusals, RefusalWaits(r) PROVE Shorter
    BY <2>7 DEF RefusalWaits
  <2> QED
    BY <2>1, <2>2, <2>3, <2>4, <2>5, <2>6, <2>7 DEF Next, QueryStep
<1>2. IInv /\ [Next]_vars => [cancelled => Shorter]_vars
  BY <1>1
<1> QED BY <1>2, Invariance, PTL DEF Spec
=============================================================================
