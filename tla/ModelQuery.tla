----------------------------- MODULE ModelQuery -----------------------------
(***************************************************************************)
(* One query of the model through one of the three provider clients        *)
(* (internal/providers): openai ("chat"), openairesponses ("responses")    *)
(* and anthropic ("messages").  The request goes out with the schema and   *)
(* the tool of its kind; the first two clients repeat it when the server   *)
(* is throttled or unavailable; the answer becomes a turn, a protocol      *)
(* failure the agent can correct, a context that is too long, or an error. *)
(* The server is the environment: it answers anything, or not at all.      *)
(***************************************************************************)
EXTENDS TurnProtocol

CONSTANTS
  maxAttempts,   \* requests of one query, where the client repeats it
  Texts,         \* bound: wire turns the server answers with
  FewTexts       \* bound: those combined with everything else in a response

ASSUME AttemptsAssumption == maxAttempts \in Nat \ {0}
ASSUME TextsAssumption    == FewTexts \subseteq Texts /\ \A w \in Texts : WireTypeOK(w)

VARIABLES
  pc,          \* where the query is
  query,       \* what is asked, one of Queries
  attempt,     \* the request being made
  cancelled,   \* its context is done
  answer,      \* the server's answer to the last request, NoAnswer before it
  result       \* what the query returned

vars == <<pc, query, attempt, cancelled, answer, result>>

(***************************************************************************)
(* What is asked: kind is "turn" (Query), "final" (QueryFinal) or "text"   *)
(* (QueryText).  Only the first depends on whether bash is offered as a    *)
(* tool, and on whether nobody is there to answer a question.  The chat    *)
(* client knows neither tools nor a final query.                           *)
(***************************************************************************)
Queries ==
  {q \in [provider: {"chat", "responses", "messages"},
          kind: {"turn", "final", "text"}, tools: BOOLEAN, unattended: BOOLEAN] :
     /\ q.provider = "chat" => ~q.tools /\ q.kind # "final"
     /\ q.tools \/ q.unattended => q.kind = "turn"}

\* Faulty variant: asks for act turns as text next to the tool.
AllowedTypesWithAct(q) ==
  IF q.kind = "final" THEN {"done"}
  ELSE IF q.unattended THEN {"act", "done"} ELSE Types

\* The turns the schema of the request lets the model write as text.
AllowedTypes(q) ==
  IF q.kind = "final" THEN {"done"}
  ELSE Types \ ((IF q.unattended THEN {"clarify"} ELSE {})
                  \cup (IF q.tools THEN {"act"} ELSE {}))

-----------------------------------------------------------------------------
(* Answers *)

(***************************************************************************)
(* A tool call is "good", lacks the workdir its schema asks for, or is of  *)
(* no use: no id, another tool, other arguments, a blank command.          *)
(***************************************************************************)
Calls == {"good", "noWorkdir", "bad"}

\* The body of a 200: the text and its number of blocks, the tool calls, and
\* what the provider says of the response as a whole.
Body == [says: {"nothing", "broken", "failed", "overflow", "refusal"},
         text: {"none", "blank", "turn"}, turn: Texts, blocks: {1, 2},
         calls: Seq(Calls)]

Plain(w) == [says |-> "nothing", text |-> "turn", turn |-> w, blocks |-> 1, calls |-> <<>>]

CallSeqs == {<<>>} \cup {<<c>> : c \in Calls} \cup {<<c, d>> : c, d \in Calls}

Bodies ==
  {Plain(w) : w \in Texts}
    \cup [says: {"nothing", "broken", "failed", "overflow", "refusal"},
          text: {"none", "blank", "turn"}, turn: FewTexts, blocks: {1, 2},
          calls: CallSeqs]

\* Any other status, with a text that may speak of the length of the context.
Refusals == [status: {"badRequest", "denied", "throttled", "unavailable"},
             long: BOOLEAN]

Results == {"none", "turn", "text", "protocolErr", "tooLong", "error"}

NoTurn == Clarify("empty")

Outcome(kind)  == [kind |-> kind, turn |-> NoTurn, paired |-> 0]
Accepted(t, n) == [kind |-> "turn", turn |-> t, paired |-> n]

isContextLengthError(r) == r.status = "badRequest" /\ r.long

retryableStatus(r) == r.status \in {"throttled", "unavailable"}

apiError(r) == Outcome(IF isContextLengthError(r) THEN "tooLong" ELSE "error")

\* A turn that was parsed must have a canonical form, or the query fails.
FromTurn(w, accepted) ==
  IF ~accepted THEN Outcome("protocolErr")
  ELSE IF HasCanonicalForm(TurnOf(w)) THEN Accepted(TurnOf(w), 0) ELSE Outcome("error")

\* openai.go: parseResponse and parseTextResponse.
ParsedByChat(q, b) ==
  IF b.says \in {"broken", "refusal"} \/ b.text # "turn" THEN Outcome("error")
  ELSE IF q.kind = "text" THEN Outcome("text")
  ELSE FromTurn(b.turn, ProviderAccepts(b.turn) \/ StrictAccepts(b.turn))

\* The turns tool-call mode takes as text.
ToolTextAccepts(w) == ProviderAccepts(w) /\ w.type # "act"

UsableCall(q, c) == c = "good" \/ (c = "noWorkdir" /\ q.provider = "messages")

FromCalls(calls) == Accepted(Act([i \in DOMAIN calls |-> [hasDir |-> FALSE]]), Len(calls))

\* Faulty variant: passes over the calls it cannot use.
ResponsesCallsLenient(q, b) ==
  LET usable == SelectSeq(b.calls, LAMBDA c : UsableCall(q, c))
  IN  IF usable = <<>> THEN Outcome("protocolErr") ELSE FromCalls(usable)

\* responseFromFunctionCalls: calls and nothing else, and all of them usable.
ResponsesCalls(q, b) ==
  IF b.text = "turn" \/ \E i \in DOMAIN b.calls : ~UsableCall(q, b.calls[i])
  THEN Outcome("protocolErr") ELSE FromCalls(b.calls)

\* openairesponses: extractOutputText, and collectToolCallResponseParts.
ParsedByResponses(q, b) ==
  IF b.says = "overflow" THEN Outcome("tooLong")
  ELSE IF b.says # "nothing" THEN Outcome("error")
  ELSE IF q.tools /\ b.calls # <<>> THEN ResponsesCalls(q, b)
  ELSE IF b.text # "turn" THEN Outcome("error")
  ELSE IF q.kind = "text" THEN Outcome("text")
  ELSE FromTurn(b.turn, IF q.tools THEN ToolTextAccepts(b.turn) ELSE ProviderAccepts(b.turn))

\* The text next to the calls is the reasoning of the turn.
AnthropicCalls(q, b) ==
  IF \E i \in DOMAIN b.calls : ~UsableCall(q, b.calls[i])
  THEN Outcome("protocolErr") ELSE FromCalls(b.calls)

\* A structured answer is one block of text; the other answers may have more.
OneBlockExpected(q) == q.kind # "text" /\ ~q.tools

\* anthropic: structuredRequest and the three ways to read its answer.
ParsedByAnthropic(q, b) ==
  IF b.says = "overflow" THEN Outcome("tooLong")
  ELSE IF b.says = "broken" THEN Outcome("error")
  ELSE IF q.tools /\ b.calls # <<>> THEN AnthropicCalls(q, b)
  ELSE IF b.text # "turn" \/ (OneBlockExpected(q) /\ b.blocks # 1) THEN Outcome("error")
  ELSE IF q.kind = "text" THEN Outcome("text")
  ELSE FromTurn(b.turn, IF q.tools THEN ToolTextAccepts(b.turn) ELSE ProviderAccepts(b.turn))

Parsed(q, b) ==
  CASE q.provider = "chat"      -> ParsedByChat(q, b)
    [] q.provider = "responses" -> ParsedByResponses(q, b)
    [] q.provider = "messages"  -> ParsedByAnthropic(q, b)

-----------------------------------------------------------------------------
(* The requests of a query *)

NoAnswer == [status |-> "none", long |-> FALSE, body |-> Plain(Prose)]

Answered(b) == [status |-> "ok", long |-> FALSE, body |-> b]

RefusedWith(r) == [status |-> r.status, long |-> r.long, body |-> Plain(Prose)]

Init ==
  /\ pc = "ready" /\ query \in Queries /\ attempt = 1 /\ cancelled = FALSE
  /\ answer = NoAnswer /\ result = Outcome("none")

Cancel ==
  /\ pc # "returned" /\ ~cancelled
  /\ cancelled' = TRUE
  /\ UNCHANGED <<pc, query, attempt, answer, result>>

Returns(o) ==
  /\ pc' = "returned" /\ result' = o
  /\ UNCHANGED <<query, attempt, cancelled>>

\* doRequest: nothing is sent once the context is done.
Send ==
  /\ pc = "ready" /\ ~cancelled
  /\ pc' = "sent" /\ answer' = NoAnswer
  /\ UNCHANGED <<query, attempt, cancelled, result>>

\* The connection fails, the client's timeout passes, or the context is done.
RequestFails ==
  /\ pc \in {"ready", "sent"}
  /\ pc = "ready" => cancelled
  /\ Returns(Outcome("error")) /\ UNCHANGED answer

AnswerArrives(b) ==
  /\ pc = "sent"
  /\ answer' = Answered(b)
  /\ Returns(Parsed(query, b))

\* The anthropic client does not repeat a request.
Repeats(q) == q.provider # "messages"

\* Faulty variant: goes on for ever.
LastAttemptNever == FALSE

\* Faulty variant: stops one request short.
LastAttemptEarly == attempt + 1 >= maxAttempts \/ ~Repeats(query)

LastAttempt == attempt = maxAttempts \/ ~Repeats(query)

RefusalEnds(r) ==
  /\ pc = "sent" /\ (~retryableStatus(r) \/ LastAttempt)
  /\ answer' = RefusedWith(r)
  /\ Returns(apiError(r))

\* Retry-After may say to go on at once.
RefusalWaits(r) ==
  /\ pc = "sent" /\ retryableStatus(r) /\ ~LastAttempt
  /\ answer' = RefusedWith(r)
  /\ pc' \in {"pause", "waiting"}
  /\ UNCHANGED <<query, attempt, cancelled, result>>

NextAttempt ==
  /\ pc' = "ready" /\ attempt' = attempt + 1
  /\ UNCHANGED <<query, cancelled, answer, result>>

NoPause == pc = "pause" /\ ~cancelled /\ NextAttempt

TimerFires == pc = "waiting" /\ NextAttempt

\* Faulty variant: sleeps to the end.
WaitCancelledNever == FALSE /\ UNCHANGED vars

WaitCancelled ==
  /\ pc \in {"pause", "waiting"} /\ cancelled
  /\ Returns(Outcome("error")) /\ UNCHANGED answer

QueryStep ==
  \/ Send \/ RequestFails \/ NoPause \/ TimerFires \/ WaitCancelled
  \/ \E b \in Bodies : AnswerArrives(b)
  \/ \E r \in Refusals : RefusalEnds(r) \/ RefusalWaits(r)

Next == Cancel \/ QueryStep

\* The client goes on with what it can do: net/http returns when the context
\* of a request is done.  The server owes no answer, and a timer may be set
\* for as long as the server likes.
Fairness ==
  /\ WF_vars(Send) /\ WF_vars(NoPause) /\ WF_vars(WaitCancelled)
  /\ WF_vars(RequestFails /\ cancelled)

Spec == Init /\ [][Next]_vars /\ Fairness

-----------------------------------------------------------------------------
(* Properties *)

\* The state of a query has its types, and no query makes more requests than
\* its client allows.
QueryTypeOK ==
  /\ pc \in {"returned", "ready", "sent", "pause", "waiting"}
  /\ query \in Queries /\ cancelled \in BOOLEAN
  /\ attempt \in 1 .. (IF Repeats(query) THEN maxAttempts ELSE 1)
  /\ answer.status \in {"none", "ok"} \cup {r.status : r \in Refusals}
  /\ answer.status = "ok" => answer.body \in Body
  /\ WireTypeOK(answer.body.turn)
  /\ result.kind \in Results

AnsweredText ==
  /\ pc = "returned" /\ answer.status = "ok" /\ query.kind # "text"
  /\ answer.body.says = "nothing" /\ answer.body.text = "turn"
  /\ answer.body.calls = <<>> /\ answer.body.blocks = 1

\* The schema a request carries and the parser its answer meets agree: an
\* answer that follows the schema, and that is not blank where it must say
\* something, is accepted as the turn it is, by every client and in every
\* mode.  In tool-call mode the same goes for an answer of usable calls alone.
SchemaAccepted ==
  /\ AnsweredText =>
       LET w == answer.body.turn
       IN  SchemaAllows(AllowedTypes(query), w) /\ Meaningful(w) =>
             result = Accepted(TurnOf(w), 0)
  /\ pc = "returned" /\ answer.status = "ok" /\ query.tools
       /\ answer.body.says = "nothing" /\ answer.body.text = "none"
       /\ answer.body.calls # <<>>
       /\ (\A i \in DOMAIN answer.body.calls : answer.body.calls[i] = "good") =>
         result.kind = "turn" /\ result.paired = Len(answer.body.calls)

\* A turn that was accepted survives the transcript: its canonical form is
\* read back as the same turn, and so is the form a provider is sent later.
CanonicalStable ==
  result.kind = "turn" =>
    LET t == result.turn
        w == NormalizeForProvider(CanonicalTurnJSON(t))
    IN  /\ StrictAccepts(CanonicalTurnJSON(t)) /\ TurnOf(CanonicalTurnJSON(t)) = t
        /\ ProviderAccepts(w) /\ TurnOf(w) = t
        /\ NormalizeForProvider(w) = w

\* No command is taken from an answer that is unusable in any part, and in
\* tool-call mode each command has the call that asked for it, whose result
\* will be paired with it; text alone makes no command run.
NothingHalfAccepted ==
  result.kind = "turn" /\ result.turn.type = "act" =>
    IF query.tools
    THEN /\ Len(result.turn.commands) = Len(answer.body.calls)
         /\ result.paired = Len(answer.body.calls)
         /\ \A i \in DOMAIN answer.body.calls : UsableCall(query, answer.body.calls[i])
    ELSE /\ result.paired = 0 /\ Commanded(answer.body.turn)
         /\ Len(result.turn.commands) = Len(answer.body.turn.commands)

\* The agent rewrites its history when the context is too long.  It is told
\* so only by a server that said so of a request it would refuse again, never
\* for a limit of rate or a server that is down, whatever their text speaks of.
OnlyOverflowCompacts ==
  result.kind = "tooLong" =>
    \/ answer.status = "badRequest" /\ answer.long
    \/ answer.status = "ok" /\ answer.body.says = "overflow" /\ query.provider # "chat"

\* A client that repeats its requests gives up on a server that may come back
\* only after all of them, and waits for nothing once it has made the last.
AttemptsUsed ==
  /\ pc = "returned" /\ ~cancelled /\ Repeats(query)
       /\ answer.status \in {"throttled", "unavailable"} => attempt = maxAttempts
  /\ pc \in {"pause", "waiting"} => attempt < maxAttempts

\* A cancelled query returns, also from a wait of any length.
CancelledQueryEnds == cancelled ~> pc = "returned"
=============================================================================
