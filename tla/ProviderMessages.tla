-------------------------- MODULE ProviderMessages --------------------------
(***************************************************************************)
(* The request a provider client makes of the transcript in tool-call mode *)
(* (mapToolCallMessages of anthropic and openairesponses).  What is not a  *)
(* call, or a result whose call is in the same request, goes as text.      *)
(***************************************************************************)
EXTENDS Transcript, SequencesExt

\* The ids of the calls in front of the i-th message.
KnownCalls(messages, i) ==
  UNION {ToSet(messages[j].calls) : j \in {k \in 1 .. (i - 1) : messages[k].kind = "turn"}}

CallsOf(m) == IF m.kind = "turn" THEN m.calls ELSE <<>>

IsKnownResult(messages, i) ==
  messages[i].kind = "result" /\ messages[i].id \in KnownCalls(messages, i)

UseBlocks(calls)  == [role |-> "assistant", uses |-> calls, results |-> <<>>]
ResultBlocks(ids) == [role |-> "user", uses |-> <<>>, results |-> ids]
TextMessage(m)    ==
  [role |-> IF m.kind \in {"turn", "malformed"} THEN "assistant" ELSE "user",
   uses |-> <<>>, results |-> <<>>]

\* The results from the i-th message on that follow each other.
ResultRun(messages, i) ==
  LET last == CHOOSE j \in i .. Len(messages) :
                /\ \A k \in i .. j : IsKnownResult(messages, k)
                /\ j = Len(messages) \/ ~IsKnownResult(messages, j + 1)
  IN  [k \in 1 .. (last - i + 1) |-> messages[i + k - 1].id]

\* Faulty variant: every result is a message of its own.
ResultMessageEach(messages, i) == <<ResultBlocks(<<messages[i].id>>)>>

\* The first of some results that follow each other stands for all of them.
ResultMessage(messages, i) ==
  IF i > 1 /\ IsKnownResult(messages, i - 1) THEN <<>>
  ELSE <<ResultBlocks(ResultRun(messages, i))>>

\* Anthropic wants all the results of a turn in one message.
AnthropicMessages(messages) ==
  LET MapsTo(i) ==
        IF CallsOf(messages[i]) # <<>> THEN <<UseBlocks(messages[i].calls)>>
        ELSE IF ~IsKnownResult(messages, i) THEN <<TextMessage(messages[i])>>
        ELSE ResultMessage(messages, i)
  IN  FlattenSeq([i \in DOMAIN messages |-> MapsTo(i)])

\* The Responses API takes calls and outputs as items of a flat list.
ResponsesItems(messages) ==
  LET MapsTo(i) ==
        IF CallsOf(messages[i]) # <<>>
        THEN [k \in DOMAIN messages[i].calls |-> UseBlocks(<<messages[i].calls[k]>>)]
        ELSE IF IsKnownResult(messages, i) THEN <<ResultBlocks(<<messages[i].id>>)>>
        ELSE <<TextMessage(messages[i])>>
  IN  FlattenSeq([i \in DOMAIN messages |-> MapsTo(i)])
=============================================================================
