--------------------------- MODULE AgentRunProofs ---------------------------
(***************************************************************************)
(* Proofs about AgentRun, for every number of steps, messages, calls and   *)
(* directories.  The first part is about transcripts alone: what appending *)
(* messages and RewriteForCompaction do to the directory a transcript      *)
(* tells and to the calls and results in it.  The second part is the       *)
(* inductive invariant of the agent, on top of the one of its loop.  The   *)
(* third is about requests: what the mappings of the providers make of any *)
(* transcript in order, and that every transcript the model is queried     *)
(* with is one.                                                            *)
(***************************************************************************)
EXTENDS AgentRun, RunPolicyProofs, SequenceTheorems, FiniteSetTheorems

-----------------------------------------------------------------------------
(* Scanning a transcript from its end *)

\* The place of an index among others, counted from the last.
FromEnd(S, i) == Cardinality({j \in S : j >= i})

\* A set of indices is finite, and so is each of its parts.
LEMMA IndicesFinite ==
  ASSUME NEW n \in Nat, NEW S \in SUBSET (1 .. n)
  PROVE  /\ IsFiniteSet(S) /\ Cardinality(S) \in Nat
         /\ \A T \in SUBSET S : IsFiniteSet(T) /\ Cardinality(T) \in Nat
         /\ S # {} => Cardinality(S) >= 1
<1>1. IsFiniteSet(1 .. n) /\ S \subseteq 1 .. n
  BY FS_Interval
<1>2. IsFiniteSet(S)
  BY <1>1, FS_Subset
<1>3. \A T \in SUBSET S : IsFiniteSet(T)
  BY <1>2, FS_Subset
<1> QED BY <1>2, <1>3, FS_CardinalityType, FS_EmptySet

\* Places are in range, and a later index has a smaller one.
LEMMA FromEndIs ==
  ASSUME NEW n \in Nat, NEW S \in SUBSET (1 .. n), NEW i \in S
  PROVE  /\ IsFiniteSet(S) /\ Cardinality(S) \in Nat
         /\ FromEnd(S, i) \in 1 .. Cardinality(S)
         /\ \A k \in S : k > i => FromEnd(S, k) < FromEnd(S, i)
         /\ FromEnd(S, i) = 1 => \A k \in S : k <= i
<1>1. IsFiniteSet(S) /\ \A T \in SUBSET S : IsFiniteSet(T) /\ Cardinality(T) \in Nat
  BY IndicesFinite
<1> DEFINE rest == {j \in S : j >= i}
<1>2. rest \in SUBSET S /\ i \in rest
  OBVIOUS
<1> HIDE DEF rest
<1>3. Cardinality(rest) <= Cardinality(S) /\ Cardinality(rest \ {i}) = Cardinality(rest) - 1
  BY <1>1, <1>2, FS_Subset, FS_RemoveElement
<1>4. Cardinality(rest \ {i}) \in Nat /\ Cardinality(rest) \in Nat /\ Cardinality(S) \in Nat
  BY <1>1, <1>2
<1>5. FromEnd(S, i) = Cardinality(rest)
  BY DEF FromEnd, rest
<1>6. FromEnd(S, i) \in 1 .. Cardinality(S)
  BY <1>3, <1>4, <1>5
<1>7. ASSUME NEW k \in S, k > i
      PROVE  FromEnd(S, k) < FromEnd(S, i) /\ FromEnd(S, i) # 1
  <2> DEFINE later == {j \in S : j >= k}
  <2>1. later \in SUBSET S /\ rest \ {i} \in SUBSET S /\ k \in later
    BY <1>2
  <2>2. later \subseteq rest \ {i}
    <3>1. \A j \in S : j \in Nat
      OBVIOUS
    <3>2. \A j \in S : j >= k => j >= i /\ j # i
      BY <1>7, <3>1
    <3> QED BY <3>2 DEF rest
  <2>3. FromEnd(S, k) = Cardinality(later)
    BY DEF FromEnd
  <2> HIDE DEF later
  <2>4. /\ Cardinality(later) <= Cardinality(rest \ {i})
        /\ Cardinality(later) \in Nat /\ Cardinality(later \ {k}) = Cardinality(later) - 1
        /\ Cardinality(later \ {k}) \in Nat
    BY <1>1, <2>1, <2>2, FS_Subset, FS_RemoveElement
  <2> QED BY <1>3, <1>4, <1>5, <2>3, <2>4
<1>8. FromEnd(S, i) = 1 => \A k \in S : k <= i
  BY <1>7
<1> QED BY <1>1, <1>6, <1>7, <1>8

\* Each place is taken: the scan meets the k-th index from the end.
LEMMA FromEndTaken ==
  ASSUME NEW n \in Nat, NEW S \in SUBSET (1 .. n), NEW k \in 1 .. Cardinality(S)
  PROVE  \E i \in S : FromEnd(S, i) = k
<1> DEFINE place == [i \in S |-> FromEnd(S, i)]
           places == 1 .. Cardinality(S)
<1>1. IsFiniteSet(S) /\ Cardinality(S) \in Nat
  BY IndicesFinite
<1>2. IsFiniteSet(places) /\ Cardinality(places) = Cardinality(S)
  BY <1>1, FS_Interval
<1>3. place \in [S -> places]
  BY FromEndIs
<1>4. ASSUME NEW i \in S, NEW j \in S, place[i] = place[j] PROVE i = j
  <2>1. FromEnd(S, i) \in 1 .. Cardinality(S) /\ FromEnd(S, i) = FromEnd(S, j)
    BY <1>4, FromEndIs
  <2>2. (i > j => FromEnd(S, i) < FromEnd(S, j)) /\ (j > i => FromEnd(S, j) < FromEnd(S, i))
    BY FromEndIs
  <2>3. i \in Nat /\ j \in Nat
    OBVIOUS
  <2> QED BY <1>1, <2>1, <2>2, <2>3
<1>5. place \in Injection(S, places)
  BY <1>3, <1>4 DEF Injection, IsInjective
<1>6. place \in Surjection(S, places)
  <2> HIDE DEF place, places
  <2>1. Cardinality(S) = Cardinality(places)
    BY <1>2
  <2> QED BY <2>1, <1>1, <1>2, <1>5, FS_Injection
<1>7. k \in places
  OBVIOUS
<1> HIDE DEF places
<1>8. \E i \in S : place[i] = k
  BY <1>6, <1>7 DEF Surjection
<1> QED BY <1>8

\* The scan from the end of a transcript finds the last index of a set.
LEMMA LatestIs ==
  ASSUME NEW n \in Nat, NEW S \in SUBSET (1 .. n), S # {}
  PROVE  /\ Latest(S) \in S /\ \A j \in S : j <= Latest(S)
         /\ \A i \in S : (\A j \in S : j <= i) => Latest(S) = i
<1>1. 1 \in 1 .. Cardinality(S)
  <2>1. Cardinality(S) \in Nat /\ Cardinality(S) >= 1
    BY IndicesFinite
  <2> QED BY <2>1
<1>2. PICK i \in S : FromEnd(S, i) = 1
  BY <1>1, FromEndTaken
<1>3. \A j \in S : j <= i
  BY <1>2, FromEndIs
<1>4. Latest(S) \in S /\ \A j \in S : j <= Latest(S)
  BY <1>3 DEF Latest
<1>5. ASSUME NEW k \in S, \A j \in S : j <= k PROVE Latest(S) = k
  <2>1. Latest(S) \in S /\ k <= Latest(S) /\ Latest(S) <= k
    BY <1>4, <1>5
  <2>2. \A j \in S : j \in Nat
    OBVIOUS
  <2>3. Latest(S) \in Nat /\ k \in Nat
    BY <2>1, <2>2
  <2> QED BY <2>1, <2>3
<1> QED BY <1>4, <1>5

-----------------------------------------------------------------------------
(* Compaction keeps a tail as it is *)

\* FindCompactBoundary finds a message the user wrote, with another one in front
\* of it and one less than the asked number behind it.
LEMMA BoundaryIs ==
  ASSUME NEW ms \in Seq(Message), FindCompactBoundary(ms, KeepRecentTurns) # 0
  PROVE  LET b        == FindCompactBoundary(ms, KeepRecentTurns)
             authored == {i \in DOMAIN ms : isUserAuthoredMessage(ms[i])}
         IN  /\ b \in authored /\ b >= 2
             /\ Cardinality({i \in authored : i >= b}) = 2
<1> DEFINE b        == FindCompactBoundary(ms, KeepRecentTurns)
           authored == {i \in DOMAIN ms : isUserAuthoredMessage(ms[i])}
           starts   == {i \in authored : Cardinality({j \in authored : j >= i}) = 2}
<1>1. authored \in SUBSET (1 .. Len(ms)) /\ Len(ms) \in Nat
  OBVIOUS
<1>2. b = CHOOSE i \in starts : TRUE
  BY DEF FindCompactBoundary, Where, KeepRecentTurns
<1>3. ~(Cardinality(authored) <= 2)
  BY DEF FindCompactBoundary, Where, KeepRecentTurns
<1> HIDE DEF authored, b
<1>4. 2 \in 1 .. Cardinality(authored)
  <2>1. Cardinality(authored) \in Nat
    BY <1>1, IndicesFinite
  <2> QED BY <1>3, <2>1
<1>5. PICK i \in authored : FromEnd(authored, i) = 2
  BY <1>1, <1>4, FromEndTaken
<1>6. i \in starts
  BY <1>5 DEF FromEnd
<1>7. b \in starts
  BY <1>2, <1>6
<1>8. b \in authored /\ Cardinality({j \in authored : j >= b}) = 2
  BY <1>7
<1>9. b >= 2
  <2>1. b \in 1 .. Len(ms)
    BY <1>1, <1>8
  <2>2. SUFFICES ASSUME b = 1 PROVE FALSE
    BY <1>1, <2>1
  <2>3. \A j \in authored : j >= b
    BY <1>1, <2>2
  <2>4. {j \in authored : j >= b} = authored
    BY <2>3
  <2>5. Cardinality(authored) = 2
    BY <1>8, <2>4
  <2> QED BY <1>3, <2>5
<1> QED BY <1>8, <1>9 DEF b, authored

\* The loop over a tail without compact blocks copies it.
LEMMA KeptTailIs ==
  ASSUME NEW tail \in Seq(Message), \A i \in 1 .. Len(tail) : ~IsCompactMessage(tail[i])
  PROVE  keptTail(tail) = tail
<1> DEFINE prefixes == [i \in 0 .. Len(tail) |-> SubSeq(tail, 1, i)]
           Loop(f)  == f = [i \in 0 .. Len(tail) |->
                         IF i = 0 THEN <<>>
                         ELSE IF IsCompactMessage(tail[i]) THEN f[i - 1]
                         ELSE Append(f[i - 1], tail[i])]
           kept     == CHOOSE f : Loop(f)
<1>1. Loop(prefixes)
  <2>1. \A i \in 0 .. Len(tail) :
          prefixes[i] = IF i = 0 THEN <<>>
                        ELSE IF IsCompactMessage(tail[i]) THEN prefixes[i - 1]
                        ELSE Append(prefixes[i - 1], tail[i])
    <3> SUFFICES ASSUME NEW i \in 1 .. Len(tail)
                 PROVE  SubSeq(tail, 1, i) = Append(SubSeq(tail, 1, i - 1), tail[i])
      OBVIOUS
    <3> QED OBVIOUS
  <2> QED BY <2>1
<1>2. Loop(kept)
  BY <1>1
<1>3. keptTail(tail) = kept[Len(tail)]
  BY DEF keptTail
<1> HIDE DEF kept
<1> DEFINE Right == {n \in 1 .. Len(tail) + 1 : \A i \in 0 .. n - 1 : kept[i] = SubSeq(tail, 1, i)}
           last  == Latest(Right)
<1>4. Right \in SUBSET (1 .. Len(tail) + 1) /\ Len(tail) + 1 \in Nat
  OBVIOUS
<1>5. 1 \in Right
  BY <1>2
<1> HIDE DEF Right
<1>6. last \in Right /\ \A j \in Right : j <= last
  BY <1>4, <1>5, LatestIs
<1> HIDE DEF last
<1>7. last = Len(tail) + 1
  <2>1. SUFFICES ASSUME last \in 1 .. Len(tail) PROVE FALSE
    BY <1>4, <1>6
  <2>2. \A i \in 0 .. last - 1 : kept[i] = SubSeq(tail, 1, i)
    BY <1>6 DEF Right
  <2>3. kept[last] = Append(kept[last - 1], tail[last])
    <3>1. \A i \in 0 .. Len(tail) : kept[i] =
            IF i = 0 THEN <<>>
            ELSE IF IsCompactMessage(tail[i]) THEN kept[i - 1]
            ELSE Append(kept[i - 1], tail[i])
      <4> HIDE DEF IsCompactMessage
      <4> QED BY <1>2, Zenon
    <3>2. last \in 0 .. Len(tail) /\ last # 0 /\ ~IsCompactMessage(tail[last])
      BY <2>1
    <3> QED BY <3>1, <3>2, Zenon
  <2>4. kept[last] = SubSeq(tail, 1, last)
    BY <2>1, <2>2, <2>3
  <2>5. \A i \in 0 .. (last + 1) - 1 : i \in 0 .. last - 1 \/ i = last
    BY <2>1
  <2>6. last + 1 \in Right
    BY <2>1, <2>2, <2>4, <2>5 DEF Right
  <2> QED BY <1>6, <2>1, <2>6
<1>8. kept[Len(tail)] = SubSeq(tail, 1, Len(tail))
  BY <1>6, <1>7 DEF Right
<1> QED BY <1>3, <1>8, SubSeqFull

-----------------------------------------------------------------------------
(* Longer transcripts *)

\* The messages of old, then others.
Extends(new, old) ==
  Len(new) >= Len(old) /\ \A i \in 1 .. Len(old) : new[i] = old[i]

Added(new, old) == Len(old) + 1 .. Len(new)

\* The compact block, if there is one, comes first.
CompactFirst(ms) == \A i \in DOMAIN ms : ms[i].kind = "compact" => i = 1

\* A turn the providers accept, with outcomes in order, or one abandoned.
Settled(ms, i) ==
  TurnAbandoned(ms, i) \/ (TurnAnswered(ms, i) /\ InOrder(OutcomesOf(ms, i)))

\* Every turn with calls is settled, but the one at t.
SettledBut(ms, t) ==
  \A i \in DOMAIN ms : i # t /\ IsTurnWithCalls(ms, i) => Settled(ms, i)

AllOwned(ms) ==
  \A j \in DOMAIN ms : ms[j].kind = "result" /\ ms[j].id # 0 => ResultOwned(ms, j)

\* A turn with calls carries a sequence of them.
LEMMA CallsType ==
  ASSUME NEW ms \in Seq(Message), NEW i \in 1 .. Len(ms), ms[i].kind = "turn"
  PROVE  ms[i].calls \in Seq(Nat)
<1>1. ms[i] \in Message
  OBVIOUS
<1> QED BY <1>1 DEF Message, HumanKinds, HostKinds

\* Appending once more.
LEMMA ExtendsTwice ==
  ASSUME NEW s \in Seq(Message), NEW t \in Seq(Message), NEW u \in Seq(Message),
         Extends(t, s), Extends(u, t)
  PROVE  Extends(u, s)
BY DEF Extends

\* A turn settled stays settled, and a result owned stays owned, whatever is
\* appended.
LEMMA ExtendsKeeps ==
  ASSUME NEW new \in Seq(Message), NEW old \in Seq(Message), Extends(new, old),
         NEW i \in 1 .. Len(old)
  PROVE  /\ IsTurnWithCalls(new, i) <=> IsTurnWithCalls(old, i)
         /\ IsTurnWithCalls(old, i) /\ Settled(old, i) => Settled(new, i)
         /\ ResultOwned(old, i) => ResultOwned(new, i)
<1> USE DEF Extends
<1>1. \A j \in 1 .. Len(old) : IsTurnWithCalls(new, j) <=> IsTurnWithCalls(old, j)
  BY DEF IsTurnWithCalls
<1>2. \A j \in 1 .. Len(old), k \in Nat : CallAnswered(old, j, k) => CallAnswered(new, j, k)
  BY DEF CallAnswered
<1>3. ASSUME IsTurnWithCalls(old, i), Settled(old, i) PROVE Settled(new, i)
  <2>1. CASE TurnAbandoned(old, i)
    BY <2>1 DEF TurnAbandoned, Settled
  <2>2. CASE TurnAnswered(old, i) /\ InOrder(OutcomesOf(old, i))
    <3> DEFINE n == Len(old[i].calls)
    <3>1. n \in Nat /\ new[i] = old[i]
      BY <1>3, CallsType DEF IsTurnWithCalls
    <3>2. \A k \in 1 .. n : i + k \in 1 .. Len(old) /\ new[i + k] = old[i + k]
      BY <2>2, <3>1 DEF TurnAnswered, CallAnswered
    <3>3. TurnAnswered(new, i)
      BY <1>2, <2>2, <3>1 DEF TurnAnswered
    <3>4. OutcomesOf(new, i) = OutcomesOf(old, i)
      BY <3>1, <3>2 DEF OutcomesOf
    <3> QED BY <2>2, <3>3, <3>4 DEF Settled
  <2> QED BY <1>3, <2>1, <2>2 DEF Settled
<1>4. ASSUME ResultOwned(old, i) PROVE ResultOwned(new, i)
  <2>1. PICK t \in 1 .. (i - 1) :
          /\ IsTurnWithCalls(old, t) /\ i - t <= Len(old[t].calls)
          /\ \A k \in 1 .. (i - t) : CallAnswered(old, t, k)
    BY <1>4 DEF ResultOwned
  <2>2. t \in 1 .. Len(old) /\ new[t] = old[t]
    OBVIOUS
  <2>3. \A k \in 1 .. (i - t) : CallAnswered(new, t, k)
    BY <1>2, <2>1, <2>2
  <2> QED BY <1>1, <2>1, <2>2, <2>3 DEF ResultOwned
<1> QED BY <1>1, <1>3, <1>4

\* Nothing appended is a turn with calls, a result or a compact block.
Quiet(new, old) ==
  /\ Extends(new, old)
  /\ \A i \in Added(new, old) :
       new[i].kind \notin {"compact", "result"} /\ ~IsTurnWithCalls(new, i)

\* So a whole transcript stays in order.
LEMMA QuietKeeps ==
  ASSUME NEW new \in Seq(Message), NEW old \in Seq(Message), Quiet(new, old)
  PROVE  /\ CompactFirst(old) => CompactFirst(new)
         /\ AllOwned(old) => AllOwned(new)
         /\ \A t \in Nat : SettledBut(old, t) => SettledBut(new, t)
<1>1. /\ Extends(new, old) /\ Len(new) \in Nat /\ Len(old) \in Nat
      /\ DOMAIN new = 1 .. Len(new) /\ DOMAIN old = 1 .. Len(old)
  BY DEF Quiet
<1>2. \A i \in 1 .. Len(new) : i \in 1 .. Len(old) \/ i \in Added(new, old)
  BY <1>1 DEF Added
<1>3. \A i \in 1 .. Len(old) : i \in 1 .. Len(new) /\ new[i] = old[i]
  BY <1>1 DEF Extends
<1>4. CompactFirst(old) => CompactFirst(new)
  BY <1>1, <1>2, <1>3 DEF CompactFirst, Quiet
<1>5. AllOwned(old) => AllOwned(new)
  <2> SUFFICES ASSUME AllOwned(old), NEW j \in 1 .. Len(new),
                      new[j].kind = "result", new[j].id # 0
               PROVE  ResultOwned(new, j)
    BY <1>1 DEF AllOwned
  <2>1. j \in 1 .. Len(old) /\ new[j] = old[j]
    BY <1>2, <1>3 DEF Quiet
  <2> QED BY <1>1, <2>1, ExtendsKeeps DEF AllOwned
<1>6. ASSUME NEW t \in Nat, SettledBut(old, t) PROVE SettledBut(new, t)
  <2> SUFFICES ASSUME NEW i \in 1 .. Len(new), i # t, IsTurnWithCalls(new, i)
               PROVE  Settled(new, i)
    BY <1>1 DEF SettledBut
  <2>1. i \in 1 .. Len(old)
    BY <1>2 DEF Quiet
  <2> QED BY <1>1, <1>6, <2>1, ExtendsKeeps DEF SettledBut
<1> QED BY <1>4, <1>5, <1>6

-----------------------------------------------------------------------------
(* The directory a transcript tells *)

\* ExtractLatestCwd returns the directory of the last state, if there is one.
LEMMA CwdIs ==
  ASSUME NEW ms \in Seq(Message)
  PROVE  /\ (\A i \in 1 .. Len(ms) : ~isState(ms[i])) => ExtractLatestCwd(ms) = NoCwd
         /\ \A i \in 1 .. Len(ms) :
              isState(ms[i]) /\ (\A j \in i + 1 .. Len(ms) : ~isState(ms[j]))
                => ExtractLatestCwd(ms) = ms[i].cwd
         /\ (\E i \in 1 .. Len(ms) : isState(ms[i])) =>
              \E i \in 1 .. Len(ms) :
                /\ isState(ms[i]) /\ i = Latest(Where(ms, isState))
                /\ \A j \in i + 1 .. Len(ms) : ~isState(ms[j])
<1> DEFINE states == {i \in 1 .. Len(ms) : isState(ms[i])}
<1>1. Len(ms) \in Nat /\ states \in SUBSET (1 .. Len(ms)) /\ Where(ms, isState) = states
  BY DEF Where
<1>2. ExtractLatestCwd(ms) = IF states = {} THEN NoCwd ELSE ms[Latest(states)].cwd
  BY <1>1 DEF ExtractLatestCwd
<1>3. (\A i \in 1 .. Len(ms) : ~isState(ms[i])) => ExtractLatestCwd(ms) = NoCwd
  BY <1>2
<1>4. ASSUME NEW i \in 1 .. Len(ms), isState(ms[i]),
             \A j \in i + 1 .. Len(ms) : ~isState(ms[j])
      PROVE  ExtractLatestCwd(ms) = ms[i].cwd
  <2>1. i \in states
    BY <1>4
  <2>2. \A j \in states : j <= i
    BY <1>1, <1>4
  <2>3. Latest(states) = i
    <3> HIDE DEF states
    <3> QED BY <1>1, <2>1, <2>2, LatestIs
  <2> QED BY <1>2, <2>1, <2>3
<1>5. ASSUME \E i \in 1 .. Len(ms) : isState(ms[i])
      PROVE  \E i \in 1 .. Len(ms) :
                /\ isState(ms[i]) /\ i = Latest(Where(ms, isState))
                /\ \A j \in i + 1 .. Len(ms) : ~isState(ms[j])
  <2>1. states # {}
    BY <1>5
  <2>2. Latest(states) \in states /\ \A j \in states : j <= Latest(states)
    <3> HIDE DEF states
    <3> QED BY <1>1, <2>1, LatestIs
  <2>3. \A j \in Latest(states) + 1 .. Len(ms) : ~isState(ms[j])
    <3> HIDE DEF isState
    <3> QED BY <1>1, <2>2
  <2> QED BY <1>1, <2>2, <2>3
<1> QED BY <1>3, <1>4, <1>5

\* Only another state changes what the transcript tells.
LEMMA CwdKept ==
  ASSUME NEW new \in Seq(Message), NEW old \in Seq(Message), Extends(new, old),
         \A i \in Added(new, old) : ~isState(new[i])
  PROVE  ExtractLatestCwd(new) = ExtractLatestCwd(old)
<1>1. /\ Len(new) \in Nat /\ Len(old) \in Nat /\ Len(new) >= Len(old)
      /\ \A i \in 1 .. Len(old) : new[i] = old[i] /\ i \in 1 .. Len(new)
      /\ \A i \in 1 .. Len(new) : i \in 1 .. Len(old) \/ ~isState(new[i])
  BY DEF Extends, Added
<1> HIDE DEF isState
<1>2. CASE \A i \in 1 .. Len(old) : ~isState(old[i])
  <2>1. \A i \in 1 .. Len(new) : ~isState(new[i])
    BY <1>1, <1>2
  <2> QED BY <1>2, <2>1, CwdIs
<1>3. CASE \E i \in 1 .. Len(old) : isState(old[i])
  <2>1. PICK i \in 1 .. Len(old) :
          isState(old[i]) /\ \A j \in i + 1 .. Len(old) : ~isState(old[j])
    BY <1>3, CwdIs
  <2>2. ExtractLatestCwd(old) = old[i].cwd
    BY <2>1, CwdIs
  <2>3. i \in 1 .. Len(new) /\ isState(new[i]) /\ new[i] = old[i]
    BY <1>1, <2>1
  <2>4. \A j \in i + 1 .. Len(new) : ~isState(new[j])
    <3>1. \A j \in i + 1 .. Len(new) :
            j \in 1 .. Len(new) /\ (j \in 1 .. Len(old) => j \in i + 1 .. Len(old))
      BY <1>1, <2>1
    <3> QED BY <1>1, <2>1, <3>1
  <2>5. ExtractLatestCwd(new) = new[i].cwd
    BY <2>3, <2>4, CwdIs
  <2> QED BY <2>2, <2>3, <2>5
<1> QED BY <1>2, <1>3

\* appendStateMessageIfNeeded makes the transcript tell the directory.
LEMMA StateAppended ==
  ASSUME NEW ms \in Seq(Message), NEW dir \in Cwds
  PROVE  LET new == appendStateMessageIfNeeded(ms, dir)
         IN  /\ new \in Seq(Message) /\ Extends(new, ms)
             /\ \A i \in Added(new, ms) : new[i] = State(dir)
             /\ ExtractLatestCwd(new) = dir
<1> DEFINE new == Append(ms, State(dir))
<1>1. State(dir) \in Message /\ isState(State(dir)) /\ State(dir).cwd = dir
  BY DEF State, Message, isState, messageKind
<1> HIDE DEF State
<1>2. /\ new \in Seq(Message) /\ Len(new) = Len(ms) + 1 /\ Len(ms) \in Nat
      /\ \A i \in 1 .. Len(ms) : new[i] = ms[i]
      /\ new[Len(ms) + 1] = State(dir)
  BY <1>1, AppendProperties
<1> HIDE DEF new
<1>3. Extends(new, ms)
  BY <1>2 DEF Extends
<1>4. Added(new, ms) = {Len(new)}
  BY <1>2 DEF Added
<1>5. ExtractLatestCwd(new) = dir
  <2>1. Len(new) \in 1 .. Len(new) /\ Len(new) + 1 .. Len(new) = {}
    BY <1>2
  <2>2. new[Len(new)] = State(dir)
    BY <1>2
  <2>3. isState(new[Len(new)]) /\ \A j \in Len(new) + 1 .. Len(new) : ~isState(new[j])
    BY <1>1, <2>1, <2>2
  <2>4. ExtractLatestCwd(new) = new[Len(new)].cwd
    <3> HIDE DEF isState
    <3> QED BY <1>2, <2>1, <2>3, CwdIs
  <2> QED BY <1>1, <2>2, <2>4
<1>6. Extends(ms, ms) /\ Added(ms, ms) = {}
  BY DEF Extends, Added
<1> QED BY <1>2, <1>3, <1>4, <1>5, <1>6 DEF appendStateMessageIfNeeded, new

\* appendResourceStateMessage leaves the directory alone.
LEMMA ResourceAppended ==
  ASSUME NEW ms \in Seq(Message), NEW m \in Message, m.kind = "resource"
  PROVE  LET new == appendResourceStateMessage(ms, m)
         IN  /\ new \in Seq(Message) /\ Extends(new, ms)
             /\ \A i \in Added(new, ms) : new[i] = m
             /\ ExtractLatestCwd(new) = ExtractLatestCwd(ms)
<1> DEFINE new == Append(ms, m)
<1>1. /\ new \in Seq(Message) /\ Len(new) = Len(ms) + 1 /\ Len(ms) \in Nat
      /\ \A i \in 1 .. Len(ms) : new[i] = ms[i]
      /\ new[Len(ms) + 1] = m
  BY AppendProperties
<1> HIDE DEF new
<1>2. Extends(new, ms)
  BY <1>1 DEF Extends
<1>3. Added(new, ms) = {Len(new)}
  BY <1>1 DEF Added
<1>4. ~isState(m)
  BY DEF isState, messageKind
<1>5. ExtractLatestCwd(new) = ExtractLatestCwd(ms)
  BY <1>1, <1>2, <1>3, <1>4, CwdKept
<1>6. Extends(ms, ms) /\ Added(ms, ms) = {}
  BY DEF Extends, Added
<1> QED BY <1>1, <1>2, <1>3, <1>5, <1>6 DEF appendResourceStateMessage, new

-----------------------------------------------------------------------------
(* A transcript and what a compaction leaves of it *)

\* From its n-th message on, new is what old is from its b-th on.
SameTail(new, n, old, b) ==
  /\ b \in 1 .. Len(old) /\ n \in 1 .. Len(new) /\ Len(new) - n = Len(old) - b
  /\ \A i \in n .. Len(new) : new[i] = old[i - n + b]

\* A message keeps its neighbours in the tail, so a turn settled there stays
\* settled, and a result stays owned if the tail does not begin between a turn
\* and its results.
LEMMA SameTailKeeps ==
  ASSUME NEW new \in Seq(Message), NEW old \in Seq(Message), NEW n, NEW b,
         SameTail(new, n, old, b), NEW i \in n .. Len(new)
  PROVE  /\ i - n + b \in b .. Len(old)
         /\ IsTurnWithCalls(new, i) <=> IsTurnWithCalls(old, i - n + b)
         /\ IsTurnWithCalls(new, i) /\ Settled(old, i - n + b) => Settled(new, i)
         /\ ResultOwned(old, i - n + b) /\ old[b].kind \notin {"turn", "result"}
              => ResultOwned(new, i)
<1> DEFINE At(j) == j - n + b
<1>0. /\ n \in Nat /\ b \in Nat /\ i \in Nat /\ n >= 1 /\ b >= 1 /\ i >= n /\ i <= Len(new)
      /\ Len(new) \in Nat /\ Len(old) \in Nat
  BY DEF SameTail
<1>1. \A j \in n .. Len(new) : At(j) \in b .. Len(old) /\ new[j] = old[At(j)]
  BY <1>0 DEF SameTail
<1>2. \A j \in n .. Len(new) : IsTurnWithCalls(new, j) <=> IsTurnWithCalls(old, At(j))
  BY <1>1 DEF IsTurnWithCalls
<1>3. \A j \in n .. Len(new), k \in Nat :
        /\ At(j) + k <= Len(old) <=> j + k <= Len(new)
        /\ j + k <= Len(new) => new[j + k] = old[At(j) + k]
  BY <1>0 DEF SameTail
<1>4. \A j \in n .. Len(new), k \in Nat : CallAnswered(old, At(j), k) => CallAnswered(new, j, k)
  BY <1>1, <1>3 DEF CallAnswered
<1>5. ASSUME IsTurnWithCalls(new, i), Settled(old, At(i)) PROVE Settled(new, i)
  <2>1. CASE TurnAbandoned(old, At(i))
    <3>1. old[At(i) + 1].kind = "task" /\ At(i) + 1 <= Len(old)
      BY <1>0, <2>1 DEF TurnAbandoned
    <3>2. 1 \in Nat /\ i \in n .. Len(new)
      OBVIOUS
    <3>3. new[i + 1].kind = "task" /\ i + 1 <= Len(new)
      <4> HIDE DEF At
      <4> QED BY <1>3, <3>1, <3>2
    <3> QED BY <1>0, <3>3 DEF TurnAbandoned, Settled
  <2>2. CASE TurnAnswered(old, At(i)) /\ InOrder(OutcomesOf(old, At(i)))
    <3> DEFINE m == Len(new[i].calls)
    <3>1. m \in Nat /\ new[i] = old[At(i)]
      BY <1>0, <1>1, <1>5, CallsType DEF IsTurnWithCalls
    <3>2. TurnAnswered(new, i)
      BY <1>4, <2>2, <3>1 DEF TurnAnswered
    <3>3. \A k \in 1 .. m : new[i + k] = old[At(i) + k]
      BY <1>3, <3>1, <3>2 DEF TurnAnswered, CallAnswered
    <3>4. OutcomesOf(new, i) = OutcomesOf(old, At(i))
      BY <3>1, <3>3 DEF OutcomesOf
    <3> QED BY <2>2, <3>2, <3>4 DEF Settled
  <2> QED BY <1>5, <2>1, <2>2 DEF Settled
<1>6. ASSUME ResultOwned(old, At(i)), old[b].kind \notin {"turn", "result"}
      PROVE  ResultOwned(new, i)
  <2>1. PICK t \in 1 .. (At(i) - 1) :
          /\ IsTurnWithCalls(old, t) /\ At(i) - t <= Len(old[t].calls)
          /\ \A k \in 1 .. (At(i) - t) : CallAnswered(old, t, k)
    BY <1>6 DEF ResultOwned
  <2>2. t > b
    <3>1. t # b
      BY <1>6, <2>1 DEF IsTurnWithCalls
    <3>2. ASSUME t < b PROVE FALSE
      <4>1. b - t \in 1 .. (At(i) - t) /\ t + (b - t) = b
        BY <1>0, <3>2
      <4>2. CallAnswered(old, t, b - t)
        BY <2>1, <4>1
      <4> QED BY <1>6, <4>1, <4>2 DEF CallAnswered
    <3> QED BY <1>0, <3>1, <3>2
  <2> DEFINE s == t - b + n
  <2>3. s \in n .. Len(new) /\ s \in 1 .. (i - 1) /\ At(s) = t /\ At(i) - t = i - s
    BY <1>0, <1>1, <2>2
  <2> HIDE DEF s
  <2>4. IsTurnWithCalls(new, s) /\ new[s] = old[t]
    BY <1>1, <1>2, <2>1, <2>3
  <2>5. \A k \in 1 .. (i - s) : CallAnswered(new, s, k)
    <3> SUFFICES ASSUME NEW k \in 1 .. (i - s) PROVE CallAnswered(new, s, k)
      OBVIOUS
    <3>1. CallAnswered(old, At(s), k) /\ k \in Nat
      BY <2>1, <2>3
    <3> QED BY <1>4, <2>3, <3>1
  <2> QED BY <2>1, <2>3, <2>4, <2>5 DEF ResultOwned
<1> QED BY <1>0, <1>1, <1>2, <1>5, <1>6

\* What messageKind recognises is what it is.
LEMMA KindIs ==
  ASSUME NEW m \in Message
  PROVE  /\ isState(m) <=> m.kind = "state"
         /\ IsCompactMessage(m) <=> m.kind = "compact"
         /\ isUserAuthoredMessage(m) =>
              m.kind \notin {"turn", "result", "compact", "state"}
         /\ isState(m) => m.cwd \in Cwds
         /\ m = Plain("compact") <=> m.kind = "compact"
<1>1. /\ isState(m) <=> m.kind = "state"
      /\ IsCompactMessage(m) <=> m.kind = "compact"
      /\ isUserAuthoredMessage(m) => m.kind \notin {"turn", "result", "compact", "state"}
  BY DEF isState, IsCompactMessage, isUserAuthoredMessage, messageKind
<1>2. isState(m) => m.cwd \in Cwds
  BY <1>1 DEF Message, HumanKinds, HostKinds
<1>3. ASSUME m.kind = "compact" PROVE m = Plain("compact")
  BY <1>3 DEF Message, HumanKinds, HostKinds, Plain
<1>4. Plain("compact").kind = "compact"
  BY DEF Plain
<1> QED BY <1>1, <1>2, <1>3, <1>4

\* A list that ends with what stands from b on has the same tail.
LEMMA TailFrom ==
  ASSUME NEW ms \in Seq(Message), NEW new \in Seq(Message), NEW b \in 1 .. Len(ms), b >= 2,
         NEW tail \in Seq(Message), Len(tail) = Len(ms) - b + 1,
         \A i \in 1 .. Len(tail) : tail[i] = ms[b + i - 1],
         NEW n \in {2, 3}, Len(new) = Len(tail) + n - 1,
         \A i \in n .. Len(new) : new[i] = tail[i - (n - 1)]
  PROVE  SameTail(new, n, ms, b)
<1>1. /\ Len(ms) \in Nat /\ Len(new) \in Nat /\ n \in 1 .. Len(new)
      /\ Len(new) - n = Len(ms) - b
      /\ n \in Nat /\ b \in Nat /\ Len(tail) \in Nat
  OBVIOUS
<1>2. ASSUME NEW i \in n .. Len(new) PROVE new[i] = ms[i - n + b]
  <2> DEFINE last  == Len(new)
             count == Len(tail)
  <2> HIDE DEF last, count
  <2>0. i \in n .. last /\ last \in Nat /\ count \in Nat /\ last = count + n - 1
    BY <1>1 DEF last, count
  <2>1. i - (n - 1) \in 1 .. Len(tail) /\ b + (i - (n - 1)) - 1 = i - n + b
    <3>1. i - (n - 1) \in 1 .. count /\ b + (i - (n - 1)) - 1 = i - n + b
      BY <1>1, <2>0
    <3> QED BY <3>1 DEF count
  <2>2. new[i] = tail[i - (n - 1)]
    OBVIOUS
  <2>3. tail[i - (n - 1)] = ms[b + (i - (n - 1)) - 1]
    BY <2>1
  <2> QED BY <2>1, <2>2, <2>3
<1> QED BY <1>1, <1>2 DEF SameTail

\* RewriteForCompaction puts the compact block, and the last state if it is
\* older than the tail, in front of a tail of messages as they were.
LEMMA CompactedIs ==
  ASSUME NEW ms \in Seq(Message), CompactFirst(ms),
         FindCompactBoundary(ms, KeepRecentTurns) # 0
  PROVE  LET new == RewriteForCompaction(ms, KeepRecentTurns)
             b   == FindCompactBoundary(ms, KeepRecentTurns)
             old == Latest(Where(ms, isState))
         IN  /\ new \in Seq(Message) /\ b \in 2 .. Len(ms)
             /\ ms[b].kind \notin {"turn", "result", "compact", "state"}
             /\ new[1] = Plain("compact")
             /\ \/ /\ SameTail(new, 2, ms, b)
                   /\ (\A i \in 1 .. Len(ms) : ~isState(ms[i])) \/ old >= b
                \/ /\ SameTail(new, 3, ms, b)
                   /\ old \in 1 .. (b - 1) /\ isState(ms[old]) /\ new[2] = ms[old]
<1> DEFINE new    == RewriteForCompaction(ms, KeepRecentTurns)
           b      == FindCompactBoundary(ms, KeepRecentTurns)
           states == Where(ms, isState)
           tail   == SubSeq(ms, b, Len(ms))
           kept   == IF states # {} /\ Latest(states) < b THEN <<ms[Latest(states)]>> ELSE <<>>
<1>1. b \in 2 .. Len(ms) /\ isUserAuthoredMessage(ms[b]) /\ Len(ms) \in Nat
  <2> HIDE DEF new, b, states, tail, kept
  <2>1. b \in {i \in DOMAIN ms : isUserAuthoredMessage(ms[i])} /\ b >= 2
    BY BoundaryIs DEF b
  <2>2. b \in 1 .. Len(ms) /\ isUserAuthoredMessage(ms[b])
    <3> HIDE DEF isUserAuthoredMessage
    <3> QED BY <2>1
  <2> QED BY <2>1, <2>2
<1>2. new = <<Plain("compact")>> \o kept \o keptTail(tail)
  BY DEF RewriteForCompaction
<1>3. ms[b].kind \notin {"turn", "result", "compact", "state"}
  BY <1>1, KindIs
<1> HIDE DEF new, b, states
<1>4. /\ tail \in Seq(Message) /\ Len(tail) = Len(ms) - b + 1
      /\ \A i \in 1 .. Len(tail) : tail[i] = ms[b + i - 1]
  <2>1. \A i \in b .. Len(ms) : ms[i] \in Message
    BY <1>1
  <2> QED BY <1>1, <2>1, SubSeqProperties
<1> HIDE DEF tail
<1>5. keptTail(tail) = tail
  <2>1. \A i \in 1 .. Len(tail) : ~IsCompactMessage(tail[i])
    <3> SUFFICES ASSUME NEW i \in 1 .. Len(tail) PROVE ~IsCompactMessage(tail[i])
      OBVIOUS
    <3>1. b + i - 1 \in 1 .. Len(ms) /\ b + i - 1 # 1
      BY <1>1, <1>4
    <3>2. ms[b + i - 1].kind # "compact" /\ ms[b + i - 1] \in Message
      BY <3>1 DEF CompactFirst
    <3> QED BY <1>4, <3>2, KindIs
  <2> QED BY <1>4, <2>1, KeptTailIs
<1>6. Plain("compact") \in Message
  BY DEF Plain, Message, HostKinds
<1>7. states \subseteq 1 .. Len(ms) /\ \A i \in 1 .. Len(ms) : isState(ms[i]) <=> i \in states
  BY DEF states, Where
<1>8. CASE states # {} /\ Latest(states) < b
  <2>1. Latest(states) \in states
    BY <1>1, <1>7, <1>8, LatestIs
  <2>2. Latest(states) \in 1 .. (b - 1) /\ isState(ms[Latest(states)]) /\ ms[Latest(states)] \in Message
    <3> DEFINE last == Latest(states)
    <3> HIDE DEF last, isState
    <3>1. last \in states /\ last < b
      BY <1>8, <2>1 DEF last
    <3>2. last \in 1 .. (b - 1) /\ isState(ms[last]) /\ ms[last] \in Message
      BY <1>1, <1>7, <3>1
    <3> QED BY <3>2 DEF last
  <2>3. new = <<Plain("compact")>> \o <<ms[Latest(states)]>> \o tail
    BY <1>2, <1>5, <1>8
  <2> DEFINE m == ms[Latest(states)]
             c == Plain("compact")
  <2> HIDE DEF m, c
  <2>4. /\ new \in Seq(Message) /\ Len(new) = Len(tail) + 2
        /\ new[1] = c /\ new[2] = m /\ \A i \in 3 .. Len(new) : new[i] = tail[i - 2]
    <3>1. m \in Message /\ c \in Message /\ new = <<c>> \o <<m>> \o tail
      BY <1>6, <2>2, <2>3 DEF m, c
    <3>2. /\ <<c>> \o <<m>> \in Seq(Message) /\ Len(<<c>> \o <<m>>) = 2
          /\ (<<c>> \o <<m>>)[1] = c /\ (<<c>> \o <<m>>)[2] = m
      <4> DEFINE one == <<c>>
                 two == <<m>>
      <4>1. /\ one \in Seq(Message) /\ Len(one) = 1 /\ one[1] = c
            /\ two \in Seq(Message) /\ Len(two) = 1 /\ two[1] = m
        BY <3>1
      <4> HIDE DEF one, two
      <4>2. /\ one \o two \in Seq(Message) /\ Len(one \o two) = 1 + 1
            /\ \A i \in 1 .. 1 + 1 : (one \o two)[i] = IF i <= 1 THEN one[i] ELSE two[i - 1]
        BY <4>1, ConcatProperties
      <4> QED BY <4>1, <4>2 DEF one, two
    <3> DEFINE head == <<c>> \o <<m>>
    <3> HIDE DEF head
    <3>3. /\ head \o tail \in Seq(Message) /\ Len(head \o tail) = 2 + Len(tail)
          /\ \A i \in 1 .. 2 + Len(tail) :
               (head \o tail)[i] = IF i <= 2 THEN head[i] ELSE tail[i - 2]
      BY <1>4, <3>2, ConcatProperties DEF head
    <3> QED BY <1>1, <1>4, <3>1, <3>2, <3>3 DEF head
  <2>5. SameTail(new, 3, ms, b)
    <3>1. Len(new) = Len(tail) + 3 - 1 /\ 3 - 1 = 2 /\ 3 \in {2, 3} /\ b >= 2
      BY <1>1, <1>4, <2>4
    <3>2. \A i \in 3 .. Len(new) : new[i] = tail[i - (3 - 1)]
      BY <2>4, <3>1
    <3>3. b \in 1 .. Len(ms) /\ tail \in Seq(Message) /\ Len(tail) = Len(ms) - b + 1
      BY <1>1, <1>4
    <3>4. new \in Seq(Message) /\ \A i \in 1 .. Len(tail) : tail[i] = ms[b + i - 1]
      BY <1>4, <2>4
    <3> QED BY <3>1, <3>2, <3>3, <3>4, TailFrom, Zenon
  <2> QED BY <1>1, <1>3, <2>2, <2>4, <2>5 DEF new, b, states, m, c
<1>9. CASE ~(states # {} /\ Latest(states) < b)
  <2>1. new = <<Plain("compact")>> \o <<>> \o tail
    BY <1>2, <1>5, <1>9
  <2> DEFINE c == Plain("compact")
  <2> HIDE DEF c
  <2>2. /\ new \in Seq(Message) /\ Len(new) = Len(tail) + 1
        /\ new[1] = c /\ \A i \in 2 .. Len(new) : new[i] = tail[i - 1]
    <3>1. c \in Message /\ new = <<c>> \o <<>> \o tail
      BY <1>6, <2>1 DEF c
    <3>2. <<c>> \in Seq(Message) /\ <<c>> \o <<>> = <<c>> /\ Len(<<c>>) = 1 /\ <<c>>[1] = c
      BY <3>1
    <3> DEFINE head == <<c>>
    <3> HIDE DEF head
    <3>3. /\ head \o tail \in Seq(Message) /\ Len(head \o tail) = 1 + Len(tail)
          /\ \A i \in 1 .. 1 + Len(tail) :
               (head \o tail)[i] = IF i <= 1 THEN head[i] ELSE tail[i - 1]
      BY <1>4, <3>2, ConcatProperties DEF head
    <3> QED BY <1>1, <1>4, <3>1, <3>2, <3>3 DEF head
  <2>3. SameTail(new, 2, ms, b)
    <3>1. Len(new) = Len(tail) + 2 - 1 /\ 2 - 1 = 1 /\ 2 \in {2, 3} /\ b >= 2
      BY <1>1, <1>4, <2>2
    <3>2. \A i \in 2 .. Len(new) : new[i] = tail[i - (2 - 1)]
      BY <2>2, <3>1
    <3>3. b \in 1 .. Len(ms) /\ tail \in Seq(Message) /\ Len(tail) = Len(ms) - b + 1
      BY <1>1, <1>4
    <3>4. new \in Seq(Message) /\ \A i \in 1 .. Len(tail) : tail[i] = ms[b + i - 1]
      BY <1>4, <2>2
    <3> QED BY <3>1, <3>2, <3>3, <3>4, TailFrom, Zenon
  <2>4. (\A i \in 1 .. Len(ms) : ~isState(ms[i])) \/ Latest(states) >= b
    <3>1. CASE states = {}
      BY <1>7, <3>1
    <3>2. CASE states # {}
      <4>1. Latest(states) \in 1 .. Len(ms) /\ ~(Latest(states) < b)
        BY <1>1, <1>7, <1>9, <3>2, LatestIs
      <4> QED BY <1>1, <4>1
    <3> QED BY <3>1, <3>2
  <2> QED BY <1>1, <1>3, <2>2, <2>3, <2>4 DEF new, b, states, c
<1> QED BY <1>8, <1>9

\* What a compaction leaves is as good as the transcript was, and tells the
\* same directory.
LEMMA CompactedKeeps ==
  ASSUME NEW ms \in Seq(Message), CompactFirst(ms), AllOwned(ms),
         FindCompactBoundary(ms, KeepRecentTurns) # 0
  PROVE  LET new == RewriteForCompaction(ms, KeepRecentTurns)
         IN  /\ new \in Seq(Message) /\ CompactFirst(new) /\ AllOwned(new)
             /\ SettledBut(ms, 0) => SettledBut(new, 0)
             /\ SettledBut(ms, Len(ms)) => SettledBut(new, Len(new))
             /\ ExtractLatestCwd(new) = ExtractLatestCwd(ms)
<1> DEFINE new  == RewriteForCompaction(ms, KeepRecentTurns)
           b    == FindCompactBoundary(ms, KeepRecentTurns)
           last == Latest(Where(ms, isState))
<1>1. /\ new \in Seq(Message) /\ b \in 2 .. Len(ms)
      /\ ms[b].kind \notin {"turn", "result", "compact", "state"}
      /\ new[1] = Plain("compact")
      /\ \/ /\ SameTail(new, 2, ms, b)
            /\ (\A i \in 1 .. Len(ms) : ~isState(ms[i])) \/ last >= b
         \/ /\ SameTail(new, 3, ms, b)
            /\ last \in 1 .. (b - 1) /\ isState(ms[last]) /\ new[2] = ms[last]
  BY CompactedIs
<1> HIDE DEF new, b, last
<1>2. PICK n \in {2, 3} :
        /\ SameTail(new, n, ms, b)
        /\ n = 2 => (\A i \in 1 .. Len(ms) : ~isState(ms[i])) \/ last >= b
        /\ n = 3 => last \in 1 .. (b - 1) /\ isState(ms[last]) /\ new[2] = ms[last]
  BY <1>1
<1>3. /\ n \in Nat /\ Len(new) \in Nat /\ Len(ms) \in Nat /\ n >= 2 /\ n <= Len(new)
      /\ Len(new) - n = Len(ms) - b /\ b \in Nat /\ b >= 2
      /\ \A i \in n .. Len(new) : new[i] = ms[i - n + b] /\ i - n + b \in b .. Len(ms)
      /\ DOMAIN new = 1 .. Len(new) /\ DOMAIN ms = 1 .. Len(ms)
  BY <1>1, <1>2 DEF SameTail
<1>4. Plain("compact").kind = "compact" /\ ~isState(Plain("compact"))
  BY DEF Plain, isState, messageKind
<1>5. \A i \in 1 .. Len(new) : i = 1 \/ (i = 2 /\ n = 3) \/ i \in n .. Len(new)
  BY <1>2, <1>3
<1>6. new[1].kind = "compact" /\ (n = 3 => new[2].kind = "state")
  <2>1. n = 3 => new[2] \in Message
    BY <1>1, <1>3
  <2> QED BY <1>1, <1>2, <1>4, <2>1, KindIs
<1>7. CompactFirst(new)
  <2> SUFFICES ASSUME NEW i \in 1 .. Len(new), new[i].kind = "compact" PROVE i = 1
    BY <1>3 DEF CompactFirst
  <2>1. CASE i \in n .. Len(new)
    <3>1. /\ i - n + b \in 1 .. Len(ms) /\ i - n + b # 1
          /\ ms[i - n + b].kind = "compact"
      BY <1>3, <2>1
    <3> QED BY <1>3, <3>1 DEF CompactFirst
  <2> QED BY <1>5, <1>6, <2>1
<1>8. AllOwned(new)
  <2> SUFFICES ASSUME NEW j \in 1 .. Len(new), new[j].kind = "result", new[j].id # 0
               PROVE  ResultOwned(new, j)
    BY <1>3 DEF AllOwned
  <2>1. j \in n .. Len(new)
    BY <1>5, <1>6
  <2>2. /\ j - n + b \in 1 .. Len(ms) /\ ms[j - n + b].kind = "result"
        /\ ms[j - n + b].id # 0
    BY <1>3, <2>1
  <2>3. ResultOwned(ms, j - n + b)
    BY <1>3, <2>2 DEF AllOwned
  <2>4. ms[b].kind \notin {"turn", "result"}
    BY <1>1
  <2> QED BY <1>1, <1>2, <2>1, <2>3, <2>4, SameTailKeeps
<1>9. ASSUME NEW t, NEW u, SettledBut(ms, t),
             \A i \in n .. Len(new) : i # u => i - n + b # t
      PROVE  SettledBut(new, u)
  <2> SUFFICES ASSUME NEW i \in 1 .. Len(new), i # u, IsTurnWithCalls(new, i)
               PROVE  Settled(new, i)
    BY <1>3 DEF SettledBut
  <2>1. i \in n .. Len(new)
    BY <1>5, <1>6 DEF IsTurnWithCalls
  <2>2. IsTurnWithCalls(ms, i - n + b) /\ i - n + b \in b .. Len(ms)
    BY <1>1, <1>2, <2>1, SameTailKeeps
  <2>3. i - n + b \in 1 .. Len(ms) /\ i - n + b # t
    BY <1>3, <1>9, <2>1, <2>2
  <2>4. Settled(ms, i - n + b)
    BY <1>3, <1>9, <2>2, <2>3 DEF SettledBut
  <2> QED BY <1>1, <1>2, <2>1, <2>4, SameTailKeeps
<1>10. \A i \in n .. Len(new) :
         (i # 0 => i - n + b # 0) /\ (i # Len(new) => i - n + b # Len(ms))
  <2> SUFFICES ASSUME NEW i \in n .. Len(new)
               PROVE  i - n + b # 0 /\ (i # Len(new) => i - n + b # Len(ms))
    OBVIOUS
  <2>1. /\ n \in Nat /\ b \in Nat /\ Len(new) \in Nat /\ Len(ms) \in Nat /\ b >= 2
        /\ Len(new) - n = Len(ms) - b
    BY <1>3
  <2>2. i \in Int /\ i >= n
    BY <2>1
  <2> QED BY <2>1, <2>2
<1>11. ExtractLatestCwd(new) = ExtractLatestCwd(ms)
  <2> USE KindIs
  <2> HIDE DEF isState
  <2>1. CASE \A i \in 1 .. Len(ms) : ~isState(ms[i])
    <3>1. n = 2 \/ ~isState(new[2])
      BY <1>2, <1>3, <2>1
    <3>2. \A i \in 1 .. Len(new) : ~isState(new[i])
      <4> SUFFICES ASSUME NEW i \in 1 .. Len(new) PROVE ~isState(new[i])
        OBVIOUS
      <4>1. CASE i \in n .. Len(new)
        <5>1. new[i] = ms[i - n + b] /\ i - n + b \in 1 .. Len(ms)
          BY <1>3, <4>1
        <5> QED BY <2>1, <5>1
      <4> QED BY <1>1, <1>2, <1>4, <1>5, <3>1, <4>1
    <3> QED BY <1>1, <2>1, <3>2, CwdIs
  <2>2. CASE \E i \in 1 .. Len(ms) : isState(ms[i])
    <3>1. /\ last \in 1 .. Len(ms) /\ isState(ms[last])
          /\ \A j \in last + 1 .. Len(ms) : ~isState(ms[j])
      BY <2>2, CwdIs DEF last
    <3>2. ExtractLatestCwd(ms) = ms[last].cwd
      BY <3>1, CwdIs
    <3>3. CASE last >= b
      <4> DEFINE s == last - b + n
      <4>1. /\ s \in 1 .. Len(new) /\ s \in n .. Len(new) /\ s - n + b = last
            /\ \A j \in s + 1 .. Len(new) : j \in n .. Len(new) /\ j - n + b \in last + 1 .. Len(ms)
        BY <1>3, <3>1, <3>3
      <4> HIDE DEF s
      <4>2. new[s] = ms[last] /\ isState(new[s])
        BY <1>3, <3>1, <4>1
      <4>3. \A j \in s + 1 .. Len(new) : ~isState(new[j])
        BY <1>3, <3>1, <4>1
      <4>4. ExtractLatestCwd(new) = new[s].cwd
        BY <1>1, <4>1, <4>2, <4>3, CwdIs
      <4> QED BY <3>2, <4>2, <4>4
    <3>4. CASE ~(last >= b)
      <4>1. /\ SameTail(new, 3, ms, b) /\ new[2] = ms[last]
        BY <1>2, <2>2, <3>1, <3>4
      <4>2. /\ Len(new) - 3 = Len(ms) - b /\ 3 <= Len(new)
            /\ \A i \in 3 .. Len(new) : new[i] = ms[i - 3 + b]
        BY <1>3, <4>1 DEF SameTail
      <4>3. \A j \in 2 + 1 .. Len(new) : j \in 3 .. Len(new) /\ j - 3 + b \in last + 1 .. Len(ms)
        BY <1>3, <3>1, <3>4, <4>2
      <4>4. \A j \in 2 + 1 .. Len(new) : ~isState(new[j])
        BY <3>1, <4>2, <4>3
      <4>5. 2 \in 1 .. Len(new) /\ isState(new[2])
        BY <1>3, <3>1, <4>1, <4>2
      <4>6. ExtractLatestCwd(new) = new[2].cwd
        BY <1>1, <4>4, <4>5, CwdIs
      <4> QED BY <3>2, <4>1, <4>6
    <3> QED BY <3>3, <3>4
  <2> QED BY <2>1, <2>2
<1>12. SettledBut(ms, 0) => SettledBut(new, 0)
  BY <1>9, <1>10
<1>13. SettledBut(ms, Len(ms)) => SettledBut(new, Len(new))
  BY <1>9, <1>10
<1> QED BY <1>1, <1>7, <1>8, <1>11, <1>12, <1>13 DEF new

-----------------------------------------------------------------------------
(* The inductive invariant *)

\* The turn that may be unsettled: the one being handled, or the last message
\* of a run that died waiting for approval; 0 when there is none.
OpenTurn ==
  IF pc = "idle" THEN Len(messages) ELSE IF pc \in Acting THEN LatestTurn ELSE 0

\* How many results follow the turn being handled.  Skips are appended only
\* when there are calls to answer.
Answers ==
  CASE pc = "decide"  -> 0
    [] pc = "execute" -> executed
    [] OTHER          -> IF Calls = <<>> THEN executed ELSE batch

\* The k-th of them: the commands before the last executed one succeeded, and
\* what follows it was skipped because it failed.
AnswerOK(k) ==
  LET m == messages[LatestTurn + k]
  IN  /\ m.kind = "result" /\ m.id = (IF Calls = <<>> THEN 0 ELSE Calls[k])
      /\ k < executed \/ pc = "execute" => m.outcome = "ok"
      /\ k = executed => m.outcome \in {"ok", "failed"}
      /\ k > executed => /\ m.outcome = "skippedFailed"
                         /\ messages[LatestTurn + executed].outcome = "failed"

\* While a turn is being handled, its results so far are all that follows it.
BatchInv ==
  pc \in Acting =>
    /\ LatestTurn \in 1 .. Len(messages) /\ messages[LatestTurn].kind = "turn"
    /\ Calls = <<>> \/ Len(Calls) = batch + skipped
    /\ Len(messages) = LatestTurn + Answers
    /\ pc = "decide" => executed = 0
    /\ \A k \in 1 .. Answers : AnswerOK(k)

\* The directory the model was told last is current but in the middle of a
\* batch; the model has been told one by the time it is queried.
DirectoryInv ==
  /\ pc \notin {"execute", "finish"} => ExtractLatestCwd(messages) \in {NoCwd, cwd}
  /\ pc \in {"query", "compact"} \cup Summing => ExtractLatestCwd(messages) = cwd
  /\ env \in {NoEnv, CutEnv, cwd}

TranscriptInv ==
  CompactFirst(messages) /\ AllOwned(messages) /\ SettledBut(messages, OpenTurn)

AgentInv == IInv /\ AgentTypeOK /\ TranscriptInv /\ BatchInv /\ DirectoryInv

-----------------------------------------------------------------------------
(* Lemmas for the steps *)

USE NoCwdAssumption, StartCwdAssumption, EnvAssumption

\* Every step of the agent is a step of its loop or leaves the loop alone.
LEMMA PolicyStep == TypeOK /\ [AgentNext]_vars => [Next]_policyVars
<1> SUFFICES ASSUME TypeOK, [AgentNext]_vars PROVE [Next]_policyVars
  OBVIOUS
<1>1. CASE UNCHANGED vars
  BY <1>1 DEF vars
<1>2. ASSUME NEW m \in Modes, StartTask(m) PROVE Next
  BY <1>2, Zenon DEF StartTask, Next, HumanStep
<1>3. CASE CompactCommand \/ Resume
  BY <1>3 DEF CompactCommand, Resume
<1>4. CASE AgentAttempt \/ AgentQueryFails \/ AgentBackstopRetries \/ AgentBackstopFails
  BY <1>4, Zenon DEF AgentAttempt, AgentQueryFails, AgentBackstopRetries,
    AgentBackstopFails, Next, HostStep, ModelStep
<1>5. CASE AgentProtocolFailure \/ AgentClarify \/ AgentFinal
  BY <1>5, Zenon DEF AgentProtocolFailure, AgentClarify, AgentFinal, Next,
    HostStep, ModelStep, HumanStep
<1>6. ASSUME NEW d \in DoneTurns, AgentDone(d) PROVE Next
  BY <1>6, Zenon DEF AgentDone, Next, ModelStep
<1>7. ASSUME NEW n \in 1 .. MaxBatch, AgentActTurn(n) PROVE Next
  BY <1>7, Zenon DEF AgentActTurn, Next, ModelStep
<1>8. CASE AgentActRejected \/ AgentFinishAct
  BY <1>8, Zenon DEF AgentActRejected, AgentFinishAct, Next, HostStep, HumanStep
<1>9. CASE AgentWaits
  <2>1. CASE ActApproved
    BY <2>1, Zenon DEF TypeOK, Modes, Next, HostStep, HumanStep
  <2>2. CASE Cancel \/ LoopCancelled \/ PolicyFails
    BY <2>2, Zenon DEF Next, HostStep, HumanStep
  <2> QED BY <1>9, <2>1, <2>2, Zenon DEF AgentWaits
<1>10. ASSUME NEW ok \in BOOLEAN, NEW snapshot \in Snapshots, NEW dir \in Cwds,
              AgentExecute(ok, snapshot, dir)
       PROVE  Next
  BY <1>10, Zenon DEF AgentExecute, Next, HostStep
<1> QED
  BY <1>1, <1>2, <1>3, <1>4, <1>5, <1>6, <1>7, <1>8, <1>9, <1>10, Zenon DEF AgentNext

\* A message that changes no directory, and is no part of a turn with calls.
Harmless(m) ==
  /\ m \in Message /\ m.kind \notin {"compact", "result", "state"}
  /\ ~(m.kind = "turn" /\ m.calls # <<>>)

\* The messages agent.go appends on its own are such messages.
LEMMA HarmlessMessages ==
  /\ \A kind \in {"task", "reply", "guidance", "correction", "stepLimit"} : Harmless(Plain(kind))
  /\ Harmless(Malformed) /\ Harmless(Turn(<<>>))
<1>1. Turn(<<>>) \in Message /\ Turn(<<>>).kind = "turn" /\ Turn(<<>>).calls = <<>>
  BY DEF Turn, Message
<1>2. Harmless(Turn(<<>>))
  BY <1>1 DEF Harmless
<1> QED BY <1>2 DEF Harmless, Plain, Malformed, Message, HumanKinds, HostKinds

\* Appending them keeps a transcript in order and its directory as it was.
LEMMA SayKeeps ==
  ASSUME NEW old \in Seq(Message), NEW ms \in Seq(Message),
         \A i \in 1 .. Len(ms) : Harmless(ms[i])
  PROVE  /\ old \o ms \in Seq(Message) /\ Quiet(old \o ms, old)
         /\ ExtractLatestCwd(old \o ms) = ExtractLatestCwd(old)
<1> DEFINE new == old \o ms
<1>1. /\ new \in Seq(Message) /\ Len(new) = Len(old) + Len(ms)
      /\ Len(old) \in Nat /\ Len(ms) \in Nat
      /\ \A i \in 1 .. Len(old) + Len(ms) :
           new[i] = IF i <= Len(old) THEN old[i] ELSE ms[i - Len(old)]
  BY ConcatProperties
<1> HIDE DEF new
<1>2. Extends(new, old)
  BY <1>1 DEF Extends
<1>3. \A i \in Added(new, old) : Harmless(new[i])
  <2> SUFFICES ASSUME NEW i \in Added(new, old) PROVE Harmless(new[i])
    OBVIOUS
  <2>1. new[i] = ms[i - Len(old)] /\ i - Len(old) \in 1 .. Len(ms)
    BY <1>1 DEF Added
  <2> QED BY <2>1
<1>4. Quiet(new, old)
  BY <1>2, <1>3 DEF Quiet, Harmless, IsTurnWithCalls
<1>5. \A i \in Added(new, old) : ~isState(new[i])
  BY <1>3, KindIs DEF Harmless
<1>6. ExtractLatestCwd(new) = ExtractLatestCwd(old)
  BY <1>1, <1>2, <1>5, CwdKept
<1> QED BY <1>1, <1>4, <1>6 DEF new

\* One such message: a task, a reply, a done or clarify turn, a malformed answer.
LEMMA SayOne ==
  ASSUME NEW old \in Seq(Message), NEW m, Harmless(m)
  PROVE  LET new == old \o <<m>>
         IN  /\ new \in Seq(Message) /\ Quiet(new, old)
             /\ ExtractLatestCwd(new) = ExtractLatestCwd(old)
<1> DEFINE ms == <<m>>
<1>1. ms \in Seq(Message) /\ \A i \in 1 .. Len(ms) : ms[i] = m
  BY DEF Harmless
<1> HIDE DEF ms
<1>2. \A i \in 1 .. Len(ms) : Harmless(ms[i])
  BY <1>1
<1> QED BY <1>1, <1>2, SayKeeps DEF ms

\* Two: a rejected completion with the guidance, a malformed turn with its correction.
LEMMA SayTwo ==
  ASSUME NEW old \in Seq(Message), NEW m, NEW m2, Harmless(m), Harmless(m2)
  PROVE  LET new == old \o <<m, m2>>
         IN  /\ new \in Seq(Message) /\ Quiet(new, old)
             /\ ExtractLatestCwd(new) = ExtractLatestCwd(old)
<1> DEFINE ms == <<m, m2>>
<1>1. ms \in Seq(Message) /\ \A i \in 1 .. Len(ms) : ms[i] \in {m, m2}
  BY DEF Harmless
<1> HIDE DEF ms
<1>2. \A i \in 1 .. Len(ms) : Harmless(ms[i])
  BY <1>1
<1> QED BY <1>1, <1>2, SayKeeps DEF ms

\* A transcript that stays as it is.
LEMMA QuietSame ==
  ASSUME NEW ms \in Seq(Message) PROVE Quiet(ms, ms)
BY DEF Quiet, Extends, Added

\* With no turn open, any one may be exempt.
LEMMA SettledAll ==
  ASSUME NEW ms \in Seq(Message), SettledBut(ms, 0), NEW t PROVE SettledBut(ms, t)
BY DEF SettledBut

\* What there is to show of a step that leaves no turn being handled.
LEMMA OutsideTurn ==
  ASSUME IInv', pc' \notin Acting,
         messages' \in Seq(Message), CompactFirst(messages'), AllOwned(messages'),
         SettledBut(messages', IF pc' = "idle" THEN Len(messages') ELSE 0),
         actProtocol' \in ActProtocols, cwd' \in Cwds, nextCall' \in Nat \ {0},
         env' \in {NoEnv, CutEnv, cwd'},
         ExtractLatestCwd(messages') \in {NoCwd, cwd'},
         pc' \in {"query", "compact"} \cup Summing => ExtractLatestCwd(messages') = cwd'
  PROVE  AgentInv'
<1>1. AgentTypeOK'
  BY DEF AgentTypeOK, IInv
<1>2. TranscriptInv'
  BY DEF TranscriptInv, OpenTurn
<1>3. BatchInv' /\ DirectoryInv'
  BY DEF BatchInv, DirectoryInv
<1> QED BY <1>1, <1>2, <1>3 DEF AgentInv

\* What a step does to the history: it adds to it, or to what a compaction
\* leaves of it.
Recorded ==
  \/ Extends(messages', messages)
  \/ /\ pc \in {"idle", "compact", "finalCompact"} /\ CanCompact
     /\ Extends(messages', Compacted)
     /\ ExtractLatestCwd(messages') = ExtractLatestCwd(messages)

\* The step of a run that handles no turn and only appends harmless messages.
LEMMA QuietStep ==
  ASSUME AgentInv, IInv', pc \notin Acting \cup {"idle"}, pc' \notin Acting,
         messages' \in Seq(Message), Quiet(messages', messages),
         UNCHANGED <<actProtocol, cwd, env, nextCall>>,
         ExtractLatestCwd(messages') \in {ExtractLatestCwd(messages), cwd},
         pc' \in {"query", "compact"} \cup Summing => ExtractLatestCwd(messages') = cwd
  PROVE  AgentInv' /\ Recorded
<1>1. /\ messages \in Seq(Message) /\ CompactFirst(messages) /\ AllOwned(messages)
      /\ SettledBut(messages, 0) /\ ExtractLatestCwd(messages) \in {NoCwd, cwd}
      /\ actProtocol \in ActProtocols /\ cwd \in Cwds /\ nextCall \in Nat \ {0}
      /\ env \in {NoEnv, CutEnv, cwd}
  BY DEF AgentInv, AgentTypeOK, TranscriptInv, OpenTurn, DirectoryInv, Acting
<1>2. CompactFirst(messages') /\ AllOwned(messages') /\ SettledBut(messages', 0)
  BY <1>1, QuietKeeps
<1>3. SettledBut(messages', IF pc' = "idle" THEN Len(messages') ELSE 0)
  BY <1>2, SettledAll
<1> QED BY <1>1, <1>2, <1>3, OutsideTurn DEF Recorded, Quiet

-----------------------------------------------------------------------------
(* The initial states, and one lemma per kind of step *)

\* A new agent with nothing said satisfies the invariant.
LEMMA AgentInitInv == AgentInit => AgentInv
<1> SUFFICES ASSUME AgentInit PROVE AgentInv
  OBVIOUS
<1>1. IInv /\ pc = "idle"
  BY InitEstablishesIInv DEF AgentInit, Init
<1>2. messages \in Seq(Message) /\ Len(messages) = 0 /\ DOMAIN messages = {}
  BY DEF AgentInit
<1>3. AgentTypeOK
  BY <1>1, <1>2 DEF AgentTypeOK, AgentInit, IInv
<1>4. TranscriptInv
  BY <1>2 DEF TranscriptInv, CompactFirst, AllOwned, SettledBut
<1>5. ExtractLatestCwd(messages) = NoCwd
  <2>1. \A i \in 1 .. Len(messages) : ~isState(messages[i])
    BY <1>2
  <2> QED BY <1>2, <2>1, CwdIs
<1>6. DirectoryInv
  BY <1>1, <1>5 DEF DirectoryInv, Summing, AgentInit
<1>7. BatchInv
  BY <1>1 DEF BatchInv, Acting
<1> QED BY <1>1, <1>3, <1>4, <1>6, <1>7 DEF AgentInv

\* The loop between two queries: a message of the model or the user is
\* appended, or none.
LEMMA LoopSteps ==
  ASSUME AgentInv, IInv',
         \/ AgentQueryFails \/ AgentProtocolFailure \/ AgentClarify
         \/ \E d \in DoneTurns : AgentDone(d)
  PROVE  AgentInv' /\ Recorded
<1>1. messages \in Seq(Message)
  BY DEF AgentInv, AgentTypeOK
<1>2. pc = "query" => ExtractLatestCwd(messages) = cwd
  BY DEF AgentInv, DirectoryInv
<1> USE DEF Answered, EndRun, Continue, Say, Silently, agentVars, shellVars, Acting, Summing
<1>3. CASE AgentQueryFails
  <2>1. /\ pc = "query" /\ pc' \in {"idle", "compact"} /\ messages' = messages
        /\ UNCHANGED <<actProtocol, cwd, env, nextCall>>
    BY <1>3 DEF AgentQueryFails, QueryFails, QueryTooLong
  <2> QED BY <1>1, <1>2, <2>1, QuietSame, QuietStep
<1>4. CASE AgentProtocolFailure
  <2>1. /\ pc = "query" /\ pc' \in {"idle", "loop"}
        /\ messages' = messages \o <<Malformed, Plain("correction")>>
        /\ UNCHANGED <<actProtocol, cwd, env, nextCall>>
    BY <1>4 DEF AgentProtocolFailure, HandleProtocolFailure
  <2>2. Harmless(Malformed) /\ Harmless(Plain("correction"))
    BY HarmlessMessages
  <2>3. /\ messages' \in Seq(Message) /\ Quiet(messages', messages)
        /\ ExtractLatestCwd(messages') = ExtractLatestCwd(messages)
    BY <1>1, <2>1, <2>2, SayTwo
  <2> QED BY <2>1, <2>3, QuietStep
<1>5. CASE AgentClarify
  <2>1. /\ pc \in {"query", "clarify"} /\ pc' \in {"idle", "loop", "clarify"}
        /\ \E m \in {Turn(<<>>), Plain("reply")} : messages' = messages \o <<m>>
        /\ UNCHANGED <<actProtocol, cwd, env, nextCall>>
    BY <1>5 DEF AgentClarify, ClarifyTurn, ClarifyAnswered, ValidTurn
  <2>2. Harmless(Turn(<<>>)) /\ Harmless(Plain("reply"))
    BY HarmlessMessages
  <2>3. /\ messages' \in Seq(Message) /\ Quiet(messages', messages)
        /\ ExtractLatestCwd(messages') = ExtractLatestCwd(messages)
    BY <1>1, <2>1, <2>2, SayOne
  <2> QED BY <2>1, <2>3, QuietStep
<1>6. ASSUME NEW d \in DoneTurns, AgentDone(d) PROVE AgentInv' /\ Recorded
  <2>1. /\ pc = "query" /\ pc' \in {"idle", "loop"}
        /\ \/ messages' = messages \o <<Turn(<<>>)>>
           \/ messages' = messages \o <<Turn(<<>>), Plain("guidance")>>
        /\ UNCHANGED <<actProtocol, cwd, env, nextCall>>
    <3>1. CASE DoneAccepted(d)
      BY <1>6, <3>1 DEF AgentDone, DoneAccepted, ValidTurn, DoneRejected, DoneChallenged
    <3>2. CASE DoneRejected(d) \/ DoneChallenged(d)
      BY <1>6, <3>2 DEF AgentDone, DoneAccepted, ValidTurn, DoneRejected, DoneChallenged
    <3> QED BY <1>6, <3>1, <3>2 DEF AgentDone
  <2>2. Harmless(Turn(<<>>)) /\ Harmless(Plain("guidance"))
    BY HarmlessMessages
  <2>3. /\ messages' \in Seq(Message) /\ Quiet(messages', messages)
        /\ ExtractLatestCwd(messages') = ExtractLatestCwd(messages)
    <3>1. CASE messages' = messages \o <<Turn(<<>>)>>
      BY <1>1, <2>2, <3>1, SayOne
    <3>2. CASE messages' = messages \o <<Turn(<<>>), Plain("guidance")>>
      BY <1>1, <2>2, <3>2, SayTwo
    <3> QED BY <2>1, <3>1, <3>2
  <2> QED BY <2>1, <2>3, QuietStep
<1> QED BY <1>3, <1>4, <1>5, <1>6

\* Prepared, from a good transcript: the directory is told, then the resources.
LEMMA PreparedIs ==
  ASSUME NEW ms \in Seq(Message), NEW dir \in Cwds, commandsUsed \in Nat, modelTurns \in Nat
  PROVE  LET new == Prepared(ms, dir)
         IN  /\ new \in Seq(Message) /\ Quiet(new, ms)
             /\ \A i \in Added(new, ms) : new[i].kind \in {"state", "resource"}
             /\ ExtractLatestCwd(new) = dir
<1> DEFINE told == appendStateMessageIfNeeded(ms, dir)
           m    == ResourceNow(commandsUsed, modelTurns)
           new  == appendResourceStateMessage(told, m)
<1>1. m \in Message /\ m.kind = "resource"
  <2>1. commandBudgetPressure(commandsUsed) \in Pressures
    BY PressureType
  <2> QED BY <2>1 DEF ResourceNow, Resource, Message, Pressures
<1>2. /\ told \in Seq(Message) /\ Extends(told, ms)
      /\ \A i \in Added(told, ms) : told[i] = State(dir)
      /\ ExtractLatestCwd(told) = dir
  BY StateAppended
<1> HIDE DEF told, m
<1>3. /\ new \in Seq(Message) /\ Extends(new, told)
      /\ \A i \in Added(new, told) : new[i] = m
      /\ ExtractLatestCwd(new) = dir
  BY <1>1, <1>2, ResourceAppended
<1> HIDE DEF new
<1>4. Len(new) \in Nat /\ Len(told) \in Nat /\ Len(ms) \in Nat
  BY <1>2, <1>3
<1>5. Extends(new, ms)
  BY <1>2, <1>3, <1>4 DEF Extends
<1>6. \A i \in Added(new, ms) : new[i].kind \in {"state", "resource"}
  <2> SUFFICES ASSUME NEW i \in Added(new, ms) PROVE new[i].kind \in {"state", "resource"}
    OBVIOUS
  <2>1. CASE i \in 1 .. Len(told)
    <3>1. new[i] = told[i] /\ i \in Added(told, ms)
      BY <1>3, <1>4, <2>1 DEF Extends, Added
    <3> QED BY <1>2, <3>1 DEF State
  <2>2. CASE i \notin 1 .. Len(told)
    <3>1. i \in Added(new, told)
      BY <1>4, <2>2 DEF Added
    <3> QED BY <1>1, <1>3, <3>1
  <2> QED BY <2>1, <2>2
<1>7. Quiet(new, ms)
  BY <1>5, <1>6 DEF Quiet, IsTurnWithCalls
<1> QED BY <1>3, <1>6, <1>7 DEF Prepared, told, m, new

\* Outside a batch a compaction leaves a transcript in order, and a directory
\* as it was: restoreExecutionStateFromMessages finds the one the agent is in.
LEMMA CompactedInv ==
  ASSUME AgentInv, CanCompact, pc \notin Acting
  PROVE  /\ Compacted \in Seq(Message) /\ CompactFirst(Compacted) /\ AllOwned(Compacted)
         /\ ExtractLatestCwd(Compacted) = ExtractLatestCwd(messages)
         /\ RestoredCwd(Compacted) = cwd
         /\ pc # "idle" => SettledBut(Compacted, 0)
         /\ SettledBut(Compacted, Len(Compacted))
<1>1. /\ messages \in Seq(Message) /\ CompactFirst(messages) /\ AllOwned(messages)
      /\ pc # "idle" => SettledBut(messages, 0)
      /\ pc = "idle" => SettledBut(messages, Len(messages))
      /\ ExtractLatestCwd(messages) \in {NoCwd, cwd}
  BY DEF AgentInv, AgentTypeOK, TranscriptInv, DirectoryInv, OpenTurn, Acting
<1>2. FindCompactBoundary(messages, KeepRecentTurns) # 0
  BY DEF CanCompact
<1>3. /\ Compacted \in Seq(Message) /\ CompactFirst(Compacted) /\ AllOwned(Compacted)
      /\ SettledBut(messages, 0) => SettledBut(Compacted, 0)
      /\ SettledBut(messages, Len(messages)) => SettledBut(Compacted, Len(Compacted))
      /\ ExtractLatestCwd(Compacted) = ExtractLatestCwd(messages)
  BY <1>1, <1>2, CompactedKeeps DEF Compacted
<1>4. RestoredCwd(Compacted) = cwd
  BY <1>1, <1>3 DEF RestoredCwd
<1>5. SettledBut(Compacted, Len(Compacted))
  BY <1>1, <1>3, SettledAll
<1> QED BY <1>1, <1>3, <1>4, <1>5

\* A query, and the one retry of it after a compaction.
LEMMA AttemptSteps ==
  ASSUME AgentInv, IInv', AgentAttempt \/ AgentBackstopRetries
  PROVE  AgentInv' /\ Recorded
<1>1. messages \in Seq(Message) /\ cwd \in Cwds /\ commandsUsed \in Nat /\ modelTurns \in Nat
  BY DEF AgentInv, AgentTypeOK, TypeOK
<1> USE DEF BeginAttempt, Continue, shellVars, Acting, Summing
<1>2. CASE AgentAttempt
  <2>1. /\ pc = "loop" /\ pc' = "query" /\ messages' = Prepared(messages, cwd)
        /\ UNCHANGED <<actProtocol, cwd, env, nextCall>>
    BY <1>2 DEF AgentAttempt, Attempt
  <2>2. /\ messages' \in Seq(Message) /\ Quiet(messages', messages)
        /\ ExtractLatestCwd(messages') = cwd
    BY <1>1, <2>1, PreparedIs
  <2> QED BY <2>1, <2>2, QuietStep
<1>3. CASE AgentBackstopRetries
  <2>1. /\ pc = "compact" /\ pc' = "query" /\ CanCompact
        /\ cwd' = RestoredCwd(Compacted)
        /\ messages' = Prepared(Compacted, RestoredCwd(Compacted))
        /\ UNCHANGED <<actProtocol, env, nextCall>>
    BY <1>3 DEF AgentBackstopRetries, BackstopRetries
  <2>2. /\ Compacted \in Seq(Message) /\ CompactFirst(Compacted) /\ AllOwned(Compacted)
        /\ RestoredCwd(Compacted) = cwd /\ SettledBut(Compacted, 0)
    BY <2>1, CompactedInv
  <2>3. /\ messages' \in Seq(Message) /\ Quiet(messages', Compacted)
        /\ ExtractLatestCwd(messages') = cwd
    BY <1>1, <2>1, <2>2, PreparedIs
  <2>4. CompactFirst(messages') /\ AllOwned(messages') /\ SettledBut(messages', 0)
    BY <2>2, <2>3, QuietKeeps
  <2>5. /\ cwd' = cwd /\ env \in {NoEnv, CutEnv, cwd}
        /\ actProtocol \in ActProtocols /\ nextCall \in Nat \ {0}
        /\ ExtractLatestCwd(messages) = cwd
    BY <2>1, <2>2 DEF AgentInv, AgentTypeOK, DirectoryInv
  <2>6. Recorded
    BY <2>1, <2>3, <2>5 DEF Recorded, Quiet
  <2> QED BY <1>1, <2>1, <2>3, <2>4, <2>5, <2>6, OutsideTurn
<1> QED BY <1>2, <1>3

\* A rewrite on the way to a state that handles no turn.
LEMMA RewriteStep ==
  ASSUME AgentInv, IInv', RewriteMessages, pc \in {"idle", "compact", "finalCompact"},
         pc' = "idle" \/ (pc = "finalCompact" /\ pc' = "final")
  PROVE  AgentInv' /\ Recorded
<1>1. /\ CanCompact /\ messages' = Compacted /\ cwd' = RestoredCwd(Compacted)
      /\ UNCHANGED <<actProtocol, env, nextCall>>
  BY DEF RewriteMessages
<1>2. /\ Compacted \in Seq(Message) /\ CompactFirst(Compacted) /\ AllOwned(Compacted)
      /\ ExtractLatestCwd(Compacted) = ExtractLatestCwd(messages)
      /\ RestoredCwd(Compacted) = cwd
      /\ pc # "idle" => SettledBut(Compacted, 0)
      /\ SettledBut(Compacted, Len(Compacted))
  BY <1>1, CompactedInv DEF Acting
<1>3. /\ ExtractLatestCwd(messages) \in {NoCwd, cwd}
      /\ pc = "finalCompact" => ExtractLatestCwd(messages) = cwd
      /\ env \in {NoEnv, CutEnv, cwd} /\ cwd \in Cwds
      /\ actProtocol \in ActProtocols /\ nextCall \in Nat \ {0}
  BY DEF AgentInv, AgentTypeOK, DirectoryInv, Acting, Summing
<1>4. SettledBut(messages', IF pc' = "idle" THEN Len(messages') ELSE 0)
  BY <1>1, <1>2
<1>5. pc' \notin Acting /\ pc' \notin {"query", "compact"}
  BY DEF Acting
<1>6. ExtractLatestCwd(messages') \in {NoCwd, cwd'}
  BY <1>1, <1>2, <1>3
<1>7. pc' \in Summing => ExtractLatestCwd(messages') = cwd'
  BY <1>1, <1>2, <1>3 DEF Summing
<1>8. Recorded
  <2>1. Extends(messages', Compacted)
    BY <1>1, <1>2 DEF Extends
  <2> QED BY <1>1, <1>2, <2>1 DEF Recorded
<1> QED BY <1>1, <1>2, <1>3, <1>4, <1>5, <1>6, <1>7, <1>8, OutsideTurn

\* The command at the prompt, the backstop that fails after its rewrite, and
\* the final summary with its retry.
LEMMA CompactSteps ==
  ASSUME AgentInv, IInv', CompactCommand \/ AgentBackstopFails \/ AgentFinal
  PROVE  AgentInv' /\ Recorded
<1>1. messages \in Seq(Message) /\ (pc \in Summing => ExtractLatestCwd(messages) = cwd)
  BY DEF AgentInv, AgentTypeOK, DirectoryInv
<1> USE DEF Answered, EndRun, Continue, Say, Silently, agentVars, shellVars
<1>2. CASE CompactCommand
  <2>1. pc = "idle" /\ pc' = "idle" /\ RewriteMessages
    BY <1>2 DEF CompactCommand, policyVars
  <2> QED BY <2>1, RewriteStep DEF Acting
<1>3. CASE AgentBackstopFails
  <2>1. pc \in {"compact", "finalCompact"} /\ pc' = "idle" /\ (Silently \/ RewriteMessages)
    BY <1>3 DEF AgentBackstopFails, BackstopFails, FinalCompactFails
  <2>2. CASE Silently
    BY <1>1, <2>1, <2>2, QuietSame, QuietStep DEF Acting, Summing
  <2>3. CASE RewriteMessages
    BY <2>1, <2>3, RewriteStep DEF Acting
  <2> QED BY <2>1, <2>2, <2>3
<1>4. CASE AgentFinal
  <2>1. CASE FinalRetries /\ RewriteMessages
    BY <2>1, RewriteStep DEF FinalRetries, Acting
  <2>2. CASE ~(FinalRetries /\ RewriteMessages)
    <3>1. /\ pc = "final" /\ pc' \in {"idle", "finalCompact"}
          /\ Silently \/ \E m \in {Turn(<<>>), Malformed} : Say(<<m>>)
      BY <1>4, <2>2 DEF AgentFinal, FinalDone, FinalFails, FinalTooLong
    <3>2. Harmless(Turn(<<>>)) /\ Harmless(Malformed)
      BY HarmlessMessages
    <3>3. /\ messages' \in Seq(Message) /\ Quiet(messages', messages)
          /\ ExtractLatestCwd(messages') = ExtractLatestCwd(messages)
          /\ UNCHANGED <<actProtocol, cwd, env, nextCall>>
      BY <1>1, <3>1, <3>2, SayOne, QuietSame
    <3> QED BY <1>1, <3>1, <3>3, QuietStep DEF Acting, Summing
  <2> QED BY <2>1, <2>2
<1> QED BY <1>2, <1>3, <1>4

\* A new task, or a new process: a run that died waiting for approval left its
\* turn at the end, which the task abandons.
LEMMA IdleSteps ==
  ASSUME AgentInv, IInv', Resume \/ \E m \in Modes : StartTask(m)
  PROVE  AgentInv' /\ Recorded
<1>1. /\ messages \in Seq(Message) /\ actProtocol \in ActProtocols /\ cwd \in Cwds
      /\ nextCall \in Nat \ {0} /\ env \in {NoEnv, CutEnv, cwd}
      /\ CompactFirst(messages) /\ AllOwned(messages)
      /\ pc = "idle" => /\ SettledBut(messages, Len(messages))
                        /\ ExtractLatestCwd(messages) \in {NoCwd, cwd}
  BY DEF AgentInv, AgentTypeOK, TranscriptInv, DirectoryInv, OpenTurn
<1>2. CASE Resume
  <2>1. /\ pc = "idle" /\ pc' = "idle" /\ messages' = messages /\ nextCall' = nextCall
        /\ cwd' = IF ExtractLatestCwd(messages) = NoCwd THEN StartCwd
                   ELSE ExtractLatestCwd(messages)
        /\ env' = NoEnv /\ actProtocol' \in ActProtocols
    BY <1>2 DEF Resume, policyVars
  <2>2. cwd' \in Cwds /\ ExtractLatestCwd(messages') \in {NoCwd, cwd'}
    BY <1>1, <2>1
  <2>3. pc' \notin Acting /\ pc' \notin {"query", "compact"} \cup Summing
    BY <2>1 DEF Acting, Summing
  <2>4. SettledBut(messages', IF pc' = "idle" THEN Len(messages') ELSE 0)
    BY <1>1, <2>1
  <2>5. Recorded
    BY <1>1, <2>1, QuietSame DEF Recorded, Quiet
  <2> QED BY <1>1, <2>1, <2>2, <2>3, <2>4, <2>5, OutsideTurn
<1>3. CASE \E m \in Modes : StartTask(m)
  <2> DEFINE task == Plain("task")
  <2>1. /\ pc = "idle" /\ pc' = "loop" /\ messages' = messages \o <<task>>
        /\ UNCHANGED <<actProtocol, cwd, env, nextCall>>
    BY <1>3 DEF StartTask, StartRun, Say, shellVars
  <2>2. Harmless(task) /\ task.kind = "task"
    BY HarmlessMessages DEF Plain
  <2> HIDE DEF task
  <2>3. /\ messages' \in Seq(Message) /\ Quiet(messages', messages)
        /\ ExtractLatestCwd(messages') = ExtractLatestCwd(messages)
    BY <1>1, <2>1, <2>2, SayOne
  <2>4. /\ CompactFirst(messages') /\ AllOwned(messages')
        /\ SettledBut(messages', Len(messages))
    <3>1. Len(messages) \in Nat
      BY <1>1
    <3> QED BY <1>1, <2>1, <2>3, <3>1, QuietKeeps
  <2>5. Len(messages) < Len(messages') /\ messages'[Len(messages) + 1].kind = "task"
    <3>1. task \in Message
      BY <2>2 DEF Harmless
    <3>2. messages' = Append(messages, task)
      BY <1>1, <2>1, <3>1, AppendIsConcat
    <3> QED BY <1>1, <2>2, <3>1, <3>2, AppendProperties
  <2>6. SettledBut(messages', 0)
    BY <2>4, <2>5 DEF SettledBut, Settled, TurnAbandoned
  <2>7. pc' \notin Acting /\ pc' \notin {"query", "compact"} \cup Summing /\ pc' # "idle"
    BY <2>1 DEF Acting, Summing
  <2>8. Recorded
    BY <2>3 DEF Recorded, Quiet
  <2> QED BY <1>1, <2>1, <2>3, <2>4, <2>6, <2>7, <2>8, OutsideTurn
<1> QED BY <1>2, <1>3

-----------------------------------------------------------------------------
(* The act turn *)

\* The turn being handled is the last one.
LEMMA LatestTurnIs ==
  ASSUME NEW ms \in Seq(Message), NEW t \in 1 .. Len(ms), ms[t].kind = "turn",
         \A j \in t + 1 .. Len(ms) : ms[j].kind # "turn"
  PROVE  Latest({i \in DOMAIN ms : ms[i].kind = "turn"}) = t
<1> DEFINE turns == {i \in DOMAIN ms : ms[i].kind = "turn"}
<1>1. DOMAIN ms = 1 .. Len(ms)
  OBVIOUS
<1>2. t \in turns /\ turns \in SUBSET (1 .. Len(ms)) /\ Len(ms) \in Nat
  OBVIOUS
<1>3. \A j \in turns : j <= t
  BY <1>2
<1> HIDE DEF turns
<1> QED BY <1>2, <1>3, LatestIs DEF turns

\* ActTurn: the last message is the turn to handle, nothing of it is answered.
LEMMA ActTurnStep ==
  ASSUME AgentInv, IInv', NEW n \in 1 .. MaxBatch, AgentActTurn(n)
  PROVE  AgentInv' /\ Recorded
<1> DEFINE ids == IF actProtocol = "tool-calls"
                  THEN [k \in 1 .. n |-> nextCall + k - 1] ELSE <<>>
           turn == Turn(ids)
<1>1. /\ messages \in Seq(Message) /\ actProtocol \in ActProtocols /\ cwd \in Cwds
      /\ nextCall \in Nat \ {0} /\ env \in {NoEnv, CutEnv, cwd} /\ commandsUsed \in Nat
      /\ CompactFirst(messages) /\ AllOwned(messages)
  BY DEF AgentInv, AgentTypeOK, TypeOK, TranscriptInv, DirectoryInv
<1>2. /\ pc = "query" /\ pc' = "decide" /\ batch' = limitActTurn(n)
      /\ skipped' = n - limitActTurn(n) /\ executed' = 0
      /\ messages' = Append(messages, turn) /\ nextCall' = nextCall + Len(ids)
      /\ UNCHANGED <<actProtocol, cwd, env>>
  BY DEF AgentActTurn, ActTurn, ValidTurn, Answered, Continue, shellVars
<1>3. SettledBut(messages, 0) /\ ExtractLatestCwd(messages) = cwd
  BY <1>2 DEF AgentInv, TranscriptInv, OpenTurn, DirectoryInv, Acting
<1>4. n \in Nat /\ ids \in Seq(Nat) /\ (ids = <<>> \/ Len(ids) = n) /\ Len(ids) \in Nat
  <2>1. n \in Nat
    OBVIOUS
  <2>2. CASE actProtocol = "tool-calls"
    <3>1. [k \in 1 .. n |-> nextCall + k - 1] \in [1 .. n -> Nat]
      BY <1>1, <2>1
    <3> DEFINE s == [k \in 1 .. n |-> nextCall + k - 1]
    <3>2. s \in Seq(Nat) /\ DOMAIN s = 1 .. n
      BY <2>1, <3>1, SeqDef
    <3> HIDE DEF s
    <3>3. Len(s) = n
      BY <2>1, <3>2, LenProperties
    <3> QED BY <2>1, <2>2, <3>2, <3>3 DEF s
  <2>3. CASE actProtocol # "tool-calls"
    BY <2>1, <2>3
  <2> QED BY <2>2, <2>3
<1> HIDE DEF ids
<1>5. turn \in Message /\ turn.kind = "turn" /\ turn.calls = ids
  BY <1>4 DEF Turn, Message
<1> HIDE DEF turn
<1>6. /\ messages' \in Seq(Message) /\ Len(messages') = Len(messages) + 1
      /\ \A i \in 1 .. Len(messages) : messages'[i] = messages[i]
      /\ messages'[Len(messages')] = turn /\ Len(messages) \in Nat
  BY <1>1, <1>2, <1>5, AppendProperties
<1>7. Extends(messages', messages) /\ Added(messages', messages) = {Len(messages')}
  BY <1>6 DEF Extends, Added
<1>8. /\ \A i \in 1 .. Len(messages') : i \in 1 .. Len(messages) \/ i = Len(messages')
      /\ DOMAIN messages' = 1 .. Len(messages') /\ DOMAIN messages = 1 .. Len(messages)
  BY <1>6
<1>9. LatestTurn' = Len(messages') /\ Calls' = ids
  <2>1. Len(messages') \in 1 .. Len(messages') /\ Len(messages') + 1 .. Len(messages') = {}
    BY <1>6
  <2>2. LatestTurn' = Len(messages')
    BY <1>5, <1>6, <2>1, LatestTurnIs DEF LatestTurn, Where
  <2> QED BY <1>5, <1>6, <2>2 DEF Calls
<1>10. CompactFirst(messages')
  BY <1>1, <1>5, <1>6, <1>8 DEF CompactFirst
<1>11. AllOwned(messages')
  <2> SUFFICES ASSUME NEW j \in 1 .. Len(messages'), messages'[j].kind = "result",
                      messages'[j].id # 0
               PROVE  ResultOwned(messages', j)
    BY <1>8 DEF AllOwned
  <2>1. j \in 1 .. Len(messages) /\ messages'[j] = messages[j]
    BY <1>5, <1>6, <1>8
  <2> QED BY <1>1, <1>6, <1>7, <1>8, <2>1, ExtendsKeeps DEF AllOwned
<1>12. SettledBut(messages', Len(messages'))
  <2> SUFFICES ASSUME NEW i \in 1 .. Len(messages'), i # Len(messages'),
                      IsTurnWithCalls(messages', i)
               PROVE  Settled(messages', i)
    BY <1>8 DEF SettledBut
  <2>1. i \in 1 .. Len(messages) /\ i # 0
    BY <1>6, <1>8
  <2> QED BY <1>1, <1>3, <1>6, <1>7, <1>8, <2>1, ExtendsKeeps DEF SettledBut
<1>13. TranscriptInv'
  BY <1>2, <1>9, <1>10, <1>11, <1>12 DEF TranscriptInv, OpenTurn, Acting
<1>14. BatchInv'
  <2>1. Answers' = 0
    BY <1>2 DEF Answers
  <2>2. limitActTurn(n) \in Int
    BY <1>1, <1>4, MaxStepsAssumption DEF limitActTurn
  <2>3. Calls' = <<>> \/ Len(Calls') = batch' + skipped'
    BY <1>2, <1>4, <1>9, <2>2
  <2>4. LatestTurn' \in 1 .. Len(messages') /\ messages'[LatestTurn'].kind = "turn"
    BY <1>5, <1>6, <1>9
  <2>5. Len(messages') = LatestTurn' + Answers'
    BY <1>6, <1>9, <2>1
  <2>6. \A k \in 1 .. Answers' : AnswerOK(k)'
    BY <2>1
  <2> QED BY <1>2, <2>3, <2>4, <2>5, <2>6 DEF BatchInv
<1>15. DirectoryInv'
  <2>1. ~isState(turn)
    BY <1>5, KindIs
  <2>2. ExtractLatestCwd(messages') = ExtractLatestCwd(messages)
    BY <1>1, <1>6, <1>7, <2>1, CwdKept
  <2> QED BY <1>1, <1>2, <1>3, <2>2 DEF DirectoryInv, Summing
<1>16. AgentTypeOK'
  BY <1>1, <1>2, <1>4, <1>6 DEF AgentTypeOK, IInv
<1> QED BY <1>7, <1>13, <1>14, <1>15, <1>16 DEF AgentInv, Recorded

\* Nothing but the context changes, or nothing at all.
LEMMA SameStep ==
  ASSUME AgentInv, IInv', UNCHANGED <<pc, batchVars, agentVars>>
  PROVE  AgentInv' /\ Recorded
<1>1. /\ pc' = pc /\ batch' = batch /\ skipped' = skipped /\ executed' = executed
      /\ messages' = messages /\ cwd' = cwd /\ env' = env /\ nextCall' = nextCall
      /\ actProtocol' = actProtocol
  BY DEF batchVars, agentVars
<1>2. LatestTurn' = LatestTurn
  BY <1>1 DEF LatestTurn, Where
<1>3. Calls' = Calls
  BY <1>1, <1>2, Zenon DEF Calls
<1>4. Answers' = Answers
  BY <1>1, <1>3 DEF Answers
<1>5. OpenTurn' = OpenTurn
  BY <1>1, <1>2 DEF OpenTurn
<1>6. TranscriptInv' /\ DirectoryInv'
  BY <1>1, <1>5 DEF AgentInv, TranscriptInv, DirectoryInv
<1>7. \A k : AnswerOK(k)' <=> AnswerOK(k)
  BY <1>1, <1>2, <1>3 DEF AnswerOK
<1>8. BatchInv'
  BY <1>1, <1>2, <1>3, <1>4, <1>7 DEF AgentInv, BatchInv
<1>9. AgentTypeOK'
  BY <1>1 DEF AgentInv, AgentTypeOK, IInv
<1>10. Recorded
  BY <1>1, QuietSame DEF AgentInv, AgentTypeOK, Recorded, Quiet
<1> QED BY <1>6, <1>8, <1>9, <1>10 DEF AgentInv

\* The approval, the human who does not answer, and the context.
LEMMA WaitSteps ==
  ASSUME AgentInv, IInv', AgentWaits
  PROVE  AgentInv' /\ Recorded
<1>1. /\ messages' = messages /\ cwd' = cwd /\ env' = env /\ nextCall' = nextCall
      /\ actProtocol' = actProtocol
  BY DEF AgentWaits, Silently, agentVars
<1>2. messages \in Seq(Message) /\ Recorded
  BY <1>1, QuietSame DEF AgentInv, AgentTypeOK, Recorded, Quiet
<1>3. CASE Cancel
  BY <1>1, <1>3, SameStep DEF Cancel, batchVars, agentVars
<1>4. CASE LoopCancelled \/ (PolicyFails /\ pc = "clarify")
  <2>1. pc \in {"loop", "clarify"} /\ pc' = "idle"
    BY <1>4 DEF LoopCancelled, PolicyFails, EndRun
  <2> QED BY <1>1, <1>2, <2>1, QuietSame, QuietStep DEF Acting, Summing
<1>5. CASE PolicyFails /\ pc = "decide"
  <2>1. pc = "decide" /\ pc' = "idle"
    BY <1>5 DEF PolicyFails, EndRun
  <2>2. /\ CompactFirst(messages) /\ AllOwned(messages) /\ SettledBut(messages, LatestTurn)
        /\ Len(messages) = LatestTurn + Answers /\ LatestTurn \in 1 .. Len(messages)
        /\ Answers = 0
        /\ ExtractLatestCwd(messages) \in {NoCwd, cwd} /\ env \in {NoEnv, CutEnv, cwd}
        /\ cwd \in Cwds /\ nextCall \in Nat \ {0} /\ actProtocol \in ActProtocols
    BY <2>1 DEF AgentInv, AgentTypeOK, TranscriptInv, OpenTurn, BatchInv, DirectoryInv,
                Acting, Answers
  <2>3. Len(messages) = LatestTurn
    BY <2>2
  <2>4. SettledBut(messages', IF pc' = "idle" THEN Len(messages') ELSE 0)
    BY <1>1, <2>1, <2>2, <2>3
  <2>5. pc' \notin Acting /\ pc' \notin {"query", "compact"} \cup Summing
    BY <2>1 DEF Acting, Summing
  <2> QED BY <1>1, <1>2, <2>2, <2>4, <2>5, OutsideTurn
<1>6. CASE ActApproved
  <2>1. /\ pc = "decide" /\ pc' = "execute" /\ batch' = batch /\ skipped' = skipped
        /\ executed' = executed
    BY <1>6 DEF ActApproved, Continue, batchVars
  <2>2. LatestTurn' = LatestTurn /\ Calls' = Calls
    BY <1>1 DEF LatestTurn, Calls, Where
  <2>3. /\ LatestTurn \in 1 .. Len(messages) /\ messages[LatestTurn].kind = "turn"
        /\ Calls = <<>> \/ Len(Calls) = batch + skipped
        /\ Len(messages) = LatestTurn + 0 /\ executed = 0
    BY <2>1 DEF AgentInv, BatchInv, Acting, Answers
  <2>4. Answers' = 0
    BY <2>1, <2>3 DEF Answers
  <2>5. BatchInv'
    <3>1. \A k \in 1 .. Answers' : AnswerOK(k)'
      BY <2>4
    <3> QED BY <1>1, <2>1, <2>2, <2>3, <2>4, <3>1 DEF BatchInv
  <2>6. TranscriptInv'
    BY <1>1, <2>1, <2>2 DEF AgentInv, TranscriptInv, OpenTurn, Acting
  <2>7. DirectoryInv'
    BY <1>1, <2>1 DEF AgentInv, DirectoryInv, Summing
  <2>8. AgentTypeOK'
    BY <1>1 DEF AgentInv, AgentTypeOK, IInv
  <2> QED BY <1>2, <2>5, <2>6, <2>7, <2>8 DEF AgentInv
<1> QED BY <1>3, <1>4, <1>5, <1>6 DEF AgentWaits, PolicyFails

\* The library's theorem for messages, in a form that is easy to instantiate.
LEMMA ConcatMessages ==
  \A s, t \in Seq(Message) :
    /\ s \o t \in Seq(Message) /\ Len(s \o t) = Len(s) + Len(t)
    /\ \A i \in 1 .. Len(s) + Len(t) :
         (s \o t)[i] = IF i <= Len(s) THEN s[i] ELSE t[i - Len(s)]
BY ConcatProperties

\* The calls of the turn being handled, and the batch, in plain numbers.
LEMMA BatchFacts ==
  ASSUME AgentInv, pc \in Acting
  PROVE  /\ messages \in Seq(Message) /\ LatestTurn \in 1 .. Len(messages)
         /\ messages[LatestTurn].kind = "turn"
         /\ Calls \in Seq(Nat) /\ Len(Calls) \in Nat
         /\ Calls # <<>> => Len(Calls) = batch + skipped
         /\ batch \in Nat /\ batch >= 1 /\ skipped \in Nat /\ executed \in Nat
         /\ executed <= batch /\ Answers \in 0 .. batch
         /\ pc \in {"decide", "execute"} => executed < batch
         /\ pc = "finish" => executed >= 1
         /\ Len(messages) = LatestTurn + Answers
<1>1. /\ messages \in Seq(Message) /\ LatestTurn \in 1 .. Len(messages)
      /\ messages[LatestTurn].kind = "turn"
      /\ Calls # <<>> => Len(Calls) = batch + skipped
      /\ Len(messages) = LatestTurn + Answers
  BY DEF AgentInv, AgentTypeOK, BatchInv
<1>2. /\ batch \in Nat /\ batch >= 1 /\ skipped \in Nat /\ executed \in Nat
      /\ executed <= batch
      /\ pc \in {"decide", "execute"} => executed < batch
      /\ pc = "finish" => executed >= 1
  BY DEF AgentInv, IInv, TypeOK, BudgetInv, BudgetRespected
<1>3. Calls \in Seq(Nat)
  BY <1>1, CallsType DEF Calls
<1>4. Len(Calls) \in Nat
  BY <1>3
<1>5. Answers \in 0 .. batch
  BY <1>2 DEF Answers, Acting
<1> QED BY <1>1, <1>2, <1>3, <1>4, <1>5

\* One result with the given reason for each call from the i-th to the j-th.
AreSkips(skips, i, j, why) ==
  /\ skips \in Seq(Message)
  /\ Len(skips) = IF Calls = <<>> THEN 0 ELSE j - i + 1
  /\ \A k \in 1 .. Len(skips) :
       /\ skips[k].kind = "result" /\ skips[k].id = Calls[i + k - 1]
       /\ skips[k].outcome = why

\* appendSkippedToolResult makes them, for a range of the calls of the turn.
LEMMA SkippedIs ==
  ASSUME Calls \in Seq(Nat), NEW i \in Nat \ {0}, NEW j \in Nat, i <= j + 1,
         Calls # <<>> => j <= Len(Calls), NEW why \in Outcomes
  PROVE  AreSkips(SkippedResults(i, j, why), i, j, why)
<1> USE DEF AreSkips
<1>1. CASE Calls = <<>>
  BY <1>1 DEF SkippedResults
<1>2. CASE Calls # <<>>
  <2> DEFINE n     == j - i + 1
             skips == [k \in 1 .. n |-> Result(Calls[i + k - 1], why)]
  <2>1. n \in Nat /\ Len(Calls) \in Nat
    OBVIOUS
  <2>2. \A k \in 1 .. n : i + k - 1 \in 1 .. Len(Calls)
    BY <1>2, <2>1
  <2>3. \A k \in 1 .. n : Calls[i + k - 1] \in Nat
    BY <2>2
  <2>4. \A id \in Nat :
          /\ Result(id, why) \in Message /\ Result(id, why).kind = "result"
          /\ Result(id, why).id = id /\ Result(id, why).outcome = why
    BY DEF Result, Message
  <2>5. skips \in [1 .. n -> Message] /\ DOMAIN skips = 1 .. n
    BY <2>3, <2>4
  <2>6. skips \in Seq(Message)
    <3> HIDE DEF skips, n
    <3> QED BY <2>1, <2>5, SeqDef
  <2>7. \A k \in 1 .. n : skips[k] = Result(Calls[i + k - 1], why)
    OBVIOUS
  <2>8. SkippedResults(i, j, why) = skips
    BY <1>2 DEF SkippedResults
  <2> HIDE DEF skips, n
  <2>9. Len(skips) = n
    BY <2>1, <2>5, <2>6, LenProperties
  <2>10. \A k \in 1 .. Len(skips) :
           /\ skips[k].kind = "result" /\ skips[k].id = Calls[i + k - 1]
           /\ skips[k].outcome = why
    BY <2>3, <2>4, <2>7, <2>9
  <2> QED BY <1>2, <2>6, <2>8, <2>9, <2>10 DEF n
<1> QED BY <1>1, <1>2

\* More answers to the turn being handled: whatever was in order stays so.
LEMMA BatchGrows ==
  ASSUME AgentInv, pc \in Acting, NEW more \in Seq(Message),
         Calls # <<>> => Answers + Len(more) <= Len(Calls),
         \A k \in 1 .. Len(more) :
           /\ more[k].kind = "result"
           /\ more[k].id = IF Calls = <<>> THEN 0 ELSE Calls[Answers + k]
  PROVE  LET new == messages \o more
         IN  /\ new \in Seq(Message) /\ Extends(new, messages)
             /\ Len(new) = LatestTurn + Answers + Len(more)
             /\ \A k \in 1 .. Len(more) : new[LatestTurn + Answers + k] = more[k]
             /\ Latest({i \in DOMAIN new : new[i].kind = "turn"}) = LatestTurn
             /\ CompactFirst(new) /\ AllOwned(new) /\ SettledBut(new, LatestTurn)
             /\ ExtractLatestCwd(new) = ExtractLatestCwd(messages)
             /\ new[LatestTurn] = messages[LatestTurn]
             /\ Calls # <<>> => \A k \in 1 .. Answers + Len(more) : CallAnswered(new, LatestTurn, k)
<1> DEFINE new == messages \o more
           t   == LatestTurn
           a   == Answers
           m   == Len(more)
<1>1. /\ messages \in Seq(Message) /\ t \in 1 .. Len(messages) /\ messages[t].kind = "turn"
      /\ a \in Nat /\ m \in Nat /\ Len(messages) = t + a /\ t \in Nat /\ t >= 1
  BY BatchFacts
<1>2. /\ CompactFirst(messages) /\ AllOwned(messages) /\ SettledBut(messages, t)
      /\ \A k \in 1 .. a : AnswerOK(k)
  BY DEF AgentInv, TranscriptInv, BatchInv, OpenTurn, Acting
<1>3. \A k \in 1 .. a :
        /\ messages[t + k].kind = "result"
        /\ messages[t + k].id = IF Calls = <<>> THEN 0 ELSE Calls[k]
  BY <1>2 DEF AnswerOK
<1>4. /\ new \in Seq(Message) /\ Len(new) = t + a + m
      /\ \A i \in 1 .. t + a + m : new[i] = IF i <= t + a THEN messages[i] ELSE more[i - (t + a)]
  <2>1. /\ new \in Seq(Message) /\ Len(new) = Len(messages) + Len(more)
        /\ \A i \in 1 .. Len(messages) + Len(more) :
             new[i] = IF i <= Len(messages) THEN messages[i] ELSE more[i - Len(messages)]
    <3>1. messages \in Seq(Message)
      BY <1>1
    <3> QED BY <3>1, ConcatMessages, Zenon
  <2>2. Len(messages) = t + a /\ Len(more) = m
    BY <1>1
  <2> HIDE DEF new, t, a, m
  <2> QED BY <2>1, <2>2
<1> HIDE DEF new, t, a, m
<1>5. Extends(new, messages)
  BY <1>1, <1>4 DEF Extends
<1>6. \A k \in 1 .. m : new[t + a + k] = more[k]
  <2> SUFFICES ASSUME NEW k \in 1 .. m PROVE new[t + a + k] = more[k]
    OBVIOUS
  <2>1. t + a + k \in 1 .. t + a + m /\ ~(t + a + k <= t + a) /\ (t + a + k) - (t + a) = k
    BY <1>1
  <2> QED BY <1>4, <2>1
<1>7. \A k \in 1 .. a : new[t + k] = messages[t + k]
  <2> SUFFICES ASSUME NEW k \in 1 .. a PROVE new[t + k] = messages[t + k]
    OBVIOUS
  <2>1. t + k \in 1 .. t + a + m /\ t + k <= t + a
    BY <1>1
  <2> QED BY <1>4, <2>1
<1>8. \A k \in 1 .. a + m :
        /\ new[t + k].kind = "result"
        /\ new[t + k].id = IF Calls = <<>> THEN 0 ELSE Calls[k]
  <2> SUFFICES ASSUME NEW k \in 1 .. a + m
               PROVE  /\ new[t + k].kind = "result"
                      /\ new[t + k].id = IF Calls = <<>> THEN 0 ELSE Calls[k]
    OBVIOUS
  <2>1. CASE k \in 1 .. a
    BY <1>3, <1>7, <2>1
  <2>2. CASE k \notin 1 .. a
    <3>1. k - a \in 1 .. m /\ t + a + (k - a) = t + k /\ a + (k - a) = k
      BY <1>1, <2>2
    <3>2. new[t + k] = more[k - a]
      BY <1>6, <3>1
    <3>3. more[k - a].kind = "result" /\ more[k - a].id = IF Calls = <<>> THEN 0 ELSE Calls[k]
      BY <3>1 DEF a, m
    <3> QED BY <3>2, <3>3
  <2> QED BY <2>1, <2>2
<1>9. new[t] = messages[t] /\ t \in 1 .. Len(new)
  BY <1>1, <1>4
<1>10. \A i \in 1 .. Len(new) : i \in 1 .. Len(messages) \/ i - t \in 1 .. a + m
  BY <1>1, <1>4
<1>11. \A i \in t + 1 .. Len(new) : i - t \in 1 .. a + m /\ t + (i - t) = i
  BY <1>1, <1>4
<1>12. \A i \in 1 .. Len(messages) : new[i] = messages[i] /\ i \in 1 .. Len(new)
  BY <1>1, <1>4
<1>13. \A i \in 1 .. Len(new) : i \in 1 .. Len(messages) \/ new[i].kind = "result"
  <2> SUFFICES ASSUME NEW i \in 1 .. Len(new), i \notin 1 .. Len(messages)
               PROVE  new[i].kind = "result"
    OBVIOUS
  <2>1. i - t \in 1 .. a + m /\ t + (i - t) = i
    BY <1>1, <1>10
  <2> QED BY <1>8, <2>1
<1>14. Latest({i \in DOMAIN new : new[i].kind = "turn"}) = t
  <2>1. \A j \in t + 1 .. Len(new) : new[j].kind # "turn"
    BY <1>8, <1>11
  <2>2. new[t].kind = "turn"
    BY <1>1, <1>9
  <2> QED BY <1>4, <1>9, <2>1, <2>2, LatestTurnIs
<1>15. DOMAIN new = 1 .. Len(new) /\ DOMAIN messages = 1 .. Len(messages)
  BY <1>1, <1>4
<1>16. CompactFirst(new)
  BY <1>2, <1>12, <1>13, <1>15 DEF CompactFirst
<1>17. SettledBut(new, t)
  <2> SUFFICES ASSUME NEW i \in 1 .. Len(new), i # t, IsTurnWithCalls(new, i)
               PROVE  Settled(new, i)
    BY <1>15 DEF SettledBut
  <2>1. i \in 1 .. Len(messages)
    BY <1>13 DEF IsTurnWithCalls
  <2> QED BY <1>1, <1>2, <1>4, <1>5, <1>15, <2>1, ExtendsKeeps DEF SettledBut
<1>18. ASSUME Calls # <<>> PROVE \A k \in 1 .. a + m : CallAnswered(new, t, k)
  <2> SUFFICES ASSUME NEW k \in 1 .. a + m PROVE CallAnswered(new, t, k)
    OBVIOUS
  <2>1. t + k <= Len(new)
    BY <1>1, <1>4
  <2>2. new[t].calls = Calls
    BY <1>9 DEF Calls, t
  <2> QED BY <1>8, <1>18, <2>1, <2>2 DEF CallAnswered
<1>19. AllOwned(new)
  <2> SUFFICES ASSUME NEW j \in 1 .. Len(new), new[j].kind = "result", new[j].id # 0
               PROVE  ResultOwned(new, j)
    BY <1>15 DEF AllOwned
  <2>1. CASE j \in 1 .. Len(messages)
    <3>1. ResultOwned(messages, j)
      BY <1>2, <1>12, <1>15, <2>1 DEF AllOwned
    <3> QED BY <1>1, <1>4, <1>5, <2>1, <3>1, ExtendsKeeps
  <2>2. CASE j \notin 1 .. Len(messages)
    <3>1. j - t \in 1 .. a + m /\ t + (j - t) = j /\ t \in 1 .. (j - 1)
      BY <1>1, <1>10, <2>2
    <3>2. Calls # <<>>
      BY <1>8, <3>1
    <3>3. a + m <= Len(Calls)
      BY <3>2 DEF a, m
    <3>4. new[t].kind = "turn" /\ new[t].calls = Calls
      BY <1>1, <1>9 DEF Calls, t
    <3>5. IsTurnWithCalls(new, t)
      BY <3>2, <3>4 DEF IsTurnWithCalls
    <3>6. \A k \in 1 .. (j - t) : CallAnswered(new, t, k)
      <4>1. \A k \in 1 .. (j - t) : k \in 1 .. a + m
        BY <1>1, <3>1
      <4> QED BY <1>18, <3>2, <4>1
    <3>7. j - t <= Len(new[t].calls)
      <4>1. Len(Calls) \in Nat
        BY BatchFacts
      <4> QED BY <1>1, <3>1, <3>3, <3>4, <4>1
    <3> QED BY <3>1, <3>5, <3>6, <3>7 DEF ResultOwned
  <2> QED BY <2>1, <2>2
<1>20. ExtractLatestCwd(new) = ExtractLatestCwd(messages)
  <2>1. \A i \in Added(new, messages) : ~isState(new[i])
    <3> SUFFICES ASSUME NEW i \in Added(new, messages) PROVE ~isState(new[i])
      OBVIOUS
    <3>1. i \in 1 .. Len(new) /\ i \notin 1 .. Len(messages)
      BY <1>1, <1>4 DEF Added
    <3>2. new[i].kind = "result" /\ new[i] \in Message
      BY <1>4, <1>13, <3>1
    <3> QED BY <3>2, KindIs
  <2> QED BY <1>1, <1>4, <1>5, <2>1, CwdKept
<1>21. /\ new \in Seq(Message) /\ Extends(new, messages) /\ Len(new) = t + a + m
       /\ \A k \in 1 .. m : new[t + a + k] = more[k]
       /\ Latest({i \in DOMAIN new : new[i].kind = "turn"}) = t
       /\ CompactFirst(new) /\ AllOwned(new) /\ SettledBut(new, t)
       /\ ExtractLatestCwd(new) = ExtractLatestCwd(messages)
       /\ new[t] = messages[t]
       /\ Calls # <<>> => \A k \in 1 .. a + m : CallAnswered(new, t, k)
  BY <1>4, <1>5, <1>6, <1>9, <1>14, <1>16, <1>17, <1>18, <1>19, <1>20
<1> QED BY <1>21 DEF new, t, a, m

\* A turn that is settled in the end leaves no exception.
LEMMA TurnCloses ==
  ASSUME NEW ms \in Seq(Message), NEW t, SettledBut(ms, t),
         IsTurnWithCalls(ms, t) => Settled(ms, t)
  PROVE  SettledBut(ms, 0)
BY DEF SettledBut

\* RejectTurn: every call of the turn is denied, those cut off included.
LEMMA RejectStep ==
  ASSUME AgentInv, IInv', AgentActRejected
  PROVE  AgentInv' /\ Recorded
<1> DEFINE t     == LatestTurn
           skips == SkippedResults(1, batch + skipped, "denied")
<1>1. /\ pc = "decide" /\ pc' = "loop"
      /\ messages' = messages \o (IF Calls = <<>> THEN <<Plain("reply")>> ELSE skips)
      /\ UNCHANGED <<actProtocol, cwd, env, nextCall>>
  BY DEF AgentActRejected, ActRejected, Continue, Say, shellVars
<1>2. pc \in Acting /\ pc' \notin Acting /\ pc' \notin {"idle", "query", "compact"} \cup Summing
  BY <1>1 DEF Acting, Summing
<1>3. /\ actProtocol \in ActProtocols /\ cwd \in Cwds /\ nextCall \in Nat \ {0}
      /\ env \in {NoEnv, CutEnv, cwd} /\ ExtractLatestCwd(messages) \in {NoCwd, cwd}
      /\ CompactFirst(messages) /\ AllOwned(messages) /\ SettledBut(messages, t)
  BY <1>1, <1>2 DEF AgentInv, AgentTypeOK, DirectoryInv, TranscriptInv, OpenTurn, Acting
<1>4. /\ messages \in Seq(Message) /\ t \in 1 .. Len(messages) /\ t \in Nat
      /\ messages[t].kind = "turn" /\ Calls \in Seq(Nat) /\ Len(Calls) \in Nat
      /\ Calls # <<>> => Len(Calls) = batch + skipped
      /\ batch \in Nat /\ batch >= 1 /\ skipped \in Nat /\ messages[t].calls = Calls
  <2>1. messages[t].calls = Calls
    BY DEF Calls
  <2> QED BY <1>2, <2>1, BatchFacts
<1>5. Answers = 0
  BY <1>1 DEF Answers
<1> HIDE DEF t, skips
<1>6. /\ messages' \in Seq(Message) /\ CompactFirst(messages') /\ AllOwned(messages')
      /\ SettledBut(messages', 0) /\ ExtractLatestCwd(messages') = ExtractLatestCwd(messages)
      /\ Extends(messages', messages)
  <2>1. CASE Calls = <<>>
    <3>1. messages' = messages \o <<Plain("reply")>> /\ Harmless(Plain("reply"))
      BY <1>1, <2>1, HarmlessMessages
    <3>2. /\ messages' \in Seq(Message) /\ Quiet(messages', messages)
          /\ ExtractLatestCwd(messages') = ExtractLatestCwd(messages)
      BY <1>4, <3>1, SayOne
    <3>3. CompactFirst(messages') /\ AllOwned(messages') /\ SettledBut(messages', t)
      BY <1>3, <1>4, <3>2, QuietKeeps
    <3>4. messages'[t] = messages[t]
      BY <1>4, <3>2 DEF Quiet, Extends
    <3>5. ~IsTurnWithCalls(messages', t)
      BY <1>4, <2>1, <3>4 DEF IsTurnWithCalls
    <3> QED BY <3>2, <3>3, <3>5, TurnCloses DEF Quiet
  <2>2. CASE Calls # <<>>
    <3> DEFINE n == batch + skipped
    <3>1. messages' = messages \o skips /\ n \in Nat /\ n = Len(Calls) /\ 1 <= n + 1
      BY <1>1, <1>4, <2>2
    <3>2. /\ skips \in Seq(Message) /\ Len(skips) = n
          /\ \A k \in 1 .. Len(skips) :
               /\ skips[k].kind = "result" /\ skips[k].id = Calls[k]
               /\ skips[k].outcome = "denied"
      <4>1. /\ skips \in Seq(Message) /\ Len(skips) = n - 1 + 1
            /\ \A k \in 1 .. Len(skips) :
                 /\ skips[k].kind = "result" /\ skips[k].id = Calls[1 + k - 1]
                 /\ skips[k].outcome = "denied"
        <5>1. /\ 1 \in Nat \ {0} /\ "denied" \in Outcomes /\ n <= Len(Calls)
              /\ n \in Nat /\ 1 <= n + 1
          BY <1>4, <3>1 DEF Outcomes
        <5> HIDE DEF n
        <5>2. skips = SkippedResults(1, n, "denied")
          BY DEF skips, n
        <5>3. AreSkips(SkippedResults(1, n, "denied"), 1, n, "denied")
          BY <1>4, <5>1, SkippedIs
        <5> QED BY <2>2, <5>2, <5>3 DEF AreSkips
      <4>2. \A k \in 1 .. Len(skips) : 1 + k - 1 = k
        BY <4>1
      <4> QED BY <3>1, <4>1, <4>2
    <3> HIDE DEF n
    <3>3. \A k \in 1 .. Len(skips) :
            /\ skips[k].kind = "result"
            /\ skips[k].id = IF Calls = <<>> THEN 0 ELSE Calls[Answers + k]
      BY <1>5, <2>2, <3>2
    <3>4. Answers + Len(skips) <= Len(Calls)
      BY <1>5, <3>1, <3>2
    <3>5. /\ messages' \in Seq(Message) /\ Extends(messages', messages)
          /\ \A k \in 1 .. Len(skips) : messages'[t + Answers + k] = skips[k]
          /\ CompactFirst(messages') /\ AllOwned(messages') /\ SettledBut(messages', t)
          /\ ExtractLatestCwd(messages') = ExtractLatestCwd(messages)
          /\ messages'[t] = messages[t]
          /\ \A k \in 1 .. Answers + Len(skips) : CallAnswered(messages', t, k)
      BY <1>2, <2>2, <3>1, <3>2, <3>3, <3>4, BatchGrows DEF t
    <3>6. \A k \in 1 .. n : CallAnswered(messages', t, k) /\ messages'[t + k].outcome = "denied"
      <4> SUFFICES ASSUME NEW k \in 1 .. n
                   PROVE  CallAnswered(messages', t, k) /\ messages'[t + k].outcome = "denied"
        OBVIOUS
      <4>1. /\ t + Answers + k = t + k /\ k \in 1 .. Len(skips)
            /\ k \in 1 .. Answers + Len(skips)
        BY <1>4, <1>5, <3>1, <3>2
      <4>2. messages'[t + k] = skips[k] /\ skips[k].outcome = "denied"
        BY <3>2, <3>5, <4>1
      <4> QED BY <3>5, <4>1, <4>2
    <3>7. TurnAnswered(messages', t)
      BY <1>4, <3>1, <3>5, <3>6 DEF TurnAnswered
    <3>8. InOrder(OutcomesOf(messages', t))
      <4>1. OutcomesOf(messages', t) = [k \in 1 .. n |-> messages'[t + k].outcome]
        BY <1>4, <3>1, <3>5 DEF OutcomesOf
      <4>2. \A k \in DOMAIN OutcomesOf(messages', t) : OutcomesOf(messages', t)[k] = "denied"
        BY <3>6, <4>1
      <4> QED BY <4>2 DEF InOrder
    <3> QED BY <3>5, <3>7, <3>8, TurnCloses DEF Settled
  <2> QED BY <2>1, <2>2
<1> QED BY <1>1, <1>2, <1>3, <1>6, OutsideTurn DEF Recorded

\* A finished batch with its skips is in order: successes, then at most one
\* failure, then what was skipped for it, then what was beyond the limit.
LEMMA BatchInOrder ==
  ASSUME NEW o, NEW n \in Nat, NEW b \in Nat, NEW e \in Nat, e >= 1, e <= b,
         DOMAIN o = 1 .. n,
         \A k \in 1 .. n : k <= b =>
           /\ k < e => o[k] = "ok"
           /\ k = e => o[k] \in {"ok", "failed"}
           /\ k > e => o[k] = "skippedFailed" /\ o[e] = "failed",
         \A k \in 1 .. n : k > b => o[k] = "skippedMax"
  PROVE  InOrder(o)
<1>1. \A k \in 1 .. n : o[k] # "denied" /\ (o[k] \in {"ok", "failed"} => k <= e)
  BY SMTT(30)
<1>2. \A k \in 1 .. n : o[k] = "skippedFailed" => k > e /\ o[e] = "failed"
  BY SMTT(30)
<1>3. \A j, k \in 1 .. n : j < k /\ o[k] \in {"ok", "failed"} => o[j] = "ok"
  <2> SUFFICES ASSUME NEW j \in 1 .. n, NEW k \in 1 .. n, j < k, o[k] \in {"ok", "failed"}
               PROVE  o[j] = "ok"
    OBVIOUS
  <2>1. j < e /\ j <= b
    BY <1>1
  <2> QED BY <2>1
<1>4. \A k \in 1 .. n : o[k] = "skippedFailed" => \E j \in 1 .. k : o[j] = "failed"
  <2> SUFFICES ASSUME NEW k \in 1 .. n, o[k] = "skippedFailed"
               PROVE  \E j \in 1 .. k : o[j] = "failed"
    OBVIOUS
  <2>1. e \in 1 .. k /\ o[e] = "failed"
    BY <1>2
  <2> QED BY <2>1
<1> QED BY <1>1, <1>3, <1>4 DEF InOrder

\* ExecuteTurnWithSkipped returns: the commands cut off by the step limit are
\* answered, and the model is told where the batch has left it.
LEMMA FinishStep ==
  ASSUME AgentInv, IInv', AgentFinishAct
  PROVE  AgentInv' /\ Recorded
<1> DEFINE t     == LatestTurn
           n     == batch + skipped
           skips == SkippedResults(batch + 1, n, "skippedMax")
           done  == messages \o skips
<1>1. /\ pc = "finish" /\ pc' \in {"loop", "final"} /\ messages' = AfterBatch("skippedMax")
      /\ UNCHANGED <<actProtocol, cwd, env, nextCall>>
  <2>1. FinishAct /\ messages' = AfterBatch("skippedMax")
        /\ UNCHANGED <<actProtocol, cwd, env, nextCall>>
    BY DEF AgentFinishAct, shellVars
  <2> QED BY <2>1 DEF FinishAct, Continue
<1>2. pc \in Acting /\ pc' \notin Acting /\ pc' # "idle"
  BY <1>1 DEF Acting
<1>3. /\ actProtocol \in ActProtocols /\ cwd \in Cwds /\ nextCall \in Nat \ {0}
      /\ env \in {NoEnv, CutEnv, cwd} /\ commandsUsed \in Nat /\ modelTurns \in Nat
      /\ \A k \in 1 .. Answers : AnswerOK(k)
  BY <1>2 DEF AgentInv, AgentTypeOK, TypeOK, DirectoryInv, BatchInv
<1>4. /\ messages \in Seq(Message) /\ t \in 1 .. Len(messages) /\ t \in Nat
      /\ messages[t].kind = "turn" /\ Calls \in Seq(Nat) /\ Len(Calls) \in Nat
      /\ Calls # <<>> => Len(Calls) = n
      /\ batch \in Nat /\ skipped \in Nat /\ messages[t].calls = Calls
      /\ executed \in Nat /\ executed >= 1 /\ executed <= batch
      /\ Len(messages) = t + Answers
  <2>1. messages[t].calls = Calls
    BY DEF Calls
  <2> QED BY <1>1, <1>2, <2>1, BatchFacts
<1>5. Answers = IF Calls = <<>> THEN executed ELSE batch
  BY <1>1 DEF Answers
<1>6. n \in Nat /\ n = batch + skipped
  BY <1>4
<1> HIDE DEF t, n
<1>7. /\ skips \in Seq(Message)
      /\ Len(skips) = IF Calls = <<>> THEN 0 ELSE n - (batch + 1) + 1
      /\ \A k \in 1 .. Len(skips) :
           /\ skips[k].kind = "result" /\ skips[k].id = Calls[batch + 1 + k - 1]
           /\ skips[k].outcome = "skippedMax"
  <2>1. /\ batch + 1 \in Nat \ {0} /\ "skippedMax" \in Outcomes /\ batch + 1 <= n + 1
        /\ Calls # <<>> => n <= Len(Calls)
    BY <1>4, <1>6 DEF Outcomes
  <2> DEFINE i == batch + 1
  <2>2. /\ Calls \in Seq(Nat) /\ i \in Nat \ {0} /\ n \in Nat /\ i <= n + 1
        /\ Calls # <<>> => n <= Len(Calls)
        /\ "skippedMax" \in Outcomes
    BY <1>4, <1>6, <2>1
  <2> HIDE DEF i
  <2>3. AreSkips(SkippedResults(i, n, "skippedMax"), i, n, "skippedMax")
    BY <2>2, SkippedIs
  <2> QED BY <2>3 DEF i, AreSkips
<1> HIDE DEF skips
<1>8. /\ Len(skips) = IF Calls = <<>> THEN 0 ELSE skipped
      /\ \A k \in 1 .. Len(skips) :
           skips[k].id = IF Calls = <<>> THEN 0 ELSE Calls[Answers + k]
  <2>1. Len(skips) = IF Calls = <<>> THEN 0 ELSE skipped
    BY <1>4, <1>6, <1>7
  <2>2. \A k \in 1 .. Len(skips) : batch + 1 + k - 1 = batch + k
    BY <1>4, <1>7
  <2> QED BY <1>5, <1>7, <2>1, <2>2
<1>9. Calls # <<>> => Answers + Len(skips) <= Len(Calls)
  BY <1>4, <1>5, <1>6, <1>8
<1>10. /\ done \in Seq(Message) /\ CompactFirst(done) /\ AllOwned(done) /\ SettledBut(done, t)
       /\ Extends(done, messages) /\ done[t] = messages[t]
       /\ \A k \in 1 .. Len(skips) : done[t + Answers + k] = skips[k]
       /\ Calls # <<>> => \A k \in 1 .. Answers + Len(skips) : CallAnswered(done, t, k)
  BY <1>2, <1>7, <1>8, <1>9, BatchGrows DEF t
<1> HIDE DEF done
<1>11. ASSUME Calls # <<>> PROVE Settled(done, t)
  <2>1. Answers = batch /\ Len(skips) = skipped /\ Len(Calls) = n /\ done[t].calls = Calls
    BY <1>4, <1>5, <1>8, <1>10, <1>11
  <2>2. TurnAnswered(done, t)
    BY <1>6, <1>10, <1>11, <2>1 DEF TurnAnswered
  <2> DEFINE o == OutcomesOf(done, t)
  <2>3. o = [k \in 1 .. n |-> done[t + k].outcome]
    BY <2>1 DEF OutcomesOf
  <2>4. DOMAIN o = 1 .. n /\ \A k \in 1 .. n : o[k] = done[t + k].outcome
    BY <2>3
  <2> HIDE DEF o
  <2>5. \A k \in 1 .. n : k <= batch => k \in 1 .. Answers /\ o[k] = messages[t + k].outcome
    <3> SUFFICES ASSUME NEW k \in 1 .. n, k <= batch
                 PROVE  k \in 1 .. Answers /\ o[k] = messages[t + k].outcome
      OBVIOUS
    <3>1. k \in 1 .. Answers /\ t + k \in 1 .. Len(messages)
      BY <1>4, <1>6, <2>1
    <3> QED BY <1>10, <2>4, <3>1 DEF Extends
  <2>6. \A k \in 1 .. n : k <= batch =>
          /\ k < executed => o[k] = "ok"
          /\ k = executed => o[k] \in {"ok", "failed"}
          /\ k > executed => o[k] = "skippedFailed" /\ o[executed] = "failed"
    <3> SUFFICES ASSUME NEW k \in 1 .. n, k <= batch
                 PROVE  /\ k < executed => o[k] = "ok"
                        /\ k = executed => o[k] \in {"ok", "failed"}
                        /\ k > executed => o[k] = "skippedFailed" /\ o[executed] = "failed"
      OBVIOUS
    <3>1. /\ k < executed => messages[t + k].outcome = "ok"
          /\ k = executed => messages[t + k].outcome \in {"ok", "failed"}
          /\ k > executed => /\ messages[t + k].outcome = "skippedFailed"
                             /\ messages[t + executed].outcome = "failed"
      BY <1>3, <2>5 DEF AnswerOK, t
    <3>2. executed \in 1 .. n /\ executed <= batch
      BY <1>4, <1>6
    <3> QED BY <2>5, <3>1, <3>2
  <2>7. \A k \in 1 .. n : k > batch => o[k] = "skippedMax"
    <3> SUFFICES ASSUME NEW k \in 1 .. n, k > batch PROVE o[k] = "skippedMax"
      OBVIOUS
    <3>1. k - batch \in 1 .. Len(skips) /\ t + Answers + (k - batch) = t + k
      BY <1>4, <1>6, <2>1
    <3>2. done[t + k] = skips[k - batch] /\ skips[k - batch].outcome = "skippedMax"
      BY <1>7, <1>10, <3>1
    <3> QED BY <2>4, <3>2
  <2>8. InOrder(o)
    BY <1>4, <1>6, <2>4, <2>6, <2>7, BatchInOrder
  <2> QED BY <2>2, <2>8 DEF Settled, o
<1>12. SettledBut(done, 0)
  <2>1. IsTurnWithCalls(done, t) => Calls # <<>>
    BY <1>4, <1>10 DEF IsTurnWithCalls
  <2> QED BY <1>10, <1>11, <2>1, TurnCloses
<1> DEFINE ended == appendStateMessageIfNeeded(done, cwd)
           m     == ResourceNow(commandsUsed + executed, modelTurns)
           told  == appendResourceStateMessage(ended, m)
           last  == Append(told, Plain("stepLimit"))
<1>13. messages' = IF BudgetSpent THEN last ELSE ended
  BY <1>1 DEF AfterBatch, done, skips, n
<1>14. /\ ended \in Seq(Message) /\ Quiet(ended, done) /\ ExtractLatestCwd(ended) = cwd
  <2>1. /\ ended \in Seq(Message) /\ Extends(ended, done)
        /\ \A i \in Added(ended, done) : ended[i] = State(cwd)
        /\ ExtractLatestCwd(ended) = cwd
    BY <1>3, <1>10, StateAppended
  <2>2. State(cwd).kind = "state"
    BY DEF State
  <2> HIDE DEF ended
  <2> QED BY <2>1, <2>2 DEF Quiet, IsTurnWithCalls
<1> HIDE DEF ended
<1>15. m \in Message /\ m.kind = "resource"
  <2>1. commandBudgetPressure(commandsUsed + executed) \in Pressures
    BY <1>3, <1>4, PressureType
  <2>2. commandsUsed + executed \in Nat
    BY <1>3, <1>4
  <2> QED BY <1>3, <2>1, <2>2 DEF ResourceNow, Resource, Message, Pressures
<1> HIDE DEF m
<1>16. told \in Seq(Message) /\ Quiet(told, ended) /\ ExtractLatestCwd(told) = cwd
  <2>1. /\ told \in Seq(Message) /\ Extends(told, ended)
        /\ \A i \in Added(told, ended) : told[i] = m
        /\ ExtractLatestCwd(told) = ExtractLatestCwd(ended)
    BY <1>14, <1>15, ResourceAppended
  <2> HIDE DEF told
  <2> QED BY <1>14, <1>15, <2>1 DEF Quiet, IsTurnWithCalls
<1> HIDE DEF told
<1>17. last \in Seq(Message) /\ Quiet(last, told) /\ ExtractLatestCwd(last) = cwd
  <2>1. Harmless(Plain("stepLimit"))
    BY HarmlessMessages
  <2>2. Plain("stepLimit") \in Message
    BY <2>1 DEF Harmless
  <2>3. last = told \o <<Plain("stepLimit")>>
    BY <1>16, <2>2, AppendIsConcat
  <2> HIDE DEF last
  <2> QED BY <1>16, <2>1, <2>3, SayOne
<1> HIDE DEF last
<1>18. CompactFirst(ended) /\ AllOwned(ended) /\ SettledBut(ended, 0)
  BY <1>10, <1>12, <1>14, QuietKeeps
<1>19. CompactFirst(told) /\ AllOwned(told) /\ SettledBut(told, 0)
  BY <1>14, <1>16, <1>18, QuietKeeps
<1>20. CompactFirst(last) /\ AllOwned(last) /\ SettledBut(last, 0)
  BY <1>16, <1>17, <1>19, QuietKeeps
<1>21. /\ messages' \in Seq(Message) /\ CompactFirst(messages') /\ AllOwned(messages')
       /\ SettledBut(messages', 0) /\ ExtractLatestCwd(messages') = cwd'
  BY <1>1, <1>13, <1>14, <1>17, <1>18, <1>20
<1>22. Recorded
  <2>1. Extends(ended, messages)
    BY <1>4, <1>10, <1>14, ExtendsTwice DEF Quiet
  <2>2. Extends(told, messages)
    BY <1>4, <1>14, <1>16, <2>1, ExtendsTwice DEF Quiet
  <2>3. Extends(last, messages)
    BY <1>4, <1>16, <1>17, <2>2, ExtendsTwice DEF Quiet
  <2> QED BY <1>13, <2>1, <2>3 DEF Recorded
<1> QED BY <1>1, <1>2, <1>3, <1>21, <1>22, OutsideTurn

\* CommandResults: the result of the next command, and when it failed one skip
\* for every command of the batch it keeps from running.
LEMMA CommandResultsIs ==
  ASSUME AgentInv, pc = "execute", NEW ok \in BOOLEAN
  PROVE  LET more == CommandResults(ok)
             rest == IF ok \/ Calls = <<>> THEN 0 ELSE batch - executed - 1
         IN  /\ more \in Seq(Message) /\ Len(more) = 1 + rest /\ rest \in Nat
             /\ \A k \in 1 .. Len(more) :
                  /\ more[k].kind = "result"
                  /\ more[k].id = IF Calls = <<>> THEN 0 ELSE Calls[executed + k]
             /\ more[1].outcome = IF ok THEN "ok" ELSE "failed"
             /\ \A k \in 2 .. Len(more) : more[k].outcome = "skippedFailed"
<1> DEFINE id    == IF Calls = <<>> THEN 0 ELSE Calls[executed + 1]
           first == Result(id, IF ok THEN "ok" ELSE "failed")
           skips == IF ok THEN <<>> ELSE SkippedResults(executed + 2, batch, "skippedFailed")
           rest  == IF ok \/ Calls = <<>> THEN 0 ELSE batch - executed - 1
           more  == <<first>> \o skips
<1>1. CommandResults(ok) = more
  BY DEF CommandResults
<1>2. /\ Calls \in Seq(Nat) /\ Len(Calls) \in Nat /\ (Calls # <<>> => Len(Calls) = batch + skipped)
      /\ batch \in Nat /\ skipped \in Nat /\ executed \in Nat /\ executed < batch
  BY BatchFacts DEF Acting
<1>3. rest \in Nat
  BY <1>2
<1>4. id \in Nat /\ (id = IF Calls = <<>> THEN 0 ELSE Calls[executed + 1])
  <2>1. Calls # <<>> => executed + 1 \in 1 .. Len(Calls)
    BY <1>2
  <2> QED BY <1>2, <2>1
<1> HIDE DEF id
<1>5. /\ first \in Message /\ first.kind = "result" /\ first.id = id
      /\ first.outcome = IF ok THEN "ok" ELSE "failed"
  BY <1>4 DEF Result, Message, Outcomes
<1> HIDE DEF first
<1>6. /\ skips \in Seq(Message) /\ Len(skips) = rest
      /\ \A k \in 1 .. Len(skips) :
           /\ skips[k].kind = "result" /\ skips[k].id = Calls[executed + 1 + k]
           /\ skips[k].outcome = "skippedFailed" /\ Calls # <<>>
  <2>1. CASE ok
    <3>1. skips = <<>> /\ rest = 0
      BY <2>1
    <3> HIDE DEF skips, rest
    <3>2. <<>> \in Seq(Message) /\ Len(<<>>) = 0 /\ 1 .. 0 = {}
      OBVIOUS
    <3> QED BY <3>1, <3>2
  <2>2. CASE ~ok
    <3> DEFINE i == executed + 2
               s == SkippedResults(i, batch, "skippedFailed")
    <3>1. /\ Calls \in Seq(Nat) /\ i \in Nat \ {0} /\ batch \in Nat /\ i <= batch + 1
          /\ Calls # <<>> => batch <= Len(Calls)
          /\ "skippedFailed" \in Outcomes
      BY <1>2 DEF Outcomes
    <3>2. skips = s /\ i = executed + 2
      BY <2>2
    <3> HIDE DEF i, skips
    <3>3. AreSkips(s, i, batch, "skippedFailed")
      BY <3>1, SkippedIs
    <3> HIDE DEF s
    <3>4. Len(s) = rest /\ s \in Seq(Message)
      BY <1>2, <2>2, <3>2, <3>3 DEF AreSkips
    <3>5. \A k \in 1 .. Len(s) : i + k - 1 = executed + 1 + k
      BY <1>2, <1>3, <3>2, <3>4
    <3>6. Len(s) # 0 => Calls # <<>>
      BY <3>4
    <3> QED BY <3>2, <3>3, <3>4, <3>5, <3>6 DEF AreSkips
  <2> QED BY <2>1, <2>2
<1> HIDE DEF skips, rest
<1>7. /\ more \in Seq(Message) /\ Len(more) = 1 + rest
      /\ \A k \in 1 .. Len(more) : more[k] = IF k = 1 THEN first ELSE skips[k - 1]
  <2> DEFINE head == <<first>>
  <2>1. head \in Seq(Message) /\ Len(head) = 1 /\ head[1] = first
    BY <1>5
  <2> HIDE DEF head
  <2>2. /\ head \o skips \in Seq(Message) /\ Len(head \o skips) = 1 + rest
        /\ \A k \in 1 .. 1 + rest :
             (head \o skips)[k] = IF k <= 1 THEN head[k] ELSE skips[k - 1]
    <3>1. Len(head) + Len(skips) = 1 + rest
      BY <1>3, <1>6, <2>1
    <3>2. /\ head \o skips \in Seq(Message) /\ Len(head \o skips) = Len(head) + Len(skips)
          /\ \A k \in 1 .. Len(head) + Len(skips) :
               (head \o skips)[k] = IF k <= Len(head) THEN head[k] ELSE skips[k - Len(head)]
      BY <1>6, <2>1, ConcatMessages, Zenon
    <3> QED BY <2>1, <3>1, <3>2
  <2> QED BY <1>3, <2>1, <2>2 DEF head
<1> HIDE DEF more
<1>8. \A k \in 1 .. Len(more) :
        /\ more[k].kind = "result"
        /\ more[k].id = IF Calls = <<>> THEN 0 ELSE Calls[executed + k]
        /\ k # 1 => more[k].outcome = "skippedFailed"
  <2> SUFFICES ASSUME NEW k \in 1 .. Len(more)
               PROVE  /\ more[k].kind = "result"
                      /\ more[k].id = IF Calls = <<>> THEN 0 ELSE Calls[executed + k]
                      /\ k # 1 => more[k].outcome = "skippedFailed"
    OBVIOUS
  <2>1. CASE k = 1
    BY <1>4, <1>5, <1>7, <2>1
  <2>2. CASE k # 1
    <3>1. k - 1 \in 1 .. Len(skips) /\ executed + 1 + (k - 1) = executed + k
      BY <1>2, <1>3, <1>6, <1>7, <2>2
    <3> QED BY <1>6, <1>7, <2>2, <3>1
  <2> QED BY <2>1, <2>2
<1>9. 1 \in 1 .. Len(more) /\ \A k \in 2 .. Len(more) : k \in 1 .. Len(more) /\ k # 1
  BY <1>3, <1>7
<1>10. more[1].outcome = IF ok THEN "ok" ELSE "failed"
  BY <1>5, <1>7, <1>9
<1>11. \A k \in 2 .. Len(more) : more[k].outcome = "skippedFailed"
  BY <1>8, <1>9
<1> QED BY <1>1, <1>3, <1>7, <1>8, <1>10, <1>11 DEF rest

\* A command of the batch ran: its result, and the shell it left.
LEMMA ExecuteStep ==
  ASSUME AgentInv, IInv', NEW ok \in BOOLEAN, NEW snapshot \in Snapshots, NEW dir \in Cwds,
         AgentExecute(ok, snapshot, dir)
  PROVE  AgentInv' /\ Recorded
<1> DEFINE t    == LatestTurn
           e    == executed
           more == CommandResults(ok)
           rest == IF ok \/ Calls = <<>> THEN 0 ELSE batch - e - 1
<1>1. /\ pc = "execute" /\ pc' = IF ok /\ e + 1 < batch THEN "execute" ELSE "finish"
      /\ executed' = e + 1 /\ batch' = batch /\ skipped' = skipped
      /\ messages' = messages \o more
      /\ cwd' = IF snapshot = "none" THEN cwd ELSE dir
      /\ env' = NextEnv(snapshot, dir)
      /\ UNCHANGED <<actProtocol, nextCall>>
  BY DEF AgentExecute, ExecuteCommand, Continue
<1>2. /\ messages \in Seq(Message) /\ t \in 1 .. Len(messages) /\ t \in Nat
      /\ messages[t].kind = "turn" /\ Calls \in Seq(Nat) /\ Len(Calls) \in Nat
      /\ Calls # <<>> => Len(Calls) = batch + skipped
      /\ batch \in Nat /\ skipped \in Nat /\ e \in Nat /\ e < batch
      /\ messages[t].calls = Calls /\ Len(messages) = t + Answers
  <2>1. messages[t].calls = Calls
    BY DEF Calls
  <2> QED BY <1>1, <2>1, BatchFacts DEF Acting
<1>3. Answers = e
  BY <1>1 DEF Answers
<1>4. /\ actProtocol \in ActProtocols /\ cwd \in Cwds /\ nextCall \in Nat \ {0}
      /\ env \in {NoEnv, CutEnv, cwd} /\ \A k \in 1 .. e : AnswerOK(k)
  BY <1>1, <1>3 DEF AgentInv, AgentTypeOK, DirectoryInv, BatchInv, Acting
<1>5. /\ more \in Seq(Message) /\ Len(more) = 1 + rest /\ rest \in Nat
      /\ \A k \in 1 .. Len(more) :
           /\ more[k].kind = "result"
           /\ more[k].id = IF Calls = <<>> THEN 0 ELSE Calls[e + k]
      /\ more[1].outcome = IF ok THEN "ok" ELSE "failed"
      /\ \A k \in 2 .. Len(more) : more[k].outcome = "skippedFailed"
  BY <1>1, CommandResultsIs
<1> HIDE DEF more
<1>6. rest = IF ok \/ Calls = <<>> THEN 0 ELSE batch - e - 1
  OBVIOUS
<1> HIDE DEF rest, t, e
<1>7. Calls # <<>> => Answers + Len(more) <= Len(Calls)
  <2> SUFFICES ASSUME Calls # <<>> PROVE e + (1 + rest) <= batch + skipped
    BY <1>2, <1>3, <1>5
  <2>1. /\ batch \in Nat /\ skipped \in Nat /\ e \in Nat /\ e < batch
        /\ rest = 0 \/ rest = batch - e - 1
    BY <1>2, <1>6
  <2> QED BY <2>1
<1>8. /\ messages' \in Seq(Message) /\ Extends(messages', messages)
      /\ Len(messages') = t + e + Len(more)
      /\ \A k \in 1 .. Len(more) : messages'[t + e + k] = more[k]
      /\ Latest({i \in DOMAIN messages' : messages'[i].kind = "turn"}) = t
      /\ CompactFirst(messages') /\ AllOwned(messages') /\ SettledBut(messages', t)
      /\ messages'[t] = messages[t]
  <2>1. pc \in Acting /\ more \in Seq(Message)
    BY <1>1, <1>5 DEF Acting
  <2>2. \A k \in 1 .. Len(more) :
          /\ more[k].kind = "result"
          /\ more[k].id = IF Calls = <<>> THEN 0 ELSE Calls[Answers + k]
    BY <1>3, <1>5
  <2> DEFINE new == messages \o more
             a   == Answers
  <2>3. /\ new \in Seq(Message) /\ Extends(new, messages) /\ Len(new) = t + a + Len(more)
        /\ \A k \in 1 .. Len(more) : new[t + a + k] = more[k]
        /\ Latest({i \in DOMAIN new : new[i].kind = "turn"}) = t
        /\ CompactFirst(new) /\ AllOwned(new) /\ SettledBut(new, t)
        /\ new[t] = messages[t]
    BY <1>7, <2>1, <2>2, BatchGrows DEF t
  <2>4. messages' = new /\ a = e
    BY <1>1, <1>3
  <2> HIDE DEF new, a
  <2> QED BY <2>3, <2>4
<1>9. LatestTurn' = t /\ Calls' = Calls
  <2>1. LatestTurn' = t
    BY <1>8 DEF LatestTurn, Where
  <2> QED BY <1>2, <1>8, <2>1 DEF Calls
<1>10. Answers' = e + 1 + rest /\ pc' \in {"execute", "finish"}
  <2>1. CASE pc' = "execute"
    BY <1>1, <1>2, <1>6, <2>1 DEF Answers
  <2>2. CASE pc' = "finish"
    BY <1>1, <1>2, <1>6, <1>9, <2>2 DEF Answers
  <2> QED BY <1>1, <2>1, <2>2
<1>11. \A k \in 1 .. e : messages'[t + k] = messages[t + k]
  <2> SUFFICES ASSUME NEW k \in 1 .. e PROVE messages'[t + k] = messages[t + k]
    OBVIOUS
  <2>1. t + k \in 1 .. Len(messages)
    BY <1>2, <1>3
  <2> QED BY <1>8, <2>1 DEF Extends
<1>12. messages'[t + (e + 1)].outcome = IF ok THEN "ok" ELSE "failed"
  <2>1. 1 \in 1 .. Len(more) /\ t + e + 1 = t + (e + 1)
    BY <1>2, <1>5
  <2>2. messages'[t + (e + 1)] = more[1]
    BY <1>8, <2>1
  <2> QED BY <1>5, <2>2
<1>13. \A k \in 1 .. Answers' : AnswerOK(k)'
  <2> SUFFICES ASSUME NEW k \in 1 .. (e + 1 + rest) PROVE AnswerOK(k)'
    BY <1>10
  <2> DEFINE msg == messages'[t + k]
  <2>1. CASE k \in 1 .. e
    <3>1. /\ messages[t + k].kind = "result"
          /\ messages[t + k].id = IF Calls = <<>> THEN 0 ELSE Calls[k]
          /\ messages[t + k].outcome = "ok"
      BY <1>1, <1>4, <2>1 DEF AnswerOK, t
    <3>2. k < e + 1
      BY <1>2, <2>1
    <3>3. msg = messages[t + k] /\ ~(k = e + 1) /\ ~(k > e + 1)
      BY <1>2, <1>11, <2>1
    <3> HIDE DEF msg
    <3>4. /\ msg.kind = "result" /\ msg.id = (IF Calls = <<>> THEN 0 ELSE Calls[k])
          /\ k < e + 1 \/ pc' = "execute" => msg.outcome = "ok"
          /\ k = e + 1 => msg.outcome \in {"ok", "failed"}
          /\ k > e + 1 => msg.outcome = "skippedFailed" /\ messages'[t + (e + 1)].outcome = "failed"
      BY <3>1, <3>3
    <3> QED BY <1>1, <1>9, <3>4 DEF AnswerOK, msg
  <2>2. CASE k \notin 1 .. e
    <3>1. /\ k - e \in 1 .. Len(more) /\ t + e + (k - e) = t + k /\ e + (k - e) = k
          /\ k >= e + 1 /\ (k = e + 1 => k - e = 1) /\ (k > e + 1 => k - e \in 2 .. Len(more))
      <4>1. /\ k \in Nat /\ k >= e + 1 /\ k <= e + 1 + rest /\ e \in Nat /\ rest \in Nat
            /\ t \in Nat /\ Len(more) = 1 + rest
        BY <1>2, <1>5, <2>2
      <4> QED BY <4>1
    <3>2. msg = more[k - e]
      BY <1>8, <3>1
    <3>3. msg.kind = "result" /\ msg.id = IF Calls = <<>> THEN 0 ELSE Calls[k]
      BY <1>5, <3>1, <3>2
    <3>4. k = e + 1 => msg.outcome = IF ok THEN "ok" ELSE "failed"
      BY <1>5, <3>1, <3>2
    <3>5. k > e + 1 => msg.outcome = "skippedFailed" /\ ~ok
      BY <1>2, <1>5, <1>6, <3>1, <3>2
    <3>6. pc' = "execute" => ok /\ k = e + 1
      BY <1>1, <1>2, <1>6, <3>1
    <3> HIDE DEF msg
    <3>7. /\ k < e + 1 \/ pc' = "execute" => msg.outcome = "ok"
          /\ k = e + 1 => msg.outcome \in {"ok", "failed"}
          /\ k > e + 1 => msg.outcome = "skippedFailed" /\ messages'[t + (e + 1)].outcome = "failed"
      BY <1>2, <1>12, <3>1, <3>4, <3>5, <3>6
    <3> QED BY <1>1, <1>9, <3>3, <3>7 DEF AnswerOK, msg
  <2> QED BY <2>1, <2>2
<1>14. BatchInv'
  <2>1. Len(messages') = t + Answers'
    BY <1>2, <1>5, <1>8, <1>10
  <2>2. t \in 1 .. Len(messages')
    BY <1>2, <1>5, <1>8
  <2>3. LatestTurn' \in 1 .. Len(messages') /\ messages'[LatestTurn'].kind = "turn"
    BY <1>2, <1>8, <1>9, <2>2
  <2>4. Calls' = <<>> \/ Len(Calls') = batch' + skipped'
    BY <1>1, <1>2, <1>9
  <2>5. pc' # "decide"
    BY <1>1
  <2>6. Len(messages') = LatestTurn' + Answers'
    BY <1>9, <2>1
  <2> QED BY <1>13, <2>3, <2>4, <2>5, <2>6 DEF BatchInv
<1>15. TranscriptInv'
  BY <1>8, <1>9, <1>10 DEF TranscriptInv, OpenTurn, Acting
<1>16. env' \in {NoEnv, CutEnv, cwd'} /\ cwd' \in Cwds
  BY <1>1, <1>4 DEF NextEnv
<1>17. DirectoryInv'
  BY <1>10, <1>16 DEF DirectoryInv, Summing
<1>18. AgentTypeOK'
  BY <1>1, <1>4, <1>8, <1>16 DEF AgentTypeOK, IInv
<1> QED BY <1>8, <1>14, <1>15, <1>17, <1>18 DEF AgentInv, Recorded

-----------------------------------------------------------------------------
(* The invariant always holds *)

\* Every step of the agent keeps the invariant, and records what it does.
LEMMA AgentInvPreserved ==
  AgentInv /\ [AgentNext]_vars => AgentInv' /\ Recorded
<1> SUFFICES ASSUME AgentInv, [AgentNext]_vars PROVE AgentInv' /\ Recorded
  OBVIOUS
<1>1. IInv'
  <2>1. IInv /\ TypeOK
    BY DEF AgentInv, IInv
  <2>2. [Next]_policyVars
    BY <2>1, PolicyStep
  <2> QED BY <2>1, <2>2, IInvPreserved
<1>2. CASE UNCHANGED vars
  BY <1>1, <1>2, SameStep DEF vars, policyVars, batchVars
<1>3. CASE Resume \/ \E m \in Modes : StartTask(m)
  BY <1>1, <1>3, IdleSteps
<1>4. CASE CompactCommand \/ AgentBackstopFails \/ AgentFinal
  BY <1>1, <1>4, CompactSteps
<1>5. CASE AgentAttempt \/ AgentBackstopRetries
  BY <1>1, <1>5, AttemptSteps
<1>6. CASE \/ AgentQueryFails \/ AgentProtocolFailure \/ AgentClarify
           \/ \E d \in DoneTurns : AgentDone(d)
  BY <1>1, <1>6, LoopSteps
<1>7. ASSUME NEW n \in 1 .. MaxBatch, AgentActTurn(n) PROVE AgentInv' /\ Recorded
  BY <1>1, <1>7, ActTurnStep
<1>8. CASE AgentActRejected
  BY <1>1, <1>8, RejectStep
<1>9. CASE AgentWaits
  BY <1>1, <1>9, WaitSteps
<1>10. CASE AgentFinishAct
  BY <1>1, <1>10, FinishStep
<1>11. ASSUME NEW ok \in BOOLEAN, NEW snapshot \in Snapshots, NEW dir \in Cwds,
              AgentExecute(ok, snapshot, dir)
       PROVE  AgentInv' /\ Recorded
  BY <1>1, <1>11, ExecuteStep
<1> QED
  BY <1>2, <1>3, <1>4, <1>5, <1>6, <1>7, <1>8, <1>9, <1>10, <1>11, Zenon DEF AgentNext

\* So it holds in every state the agent reaches.
LEMMA AgentInvAlways == AgentSpec => []AgentInv
<1>1. AgentInv /\ [AgentNext]_vars => AgentInv'
  BY AgentInvPreserved
<1> QED BY <1>1, AgentInitInv, PTL DEF AgentSpec

-----------------------------------------------------------------------------
(* The theorems *)

\* The fields of Agent and its messages keep their types, whatever the model,
\* the human, the commands and the frontend do.
THEOREM AgentTypeCorrect == AgentSpec => []AgentTypeOK
<1>1. AgentInv => AgentTypeOK
  BY DEF AgentInv
<1> QED BY <1>1, AgentInvAlways, PTL

\* The agent runs the loop of RunPolicy, step for step: with its transcript,
\* its compactions and its resumptions it does nothing the loop does not.
THEOREM AgentImplementsLoop == AgentSpec => Spec
<1>1. AgentInit => Init
  BY DEF AgentInit
<1>2. AgentInv /\ [AgentNext]_vars => [Next]_policyVars
  BY PolicyStep DEF AgentInv, IInv
<1> QED BY <1>1, <1>2, AgentInvAlways, PTL DEF AgentSpec, Spec

\* Whenever the model is queried, it has been told the directory the next
\* command runs in (Step, runStepAttempt, Compact, AddMessages), and directory
\* and environment come from the same shell (applyPostCommandState).
THEOREM DirectoryCurrent == AgentSpec => []StateCurrent
<1>1. AgentInv => StateCurrent
  BY DEF AgentInv, DirectoryInv, StateCurrent, Querying, Summing
<1> QED BY <1>1, AgentInvAlways, PTL

\* Whenever the loop goes round or queries, every call the model made has been
\* answered once, in order and right after its turn, unless the run died
\* waiting for approval (ExecuteTurnWithSkipped, RejectTurn).
THEOREM EveryCallAnswered == AgentSpec => []CallsAnswered
<1>1. AgentInv => CallsAnswered
  <2> SUFFICES ASSUME AgentInv, pc = "loop" \/ Querying, NEW i \in DOMAIN messages,
                      IsTurnWithCalls(messages, i)
               PROVE  TurnAnswered(messages, i) \/ TurnAbandoned(messages, i)
    BY DEF CallsAnswered
  <2>1. OpenTurn = 0
    BY DEF OpenTurn, Querying, Acting
  <2>2. messages \in Seq(Message) /\ SettledBut(messages, 0)
    BY <2>1 DEF AgentInv, AgentTypeOK, TranscriptInv
  <2>3. i # 0
    BY <2>2
  <2> QED BY <2>2, <2>3 DEF SettledBut, Settled
<1> QED BY <1>1, AgentInvAlways, PTL

\* No compaction separates a result from the call it answers
\* (FindCompactBoundary, RewriteForCompaction).
THEOREM EveryResultOwned == AgentSpec => []ResultsOwned
<1>1. AgentInv => ResultsOwned
  BY DEF AgentInv, TranscriptInv, AllOwned, ResultsOwned
<1> QED BY <1>1, AgentInvAlways, PTL

\* The outcomes of a batch are all denials, or successes, then at most one
\* failure, then skips that name the right reason (ExecuteTurnWithSkipped).
THEOREM OutcomesLawful == AgentSpec => []BatchOutcomes
<1>1. AgentInv => BatchOutcomes
  <2> SUFFICES ASSUME AgentInv, NEW i \in DOMAIN messages, IsTurnWithCalls(messages, i),
                      TurnAnswered(messages, i)
               PROVE  InOrder(OutcomesOf(messages, i))
    BY DEF BatchOutcomes
  <2>1. /\ messages \in Seq(Message) /\ i \in 1 .. Len(messages) /\ i \in Nat
        /\ Len(messages) \in Nat /\ SettledBut(messages, OpenTurn)
    BY DEF AgentInv, AgentTypeOK, TranscriptInv
  <2> DEFINE n == Len(messages[i].calls)
  <2>2. n \in Nat /\ n >= 1 /\ messages[i].calls \in Seq(Nat)
    <3>1. messages[i].calls \in Seq(Nat) /\ messages[i].calls # <<>>
      BY <2>1, CallsType DEF IsTurnWithCalls
    <3> QED BY <3>1, EmptySeq
  <2>3. \A k \in 1 .. n : i + k <= Len(messages) /\ messages[i + k].kind = "result"
    BY DEF TurnAnswered, CallAnswered
  <2> HIDE DEF n
  <2>4. 1 \in 1 .. n /\ n \in 1 .. n
    BY <2>2
  <2>5. i < Len(messages) /\ messages[i + 1].kind = "result" /\ i + n <= Len(messages)
    BY <2>1, <2>3, <2>4
  <2>6. CASE i # OpenTurn
    BY <2>1, <2>5, <2>6 DEF SettledBut, Settled, TurnAbandoned
  <2>7. CASE i = OpenTurn
    <3>1. pc \in Acting /\ i = LatestTurn
      BY <2>1, <2>5, <2>7 DEF OpenTurn
    <3>2. /\ Calls # <<>> /\ n = Len(Calls)
      BY <3>1 DEF IsTurnWithCalls, Calls, n
    <3>3. /\ n = batch + skipped /\ batch \in Nat /\ skipped \in Nat /\ executed \in Nat
          /\ executed <= batch /\ Answers \in 0 .. batch /\ Len(messages) = i + Answers
          /\ pc \in {"decide", "execute"} => executed < batch
          /\ pc = "finish" => executed >= 1
      BY <3>1, <3>2, BatchFacts
    <3>4. n <= Answers
      BY <2>1, <2>2, <2>5, <3>3
    <3>5. n = batch /\ Answers = batch
      BY <3>3, <3>4
    <3>6. pc = "finish"
      <4>1. pc = "decide" => Answers = 0
        BY DEF Answers
      <4>2. pc = "execute" => Answers = executed
        BY DEF Answers
      <4> QED BY <2>2, <3>1, <3>3, <3>5, <4>1, <4>2 DEF Acting
    <3>7. \A k \in 1 .. n : AnswerOK(k)
      BY <3>1, <3>5 DEF AgentInv, BatchInv
    <3> DEFINE o == OutcomesOf(messages, i)
    <3>8. DOMAIN o = 1 .. n /\ \A k \in 1 .. n : o[k] = messages[i + k].outcome
      BY DEF OutcomesOf, n
    <3> HIDE DEF o
    <3>9. \A k \in 1 .. n : k <= batch =>
            /\ k < executed => o[k] = "ok"
            /\ k = executed => o[k] \in {"ok", "failed"}
            /\ k > executed => o[k] = "skippedFailed" /\ o[executed] = "failed"
      <4> SUFFICES ASSUME NEW k \in 1 .. n
                   PROVE  /\ k < executed => o[k] = "ok"
                          /\ k = executed => o[k] \in {"ok", "failed"}
                          /\ k > executed => o[k] = "skippedFailed" /\ o[executed] = "failed"
        OBVIOUS
      <4>1. /\ k < executed => messages[i + k].outcome = "ok"
            /\ k = executed => messages[i + k].outcome \in {"ok", "failed"}
            /\ k > executed => /\ messages[i + k].outcome = "skippedFailed"
                               /\ messages[i + executed].outcome = "failed"
        BY <3>1, <3>7 DEF AnswerOK
      <4>2. executed \in 1 .. n
        BY <3>3, <3>5, <3>6
      <4> QED BY <3>8, <4>1, <4>2
    <3>10. \A k \in 1 .. n : k > batch => o[k] = "skippedMax"
      BY <3>3, <3>5
    <3>11. InOrder(o)
      BY <2>2, <3>3, <3>6, <3>8, <3>9, <3>10, BatchInOrder
    <3> QED BY <3>11 DEF o
  <2> QED BY <2>6, <2>7
<1> QED BY <1>1, AgentInvAlways, PTL

\* A transcript that has been added to is an extension.
LEMMA ExtendsIs ==
  ASSUME NEW new \in Seq(Message), NEW old \in Seq(Message), Extends(new, old)
  PROVE  IsExtension(new, old)
<1>1. /\ Len(old) \in Nat /\ Len(new) \in Nat /\ Len(new) >= Len(old)
      /\ \A i \in 1 .. Len(old) : new[i] = old[i]
  BY DEF Extends
<1> DEFINE prefix == SubSeq(new, 1, Len(old))
<1>2. /\ prefix \in Seq(Message) /\ Len(prefix) = Len(old)
      /\ \A i \in 1 .. Len(old) : prefix[i] = new[i]
  <2>1. \A i \in 1 .. Len(old) : new[i] \in Message
    BY <1>1
  <2>2. /\ prefix \in Seq(Message) /\ Len(prefix) = IF 1 <= Len(old) THEN Len(old) - 1 + 1 ELSE 0
        /\ \A i \in 1 .. Len(old) - 1 + 1 : prefix[i] = new[1 + i - 1]
    BY <1>1, <2>1, SubSeqProperties
  <2> HIDE DEF prefix
  <2> QED BY <1>1, <2>2
<1> HIDE DEF prefix
<1>3. prefix = old
  BY <1>1, <1>2, SeqEqual
<1> QED BY <1>1, <1>3 DEF IsExtension, prefix

\* The history a compaction leaves, with what was appended to it in the same
\* step, is as CompactionRewrites says.
LEMMA RewriteIs ==
  ASSUME AgentInv, AgentInv', pc \in {"idle", "compact", "finalCompact"}, CanCompact,
         Extends(messages', Compacted),
         ExtractLatestCwd(messages') = ExtractLatestCwd(messages)
  PROVE  CompactionRewrites
<1> DEFINE ms  == messages
           new == messages'
           b   == FindCompactBoundary(ms, KeepRecentTurns)
<1>1. /\ ms \in Seq(Message) /\ new \in Seq(Message) /\ CompactFirst(ms) /\ CompactFirst(new)
      /\ b # 0
  BY DEF AgentInv, AgentTypeOK, TranscriptInv, CanCompact
<1>2. PICK n \in {2, 3} :
        /\ Compacted \in Seq(Message) /\ b \in 2 .. Len(ms)
        /\ SameTail(Compacted, n, ms, b) /\ Compacted[1] = Plain("compact")
  BY <1>1, CompactedIs DEF Compacted
<1>3. Cardinality({i \in b .. Len(ms) : isUserAuthoredMessage(ms[i])}) = 2
  <2>1. /\ b >= 2
        /\ Cardinality({i \in {j \in DOMAIN ms : isUserAuthoredMessage(ms[j])} : i >= b}) = 2
    BY <1>1, BoundaryIs
  <2>2. {i \in {j \in DOMAIN ms : isUserAuthoredMessage(ms[j])} : i >= b}
          = {i \in b .. Len(ms) : isUserAuthoredMessage(ms[i])}
    <3> HIDE DEF isUserAuthoredMessage, b
    <3>1. DOMAIN ms = 1 .. Len(ms) /\ Len(ms) \in Nat /\ b \in Nat /\ b >= 1
      BY <1>1, <1>2
    <3>2. \A i : (i \in 1 .. Len(ms) /\ i >= b) <=> i \in b .. Len(ms)
      BY <3>1
    <3> QED BY <3>1, <3>2
  <2> QED BY <2>1, <2>2
<1> HIDE DEF b
<1>4. /\ n \in Nat /\ n >= 2 /\ b \in Nat /\ b >= 2 /\ b <= Len(ms)
      /\ Len(ms) \in Nat /\ Len(new) \in Nat /\ Len(Compacted) \in Nat
      /\ n <= Len(Compacted) /\ Len(Compacted) - n = Len(ms) - b
      /\ Len(new) >= Len(Compacted)
      /\ \A i \in 1 .. Len(Compacted) : new[i] = Compacted[i]
      /\ \A i \in n .. Len(Compacted) : Compacted[i] = ms[i - n + b]
  BY <1>1, <1>2 DEF SameTail, Extends
<1>5. new[1] = Plain("compact")
  <2> HIDE DEF new, ms
  <2>1. 1 \in 1 .. Len(Compacted)
    BY <1>4
  <2>2. new[1] = Compacted[1]
    BY <1>4, <2>1
  <2> QED BY <1>2, <2>2
<1>6. \A i \in 2 .. Len(new) : new[i] # Plain("compact")
  <2> SUFFICES ASSUME NEW i \in 2 .. Len(new), new[i] = Plain("compact") PROVE FALSE
    OBVIOUS
  <2>1. i \in DOMAIN new /\ i # 1
    BY <1>1, <1>4
  <2>2. new[i].kind = "compact"
    BY DEF Plain
  <2> QED BY <1>1, <2>1, <2>2 DEF CompactFirst
<1> DEFINE newTail == SubSeq(new, n, Len(new))
           oldTail == SubSeq(ms, b, Len(ms))
<1>7. /\ newTail \in Seq(Message) /\ Len(newTail) = Len(new) - n + 1
      /\ \A i \in 1 .. Len(new) - n + 1 : newTail[i] = new[n + i - 1]
  <2>1. \A i \in n .. Len(new) : new[i] \in Message
    BY <1>1, <1>4
  <2> QED BY <1>4, <2>1, SubSeqProperties
<1>8. /\ oldTail \in Seq(Message) /\ Len(oldTail) = Len(ms) - b + 1
      /\ \A i \in 1 .. Len(ms) - b + 1 : oldTail[i] = ms[b + i - 1]
  <2>1. \A i \in b .. Len(ms) : ms[i] \in Message
    BY <1>1, <1>4
  <2> QED BY <1>4, <2>1, SubSeqProperties
<1> HIDE DEF newTail, oldTail
<1>9. Extends(newTail, oldTail)
  <2>1. Len(newTail) >= Len(oldTail)
    BY <1>4, <1>7, <1>8
  <2>2. ASSUME NEW i \in 1 .. Len(oldTail) PROVE newTail[i] = oldTail[i]
    <3>1. /\ i \in 1 .. Len(new) - n + 1 /\ i \in 1 .. Len(ms) - b + 1
          /\ n + i - 1 \in 1 .. Len(Compacted) /\ n + i - 1 \in n .. Len(Compacted)
          /\ (n + i - 1) - n + b = b + i - 1
      BY <1>4, <1>8
    <3>2. newTail[i] = Compacted[n + i - 1]
      BY <1>4, <1>7, <3>1
    <3>3. Compacted[n + i - 1] = ms[(n + i - 1) - n + b]
      BY <1>4, <3>1
    <3>4. oldTail[i] = ms[b + i - 1]
      BY <1>8, <3>1
    <3> QED BY <3>1, <3>2, <3>3, <3>4
  <2> QED BY <2>1, <2>2 DEF Extends
<1>10. IsExtension(newTail, oldTail)
  BY <1>7, <1>8, <1>9, ExtendsIs
<1>11. b \in DOMAIN messages
  BY <1>1, <1>4
<1>12. Cardinality({i \in b .. Len(messages) : isUserAuthoredMessage(messages[i])}) >= 2
  BY <1>3
<1> QED BY <1>5, <1>6, <1>10, <1>11, <1>12 DEF CompactionRewrites, newTail, oldTail

\* History is append-only but for a compaction, which keeps a tail with the
\* last two authored messages as it is, and the directory (Agent.Compact).
THEOREM HistoryKept == AgentSpec => OnlyCompactionRewrites
<1>1. AgentInv /\ AgentInv' /\ Recorded => IsExtension(messages', messages) \/ CompactionRewrites
  <2> SUFFICES ASSUME AgentInv, AgentInv', Recorded
               PROVE  IsExtension(messages', messages) \/ CompactionRewrites
    OBVIOUS
  <2>1. messages \in Seq(Message) /\ messages' \in Seq(Message)
    BY DEF AgentInv, AgentTypeOK
  <2> QED BY <2>1, ExtendsIs, RewriteIs DEF Recorded
<1>2. AgentInv /\ [AgentNext]_vars
        => [IsExtension(messages', messages) \/ CompactionRewrites]_messages
  BY <1>1, AgentInvPreserved
<1> QED BY <1>2, AgentInvAlways, PTL DEF AgentSpec, OnlyCompactionRewrites

-----------------------------------------------------------------------------
(* Putting sequences together *)

\* Counting up from one without leaving the good places reaches the last.
LEMMA CountedUp ==
  ASSUME NEW n \in Nat, n >= 1, NEW Good \in SUBSET (1 .. n), 1 \in Good,
         \A i \in 1 .. (n - 1) : i \in Good => i + 1 \in Good
  PROVE  n \in Good
<1>1. Latest(Good) \in Good /\ \A j \in Good : j <= Latest(Good)
  BY LatestIs
<1> DEFINE last == Latest(Good)
<1> HIDE DEF last
<1>2. last \in Good /\ \A j \in Good : j <= last
  BY <1>1 DEF last
<1>3. ASSUME last # n PROVE FALSE
  <2>1. last \in 1 .. (n - 1)
    BY <1>2, <1>3
  <2> QED BY <1>2, <2>1
<1> QED BY <1>2, <1>3

-----------------------------------------------------------------------------
(* FlattenSeq *)

\* flat holds the first n sequences of seqs one after the other, the i-th of
\* them behind its first off[i] elements.
FlatUpto(flat, off, seqs, n) ==
  /\ off[1] = 0 /\ Len(flat) = off[n + 1]
  /\ \A i \in 1 .. n : off[i] \in Nat /\ off[i + 1] = off[i] + Len(seqs[i])
  /\ \A i \in 1 .. n : \A k \in 1 .. Len(seqs[i]) :
       off[i] + k <= Len(flat) /\ flat[off[i] + k] = seqs[i][k]
  /\ \A p \in 1 .. Len(flat) : \E i \in 1 .. n : p - off[i] \in 1 .. Len(seqs[i])

\* The sequences of seqs one after the other.
Flattened(flat, off, seqs) == FlatUpto(flat, off, seqs, Len(seqs))

\* Two sequences, one after the other.
LEMMA Joined ==
  ASSUME NEW S, NEW a \in Seq(S), NEW b \in Seq(S)
  PROVE  LET new == a \o b
         IN  /\ new \in Seq(S) /\ Len(new) = Len(a) + Len(b) /\ Len(a) \in Nat /\ Len(b) \in Nat
             /\ \A p \in 1 .. Len(a) : p <= Len(new) /\ new[p] = a[p]
             /\ \A k \in 1 .. Len(b) : Len(a) + k <= Len(new) /\ new[Len(a) + k] = b[k]
             /\ \A p \in 1 .. Len(new) : p \in 1 .. Len(a) \/ p - Len(a) \in 1 .. Len(b)
<1> DEFINE new == a \o b
<1>1. /\ new \in Seq(S) /\ Len(new) = Len(a) + Len(b) /\ Len(a) \in Nat /\ Len(b) \in Nat
      /\ \A p \in 1 .. Len(a) + Len(b) : new[p] = IF p <= Len(a) THEN a[p] ELSE b[p - Len(a)]
  BY ConcatProperties
<1> HIDE DEF new
<1>2. ASSUME NEW k \in 1 .. Len(b) PROVE Len(a) + k <= Len(new) /\ new[Len(a) + k] = b[k]
  <2>1. /\ Len(a) + k \in 1 .. Len(a) + Len(b) /\ ~(Len(a) + k <= Len(a))
        /\ (Len(a) + k) - Len(a) = k
    BY <1>1
  <2> QED BY <1>1, <2>1
<1> QED BY <1>1, <1>2 DEF new

\* One round of the loop of FlattenSeq.
LEMMA FlatGrows ==
  ASSUME NEW S, NEW seqs \in Seq(Seq(S)), NEW n \in 1 .. (Len(seqs) - 1),
         NEW flat \in Seq(S), NEW off, FlatUpto(flat, off, seqs, n),
         off[n + 2] = off[n + 1] + Len(seqs[n + 1])
  PROVE  FlatUpto(flat \o seqs[n + 1], off, seqs, n + 1)
<1> DEFINE seg == seqs[n + 1]
           new == flat \o seg
<1>1. seg \in Seq(S) /\ n \in Nat /\ n >= 1 /\ n + 1 \in 1 .. n + 1
  OBVIOUS
<1>2. /\ new \in Seq(S) /\ Len(new) = Len(flat) + Len(seg)
      /\ Len(flat) \in Nat /\ Len(seg) \in Nat
      /\ \A p \in 1 .. Len(flat) : p <= Len(new) /\ new[p] = flat[p]
      /\ \A k \in 1 .. Len(seg) : Len(flat) + k <= Len(new) /\ new[Len(flat) + k] = seg[k]
      /\ \A p \in 1 .. Len(new) : p \in 1 .. Len(flat) \/ p - Len(flat) \in 1 .. Len(seg)
  <2> HIDE DEF seg
  <2> QED BY <1>1, Joined
<1> HIDE DEF new, seg
<1>3. \A i \in 1 .. n + 1 : i \in 1 .. n \/ i = n + 1
  BY <1>1
<1>4. /\ off[1] = 0 /\ Len(flat) = off[n + 1] /\ (n + 1) + 1 = n + 2
      /\ \A i \in 1 .. n : off[i] \in Nat /\ off[i + 1] = off[i] + Len(seqs[i])
  BY <1>1 DEF FlatUpto
<1>5. Len(new) = off[(n + 1) + 1]
  BY <1>2, <1>4 DEF seg
<1>6. \A i \in 1 .. n + 1 : off[i] \in Nat /\ off[i + 1] = off[i] + Len(seqs[i])
  BY <1>2, <1>3, <1>4
<1>7. ASSUME NEW i \in 1 .. n + 1, NEW k \in 1 .. Len(seqs[i])
      PROVE  off[i] + k <= Len(new) /\ new[off[i] + k] = seqs[i][k]
  <2>1. CASE i = n + 1
    BY <1>2, <1>4, <2>1 DEF seg
  <2>2. CASE i \in 1 .. n
    <3>1. off[i] + k <= Len(flat) /\ flat[off[i] + k] = seqs[i][k]
      BY <2>2 DEF FlatUpto
    <3>2. off[i] \in Nat /\ k \in Nat /\ k >= 1
      BY <1>4, <2>2
    <3>3. off[i] + k \in 1 .. Len(flat)
      <4>1. \A a, b, c \in Nat : b >= 1 /\ a + b <= c => a + b \in 1 .. c
        OBVIOUS
      <4> QED BY <1>2, <3>1, <3>2, <4>1, Zenon
    <3> QED BY <1>2, <3>1, <3>3
  <2> QED BY <1>3, <2>1, <2>2
<1>8. ASSUME NEW p \in 1 .. Len(new)
      PROVE  \E i \in 1 .. n + 1 : p - off[i] \in 1 .. Len(seqs[i])
  <2>1. CASE p \in 1 .. Len(flat)
    <3>1. PICK i \in 1 .. n : p - off[i] \in 1 .. Len(seqs[i])
      BY <2>1 DEF FlatUpto
    <3> QED BY <1>1, <3>1
  <2>2. CASE p - Len(flat) \in 1 .. Len(seg)
    BY <1>1, <1>4, <2>2 DEF seg
  <2> QED BY <1>2, <2>1, <2>2
<1>9. FlatUpto(new, off, seqs, n + 1)
  BY <1>4, <1>5, <1>6, <1>7, <1>8 DEF FlatUpto
<1> QED BY <1>9 DEF new, seg

\* The loop of FlattenSeq has a result for as many sequences as there are.
LEMMA FlattenLoops ==
  ASSUME NEW seqs, NEW n \in Nat, n >= 1
  PROVE  \E f : f = [i \in 1 .. n |-> IF i = 1 THEN seqs[i] ELSE f[i - 1] \o seqs[i]]
<1> DEFINE Good == {m \in 1 .. n : \E g : \A i \in 1 .. m :
                      g[i] = IF i = 1 THEN seqs[i] ELSE g[i - 1] \o seqs[i]}
<1>1. 1 \in Good
  <2>1. \A i \in 1 .. 1 : seqs[i] = IF i = 1 THEN seqs[i] ELSE seqs[i - 1] \o seqs[i]
    OBVIOUS
  <2> QED BY <2>1
<1>2. ASSUME NEW m \in 1 .. (n - 1), m \in Good PROVE m + 1 \in Good
  <2>1. PICK g : \A i \in 1 .. m : g[i] = IF i = 1 THEN seqs[i] ELSE g[i - 1] \o seqs[i]
    BY <1>2
  <2> DEFINE h == [i \in 1 .. m + 1 |-> IF i <= m THEN g[i] ELSE g[m] \o seqs[i]]
  <2>2. m \in Nat /\ m >= 1 /\ m + 1 \in 1 .. n
    OBVIOUS
  <2>3. (\A i \in 1 .. m : h[i] = g[i]) /\ h[m + 1] = g[m] \o seqs[m + 1]
    <3>1. /\ \A i \in 1 .. m : i \in 1 .. m + 1 /\ i <= m
          /\ m + 1 \in 1 .. m + 1 /\ ~(m + 1 <= m)
      BY <2>2
    <3> QED BY <3>1
  <2> HIDE DEF h
  <2>4. ASSUME NEW i \in 1 .. m
        PROVE  h[i] = IF i = 1 THEN seqs[i] ELSE h[i - 1] \o seqs[i]
    <3>1. i = 1 \/ i - 1 \in 1 .. m
      BY <2>2
    <3> QED BY <2>1, <2>3, <3>1
  <2>5. h[m + 1] = IF m + 1 = 1 THEN seqs[m + 1] ELSE h[(m + 1) - 1] \o seqs[m + 1]
    <3>1. m + 1 # 1 /\ (m + 1) - 1 = m /\ m \in 1 .. m
      BY <2>2
    <3> QED BY <2>3, <3>1
  <2>6. \A i \in 1 .. m + 1 : i \in 1 .. m \/ i = m + 1
    BY <2>2
  <2> QED BY <2>2, <2>4, <2>5, <2>6
<1>3. n \in Good
  <2> HIDE DEF Good
  <2>1. Good \in SUBSET (1 .. n)
    BY DEF Good
  <2> QED BY <1>1, <1>2, <2>1, CountedUp
<1>4. PICK g : \A i \in 1 .. n : g[i] = IF i = 1 THEN seqs[i] ELSE g[i - 1] \o seqs[i]
  BY <1>3
<1> DEFINE f == [i \in 1 .. n |-> g[i]]
<1>5. f = [i \in 1 .. n |-> IF i = 1 THEN seqs[i] ELSE f[i - 1] \o seqs[i]]
  <2>1. ASSUME NEW i \in 1 .. n
        PROVE  g[i] = IF i = 1 THEN seqs[i] ELSE f[i - 1] \o seqs[i]
    <3>1. i = 1 \/ i - 1 \in 1 .. n
      OBVIOUS
    <3> QED BY <1>4, <3>1
  <2> QED BY <2>1
<1> QED BY <1>5

\* FlattenSeq puts the sequences one after the other.
LEMMA FlattenIs ==
  ASSUME NEW S, NEW seqs \in Seq(Seq(S))
  PROVE  FlattenSeq(seqs) \in Seq(S) /\ \E off : Flattened(FlattenSeq(seqs), off, seqs)
<1> DEFINE n == Len(seqs)
<1>1. n \in Nat /\ \A i \in 1 .. n : seqs[i] \in Seq(S)
  OBVIOUS
<1>2. CASE n = 0
  <2>1. FlattenSeq(seqs) = <<>> /\ seqs = <<>>
    BY <1>2 DEF FlattenSeq
  <2> DEFINE off == [i \in {1} |-> 0]
  <2>2. Flattened(<<>>, off, seqs)
    BY <1>2 DEF Flattened, FlatUpto
  <2> QED BY <2>1, <2>2
<1>3. CASE n # 0
  <2> DEFINE Loop(f) == f = [i \in 1 .. n |-> IF i = 1 THEN seqs[i] ELSE f[i - 1] \o seqs[i]]
             f == CHOOSE f : Loop(f)
             off == [i \in 1 .. n + 1 |-> IF i = 1 THEN 0 ELSE Len(f[i - 1])]
             Good == {m \in 1 .. n : f[m] \in Seq(S) /\ FlatUpto(f[m], off, seqs, m)}
  <2>1. FlattenSeq(seqs) = f[n]
    BY <1>3 DEF FlattenSeq
  <2>2. Loop(f)
    <3>1. \E g : Loop(g)
      <4>1. n \in Nat /\ n >= 1
        BY <1>1, <1>3
      <4> HIDE DEF n
      <4> QED BY <4>1, FlattenLoops
    <3> HIDE DEF Loop
    <3> QED BY <3>1
  <2> HIDE DEF f
  <2>3. f[1] = seqs[1] /\ \A m \in 1 .. n - 1 : f[m + 1] = f[m] \o seqs[m + 1]
    <3>1. \A i \in 1 .. n : f[i] = IF i = 1 THEN seqs[i] ELSE f[i - 1] \o seqs[i]
      BY <2>2, Zenon
    <3>2. 1 \in 1 .. n /\ \A m \in 1 .. n - 1 : m + 1 \in 1 .. n /\ m + 1 # 1 /\ (m + 1) - 1 = m
      BY <1>1, <1>3
    <3> QED BY <3>1, <3>2
  <2>4. /\ off[1] = 0 /\ off[2] = Len(f[1])
        /\ \A m \in 1 .. n - 1 : off[m + 1] = Len(f[m]) /\ off[m + 2] = Len(f[m + 1])
    BY <1>1, <1>3
  <2> HIDE DEF off
  <2>5. 1 \in Good
    <3>1. 1 \in 1 .. n /\ f[1] \in Seq(S) /\ Len(f[1]) \in Nat
      BY <1>1, <1>3, <2>3
    <3>2. FlatUpto(f[1], off, seqs, 1)
      BY <2>3, <2>4, <3>1 DEF FlatUpto
    <3> QED BY <3>1, <3>2
  <2>6. ASSUME NEW m \in 1 .. (n - 1), m \in Good PROVE m + 1 \in Good
    <3>1. f[m] \in Seq(S) /\ FlatUpto(f[m], off, seqs, m)
      BY <2>6
    <3>2. /\ m + 1 \in 1 .. n /\ seqs[m + 1] \in Seq(S)
          /\ f[m + 1] = f[m] \o seqs[m + 1] /\ off[m + 1] = Len(f[m])
      <4>1. m + 1 \in 1 .. n
        BY <1>1
      <4> QED BY <1>1, <2>3, <2>4, <4>1
    <3>3. f[m + 1] \in Seq(S) /\ Len(f[m + 1]) = Len(f[m]) + Len(seqs[m + 1])
      BY <3>1, <3>2, Joined
    <3>4. off[m + 2] = off[m + 1] + Len(seqs[m + 1])
      BY <2>4, <3>2, <3>3
    <3>5. FlatUpto(f[m + 1], off, seqs, m + 1)
      BY <3>1, <3>2, <3>4, FlatGrows DEF n
    <3> QED BY <3>2, <3>3, <3>5
  <2>7. n \in Good
    <3> HIDE DEF Good
    <3>1. Good \in SUBSET (1 .. n) /\ n \in Nat /\ n >= 1
      BY <1>1, <1>3 DEF Good
    <3> HIDE DEF n
    <3> QED BY <2>5, <2>6, <3>1, CountedUp
  <2>8. f[n] \in Seq(S) /\ Flattened(f[n], off, seqs)
    BY <2>7 DEF Flattened
  <2> QED BY <2>1, <2>8
<1> QED BY <1>2, <1>3

\* What comes later in a list of sequences is further on in the flat one.
LEMMA OffsetsGrow ==
  ASSUME NEW S, NEW seqs \in Seq(Seq(S)), NEW flat \in Seq(S), NEW off,
         Flattened(flat, off, seqs), NEW i \in 1 .. Len(seqs), NEW j \in i + 1 .. Len(seqs)
  PROVE  off[i] + Len(seqs[i]) <= off[j]
<1>1. /\ i \in Nat /\ j \in Nat /\ i >= 1 /\ j > i /\ j <= Len(seqs) /\ Len(seqs) \in Nat
      /\ \A m \in 1 .. Len(seqs) : off[m] \in Nat /\ off[m + 1] = off[m] + Len(seqs[m])
      /\ \A m \in 1 .. Len(seqs) : Len(seqs[m]) \in Nat
  <2>1. \A m \in 1 .. Len(seqs) : seqs[m] \in Seq(S)
    OBVIOUS
  <2>2. \A m \in 1 .. Len(seqs) : off[m] \in Nat /\ off[m + 1] = off[m] + Len(seqs[m])
    BY DEF Flattened, FlatUpto
  <2>3. \A m \in 1 .. Len(seqs) : Len(seqs[m]) \in Nat
    BY <2>1
  <2>4. Len(seqs) \in Nat /\ i \in Nat /\ j \in Nat /\ i >= 1 /\ j > i /\ j <= Len(seqs)
    OBVIOUS
  <2> QED BY <2>2, <2>3, <2>4
<1> DEFINE n == j - i
           Good == {m \in 1 .. n : off[i + 1] <= off[i + m]}
<1>2. n \in Nat /\ n >= 1 /\ i + n = j
  BY <1>1
<1>3. 1 \in Good
  <2>1. i + 1 \in 1 .. Len(seqs) /\ 1 \in 1 .. n
    BY <1>1
  <2>2. off[i + 1] <= off[i + 1]
    BY <1>1, <2>1
  <2> QED BY <2>1, <2>2
<1>4. ASSUME NEW m \in 1 .. (n - 1), m \in Good PROVE m + 1 \in Good
  <2> DEFINE q == i + m
  <2>1. /\ m + 1 \in 1 .. n /\ i + 1 \in 1 .. Len(seqs) /\ q \in 1 .. Len(seqs)
        /\ q + 1 \in 1 .. Len(seqs) /\ i + (m + 1) = q + 1
    BY <1>1
  <2>2. off[i + 1] <= off[q]
    BY <1>4
  <2> HIDE DEF q
  <2>3. off[i + 1] \in Nat /\ off[q] \in Nat /\ Len(seqs[q]) \in Nat
        /\ off[q + 1] = off[q] + Len(seqs[q])
    BY <1>1, <2>1
  <2>4. off[i + 1] <= off[q + 1]
    <3>1. \A a, b, c \in Nat : a <= b => a <= b + c
      OBVIOUS
    <3> QED BY <2>2, <2>3, <3>1
  <2> QED BY <2>1, <2>4
<1>5. n \in Good
  <2> HIDE DEF Good, n
  <2>1. Good \in SUBSET (1 .. n)
    BY DEF Good
  <2> QED BY <1>2, <1>3, <1>4, <2>1, CountedUp
<1>6. off[i + 1] <= off[j]
  BY <1>2, <1>5
<1> QED BY <1>1, <1>6

-----------------------------------------------------------------------------
(* The calls and results of a transcript *)

\* The ids of calls are numbers below the next one.
CallsNumbered(ms, next) ==
  \A i \in DOMAIN ms : ms[i].kind = "turn" =>
    \A k \in 1 .. Len(ms[i].calls) : ms[i].calls[k] \in 1 .. next - 1

\* No two calls have the same one.
CallsDistinct(ms) ==
  \A i, j \in DOMAIN ms : ms[i].kind = "turn" /\ ms[j].kind = "turn" =>
    \A k \in 1 .. Len(ms[i].calls), l \in 1 .. Len(ms[j].calls) :
      ms[i].calls[k] = ms[j].calls[l] => i = j /\ k = l

\* A transcript the model may be queried with.
Sendable(ms) ==
  /\ ms \in Seq(Message) /\ AllOwned(ms) /\ SettledBut(ms, 0)
  /\ (\E next \in Nat : CallsNumbered(ms, next)) /\ CallsDistinct(ms)

\* A result is known by the call it answers.
LEMMA KnownIs ==
  ASSUME NEW ms, Sendable(ms), NEW i \in 1 .. Len(ms)
  PROVE  /\ IsKnownResult(ms, i) => ms[i].kind = "result" /\ ResultOwned(ms, i)
         /\ \A t \in 1 .. i - 1 :
              IsTurnWithCalls(ms, t) /\ i - t <= Len(ms[t].calls) /\ CallAnswered(ms, t, i - t)
                => IsKnownResult(ms, i) /\ ms[i].id = ms[t].calls[i - t]
<1>1. ms \in Seq(Message) /\ AllOwned(ms) /\ i \in Nat /\ Len(ms) \in Nat
  BY DEF Sendable
<1>2. ASSUME IsKnownResult(ms, i) PROVE ms[i].kind = "result" /\ ResultOwned(ms, i)
  <2>1. PICK j \in 1 .. (i - 1) : ms[j].kind = "turn" /\ ms[i].id \in ToSet(ms[j].calls)
    BY <1>2 DEF IsKnownResult, KnownCalls
  <2>2. ms[j].calls \in Seq(Nat) /\ j \in DOMAIN ms
    BY <1>1, <2>1, CallsType
  <2>3. PICK k \in 1 .. Len(ms[j].calls) : ms[i].id = ms[j].calls[k]
    <3> DEFINE ids == ms[j].calls
    <3>1. ids \in Seq(Nat) /\ ms[i].id \in {ids[k] : k \in DOMAIN ids}
      BY <2>1, <2>2 DEF ToSet
    <3> HIDE DEF ids
    <3>2. DOMAIN ids = 1 .. Len(ids)
      BY <3>1, LenProperties
    <3>3. \E k \in 1 .. Len(ids) : ms[i].id = ids[k]
      BY <3>1, <3>2, Zenon
    <3> QED BY <3>3 DEF ids
  <2>4. ms[i].id # 0
    BY <2>1, <2>2, <2>3 DEF Sendable, CallsNumbered
  <2> QED BY <1>1, <1>2, <2>4 DEF IsKnownResult, AllOwned
<1>3. ASSUME NEW t \in 1 .. i - 1, IsTurnWithCalls(ms, t), i - t <= Len(ms[t].calls),
             CallAnswered(ms, t, i - t)
      PROVE  IsKnownResult(ms, i) /\ ms[i].id = ms[t].calls[i - t]
  <2>1. ms[t].kind = "turn" /\ ms[t].calls \in Seq(Nat)
    BY <1>1, <1>3, CallsType DEF IsTurnWithCalls
  <2>2. ms[i].kind = "result" /\ ms[i].id = ms[t].calls[i - t]
    <3>1. t + (i - t) = i
      BY <1>1
    <3> QED BY <1>3, <3>1 DEF CallAnswered
  <2>3. i - t \in DOMAIN ms[t].calls
    BY <1>1, <1>3, <2>1
  <2>4. ms[i].id \in ToSet(ms[t].calls)
    BY <2>2, <2>3 DEF ToSet
  <2> QED BY <2>1, <2>2, <2>4 DEF IsKnownResult, KnownCalls
<1> QED BY <1>2, <1>3

\* The call a known result answers.
LEMMA OwnerIs ==
  ASSUME NEW ms, Sendable(ms), NEW i \in 1 .. Len(ms), IsKnownResult(ms, i)
  PROVE  \E t \in 1 .. i - 1 :
           /\ IsTurnWithCalls(ms, t) /\ i - t \in 1 .. Len(ms[t].calls)
           /\ ms[t].calls \in Seq(Nat) /\ ms[i].id = ms[t].calls[i - t]
           /\ \A j \in t + 1 .. i : ms[j].kind = "result" /\ IsKnownResult(ms, j)
<1>1. ms \in Seq(Message) /\ i \in Nat /\ Len(ms) \in Nat
  BY DEF Sendable
<1>2. PICK t \in 1 .. (i - 1) :
        /\ IsTurnWithCalls(ms, t) /\ i - t <= Len(ms[t].calls)
        /\ \A k \in 1 .. (i - t) : CallAnswered(ms, t, k)
  BY KnownIs DEF ResultOwned
<1>3. ms[t].calls \in Seq(Nat) /\ t \in Nat
  BY <1>1, <1>2, CallsType DEF IsTurnWithCalls
<1>4. i - t \in 1 .. Len(ms[t].calls)
  BY <1>1, <1>2, <1>3
<1>5. ASSUME NEW j \in t + 1 .. i PROVE ms[j].kind = "result" /\ IsKnownResult(ms, j)
  <2>1. /\ j \in 1 .. Len(ms) /\ t \in 1 .. j - 1 /\ j - t \in 1 .. (i - t)
        /\ j - t <= Len(ms[t].calls)
    BY <1>1, <1>2, <1>3, <1>4
  <2> QED BY <1>2, <2>1, KnownIs DEF IsKnownResult
<1>6. ms[i].id = ms[t].calls[i - t]
  <2>1. t + (i - t) = i /\ i - t \in 1 .. (i - t)
    BY <1>1, <1>3, <1>4
  <2> QED BY <1>2, <2>1 DEF CallAnswered
<1> QED BY <1>2, <1>3, <1>4, <1>5, <1>6

\* Behind an answered turn its results follow, and no other known one.
LEMMA AnswersAre ==
  ASSUME NEW ms, Sendable(ms), NEW t \in 1 .. Len(ms), IsTurnWithCalls(ms, t),
         TurnAnswered(ms, t)
  PROVE  LET n == Len(ms[t].calls)
         IN  /\ ms[t].calls \in Seq(Nat) /\ n \in Nat /\ n >= 1 /\ t + n <= Len(ms)
             /\ \A k \in 1 .. n : IsKnownResult(ms, t + k) /\ ms[t + k].id = ms[t].calls[k]
             /\ t + n < Len(ms) => ~IsKnownResult(ms, t + n + 1)
<1> DEFINE n == Len(ms[t].calls)
<1>1. ms \in Seq(Message) /\ t \in Nat /\ Len(ms) \in Nat
  BY DEF Sendable
<1>2. ms[t].calls \in Seq(Nat) /\ n \in Nat /\ n >= 1
  <2>1. ms[t].calls \in Seq(Nat) /\ ms[t].calls # <<>>
    BY <1>1, CallsType DEF IsTurnWithCalls
  <2> QED BY <2>1, EmptySeq
<1>3. ASSUME NEW k \in 1 .. n
      PROVE  /\ t + k \in 1 .. Len(ms) /\ ms[t + k].kind = "result"
             /\ IsKnownResult(ms, t + k) /\ ms[t + k].id = ms[t].calls[k]
  <2>1. CallAnswered(ms, t, k)
    BY DEF TurnAnswered
  <2>2. /\ t + k \in 1 .. Len(ms) /\ t \in 1 .. (t + k) - 1 /\ (t + k) - t = k
        /\ ms[t + k].kind = "result"
    <3>1. t + k <= Len(ms) /\ ms[t + k].kind = "result"
      BY <2>1 DEF CallAnswered
    <3>2. k \in Nat /\ k >= 1 /\ t >= 1
      BY <1>2
    <3> QED BY <1>1, <3>1, <3>2
  <2> QED BY <1>2, <2>1, <2>2, KnownIs
<1> HIDE DEF n
<1>4. t + n <= Len(ms)
  <2>1. n \in 1 .. n
    BY <1>2
  <2> QED BY <1>1, <1>2, <1>3, <2>1
<1>5. ASSUME t + n < Len(ms), IsKnownResult(ms, t + n + 1) PROVE FALSE
  <2> DEFINE i == t + n + 1
  <2>1. i \in 1 .. Len(ms) /\ i \in Nat /\ i - t = n + 1
    BY <1>1, <1>2, <1>5
  <2> HIDE DEF i
  <2>2. IsKnownResult(ms, i)
    BY <1>5 DEF i
  <2>3. PICK u \in 1 .. i - 1 :
          /\ IsTurnWithCalls(ms, u) /\ i - u \in 1 .. Len(ms[u].calls)
          /\ \A j \in u + 1 .. i : ms[j].kind = "result"
    BY <2>1, <2>2, OwnerIs
  <2>4. CASE u < t
    <3>1. t \in u + 1 .. i
      BY <1>1, <1>2, <2>1, <2>3, <2>4
    <3> QED BY <2>3, <3>1 DEF IsTurnWithCalls
  <2>5. CASE u = t
    <3>1. n + 1 \in 1 .. n
      BY <2>1, <2>3, <2>5 DEF n
    <3> QED BY <1>2, <3>1
  <2>6. CASE u > t
    <3>1. u - t \in 1 .. n /\ t + (u - t) = u
      BY <1>1, <1>2, <2>1, <2>3, <2>6
    <3>2. ms[u].kind = "result"
      BY <1>3, <3>1
    <3> QED BY <2>3, <3>2 DEF IsTurnWithCalls
  <2>7. u \in Nat
    BY <2>3
  <2> QED BY <1>1, <2>4, <2>5, <2>6, <2>7
<1> QED BY <1>2, <1>3, <1>4, <1>5 DEF n

\* Behind an answered turn ResultRun collects the results of all its calls.
LEMMA RunIs ==
  ASSUME NEW ms, Sendable(ms), NEW t \in 1 .. Len(ms), IsTurnWithCalls(ms, t),
         TurnAnswered(ms, t)
  PROVE  ResultRun(ms, t + 1) = ms[t].calls
<1> DEFINE calls == ms[t].calls
           n     == Len(calls)
           i     == t + 1
           e     == t + n
           Run(j) == /\ \A k \in i .. j : IsKnownResult(ms, k)
                     /\ j = Len(ms) \/ ~IsKnownResult(ms, j + 1)
           last  == CHOOSE j \in i .. Len(ms) : Run(j)
<1>1. /\ calls \in Seq(Nat) /\ n \in Nat /\ n >= 1 /\ e <= Len(ms)
      /\ \A k \in 1 .. n : IsKnownResult(ms, t + k) /\ ms[t + k].id = calls[k]
      /\ e < Len(ms) => ~IsKnownResult(ms, e + 1)
  BY AnswersAre
<1>2. Len(ms) \in Nat /\ t \in Nat /\ t >= 1
  BY DEF Sendable
<1>3. ResultRun(ms, t + 1) = [k \in 1 .. (last - i + 1) |-> ms[i + k - 1].id]
  BY DEF ResultRun
<1> HIDE DEF n, calls
<1>4. e \in i .. Len(ms) /\ Run(e)
  <2>1. e \in i .. Len(ms)
    BY <1>1, <1>2
  <2>2. ASSUME NEW k \in i .. e PROVE IsKnownResult(ms, k)
    <3>1. k - t \in 1 .. n /\ t + (k - t) = k
      BY <1>1, <1>2
    <3> QED BY <1>1, <3>1
  <2>3. e = Len(ms) \/ ~IsKnownResult(ms, e + 1)
    BY <1>1, <1>2
  <2> QED BY <2>1, <2>2, <2>3
<1>5. ASSUME NEW j \in i .. Len(ms), Run(j) PROVE j = e
  <2>1. CASE j < e
    <3>1. j # Len(ms) /\ j + 1 \in i .. e
      BY <1>1, <1>2, <2>1
    <3> QED BY <1>4, <1>5, <3>1
  <2>2. CASE j > e
    <3>1. e < Len(ms) /\ e + 1 \in i .. j
      BY <1>1, <1>2, <2>2
    <3> QED BY <1>1, <1>5, <3>1
  <2> QED BY <1>1, <1>2, <2>1, <2>2
<1>6. last = e
  <2> HIDE DEF Run, e, i
  <2> QED BY <1>4, <1>5
<1>7. last - i + 1 = n /\ \A k \in 1 .. n : i + k - 1 = t + k
  <2>1. e - i + 1 = n /\ \A k \in 1 .. n : i + k - 1 = t + k
    BY <1>1, <1>2
  <2> HIDE DEF last, e, i
  <2> QED BY <1>6, <2>1
<1> HIDE DEF last
<1>8. [k \in 1 .. (last - i + 1) |-> ms[i + k - 1].id] = [k \in 1 .. n |-> calls[k]]
  BY <1>1, <1>7
<1>9. calls = [k \in 1 .. n |-> calls[k]]
  BY <1>1 DEF n
<1> QED BY <1>3, <1>8, <1>9 DEF calls

-----------------------------------------------------------------------------
(* The messages for anthropic *)

\* What a request is made of.
Blocks == [role: {"assistant", "user"}, uses: Seq(Nat), results: Seq(Nat)]

\* What AnthropicMessages makes of each message.
AnthropicParts(ms) ==
  [i \in DOMAIN ms |->
     IF CallsOf(ms[i]) # <<>> THEN <<UseBlocks(ms[i].calls)>>
     ELSE IF ~IsKnownResult(ms, i) THEN <<TextMessage(ms[i])>>
     ELSE ResultMessage(ms, i)]

LEMMA AnthropicFlat ==
  ASSUME NEW ms PROVE AnthropicMessages(ms) = FlattenSeq(AnthropicParts(ms))
BY DEF AnthropicMessages, AnthropicParts

LEMMA BlocksAre ==
  ASSUME NEW calls \in Seq(Nat), NEW m
  PROVE  /\ UseBlocks(calls) \in Blocks /\ UseBlocks(calls).uses = calls
         /\ UseBlocks(calls).results = <<>>
         /\ ResultBlocks(calls) \in Blocks /\ ResultBlocks(calls).results = calls
         /\ ResultBlocks(calls).uses = <<>> /\ ResultBlocks(calls).role = "user"
         /\ TextMessage(m) \in Blocks /\ TextMessage(m).uses = <<>>
         /\ TextMessage(m).results = <<>>
         /\ m.kind \notin {"turn", "malformed"} => TextMessage(m).role = "user"
<1>1. <<>> \in Seq(Nat)
  OBVIOUS
<1> QED BY <1>1 DEF UseBlocks, ResultBlocks, TextMessage, Blocks

\* A turn, a text, or results of the turn in front of them; the first of the
\* results stands for all.
LEMMA AnthropicPart ==
  ASSUME NEW ms, Sendable(ms), NEW i \in 1 .. Len(ms)
  PROVE  LET part == AnthropicParts(ms)[i]
         IN  \/ /\ IsTurnWithCalls(ms, i) /\ ms[i].calls \in Seq(Nat)
                /\ part = <<UseBlocks(ms[i].calls)>>
             \/ part = <<TextMessage(ms[i])>>
             \/ part = <<>>
             \/ /\ i > 1 /\ IsTurnWithCalls(ms, i - 1) /\ ms[i - 1].calls \in Seq(Nat)
                /\ part = <<ResultBlocks(ms[i - 1].calls)>>
<1> DEFINE part == AnthropicParts(ms)[i]
<1>1. ms \in Seq(Message) /\ i \in DOMAIN ms /\ Len(ms) \in Nat /\ i \in Nat
  BY DEF Sendable
<1>2. part = IF CallsOf(ms[i]) # <<>> THEN <<UseBlocks(ms[i].calls)>>
             ELSE IF ~IsKnownResult(ms, i) THEN <<TextMessage(ms[i])>>
             ELSE ResultMessage(ms, i)
  BY <1>1 DEF AnthropicParts
<1> HIDE DEF part
<1>3. CASE CallsOf(ms[i]) # <<>>
  <2>1. IsTurnWithCalls(ms, i)
    BY <1>3 DEF CallsOf, IsTurnWithCalls
  <2> QED BY <1>1, <1>2, <1>3, <2>1, CallsType DEF IsTurnWithCalls, part
<1>4. CASE CallsOf(ms[i]) = <<>> /\ ~IsKnownResult(ms, i)
  BY <1>2, <1>4 DEF part
<1>5. CASE IsKnownResult(ms, i) /\ i > 1 /\ IsKnownResult(ms, i - 1)
  <2>1. CallsOf(ms[i]) = <<>>
    BY <1>5 DEF CallsOf, IsKnownResult
  <2> QED BY <1>2, <1>5, <2>1 DEF ResultMessage, part
<1>6. CASE IsKnownResult(ms, i) /\ ~(i > 1 /\ IsKnownResult(ms, i - 1))
  <2>1. CallsOf(ms[i]) = <<>>
    BY <1>6 DEF CallsOf, IsKnownResult
  <2>2. PICK t \in 1 .. i - 1 :
          /\ IsTurnWithCalls(ms, t) /\ ms[t].calls \in Seq(Nat)
          /\ \A j \in t + 1 .. i : ms[j].kind = "result" /\ IsKnownResult(ms, j)
    BY <1>6, OwnerIs
  <2>3. t = i - 1
    <3>1. t \in Nat /\ t <= i - 1 /\ t >= 1
      BY <1>1
    <3>2. ASSUME t < i - 1 PROVE FALSE
      <4>1. i - 1 \in t + 1 .. i /\ i > 1
        BY <1>1, <3>1, <3>2
      <4> QED BY <1>6, <2>2, <4>1
    <3> QED BY <1>1, <3>1, <3>2
  <2>4. i > 1 /\ t + 1 = i /\ t \in 1 .. Len(ms) /\ i \in t + 1 .. i
    BY <1>1, <2>3
  <2>5. t < Len(ms) /\ ms[t + 1].kind = "result"
    BY <1>1, <2>2, <2>4
  <2>6. TurnAnswered(ms, t)
    <3>1. Settled(ms, t) /\ ~TurnAbandoned(ms, t)
      <4>1. t # 0 /\ t \in DOMAIN ms
        BY <1>1, <2>4
      <4> QED BY <2>2, <2>5, <4>1 DEF Sendable, SettledBut, TurnAbandoned
    <3> QED BY <3>1 DEF Settled
  <2>7. ResultRun(ms, i) = ms[t].calls
    BY <2>2, <2>4, <2>6, RunIs
  <2> QED BY <1>2, <1>6, <2>1, <2>2, <2>3, <2>4, <2>7 DEF ResultMessage, part
<1> QED BY <1>3, <1>4, <1>5, <1>6

\* A turn with calls is followed by all its results, or by the next task.
LEMMA AnthropicNext ==
  ASSUME NEW ms, Sendable(ms), NEW i \in 1 .. Len(ms), IsTurnWithCalls(ms, i)
  PROVE  /\ i + 1 \in 1 .. Len(ms)
         /\ \/ AnthropicParts(ms)[i + 1] = <<ResultBlocks(ms[i].calls)>>
            \/ /\ ms[i + 1].kind = "task"
               /\ AnthropicParts(ms)[i + 1] = <<TextMessage(ms[i + 1])>>
<1>1. ms \in Seq(Message) /\ i \in Nat /\ i \in DOMAIN ms /\ Len(ms) \in Nat /\ i # 0
      /\ DOMAIN ms = 1 .. Len(ms)
  BY DEF Sendable
<1>2. Settled(ms, i)
  BY <1>1 DEF Sendable, SettledBut
<1>3. CASE TurnAbandoned(ms, i)
  <2>1. i + 1 \in 1 .. Len(ms) /\ ms[i + 1].kind = "task"
    BY <1>1, <1>3 DEF TurnAbandoned
  <2>2. CallsOf(ms[i + 1]) = <<>> /\ ~IsKnownResult(ms, i + 1)
    BY <2>1 DEF CallsOf, IsKnownResult
  <2>3. AnthropicParts(ms)[i + 1] = <<TextMessage(ms[i + 1])>>
    BY <1>1, <2>1, <2>2 DEF AnthropicParts
  <2> QED BY <2>1, <2>3
<1>4. CASE TurnAnswered(ms, i)
  <2>1. /\ Len(ms[i].calls) \in Nat /\ Len(ms[i].calls) >= 1
        /\ i + Len(ms[i].calls) <= Len(ms)
        /\ \A k \in 1 .. Len(ms[i].calls) : IsKnownResult(ms, i + k)
    BY <1>4, AnswersAre
  <2>2. i + 1 \in 1 .. Len(ms) /\ 1 \in 1 .. Len(ms[i].calls)
    BY <1>1, <2>1
  <2>3. IsKnownResult(ms, i + 1) /\ (i + 1) - 1 = i
    BY <1>1, <2>1, <2>2
  <2>4. CallsOf(ms[i + 1]) = <<>> /\ ~IsKnownResult(ms, i)
    BY <2>3 DEF CallsOf, IsKnownResult, IsTurnWithCalls
  <2>5. ResultRun(ms, i + 1) = ms[i].calls
    BY <1>4, RunIs
  <2>6. ResultMessage(ms, i + 1) = <<ResultBlocks(ms[i].calls)>>
    BY <2>3, <2>4, <2>5 DEF ResultMessage
  <2>7. AnthropicParts(ms)[i + 1] = <<ResultBlocks(ms[i].calls)>>
    BY <1>1, <2>2, <2>3, <2>4, <2>6 DEF AnthropicParts
  <2> QED BY <2>2, <2>7
<1> QED BY <1>2, <1>3, <1>4 DEF Settled

\* So in a request for anthropic results come right behind their calls, and
\* calls are followed by their results or by a message of the user.
THEOREM AnthropicPaired ==
  ASSUME NEW ms, Sendable(ms)
  PROVE  LET sent == AnthropicMessages(ms)
         IN  \A p \in DOMAIN sent :
               /\ sent[p].results # <<>> => p > 1 /\ sent[p - 1].uses = sent[p].results
               /\ sent[p].uses # <<>> =>
                    /\ p < Len(sent) /\ sent[p + 1].role = "user"
                    /\ sent[p + 1].results \in {sent[p].uses, <<>>}
<1> DEFINE parts == AnthropicParts(ms)
           sent  == AnthropicMessages(ms)
<1>1. ms \in Seq(Message) /\ Len(ms) \in Nat /\ DOMAIN ms = 1 .. Len(ms)
  BY DEF Sendable
<1>2. ASSUME NEW i \in 1 .. Len(ms)
      PROVE  parts[i] = <<>> \/ \E b \in Blocks : parts[i] = <<b>>
  <2>1. <<>> \in Seq(Nat)
    OBVIOUS
  <2>2. TextMessage(ms[i]) \in Blocks /\ \A calls \in Seq(Nat) :
          UseBlocks(calls) \in Blocks /\ ResultBlocks(calls) \in Blocks
    BY <2>1, BlocksAre
  <2> QED BY <2>2, AnthropicPart, Zenon
<1>3. parts \in Seq(Seq(Blocks)) /\ Len(parts) = Len(ms)
  <2>1. \A i \in 1 .. Len(ms) : parts[i] \in Seq(Blocks)
    <3>1. <<>> \in Seq(Blocks) /\ \A b \in Blocks : <<b>> \in Seq(Blocks)
      OBVIOUS
    <3> QED BY <1>2, <3>1, Zenon
  <2>2. parts = [i \in 1 .. Len(ms) |-> parts[i]]
    BY <1>1 DEF AnthropicParts
  <2> HIDE DEF parts
  <2> QED BY <1>1, <2>1, <2>2, IsASeq
<1>4. sent = FlattenSeq(parts)
  BY AnthropicFlat
<1> HIDE DEF parts, sent
<1>5. PICK off : sent \in Seq(Blocks) /\ Flattened(sent, off, parts)
  BY <1>3, <1>4, FlattenIs
<1>6. \A i \in 1 .. Len(ms) : off[i] \in Nat /\ off[i + 1] = off[i] + Len(parts[i])
  BY <1>3, <1>5 DEF Flattened, FlatUpto
<1>7. ASSUME NEW i \in 1 .. Len(ms), NEW b, parts[i] = <<b>>
      PROVE  /\ off[i] + 1 \in 1 .. Len(sent) /\ sent[off[i] + 1] = b
             /\ off[i + 1] = off[i] + 1
  <2>1. Len(parts[i]) = 1 /\ parts[i][1] = b
    BY <1>7
  <2>2. off[i] + 1 <= Len(sent) /\ sent[off[i] + 1] = parts[i][1]
    <3>1. \A k \in 1 .. Len(parts[i]) :
            off[i] + k <= Len(sent) /\ sent[off[i] + k] = parts[i][k]
      BY <1>3, <1>5 DEF Flattened, FlatUpto
    <3>2. 1 \in 1 .. Len(parts[i])
      BY <2>1
    <3> QED BY <3>1, <3>2
  <2>3. off[i] + 1 \in 1 .. Len(sent)
    BY <1>5, <1>6, <2>2
  <2> QED BY <1>6, <2>1, <2>2, <2>3
<1> SUFFICES ASSUME NEW p \in 1 .. Len(sent)
             PROVE  /\ sent[p].results # <<>> => p > 1 /\ sent[p - 1].uses = sent[p].results
                    /\ sent[p].uses # <<>> =>
                         /\ p < Len(sent) /\ sent[p + 1].role = "user"
                         /\ sent[p + 1].results \in {sent[p].uses, <<>>}
  BY <1>5 DEF sent
<1>8. PICK i \in 1 .. Len(ms) : p - off[i] \in 1 .. Len(parts[i])
  BY <1>3, <1>5 DEF Flattened, FlatUpto
<1>9. PICK b \in Blocks : parts[i] = <<b>>
  <2>1. parts[i] # <<>>
    BY <1>8
  <2> QED BY <1>2, <2>1
<1>10. p = off[i] + 1 /\ sent[p] = b /\ off[i] \in Nat
  <2>1. Len(parts[i]) = 1
    BY <1>9
  <2>2. p - off[i] \in 1 .. 1
    BY <1>8, <2>1
  <2>3. p = off[i] + 1
    BY <1>6, <2>2
  <2> QED BY <1>6, <1>7, <1>9, <2>3
<1>11. CASE /\ IsTurnWithCalls(ms, i) /\ ms[i].calls \in Seq(Nat)
            /\ b = UseBlocks(ms[i].calls)
  <2>1. b.uses = ms[i].calls /\ b.results = <<>>
    BY <1>11, BlocksAre
  <2>2. i + 1 \in 1 .. Len(ms)
    BY <1>11, AnthropicNext
  <2>3. PICK c : /\ parts[i + 1] = <<c>> /\ c.role = "user"
                 /\ c.results \in {ms[i].calls, <<>>}
    <3>1. CASE parts[i + 1] = <<ResultBlocks(ms[i].calls)>>
      BY <1>11, <3>1, BlocksAre
    <3>2. CASE ms[i + 1].kind = "task" /\ parts[i + 1] = <<TextMessage(ms[i + 1])>>
      <4>1. TextMessage(ms[i + 1]).role = "user" /\ TextMessage(ms[i + 1]).results = <<>>
        BY <1>11, <3>2, BlocksAre
      <4> QED BY <3>2, <4>1, Zenon
    <3> QED BY <1>11, <3>1, <3>2, AnthropicNext DEF parts
  <2>4. /\ off[i + 1] + 1 \in 1 .. Len(sent) /\ sent[off[i + 1] + 1] = c
        /\ off[i + 1] = off[i] + 1
    BY <1>7, <1>9, <2>2, <2>3
  <2>5. p + 1 = off[i + 1] + 1 /\ p < Len(sent)
    BY <1>5, <1>10, <2>4
  <2> QED BY <1>10, <2>1, <2>3, <2>4, <2>5
<1>12. CASE b = TextMessage(ms[i])
  <2>1. <<>> \in Seq(Nat)
    OBVIOUS
  <2>2. b.uses = <<>> /\ b.results = <<>>
    BY <1>12, <2>1, BlocksAre
  <2> QED BY <1>10, <2>2
<1>13. CASE /\ i > 1 /\ IsTurnWithCalls(ms, i - 1) /\ ms[i - 1].calls \in Seq(Nat)
            /\ b = ResultBlocks(ms[i - 1].calls)
  <2> DEFINE t == i - 1
  <2>1. b.uses = <<>> /\ b.results = ms[t].calls
    BY <1>13, BlocksAre
  <2>2. t \in 1 .. Len(ms) /\ t + 1 = i
    BY <1>1, <1>13
  <2>3. parts[t] = <<UseBlocks(ms[t].calls)>>
    <3>1. CallsOf(ms[t]) # <<>>
      BY <1>13 DEF CallsOf, IsTurnWithCalls
    <3> QED BY <1>1, <2>2, <3>1 DEF parts, AnthropicParts
  <2> DEFINE use == UseBlocks(ms[t].calls)
  <2>4. use.uses = ms[t].calls
    BY <1>13, BlocksAre
  <2> HIDE DEF t, use
  <2>5. /\ off[t] + 1 \in 1 .. Len(sent) /\ sent[off[t] + 1] = use
        /\ off[t + 1] = off[t] + 1
    BY <1>7, <2>2, <2>3 DEF use
  <2>6. off[t] \in Nat
    BY <1>6, <2>2
  <2>7. p > 1 /\ p - 1 = off[t] + 1
    BY <1>10, <2>2, <2>5, <2>6
  <2> QED BY <1>10, <2>1, <2>4, <2>5, <2>7
<1>14. \/ IsTurnWithCalls(ms, i) /\ ms[i].calls \in Seq(Nat) /\ b = UseBlocks(ms[i].calls)
       \/ b = TextMessage(ms[i])
       \/ /\ i > 1 /\ IsTurnWithCalls(ms, i - 1) /\ ms[i - 1].calls \in Seq(Nat)
          /\ b = ResultBlocks(ms[i - 1].calls)
  <2>1. <<b>> # <<>> /\ \A c : <<b>> = <<c>> => b = c
    OBVIOUS
  <2>2. AnthropicParts(ms)[i] = <<b>>
    BY <1>9 DEF parts
  <2> QED BY <2>1, <2>2, AnthropicPart, Zenon
<1> QED BY <1>11, <1>12, <1>13, <1>14

-----------------------------------------------------------------------------
(* The items for the Responses API *)

\* No two known results answer the same call.
LEMMA KnownOnce ==
  ASSUME NEW ms, Sendable(ms), NEW i \in 1 .. Len(ms), NEW j \in 1 .. Len(ms),
         IsKnownResult(ms, i), IsKnownResult(ms, j), ms[i].id = ms[j].id
  PROVE  i = j
<1>1. DOMAIN ms = 1 .. Len(ms) /\ Len(ms) \in Nat
  BY DEF Sendable
<1>2. PICK t \in 1 .. i - 1 :
        /\ IsTurnWithCalls(ms, t) /\ i - t \in 1 .. Len(ms[t].calls)
        /\ ms[i].id = ms[t].calls[i - t]
  BY OwnerIs
<1>3. PICK u \in 1 .. j - 1 :
        /\ IsTurnWithCalls(ms, u) /\ j - u \in 1 .. Len(ms[u].calls)
        /\ ms[j].id = ms[u].calls[j - u]
  BY OwnerIs
<1>4. t \in DOMAIN ms /\ u \in DOMAIN ms /\ t \in Nat /\ u \in Nat /\ i \in Nat /\ j \in Nat
  BY <1>1
<1>5. t = u /\ i - t = j - u
  <2>1. ms[t].kind = "turn" /\ ms[u].kind = "turn" /\ ms[t].calls[i - t] = ms[u].calls[j - u]
    BY <1>2, <1>3 DEF IsTurnWithCalls
  <2>2. CallsDistinct(ms)
    BY DEF Sendable
  <2> QED BY <1>2, <1>3, <1>4, <2>1, <2>2, Zenon DEF CallsDistinct
<1> QED BY <1>4, <1>5

\* What ResponsesItems makes of each message.
ResponsesParts(ms) ==
  [i \in DOMAIN ms |->
     IF CallsOf(ms[i]) # <<>>
     THEN [k \in DOMAIN ms[i].calls |-> UseBlocks(<<ms[i].calls[k]>>)]
     ELSE IF IsKnownResult(ms, i) THEN <<ResultBlocks(<<ms[i].id>>)>>
     ELSE <<TextMessage(ms[i])>>]

LEMMA ResponsesFlat ==
  ASSUME NEW ms PROVE ResponsesItems(ms) = FlattenSeq(ResponsesParts(ms))
BY DEF ResponsesItems, ResponsesParts

\* The calls of a turn, a known result, or a text.
LEMMA ResponsesPart ==
  ASSUME NEW ms, Sendable(ms), NEW i \in 1 .. Len(ms)
  PROVE  LET part == ResponsesParts(ms)[i]
         IN  /\ part \in Seq(Blocks)
             /\ IsTurnWithCalls(ms, i) =>
                  /\ Len(part) = Len(ms[i].calls)
                  /\ \A k \in 1 .. Len(part) :
                       part[k].uses = <<ms[i].calls[k]>> /\ part[k].results = <<>>
             /\ IsKnownResult(ms, i) => Len(part) = 1 /\ part[1].results = <<ms[i].id>>
             /\ \A k \in 1 .. Len(part) :
                  part[k].results # <<>> => IsKnownResult(ms, i) /\ k = 1
<1> DEFINE part == ResponsesParts(ms)[i]
<1>1. /\ ms \in Seq(Message) /\ i \in DOMAIN ms /\ ms[i] \in Message
  BY DEF Sendable
<1>2. part = IF CallsOf(ms[i]) # <<>>
             THEN [k \in DOMAIN ms[i].calls |-> UseBlocks(<<ms[i].calls[k]>>)]
             ELSE IF IsKnownResult(ms, i) THEN <<ResultBlocks(<<ms[i].id>>)>>
             ELSE <<TextMessage(ms[i])>>
  BY <1>1 DEF ResponsesParts
<1> HIDE DEF part
<1>3. CASE CallsOf(ms[i]) # <<>>
  <2> DEFINE calls == ms[i].calls
  <2>1. IsTurnWithCalls(ms, i) /\ ~IsKnownResult(ms, i)
    BY <1>3 DEF CallsOf, IsTurnWithCalls, IsKnownResult
  <2>2. calls \in Seq(Nat) /\ Len(calls) \in Nat /\ DOMAIN calls = 1 .. Len(calls)
    BY <1>1, <2>1, CallsType DEF IsTurnWithCalls
  <2>3. part = [k \in 1 .. Len(calls) |-> UseBlocks(<<calls[k]>>)]
    BY <1>2, <1>3, <2>2
  <2>4. \A k \in 1 .. Len(calls) : calls[k] \in Nat
    BY <2>2
  <2> HIDE DEF calls
  <2>5. \A k \in 1 .. Len(calls) :
          /\ UseBlocks(<<calls[k]>>) \in Blocks /\ UseBlocks(<<calls[k]>>).uses = <<calls[k]>>
          /\ UseBlocks(<<calls[k]>>).results = <<>>
    <3>1. \A k \in 1 .. Len(calls) : <<calls[k]>> \in Seq(Nat)
      BY <2>4
    <3> QED BY <3>1, BlocksAre
  <2>6. part \in Seq(Blocks) /\ Len(part) = Len(calls)
    <3>1. \A k \in 1 .. Len(calls) : UseBlocks(<<calls[k]>>) \in Blocks
      BY <2>5
    <3> DEFINE Use(k) == UseBlocks(<<calls[k]>>)
    <3> HIDE DEF Use
    <3>2. part = [k \in 1 .. Len(calls) |-> Use(k)] /\ \A k \in 1 .. Len(calls) : Use(k) \in Blocks
      BY <2>3, <3>1 DEF Use
    <3> QED BY <2>2, <3>2
  <2>7. \A k \in 1 .. Len(part) : part[k].uses = <<calls[k]>> /\ part[k].results = <<>>
    BY <2>3, <2>5, <2>6
  <2> QED BY <2>1, <2>6, <2>7 DEF part, calls
<1>4. CASE CallsOf(ms[i]) = <<>> /\ IsKnownResult(ms, i)
  <2>1. ~IsTurnWithCalls(ms, i)
    BY <1>4 DEF IsTurnWithCalls, IsKnownResult
  <2>2. ms[i].id \in Nat
    BY <1>1, <1>4 DEF IsKnownResult, Message, HumanKinds, HostKinds
  <2> DEFINE b == ResultBlocks(<<ms[i].id>>)
  <2>3. b \in Blocks /\ b.results = <<ms[i].id>>
    <3>1. <<ms[i].id>> \in Seq(Nat)
      BY <2>2
    <3> QED BY <3>1, BlocksAre
  <2>4. part = <<b>>
    BY <1>2, <1>4
  <2> HIDE DEF b
  <2> QED BY <1>4, <2>1, <2>3, <2>4 DEF part
<1>5. CASE CallsOf(ms[i]) = <<>> /\ ~IsKnownResult(ms, i)
  <2>1. ~IsTurnWithCalls(ms, i)
    BY <1>5 DEF IsTurnWithCalls, CallsOf
  <2> DEFINE b == TextMessage(ms[i])
  <2>2. b \in Blocks /\ b.results = <<>>
    <3>1. <<>> \in Seq(Nat)
      OBVIOUS
    <3> QED BY <3>1, BlocksAre
  <2>3. part = <<b>>
    BY <1>2, <1>5
  <2> HIDE DEF b
  <2> QED BY <1>5, <2>1, <2>2, <2>3 DEF part
<1> QED BY <1>3, <1>4, <1>5

\* So in a request for the Responses API an output follows its call, and comes once.
THEOREM ResponsesPaired ==
  ASSUME NEW ms, Sendable(ms)
  PROVE  LET items == ResponsesItems(ms)
         IN  \A q \in DOMAIN items : items[q].results # <<>> =>
               /\ \E p \in 1 .. (q - 1) : items[p].uses = items[q].results
               /\ \A p \in 1 .. (q - 1) : items[p].results # items[q].results
<1>0. \A i \in 1 .. Len(ms) : IsKnownResult(ms, i) =>
        \E t \in 1 .. i - 1 :
          /\ IsTurnWithCalls(ms, t) /\ i - t \in 1 .. Len(ms[t].calls)
          /\ ms[i].id = ms[t].calls[i - t]
  BY OwnerIs
<1> DEFINE parts == ResponsesParts(ms)
           items == ResponsesItems(ms)
<1>1. ms \in Seq(Message) /\ Len(ms) \in Nat /\ DOMAIN ms = 1 .. Len(ms)
  BY DEF Sendable
<1>2. parts \in Seq(Seq(Blocks)) /\ Len(parts) = Len(ms)
  <2>1. \A i \in 1 .. Len(ms) : parts[i] \in Seq(Blocks)
    BY ResponsesPart
  <2>2. parts = [i \in 1 .. Len(ms) |-> parts[i]]
    BY <1>1 DEF ResponsesParts
  <2> HIDE DEF parts
  <2> QED BY <1>1, <2>1, <2>2, IsASeq
<1>3. items = FlattenSeq(parts)
  BY ResponsesFlat
<1>4. \A i \in 1 .. Len(ms) :
        /\ IsTurnWithCalls(ms, i) =>
             /\ Len(parts[i]) = Len(ms[i].calls)
             /\ \A k \in 1 .. Len(parts[i]) : parts[i][k].uses = <<ms[i].calls[k]>>
        /\ IsKnownResult(ms, i) => Len(parts[i]) = 1 /\ parts[i][1].results = <<ms[i].id>>
        /\ \A k \in 1 .. Len(parts[i]) :
             parts[i][k].results # <<>> => IsKnownResult(ms, i) /\ k = 1
  BY ResponsesPart
<1> HIDE DEF parts, items
<1>5. PICK off : items \in Seq(Blocks) /\ Flattened(items, off, parts)
  BY <1>2, <1>3, FlattenIs
<1>6. \A i \in 1 .. Len(ms) :
        /\ off[i] \in Nat
        /\ \A k \in 1 .. Len(parts[i]) :
             off[i] + k <= Len(items) /\ items[off[i] + k] = parts[i][k]
  BY <1>2, <1>5 DEF Flattened, FlatUpto
\* An item with results is the one item of a known result.
<1>7. ASSUME NEW p \in 1 .. Len(items), items[p].results # <<>>
      PROVE  \E i \in 1 .. Len(ms) : /\ IsKnownResult(ms, i) /\ p = off[i] + 1
                                     /\ items[p].results = <<ms[i].id>>
  <2>1. PICK i \in 1 .. Len(ms) : p - off[i] \in 1 .. Len(parts[i])
    BY <1>2, <1>5 DEF Flattened, FlatUpto
  <2> DEFINE k == p - off[i]
  <2>2. k \in 1 .. Len(parts[i]) /\ off[i] + k = p
    BY <1>6, <2>1
  <2> HIDE DEF k
  <2>3. items[p] = parts[i][k]
    BY <1>6, <2>2
  <2>4. IsKnownResult(ms, i) /\ k = 1
    BY <1>4, <1>7, <2>2, <2>3
  <2> QED BY <1>4, <2>2, <2>3, <2>4
<1> SUFFICES ASSUME NEW q \in 1 .. Len(items), items[q].results # <<>>
             PROVE  /\ \E p \in 1 .. (q - 1) : items[p].uses = items[q].results
                    /\ \A p \in 1 .. (q - 1) : items[p].results # items[q].results
  BY <1>5 DEF items
<1>8. PICK i \in 1 .. Len(ms) : /\ IsKnownResult(ms, i) /\ q = off[i] + 1
                                /\ items[q].results = <<ms[i].id>>
  BY <1>7
<1>9. \E p \in 1 .. (q - 1) : items[p].uses = items[q].results
  <2>1. PICK t \in 1 .. i - 1 :
          /\ IsTurnWithCalls(ms, t) /\ i - t \in 1 .. Len(ms[t].calls)
          /\ ms[i].id = ms[t].calls[i - t]
    BY <1>0, <1>8, Zenon
  <2> DEFINE k == i - t
  <2>2. t \in 1 .. Len(ms) /\ i \in t + 1 .. Len(ms)
    BY <1>1
  <2>3. k \in 1 .. Len(parts[t]) /\ parts[t][k].uses = <<ms[i].id>>
    <3>1. /\ Len(parts[t]) = Len(ms[t].calls)
          /\ \A l \in 1 .. Len(parts[t]) : parts[t][l].uses = <<ms[t].calls[l]>>
      BY <1>4, <2>1, <2>2
    <3> QED BY <2>1, <3>1
  <2> HIDE DEF k
  <2>4. off[t] + k <= Len(items) /\ items[off[t] + k] = parts[t][k]
    BY <1>6, <2>2, <2>3
  <2>5. off[t] + Len(parts[t]) <= off[i]
    BY <1>2, <1>5, <2>2, OffsetsGrow
  <2>6. off[t] + k \in 1 .. (q - 1)
    <3>1. off[t] \in Nat /\ off[i] \in Nat /\ k \in Nat /\ k >= 1 /\ Len(parts[t]) \in Nat
          /\ k <= Len(parts[t])
      <4>1. parts[t] \in Seq(Blocks)
        BY <1>2, <2>2
      <4> QED BY <1>6, <2>2, <2>3, <4>1
    <3>2. \A a, b, c, d \in Nat : a + b <= c /\ d >= 1 /\ d <= b => a + d \in 1 .. (c + 1) - 1
      OBVIOUS
    <3> QED BY <1>8, <2>5, <3>1, <3>2
  <2> QED BY <1>8, <2>3, <2>4, <2>6
<1>10. ASSUME NEW p \in 1 .. (q - 1), items[p].results = items[q].results PROVE FALSE
  <2>1. p \in 1 .. Len(items) /\ items[p].results # <<>> /\ p # q
    BY <1>5, <1>10
  <2>2. PICK j \in 1 .. Len(ms) : /\ IsKnownResult(ms, j) /\ p = off[j] + 1
                                  /\ items[p].results = <<ms[j].id>>
    BY <1>7, <2>1
  <2>3. ms[i].id = ms[j].id
    BY <1>8, <1>10, <2>2
  <2>4. i = j
    BY <1>8, <2>2, <2>3, KnownOnce
  <2> QED BY <1>8, <2>1, <2>2, <2>4
<1> QED BY <1>9, <1>10

-----------------------------------------------------------------------------
(* The ids of calls stay unique *)

\* Every call has an id of its own, below the next one.
CallsInv == CallsNumbered(messages, nextCall) /\ CallsDistinct(messages)

\* Nothing appended is a turn with calls.
NoNewCalls(new, old) ==
  Extends(new, old) /\ \A i \in Added(new, old) : ~IsTurnWithCalls(new, i)

\* The turns of new stand in old, in places of their own.
CallsFrom(new, old) ==
  \E at \in [DOMAIN new -> DOMAIN old] :
    \A i \in DOMAIN new : IsTurnWithCalls(new, i) =>
      /\ old[at[i]] = new[i]
      /\ \A j \in DOMAIN new : IsTurnWithCalls(new, j) /\ at[j] = at[i] => j = i

\* A turn with no calls has none to be named.
LEMMA NamedCalls ==
  ASSUME NEW ms \in Seq(Message), NEW i \in DOMAIN ms, ms[i].kind = "turn",
         NEW k \in 1 .. Len(ms[i].calls)
  PROVE  IsTurnWithCalls(ms, i)
<1>1. ms[i].calls \in Seq(Nat)
  BY CallsType
<1>2. ms[i].calls # <<>>
  <2> DEFINE calls == ms[i].calls
  <2>1. calls \in Seq(Nat) /\ k \in 1 .. Len(calls)
    BY <1>1
  <2> HIDE DEF calls
  <2>2. calls # <<>>
    BY <2>1
  <2> QED BY <2>2 DEF calls
<1> QED BY <1>2 DEF IsTurnWithCalls

\* Then the ids of new are as unique as those of old.
LEMMA CallsFromKeeps ==
  ASSUME NEW new \in Seq(Message), NEW old \in Seq(Message), CallsFrom(new, old)
  PROVE  /\ \A next : CallsNumbered(old, next) => CallsNumbered(new, next)
         /\ CallsDistinct(old) => CallsDistinct(new)
<1>1. PICK at \in [DOMAIN new -> DOMAIN old] :
        \A i \in DOMAIN new : IsTurnWithCalls(new, i) =>
          /\ old[at[i]] = new[i]
          /\ \A j \in DOMAIN new : IsTurnWithCalls(new, j) /\ at[j] = at[i] => j = i
  BY DEF CallsFrom
<1>2. \A i \in DOMAIN new : at[i] \in DOMAIN old
  OBVIOUS
<1>3. ASSUME NEW next, CallsNumbered(old, next) PROVE CallsNumbered(new, next)
  <2> SUFFICES ASSUME NEW i \in DOMAIN new, new[i].kind = "turn",
                      NEW k \in 1 .. Len(new[i].calls)
               PROVE  new[i].calls[k] \in 1 .. next - 1
    BY DEF CallsNumbered
  <2>1. old[at[i]] = new[i] /\ at[i] \in DOMAIN old
    BY <1>1, <1>2, NamedCalls
  <2> QED BY <1>3, <2>1 DEF CallsNumbered
<1>4. ASSUME CallsDistinct(old) PROVE CallsDistinct(new)
  <2> SUFFICES ASSUME NEW i \in DOMAIN new, NEW j \in DOMAIN new,
                      new[i].kind = "turn", new[j].kind = "turn",
                      NEW k \in 1 .. Len(new[i].calls), NEW l \in 1 .. Len(new[j].calls),
                      new[i].calls[k] = new[j].calls[l]
               PROVE  i = j /\ k = l
    BY DEF CallsDistinct
  <2>1. IsTurnWithCalls(new, i) /\ IsTurnWithCalls(new, j)
    BY NamedCalls
  <2>2. /\ old[at[i]] = new[i] /\ at[i] \in DOMAIN old
        /\ old[at[j]] = new[j] /\ at[j] \in DOMAIN old
        /\ at[j] = at[i] => j = i
    BY <1>1, <1>2, <2>1
  <2>3. at[i] = at[j] /\ k = l
    <3> DEFINE p == at[i]
               q == at[j]
    <3>1. /\ p \in DOMAIN old /\ q \in DOMAIN old
          /\ old[p].kind = "turn" /\ old[q].kind = "turn"
          /\ k \in 1 .. Len(old[p].calls) /\ l \in 1 .. Len(old[q].calls)
          /\ old[p].calls[k] = old[q].calls[l]
      BY <2>2
    <3> HIDE DEF p, q
    <3>2. \A k2 \in 1 .. Len(old[p].calls), l2 \in 1 .. Len(old[q].calls) :
            old[p].calls[k2] = old[q].calls[l2] => p = q /\ k2 = l2
      BY <1>4, <3>1, Zenon DEF CallsDistinct
    <3>3. p = q /\ k = l
      BY <3>1, <3>2
    <3> QED BY <3>3 DEF p, q
  <2> QED BY <2>2, <2>3
<1> QED BY <1>3, <1>4

\* What was appended has no calls, so the ids stay as unique as they were.
LEMMA NoNewCallsKeeps ==
  ASSUME NEW new \in Seq(Message), NEW old \in Seq(Message), NoNewCalls(new, old)
  PROVE  /\ \A next : CallsNumbered(old, next) => CallsNumbered(new, next)
         /\ CallsDistinct(old) => CallsDistinct(new)
<1>1. /\ DOMAIN new = 1 .. Len(new) /\ DOMAIN old = 1 .. Len(old)
      /\ Len(new) \in Nat /\ Len(old) \in Nat
  OBVIOUS
<1>2. ASSUME NEW i \in DOMAIN new, new[i].kind = "turn", NEW k \in 1 .. Len(new[i].calls)
      PROVE  i \in DOMAIN old /\ new[i] = old[i]
  <2>1. IsTurnWithCalls(new, i)
    BY <1>2, NamedCalls
  <2>2. i \in 1 .. Len(old)
    BY <1>1, <2>1 DEF NoNewCalls, Added
  <2> QED BY <1>1, <2>2 DEF NoNewCalls, Extends
<1>3. ASSUME NEW next, CallsNumbered(old, next) PROVE CallsNumbered(new, next)
  <2> SUFFICES ASSUME NEW i \in DOMAIN new, new[i].kind = "turn",
                      NEW k \in 1 .. Len(new[i].calls)
               PROVE  new[i].calls[k] \in 1 .. next - 1
    BY DEF CallsNumbered
  <2>1. i \in DOMAIN old /\ new[i] = old[i]
    BY <1>2
  <2> QED BY <1>3, <2>1 DEF CallsNumbered
<1>4. ASSUME CallsDistinct(old) PROVE CallsDistinct(new)
  <2> SUFFICES ASSUME NEW i \in DOMAIN new, NEW j \in DOMAIN new,
                      new[i].kind = "turn", new[j].kind = "turn",
                      NEW k \in 1 .. Len(new[i].calls), NEW l \in 1 .. Len(new[j].calls),
                      new[i].calls[k] = new[j].calls[l]
               PROVE  i = j /\ k = l
    BY DEF CallsDistinct
  <2>1. /\ i \in DOMAIN old /\ new[i] = old[i]
        /\ j \in DOMAIN old /\ new[j] = old[j]
    BY <1>2
  <2>2. /\ old[i].kind = "turn" /\ old[j].kind = "turn"
        /\ k \in 1 .. Len(old[i].calls) /\ l \in 1 .. Len(old[j].calls)
        /\ old[i].calls[k] = old[j].calls[l]
    BY <2>1
  <2>3. \A k2 \in 1 .. Len(old[i].calls), l2 \in 1 .. Len(old[j].calls) :
          old[i].calls[k2] = old[j].calls[l2] => i = j /\ k2 = l2
    BY <1>4, <2>1, <2>2, Zenon DEF CallsDistinct
  <2> QED BY <2>2, <2>3
<1> QED BY <1>3, <1>4

\* A compaction drops turns and moves the others together.
LEMMA CompactedCalls ==
  ASSUME NEW ms \in Seq(Message), CompactFirst(ms),
         FindCompactBoundary(ms, KeepRecentTurns) # 0
  PROVE  LET new == RewriteForCompaction(ms, KeepRecentTurns)
         IN  new \in Seq(Message) /\ new # <<>> /\ CallsFrom(new, ms)
<1> DEFINE new  == RewriteForCompaction(ms, KeepRecentTurns)
           b    == FindCompactBoundary(ms, KeepRecentTurns)
           last == Latest(Where(ms, isState))
<1>1. /\ new \in Seq(Message) /\ b \in 2 .. Len(ms) /\ new[1] = Plain("compact")
      /\ \/ SameTail(new, 2, ms, b)
         \/ SameTail(new, 3, ms, b) /\ last \in 1 .. (b - 1) /\ isState(ms[last])
            /\ new[2] = ms[last]
  BY CompactedIs
<1> HIDE DEF new, b, last
<1>2. PICK n \in {2, 3} :
        /\ SameTail(new, n, ms, b)
        /\ n = 3 => last \in 1 .. (b - 1) /\ isState(ms[last]) /\ new[2] = ms[last]
  BY <1>1
<1>3. /\ DOMAIN new = 1 .. Len(new) /\ DOMAIN ms = 1 .. Len(ms) /\ b \in Nat /\ b >= 2
      /\ Len(ms) \in Nat /\ Len(new) \in Nat /\ n \in 1 .. Len(new)
      /\ Len(new) - n = Len(ms) - b
      /\ \A i \in n .. Len(new) : new[i] = ms[i - n + b]
  BY <1>1, <1>2 DEF SameTail
<1> DEFINE at == [i \in DOMAIN new |-> IF i >= n THEN i - n + b ELSE 1]
<1>4. ASSUME NEW i \in DOMAIN new, IsTurnWithCalls(new, i) PROVE i >= n
  <2>1. ~IsTurnWithCalls(new, 1)
    BY <1>1 DEF Plain, IsTurnWithCalls
  <2>2. n = 3 => ~IsTurnWithCalls(new, 2)
    BY <1>2 DEF isState, messageKind, IsTurnWithCalls
  <2> QED BY <1>3, <1>4, <2>1, <2>2
<1>5. at \in [DOMAIN new -> DOMAIN ms] /\ \A i \in DOMAIN new : i >= n => at[i] = i - n + b
  BY <1>3
<1> HIDE DEF at
<1>6. \A i \in DOMAIN new : IsTurnWithCalls(new, i) =>
        /\ ms[at[i]] = new[i]
        /\ \A j \in DOMAIN new : IsTurnWithCalls(new, j) /\ at[j] = at[i] => j = i
  <2>1. \A i, j \in Nat : i - n + b = j - n + b => i = j
    BY <1>3
  <2>2. \A i \in DOMAIN new : i \in Nat /\ (i >= n => i \in n .. Len(new))
    BY <1>3
  <2> QED BY <1>3, <1>4, <1>5, <2>1, <2>2
<1>7. CallsFrom(new, ms)
  BY <1>5, <1>6 DEF CallsFrom
<1>8. new # <<>>
  BY <1>3
<1> QED BY <1>1, <1>7, <1>8 DEF new

\* A new turn takes the next ids.
LEMMA CallsGrow ==
  ASSUME NEW ms \in Seq(Message), NEW next \in Nat \ {0}, NEW n \in Nat, NEW ids,
         ids = <<>> \/ ids = [k \in 1 .. n |-> next + k - 1],
         CallsNumbered(ms, next), CallsDistinct(ms)
  PROVE  LET new == Append(ms, Turn(ids))
         IN  CallsNumbered(new, next + Len(ids)) /\ CallsDistinct(new)
<1> DEFINE new == Append(ms, Turn(ids))
<1>1. ids \in Seq(Nat) /\ (ids = <<>> \/ Len(ids) = n)
  <2> SUFFICES ASSUME ids = [k \in 1 .. n |-> next + k - 1]
               PROVE  ids \in Seq(Nat) /\ Len(ids) = n
    BY EmptySeq
  <2>1. \A k \in 1 .. n : next + k - 1 \in Nat
    OBVIOUS
  <2>2. ids \in [1 .. n -> Nat]
    BY <2>1
  <2>3. ids \in Seq(Nat) /\ DOMAIN ids = 1 .. n
    BY <2>2, SeqDef
  <2> QED BY <2>3, LenProperties
<1>2. Turn(ids) \in Message /\ Turn(ids).kind = "turn" /\ Turn(ids).calls = ids
  BY <1>1 DEF Turn, Message
<1>3. Len(ids) \in Nat /\ \A k \in 1 .. Len(ids) : ids[k] = next + k - 1
  BY <1>1
<1> HIDE DEF Turn
<1>4. /\ new \in Seq(Message) /\ DOMAIN new = 1 .. Len(ms) + 1 /\ DOMAIN ms = 1 .. Len(ms)
      /\ Len(ms) \in Nat /\ \A i \in 1 .. Len(ms) : new[i] = ms[i]
      /\ new[Len(ms) + 1] = Turn(ids)
  BY <1>2, AppendProperties
<1> HIDE DEF new
<1> DEFINE t == Len(ms) + 1
<1>5. \A i \in DOMAIN new : i \in DOMAIN ms \/ i = t
  BY <1>4
<1>6. new[t].kind = "turn" /\ new[t].calls = ids
  BY <1>2, <1>4
<1> HIDE DEF t
<1>7. \A i \in DOMAIN ms : new[i] = ms[i]
  BY <1>4
<1>8. ASSUME NEW i \in DOMAIN ms, ms[i].kind = "turn", NEW k \in 1 .. Len(ms[i].calls)
      PROVE  ms[i].calls[k] \in 1 .. next - 1
  BY <1>8 DEF CallsNumbered
<1>9. CallsNumbered(new, next + Len(ids))
  <2> SUFFICES ASSUME NEW i \in DOMAIN new, new[i].kind = "turn",
                      NEW k \in 1 .. Len(new[i].calls)
               PROVE  new[i].calls[k] \in 1 .. (next + Len(ids)) - 1
    BY DEF CallsNumbered
  <2>1. CASE i \in DOMAIN ms
    <3>1. new[i].calls[k] \in 1 .. next - 1
      BY <1>7, <1>8, <2>1
    <3> QED BY <1>3, <3>1
  <2>2. CASE i = t
    <3>1. k \in 1 .. Len(ids) /\ new[i].calls[k] = next + k - 1
      BY <1>3, <1>6, <2>2
    <3> QED BY <1>3, <3>1
  <2> QED BY <1>5, <2>1, <2>2
<1>10. CallsDistinct(new)
  <2> SUFFICES ASSUME NEW i \in DOMAIN new, NEW j \in DOMAIN new,
                      new[i].kind = "turn", new[j].kind = "turn",
                      NEW k \in 1 .. Len(new[i].calls), NEW l \in 1 .. Len(new[j].calls),
                      new[i].calls[k] = new[j].calls[l]
               PROVE  i = j /\ k = l
    BY DEF CallsDistinct
  <2>1. CASE i \in DOMAIN ms /\ j \in DOMAIN ms
    <3>1. /\ ms[i].kind = "turn" /\ ms[j].kind = "turn"
          /\ k \in 1 .. Len(ms[i].calls) /\ l \in 1 .. Len(ms[j].calls)
          /\ ms[i].calls[k] = ms[j].calls[l]
      BY <1>7, <2>1
    <3>2. \A k2 \in 1 .. Len(ms[i].calls), l2 \in 1 .. Len(ms[j].calls) :
            ms[i].calls[k2] = ms[j].calls[l2] => i = j /\ k2 = l2
      BY <2>1, <3>1, Zenon DEF CallsDistinct
    <3> QED BY <3>1, <3>2
  <2>2. CASE i \in DOMAIN ms /\ j = t
    <3>1. new[i].calls[k] \in 1 .. next - 1
      BY <1>7, <1>8, <2>2
    <3>2. l \in 1 .. Len(ids) /\ new[j].calls[l] = next + l - 1
      BY <1>3, <1>6, <2>2
    <3> QED BY <1>3, <3>1, <3>2
  <2>3. CASE i = t /\ j \in DOMAIN ms
    <3>1. new[j].calls[l] \in 1 .. next - 1
      BY <1>7, <1>8, <2>3
    <3>2. k \in 1 .. Len(ids) /\ new[i].calls[k] = next + k - 1
      BY <1>3, <1>6, <2>3
    <3> QED BY <1>3, <3>1, <3>2
  <2>4. CASE i = t /\ j = t
    <3>1. /\ k \in 1 .. Len(ids) /\ new[i].calls[k] = next + k - 1
          /\ l \in 1 .. Len(ids) /\ new[j].calls[l] = next + l - 1
      BY <1>3, <1>6, <2>4
    <3>2. next + k - 1 = next + l - 1
      BY <3>1
    <3> QED BY <2>4, <3>1, <3>2
  <2> QED BY <1>5, <2>1, <2>2, <2>3, <2>4
<1> QED BY <1>9, <1>10 DEF new

-----------------------------------------------------------------------------
(* Steps that take no calls from the model *)

\* More and more appended, and no calls in any of it.
LEMMA NoNewCallsTwice ==
  ASSUME NEW s \in Seq(Message), NEW t \in Seq(Message), NEW u \in Seq(Message),
         NoNewCalls(t, s), NoNewCalls(u, t)
  PROVE  NoNewCalls(u, s)
<1>1. Len(s) \in Nat /\ Len(t) \in Nat /\ Len(u) \in Nat
  OBVIOUS
<1>2. Extends(u, s)
  BY ExtendsTwice DEF NoNewCalls
<1>3. ASSUME NEW i \in Added(u, s) PROVE ~IsTurnWithCalls(u, i)
  <2>1. CASE i \in 1 .. Len(t)
    <3>1. i \in Added(t, s) /\ u[i] = t[i]
      BY <1>1, <2>1 DEF NoNewCalls, Extends, Added
    <3> QED BY <3>1 DEF NoNewCalls, IsTurnWithCalls
  <2>2. CASE i \notin 1 .. Len(t)
    <3>1. i \in Added(u, t)
      BY <1>1, <2>2 DEF Added
    <3> QED BY <3>1 DEF NoNewCalls
  <2> QED BY <2>1, <2>2
<1> QED BY <1>2, <1>3 DEF NoNewCalls

\* Results are no turns.
LEMMA ResultsAppended ==
  ASSUME NEW old \in Seq(Message), NEW more \in Seq(Message),
         \A k \in 1 .. Len(more) : more[k].kind = "result"
  PROVE  old \o more \in Seq(Message) /\ NoNewCalls(old \o more, old)
<1> DEFINE new == old \o more
<1>1. /\ new \in Seq(Message) /\ Len(new) = Len(old) + Len(more)
      /\ Len(old) \in Nat /\ Len(more) \in Nat
      /\ \A i \in 1 .. Len(old) + Len(more) :
           new[i] = IF i <= Len(old) THEN old[i] ELSE more[i - Len(old)]
  BY ConcatProperties
<1> HIDE DEF new
<1>2. Extends(new, old)
  BY <1>1 DEF Extends
<1>3. ASSUME NEW i \in Added(new, old) PROVE ~IsTurnWithCalls(new, i)
  <2>1. new[i] = more[i - Len(old)] /\ i - Len(old) \in 1 .. Len(more)
    BY <1>1 DEF Added
  <2> QED BY <2>1 DEF IsTurnWithCalls
<1> QED BY <1>1, <1>2, <1>3 DEF NoNewCalls, new

\* What a step that takes no calls from the model does to the history.
Callless ==
  /\ nextCall' = nextCall
  /\ \/ NoNewCalls(messages', messages)
     \/ CanCompact /\ NoNewCalls(messages', Compacted)

\* Then the ids stay unique.
LEMMA CalllessKeeps ==
  ASSUME AgentInv, AgentInv', CallsInv, Callless
  PROVE  CallsInv'
<1>1. /\ messages \in Seq(Message) /\ messages' \in Seq(Message) /\ CompactFirst(messages)
      /\ CallsNumbered(messages, nextCall) /\ CallsDistinct(messages)
  BY DEF AgentInv, AgentTypeOK, TranscriptInv, CallsInv
<1>2. CASE NoNewCalls(messages', messages)
  BY <1>1, <1>2, NoNewCallsKeeps DEF Callless, CallsInv
<1>3. CASE CanCompact /\ NoNewCalls(messages', Compacted)
  <2>1. Compacted \in Seq(Message) /\ CallsFrom(Compacted, messages)
    BY <1>1, <1>3, CompactedCalls DEF CanCompact, Compacted
  <2>2. CallsNumbered(Compacted, nextCall) /\ CallsDistinct(Compacted)
    BY <1>1, <2>1, CallsFromKeeps
  <2> QED BY <1>1, <1>3, <2>1, <2>2, NoNewCallsKeeps DEF Callless, CallsInv
<1> QED BY <1>2, <1>3 DEF Callless

\* The messages agent.go appends on its own name no calls.
LEMMA SaidCallless ==
  ASSUME AgentInv, nextCall' = nextCall, NEW m, NEW m2, Harmless(m), Harmless(m2),
         \/ messages' = messages
         \/ messages' = messages \o <<m>>
         \/ messages' = messages \o <<m, m2>>
  PROVE  Callless
<1>1. messages \in Seq(Message)
  BY DEF AgentInv, AgentTypeOK
<1>2. Quiet(messages', messages)
  BY <1>1, SayOne, SayTwo, QuietSame
<1> QED BY <1>2 DEF Quiet, NoNewCalls, Callless

\* A rewritten history, with nothing new in it.
LEMMA RewriteCallless ==
  ASSUME AgentInv, RewriteMessages PROVE Callless
<1>1. CanCompact /\ messages' = Compacted /\ nextCall' = nextCall
  BY DEF RewriteMessages
<1>2. Compacted \in Seq(Message)
  BY <1>1, CompactedCalls DEF AgentInv, AgentTypeOK, TranscriptInv, CanCompact, Compacted
<1>3. NoNewCalls(messages', Compacted)
  BY <1>1, <1>2, QuietSame DEF Quiet, NoNewCalls
<1> QED BY <1>1, <1>3 DEF Callless

\* The steps in which the human, the model or the host says something, or
\* nothing at all.
LEMMA SayingSteps ==
  ASSUME AgentInv,
         \/ \E m \in Modes : StartTask(m)
         \/ Resume \/ AgentWaits \/ AgentQueryFails \/ AgentProtocolFailure \/ AgentClarify
         \/ \E d \in DoneTurns : AgentDone(d)
  PROVE  Callless
<1>1. /\ Harmless(Turn(<<>>)) /\ Harmless(Malformed) /\ Harmless(Plain("task"))
      /\ Harmless(Plain("reply")) /\ Harmless(Plain("guidance")) /\ Harmless(Plain("correction"))
  BY HarmlessMessages
<1> USE DEF Say, Silently, agentVars
<1>2. CASE Resume \/ AgentWaits \/ AgentQueryFails
  BY <1>1, <1>2, SaidCallless DEF Resume, AgentWaits, AgentQueryFails
<1>3. CASE \E m \in Modes : StartTask(m)
  BY <1>1, <1>3, SaidCallless DEF StartTask
<1>4. CASE AgentProtocolFailure
  BY <1>1, <1>4, SaidCallless DEF AgentProtocolFailure
<1>5. CASE AgentClarify
  BY <1>1, <1>5, SaidCallless DEF AgentClarify
<1>6. CASE \E d \in DoneTurns : AgentDone(d)
  BY <1>1, <1>6, SaidCallless DEF AgentDone
<1> QED BY <1>2, <1>3, <1>4, <1>5, <1>6

\* The steps that compact, or may.
LEMMA CompactingSteps ==
  ASSUME AgentInv, CompactCommand \/ AgentBackstopFails \/ AgentFinal
  PROVE  Callless
<1>1. Harmless(Turn(<<>>)) /\ Harmless(Malformed)
  BY HarmlessMessages
<1>2. CASE RewriteMessages
  BY <1>2, RewriteCallless
<1>3. CASE ~RewriteMessages
  <2>1. /\ nextCall' = nextCall
        /\ \/ messages' = messages
           \/ messages' = messages \o <<Turn(<<>>)>>
           \/ messages' = messages \o <<Malformed>>
    BY <1>3 DEF CompactCommand, AgentBackstopFails, AgentFinal, Say, Silently, agentVars
  <2> QED BY <1>1, <2>1, SaidCallless
<1> QED BY <1>2, <1>3

\* A query is told the directory and the resources.
LEMMA QueryingSteps ==
  ASSUME AgentInv, AgentAttempt \/ AgentBackstopRetries
  PROVE  Callless
<1>1. messages \in Seq(Message) /\ cwd \in Cwds /\ commandsUsed \in Nat /\ modelTurns \in Nat
  BY DEF AgentInv, AgentTypeOK, TypeOK
<1>2. CASE AgentAttempt
  <2>1. messages' = Prepared(messages, cwd) /\ nextCall' = nextCall
    BY <1>2 DEF AgentAttempt
  <2>2. Quiet(messages', messages)
    BY <1>1, <2>1, PreparedIs
  <2> QED BY <2>1, <2>2 DEF Quiet, NoNewCalls, Callless
<1>3. CASE AgentBackstopRetries
  <2>1. /\ pc = "compact" /\ CanCompact /\ nextCall' = nextCall
        /\ messages' = Prepared(Compacted, RestoredCwd(Compacted))
    BY <1>3 DEF AgentBackstopRetries, BackstopRetries
  <2>2. Compacted \in Seq(Message) /\ RestoredCwd(Compacted) = cwd
    BY <2>1, CompactedInv DEF Acting
  <2>3. Quiet(messages', Compacted)
    BY <1>1, <2>1, <2>2, PreparedIs
  <2> QED BY <2>1, <2>3 DEF Quiet, NoNewCalls, Callless
<1> QED BY <1>2, <1>3

\* A denied turn: the skips of its calls, or the reply.
LEMMA RejectCallless ==
  ASSUME AgentInv, AgentActRejected PROVE Callless
<1> DEFINE n     == batch + skipped
           skips == SkippedResults(1, n, "denied")
<1>1. /\ pc \in Acting /\ nextCall' = nextCall
      /\ messages' = messages \o (IF Calls = <<>> THEN <<Plain("reply")>> ELSE skips)
  BY DEF AgentActRejected, ActRejected, Say, Acting
<1>2. CASE Calls = <<>>
  <2>1. messages' = messages \o <<Plain("reply")>> /\ Harmless(Plain("reply"))
    BY <1>1, <1>2, HarmlessMessages
  <2> QED BY <1>1, <2>1, SaidCallless
<1>3. CASE Calls # <<>>
  <2>1. /\ messages \in Seq(Message) /\ Calls \in Seq(Nat) /\ n \in Nat /\ Len(Calls) = n
        /\ 1 \in Nat \ {0} /\ 1 <= n + 1 /\ n <= Len(Calls) /\ "denied" \in Outcomes
    BY <1>1, <1>3, BatchFacts DEF Outcomes
  <2> HIDE DEF n
  <2>2. AreSkips(skips, 1, n, "denied")
    BY <2>1, SkippedIs
  <2>3. skips \in Seq(Message) /\ \A k \in 1 .. Len(skips) : skips[k].kind = "result"
    BY <2>2 DEF AreSkips
  <2>4. messages' = messages \o skips
    BY <1>1, <1>3
  <2> HIDE DEF skips
  <2>5. NoNewCalls(messages', messages)
    BY <2>1, <2>3, <2>4, ResultsAppended
  <2> QED BY <1>1, <2>5 DEF Callless
<1> QED BY <1>2, <1>3

\* A command that has run: its result, and the skips of a failure.
LEMMA ExecuteCallless ==
  ASSUME AgentInv, NEW ok \in BOOLEAN, NEW snapshot, NEW dir, AgentExecute(ok, snapshot, dir)
  PROVE  Callless
<1>1. /\ pc = "execute" /\ messages' = messages \o CommandResults(ok)
      /\ nextCall' = nextCall /\ messages \in Seq(Message)
  BY DEF AgentExecute, ExecuteCommand, AgentInv, AgentTypeOK
<1> DEFINE more == CommandResults(ok)
<1>2. more \in Seq(Message) /\ \A k \in 1 .. Len(more) : more[k].kind = "result"
  BY <1>1, CommandResultsIs
<1> HIDE DEF more
<1>3. messages' = messages \o more
  BY <1>1 DEF more
<1>4. NoNewCalls(messages', messages)
  BY <1>1, <1>2, <1>3, ResultsAppended
<1> QED BY <1>1, <1>4 DEF Callless

\* The end of a batch: skips, the directory, and at the limit the resources
\* and the request for the summary.
LEMMA FinishCallless ==
  ASSUME AgentInv, AgentFinishAct PROVE Callless
<1> DEFINE n     == batch + skipped
           skips == SkippedResults(batch + 1, n, "skippedMax")
           done  == messages \o skips
           ended == appendStateMessageIfNeeded(done, cwd)
           m     == ResourceNow(commandsUsed + executed, modelTurns)
           told  == appendResourceStateMessage(ended, m)
           last  == Append(told, Plain("stepLimit"))
<1>1. pc = "finish" /\ messages' = AfterBatch("skippedMax") /\ nextCall' = nextCall
  BY DEF AgentFinishAct, FinishAct
<1>2. /\ messages \in Seq(Message) /\ Calls \in Seq(Nat)
      /\ batch \in Nat /\ skipped \in Nat /\ executed \in Nat
      /\ Calls # <<>> => Len(Calls) = n
      /\ cwd \in Cwds /\ commandsUsed \in Nat /\ modelTurns \in Nat
  BY <1>1, BatchFacts DEF Acting, AgentInv, AgentTypeOK, TypeOK
<1>3. messages' = IF BudgetSpent THEN last ELSE ended
  BY <1>1 DEF AfterBatch
<1>4. skips \in Seq(Message) /\ \A k \in 1 .. Len(skips) : skips[k].kind = "result"
  <2> DEFINE i == batch + 1
  <2>1. /\ i \in Nat \ {0} /\ n \in Nat /\ i <= n + 1 /\ "skippedMax" \in Outcomes
        /\ Calls # <<>> => n <= Len(Calls)
    BY <1>2 DEF Outcomes
  <2> HIDE DEF i, n
  <2>2. AreSkips(SkippedResults(i, n, "skippedMax"), i, n, "skippedMax")
    BY <1>2, <2>1, SkippedIs
  <2> QED BY <2>2 DEF i, AreSkips
<1> HIDE DEF skips
<1>5. done \in Seq(Message) /\ NoNewCalls(done, messages)
  BY <1>2, <1>4, ResultsAppended
<1> HIDE DEF done
<1>6. ended \in Seq(Message) /\ NoNewCalls(ended, done)
  <2>1. /\ ended \in Seq(Message) /\ Extends(ended, done)
        /\ \A i \in Added(ended, done) : ended[i] = State(cwd)
    BY <1>2, <1>5, StateAppended
  <2>2. State(cwd).kind = "state"
    BY DEF State
  <2> HIDE DEF ended
  <2> QED BY <2>1, <2>2 DEF NoNewCalls, IsTurnWithCalls
<1> HIDE DEF ended
<1>7. m \in Message /\ m.kind = "resource"
  <2>1. commandsUsed + executed \in Nat
    BY <1>2
  <2>2. commandBudgetPressure(commandsUsed + executed) \in Pressures
    BY <2>1, PressureType
  <2> QED BY <1>2, <2>1, <2>2 DEF ResourceNow, Resource, Message, Pressures
<1> HIDE DEF m
<1>8. told \in Seq(Message) /\ NoNewCalls(told, ended)
  <2>1. /\ told \in Seq(Message) /\ Extends(told, ended)
        /\ \A i \in Added(told, ended) : told[i] = m
    BY <1>6, <1>7, ResourceAppended
  <2> HIDE DEF told
  <2> QED BY <1>7, <2>1 DEF NoNewCalls, IsTurnWithCalls
<1> HIDE DEF told
<1>9. last \in Seq(Message) /\ NoNewCalls(last, told)
  <2>1. Harmless(Plain("stepLimit"))
    BY HarmlessMessages
  <2>2. last = told \o <<Plain("stepLimit")>>
    BY <1>8, <2>1, AppendIsConcat DEF Harmless
  <2> HIDE DEF last
  <2> QED BY <1>8, <2>1, <2>2, SayOne DEF Quiet, NoNewCalls
<1> HIDE DEF last
<1>10. NoNewCalls(ended, messages)
  BY <1>2, <1>5, <1>6, NoNewCallsTwice
<1>11. NoNewCalls(told, messages)
  BY <1>2, <1>6, <1>8, <1>10, NoNewCallsTwice
<1>12. NoNewCalls(last, messages)
  BY <1>2, <1>8, <1>9, <1>11, NoNewCallsTwice
<1> QED BY <1>1, <1>3, <1>10, <1>12 DEF Callless

-----------------------------------------------------------------------------
(* Every request is paired *)

\* A turn of the model takes the ids that come next.
LEMMA ActTurnCalls ==
  ASSUME AgentInv, CallsInv, NEW n \in 1 .. MaxBatch, AgentActTurn(n)
  PROVE  CallsInv'
<1> DEFINE ids == IF actProtocol = "tool-calls"
                  THEN [k \in 1 .. n |-> nextCall + k - 1] ELSE <<>>
<1>1. /\ messages' = Append(messages, Turn(ids)) /\ nextCall' = nextCall + Len(ids)
      /\ messages \in Seq(Message) /\ nextCall \in Nat \ {0} /\ n \in Nat
      /\ CallsNumbered(messages, nextCall) /\ CallsDistinct(messages)
  BY DEF AgentActTurn, AgentInv, AgentTypeOK, CallsInv
<1>2. ids = <<>> \/ ids = [k \in 1 .. n |-> nextCall + k - 1]
  OBVIOUS
<1> HIDE DEF ids
<1> QED BY <1>1, <1>2, CallsGrow DEF CallsInv

\* Each step leaves the ids of the calls unique.
LEMMA CallsStep == AgentInv /\ AgentInv' /\ CallsInv /\ [AgentNext]_vars => CallsInv'
<1> SUFFICES ASSUME AgentInv, AgentInv', CallsInv, [AgentNext]_vars PROVE CallsInv'
  OBVIOUS
<1>1. CASE UNCHANGED vars
  BY <1>1 DEF vars, agentVars, CallsInv
<1>2. CASE \/ \E m \in Modes : StartTask(m)
           \/ Resume \/ AgentWaits \/ AgentQueryFails \/ AgentProtocolFailure \/ AgentClarify
           \/ \E d \in DoneTurns : AgentDone(d)
  BY <1>2, SayingSteps, CalllessKeeps
<1>3. CASE CompactCommand \/ AgentBackstopFails \/ AgentFinal
  BY <1>3, CompactingSteps, CalllessKeeps
<1>4. CASE AgentAttempt \/ AgentBackstopRetries
  BY <1>4, QueryingSteps, CalllessKeeps
<1>5. CASE AgentActRejected
  BY <1>5, RejectCallless, CalllessKeeps
<1>6. CASE AgentFinishAct
  BY <1>6, FinishCallless, CalllessKeeps
<1>7. CASE \E ok \in BOOLEAN, snapshot \in Snapshots, dir \in Cwds :
             AgentExecute(ok, snapshot, dir)
  BY <1>7, ExecuteCallless, CalllessKeeps
<1>8. CASE \E n \in 1 .. MaxBatch : AgentActTurn(n)
  BY <1>8, ActTurnCalls
<1> QED
  BY <1>1, <1>2, <1>3, <1>4, <1>5, <1>6, <1>7, <1>8, Zenon DEF AgentNext

\* No calls, no ids.
LEMMA CallsInit == AgentInit => CallsInv
BY DEF AgentInit, CallsInv, CallsNumbered, CallsDistinct

\* Whatever is sent can be paired.
LEMMA PairedThen == AgentInv /\ CallsInv => RequestPaired
<1> SUFFICES ASSUME AgentInv, CallsInv, pc = "query"
             PROVE  RequestPaired
  BY DEF RequestPaired
<1>1. Sendable(messages)
  BY DEF AgentInv, AgentTypeOK, TranscriptInv, OpenTurn, Acting, CallsInv, Sendable
<1> QED BY <1>1, AnthropicPaired, ResponsesPaired, Zenon DEF RequestPaired

\* Whatever a compaction, a resumption or an abandoned turn left in it, the
\* transcript of a query is sent with every result next to its calls
\* (mapToolCallMessages of anthropic and openairesponses).
THEOREM RequestsPaired == AgentSpec => []RequestPaired
<1>1. AgentSpec => []CallsInv
  <2>1. AgentSpec => []AgentInv
    BY AgentInvAlways
  <2> QED BY <2>1, CallsInit, CallsStep, PTL DEF AgentSpec
<1> QED BY <1>1, AgentInvAlways, PairedThen, PTL
=============================================================================
