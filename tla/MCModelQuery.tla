---------------------------- MODULE MCModelQuery ----------------------------
(***************************************************************************)
(* The wire turns the server of ModelQuery answers with: turns of each     *)
(* type with every value of their own fields, and some of the others'.     *)
(***************************************************************************)
EXTENDS ModelQuery

CommandLists ==
  {<<>>} \cup {<<c>> : c \in WireCommands}
    \cup {<<[command |-> "text", workdir |-> "dir"], c>> : c \in WireCommands}

BashFields == {<<"absent", <<>>>>, <<"null", <<>>>>} \cup ({"value"} \X CommandLists)

VerificationFields ==
  {<<"absent", "not_verified", "none">>, <<"null", "not_verified", "none">>}
    \cup ({"value"} \X (Statuses \cup {"other"}) \X WireChecks)

Shapes == {"wrapped", "bare"}

Strays == {"absent", "null", "text"}

\* Of the fields of other turns, one at a time strays from what the schema asks.
ActTexts ==
  {[Bare EXCEPT !.shape = s, !.type = "act", !.bash = b[1], !.commands = b[2],
      !.question = q, !.summary = q, !.risks = r] :
     s \in Shapes, b \in BashFields, q \in Strays, r \in {"absent", "none"}}

ClarifyTexts ==
  {[Bare EXCEPT !.shape = s, !.type = "clarify", !.question = q, !.bash = m,
      !.summary = t, !.risks = r] :
     s \in Shapes, q \in WireStrings, m \in Missing, t \in Strays,
     r \in {"absent", "none"}}

DoneTexts ==
  {[Bare EXCEPT !.shape = s, !.type = "done", !.summary = t, !.bash = m,
      !.question = m, !.verification = v[1], !.status = v[2], !.checks = v[3],
      !.risks = r] :
     s \in Shapes, t \in WireStrings, m \in Missing, v \in VerificationFields,
     r \in WireRisks}

WireTexts == {Prose, [Bare EXCEPT !.shape = "wrapped"]} \cup ActTexts \cup ClarifyTexts \cup DoneTexts

OneCommand == Act(<<[hasDir |-> TRUE]>>)

FewWireTexts ==
  {Prose, CanonicalTurnJSON(OneCommand), ProviderJSON(OneCommand),
   ProviderJSON(Clarify("text")), ProviderJSON(Done("text", "not_verified", "none", "none"))}
=============================================================================
