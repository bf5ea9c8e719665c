---------------------------- MODULE TurnProtocol ----------------------------
(***************************************************************************)
(* The turns of the model as they go over the wire: the schemas a request  *)
(* carries (internal/providers/actwire), the two parsers, and the two      *)
(* forms a parsed turn is written back in, the canonical one kept in the   *)
(* transcript (turn_canonical.go, read again by turnschema.go) and the     *)
(* wrapped one sent to a provider.                                         *)
(*                                                                         *)
(* A wire turn is a JSON object: what each field is, never its text.       *)
(* "absent", "null" and "value" tell whether a field is there; a string is *)
(* "empty", "blank" (white space) or "text".  Reasoning, which every turn  *)
(* may carry and nothing depends on, is left out.                          *)
(***************************************************************************)
EXTENDS Naturals, Sequences

Types    == {"act", "clarify", "done"}
Statuses == {"verified", "partially_verified", "not_verified"}
Missing  == {"absent", "null"}

WireStrings  == Missing \cup {"empty", "blank", "text"}
WireCommands == [command: {"blank", "text"}, workdir: {"absent", "null", "dir"}]
WireChecks   == Missing \cup {"none", "blank", "some"}
WireRisks    == Missing \cup {"none", "some"}

(***************************************************************************)
(* shape is "wrapped" in {"turn": ...}, "bare", or "prose" that is no JSON *)
(* object at all.  commands, status and checks are those of the fields     *)
(* bash and verification, and stand for nothing when the field has no      *)
(* value.                                                                  *)
(***************************************************************************)
Bare == [shape |-> "bare", type |-> "other", bash |-> "absent", commands |-> <<>>,
         question |-> "absent", summary |-> "absent", verification |-> "absent",
         status |-> "not_verified", checks |-> "none", risks |-> "absent"]

Prose == [Bare EXCEPT !.shape = "prose"]

WireTypeOK(w) ==
  /\ DOMAIN w = DOMAIN Bare
  /\ w.shape \in {"wrapped", "bare", "prose"} /\ w.type \in Types \cup {"other"}
  /\ w.bash \in Missing \cup {"value"} /\ w.commands \in Seq(WireCommands)
  /\ w.question \in WireStrings /\ w.summary \in WireStrings
  /\ w.verification \in Missing \cup {"value"}
  /\ w.status \in Statuses \cup {"other"}
  /\ w.checks \in WireChecks /\ w.risks \in WireRisks

-----------------------------------------------------------------------------
(* Parsed turns *)

Act(commands) == [type |-> "act", commands |-> commands]
Clarify(text) == [type |-> "clarify", text |-> text]
Done(text, status, checks, risks) ==
  [type |-> "done", text |-> text, status |-> status, checks |-> checks,
   risks |-> risks]

\* A bash action keeps a working directory, or none.
ActionOf(command) == [hasDir |-> command.workdir = "dir"]

TurnOf(w) ==
  CASE w.type = "act"     -> Act([i \in DOMAIN w.commands |-> ActionOf(w.commands[i])])
    [] w.type = "clarify" -> Clarify(w.question)
    [] w.type = "done"    -> Done(w.summary, w.status, w.checks, w.risks)

EvidenceFits(status, checks, risks) ==
  /\ status \in Statuses
  /\ status = "verified" => checks = "some"
  /\ status = "partially_verified" => risks = "some"

Commanded(w) ==
  /\ w.bash = "value" /\ w.commands # <<>>
  /\ \A i \in DOMAIN w.commands :
       w.commands[i].command = "text" /\ w.commands[i].workdir # "absent"

Verified(w) ==
  /\ w.verification = "value" /\ w.checks \in {"none", "some"}
  /\ w.risks \in {"none", "some"}
  /\ EvidenceFits(w.status, w.checks, w.risks)

(***************************************************************************)
(* ParseProviderTurn: the envelope, the shape by type, then the payload.   *)
(* The fields of other turns may be null, and verification and known_risks *)
(* of an act or a clarify turn are not looked at.                          *)
(***************************************************************************)
ProviderAccepts(w) ==
  /\ w.shape = "wrapped"
  /\ \/ /\ w.type = "act" /\ Commanded(w)
        /\ w.question \in Missing /\ w.summary \in Missing
     \/ /\ w.type = "clarify" /\ w.question \in {"blank", "text"}
        /\ w.bash \in Missing /\ w.summary \in Missing
     \/ /\ w.type = "done" /\ w.summary \in {"blank", "text"} /\ Verified(w)
        /\ w.bash \in Missing /\ w.question \in Missing

\* ParseTurn: no envelope, and the fields of other turns must be left out.
StrictAccepts(w) ==
  /\ w.shape = "bare"
  /\ \/ /\ w.type = "act" /\ Commanded(w)
        /\ {w.question, w.summary, w.verification, w.risks} = {"absent"}
     \/ /\ w.type = "clarify" /\ w.question = "text"
        /\ {w.bash, w.summary, w.verification, w.risks} = {"absent"}
     \/ /\ w.type = "done" /\ w.summary = "text" /\ Verified(w)
        /\ {w.bash, w.question} = {"absent"}

-----------------------------------------------------------------------------
(* Writing a parsed turn *)

WireCommand(action) ==
  [command |-> "text", workdir |-> IF action.hasDir THEN "dir" ELSE "null"]

\* CanonicalTurnJSON refuses what is only white space.
HasCanonicalForm(t) == t.type = "act" \/ t.text = "text"

\* Faulty variant: leaves an empty list of risks out.
KnownRisksIfAny(t) == IF t.risks = "none" THEN "absent" ELSE t.risks

KnownRisks(t) == t.risks

CanonicalTurnJSON(t) ==
  CASE t.type = "act"     -> [Bare EXCEPT !.type = "act", !.bash = "value",
         !.commands = [i \in DOMAIN t.commands |-> WireCommand(t.commands[i])]]
    [] t.type = "clarify" -> [Bare EXCEPT !.type = "clarify", !.question = t.text]
    [] t.type = "done"    -> [Bare EXCEPT !.type = "done", !.summary = t.text,
         !.verification = "value", !.status = t.status, !.checks = t.checks,
         !.risks = KnownRisks(t)]

\* providerJSON: the canonical fields in an envelope, the others null.
ProviderJSON(t) ==
  LET w == CanonicalTurnJSON(t)
      Nulled(field) == IF field = "absent" THEN "null" ELSE field
  IN  [w EXCEPT !.shape = "wrapped", !.bash = Nulled(@),
                !.question = Nulled(@), !.summary = Nulled(@)]

\* NormalizeMessagesForProvider, for one assistant message.
NormalizeForProvider(w) ==
  IF ProviderAccepts(w) \/ StrictAccepts(w) THEN ProviderJSON(TurnOf(w)) ELSE w

-----------------------------------------------------------------------------
(* The schemas *)

\* What the JSON schema of a request that allows these types lets through.
SchemaAllows(types, w) ==
  /\ w.shape = "wrapped" /\ w.type \in types
  /\ \/ /\ w.type = "act" /\ w.bash = "value" /\ w.commands # <<>>
        /\ \A i \in DOMAIN w.commands : w.commands[i].workdir # "absent"
        /\ {w.question, w.summary} = {"null"}
        /\ {w.verification, w.risks} = {"absent"}
     \/ /\ w.type = "clarify" /\ w.question \notin Missing
        /\ {w.bash, w.summary} = {"null"}
        /\ {w.verification, w.risks} = {"absent"}
     \/ /\ w.type = "done" /\ w.summary \notin Missing
        /\ {w.bash, w.question} = {"null"}
        /\ w.verification = "value" /\ w.status \in Statuses
        /\ w.checks \notin Missing /\ w.risks \notin Missing

\* What no schema says: no text is blank, and the evidence fits the status.
Meaningful(w) ==
  /\ \A i \in DOMAIN w.commands : w.commands[i].command = "text"
  /\ {w.question, w.summary} \cap {"empty", "blank"} = {}
  /\ w.type = "done" => w.checks # "blank" /\ EvidenceFits(w.status, w.checks, w.risks)
=============================================================================
