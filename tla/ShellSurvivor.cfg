SPECIFICATION Spec
CONSTANT
  Children = {"grouped", "piped", "both"}
INVARIANT
  NoChildSurvives
