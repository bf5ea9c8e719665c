SPECIFICATION Spec
CONSTANT
  Children = {"grouped", "piped", "both"}
INVARIANTS
  ShellTypeOK
  StoppedGroupDies
PROPERTIES
  ImplementsCommand
  CommandReturns
