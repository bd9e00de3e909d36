SPECIFICATION Spec
CONSTANTS
  Commands <- AllCommands
  MaxChoices = 2
INVARIANTS
  RunsAsDeclared
  KeysSuffice
  DependentsCanJoin
  InstructionsAgree
