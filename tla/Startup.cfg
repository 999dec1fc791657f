\* Every command over files that differ in one respect, each with every set of flags.
SPECIFICATION Spec
CONSTANTS
  Blank = ""
  AnonName = "anon"
  Files <- MCFiles
  FlagSets <- MCFlagSets
  MaxEdits = 1
INVARIANTS
  RegisteredExactly
  FlagsReachRecipes
  InsecureAnnounced
  PlaintextAnnounced
  RunsOnlyValid
