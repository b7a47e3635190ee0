\* One call of every native function.  A call ends, hence no deadlock check.
CONSTANTS
  Functions <- AllFunctions

SPECIFICATION Spec

INVARIANTS
  TypeOK
  ReferencesAreChecked
  ExceptionExcludesResult
  BoundsErrorsReachJava
  PinsOutliveOnlyExceptions
  CrashIsExplained

CHECK_DEADLOCK FALSE
