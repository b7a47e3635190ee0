\* Lists and profiles of three, finalizers at any time.  A task ends, hence no
\* deadlock check.
CONSTANTS
  Size = 3
  CollectionsUsed <- SomeBorrowing

SPECIFICATION Spec

INVARIANTS
  TypeOK
  OnlyLiveObjectsAreDeleted
  EveryObjectHasAnOwner
  GettersCleanUp
  ElementsAreReadAlive

CHECK_DEADLOCK FALSE
