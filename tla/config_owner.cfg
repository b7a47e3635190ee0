\* A configuration getter whose proxy owns a part of the configuration.
CONSTANTS
  Size = 3
  CollectionsUsed <- SomeCollections

SPECIFICATION Spec

INVARIANTS
  OnlyLiveObjectsAreDeleted

CHECK_DEADLOCK FALSE
