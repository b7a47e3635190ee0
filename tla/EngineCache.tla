----------------------------- MODULE EngineCache -----------------------------
(***************************************************************************)
(* The engine seen as a VersionedCache of property meta data.              *)
(***************************************************************************)
EXTENDS OnPremiseEngine

\* Version of a list: that of its entries.
VersionOf(list) == IF list = <<>> THEN 0 ELSE list[1]

\* The reader that fills the list holds the monitor.  A population has a
\* version once its native collection is open.
FillUnderWay == monitor \in Readers /\ pc[monitor] \in {"fill", "publish"}

CacheFilling ==
    IF FillUnderWay
    THEN [version |-> snapshot[monitor], whole |-> FALSE, none |-> FALSE]
    ELSE [version |-> 0, whole |-> FALSE, none |-> TRUE]

CacheServed ==
    IF propertiesPopulated
    THEN [version |-> VersionOf(properties),
          whole   |-> Len(properties) = PropertyCount,
          none    |-> FALSE]
    ELSE [version |-> 0, whole |-> FALSE, none |-> TRUE]

Cache == INSTANCE VersionedCache
    WITH source <- dataset, filling <- CacheFilling, served <- CacheServed

\* The double-checked locking, the loop over the native collection, the retries
\* and the close together do nothing but the steps of a versioned cache.
ServesVersionedCache == Cache!CacheSpec
=============================================================================
