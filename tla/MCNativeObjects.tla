-------------------------- MODULE MCNativeObjects --------------------------
(***************************************************************************)
(* Lists and profiles of three entries.  The collection getters of a       *)
(* configuration: those whose proxies only borrow, or all of them.         *)
(***************************************************************************)
EXTENDS NativeObjects

SomeBorrowing == {"getStrings", "getMaps", "getGraph"}
SomeCollections == {"getStrings", "getProfiles"}

\* The first condition of the theorems of NativeObjectsProofs holds of this
\* interface; the second is what the getters of SomeBorrowing have in common.
ASSUME InterfaceAssumption == Ownership
ASSUME BorrowingAssumption ==
  \A g \in SomeBorrowing : ConfigIpiSwig[g].owned = FALSE
=============================================================================
