----------------------------- MODULE MCJniCall -----------------------------
(***************************************************************************)
(* Every function of the native interface, called with every combination   *)
(* of null and non-null arguments.                                         *)
(***************************************************************************)
EXTENDS JniCall

AllFunctions == Signatures

\* The conditions of the theorems of JniCallProofs hold of this interface.
ASSUME InterfaceAssumption == WellGuarded /\ PinsComeLast
=============================================================================
