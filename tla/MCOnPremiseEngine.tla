-------------------------- MODULE MCOnPremiseEngine --------------------------
(***************************************************************************)
(* Small instances of OnPremiseEngine for TLC.                             *)
(***************************************************************************)
EXTENDS EngineCache, TLC

\* Readers are interchangeable: no action or property names one.
ThreadSymmetry == Permutations(Readers)
=============================================================================
