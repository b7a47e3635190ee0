---------------------------- MODULE MCResultsData ----------------------------
(***************************************************************************)
(* Small instances of ResultsData for TLC.                                 *)
(***************************************************************************)
EXTENDS ResultsElementData, TLC

\* Threads are interchangeable, and so are properties: each is picked by \E
\* only, and the order in which asKeyMap visits properties is free.
UserSymmetry == Permutations(Users) \cup Permutations(Props)
=============================================================================
