-------------------------- MODULE ResultsElementData --------------------------
(***************************************************************************)
(* The data of a request seen as ElementData.                              *)
(***************************************************************************)
EXTENDS ResultsData

\* The map is kept when its flag is set, and certain for those whom dataLock
\* orders after that.
Data == INSTANCE ElementData
    WITH results <- resultsList, releases <- deletes, told <- seenClosed,
         kept <- mapPopulated, certain <- synced, said <- answer

\* The two locks, the double-checked flag, the loop over the properties, the
\* flags that a thread may see late and the loop of close() together do nothing
\* but the steps of ElementData.
ServesElementData == Data!DataSpec
=============================================================================
