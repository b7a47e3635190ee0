--------------------------- MODULE MCCloudEngine ---------------------------
(***************************************************************************)
(* Three properties; the service gives no property at all, a whole list,   *)
(* or one with a type in the middle that the engine does not know.         *)
(***************************************************************************)
EXTENDS CloudEngine

Item(n, t) == [name |-> n, type |-> t]

SomeLists ==
    {<<>>,
     <<Item("country", "Weighted"), Item("isp", "Scalar")>>,
     <<Item("isp", "Scalar"), Item("areas", "Unknown"),
       Item("country", "Weighted")>>}
=============================================================================
