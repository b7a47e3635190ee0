--------------------------- MODULE VersionedCache ---------------------------
(***************************************************************************)
(* What getProperties promises of the list it serves, without threads,     *)
(* monitor or loops: a cache in front of a source whose version only       *)
(* grows.  At most one fill is under way; it is of the version the source  *)
(* had when the fill began, and starts only while nothing is served.  What *)
(* is served changes only through a fill, an invalidation or the close.    *)
(*                                                                         *)
(* A fill that an invalidation overtakes still ends in being served: that  *)
(* is the one way to serve an old version.                                 *)
(***************************************************************************)
EXTENDS Naturals

VARIABLES
    source,   \* version of the source, 0 before there is one
    filling,  \* the version a fill under way is of, or None
    served    \* the list callers are served, or None

None == [version |-> 0, whole |-> FALSE, none |-> TRUE]

\* A list of entries of one version (0: it has none), whole or cut short.
List(v, w) == [version |-> v, whole |-> w, none |-> FALSE]

Fill(v) == List(v, FALSE)

CacheInit == source = 0 /\ filling = None /\ served = None

Advance ==
    /\ source' = source + 1
    /\ UNCHANGED <<filling, served>>

\* A fill of the current version begins, or fails to.
Begin ==
    /\ served = None /\ filling = None
    /\ filling' \in {Fill(source), Fill(0)}
    /\ UNCHANGED <<source, served>>

\* It ends; when it failed, what it has read so far is served.
Finish ==
    /\ filling # None
    /\ \E w \in BOOLEAN, v \in {filling.version, 0} : served' = List(v, w)
    /\ filling' = None
    /\ UNCHANGED source

Invalidate ==
    /\ served' = None
    /\ UNCHANGED <<source, filling>>

\* The close empties a list that is served, while nobody fills it.
Empty ==
    /\ served # None /\ filling = None
    /\ \E w \in BOOLEAN : served' = List(0, w)
    /\ UNCHANGED <<source, filling>>

CacheNext == Advance \/ Begin \/ Finish \/ Invalidate \/ Empty

CacheSpec == CacheInit /\ [][CacheNext]_<<source, filling, served>>
=============================================================================
