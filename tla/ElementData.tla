----------------------------- MODULE ElementData -----------------------------
(***************************************************************************)
(* What the data of one request promises to the threads that read it,      *)
(* without locks, flags, loops or a thread's place in the code.            *)
(*                                                                         *)
(* Native results are added while nobody has an answer.  The value of a    *)
(* property is that of the first results that contain it.  At some moment  *)
(* the map is kept, for good, with nothing added any more.  Whoever knows  *)
(* that the data is closed is refused, except by a map that is kept.       *)
(* Who was given the map for certain, because the thread waited for it or  *)
(* made it, is never told again that something is missing or failed.       *)
(*                                                                         *)
(* Weakened on purpose, as the code is: a kept map answers with weighted   *)
(* lists whatever was asked for, and outlives the close.                   *)
(***************************************************************************)
EXTENDS Naturals, Sequences

CONSTANTS Users, Props

VARIABLES
    results,  \* the properties that each native results object contains
    releases, \* per results object: how often it was released
    closed,
    told,     \* threads that know of the close
    kept,     \* the map is kept
    certain,  \* threads that were given the map for certain
    said      \* what each thread was answered last

Said(kind) ==
    [kind |-> kind, request |-> <<"none", "none">>, shape |-> "none", from |-> 0]

With(p) == {i \in 1 .. Len(results) : p \in results[i]}
IsFirst(i, p) == i \in With(p) /\ \A j \in With(p) : i <= j

DataInit ==
    /\ results = <<>> /\ releases = <<>>
    /\ closed = FALSE /\ told = {}
    /\ kept = FALSE /\ certain = {}
    /\ said = [t \in Users |-> Said("none")]

AddResults(contains) ==
    /\ ~closed /\ ~kept
    /\ \A t \in Users : said[t].kind = "none"
    /\ results' = Append(results, contains)
    /\ releases' = Append(releases, 0)
    /\ UNCHANGED <<closed, told, kept, certain, said>>

Tells(t, answer) == said' = [said EXCEPT ![t] = answer]

\* A call begins, or one without an answer ends.
Forget(t) ==
    /\ Tells(t, Said("none"))
    /\ UNCHANGED <<results, releases, closed, told, kept, certain>>

Close(t) ==
    /\ closed' = TRUE
    /\ told' = told \cup {t}
    /\ Tells(t, Said("none"))
    /\ UNCHANGED <<results, releases, kept, certain>>

Release(i) ==
    /\ closed
    /\ i \in DOMAIN results
    /\ releases[i] = 0
    /\ releases' = [releases EXCEPT ![i] = 1]
    /\ UNCHANGED <<results, closed, told, kept, certain, said>>

\* The shape that was asked for, or the weighted list of the map.
GiveValue(t, p, shape) ==
    /\ t \notin told
    /\ \E i \in With(p), given \in {shape, "weighted"} :
        /\ IsFirst(i, p)
        /\ given # shape => kept
        /\ t \in certain => given = "weighted"
        /\ Tells(t, [kind |-> "value", request |-> <<p, shape>>,
                     shape |-> given, from |-> i])
    /\ UNCHANGED <<results, releases, closed, told, kept, certain>>

Refuse(t) ==
    /\ closed
    /\ told' = told \cup {t}
    /\ Tells(t, Said("illegalState"))
    /\ UNCHANGED <<results, releases, closed, kept, certain>>

\* No results contain it, or the thread sees a kept map only in part.
Miss(t) ==
    /\ t \notin told \cup certain
    /\ kept \/ \E p \in Props : With(p) = {}
    /\ Tells(t, Said("missing"))
    /\ UNCHANGED <<results, releases, closed, told, kept, certain>>

Throw(t) ==
    /\ t \notin told \cup certain
    /\ Tells(t, Said("thrown"))
    /\ UNCHANGED <<results, releases, closed, told, kept, certain>>

\* Once, by a thread that does not know of a close, and with every property.
Keep(t) ==
    /\ ~kept
    /\ t \in told => Props = {}
    /\ \A p \in Props : With(p) # {}
    /\ kept' = TRUE
    /\ certain' = certain \cup {t}
    /\ Tells(t, Said("map"))
    /\ UNCHANGED <<results, releases, closed, told>>

GiveMap(t) ==
    /\ kept
    /\ certain' \in {certain, certain \cup {t}}
    /\ Tells(t, Said("map"))
    /\ UNCHANGED <<results, releases, closed, told, kept>>

GivePart(t) ==
    /\ kept
    /\ t \notin certain
    /\ Tells(t, Said("partial"))
    /\ UNCHANGED <<results, releases, closed, told, kept, certain>>

DataNext ==
    \/ \E contains \in SUBSET Props : AddResults(contains)
    \/ \E i \in DOMAIN results : Release(i)
    \/ \E t \in Users :
        \/ Forget(t) \/ Close(t) \/ Refuse(t) \/ Miss(t) \/ Throw(t)
        \/ Keep(t) \/ GiveMap(t) \/ GivePart(t)
        \/ \E p \in Props, shape \in {"single", "weighted"} :
                GiveValue(t, p, shape)

DataSpec ==
    DataInit
    /\ [][DataNext]_<<results, releases, closed, told, kept, certain, said>>
=============================================================================
