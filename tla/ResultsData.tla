----------------------------- MODULE ResultsData -----------------------------
(***************************************************************************)
(* The element data of one request, IPIntelligenceDataHashDefault: native  *)
(* results it has to free, getters that read them one property at a time,  *)
(* and asKeyMap, which reads every property once and serves the map from   *)
(* then on.                                                                *)
(*                                                                         *)
(* The engine adds its native results while the pipeline processes the     *)
(* request; then any number of threads use the data and close it.  Neither *)
(* closed nor mapPopulated is volatile: a thread that did not write them   *)
(* may read the old value for as long as it likes (it never goes back to   *)
(* it), and one that reads the new mapPopulated outside dataLock need not  *)
(* see the whole map.                                                      *)
(*                                                                         *)
(* A native results object is its index in resultsList, and is told apart  *)
(* by the properties it contains.  Values come in two shapes: the "single" *)
(* value that a getter of a String, Integer, ... asks for, and the         *)
(* "weighted" list that list getters, get(name) and asKeyMap ask for.      *)
(***************************************************************************)
EXTENDS Naturals, Sequences

CONSTANTS
    Users,      \* threads that share the data
    NoThread,   \* nobody: a lock is free
    Props,      \* available properties of the element
    MaxResults  \* bound: native results in one instance

ASSUME UserAssumption == NoThread \notin Users
ASSUME ResultsAssumption == MaxResults \in Nat

VARIABLES
    closed,       \* the flag
    resultsList,  \* the properties each native results object contains
    swigCMemOwn,  \* per native results: its proxy still owns the memory
    deletes,      \* per native results: times its memory was released
    mapPopulated, \* the flag
    map,          \* the base map: per property, the results the value is from
    dataLock,     \* who holds dataLock
    getLock,      \* who holds getLock
    pc,           \* where each thread is
    asked,        \* local: the property and the shape of the get under way
    built,        \* local: the map that asKeyMap is filling
    cursor,       \* local: the results that close() comes to next
    answer        \* what the last call of each thread came to

\* What each thread is bound to see.
VARIABLES
    seenClosed,    \* threads that have closed the data or seen it closed
    seenPopulated, \* threads that have seen mapPopulated set
    synced         \* threads that dataLock orders after the population

nativeVars == <<resultsList, swigCMemOwn, deletes>>
mapVars == <<mapPopulated, map, seenPopulated, synced>>
callVars == <<pc, asked, built, answer, dataLock>>
vars == <<closed, seenClosed, nativeVars, mapVars, callVars, getLock, cursor>>

Shapes == {"single", "weighted"}
Labels == {"idle", "check", "flag", "available", "enter", "read",
           "keymap", "wait", "recheck", "fetch", "store", "close"}
Kinds == {"none", "value", "map", "partial", "missing", "illegalState", "thrown"}

NoRequest == <<"none", "none">>
Answer(kind) == [kind |-> kind, request |-> NoRequest, shape |-> "none", from |-> 0]
Value(request, shape, i) ==
    [kind |-> "value", request |-> request, shape |-> shape, from |-> i]

Results == 1 .. Len(resultsList)
ResultsWith(p) == {i \in Results : p \in resultsList[i]}

\* The results a search for p asks, in order, until one contains it.
Searched(p) == {i \in Results : \A j \in ResultsWith(p) : i <= j}
FirstWith(p) == CHOOSE i \in ResultsWith(p) : i \in Searched(p)

\* A native call on released memory throws, or the process ends there.
Dangling(S) == \E i \in S : ~swigCMemOwn[i]

TypeOK ==
    /\ closed \in BOOLEAN /\ mapPopulated \in BOOLEAN
    /\ resultsList \in Seq(SUBSET Props) /\ Len(resultsList) <= MaxResults
    /\ swigCMemOwn \in [Results -> BOOLEAN]
    /\ deletes \in [Results -> Nat]
    /\ DOMAIN map \subseteq Props /\ \A p \in DOMAIN map : map[p] \in Results
    /\ {dataLock, getLock} \subseteq Users \cup {NoThread}
    /\ pc \in [Users -> Labels]
    /\ asked \in [Users -> (Props \X Shapes) \cup {NoRequest}]
    /\ cursor \in [Users -> 1 .. MaxResults + 1]
    /\ \A t \in Users :
          /\ DOMAIN built[t] \subseteq Props
          /\ \A p \in DOMAIN built[t] : built[t][p] \in Results
          /\ answer[t].kind \in Kinds
          /\ answer[t].kind = "value" => answer[t].from \in Results
    /\ seenClosed \subseteq (IF closed THEN Users ELSE {})
    /\ synced \subseteq seenPopulated
    /\ seenPopulated \subseteq (IF mapPopulated THEN Users ELSE {})

Init ==
    /\ closed = FALSE
    /\ resultsList = <<>> /\ swigCMemOwn = <<>> /\ deletes = <<>>
    /\ mapPopulated = FALSE
    /\ map = <<>>
    /\ dataLock = NoThread
    /\ getLock = NoThread
    /\ pc = [t \in Users |-> "idle"]
    /\ asked = [t \in Users |-> NoRequest]
    /\ built = [t \in Users |-> <<>>]
    /\ cursor = [t \in Users |-> 1]
    /\ answer = [t \in Users |-> Answer("none")]
    /\ seenClosed = {} /\ seenPopulated = {} /\ synced = {}

Goes(t, from, to) == pc[t] = from /\ pc' = [pc EXCEPT ![t] = to]

\* The call returns or throws out of asKeyMap's block, if it is in there.
Leaves(t, result) ==
    /\ pc' = [pc EXCEPT ![t] = "idle"]
    /\ asked' = [asked EXCEPT ![t] = NoRequest]
    /\ built' = [built EXCEPT ![t] = <<>>]
    /\ answer' = [answer EXCEPT ![t] = result]
    /\ dataLock' = IF dataLock = t THEN NoThread ELSE dataLock

Calls(t, label, request) ==
    /\ Goes(t, "idle", label)
    /\ asked' = [asked EXCEPT ![t] = request]
    /\ answer' = [answer EXCEPT ![t] = Answer("none")]
    /\ UNCHANGED <<built, dataLock>>

\* A value from results i: the answer, or one more entry of asKeyMap's map.
Gives(t, i) ==
    IF dataLock = t
    THEN /\ pc' = [pc EXCEPT ![t] = "fetch"]
         /\ built' = [built EXCEPT ![t] =
               [p \in DOMAIN @ \cup {asked[t][1]} |->
                   IF p \in DOMAIN @ THEN @[p] ELSE i]]
         /\ asked' = [asked EXCEPT ![t] = NoRequest]
         /\ UNCHANGED <<answer, dataLock>>
    ELSE Leaves(t, Value(asked[t], asked[t][2], i))

-----------------------------------------------------------------------------
(* Plausible faults.  No behaviour of the specification uses them; each      *)
(* stands in for the definition it is named after to show that a property    *)
(* would notice it.                                                          *)

\* checkState() forgotten.
StateAlwaysPasses(t) == t \in Users

\* getSingleResults takes the first results, whatever they contain.
SingleResultsIsFirst(p) == 1

\* delete() without the check of swigCMemOwn.
DeleteAgain(i) ==
    /\ swigCMemOwn' = [swigCMemOwn EXCEPT ![i] = FALSE]
    /\ deletes' = [deletes EXCEPT ![i] = @ + 1]

\* getLock left out.
EnterGetLockAtOnce(t) ==
    /\ Goes(t, "enter", "read")
    /\ getLock' = t
    /\ UNCHANGED <<closed, seenClosed, nativeVars, mapVars, asked, built, answer,
                   dataLock, cursor>>

\* The second check of mapPopulated left out of the double-checked locking.
RecheckForgotten(t) ==
    /\ Goes(t, "recheck", "fetch")
    /\ UNCHANGED <<closed, seenClosed, nativeVars, mapVars, asked, built, answer,
                   dataLock, getLock, cursor>>

\* mapPopulated set as soon as the block is entered.
RecheckPublishesEarly(t) ==
    /\ ~mapPopulated
    /\ Goes(t, "recheck", "fetch")
    /\ mapPopulated' = TRUE
    /\ UNCHANGED <<closed, seenClosed, nativeVars, map, seenPopulated, synced,
                   asked, built, answer, dataLock, getLock, cursor>>

\* asKeyMap returns the map but forgets to set mapPopulated.
SetMapPopulatedForgotten(t) ==
    /\ pc[t] = "store"
    /\ seenPopulated' = seenPopulated \cup {t}
    /\ synced' = synced \cup {t}
    /\ Leaves(t, Answer("map"))
    /\ UNCHANGED <<closed, seenClosed, nativeVars, mapPopulated, map, getLock,
                   cursor>>

\* A thread that has seen mapPopulated set reads around the map all the same.
NotPopulatedForgotten(t) ==
    /\ Goes(t, "flag", "available")
    /\ UNCHANGED <<closed, seenClosed, nativeVars, mapVars, asked, built, answer,
                   dataLock, getLock, cursor>>

\* asKeyMap returns the base map without a look at mapPopulated.
ReturnMapAtOnce(t) ==
    /\ pc[t] = "keymap"
    /\ Leaves(t, Answer("map"))
    /\ UNCHANGED <<closed, seenClosed, nativeVars, mapVars, getLock, cursor>>

-----------------------------------------------------------------------------
(* setResults, once per engine, while the pipeline processes the request     *)

Unused == \A t \in Users : pc[t] = "idle" /\ answer[t].kind = "none"

SetResults(contains) ==
    /\ Unused /\ ~closed
    /\ Len(resultsList) < MaxResults
    /\ resultsList' = Append(resultsList, contains)
    /\ swigCMemOwn' = Append(swigCMemOwn, TRUE)
    /\ deletes' = Append(deletes, 0)
    /\ UNCHANGED <<closed, seenClosed, mapVars, callVars, getLock, cursor>>

-----------------------------------------------------------------------------
(* tryGetValue, for a getter or for one property of asKeyMap                 *)

\* checkState(): a thread that may still see the old flag passes.
StatePasses(t) == t \notin seenClosed
StateThrows(t) ==
    /\ closed
    /\ seenClosed' = seenClosed \cup {t}
    /\ Leaves(t, Answer("illegalState"))

\* A getter, or get(name), which asks for the weighted list.
CallGet(t, p, shape) ==
    /\ Calls(t, "check", <<p, shape>>)
    /\ UNCHANGED <<closed, seenClosed, nativeVars, mapVars, getLock, cursor>>

CheckState(t) ==
    /\ \/ /\ StatePasses(t)
          /\ Goes(t, "check", "flag")
          /\ UNCHANGED <<seenClosed, asked, built, answer, dataLock>>
       \/ pc[t] = "check" /\ StateThrows(t)
    /\ UNCHANGED <<closed, nativeVars, mapVars, getLock, cursor>>

\* mapPopulated is set: the base map answers, whatever shape was asked for.
GetFromMap(t) ==
    /\ mapPopulated
    /\ pc[t] = "flag"
    /\ seenPopulated' = seenPopulated \cup {t}
    /\ \/ /\ asked[t][1] \in DOMAIN map
          /\ Leaves(t, Value(asked[t], "weighted", map[asked[t][1]]))
       \/ t \notin synced /\ Leaves(t, Answer("missing"))
    /\ UNCHANGED <<closed, seenClosed, nativeVars, mapPopulated, map, synced,
                   getLock, cursor>>

NotPopulated(t) ==
    /\ t \notin seenPopulated
    /\ Goes(t, "flag", "available")
    /\ UNCHANGED <<closed, seenClosed, nativeVars, mapVars, asked, built, answer,
                   dataLock, getLock, cursor>>

\* propertyIsAvailable: checkState again, then containsProperty of the results
\* in turn, all of it before getLock is taken.
PropertyIsAvailable(t) ==
    LET p == asked[t][1] IN
    /\ pc[t] = "available"
    /\ \/ StateThrows(t)
       \/ /\ StatePasses(t)
          /\ UNCHANGED seenClosed
          /\ \/ /\ ~Dangling(Searched(p)) /\ ResultsWith(p) # {}
                /\ Goes(t, "available", "enter")
                /\ UNCHANGED <<asked, built, answer, dataLock>>
             \/ /\ ~Dangling(Searched(p)) /\ ResultsWith(p) = {}
                /\ Leaves(t, Answer("missing"))
             \/ Dangling(Searched(p)) /\ Leaves(t, Answer("thrown"))
    /\ UNCHANGED <<closed, nativeVars, mapVars, getLock, cursor>>

EnterGetLock(t) ==
    /\ getLock = NoThread
    /\ getLock' = t
    /\ Goes(t, "enter", "read")
    /\ UNCHANGED <<closed, seenClosed, nativeVars, mapVars, asked, built, answer,
                   dataLock, cursor>>

\* getSingleResults: the only results, or the first that contain the property.
SingleResults(p) == IF Len(resultsList) = 1 THEN 1 ELSE FirstWith(p)

Consulted(p) == IF Len(resultsList) = 1 THEN {1} ELSE Searched(p)

\* getValues checks the state once more, the getValueAs methods do not.  The
\* read itself throws on released memory and on a type it does not support.
ReadValue(t) ==
    LET p == asked[t][1]
        weighted == asked[t][2] = "weighted"
    IN
    /\ pc[t] = "read"
    /\ getLock' = NoThread
    /\ \/ weighted /\ StateThrows(t)
       \/ /\ weighted => StatePasses(t)
          /\ UNCHANGED seenClosed
          /\ \/ ~Dangling(Consulted(p)) /\ Gives(t, SingleResults(p))
             \/ Leaves(t, Answer("thrown"))
    /\ UNCHANGED <<closed, nativeVars, mapVars, cursor>>

-----------------------------------------------------------------------------
(* asKeyMap: no checkState of its own                                        *)

CallKeyMap(t) ==
    /\ Calls(t, "keymap", NoRequest)
    /\ UNCHANGED <<closed, seenClosed, nativeVars, mapVars, getLock, cursor>>

\* The check outside dataLock finds the flag set.
ReturnMap(t) ==
    /\ mapPopulated
    /\ pc[t] = "keymap"
    /\ seenPopulated' = seenPopulated \cup {t}
    /\ \/ Leaves(t, Answer("map"))
       \/ t \notin synced /\ Leaves(t, Answer("partial"))
    /\ UNCHANGED <<closed, seenClosed, nativeVars, mapPopulated, map, synced,
                   getLock, cursor>>

WantDataLock(t) ==
    /\ t \notin seenPopulated
    /\ Goes(t, "keymap", "wait")
    /\ UNCHANGED <<closed, seenClosed, nativeVars, mapVars, asked, built, answer,
                   dataLock, getLock, cursor>>

EnterDataLock(t) ==
    /\ dataLock = NoThread
    /\ dataLock' = t
    /\ Goes(t, "wait", "recheck")
    /\ UNCHANGED <<closed, seenClosed, nativeVars, mapVars, asked, built, answer,
                   getLock, cursor>>

\* Someone else has populated the map while this thread waited.
RecheckPopulated(t) ==
    /\ mapPopulated
    /\ pc[t] = "recheck"
    /\ seenPopulated' = seenPopulated \cup {t}
    /\ synced' = synced \cup {t}
    /\ Leaves(t, Answer("map"))
    /\ UNCHANGED <<closed, seenClosed, nativeVars, mapPopulated, map, getLock,
                   cursor>>

RecheckEmpty(t) ==
    /\ ~mapPopulated
    /\ Goes(t, "recheck", "fetch")
    /\ UNCHANGED <<closed, seenClosed, nativeVars, mapVars, asked, built, answer,
                   dataLock, getLock, cursor>>

\* getAs of the next available property, under dataLock.
FetchProperty(t, p) ==
    /\ p \notin DOMAIN built[t]
    /\ Goes(t, "fetch", "check")
    /\ asked' = [asked EXCEPT ![t] = <<p, "weighted">>]
    /\ UNCHANGED <<closed, seenClosed, nativeVars, mapVars, built, answer,
                   dataLock, getLock, cursor>>

PopulateFromMap(t) ==
    /\ DOMAIN built[t] = Props
    /\ Goes(t, "fetch", "store")
    /\ map' = built[t]
    /\ UNCHANGED <<closed, seenClosed, nativeVars, mapPopulated, seenPopulated,
                   synced, asked, built, answer, dataLock, getLock, cursor>>

SetMapPopulated(t) ==
    /\ pc[t] = "store"
    /\ mapPopulated' = TRUE
    /\ seenPopulated' = seenPopulated \cup {t}
    /\ synced' = synced \cup {t}
    /\ Leaves(t, Answer("map"))
    /\ UNCHANGED <<closed, seenClosed, nativeVars, map, getLock, cursor>>

-----------------------------------------------------------------------------
(* close                                                                     *)

\* The flag first.  No lock is taken, and a second close() goes through again.
CallClose(t) ==
    /\ Calls(t, "close", NoRequest)
    /\ closed' = TRUE
    /\ seenClosed' = seenClosed \cup {t}
    /\ cursor' = [cursor EXCEPT ![t] = 1]
    /\ UNCHANGED <<nativeVars, mapVars, getLock>>

\* ResultsIpiSwig.delete(), synchronized: only the owner's memory is released.
Delete(i) ==
    IF swigCMemOwn[i]
    THEN /\ swigCMemOwn' = [swigCMemOwn EXCEPT ![i] = FALSE]
         /\ deletes' = [deletes EXCEPT ![i] = @ + 1]
    ELSE UNCHANGED <<swigCMemOwn, deletes>>

CloseResults(t) ==
    /\ pc[t] = "close"
    /\ cursor[t] <= Len(resultsList)
    /\ Delete(cursor[t])
    /\ cursor' = [cursor EXCEPT ![t] = @ + 1]
    /\ UNCHANGED <<closed, seenClosed, resultsList, mapVars, callVars, getLock>>

EndClose(t) ==
    /\ cursor[t] > Len(resultsList)
    /\ pc[t] = "close"
    /\ Leaves(t, Answer("none"))
    /\ UNCHANGED <<closed, seenClosed, nativeVars, mapVars, getLock, cursor>>

-----------------------------------------------------------------------------

Get(t) ==
    \/ \E p \in Props, shape \in Shapes : CallGet(t, p, shape)
    \/ CheckState(t) \/ GetFromMap(t) \/ NotPopulated(t)
    \/ PropertyIsAvailable(t) \/ EnterGetLock(t) \/ ReadValue(t)

AsKeyMap(t) ==
    \/ CallKeyMap(t) \/ ReturnMap(t) \/ WantDataLock(t) \/ EnterDataLock(t)
    \/ RecheckPopulated(t) \/ RecheckEmpty(t)
    \/ \E p \in Props : FetchProperty(t, p)
    \/ PopulateFromMap(t) \/ SetMapPopulated(t)

Close(t) == CallClose(t) \/ CloseResults(t) \/ EndClose(t)

Next ==
    \/ \E contains \in SUBSET Props : SetResults(contains)
    \/ \E t \in Users : Get(t) \/ AsKeyMap(t) \/ Close(t)

Spec == Init /\ [][Next]_vars

-----------------------------------------------------------------------------
(* Properties                                                                *)

\* Native values are read by one thread at a time, the one that holds getLock;
\* the population holds dataLock from the second check to the flag, also while
\* it waits for getLock; and every way out, by exception too, gives both back.
LockDiscipline ==
    \A t \in Users :
        /\ pc[t] = "read" <=> getLock = t
        /\ pc[t] \in {"recheck", "fetch", "store"} => dataLock = t
        /\ dataLock = t => pc[t] \notin {"idle", "close", "keymap", "wait"}

\* The base map is all or nothing: an asKeyMap that fails half way, or is
\* overtaken by a close, leaves no entry behind, and a populated map has every
\* property, each from the first native results that contain it.
MapIsWholeOrEmpty ==
    /\ mapPopulated =>
          DOMAIN map = Props /\ \A p \in Props : map[p] = FirstWith(p)
    /\ map # <<>> => mapPopulated \/ \E t \in Users : pc[t] = "store"

\* The map is populated once: nobody fills a second one behind the backs of the
\* threads that have been handed the first.
PopulatedOnce ==
    \A t \in Users : pc[t] \in {"fetch", "store"} => ~mapPopulated

\* A getter's answer does not depend on the number of native results or on
\* whether asKeyMap came first: it is the value of the first native results
\* that contain the property.
ValueOfFirstResults ==
    \A t \in Users : answer[t].kind = "value" =>
        answer[t].from = FirstWith(answer[t].request[1])

\* A thread that has closed the data, or been told that it is closed, is never
\* given a value again and never comes near the native results.
ClosedIsNotRead ==
    \A t \in seenClosed :
        /\ answer[t].kind \notin {"value", "missing", "thrown"}
        /\ pc[t] \notin {"available", "enter", "read"}

\* However many threads close the data, and however often, each native results
\* object is released once, and by the time no close() is running, released.
ResultsReleasedOnce ==
    \A i \in Results :
        /\ deletes[i] <= 1
        /\ closed /\ (\A t \in Users : pc[t] # "close") => deletes[i] = 1

\* IPIData_Closed: every get method of a closed instance throws an
\* IllegalStateException, asKeyMap included.  The code breaks it when the map
\* was populated before the close.
ClosedThrows ==
    \A t \in seenClosed : answer[t].kind \in {"none", "illegalState"}

\* A typed getter gives the type it declares.  The code breaks it once asKeyMap
\* has populated the map: the getter of a single value then gives the list.
GetterKeepsType ==
    \A t \in Users : answer[t].kind = "value" =>
        answer[t].shape = answer[t].request[2]

\* Both promises are broken by the populated map and by nothing else: as long as
\* asKeyMap has not succeeded, a getter gives the type it declares, and a thread
\* that knows of the close gets the exception, whatever the others are doing.
PromisesKeptUntilMapped == ~mapPopulated => ClosedThrows /\ GetterKeepsType
=============================================================================
