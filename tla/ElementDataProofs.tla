-------------------------- MODULE ElementDataProofs --------------------------
(***************************************************************************)
(* The data of a request implements ElementData, for any number of         *)
(* threads, properties and native results.                                 *)
(***************************************************************************)
EXTENDS ResultsElementData, ResultsDataProofs

\* Past the flag and not back at idle: the map is being read around or made.
PastTheFlag == {"available", "enter", "read", "wait", "recheck", "fetch", "store"}

\* A thread that has seen the flag never comes near the native results again, nor
\* to a second population; and one that knows of the close adds nothing to a map.
SeenInv ==
    \A t \in Users :
        /\ t \in seenPopulated => pc[t] \notin PastTheFlag
        /\ t \in seenClosed => DOMAIN built[t] = {}
        /\ pc[t] = "store" => DOMAIN built[t] = Props

LEMMA SeenStep ==
    ASSUME TInv, LockDiscipline, PopulatingInv, ClosedInv, BuiltInv, SeenInv,
           [Next]_vars
    PROVE  SeenInv'
<1> USE UserAssumption
    DEF TInv, Shape, SharedOK, LockDiscipline, PopulatingInv, ClosedInv, BuiltInv,
        SeenInv, PastTheFlag, Goes, nativeVars, mapVars, callVars
<1>a. seenClosed \subseteq Users /\ seenPopulated \subseteq Users
    OBVIOUS
<1>b. DOMAIN <<>> = {}
    OBVIOUS
<1>1. ASSUME NEW t \in Users, NEW p \in Props, NEW shape \in Shapes,
             CallGet(t, p, shape)
      PROVE  SeenInv'
    BY <1>1, <1>a, <1>b DEF CallGet, Calls
<1>2. ASSUME NEW t \in Users, CheckState(t) PROVE SeenInv'
    BY <1>2, <1>a, <1>b DEF CheckState, StateThrows, Leaves, StatePasses
<1>3. ASSUME NEW t \in Users, GetFromMap(t) PROVE SeenInv'
    BY <1>3, <1>a, <1>b DEF GetFromMap, Leaves
<1>4. ASSUME NEW t \in Users, NotPopulated(t) PROVE SeenInv'
    BY <1>4, <1>a, <1>b DEF NotPopulated
<1>5. ASSUME NEW t \in Users, PropertyIsAvailable(t) PROVE SeenInv'
    <2>1. t \notin seenPopulated /\ pc[t] = "available" /\ seenPopulated' = seenPopulated
        BY <1>5 DEF PropertyIsAvailable
    <2>2. CASE StateThrows(t)
        BY <1>a, <1>b, <2>1, <2>2 DEF StateThrows, Leaves
    <2>3. CASE UNCHANGED seenClosed
        <3>1. CASE Goes(t, "available", "enter") /\ built' = built
            BY <1>a, <2>1, <2>3, <3>1
        <3>2. CASE Leaves(t, Answer("missing")) \/ Leaves(t, Answer("thrown"))
            BY <1>a, <1>b, <2>1, <2>3, <3>2 DEF Leaves
        <3>. QED
            BY <1>5, <2>2, <3>1, <3>2 DEF PropertyIsAvailable
    <2>. QED
        BY <1>5, <2>2, <2>3 DEF PropertyIsAvailable
<1>6. ASSUME NEW t \in Users, EnterGetLock(t) PROVE SeenInv'
    BY <1>6, <1>a, <1>b DEF EnterGetLock
<1>7. ASSUME NEW t \in Users, ReadValue(t) PROVE SeenInv'
    <2>1. t \notin seenClosed /\ t \notin seenPopulated
        BY <1>7 DEF ReadValue
    <2>2. CASE StateThrows(t)
        BY <1>7, <1>a, <1>b, <2>2 DEF ReadValue, StateThrows, Leaves
    <2>3. CASE UNCHANGED seenClosed
        <3>1. CASE Leaves(t, Answer("thrown"))
            BY <1>7, <1>a, <1>b, <2>1, <2>3, <3>1 DEF ReadValue, Leaves
        <3>2. CASE Gives(t, SingleResults(asked[t][1]))
            <4>1. /\ UNCHANGED <<seenClosed, seenPopulated>>
                  /\ \A u \in Users : u # t =>
                        pc'[u] = pc[u] /\ built'[u] = built[u]
                  /\ pc'[t] # "store"
                BY <1>7, <2>3, <3>2 DEF ReadValue, Gives, Leaves
            <4>. QED
                BY <2>1, <4>1
        <3>. QED
            BY <1>7, <2>2, <3>1, <3>2 DEF ReadValue
    <2>. QED
        BY <1>7, <2>2, <2>3 DEF ReadValue
<1>8. ASSUME NEW t \in Users, CallKeyMap(t) PROVE SeenInv'
    BY <1>8, <1>a, <1>b DEF CallKeyMap, Calls
<1>9. ASSUME NEW t \in Users, ReturnMap(t) PROVE SeenInv'
    BY <1>9, <1>a, <1>b DEF ReturnMap, Leaves
<1>10. ASSUME NEW t \in Users, WantDataLock(t) PROVE SeenInv'
    BY <1>10, <1>a, <1>b DEF WantDataLock
<1>11. ASSUME NEW t \in Users, EnterDataLock(t) PROVE SeenInv'
    BY <1>11, <1>a, <1>b DEF EnterDataLock
<1>12. ASSUME NEW t \in Users, RecheckPopulated(t) PROVE SeenInv'
    BY <1>12, <1>a, <1>b DEF RecheckPopulated, Leaves
<1>13. ASSUME NEW t \in Users, RecheckEmpty(t) PROVE SeenInv'
    BY <1>13, <1>a, <1>b DEF RecheckEmpty
<1>14. ASSUME NEW t \in Users, NEW p \in Props,
             FetchProperty(t, p)
      PROVE  SeenInv'
    BY <1>14, <1>a, <1>b DEF FetchProperty
<1>15. ASSUME NEW t \in Users, PopulateFromMap(t) PROVE SeenInv'
    BY <1>15, <1>a, <1>b DEF PopulateFromMap
<1>16. ASSUME NEW t \in Users, SetMapPopulated(t) PROVE SeenInv'
    BY <1>16, <1>a, <1>b DEF SetMapPopulated, Leaves
<1>17. ASSUME NEW t \in Users, CallClose(t) PROVE SeenInv'
    BY <1>17, <1>a, <1>b DEF CallClose, Calls
<1>18. ASSUME NEW t \in Users, CloseResults(t) PROVE SeenInv'
    BY <1>18, <1>a, <1>b DEF CloseResults
<1>19. ASSUME NEW t \in Users, EndClose(t) PROVE SeenInv'
    BY <1>19, <1>a, <1>b DEF EndClose, Leaves
<1>20. ASSUME NEW contains \in SUBSET Props, SetResults(contains)
       PROVE  SeenInv'
    BY <1>20, <1>a DEF SetResults, Unused
<1>21. CASE UNCHANGED vars
    BY <1>21, <1>a DEF vars
<1>. QED
    BY <1>1, <1>2, <1>3, <1>4, <1>5, <1>6, <1>7, <1>8, <1>9, <1>10,
       <1>11, <1>12, <1>13, <1>14, <1>15, <1>16, <1>17, <1>18, <1>19,
       <1>20, <1>21
    DEF Next, Get, AsKeyMap, Close

\* Every entry of a map, made or being made, is of results that are there.
FoundInv ==
    /\ \A t \in Users : \A p \in DOMAIN built[t] : ResultsWith(p) # {}
    /\ \A p \in DOMAIN map : ResultsWith(p) # {}

LEMMA FoundStep ==
    ASSUME TInv, FoundInv, [Next]_vars
    PROVE  FoundInv'
<1> USE DEF TInv, Shape, FoundInv, Goes, nativeVars, mapVars, callVars
<1>b. DOMAIN <<>> = {}
    OBVIOUS
<1>1. ASSUME NEW t \in Users, NEW p \in Props, NEW shape \in Shapes,
             CallGet(t, p, shape)
      PROVE  FoundInv'
    BY <1>1, <1>b, SameResults DEF CallGet, Calls
<1>2. ASSUME NEW t \in Users, CheckState(t) PROVE FoundInv'
    BY <1>2, <1>b, SameResults DEF CheckState, StateThrows, Leaves, StatePasses
<1>3. ASSUME NEW t \in Users, GetFromMap(t) PROVE FoundInv'
    BY <1>3, <1>b, SameResults DEF GetFromMap, Leaves
<1>4. ASSUME NEW t \in Users, NotPopulated(t) PROVE FoundInv'
    BY <1>4, <1>b, SameResults DEF NotPopulated
<1>5. ASSUME NEW t \in Users, PropertyIsAvailable(t) PROVE FoundInv'
    BY <1>5, <1>b, SameResults DEF PropertyIsAvailable, StateThrows, Leaves, StatePasses
<1>6. ASSUME NEW t \in Users, EnterGetLock(t) PROVE FoundInv'
    BY <1>6, <1>b, SameResults DEF EnterGetLock
<1>7. ASSUME NEW t \in Users, ReadValue(t) PROVE FoundInv'
    <2> DEFINE p == asked[t][1]
    <2>1. resultsList' = resultsList /\ map' = map /\ ResultsWith(p) # {}
        BY <1>7 DEF ReadValue, LocalOK
    <2>2. CASE StateThrows(t) \/ Leaves(t, Answer("thrown"))
        BY <1>b, <2>1, <2>2, SameResults DEF StateThrows, Leaves
    <2>3. CASE Gives(t, SingleResults(p))
        BY <1>b, <2>1, <2>3, SameResults DEF Gives, Leaves
    <2>. QED
        BY <1>7, <2>2, <2>3 DEF ReadValue
<1>8. ASSUME NEW t \in Users, CallKeyMap(t) PROVE FoundInv'
    BY <1>8, <1>b, SameResults DEF CallKeyMap, Calls
<1>9. ASSUME NEW t \in Users, ReturnMap(t) PROVE FoundInv'
    BY <1>9, <1>b, SameResults DEF ReturnMap, Leaves
<1>10. ASSUME NEW t \in Users, WantDataLock(t) PROVE FoundInv'
    BY <1>10, <1>b, SameResults DEF WantDataLock
<1>11. ASSUME NEW t \in Users, EnterDataLock(t) PROVE FoundInv'
    BY <1>11, <1>b, SameResults DEF EnterDataLock
<1>12. ASSUME NEW t \in Users, RecheckPopulated(t) PROVE FoundInv'
    BY <1>12, <1>b, SameResults DEF RecheckPopulated, Leaves
<1>13. ASSUME NEW t \in Users, RecheckEmpty(t) PROVE FoundInv'
    BY <1>13, <1>b, SameResults DEF RecheckEmpty
<1>14. ASSUME NEW t \in Users, NEW p \in Props,
             FetchProperty(t, p)
      PROVE  FoundInv'
    BY <1>14, <1>b, SameResults DEF FetchProperty
<1>15. ASSUME NEW t \in Users, PopulateFromMap(t) PROVE FoundInv'
    BY <1>15, <1>b, SameResults DEF PopulateFromMap
<1>16. ASSUME NEW t \in Users, SetMapPopulated(t) PROVE FoundInv'
    BY <1>16, <1>b, SameResults DEF SetMapPopulated, Leaves
<1>17. ASSUME NEW t \in Users, CallClose(t) PROVE FoundInv'
    BY <1>17, <1>b, SameResults DEF CallClose, Calls
<1>18. ASSUME NEW t \in Users, CloseResults(t) PROVE FoundInv'
    BY <1>18, <1>b, SameResults DEF CloseResults
<1>19. ASSUME NEW t \in Users, EndClose(t) PROVE FoundInv'
    BY <1>19, <1>b, SameResults DEF EndClose, Leaves
<1>20. ASSUME NEW contains \in SUBSET Props, SetResults(contains)
       PROVE  FoundInv'
    <2>1. \A p : ResultsWith(p) \subseteq ResultsWith(p)'
        BY <1>20 DEF SetResults, SharedOK, NativeInv, ResultsWith, Results
    <2>. QED
        BY <1>20, <2>1 DEF SetResults
<1>21. CASE UNCHANGED vars
    BY <1>21, SameResults DEF vars
<1>. QED
    BY <1>1, <1>2, <1>3, <1>4, <1>5, <1>6, <1>7, <1>8, <1>9, <1>10,
       <1>11, <1>12, <1>13, <1>14, <1>15, <1>16, <1>17, <1>18, <1>19,
       <1>20, <1>21
    DEF Next, Get, AsKeyMap, Close

-----------------------------------------------------------------------------
(* The refinement                                                            *)

\* Where the code's search ends is what ElementData calls the first results.
LEMMA FirstIsFirst ==
    ASSUME TypeOK, NEW p, ResultsWith(p) # {}
    PROVE  Data!IsFirst(FirstWith(p), p) /\ FirstWith(p) \in Data!With(p)
<1>1. ResultsWith(p) \in SUBSET Nat
    BY DEF ResultsWith, Results, TypeOK
<1>2. PICK i \in ResultsWith(p) : \A j \in ResultsWith(p) : i <= j
    BY <1>1, SmallestOf
<1>3. FirstWith(p) \in ResultsWith(p) /\ FirstWith(p) \in Searched(p)
    BY <1>2 DEF FirstWith, Searched, ResultsWith
<1>4. Data!With(p) = ResultsWith(p)
    BY DEF Data!With, ResultsWith, Results
<1>. QED
    BY <1>3, <1>4 DEF Data!IsFirst, Searched

\* What thread t does to the data, as ElementData tells it.
DataStepOf(t) ==
    \/ Data!Forget(t) \/ Data!Close(t) \/ Data!Refuse(t) \/ Data!Miss(t)
    \/ Data!Throw(t) \/ Data!Keep(t) \/ Data!GiveMap(t) \/ Data!GivePart(t)
    \/ \E p \in Props, shape \in {"single", "weighted"} :
            Data!GiveValue(t, p, shape)
    \/ \E i \in DOMAIN resultsList : Data!Release(i)
    \/ UNCHANGED <<resultsList, deletes, closed, seenClosed, mapPopulated,
                   synced, answer>>

\* A getter whose state check throws refuses.
LEMMA RefuseStep ==
    ASSUME NEW t \in Users, StateThrows(t),
           UNCHANGED <<closed, resultsList, deletes, mapPopulated, synced>>
    PROVE  DataStepOf(t)
<1>1. Data!Refuse(t)
    BY DEF StateThrows, Leaves, Answer, NoRequest, Data!Refuse, Data!Tells, Data!Said
<1>. QED
    BY <1>1 DEF DataStepOf

\* Each step of a get is one step of ElementData, or none.
LEMMA GetStep ==
    ASSUME TInv, MapInv, ClosedInv, SeenInv, FoundInv, NEW t \in Users, Get(t)
    PROVE  DataStepOf(t)
<1> USE DEF nativeVars, mapVars, callVars
<1>a. TypeOK /\ LocalOK(t) /\ synced \subseteq seenPopulated
    BY TypesOf DEF TInv, SharedOK
<1>1. ASSUME NEW p \in Props, NEW shape \in Shapes, CallGet(t, p, shape)
      PROVE  DataStepOf(t)
    <2>1. Data!Forget(t)
        BY <1>1 DEF CallGet, Calls, Answer, NoRequest, Data!Forget, Data!Tells, Data!Said
    <2>. QED
        BY <2>1 DEF DataStepOf
<1>2. CASE CheckState(t)
    <2>1. CASE StateThrows(t)
        BY <1>2, <2>1, RefuseStep DEF CheckState
    <2>2. CASE UNCHANGED <<seenClosed, answer>>
        BY <1>2, <2>2 DEF CheckState, DataStepOf
    <2>. QED
        BY <1>2, <2>1, <2>2 DEF CheckState
<1>3. CASE GetFromMap(t)
    <2>1. mapPopulated /\ pc[t] = "flag" /\ t \notin seenClosed
        BY <1>3 DEF GetFromMap, ClosedInv
    <2>2. CASE t \notin synced /\ Leaves(t, Answer("missing"))
        <3>1. Data!Miss(t)
            BY <1>3, <2>1, <2>2
            DEF GetFromMap, Leaves, Answer, NoRequest, Data!Miss, Data!Tells, Data!Said
        <3>. QED
            BY <3>1 DEF DataStepOf
    <2>3. CASE asked[t][1] \in DOMAIN map
               /\ Leaves(t, Value(asked[t], "weighted", map[asked[t][1]]))
        <3>1. PICK p \in Props, shape \in Shapes : asked[t] = <<p, shape>>
            BY <1>a, <2>1 DEF LocalOK, Getting
        <3>2. map[p] = FirstWith(p) /\ ResultsWith(p) # {}
            BY <2>1, <2>3, <3>1 DEF MapInv, FoundInv
        <3>3. Data!IsFirst(map[p], p) /\ map[p] \in Data!With(p)
            BY <1>a, <3>2, FirstIsFirst
        <3>4. Data!Tells(t, [kind |-> "value", request |-> <<p, shape>>,
                             shape |-> "weighted", from |-> map[p]])
            BY <2>3, <3>1 DEF Leaves, Value, Data!Tells
        <3>5. Data!GiveValue(t, p, shape)
            BY <1>3, <2>1, <3>3, <3>4 DEF GetFromMap, Data!GiveValue
        <3>. QED
            BY <3>5 DEF DataStepOf, Shapes
    <2>. QED
        BY <1>3, <2>2, <2>3 DEF GetFromMap
<1>4. CASE NotPopulated(t) \/ EnterGetLock(t)
    BY <1>4 DEF NotPopulated, EnterGetLock, DataStepOf
<1>5. CASE PropertyIsAvailable(t)
    <2>1. /\ pc[t] = "available" /\ asked[t][1] \in Props
          /\ t \notin seenClosed \cup synced
        BY <1>5, <1>a
        DEF PropertyIsAvailable, LocalOK, Getting, ClosedInv, SeenInv, PastTheFlag
    <2>2. CASE StateThrows(t)
        BY <1>5, <2>2, RefuseStep DEF PropertyIsAvailable
    <2>3. CASE UNCHANGED <<seenClosed, answer>>
        BY <1>5, <2>3 DEF PropertyIsAvailable, DataStepOf
    <2>4. CASE /\ UNCHANGED seenClosed
               /\ ResultsWith(asked[t][1]) = {} /\ Leaves(t, Answer("missing"))
        <3>1. Data!With(asked[t][1]) = {}
            BY <2>4 DEF Data!With, ResultsWith, Results
        <3>2. Data!Miss(t)
            BY <1>5, <2>1, <2>4, <3>1
            DEF PropertyIsAvailable, Leaves, Answer, NoRequest,
                Data!Miss, Data!Tells, Data!Said
        <3>. QED
            BY <3>2 DEF DataStepOf
    <2>5. CASE UNCHANGED seenClosed /\ Leaves(t, Answer("thrown"))
        <3>1. Data!Throw(t)
            BY <1>5, <2>1, <2>5
            DEF PropertyIsAvailable, Leaves, Answer, NoRequest,
                Data!Throw, Data!Tells, Data!Said
        <3>. QED
            BY <3>1 DEF DataStepOf
    <2>. QED
        BY <1>5, <2>2, <2>3, <2>4, <2>5 DEF PropertyIsAvailable
<1>6. CASE ReadValue(t)
    <2>1. pc[t] = "read" /\ t \notin seenClosed \cup synced
        BY <1>6, <1>a DEF ReadValue, ClosedInv, SeenInv, PastTheFlag
    <2>2. CASE StateThrows(t)
        BY <1>6, <2>2, RefuseStep DEF ReadValue
    <2>3. CASE UNCHANGED seenClosed /\ Leaves(t, Answer("thrown"))
        <3>1. Data!Throw(t)
            BY <1>6, <2>1, <2>3
            DEF ReadValue, Leaves, Answer, NoRequest, Data!Throw, Data!Tells, Data!Said
        <3>. QED
            BY <3>1 DEF DataStepOf
    <2>4. CASE UNCHANGED seenClosed /\ Gives(t, SingleResults(asked[t][1]))
        <3>1. CASE dataLock = t
            BY <1>6, <2>4, <3>1 DEF ReadValue, Gives, DataStepOf
        <3>2. CASE dataLock # t
            <4>1. PICK p \in Props, shape \in Shapes : asked[t] = <<p, shape>>
                BY <1>a, <2>1 DEF LocalOK, Getting
            <4>2. ResultsWith(p) # {} /\ SingleResults(p) = FirstWith(p)
                BY <1>a, <2>1, <4>1, FirstWithFound DEF LocalOK
            <4>3. /\ Data!IsFirst(SingleResults(p), p)
                  /\ SingleResults(p) \in Data!With(p)
                BY <1>a, <4>2, FirstIsFirst
            <4>4. Data!Tells(t, [kind |-> "value", request |-> <<p, shape>>,
                                 shape |-> shape, from |-> SingleResults(p)])
                BY <2>4, <3>2, <4>1 DEF Gives, Leaves, Value, Data!Tells
            <4>5. Data!GiveValue(t, p, shape)
                BY <1>6, <2>1, <2>4, <4>3, <4>4 DEF ReadValue, Data!GiveValue
            <4>. QED
                BY <4>5 DEF DataStepOf, Shapes
        <3>. QED
            BY <3>1, <3>2
    <2>. QED
        BY <1>6, <2>2, <2>3, <2>4 DEF ReadValue
<1>. QED
    BY <1>1, <1>2, <1>3, <1>4, <1>5, <1>6 DEF Get

\* Of the steps of asKeyMap only those that return the map are seen outside.
LEMMA KeyMapStep ==
    ASSUME TInv, LockDiscipline, PopulatingInv, SeenInv, FoundInv,
           NEW t \in Users, AsKeyMap(t)
    PROVE  DataStepOf(t)
<1> USE DEF nativeVars, mapVars, callVars
<1>1. CASE CallKeyMap(t)
    <2>1. Data!Forget(t)
        BY <1>1 DEF CallKeyMap, Calls, Answer, NoRequest,
                    Data!Forget, Data!Tells, Data!Said
    <2>. QED
        BY <2>1 DEF DataStepOf
<1>2. CASE ReturnMap(t)
    <2>1. CASE Leaves(t, Answer("map"))
        <3>1. Data!GiveMap(t)
            BY <1>2, <2>1 DEF ReturnMap, Leaves, Answer, NoRequest,
                              Data!GiveMap, Data!Tells, Data!Said
        <3>. QED
            BY <3>1 DEF DataStepOf
    <2>2. CASE t \notin synced /\ Leaves(t, Answer("partial"))
        <3>1. Data!GivePart(t)
            BY <1>2, <2>2 DEF ReturnMap, Leaves, Answer, NoRequest,
                              Data!GivePart, Data!Tells, Data!Said
        <3>. QED
            BY <3>1 DEF DataStepOf
    <2>. QED
        BY <1>2, <2>1, <2>2 DEF ReturnMap
<1>3. CASE \/ WantDataLock(t) \/ EnterDataLock(t) \/ RecheckEmpty(t)
           \/ (\E p \in Props : FetchProperty(t, p)) \/ PopulateFromMap(t)
    BY <1>3 DEF WantDataLock, EnterDataLock, RecheckEmpty, FetchProperty,
                PopulateFromMap, DataStepOf
<1>4. CASE RecheckPopulated(t)
    <2>1. Data!GiveMap(t)
        BY <1>4 DEF RecheckPopulated, Leaves, Answer, NoRequest,
                    Data!GiveMap, Data!Tells, Data!Said
    <2>. QED
        BY <2>1 DEF DataStepOf
<1>5. CASE SetMapPopulated(t)
    <2>1. pc[t] = "store" /\ ~mapPopulated /\ DOMAIN built[t] = Props
        BY <1>5 DEF SetMapPopulated, LockDiscipline, PopulatingInv, SeenInv
    <2>2. t \in seenClosed => Props = {}
        BY <2>1 DEF SeenInv
    <2>3. \A p \in Props : Data!With(p) # {}
        BY <2>1 DEF FoundInv, Data!With, ResultsWith, Results
    <2>4. Data!Keep(t)
        BY <1>5, <2>1, <2>2, <2>3
        DEF SetMapPopulated, Leaves, Answer, NoRequest,
            Data!Keep, Data!Tells, Data!Said
    <2>. QED
        BY <2>4 DEF DataStepOf
<1>. QED
    BY <1>1, <1>2, <1>3, <1>4, <1>5 DEF AsKeyMap

\* The loop of close() releases what is still there and skips the rest.
LEMMA CloseStep ==
    ASSUME TInv, ReleaseInv, NEW t \in Users, Close(t)
    PROVE  DataStepOf(t)
<1> USE DEF nativeVars, mapVars, callVars
<1>1. CASE CallClose(t)
    <2>1. Data!Close(t)
        BY <1>1 DEF CallClose, Calls, Answer, NoRequest,
                    Data!Close, Data!Tells, Data!Said
    <2>. QED
        BY <2>1 DEF DataStepOf
<1>2. CASE CloseResults(t)
    <2> DEFINE i == cursor[t]
    <2>1. i \in 1 .. Len(resultsList) /\ i \in Results /\ i \in DOMAIN resultsList
        BY <1>2 DEF CloseResults, TInv, LocalOK, SharedOK, NativeInv, Results
    <2>2. closed
        BY <1>2 DEF CloseResults, ReleaseInv
    <2>3. CASE swigCMemOwn[i]
        <3>1. deletes[i] = 0 /\ deletes' = [deletes EXCEPT ![i] = 1]
            BY <1>2, <2>1, <2>3 DEF CloseResults, Delete, ReleaseInv
        <3>2. Data!Release(i)
            BY <1>2, <2>1, <2>2, <3>1 DEF CloseResults, Data!Release
        <3>. QED
            BY <2>1, <3>2 DEF DataStepOf
    <2>4. CASE ~swigCMemOwn[i]
        BY <1>2, <2>4 DEF CloseResults, Delete, DataStepOf
    <2>. QED
        BY <2>3, <2>4
<1>3. CASE EndClose(t)
    <2>1. Data!Forget(t)
        BY <1>3 DEF EndClose, Leaves, Answer, NoRequest,
                    Data!Forget, Data!Tells, Data!Said
    <2>. QED
        BY <2>1 DEF DataStepOf
<1>. QED
    BY <1>1, <1>2, <1>3 DEF Close

\* All that the steps above rely on.
DataInv ==
    /\ TInv /\ LockDiscipline /\ PopulatingInv /\ ClosedInv /\ ReleaseInv
    /\ UnusedInv /\ BuiltInv /\ MapInv /\ SeenInv /\ FoundInv

LEMMA DataInvariant == Spec => []DataInv
<1>1. Init => DataInv
    <2>1. DOMAIN <<>> = {}
        OBVIOUS
    <2>2. Init => SeenInv /\ FoundInv
        BY <2>1 DEF Init, SeenInv, FoundInv, PastTheFlag
    <2>3. Init => LockDiscipline /\ PopulatingInv /\ ClosedInv /\ UnusedInv
        BY UserAssumption
        DEF Init, LockDiscipline, PopulatingInv, ClosedInv, UnusedInv
    <2>4. Init => ReleaseInv /\ BuiltInv /\ MapInv
        BY <2>1 DEF Init, ReleaseInv, BuiltInv, MapInv, Results
    <2>. QED
        BY <2>2, <2>3, <2>4, InitTypes DEF DataInv
<1>2. DataInv /\ [Next]_vars => DataInv'
    BY TypeStep, LockStep, PopulatingStep, ClosedStep, ReleaseStep, UnusedStep,
       BuiltStep, MapStep, SeenStep, FoundStep
    DEF DataInv
<1>. QED
    BY <1>1, <1>2, PTL DEF Spec

LEMMA DataNextStep ==
    ASSUME DataInv, [Next]_vars
    PROVE  [Data!DataNext]_<<resultsList, deletes, closed, seenClosed,
                             mapPopulated, synced, answer>>
<1>1. ASSUME NEW contains \in SUBSET Props, SetResults(contains)
      PROVE  Data!DataNext
    <2>1. Data!AddResults(contains)
        BY <1>1
        DEF SetResults, Unused, UnusedInv, DataInv, mapVars, callVars,
            Data!AddResults
    <2>. QED
        BY <2>1 DEF Data!DataNext
<1>2. ASSUME NEW t \in Users, Get(t) \/ AsKeyMap(t) \/ Close(t)
      PROVE  [Data!DataNext]_<<resultsList, deletes, closed, seenClosed,
                               mapPopulated, synced, answer>>
    <2>1. DataStepOf(t)
        BY <1>2, GetStep, KeyMapStep, CloseStep DEF DataInv
    <2>. QED
        BY <2>1 DEF DataStepOf, Data!DataNext
<1>3. CASE UNCHANGED vars
    BY <1>3 DEF vars, nativeVars, mapVars, callVars
<1>. QED
    BY <1>1, <1>2, <1>3 DEF Next

\* For any number of threads, properties and native results: whatever gets,
\* asKeyMap calls and closes do in whatever order, the threads that share the
\* data of a request see the steps of ElementData and nothing else.
THEOREM ElementDataTheorem == Spec => ServesElementData
<1>1. Init => Data!DataInit
    BY DEF Init, Answer, NoRequest, Data!DataInit, Data!Said
<1>2. DataInv /\ [Next]_vars
        => [Data!DataNext]_<<resultsList, deletes, closed, seenClosed,
                             mapPopulated, synced, answer>>
    BY DataNextStep
<1>. QED
    BY <1>1, <1>2, DataInvariant, PTL
    DEF Spec, ServesElementData, Data!DataSpec

-----------------------------------------------------------------------------
(* What a populated map changes, and that it does not change                 *)

\* A map, whole or in part, is only given when it is populated, and only then is
\* a value of another shape than the one that was asked for.
MappedInv ==
    \A t \in Users :
        /\ answer[t].kind \in {"map", "partial"} => mapPopulated
        /\ answer[t].kind = "value" =>
              answer[t].shape = answer[t].request[2] \/ mapPopulated

LEMMA MappedStep ==
    ASSUME TInv, MappedInv, [Next]_vars
    PROVE  MappedInv'
<1> USE DEF TInv, Shape, MappedInv, Goes, nativeVars, mapVars, callVars, Answer, Value
<1>1. ASSUME NEW t \in Users, NEW p \in Props, NEW shape \in Shapes,
             CallGet(t, p, shape)
      PROVE  MappedInv'
    BY <1>1 DEF CallGet, Calls
<1>2. ASSUME NEW t \in Users, CheckState(t) PROVE MappedInv'
    BY <1>2 DEF CheckState, StateThrows, Leaves, StatePasses
<1>3. ASSUME NEW t \in Users, GetFromMap(t) PROVE MappedInv'
    BY <1>3 DEF GetFromMap, Leaves
<1>4. ASSUME NEW t \in Users, NotPopulated(t) PROVE MappedInv'
    BY <1>4 DEF NotPopulated
<1>5. ASSUME NEW t \in Users, PropertyIsAvailable(t) PROVE MappedInv'
    BY <1>5 DEF PropertyIsAvailable, StateThrows, Leaves, StatePasses
<1>6. ASSUME NEW t \in Users, EnterGetLock(t) PROVE MappedInv'
    BY <1>6 DEF EnterGetLock
<1>7. ASSUME NEW t \in Users, ReadValue(t) PROVE MappedInv'
    <2>1. mapPopulated' = mapPopulated
        BY <1>7 DEF ReadValue
    <2>2. CASE StateThrows(t)
        BY <2>1, <2>2 DEF StateThrows, Leaves
    <2>3. CASE Leaves(t, Answer("thrown"))
        BY <2>1, <2>3 DEF Leaves
    <2>4. CASE Gives(t, SingleResults(asked[t][1]))
        <3>1. CASE dataLock = t
            BY <2>1, <2>4, <3>1 DEF Gives
        <3>2. CASE dataLock # t
            BY <2>1, <2>4, <3>2 DEF Gives, Leaves
        <3>. QED
            BY <3>1, <3>2
    <2>. QED
        BY <1>7, <2>2, <2>3, <2>4 DEF ReadValue
<1>8. ASSUME NEW t \in Users, CallKeyMap(t) PROVE MappedInv'
    BY <1>8 DEF CallKeyMap, Calls
<1>9. ASSUME NEW t \in Users, ReturnMap(t) PROVE MappedInv'
    BY <1>9 DEF ReturnMap, Leaves
<1>10. ASSUME NEW t \in Users, WantDataLock(t) PROVE MappedInv'
    BY <1>10 DEF WantDataLock
<1>11. ASSUME NEW t \in Users, EnterDataLock(t) PROVE MappedInv'
    BY <1>11 DEF EnterDataLock
<1>12. ASSUME NEW t \in Users, RecheckPopulated(t) PROVE MappedInv'
    BY <1>12 DEF RecheckPopulated, Leaves
<1>13. ASSUME NEW t \in Users, RecheckEmpty(t) PROVE MappedInv'
    BY <1>13 DEF RecheckEmpty
<1>14. ASSUME NEW t \in Users, NEW p \in Props,
             FetchProperty(t, p)
      PROVE  MappedInv'
    BY <1>14 DEF FetchProperty
<1>15. ASSUME NEW t \in Users, PopulateFromMap(t) PROVE MappedInv'
    BY <1>15 DEF PopulateFromMap
<1>16. ASSUME NEW t \in Users, SetMapPopulated(t) PROVE MappedInv'
    BY <1>16 DEF SetMapPopulated, Leaves
<1>17. ASSUME NEW t \in Users, CallClose(t) PROVE MappedInv'
    BY <1>17 DEF CallClose, Calls
<1>18. ASSUME NEW t \in Users, CloseResults(t) PROVE MappedInv'
    BY <1>18 DEF CloseResults
<1>19. ASSUME NEW t \in Users, EndClose(t) PROVE MappedInv'
    BY <1>19 DEF EndClose, Leaves
<1>20. ASSUME NEW contains \in SUBSET Props, SetResults(contains)
       PROVE  MappedInv'
    BY <1>20 DEF SetResults, Unused
<1>21. CASE UNCHANGED vars
    BY <1>21 DEF vars
<1>. QED
    BY <1>1, <1>2, <1>3, <1>4, <1>5, <1>6, <1>7, <1>8, <1>9, <1>10,
       <1>11, <1>12, <1>13, <1>14, <1>15, <1>16, <1>17, <1>18, <1>19,
       <1>20, <1>21
    DEF Next, Get, AsKeyMap, Close

\* Until asKeyMap has succeeded a getter keeps its type and a closed instance
\* throws, for any number of threads that race with the population.
THEOREM PromisesTheorem == Spec => []PromisesKeptUntilMapped
<1>1. Init => MappedInv
    <2>1. ASSUME Init, NEW t \in Users
          PROVE  answer[t].kind = "none"
        BY <2>1 DEF Init, Answer
    <2>. QED
        BY <2>1 DEF MappedInv
<1>2. TInv /\ MappedInv /\ [Next]_vars => MappedInv'
    BY MappedStep
<1>3. TInv /\ ClosedInv /\ MappedInv => PromisesKeptUntilMapped
    BY DEF TInv, SharedOK, LocalOK, Kinds, ClosedInv, MappedInv,
           PromisesKeptUntilMapped, ClosedThrows, GetterKeepsType
<1>4. DataInv => TInv /\ ClosedInv
    BY DEF DataInv
<1>. QED
    BY <1>1, <1>2, <1>3, <1>4, DataInvariant, PTL DEF Spec

\* Once it is populated the map stays as it is, through every later get, asKeyMap
\* and close: mapPopulated is never reset, and no second population replaces it.
THEOREM MapStaysTheorem == Spec => [][mapPopulated => mapPopulated' /\ map' = map]_vars
<1>1. ASSUME DataInv, [Next]_vars, mapPopulated
      PROVE  mapPopulated' /\ map' = map
    <2> USE <1>1 DEF nativeVars, mapVars, callVars
    <2>1. ASSUME NEW t \in Users, PopulateFromMap(t)
          PROVE  FALSE
        BY <2>1 DEF PopulateFromMap, Goes, DataInv, LockDiscipline, PopulatingInv
    <2>2. ASSUME NEW t \in Users, Get(t)
          PROVE  mapPopulated' /\ map' = map
        BY <2>2 DEF Get, CallGet, CheckState, GetFromMap, NotPopulated,
                    PropertyIsAvailable, EnterGetLock, ReadValue
    <2>3. ASSUME NEW t \in Users, AsKeyMap(t)
          PROVE  mapPopulated' /\ map' = map
        BY <2>1, <2>3
        DEF AsKeyMap, CallKeyMap, ReturnMap, WantDataLock, EnterDataLock,
            RecheckPopulated, RecheckEmpty, FetchProperty, SetMapPopulated
    <2>4. ASSUME NEW t \in Users, Close(t)
          PROVE  mapPopulated' /\ map' = map
        BY <2>4 DEF Close, CallClose, CloseResults, EndClose
    <2>5. ASSUME NEW contains \in SUBSET Props, SetResults(contains)
          PROVE  mapPopulated' /\ map' = map
        BY <2>5 DEF SetResults
    <2>6. CASE UNCHANGED vars
        BY <2>6 DEF vars
    <2>. QED
        BY <2>2, <2>3, <2>4, <2>5, <2>6 DEF Next
<1>2. DataInv /\ [Next]_vars => [mapPopulated => mapPopulated' /\ map' = map]_vars
    BY <1>1
<1>. QED
    BY <1>2, DataInvariant, PTL DEF Spec
=============================================================================
