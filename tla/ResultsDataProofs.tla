------------------------- MODULE ResultsDataProofs -------------------------
(***************************************************************************)
(* What holds of the data of one request for any number of threads,        *)
(* properties and native results.                                          *)
(***************************************************************************)
EXTENDS ResultsData, SequenceTheorems, WellFoundedInduction, TLAPS

\* A set of natural numbers that is not empty has a smallest element.
LEMMA SmallestOf ==
    ASSUME NEW S \in SUBSET Nat, S # {}
    PROVE  \E i \in S : \A j \in S : i <= j
<1> DEFINE Less == OpToRel(<, Nat)
<1>1. IsWellFoundedOn(Less, Nat)
    BY NatLessThanWellFounded
<1> HIDE DEF Less
<1>2. PICK i \in S : \A j \in S : <<j, i>> \notin Less
    BY <1>1, WFMin
<1>3. \A j \in S : ~(j < i)
    BY <1>2 DEF Less, OpToRel
<1>. QED
    BY <1>3

\* The search for a property ends at a results object that contains it.
LEMMA FirstWithFound ==
    ASSUME TypeOK, NEW p, ResultsWith(p) # {}
    PROVE  /\ FirstWith(p) \in ResultsWith(p)
           /\ FirstWith(p) \in Results
           /\ SingleResults(p) = FirstWith(p)
<1>1. Len(resultsList) \in Nat /\ Results = 1 .. Len(resultsList)
    BY DEF TypeOK, Results
<1>2. ResultsWith(p) \in SUBSET Nat
    BY <1>1 DEF ResultsWith
<1>3. PICK i \in ResultsWith(p) : \A j \in ResultsWith(p) : i <= j
    BY <1>2, SmallestOf
<1>4. i \in Searched(p)
    BY <1>3 DEF Searched, ResultsWith
<1>5. FirstWith(p) \in ResultsWith(p)
    BY <1>3, <1>4 DEF FirstWith
<1>6. FirstWith(p) \in Results
    BY <1>5 DEF ResultsWith
<1>7. Len(resultsList) = 1 => FirstWith(p) = 1
    BY <1>1, <1>6
<1>. QED
    BY <1>5, <1>6, <1>7 DEF SingleResults

\* Who contains a property is decided by resultsList alone.
LEMMA SameResults ==
    ASSUME resultsList' = resultsList
    PROVE  /\ Results' = Results
           /\ \A p : ResultsWith(p)' = ResultsWith(p)
           /\ \A p : FirstWith(p)' = FirstWith(p)
           /\ \A p : SingleResults(p)' = SingleResults(p)
<1>1. Results' = Results
    BY DEF Results
<1>2. \A p : ResultsWith(p)' = ResultsWith(p)
    BY <1>1 DEF ResultsWith
<1>3. \A p : Searched(p)' = Searched(p)
    BY <1>1, <1>2 DEF Searched
<1>4. \A p : FirstWith(p)' = FirstWith(p)
    BY <1>2, <1>3 DEF FirstWith
<1>. QED
    BY <1>1, <1>2, <1>4 DEF SingleResults

-----------------------------------------------------------------------------
(* Types                                                                     *)

Getting == {"check", "flag", "available", "enter", "read"}

\* Who owns what, one entry per native results object.
NativeInv ==
    /\ resultsList \in Seq(SUBSET Props)
    /\ swigCMemOwn \in Seq(BOOLEAN) /\ Len(swigCMemOwn) = Len(resultsList)
    /\ deletes \in Seq(Nat) /\ Len(deletes) = Len(resultsList)

\* The type of what a thread keeps to itself.  A get knows its property, and
\* past the check of availability there are results that contain it.
LocalOK(t) ==
    /\ pc[t] \in Labels
    /\ asked[t] \in (Props \X Shapes) \cup {NoRequest}
    /\ cursor[t] \in 1 .. MaxResults + 1
    /\ DOMAIN built[t] \subseteq Props
    /\ \A p \in DOMAIN built[t] : built[t][p] \in Results
    /\ answer[t].kind \in Kinds
    /\ answer[t].kind = "value" => answer[t].from \in Results
    /\ pc[t] \in Getting => asked[t] \in Props \X Shapes
    /\ pc[t] \in {"enter", "read"} => ResultsWith(asked[t][1]) # {}

Shape ==
    /\ pc = [t \in Users |-> pc[t]]
    /\ asked = [t \in Users |-> asked[t]]
    /\ cursor = [t \in Users |-> cursor[t]]
    /\ built = [t \in Users |-> built[t]]
    /\ answer = [t \in Users |-> answer[t]]

\* What belongs to all of them.
SharedOK ==
    /\ closed \in BOOLEAN /\ mapPopulated \in BOOLEAN
    /\ NativeInv
    /\ Len(resultsList) <= MaxResults
    /\ DOMAIN map \subseteq Props /\ \A p \in DOMAIN map : map[p] \in Results
    /\ {dataLock, getLock} \subseteq Users \cup {NoThread}
    /\ seenClosed \subseteq (IF closed THEN Users ELSE {})
    /\ synced \subseteq seenPopulated
    /\ seenPopulated \subseteq (IF mapPopulated THEN Users ELSE {})

TInv == Shape /\ SharedOK /\ \A t \in Users : LocalOK(t)

LEMMA TypesOf == TInv => TypeOK
<1> SUFFICES ASSUME TInv PROVE TypeOK
    OBVIOUS
<1>1. pc \in [Users -> Labels] /\ asked \in [Users -> (Props \X Shapes) \cup {NoRequest}]
    BY DEF TInv, Shape, LocalOK
<1>2. cursor \in [Users -> 1 .. MaxResults + 1]
    BY DEF TInv, Shape, LocalOK
<1>3. swigCMemOwn \in [Results -> BOOLEAN] /\ deletes \in [Results -> Nat]
    BY DEF TInv, SharedOK, NativeInv, Results
<1>. QED
    BY <1>1, <1>2, <1>3 DEF TypeOK, TInv, SharedOK, NativeInv, LocalOK

\* An action of thread t leaves the locals of the others alone.
LEMMA OthersKeep ==
    ASSUME TInv, NEW t \in Users, resultsList' = resultsList,
           \E l \in Labels : pc' = [pc EXCEPT ![t] = l],
           \E x : asked' = [asked EXCEPT ![t] = x],
           \E x : built' = [built EXCEPT ![t] = x],
           \E x : answer' = [answer EXCEPT ![t] = x],
           \E x : cursor' = [cursor EXCEPT ![t] = x],
           LocalOK(t)'
    PROVE  Shape' /\ \A u \in Users : LocalOK(u)'
<1>1. Shape'
    BY DEF TInv, Shape
<1>2. ASSUME NEW u \in Users, u # t PROVE LocalOK(u)'
    <2>1. /\ pc'[u] = pc[u] /\ asked'[u] = asked[u] /\ built'[u] = built[u]
          /\ answer'[u] = answer[u] /\ cursor'[u] = cursor[u]
        BY <1>2 DEF TInv, Shape
    <2>2. LocalOK(u)
        BY DEF TInv
    <2>. QED
        BY <2>1, <2>2, SameResults DEF LocalOK
<1>. QED
    BY <1>1, <1>2

LEMMA GoesOK ==
    ASSUME TInv, NEW t \in Users, NEW from, NEW to \in Labels,
           Goes(t, from, to), resultsList' = resultsList,
           UNCHANGED <<asked, built, answer, cursor>>,
           to \in Getting => from \in Getting,
           to \in {"enter", "read"} => ResultsWith(asked[t][1]) # {}
    PROVE  Shape' /\ \A u \in Users : LocalOK(u)'
<1>1. LocalOK(t) /\ Shape
    BY DEF TInv
<1>2. pc'[t] = to /\ pc[t] = from
    BY <1>1 DEF Shape, Goes
<1>3. LocalOK(t)'
    BY <1>1, <1>2, SameResults DEF LocalOK
<1>4. /\ \E l \in Labels : pc' = [pc EXCEPT ![t] = l]
      /\ \E x : asked' = [asked EXCEPT ![t] = x]
      /\ \E x : built' = [built EXCEPT ![t] = x]
      /\ \E x : answer' = [answer EXCEPT ![t] = x]
      /\ \E x : cursor' = [cursor EXCEPT ![t] = x]
    <2>1. /\ asked' = [asked EXCEPT ![t] = asked[t]]
          /\ built' = [built EXCEPT ![t] = built[t]]
          /\ answer' = [answer EXCEPT ![t] = answer[t]]
          /\ cursor' = [cursor EXCEPT ![t] = cursor[t]]
        BY <1>1 DEF Shape
    <2>. QED
        BY <2>1 DEF Goes
<1>. QED
    BY <1>3, <1>4, OthersKeep

LEMMA LeavesOK ==
    ASSUME TInv, NEW t \in Users, NEW result, Leaves(t, result),
           result.kind \in Kinds,
           result.kind = "value" => result.from \in Results,
           resultsList' = resultsList, cursor' = cursor
    PROVE  /\ Shape' /\ \A u \in Users : LocalOK(u)'
           /\ dataLock' \in {dataLock, NoThread}
<1>1. LocalOK(t) /\ Shape
    BY DEF TInv
<1>2. /\ pc'[t] = "idle" /\ asked'[t] = NoRequest /\ built'[t] = <<>>
      /\ answer'[t] = result /\ cursor'[t] = cursor[t]
    BY <1>1 DEF Shape, Leaves
<1>3. LocalOK(t)'
    <2>1. DOMAIN <<>> = {}
        OBVIOUS
    <2>. QED
        BY <1>1, <1>2, <2>1, SameResults DEF LocalOK, Labels, Getting
<1>4. /\ \E l \in Labels : pc' = [pc EXCEPT ![t] = l]
      /\ \E x : asked' = [asked EXCEPT ![t] = x]
      /\ \E x : built' = [built EXCEPT ![t] = x]
      /\ \E x : answer' = [answer EXCEPT ![t] = x]
      /\ \E x : cursor' = [cursor EXCEPT ![t] = x]
    <2>1. cursor' = [cursor EXCEPT ![t] = cursor[t]]
        BY <1>1 DEF Shape
    <2>2. "idle" \in Labels
        BY DEF Labels
    <2>. QED
        BY <2>1, <2>2 DEF Leaves
<1>5. dataLock' \in {dataLock, NoThread}
    BY DEF Leaves
<1>. QED
    BY <1>3, <1>4, <1>5, OthersKeep

LEMMA CallsOK ==
    ASSUME TInv, NEW t \in Users, NEW label \in Labels \ {"enter", "read"},
           NEW request \in (Props \X Shapes) \cup {NoRequest},
           Calls(t, label, request),
           label \in Getting => request \in Props \X Shapes,
           resultsList' = resultsList,
           NEW k \in 1 .. MaxResults + 1, cursor' = [cursor EXCEPT ![t] = k]
    PROVE  Shape' /\ (\A u \in Users : LocalOK(u)') /\ dataLock' = dataLock
<1>1. LocalOK(t) /\ Shape
    BY DEF TInv
<1>2. /\ pc'[t] = label /\ asked'[t] = request /\ built' = built
      /\ answer'[t] = Answer("none") /\ cursor'[t] = k
    BY <1>1 DEF Shape, Calls, Goes
<1>3. LocalOK(t)'
    BY <1>1, <1>2, SameResults DEF LocalOK, Answer, Kinds
<1>4. /\ \E l \in Labels : pc' = [pc EXCEPT ![t] = l]
      /\ \E x : asked' = [asked EXCEPT ![t] = x]
      /\ \E x : built' = [built EXCEPT ![t] = x]
      /\ \E x : answer' = [answer EXCEPT ![t] = x]
      /\ \E x : cursor' = [cursor EXCEPT ![t] = x]
    <2>1. built' = [built EXCEPT ![t] = built[t]]
        BY <1>1, <1>2 DEF Shape
    <2>. QED
        BY <2>1 DEF Calls, Goes
<1>. QED
    BY <1>3, <1>4, OthersKeep DEF Calls

LEMMA GivesOK ==
    ASSUME TInv, NEW t \in Users, NEW i \in Results, Gives(t, i),
           pc[t] = "read", resultsList' = resultsList, cursor' = cursor
    PROVE  /\ Shape' /\ \A u \in Users : LocalOK(u)'
           /\ dataLock' \in {dataLock, NoThread}
<1>1. LocalOK(t) /\ Shape
    BY DEF TInv
<1>2. CASE dataLock = t
    <2> DEFINE b == [p \in DOMAIN built[t] \cup {asked[t][1]} |->
                        IF p \in DOMAIN built[t] THEN built[t][p] ELSE i]
    <2>1. /\ pc' = [pc EXCEPT ![t] = "fetch"]
          /\ built' = [built EXCEPT ![t] = b]
          /\ asked' = [asked EXCEPT ![t] = NoRequest]
          /\ answer' = answer /\ dataLock' = dataLock
        BY <1>2 DEF Gives
    <2>2. asked[t][1] \in Props
        BY <1>1 DEF LocalOK, Getting
    <2>3. DOMAIN b \subseteq Props /\ \A p \in DOMAIN b : b[p] \in Results
        BY <1>1, <2>2 DEF LocalOK
    <2> HIDE DEF b
    <2>4. /\ pc'[t] = "fetch" /\ asked'[t] = NoRequest /\ built'[t] = b
          /\ answer'[t] = answer[t] /\ cursor'[t] = cursor[t]
        BY <1>1, <2>1 DEF Shape
    <2>5. LocalOK(t)'
        BY <1>1, <2>3, <2>4, SameResults DEF LocalOK, Labels, Getting
    <2>6. /\ \E l \in Labels : pc' = [pc EXCEPT ![t] = l]
          /\ \E x : asked' = [asked EXCEPT ![t] = x]
          /\ \E x : built' = [built EXCEPT ![t] = x]
          /\ \E x : answer' = [answer EXCEPT ![t] = x]
          /\ \E x : cursor' = [cursor EXCEPT ![t] = x]
        <3>1. /\ cursor' = [cursor EXCEPT ![t] = cursor[t]]
              /\ answer' = [answer EXCEPT ![t] = answer[t]]
            BY <1>1, <2>1 DEF Shape
        <3>2. "fetch" \in Labels
            BY DEF Labels
        <3>. QED
            BY <2>1, <3>1, <3>2
    <2>. QED
        BY <2>1, <2>5, <2>6, OthersKeep
<1>3. CASE dataLock # t
    <2>1. Leaves(t, Value(asked[t], asked[t][2], i))
        BY <1>3 DEF Gives
    <2>. QED
        BY <2>1, LeavesOK DEF Value, Kinds
<1>. QED
    BY <1>2, <1>3

\* Every step of every operation keeps the types.
LEMMA TypeStep ==
    ASSUME TInv, [Next]_vars
    PROVE  TInv'
<1> USE UserAssumption, ResultsAssumption DEF nativeVars, mapVars, callVars
<1>a. Shape /\ SharedOK /\ TypeOK
    BY TypesOf DEF TInv
<1>b. \A t \in Users : cursor[t] \in 1 .. MaxResults + 1
                       /\ cursor = [cursor EXCEPT ![t] = cursor[t]]
    BY <1>a DEF TInv, LocalOK, Shape
<1>c. ASSUME NEW contains \in SUBSET Props, SetResults(contains) PROVE TInv'
    <2> USE <1>c DEF SetResults
    <2>1. NativeInv'
        BY <1>a DEF SharedOK, NativeInv
    <2>2. Results \subseteq Results'
        BY <1>a DEF Results, SharedOK, NativeInv
    <2>3. SharedOK'
        BY <1>a, <2>1, <2>2 DEF SharedOK, NativeInv
    <2>4. \A t \in Users : pc[t] = "idle"
        BY DEF Unused
    <2>5. \A t \in Users : LocalOK(t)'
        BY <2>2, <2>4 DEF TInv, LocalOK, Getting
    <2>. QED
        BY <1>a, <2>3, <2>5 DEF TInv, Shape
<1>1. ASSUME NEW t \in Users, NEW p \in Props, NEW shape \in Shapes,
             CallGet(t, p, shape)
      PROVE  TInv'
    <2>1. Shape' /\ (\A u \in Users : LocalOK(u)') /\ dataLock' = dataLock
        BY <1>1, <1>b, CallsOK DEF CallGet, Labels, Getting
    <2>. QED
        BY <1>1, <1>a, <2>1, SameResults DEF TInv, SharedOK, NativeInv, CallGet
<1>2. ASSUME NEW t \in Users, CallKeyMap(t) PROVE TInv'
    <2>1. Shape' /\ (\A u \in Users : LocalOK(u)') /\ dataLock' = dataLock
        BY <1>2, <1>b, CallsOK DEF CallKeyMap, Labels, Getting
    <2>. QED
        BY <1>2, <1>a, <2>1, SameResults DEF TInv, SharedOK, NativeInv, CallKeyMap
<1>3. ASSUME NEW t \in Users, CallClose(t) PROVE TInv'
    <2>1. 1 \in 1 .. MaxResults + 1
        OBVIOUS
    <2>2. Shape' /\ (\A u \in Users : LocalOK(u)') /\ dataLock' = dataLock
        BY <1>3, <2>1, CallsOK DEF CallClose, Labels, Getting
    <2>. QED
        BY <1>3, <1>a, <2>2, SameResults DEF TInv, SharedOK, NativeInv, CallClose
<1>4. ASSUME NEW t \in Users, StateThrows(t), UNCHANGED <<cursor, resultsList>>
      PROVE  Shape' /\ (\A u \in Users : LocalOK(u)')
             /\ dataLock' \in {dataLock, NoThread}
    BY <1>4, LeavesOK DEF StateThrows, Answer, Kinds
<1>5. ASSUME NEW t \in Users, CheckState(t) PROVE TInv'
    <2>1. Shape' /\ (\A u \in Users : LocalOK(u)')
          /\ dataLock' \in {dataLock, NoThread}
        <3>1. CASE StateThrows(t)
            BY <3>1, <1>4, <1>5 DEF CheckState
        <3>2. CASE Goes(t, "check", "flag")
                   /\ UNCHANGED <<asked, built, answer, dataLock>>
            BY <3>2, <1>5, GoesOK DEF CheckState, Labels, Getting
        <3>. QED
            BY <1>5, <3>1, <3>2 DEF CheckState
    <2>2. seenClosed' \subseteq (IF closed THEN Users ELSE {})
        BY <1>5, <1>a DEF CheckState, StateThrows, SharedOK
    <2>. QED
        BY <1>5, <1>a, <2>1, <2>2, SameResults DEF TInv, SharedOK, NativeInv, CheckState
<1>6. ASSUME NEW t \in Users, GetFromMap(t) PROVE TInv'
    <2>1. Shape' /\ (\A u \in Users : LocalOK(u)')
          /\ dataLock' \in {dataLock, NoThread}
        <3>1. CASE Leaves(t, Answer("missing"))
            BY <3>1, <1>6, LeavesOK DEF GetFromMap, Answer, Kinds
        <3>2. CASE asked[t][1] \in DOMAIN map
                   /\ Leaves(t, Value(asked[t], "weighted", map[asked[t][1]]))
            <4>1. map[asked[t][1]] \in Results
                BY <3>2, <1>a DEF SharedOK
            <4>. QED
                BY <3>2, <4>1, <1>6, LeavesOK DEF GetFromMap, Value, Kinds
        <3>. QED
            BY <1>6, <3>1, <3>2 DEF GetFromMap
    <2>. QED
        BY <1>6, <1>a, <2>1, SameResults DEF TInv, SharedOK, NativeInv, GetFromMap
<1>7. ASSUME NEW t \in Users, NotPopulated(t) PROVE TInv'
    <2>1. Shape' /\ (\A u \in Users : LocalOK(u)')
        BY <1>7, GoesOK DEF NotPopulated, Labels, Getting
    <2>. QED
        BY <1>7, <1>a, <2>1, SameResults DEF TInv, SharedOK, NativeInv, NotPopulated
<1>8. ASSUME NEW t \in Users, PropertyIsAvailable(t) PROVE TInv'
    <2>1. Shape' /\ (\A u \in Users : LocalOK(u)')
          /\ dataLock' \in {dataLock, NoThread}
        <3>1. CASE StateThrows(t)
            BY <3>1, <1>4, <1>8 DEF PropertyIsAvailable
        <3>2. CASE /\ Goes(t, "available", "enter")
                   /\ ResultsWith(asked[t][1]) # {}
                   /\ UNCHANGED <<asked, built, answer, dataLock>>
            BY <3>2, <1>8, GoesOK DEF PropertyIsAvailable, Labels, Getting
        <3>3. CASE Leaves(t, Answer("missing")) \/ Leaves(t, Answer("thrown"))
            BY <3>3, <1>8, LeavesOK DEF PropertyIsAvailable, Answer, Kinds
        <3>. QED
            BY <1>8, <3>1, <3>2, <3>3 DEF PropertyIsAvailable
    <2>2. seenClosed' \subseteq (IF closed THEN Users ELSE {})
        BY <1>8, <1>a DEF PropertyIsAvailable, StateThrows, SharedOK
    <2>. QED
        BY <1>8, <1>a, <2>1, <2>2, SameResults
        DEF TInv, SharedOK, NativeInv, PropertyIsAvailable
<1>9. ASSUME NEW t \in Users, EnterGetLock(t) PROVE TInv'
    <2>1. ResultsWith(asked[t][1]) # {} \/ pc[t] # "enter"
        BY <1>9 DEF TInv, LocalOK
    <2>2. "read" \in Labels /\ "read" \in Getting /\ "enter" \in Getting
        BY DEF Labels, Getting
    <2>3. pc[t] = "enter" /\ Goes(t, "enter", "read")
        BY <1>9 DEF EnterGetLock, Goes
    <2>4. Shape' /\ (\A u \in Users : LocalOK(u)')
        <3>1. ResultsWith(asked[t][1]) # {}
            BY <1>9 DEF TInv, LocalOK, EnterGetLock, Goes
        <3>. QED
            BY <1>9, <2>2, <3>1, GoesOK DEF EnterGetLock
    <2>. QED
        BY <1>9, <1>a, <2>4, SameResults DEF TInv, SharedOK, NativeInv, EnterGetLock
<1>10. ASSUME NEW t \in Users, ReadValue(t) PROVE TInv'
    <2>1. Shape' /\ (\A u \in Users : LocalOK(u)')
          /\ dataLock' \in {dataLock, NoThread}
        <3>1. CASE StateThrows(t)
            BY <3>1, <1>4, <1>10 DEF ReadValue
        <3>2. CASE Gives(t, SingleResults(asked[t][1]))
            <4>1. pc[t] = "read"
                BY <1>10 DEF ReadValue
            <4>2. SingleResults(asked[t][1]) \in Results
                BY <4>1, <1>a, FirstWithFound DEF TInv, LocalOK
            <4>. QED
                BY <3>2, <4>1, <4>2, <1>10, GivesOK DEF ReadValue
        <3>3. CASE Leaves(t, Answer("thrown"))
            BY <3>3, <1>10, LeavesOK DEF ReadValue, Answer, Kinds
        <3>. QED
            BY <1>10, <3>1, <3>2, <3>3 DEF ReadValue
    <2>2. seenClosed' \subseteq (IF closed THEN Users ELSE {})
        BY <1>10, <1>a DEF ReadValue, StateThrows, SharedOK
    <2>. QED
        BY <1>10, <1>a, <2>1, <2>2, SameResults DEF TInv, SharedOK, NativeInv, ReadValue
<1>11. ASSUME NEW t \in Users, ReturnMap(t) PROVE TInv'
    <2>1. Shape' /\ (\A u \in Users : LocalOK(u)')
          /\ dataLock' \in {dataLock, NoThread}
        BY <1>11, LeavesOK DEF ReturnMap, Answer, Kinds
    <2>. QED
        BY <1>11, <1>a, <2>1, SameResults DEF TInv, SharedOK, NativeInv, ReturnMap
<1>12. ASSUME NEW t \in Users, WantDataLock(t) \/ EnterDataLock(t) PROVE TInv'
    <2>1. Shape' /\ (\A u \in Users : LocalOK(u)')
        BY <1>12, GoesOK DEF WantDataLock, EnterDataLock, Labels, Getting
    <2>. QED
        BY <1>12, <1>a, <2>1, SameResults
        DEF TInv, SharedOK, NativeInv, WantDataLock, EnterDataLock
<1>13. ASSUME NEW t \in Users, RecheckPopulated(t) PROVE TInv'
    <2>1. Shape' /\ (\A u \in Users : LocalOK(u)')
          /\ dataLock' \in {dataLock, NoThread}
        BY <1>13, LeavesOK DEF RecheckPopulated, Answer, Kinds
    <2>. QED
        BY <1>13, <1>a, <2>1, SameResults DEF TInv, SharedOK, NativeInv, RecheckPopulated
<1>14. ASSUME NEW t \in Users, RecheckEmpty(t) PROVE TInv'
    <2>1. Shape' /\ (\A u \in Users : LocalOK(u)')
        BY <1>14, GoesOK DEF RecheckEmpty, Labels, Getting
    <2>. QED
        BY <1>14, <1>a, <2>1, SameResults DEF TInv, SharedOK, NativeInv, RecheckEmpty
<1>15. ASSUME NEW t \in Users, NEW p \in Props, FetchProperty(t, p) PROVE TInv'
    <2>1. LocalOK(t)
        BY DEF TInv
    <2>2. /\ pc'[t] = "check" /\ asked'[t] = <<p, "weighted">>
          /\ asked'[t] \in Props \X Shapes
        BY <1>15, <1>a DEF FetchProperty, Goes, Shape, Shapes
    <2>3. LocalOK(t)'
        BY <1>15, <2>1, <2>2, SameResults DEF LocalOK, FetchProperty, Labels
    <2>4. /\ built' = [built EXCEPT ![t] = built[t]]
          /\ answer' = [answer EXCEPT ![t] = answer[t]]
          /\ cursor' = [cursor EXCEPT ![t] = cursor[t]]
        BY <1>15, <1>a DEF FetchProperty, Shape
    <2>5. "check" \in Labels
        BY DEF Labels
    <2>6. Shape' /\ (\A u \in Users : LocalOK(u)')
        BY <1>15, <2>3, <2>4, <2>5, OthersKeep DEF FetchProperty, Goes
    <2>. QED
        BY <1>15, <1>a, <2>6, SameResults DEF TInv, SharedOK, NativeInv, FetchProperty
<1>16. ASSUME NEW t \in Users, PopulateFromMap(t) PROVE TInv'
    <2>1. Shape' /\ (\A u \in Users : LocalOK(u)')
        BY <1>16, GoesOK DEF PopulateFromMap, Labels, Getting
    <2>2. DOMAIN built[t] \subseteq Props
         /\ \A p \in DOMAIN built[t] : built[t][p] \in Results
        BY DEF TInv, LocalOK
    <2>. QED
        BY <1>16, <1>a, <2>1, <2>2, SameResults
        DEF TInv, SharedOK, NativeInv, PopulateFromMap
<1>17. ASSUME NEW t \in Users, SetMapPopulated(t) PROVE TInv'
    <2>1. Shape' /\ (\A u \in Users : LocalOK(u)')
          /\ dataLock' \in {dataLock, NoThread}
        BY <1>17, LeavesOK DEF SetMapPopulated, Answer, Kinds
    <2>2. seenPopulated' \subseteq Users /\ synced' \subseteq seenPopulated'
        BY <1>17, <1>a DEF SetMapPopulated, SharedOK
    <2>. QED
        BY <1>17, <1>a, <2>1, <2>2, SameResults
        DEF TInv, SharedOK, NativeInv, SetMapPopulated
<1>18. ASSUME NEW t \in Users, CloseResults(t) PROVE TInv'
    <2> USE <1>18 DEF CloseResults
    <2>1. LocalOK(t) /\ cursor[t] \in 1 .. Len(resultsList) /\ Len(resultsList) \in Nat
        BY <1>a DEF TInv, LocalOK, SharedOK, NativeInv
    <2>2. /\ cursor'[t] = cursor[t] + 1
          /\ cursor'[t] \in 1 .. MaxResults + 1
        BY <1>a, <2>1 DEF Shape, SharedOK
    <2>3. LocalOK(t)'
        BY <2>1, <2>2, SameResults DEF LocalOK
    <2>4. /\ pc' = [pc EXCEPT ![t] = pc[t]]
          /\ asked' = [asked EXCEPT ![t] = asked[t]]
          /\ built' = [built EXCEPT ![t] = built[t]]
          /\ answer' = [answer EXCEPT ![t] = answer[t]]
          /\ pc[t] \in Labels
        BY <1>a, <2>1 DEF Shape, LocalOK
    <2>5. Shape' /\ (\A u \in Users : LocalOK(u)')
        BY <2>3, <2>4, OthersKeep
    <2>6. NativeInv'
        <3>1. deletes[cursor[t]] + 1 \in Nat
            BY <1>a, <2>1 DEF SharedOK, NativeInv
        <3>2. /\ [deletes EXCEPT ![cursor[t]] = @ + 1] \in Seq(Nat)
              /\ Len([deletes EXCEPT ![cursor[t]] = @ + 1]) = Len(deletes)
              /\ [swigCMemOwn EXCEPT ![cursor[t]] = FALSE] \in Seq(BOOLEAN)
              /\ Len([swigCMemOwn EXCEPT ![cursor[t]] = FALSE]) = Len(swigCMemOwn)
            BY <1>a, <2>1, <3>1, ExceptSeq DEF SharedOK, NativeInv
        <3>. QED
            BY <1>a, <3>2 DEF SharedOK, NativeInv, Delete
    <2>. QED
        BY <1>a, <2>5, <2>6, SameResults DEF TInv, SharedOK
<1>19. ASSUME NEW t \in Users, EndClose(t) PROVE TInv'
    <2>1. Shape' /\ (\A u \in Users : LocalOK(u)')
          /\ dataLock' \in {dataLock, NoThread}
        BY <1>19, LeavesOK DEF EndClose, Answer, Kinds
    <2>. QED
        BY <1>19, <1>a, <2>1, SameResults DEF TInv, SharedOK, NativeInv, EndClose
<1>20. CASE UNCHANGED vars
    BY <1>20, <1>a, SameResults DEF vars, TInv, Shape, SharedOK, NativeInv, LocalOK
<1>. QED
    BY <1>c, <1>1, <1>2, <1>3, <1>5, <1>6, <1>7, <1>8, <1>9, <1>10, <1>11,
       <1>12, <1>13, <1>14, <1>15, <1>16, <1>17, <1>18, <1>19, <1>20
    DEF Next, Get, AsKeyMap, Close

LEMMA InitTypes == Init => TInv
<1> SUFFICES ASSUME Init PROVE TInv
    OBVIOUS
<1> USE ResultsAssumption DEF Init
<1>1. Shape
    BY DEF Shape
<1>2. NativeInv
    <2>1. <<>> \in Seq(SUBSET Props) /\ <<>> \in Seq(BOOLEAN) /\ <<>> \in Seq(Nat)
        OBVIOUS
    <2>. QED
        BY <2>1 DEF NativeInv
<1>3. DOMAIN <<>> = {} /\ Len(<<>>) = 0
    OBVIOUS
<1>4. SharedOK
    <2>1. DOMAIN map = {} /\ Len(resultsList) = 0
        BY <1>3
    <2>2. 0 <= MaxResults
        OBVIOUS
    <2>3. Len(resultsList) <= MaxResults
        BY <2>1, <2>2
    <2>4. DOMAIN map \subseteq Props /\ \A p \in DOMAIN map : map[p] \in Results
        BY <2>1
    <2>. QED
        BY <1>2, <2>3, <2>4 DEF SharedOK
<1>5. ASSUME NEW t \in Users PROVE LocalOK(t)
    <2>1. /\ pc[t] = "idle" /\ asked[t] = NoRequest /\ built[t] = <<>>
          /\ cursor[t] = 1 /\ answer[t].kind = "none"
        BY DEF Answer
    <2>2. DOMAIN built[t] = {}
        BY <2>1, <1>3
    <2>. QED
        BY <2>1, <2>2 DEF LocalOK, Labels, Getting, Kinds
<1>. QED
    BY <1>1, <1>4, <1>5 DEF TInv

\* Every variable keeps its type: a getter is at one of its places with a
\* property it asks for, an answer names results that exist.
THEOREM TypeInvariant == Spec => []TypeOK
<1>1. TInv /\ [Next]_vars => TInv'
    BY TypeStep
<1>. QED
    BY <1>1, InitTypes, TypesOf, PTL DEF Spec

-----------------------------------------------------------------------------
(* The locks                                                                 *)

LEMMA LockStep ==
    ASSUME TInv, LockDiscipline, [Next]_vars
    PROVE  LockDiscipline'
<1> USE UserAssumption
    DEF TInv, Shape, SharedOK, LockDiscipline, Goes, nativeVars, mapVars, callVars
<1>1. ASSUME NEW t \in Users, NEW p \in Props, NEW shape \in Shapes,
             CallGet(t, p, shape)
      PROVE  LockDiscipline'
    BY <1>1 DEF CallGet, Calls
<1>2. ASSUME NEW t \in Users, CheckState(t) PROVE LockDiscipline'
    BY <1>2 DEF CheckState, StateThrows, Leaves, StatePasses
<1>3. ASSUME NEW t \in Users, GetFromMap(t) PROVE LockDiscipline'
    BY <1>3 DEF GetFromMap, Leaves
<1>4. ASSUME NEW t \in Users, NotPopulated(t) PROVE LockDiscipline'
    BY <1>4 DEF NotPopulated
<1>5. ASSUME NEW t \in Users, PropertyIsAvailable(t) PROVE LockDiscipline'
    BY <1>5 DEF PropertyIsAvailable, StateThrows, Leaves, StatePasses
<1>6. ASSUME NEW t \in Users, EnterGetLock(t) PROVE LockDiscipline'
    BY <1>6 DEF EnterGetLock
<1>7. ASSUME NEW t \in Users, ReadValue(t) PROVE LockDiscipline'
    BY <1>7 DEF ReadValue, StateThrows, StatePasses, Gives, Leaves
<1>8. ASSUME NEW t \in Users, CallKeyMap(t) PROVE LockDiscipline'
    BY <1>8 DEF CallKeyMap, Calls
<1>9. ASSUME NEW t \in Users, ReturnMap(t) PROVE LockDiscipline'
    BY <1>9 DEF ReturnMap, Leaves
<1>10. ASSUME NEW t \in Users, WantDataLock(t) PROVE LockDiscipline'
    BY <1>10 DEF WantDataLock
<1>11. ASSUME NEW t \in Users, EnterDataLock(t) PROVE LockDiscipline'
    BY <1>11 DEF EnterDataLock
<1>12. ASSUME NEW t \in Users, RecheckPopulated(t) PROVE LockDiscipline'
    BY <1>12 DEF RecheckPopulated, Leaves
<1>13. ASSUME NEW t \in Users, RecheckEmpty(t) PROVE LockDiscipline'
    BY <1>13 DEF RecheckEmpty
<1>14. ASSUME NEW t \in Users, NEW p \in Props, FetchProperty(t, p)
       PROVE  LockDiscipline'
    BY <1>14 DEF FetchProperty
<1>15. ASSUME NEW t \in Users, PopulateFromMap(t) PROVE LockDiscipline'
    BY <1>15 DEF PopulateFromMap
<1>16. ASSUME NEW t \in Users, SetMapPopulated(t) PROVE LockDiscipline'
    BY <1>16 DEF SetMapPopulated, Leaves
<1>17. ASSUME NEW t \in Users, CallClose(t) PROVE LockDiscipline'
    BY <1>17 DEF CallClose, Calls
<1>18. ASSUME NEW t \in Users, CloseResults(t) PROVE LockDiscipline'
    BY <1>18 DEF CloseResults
<1>19. ASSUME NEW t \in Users, EndClose(t) PROVE LockDiscipline'
    BY <1>19 DEF EndClose, Leaves
<1>20. ASSUME NEW contains \in SUBSET Props, SetResults(contains)
       PROVE  LockDiscipline'
    BY <1>20 DEF SetResults, Unused
<1>21. CASE UNCHANGED vars
    BY <1>21 DEF vars
<1>. QED
    BY <1>1, <1>2, <1>3, <1>4, <1>5, <1>6, <1>7, <1>8, <1>9, <1>10,
       <1>11, <1>12, <1>13, <1>14, <1>15, <1>16, <1>17, <1>18, <1>19,
       <1>20, <1>21
    DEF Next, Get, AsKeyMap, Close

\* getLock and dataLock are each held by one thread, exactly as long as it is
\* inside the block, and no exception keeps either.
THEOREM LockTheorem == Spec => []LockDiscipline
<1>1. Init => LockDiscipline
    BY UserAssumption DEF Init, LockDiscipline
<1>2. TInv /\ LockDiscipline /\ [Next]_vars => LockDiscipline'
    BY LockStep
<1>. QED
    BY <1>1, <1>2, InitTypes, TypeStep, PTL DEF Spec

-----------------------------------------------------------------------------
(* Close                                                                     *)

\* Who knows of the close does not get past the check of the state.
ClosedInv ==
    \A t \in seenClosed :
        /\ answer[t].kind \notin {"value", "missing", "thrown"}
        /\ pc[t] \notin {"flag", "available", "enter", "read"}

LEMMA ClosedStep ==
    ASSUME TInv, ClosedInv, [Next]_vars
    PROVE  ClosedInv'
<1> USE DEF TInv, Shape, SharedOK, ClosedInv, Goes, nativeVars, mapVars, callVars,
        Answer
<1>a. seenClosed \subseteq Users
    OBVIOUS
<1>b. ASSUME NEW t \in Users, StateThrows(t) PROVE ClosedInv'
    BY <1>a, <1>b DEF StateThrows, Leaves
<1>1. ASSUME NEW t \in Users, NEW p \in Props, NEW shape \in Shapes,
             CallGet(t, p, shape)
      PROVE  ClosedInv'
    BY <1>a, <1>1 DEF CallGet, Calls
<1>2. ASSUME NEW t \in Users, CheckState(t) PROVE ClosedInv'
    <2>1. CASE StateThrows(t)
        BY <1>a, <1>b, <2>1
    <2>2. CASE StatePasses(t) /\ Goes(t, "check", "flag")
               /\ UNCHANGED <<seenClosed, answer>>
        BY <1>a, <2>2 DEF StatePasses
    <2>. QED
        BY <1>2, <2>1, <2>2 DEF CheckState
<1>3. ASSUME NEW t \in Users, GetFromMap(t) PROVE ClosedInv'
    BY <1>a, <1>3 DEF GetFromMap, Leaves, Value
<1>4. ASSUME NEW t \in Users, NotPopulated(t) PROVE ClosedInv'
    BY <1>a, <1>4 DEF NotPopulated
<1>5. ASSUME NEW t \in Users, PropertyIsAvailable(t) PROVE ClosedInv'
    <2>1. CASE StateThrows(t)
        BY <1>a, <1>b, <2>1
    <2>2. CASE StatePasses(t) /\ UNCHANGED seenClosed
        <3>1. CASE Goes(t, "available", "enter") /\ UNCHANGED answer
            BY <1>a, <2>2, <3>1 DEF StatePasses
        <3>2. CASE Leaves(t, Answer("missing")) \/ Leaves(t, Answer("thrown"))
            BY <1>a, <2>2, <3>2 DEF StatePasses, Leaves
        <3>. QED
            BY <1>5, <2>1, <3>1, <3>2 DEF PropertyIsAvailable
    <2>. QED
        BY <1>5, <2>1, <2>2 DEF PropertyIsAvailable
<1>6. ASSUME NEW t \in Users, EnterGetLock(t) PROVE ClosedInv'
    BY <1>a, <1>6 DEF EnterGetLock
<1>7. ASSUME NEW t \in Users, ReadValue(t) PROVE ClosedInv'
    <2>1. CASE StateThrows(t)
        BY <1>a, <1>b, <2>1
    <2>2. CASE UNCHANGED seenClosed
        <3>1. t \notin seenClosed
            BY <1>7 DEF ReadValue
        <3>2. CASE Leaves(t, Answer("thrown"))
            BY <1>a, <2>2, <3>1, <3>2 DEF Leaves
        <3>3. CASE Gives(t, SingleResults(asked[t][1]))
            BY <1>a, <2>2, <3>1, <3>3 DEF Gives, Leaves
        <3>. QED
            BY <1>7, <2>1, <3>2, <3>3 DEF ReadValue
    <2>. QED
        BY <1>7, <2>1, <2>2 DEF ReadValue
<1>8. ASSUME NEW t \in Users, CallKeyMap(t) PROVE ClosedInv'
    BY <1>a, <1>8 DEF CallKeyMap, Calls
<1>9. ASSUME NEW t \in Users, ReturnMap(t) PROVE ClosedInv'
    <2>1. CASE Leaves(t, Answer("map"))
        BY <1>a, <1>9, <2>1 DEF ReturnMap, Leaves
    <2>2. CASE Leaves(t, Answer("partial"))
        BY <1>a, <1>9, <2>2 DEF ReturnMap, Leaves
    <2>. QED
        BY <1>9, <2>1, <2>2 DEF ReturnMap
<1>10. ASSUME NEW t \in Users, WantDataLock(t) PROVE ClosedInv'
    BY <1>a, <1>10 DEF WantDataLock
<1>11. ASSUME NEW t \in Users, EnterDataLock(t) PROVE ClosedInv'
    BY <1>a, <1>11 DEF EnterDataLock
<1>12. ASSUME NEW t \in Users, RecheckPopulated(t) PROVE ClosedInv'
    BY <1>a, <1>12 DEF RecheckPopulated, Leaves
<1>13. ASSUME NEW t \in Users, RecheckEmpty(t) PROVE ClosedInv'
    BY <1>a, <1>13 DEF RecheckEmpty
<1>14. ASSUME NEW t \in Users, NEW p \in Props, FetchProperty(t, p)
       PROVE  ClosedInv'
    BY <1>a, <1>14 DEF FetchProperty
<1>15. ASSUME NEW t \in Users, PopulateFromMap(t) PROVE ClosedInv'
    BY <1>a, <1>15 DEF PopulateFromMap
<1>16. ASSUME NEW t \in Users, SetMapPopulated(t) PROVE ClosedInv'
    BY <1>a, <1>16 DEF SetMapPopulated, Leaves
<1>17. ASSUME NEW t \in Users, CallClose(t) PROVE ClosedInv'
    BY <1>a, <1>17 DEF CallClose, Calls
<1>18. ASSUME NEW t \in Users, CloseResults(t) PROVE ClosedInv'
    BY <1>a, <1>18 DEF CloseResults
<1>19. ASSUME NEW t \in Users, EndClose(t) PROVE ClosedInv'
    BY <1>a, <1>19 DEF EndClose, Leaves
<1>20. ASSUME NEW contains \in SUBSET Props, SetResults(contains)
       PROVE  ClosedInv'
    BY <1>a, <1>20 DEF SetResults, Unused
<1>21. CASE UNCHANGED vars
    BY <1>a, <1>21 DEF vars
<1>. QED
    BY <1>a, <1>1, <1>2, <1>3, <1>4, <1>5, <1>6, <1>7, <1>8, <1>9, <1>10,
       <1>11, <1>12, <1>13, <1>14, <1>15, <1>16, <1>17, <1>18, <1>19,
       <1>20, <1>21
    DEF Next, Get, AsKeyMap, Close

\* A thread that closed the data, or was told so once, is never served again.
THEOREM ClosedTheorem == Spec => []ClosedIsNotRead
<1>1. Init => ClosedInv
    BY DEF Init, ClosedInv
<1>2. TInv /\ ClosedInv /\ [Next]_vars => ClosedInv'
    BY ClosedStep
<1>3. ClosedInv => ClosedIsNotRead
    BY DEF ClosedInv, ClosedIsNotRead
<1>. QED
    BY <1>1, <1>2, <1>3, InitTypes, TypeStep, PTL DEF Spec

\* The memory of a results object is released when its proxy stops owning it,
\* and a closing thread leaves nothing behind it that is still owned.
ReleaseInv ==
    /\ \A i \in Results : deletes[i] = IF swigCMemOwn[i] THEN 0 ELSE 1
    /\ \A t \in Users : pc[t] = "close" =>
          closed /\ \A i \in Results : i < cursor[t] => ~swigCMemOwn[i]
    /\ closed /\ (\A t \in Users : pc[t] # "close") =>
          \A i \in Results : ~swigCMemOwn[i]

LEMMA ReleaseStep ==
    ASSUME TInv, ReleaseInv, [Next]_vars
    PROVE  ReleaseInv'
<1> USE DEF TInv, Shape, SharedOK, ReleaseInv, Goes, nativeVars, mapVars, callVars,
        Results
<1>1. ASSUME NEW t \in Users, NEW p \in Props, NEW shape \in Shapes,
             CallGet(t, p, shape)
      PROVE  ReleaseInv'
    BY <1>1 DEF CallGet, Calls
<1>2. ASSUME NEW t \in Users, CheckState(t) PROVE ReleaseInv'
    BY <1>2 DEF CheckState, StateThrows, Leaves, StatePasses
<1>3. ASSUME NEW t \in Users, GetFromMap(t) PROVE ReleaseInv'
    BY <1>3 DEF GetFromMap, Leaves
<1>4. ASSUME NEW t \in Users, NotPopulated(t) PROVE ReleaseInv'
    BY <1>4 DEF NotPopulated
<1>5. ASSUME NEW t \in Users, PropertyIsAvailable(t) PROVE ReleaseInv'
    BY <1>5 DEF PropertyIsAvailable, StateThrows, Leaves, StatePasses
<1>6. ASSUME NEW t \in Users, EnterGetLock(t) PROVE ReleaseInv'
    BY <1>6 DEF EnterGetLock
<1>7. ASSUME NEW t \in Users, ReadValue(t) PROVE ReleaseInv'
    BY <1>7 DEF ReadValue, StateThrows, StatePasses, Gives, Leaves
<1>8. ASSUME NEW t \in Users, CallKeyMap(t) PROVE ReleaseInv'
    BY <1>8 DEF CallKeyMap, Calls
<1>9. ASSUME NEW t \in Users, ReturnMap(t) PROVE ReleaseInv'
    BY <1>9 DEF ReturnMap, Leaves
<1>10. ASSUME NEW t \in Users, WantDataLock(t) PROVE ReleaseInv'
    BY <1>10 DEF WantDataLock
<1>11. ASSUME NEW t \in Users, EnterDataLock(t) PROVE ReleaseInv'
    BY <1>11 DEF EnterDataLock
<1>12. ASSUME NEW t \in Users, RecheckPopulated(t) PROVE ReleaseInv'
    BY <1>12 DEF RecheckPopulated, Leaves
<1>13. ASSUME NEW t \in Users, RecheckEmpty(t) PROVE ReleaseInv'
    BY <1>13 DEF RecheckEmpty
<1>14. ASSUME NEW t \in Users, NEW p \in Props, FetchProperty(t, p)
       PROVE  ReleaseInv'
    BY <1>14 DEF FetchProperty
<1>15. ASSUME NEW t \in Users, PopulateFromMap(t) PROVE ReleaseInv'
    BY <1>15 DEF PopulateFromMap
<1>16. ASSUME NEW t \in Users, SetMapPopulated(t) PROVE ReleaseInv'
    BY <1>16 DEF SetMapPopulated, Leaves
<1>17. ASSUME NEW t \in Users, CallClose(t) PROVE ReleaseInv'
    BY <1>17 DEF CallClose, Calls
<1>18. ASSUME NEW t \in Users, CloseResults(t) PROVE ReleaseInv'
    <2> DEFINE k == cursor[t]
    <2>1. k \in 1 .. Len(resultsList) /\ Len(resultsList) \in Nat
        BY <1>18 DEF CloseResults, LocalOK, NativeInv
    <2>2. /\ [swigCMemOwn EXCEPT ![k] = FALSE][k] = FALSE
          /\ \A i \in Results \ {k} :
                [swigCMemOwn EXCEPT ![k] = FALSE][i] = swigCMemOwn[i]
          /\ \A i \in Results : [deletes EXCEPT ![k] = @ + 1][i] =
                                   IF i = k THEN deletes[k] + 1 ELSE deletes[i]
        <3>1. /\ swigCMemOwn \in Seq(BOOLEAN) /\ k \in 1 .. Len(swigCMemOwn)
              /\ deletes \in Seq(Nat) /\ k \in 1 .. Len(deletes)
              /\ Results = 1 .. Len(swigCMemOwn) /\ Results = 1 .. Len(deletes)
            BY <2>1 DEF NativeInv
        <3>2. deletes[k] + 1 \in Nat
            BY <3>1
        <3> HIDE DEF k, Results
        <3>3. /\ [swigCMemOwn EXCEPT ![k] = FALSE][k] = FALSE
              /\ \A i \in Results \ {k} :
                    [swigCMemOwn EXCEPT ![k] = FALSE][i] = swigCMemOwn[i]
            <4>1. DOMAIN swigCMemOwn = 1 .. Len(swigCMemOwn)
                BY <3>1
            <4>. QED
                BY <3>1, <4>1
        <3>4. \A i \in Results : [deletes EXCEPT ![k] = @ + 1][i] =
                                   IF i = k THEN deletes[k] + 1 ELSE deletes[i]
            BY <3>1, <3>2, ExceptSeq
        <3>. QED
            BY <3>3, <3>4
    <2> HIDE DEF k
    <2>3. /\ pc' = pc /\ closed' = closed /\ Results' = Results
          /\ cursor' = [cursor EXCEPT ![t] = k + 1] /\ pc[t] = "close"
        BY <1>18 DEF CloseResults, k
    <2>4. /\ \A i \in Results : deletes'[i] = IF swigCMemOwn'[i] THEN 0 ELSE 1
          /\ ~swigCMemOwn'[k]
          /\ \A i \in Results : ~swigCMemOwn[i] => ~swigCMemOwn'[i]
        <3>1. CASE swigCMemOwn[k]
            <4>1. /\ swigCMemOwn' = [swigCMemOwn EXCEPT ![k] = FALSE]
                  /\ deletes' = [deletes EXCEPT ![k] = @ + 1]
                BY <1>18, <3>1 DEF CloseResults, Delete, k
            <4>2. deletes[k] = 0
                <5>1. deletes[k] = IF swigCMemOwn[k] THEN 0 ELSE 1
                    BY <2>1
                <5>. QED
                    BY <3>1, <5>1
            <4>3. /\ swigCMemOwn'[k] = FALSE
                  /\ \A i \in Results \ {k} : swigCMemOwn'[i] = swigCMemOwn[i]
                BY <2>2, <4>1
            <4>4. /\ deletes'[k] = 1
                  /\ \A i \in Results \ {k} : deletes'[i] = deletes[i]
                BY <2>1, <2>2, <4>1, <4>2
            <4>. QED
                BY <4>3, <4>4
        <3>2. CASE ~swigCMemOwn[k]
            BY <1>18, <2>1, <3>2 DEF CloseResults, Delete, k
        <3>. QED
            BY <3>1, <3>2
    <2>5. ASSUME NEW u \in Users, pc[u] = "close", NEW i \in Results, i < cursor'[u]
          PROVE  ~swigCMemOwn'[i]
        <3>1. CASE u # t
            BY <2>3, <2>4, <2>5, <3>1
        <3>2. CASE u = t
            <4>1. i < k + 1 /\ i \in Nat /\ k \in Nat
                BY <2>1, <2>3, <2>5, <3>2
            <4>2. i < k \/ i = k
                BY <4>1
            <4>. QED
                BY <2>4, <2>5, <3>2, <4>2 DEF k
        <3>. QED
            BY <3>1, <3>2
    <2>. QED
        BY <2>3, <2>4, <2>5
<1>19. ASSUME NEW t \in Users, EndClose(t) PROVE ReleaseInv'
    BY <1>19 DEF EndClose, Leaves, NativeInv, LocalOK
<1>20. ASSUME NEW contains \in SUBSET Props, SetResults(contains)
       PROVE  ReleaseInv'
    BY <1>20 DEF SetResults, Unused, NativeInv
<1>21. CASE UNCHANGED vars
    BY <1>21 DEF vars
<1>. QED
    BY <1>1, <1>2, <1>3, <1>4, <1>5, <1>6, <1>7, <1>8, <1>9, <1>10,
       <1>11, <1>12, <1>13, <1>14, <1>15, <1>16, <1>17, <1>18, <1>19,
       <1>20, <1>21
    DEF Next, Get, AsKeyMap, Close

\* Each native results object is released once, however many threads close.
THEOREM ReleaseTheorem == Spec => []ResultsReleasedOnce
<1>1. Init => ReleaseInv
    BY DEF Init, ReleaseInv, Results
<1>2. TInv /\ ReleaseInv /\ [Next]_vars => ReleaseInv'
    BY ReleaseStep
<1>3. ReleaseInv => ResultsReleasedOnce
    BY DEF ReleaseInv, ResultsReleasedOnce
<1>. QED
    BY <1>1, <1>2, <1>3, InitTypes, TypeStep, PTL DEF Spec

-----------------------------------------------------------------------------
(* The base map                                                              *)

\* From the second check of the flag to its setting, under dataLock.
PopulatingInv ==
    \A t \in Users : dataLock = t /\ pc[t] # "recheck" => ~mapPopulated

LEMMA PopulatingStep ==
    ASSUME TInv, LockDiscipline, PopulatingInv, [Next]_vars
    PROVE  PopulatingInv'
<1> USE UserAssumption
    DEF TInv, Shape, SharedOK, LockDiscipline, PopulatingInv, Goes, nativeVars,
        mapVars, callVars
<1>1. ASSUME NEW t \in Users, NEW p \in Props, NEW shape \in Shapes,
             CallGet(t, p, shape)
      PROVE  PopulatingInv'
    BY <1>1 DEF CallGet, Calls
<1>2. ASSUME NEW t \in Users, CheckState(t) PROVE PopulatingInv'
    BY <1>2 DEF CheckState, StateThrows, Leaves, StatePasses
<1>3. ASSUME NEW t \in Users, GetFromMap(t) PROVE PopulatingInv'
    BY <1>3 DEF GetFromMap, Leaves
<1>4. ASSUME NEW t \in Users, NotPopulated(t) PROVE PopulatingInv'
    BY <1>4 DEF NotPopulated
<1>5. ASSUME NEW t \in Users, PropertyIsAvailable(t) PROVE PopulatingInv'
    BY <1>5 DEF PropertyIsAvailable, StateThrows, Leaves, StatePasses
<1>6. ASSUME NEW t \in Users, EnterGetLock(t) PROVE PopulatingInv'
    BY <1>6 DEF EnterGetLock
<1>7. ASSUME NEW t \in Users, ReadValue(t) PROVE PopulatingInv'
    BY <1>7 DEF ReadValue, StateThrows, StatePasses, Gives, Leaves
<1>8. ASSUME NEW t \in Users, CallKeyMap(t) PROVE PopulatingInv'
    BY <1>8 DEF CallKeyMap, Calls
<1>9. ASSUME NEW t \in Users, ReturnMap(t) PROVE PopulatingInv'
    BY <1>9 DEF ReturnMap, Leaves
<1>10. ASSUME NEW t \in Users, WantDataLock(t) PROVE PopulatingInv'
    BY <1>10 DEF WantDataLock
<1>11. ASSUME NEW t \in Users, EnterDataLock(t) PROVE PopulatingInv'
    BY <1>11 DEF EnterDataLock
<1>12. ASSUME NEW t \in Users, RecheckPopulated(t) PROVE PopulatingInv'
    BY <1>12 DEF RecheckPopulated, Leaves
<1>13. ASSUME NEW t \in Users, RecheckEmpty(t) PROVE PopulatingInv'
    BY <1>13 DEF RecheckEmpty
<1>14. ASSUME NEW t \in Users, NEW p \in Props, FetchProperty(t, p)
      PROVE  PopulatingInv'
    BY <1>14 DEF FetchProperty
<1>15. ASSUME NEW t \in Users, PopulateFromMap(t) PROVE PopulatingInv'
    BY <1>15 DEF PopulateFromMap
<1>16. ASSUME NEW t \in Users, SetMapPopulated(t) PROVE PopulatingInv'
    BY <1>16 DEF SetMapPopulated, Leaves
<1>17. ASSUME NEW t \in Users, CallClose(t) PROVE PopulatingInv'
    BY <1>17 DEF CallClose, Calls
<1>18. ASSUME NEW t \in Users, CloseResults(t) PROVE PopulatingInv'
    BY <1>18 DEF CloseResults
<1>19. ASSUME NEW t \in Users, EndClose(t) PROVE PopulatingInv'
    BY <1>19 DEF EndClose, Leaves
<1>20. ASSUME NEW contains \in SUBSET Props, SetResults(contains)
      PROVE  PopulatingInv'
    BY <1>20 DEF SetResults, Unused
<1>21. CASE UNCHANGED vars
    BY <1>21 DEF vars
<1>. QED
    BY <1>1, <1>2, <1>3, <1>4, <1>5, <1>6, <1>7, <1>8, <1>9, <1>10,
       <1>11, <1>12, <1>13, <1>14, <1>15, <1>16, <1>17, <1>18, <1>19,
       <1>20, <1>21
    DEF Next, Get, AsKeyMap, Close

\* The map is filled at most once.
THEOREM PopulatedTheorem == Spec => []PopulatedOnce
<1>1. Init => LockDiscipline /\ PopulatingInv
    BY UserAssumption DEF Init, LockDiscipline, PopulatingInv
<1>2. /\ TInv /\ LockDiscipline /\ [Next]_vars => LockDiscipline'
      /\ TInv /\ LockDiscipline /\ PopulatingInv /\ [Next]_vars => PopulatingInv'
    BY LockStep, PopulatingStep
<1>3. LockDiscipline /\ PopulatingInv => PopulatedOnce
    BY DEF LockDiscipline, PopulatingInv, PopulatedOnce
<1>. QED
    BY <1>1, <1>2, <1>3, InitTypes, TypeStep, PTL DEF Spec

\* Until the data is closed, only an unused one may get more native results.
UnusedInv == Unused /\ ~closed => map = <<>> /\ ~mapPopulated

LEMMA UnusedStep ==
    ASSUME TInv, ReleaseInv, UnusedInv, [Next]_vars
    PROVE  UnusedInv'
<1> USE DEF TInv, Shape, SharedOK, UnusedInv, Unused, Goes, nativeVars, mapVars,
        callVars, Answer, Value
<1>1. ASSUME NEW t \in Users, NEW p \in Props, NEW shape \in Shapes,
             CallGet(t, p, shape)
      PROVE  UnusedInv'
    BY <1>1 DEF CallGet, Calls
<1>2. ASSUME NEW t \in Users, CheckState(t) PROVE UnusedInv'
    BY <1>2 DEF CheckState, StateThrows, Leaves, StatePasses
<1>3. ASSUME NEW t \in Users, GetFromMap(t) PROVE UnusedInv'
    BY <1>3 DEF GetFromMap, Leaves
<1>4. ASSUME NEW t \in Users, NotPopulated(t) PROVE UnusedInv'
    BY <1>4 DEF NotPopulated
<1>5. ASSUME NEW t \in Users, PropertyIsAvailable(t) PROVE UnusedInv'
    BY <1>5 DEF PropertyIsAvailable, StateThrows, Leaves, StatePasses
<1>6. ASSUME NEW t \in Users, EnterGetLock(t) PROVE UnusedInv'
    BY <1>6 DEF EnterGetLock
<1>7. ASSUME NEW t \in Users, ReadValue(t) PROVE UnusedInv'
    BY <1>7 DEF ReadValue, StateThrows, StatePasses, Gives, Leaves
<1>8. ASSUME NEW t \in Users, CallKeyMap(t) PROVE UnusedInv'
    BY <1>8 DEF CallKeyMap, Calls
<1>9. ASSUME NEW t \in Users, ReturnMap(t) PROVE UnusedInv'
    BY <1>9 DEF ReturnMap, Leaves
<1>10. ASSUME NEW t \in Users, WantDataLock(t) PROVE UnusedInv'
    BY <1>10 DEF WantDataLock
<1>11. ASSUME NEW t \in Users, EnterDataLock(t) PROVE UnusedInv'
    BY <1>11 DEF EnterDataLock
<1>12. ASSUME NEW t \in Users, RecheckPopulated(t) PROVE UnusedInv'
    BY <1>12 DEF RecheckPopulated, Leaves
<1>13. ASSUME NEW t \in Users, RecheckEmpty(t) PROVE UnusedInv'
    BY <1>13 DEF RecheckEmpty
<1>14. ASSUME NEW t \in Users, NEW p \in Props, FetchProperty(t, p)
      PROVE  UnusedInv'
    BY <1>14 DEF FetchProperty
<1>15. ASSUME NEW t \in Users, PopulateFromMap(t) PROVE UnusedInv'
    BY <1>15 DEF PopulateFromMap
<1>16. ASSUME NEW t \in Users, SetMapPopulated(t) PROVE UnusedInv'
    BY <1>16 DEF SetMapPopulated, Leaves
<1>17. ASSUME NEW t \in Users, CallClose(t) PROVE UnusedInv'
    BY <1>17 DEF CallClose, Calls
<1>18. ASSUME NEW t \in Users, CloseResults(t) PROVE UnusedInv'
    BY <1>18 DEF CloseResults
<1>19. ASSUME NEW t \in Users, EndClose(t) PROVE UnusedInv'
    BY <1>19 DEF EndClose, Leaves, ReleaseInv
<1>20. ASSUME NEW contains \in SUBSET Props, SetResults(contains)
      PROVE  UnusedInv'
    BY <1>20 DEF SetResults
<1>21. CASE UNCHANGED vars
    BY <1>21 DEF vars
<1>. QED
    BY <1>1, <1>2, <1>3, <1>4, <1>5, <1>6, <1>7, <1>8, <1>9, <1>10,
       <1>11, <1>12, <1>13, <1>14, <1>15, <1>16, <1>17, <1>18, <1>19,
       <1>20, <1>21
    DEF Next, Get, AsKeyMap, Close

\* What asKeyMap has collected so far.
BuiltInv ==
    /\ \A t \in Users : pc[t] = "idle" => DOMAIN built[t] = {}
    /\ \A t \in Users : \A p \in DOMAIN built[t] : built[t][p] = FirstWith(p)

LEMMA BuiltStep ==
    ASSUME TInv, BuiltInv, [Next]_vars
    PROVE  BuiltInv'
<1> USE DEF TInv, Shape, BuiltInv, Goes, nativeVars, mapVars, callVars
<1>a. DOMAIN <<>> = {}
    OBVIOUS
<1>b. ASSUME NEW t \in Users, NEW result, Leaves(t, result), resultsList' = resultsList
      PROVE  BuiltInv'
    <2>1. /\ pc' = [pc EXCEPT ![t] = "idle"]
          /\ built' = [built EXCEPT ![t] = <<>>]
        BY <1>b DEF Leaves
    <2>2. /\ DOMAIN built'[t] = {}
          /\ \A u \in Users \ {t} : built'[u] = built[u] /\ pc'[u] = pc[u]
        BY <1>a, <2>1
    <2>. QED
        BY <1>b, <2>2, SameResults
<1>c. ASSUME NEW t \in Users, NEW p, asked[t][1] = p, pc[t] = "read",
             Gives(t, SingleResults(p)), resultsList' = resultsList
      PROVE  BuiltInv'
    <2>1. SingleResults(p) = FirstWith(p)
        BY <1>c, TypesOf, FirstWithFound DEF LocalOK
    <2>2. CASE dataLock = t
        <3> DEFINE b == [q \in DOMAIN built[t] \cup {p} |->
                            IF q \in DOMAIN built[t] THEN built[t][q] ELSE FirstWith(p)]
        <3>1. /\ pc' = [pc EXCEPT ![t] = "fetch"]
              /\ built' = [built EXCEPT ![t] = b]
            BY <1>c, <2>1, <2>2 DEF Gives
        <3>2. \A q \in DOMAIN b : b[q] = FirstWith(q)
            OBVIOUS
        <3> HIDE DEF b
        <3>3. /\ built'[t] = b /\ pc'[t] = "fetch"
              /\ \A u \in Users \ {t} : built'[u] = built[u] /\ pc'[u] = pc[u]
            BY <3>1
        <3>. QED
            BY <1>c, <3>2, <3>3, SameResults
    <2>3. CASE dataLock # t
        BY <1>b, <1>c, <2>3 DEF Gives
    <2>. QED
        BY <2>2, <2>3
<1>1. ASSUME NEW t \in Users, NEW p \in Props, NEW shape \in Shapes,
             CallGet(t, p, shape)
      PROVE  BuiltInv'
    BY <1>1, <1>b, <1>c, SameResults DEF CallGet, Calls
<1>2. ASSUME NEW t \in Users, CheckState(t) PROVE BuiltInv'
    BY <1>2, <1>b, <1>c, SameResults DEF CheckState, StateThrows
<1>3. ASSUME NEW t \in Users, GetFromMap(t) PROVE BuiltInv'
    BY <1>3, <1>b, <1>c, SameResults DEF GetFromMap
<1>4. ASSUME NEW t \in Users, NotPopulated(t) PROVE BuiltInv'
    BY <1>4, <1>b, <1>c, SameResults DEF NotPopulated
<1>5. ASSUME NEW t \in Users, PropertyIsAvailable(t) PROVE BuiltInv'
    BY <1>5, <1>b, <1>c, SameResults DEF PropertyIsAvailable, StateThrows
<1>6. ASSUME NEW t \in Users, EnterGetLock(t) PROVE BuiltInv'
    BY <1>6, <1>b, <1>c, SameResults DEF EnterGetLock
<1>7. ASSUME NEW t \in Users, ReadValue(t) PROVE BuiltInv'
    BY <1>7, <1>b, <1>c, SameResults DEF ReadValue, StateThrows
<1>8. ASSUME NEW t \in Users, CallKeyMap(t) PROVE BuiltInv'
    BY <1>8, <1>b, <1>c, SameResults DEF CallKeyMap, Calls
<1>9. ASSUME NEW t \in Users, ReturnMap(t) PROVE BuiltInv'
    BY <1>9, <1>b, <1>c, SameResults DEF ReturnMap
<1>10. ASSUME NEW t \in Users, WantDataLock(t) PROVE BuiltInv'
    BY <1>10, <1>b, <1>c, SameResults DEF WantDataLock
<1>11. ASSUME NEW t \in Users, EnterDataLock(t) PROVE BuiltInv'
    BY <1>11, <1>b, <1>c, SameResults DEF EnterDataLock
<1>12. ASSUME NEW t \in Users, RecheckPopulated(t) PROVE BuiltInv'
    BY <1>12, <1>b, <1>c, SameResults DEF RecheckPopulated
<1>13. ASSUME NEW t \in Users, RecheckEmpty(t) PROVE BuiltInv'
    BY <1>13, <1>b, <1>c, SameResults DEF RecheckEmpty
<1>14. ASSUME NEW t \in Users, NEW p \in Props, FetchProperty(t, p)
      PROVE  BuiltInv'
    BY <1>14, <1>b, <1>c, SameResults DEF FetchProperty
<1>15. ASSUME NEW t \in Users, PopulateFromMap(t) PROVE BuiltInv'
    BY <1>15, <1>b, <1>c, SameResults DEF PopulateFromMap
<1>16. ASSUME NEW t \in Users, SetMapPopulated(t) PROVE BuiltInv'
    BY <1>16, <1>b, <1>c, SameResults DEF SetMapPopulated
<1>17. ASSUME NEW t \in Users, CallClose(t) PROVE BuiltInv'
    BY <1>17, <1>b, <1>c, SameResults DEF CallClose, Calls
<1>18. ASSUME NEW t \in Users, CloseResults(t) PROVE BuiltInv'
    BY <1>18, <1>b, <1>c, SameResults DEF CloseResults
<1>19. ASSUME NEW t \in Users, EndClose(t) PROVE BuiltInv'
    BY <1>19, <1>b, <1>c, SameResults DEF EndClose
<1>20. ASSUME NEW contains \in SUBSET Props, SetResults(contains)
      PROVE  BuiltInv'
    BY <1>20 DEF SetResults, Unused
<1>21. CASE UNCHANGED vars
    BY <1>21, <1>b, <1>c, SameResults DEF vars
<1>. QED
    BY <1>1, <1>2, <1>3, <1>4, <1>5, <1>6, <1>7, <1>8, <1>9, <1>10,
       <1>11, <1>12, <1>13, <1>14, <1>15, <1>16, <1>17, <1>18, <1>19,
       <1>20, <1>21
    DEF Next, Get, AsKeyMap, Close

\* The map is whole as soon as it is in place, and until then it is empty.
MapInv ==
    /\ mapPopulated \/ (\E t \in Users : pc[t] = "store") =>
          DOMAIN map = Props /\ \A p \in Props : map[p] = FirstWith(p)
    /\ map # <<>> => mapPopulated \/ \E t \in Users : pc[t] = "store"

LEMMA MapStep ==
    ASSUME TInv, UnusedInv, BuiltInv, MapInv, [Next]_vars
    PROVE  MapInv'
<1> USE DEF TInv, Shape, MapInv, Goes, nativeVars, mapVars, callVars
<1>1. ASSUME NEW t \in Users, NEW p \in Props, NEW shape \in Shapes,
             CallGet(t, p, shape)
      PROVE  MapInv'
    BY <1>1, SameResults DEF CallGet, Calls
<1>2. ASSUME NEW t \in Users, CheckState(t) PROVE MapInv'
    BY <1>2, SameResults DEF CheckState, StateThrows, Leaves, StatePasses
<1>3. ASSUME NEW t \in Users, GetFromMap(t) PROVE MapInv'
    BY <1>3, SameResults DEF GetFromMap, Leaves
<1>4. ASSUME NEW t \in Users, NotPopulated(t) PROVE MapInv'
    BY <1>4, SameResults DEF NotPopulated
<1>5. ASSUME NEW t \in Users, PropertyIsAvailable(t) PROVE MapInv'
    BY <1>5, SameResults DEF PropertyIsAvailable, StateThrows, Leaves, StatePasses
<1>6. ASSUME NEW t \in Users, EnterGetLock(t) PROVE MapInv'
    BY <1>6, SameResults DEF EnterGetLock
<1>7. ASSUME NEW t \in Users, ReadValue(t) PROVE MapInv'
    BY <1>7, SameResults DEF ReadValue, StateThrows, StatePasses, Gives, Leaves
<1>8. ASSUME NEW t \in Users, CallKeyMap(t) PROVE MapInv'
    BY <1>8, SameResults DEF CallKeyMap, Calls
<1>9. ASSUME NEW t \in Users, ReturnMap(t) PROVE MapInv'
    BY <1>9, SameResults DEF ReturnMap, Leaves
<1>10. ASSUME NEW t \in Users, WantDataLock(t) PROVE MapInv'
    BY <1>10, SameResults DEF WantDataLock
<1>11. ASSUME NEW t \in Users, EnterDataLock(t) PROVE MapInv'
    BY <1>11, SameResults DEF EnterDataLock
<1>12. ASSUME NEW t \in Users, RecheckPopulated(t) PROVE MapInv'
    BY <1>12, SameResults DEF RecheckPopulated, Leaves
<1>13. ASSUME NEW t \in Users, RecheckEmpty(t) PROVE MapInv'
    BY <1>13, SameResults DEF RecheckEmpty
<1>14. ASSUME NEW t \in Users, NEW p \in Props, FetchProperty(t, p)
      PROVE  MapInv'
    BY <1>14, SameResults DEF FetchProperty
<1>15. ASSUME NEW t \in Users, PopulateFromMap(t) PROVE MapInv'
    BY <1>15, SameResults DEF PopulateFromMap, BuiltInv
<1>16. ASSUME NEW t \in Users, SetMapPopulated(t) PROVE MapInv'
    BY <1>16, SameResults DEF SetMapPopulated, Leaves
<1>17. ASSUME NEW t \in Users, CallClose(t) PROVE MapInv'
    BY <1>17, SameResults DEF CallClose, Calls
<1>18. ASSUME NEW t \in Users, CloseResults(t) PROVE MapInv'
    BY <1>18, SameResults DEF CloseResults
<1>19. ASSUME NEW t \in Users, EndClose(t) PROVE MapInv'
    BY <1>19, SameResults DEF EndClose, Leaves
<1>20. ASSUME NEW contains \in SUBSET Props, SetResults(contains)
      PROVE  MapInv'
    BY <1>20 DEF SetResults, UnusedInv, Unused
<1>21. CASE UNCHANGED vars
    BY <1>21, SameResults DEF vars
<1>. QED
    BY <1>1, <1>2, <1>3, <1>4, <1>5, <1>6, <1>7, <1>8, <1>9, <1>10,
       <1>11, <1>12, <1>13, <1>14, <1>15, <1>16, <1>17, <1>18, <1>19,
       <1>20, <1>21
    DEF Next, Get, AsKeyMap, Close

\* Whatever is answered is of the first native results with the property.
AnswerInv ==
    \A t \in Users : answer[t].kind = "value" =>
        answer[t].from = FirstWith(answer[t].request[1])

LEMMA AnswerStep ==
    ASSUME TInv, MapInv, AnswerInv, [Next]_vars
    PROVE  AnswerInv'
<1> USE DEF TInv, Shape, AnswerInv, Goes, nativeVars, mapVars, callVars, Answer
<1>b. ASSUME NEW t \in Users, NEW result, Leaves(t, result), resultsList' = resultsList,
             result.kind = "value" => result.from = FirstWith(result.request[1])
      PROVE  AnswerInv'
    <2>1. answer' = [answer EXCEPT ![t] = result]
        BY <1>b DEF Leaves
    <2>2. answer'[t] = result /\ \A u \in Users \ {t} : answer'[u] = answer[u]
        BY <2>1
    <2>. QED
        BY <1>b, <2>2, SameResults
<1>c. ASSUME NEW t \in Users, StateThrows(t), resultsList' = resultsList
      PROVE  AnswerInv'
    BY <1>b, <1>c DEF StateThrows
<1>1. ASSUME NEW t \in Users, NEW p \in Props, NEW shape \in Shapes,
             CallGet(t, p, shape)
      PROVE  AnswerInv'
    BY <1>1, <1>b, <1>c, SameResults DEF CallGet, Calls
<1>2. ASSUME NEW t \in Users, CheckState(t) PROVE AnswerInv'
    BY <1>2, <1>b, <1>c, SameResults DEF CheckState
<1>3. ASSUME NEW t \in Users, GetFromMap(t) PROVE AnswerInv'
    <2>1. CASE Leaves(t, Answer("missing"))
        BY <1>3, <1>b, <2>1 DEF GetFromMap
    <2>2. CASE asked[t][1] \in DOMAIN map
               /\ Leaves(t, Value(asked[t], "weighted", map[asked[t][1]]))
        <3>1. map[asked[t][1]] = FirstWith(asked[t][1])
            BY <1>3, <2>2 DEF GetFromMap, MapInv
        <3>. QED
            BY <1>3, <1>b, <2>2, <3>1 DEF GetFromMap, Value
    <2>. QED
        BY <1>3, <2>1, <2>2 DEF GetFromMap
<1>4. ASSUME NEW t \in Users, NotPopulated(t) PROVE AnswerInv'
    BY <1>4, <1>b, <1>c, SameResults DEF NotPopulated
<1>5. ASSUME NEW t \in Users, PropertyIsAvailable(t) PROVE AnswerInv'
    BY <1>5, <1>b, <1>c, SameResults DEF PropertyIsAvailable
<1>6. ASSUME NEW t \in Users, EnterGetLock(t) PROVE AnswerInv'
    BY <1>6, <1>b, <1>c, SameResults DEF EnterGetLock
<1>7. ASSUME NEW t \in Users, ReadValue(t) PROVE AnswerInv'
    <2> DEFINE p == asked[t][1]
    <2>1. SingleResults(p) = FirstWith(p)
        BY <1>7, TypesOf, FirstWithFound DEF ReadValue, LocalOK
    <2>2. CASE Gives(t, SingleResults(p))
        <3>1. CASE dataLock = t
            BY <1>7, <2>2, <3>1, SameResults DEF ReadValue, Gives
        <3>2. CASE dataLock # t
            <4>1. Leaves(t, Value(asked[t], asked[t][2], SingleResults(p)))
                BY <2>2, <3>2 DEF Gives
            <4>. QED
                BY <1>7, <1>b, <2>1, <4>1 DEF ReadValue, Value
        <3>. QED
            BY <3>1, <3>2
    <2>3. CASE StateThrows(t) \/ Leaves(t, Answer("thrown"))
        BY <1>7, <1>b, <1>c, <2>3 DEF ReadValue
    <2>. QED
        BY <1>7, <2>2, <2>3 DEF ReadValue
<1>8. ASSUME NEW t \in Users, CallKeyMap(t) PROVE AnswerInv'
    BY <1>8, <1>b, <1>c, SameResults DEF CallKeyMap, Calls
<1>9. ASSUME NEW t \in Users, ReturnMap(t) PROVE AnswerInv'
    BY <1>9, <1>b, <1>c, SameResults DEF ReturnMap
<1>10. ASSUME NEW t \in Users, WantDataLock(t) PROVE AnswerInv'
    BY <1>10, <1>b, <1>c, SameResults DEF WantDataLock
<1>11. ASSUME NEW t \in Users, EnterDataLock(t) PROVE AnswerInv'
    BY <1>11, <1>b, <1>c, SameResults DEF EnterDataLock
<1>12. ASSUME NEW t \in Users, RecheckPopulated(t) PROVE AnswerInv'
    BY <1>12, <1>b, <1>c, SameResults DEF RecheckPopulated
<1>13. ASSUME NEW t \in Users, RecheckEmpty(t) PROVE AnswerInv'
    BY <1>13, <1>b, <1>c, SameResults DEF RecheckEmpty
<1>14. ASSUME NEW t \in Users, NEW p \in Props, FetchProperty(t, p)
      PROVE  AnswerInv'
    BY <1>14, <1>b, <1>c, SameResults DEF FetchProperty
<1>15. ASSUME NEW t \in Users, PopulateFromMap(t) PROVE AnswerInv'
    BY <1>15, <1>b, <1>c, SameResults DEF PopulateFromMap
<1>16. ASSUME NEW t \in Users, SetMapPopulated(t) PROVE AnswerInv'
    BY <1>16, <1>b, <1>c, SameResults DEF SetMapPopulated
<1>17. ASSUME NEW t \in Users, CallClose(t) PROVE AnswerInv'
    BY <1>17, <1>b, <1>c, SameResults DEF CallClose, Calls
<1>18. ASSUME NEW t \in Users, CloseResults(t) PROVE AnswerInv'
    BY <1>18, <1>b, <1>c, SameResults DEF CloseResults
<1>19. ASSUME NEW t \in Users, EndClose(t) PROVE AnswerInv'
    BY <1>19, <1>b, <1>c, SameResults DEF EndClose
<1>20. ASSUME NEW contains \in SUBSET Props, SetResults(contains)
      PROVE  AnswerInv'
    BY <1>20 DEF SetResults, Unused
<1>21. CASE UNCHANGED vars
    BY <1>21, <1>b, <1>c, SameResults DEF vars
<1>. QED
    BY <1>1, <1>2, <1>3, <1>4, <1>5, <1>6, <1>7, <1>8, <1>9, <1>10,
       <1>11, <1>12, <1>13, <1>14, <1>15, <1>16, <1>17, <1>18, <1>19,
       <1>20, <1>21
    DEF Next, Get, AsKeyMap, Close

LEMMA MapInvariants == Spec => [](BuiltInv /\ MapInv /\ AnswerInv)
<1>1. Init => BuiltInv /\ UnusedInv /\ ReleaseInv /\ MapInv /\ AnswerInv
    <2>1. DOMAIN <<>> = {}
        OBVIOUS
    <2>. QED
        BY <2>1 DEF Init, BuiltInv, UnusedInv, ReleaseInv, MapInv, AnswerInv,
           Results, Answer
<1>2. /\ TInv /\ ReleaseInv /\ [Next]_vars => ReleaseInv'
      /\ TInv /\ ReleaseInv /\ UnusedInv /\ [Next]_vars => UnusedInv'
      /\ TInv /\ BuiltInv /\ [Next]_vars => BuiltInv'
      /\ TInv /\ UnusedInv /\ BuiltInv /\ MapInv /\ [Next]_vars => MapInv'
      /\ TInv /\ MapInv /\ AnswerInv /\ [Next]_vars => AnswerInv'
    BY ReleaseStep, UnusedStep, BuiltStep, MapStep, AnswerStep
<1>. QED
    BY <1>1, <1>2, InitTypes, TypeStep, PTL DEF Spec

\* A populated map has every property, each from the right native results, and
\* a population that fails leaves nothing.
THEOREM MapTheorem == Spec => []MapIsWholeOrEmpty
<1>1. MapInv => MapIsWholeOrEmpty
    BY DEF MapInv, MapIsWholeOrEmpty
<1>. QED
    BY <1>1, MapInvariants, PTL

\* A getter's value comes from the first native results with its property,
\* read or taken from the map.
THEOREM ValueTheorem == Spec => []ValueOfFirstResults
<1>1. AnswerInv => ValueOfFirstResults
    BY DEF AnswerInv, ValueOfFirstResults
<1>. QED
    BY <1>1, MapInvariants, PTL
=============================================================================
