------------------------- MODULE CloudEngineProofs -------------------------
(***************************************************************************)
(* The properties of CloudEngine, for any number of pipelines, requests    *)
(* and properties, and whatever lists the service gives.                   *)
(***************************************************************************)
EXTENDS CloudEngine, SequenceTheorems, TLAPS

USE CloudAssumption

\* A map stays a map when a name is put into it.
LEMMA PutMap ==
    ASSUME NEW map \in Maps, NEW name \in Properties, NEW kind \in Kinds
    PROVE  /\ Put(map, name, kind) \in Maps
           /\ DOMAIN Put(map, name, kind) = DOMAIN map \cup {name}
<1>1. PICK names \in SUBSET Properties : map \in [names -> Kinds]
  BY DEF Maps
<1>2. names \cup {name} \in SUBSET Properties
  OBVIOUS
<1>3. Put(map, name, kind) \in [names \cup {name} -> Kinds]
  BY <1>1 DEF Put
<1>4. DOMAIN map = names
  BY <1>1
<1>5. DOMAIN Put(map, name, kind) = DOMAIN map \cup {name}
  BY DEF Put
<1> QED
  BY <1>2, <1>3, <1>5 DEF Maps

\* Nor does it stop being one when reasons are added.
LEMMA ReasonsMap ==
    ASSUME NEW map \in Maps, NEW reasons \in SUBSET Properties
    PROVE  [p \in DOMAIN map \cup reasons |->
                IF p \in reasons THEN "noValue" ELSE map[p]] \in Maps
<1>1. PICK names \in SUBSET Properties : map \in [names -> Kinds]
  BY DEF Maps
<1>2. names \cup reasons \in SUBSET Properties
  OBVIOUS
<1>3. [p \in DOMAIN map \cup reasons |->
            IF p \in reasons THEN "noValue" ELSE map[p]]
        \in [names \cup reasons -> Kinds]
  BY <1>1 DEF Kinds
<1> QED
  BY <1>2, <1>3 DEF Maps

\* The empty map is one.
LEMMA EmptyMap == NoValues \in Maps /\ DOMAIN NoValues = {}
<1>1. NoValues \in [{} -> Kinds]
  BY DEF NoValues
<1> QED
  BY <1>1 DEF Maps, NoValues

-----------------------------------------------------------------------------

\* Every step of Next keeps the types.
THEOREM TypeInvariant == Spec => []TypeOK
<1>1. Init => TypeOK
  <2>1. <<>> \in Seq(Items)
    OBVIOUS
  <2>2. ASSUME Init
        PROVE  TypeOK
    <3> USE <2>2
    <3>1. /\ propertyMap \in [Requests -> Maps]
          /\ aspectData \in [Requests -> Maps]
      BY EmptyMap DEF Init
    <3>2. /\ pc \in [Requests -> {"idle", "check", "iterate", "answered", "failed"}]
          /\ pipeline \in [Requests -> Pipelines \cup {NoPipeline}]
          /\ index \in [Requests -> Nat \ {0}]
          /\ pipelines \in [Pipelines -> {"new", "built", "failed"}]
      BY DEF Init
    <3> QED
      BY <2>1, <3>1, <3>2 DEF Init, TypeOK
  <2> QED
    BY <2>2
<1>2. TypeOK /\ [Next]_vars => TypeOK'
  <2> SUFFICES ASSUME TypeOK, [Next]_vars
               PROVE  TypeOK'
    OBVIOUS
  <2> USE DEF TypeOK, buildVars, requestVars
  <2>1. CASE \E p \in Pipelines : AddPipeline(p)
    <3> PICK p \in Pipelines : AddPipeline(p)
      BY <2>1
    <3>1. CASE cloudRequestEngine' = p /\ builder' = p /\ phase' = "load"
               /\ UNCHANGED pipelines
      BY <3>1 DEF AddPipeline
    <3>2. CASE Built(p, "built") /\ UNCHANGED cloudRequestEngine
      BY <3>2 DEF AddPipeline, Built
    <3> QED
      BY <3>1, <3>2 DEF AddPipeline
  <2>2. CASE LoadThrows
    BY <2>2 DEF LoadThrows, Built
  <2>3. CASE LoadNothing
    BY <2>3 DEF LoadNothing, Built
  <2>4. CASE LoadAspectProperties
    <3>1. <<>> \in Seq(Items)
      OBVIOUS
    <3> QED
      BY <2>4, <3>1 DEF LoadAspectProperties
  <2>5. CASE LoadProperty
    <3>1. Head(pending) \in Items /\ Tail(pending) \in Seq(Items)
      BY <2>5, HeadTailProperties DEF LoadProperty
    <3>2. aspectProperties # NoList => Append(aspectProperties, Head(pending)) \in Seq(Items)
      BY <3>1, AppendProperties
    <3> QED
      BY <2>5, <3>1, <3>2 DEF LoadProperty, Items
  <2>6. CASE LoadUnknownType
    <3>1. <<>> \in Seq(Items)
      OBVIOUS
    <3> QED
      BY <2>6, <3>1 DEF LoadUnknownType, Built
  <2>7. CASE Loaded
    BY <2>7 DEF Loaded, Built
  <2>8. ASSUME NEW r \in Requests, NEW p \in Pipelines, Process(r, p)
        PROVE  TypeOK'
    BY <2>8 DEF Process
  <2>9. ASSUME NEW r \in Requests, \/ RefuseWithoutEngine(r)
                                   \/ ResponseUnusable(r)
                                   \/ ReadMalformed(r)
        PROVE  TypeOK'
    <3>1. /\ pc' = [pc EXCEPT ![r] = "failed"]
          /\ UNCHANGED <<withRequestEngine, buildVars, pipeline, index,
                         propertyMap, aspectData>>
      BY <2>9 DEF RefuseWithoutEngine, ResponseUnusable, ReadMalformed, Fail
    <3> QED
      BY <3>1
  <2>13. ASSUME NEW r \in Requests, ReadResponse(r)
         PROVE  TypeOK'
    BY <2>13 DEF ReadResponse
  <2>10. ASSUME NEW r \in Requests, ReadProperty(r)
         PROVE  TypeOK'
    <3>0. aspectProperties # NoList /\ index[r] \in DOMAIN aspectProperties
      BY <2>10 DEF ReadProperty
    <3>a. aspectProperties[index[r]] \in Items
      BY <3>0, ElementOfSeq
    <3>1. /\ aspectProperties[index[r]].name \in Properties
          /\ propertyMap[r] \in Maps
      BY <3>a DEF Items
    <3>2. \A kind \in Kinds :
            Put(propertyMap[r], aspectProperties[index[r]].name, kind) \in Maps
      BY <3>1, PutMap
    <3>3. propertyMap' \in [Requests -> Maps]
      BY <2>10, <3>2 DEF ReadProperty, Kinds
    <3> QED
      BY <2>10, <3>3 DEF ReadProperty
  <2>11. ASSUME NEW r \in Requests, Populate(r)
         PROVE  TypeOK'
    <3> DEFINE map(reasons) ==
            [p \in DOMAIN propertyMap[r] \cup reasons |->
                IF p \in reasons THEN "noValue" ELSE propertyMap[r][p]]
    <3>1. PICK reasons \in SUBSET Properties :
            /\ propertyMap' = [propertyMap EXCEPT ![r] = map(reasons)]
            /\ aspectData' = [aspectData EXCEPT ![r] = map(reasons)]
      BY <2>11 DEF Populate
    <3>2. propertyMap[r] \in Maps
      OBVIOUS
    <3>3. map(reasons) \in Maps
      BY <3>2, ReasonsMap
    <3> HIDE DEF map
    <3>4. /\ propertyMap' \in [Requests -> Maps]
          /\ aspectData' \in [Requests -> Maps]
      BY <3>1, <3>3
    <3> QED
      BY <2>11, <3>4 DEF Populate
  <2>12. CASE UNCHANGED vars
    BY <2>12 DEF vars
  <2> QED
    BY <2>1, <2>2, <2>3, <2>4, <2>5, <2>6, <2>7, <2>8, <2>9, <2>10, <2>11,
       <2>12, <2>13 DEF Next
<1> QED
  BY <1>1, <1>2, PTL DEF Spec

-----------------------------------------------------------------------------
(* The property list: it is loaded once, for a pipeline that is not built    *)
(* yet, and is a part of what the service offered from its start.            *)

BuildInv ==
    /\ cloudRequestEngine = NoPipeline =>
        phase = "idle" /\ aspectProperties = NoList
    /\ phase # "idle" => builder \in withRequestEngine
    /\ phase = "load" => aspectProperties = NoList
    /\ cloudRequestEngine = NoPipeline \/ phase # "idle" =>
        \A p \in withRequestEngine : pipelines[p] # "built"

OfferInv ==
    /\ \A i, j \in DOMAIN offered : offered[i].name = offered[j].name => i = j
    /\ phase = "items" =>
        /\ Len(offered) = Len(aspectProperties) + Len(pending)
        /\ \A i \in 1..Len(aspectProperties) : aspectProperties[i] = offered[i]
        /\ \A i \in 1..Len(pending) :
            pending[i] = offered[Len(aspectProperties) + i]

WeightedInv ==
    /\ aspectProperties = NoList => weightedPropertyNames = {}
    /\ aspectProperties # NoList =>
        /\ \A i \in DOMAIN aspectProperties :
            aspectProperties[i].name \in weightedPropertyNames
                <=> aspectProperties[i].type = "Weighted"
        /\ \A name \in weightedPropertyNames :
            \E i \in DOMAIN aspectProperties : aspectProperties[i].name = name

ListInv == BuildInv /\ OfferInv /\ WeightedInv /\ IncompleteListWasReported

\* A step of a request leaves all that alone.
RequestStep ==
    \/ \E r \in Requests :
        \/ \E p \in Pipelines : Process(r, p)
        \/ RefuseWithoutEngine(r)
        \/ ResponseUnusable(r)
        \/ ReadResponse(r)
        \/ ReadProperty(r)
        \/ ReadMalformed(r)
        \/ Populate(r)
    \/ UNCHANGED vars

LEMMA RequestsLeaveTheList ==
    RequestStep => UNCHANGED <<withRequestEngine, buildVars>>
BY DEF RequestStep, Process, RefuseWithoutEngine, ResponseUnusable, ReadResponse,
       ReadProperty, ReadMalformed, Populate, vars, buildVars

\* Every step is one of the builder or one of a request.
LEMMA StepCases ==
    [Next]_vars => \/ \E p \in Pipelines : AddPipeline(p)
                   \/ LoadThrows \/ LoadNothing \/ LoadAspectProperties
                   \/ LoadProperty \/ LoadUnknownType \/ Loaded
                   \/ RequestStep
BY DEF Next, RequestStep

\* What LoadProperty does to the list.
LEMMA AppendedItem ==
    ASSUME TypeOK, LoadProperty
    PROVE  /\ aspectProperties \in Seq(Items) /\ pending \in Seq(Items)
           /\ Len(pending) > 0 /\ Head(pending) = pending[1]
           /\ pending[1] \in Items
           /\ Len(pending') = Len(pending) - 1
           /\ \A i \in 1..Len(pending') : pending'[i] = pending[i + 1]
           /\ aspectProperties' \in Seq(Items)
           /\ Len(aspectProperties') = Len(aspectProperties) + 1
           /\ aspectProperties'[Len(aspectProperties) + 1] = pending[1]
           /\ \A i \in 1..Len(aspectProperties) :
                aspectProperties'[i] = aspectProperties[i]
<1>1. /\ aspectProperties \in Seq(Items) /\ pending \in Seq(Items)
      /\ pending # <<>>
      /\ pending' = Tail(pending)
      /\ aspectProperties' = Append(aspectProperties, Head(pending))
  BY DEF TypeOK, LoadProperty
<1>2. /\ Head(pending) \in Items /\ Len(pending) > 0
      /\ Head(pending) = pending[1]
  BY <1>1, HeadTailProperties
<1>3. /\ Len(pending') = Len(pending) - 1
      /\ \A i \in 1..Len(pending') : pending'[i] = pending[i + 1]
  BY <1>1, <1>2, HeadTailProperties
<1>4. /\ aspectProperties' \in Seq(Items)
      /\ Len(aspectProperties') = Len(aspectProperties) + 1
      /\ aspectProperties'[Len(aspectProperties) + 1] = pending[1]
      /\ \A i \in 1..Len(aspectProperties) :
            aspectProperties'[i] = aspectProperties[i]
  BY <1>1, <1>2, AppendProperties
<1> QED
  BY <1>1, <1>2, <1>3, <1>4

LEMMA ListInvariant == Spec => []ListInv
<1>1. Init => ListInv
  BY DEF Init, ListInv, BuildInv, OfferInv, WeightedInv,
         IncompleteListWasReported
<1>2. TypeOK /\ TypeOK' /\ ListInv /\ [Next]_vars => ListInv'
  <2> SUFFICES ASSUME TypeOK, TypeOK', ListInv, [Next]_vars
               PROVE  ListInv'
    OBVIOUS
  <2>1. ASSUME NEW p \in Pipelines, AddPipeline(p)
        PROVE  ListInv'
    <3>1. BuildInv'
      BY <2>1 DEF AddPipeline, Built, ListInv, BuildInv, TypeOK
    <3>2. OfferInv' /\ WeightedInv'
      BY <2>1 DEF AddPipeline, Built, ListInv, OfferInv, WeightedInv
    <3>3. IncompleteListWasReported'
      BY <2>1 DEF AddPipeline, Built, ListInv, BuildInv,
                  IncompleteListWasReported, TypeOK
    <3> QED
      BY <3>1, <3>2, <3>3 DEF ListInv
  <2>2. ASSUME LoadThrows \/ LoadNothing
        PROVE  ListInv'
    <3>1. BuildInv'
      BY <2>2 DEF LoadThrows, LoadNothing, Built, ListInv, BuildInv, TypeOK
    <3>2. OfferInv' /\ WeightedInv'
      BY <2>2 DEF LoadThrows, LoadNothing, Built, ListInv, OfferInv, WeightedInv
    <3>3. IncompleteListWasReported'
      BY <2>2 DEF LoadThrows, LoadNothing, Built, IncompleteListWasReported,
                  TypeOK
    <3> QED
      BY <3>1, <3>2, <3>3 DEF ListInv
  <2>3. ASSUME LoadAspectProperties
        PROVE  ListInv'
    <3>1. BuildInv'
      BY <2>3 DEF LoadAspectProperties, ListInv, BuildInv
    <3>2. OfferInv'
      <4>1. PICK list \in CloudLists : offered' = list /\ pending' = list
        BY <2>3 DEF LoadAspectProperties
      <4>2. aspectProperties' = <<>> /\ Len(<<>>) = 0
        BY <2>3 DEF LoadAspectProperties
      <4>3. list \in Seq(Items)
        BY <4>1
      <4> QED
        BY <4>1, <4>2, <4>3 DEF OfferInv
    <3>3. WeightedInv' /\ IncompleteListWasReported'
      <4>1. DOMAIN <<>> = {}
        OBVIOUS
      <4> QED
        BY <2>3, <4>1 DEF LoadAspectProperties, WeightedInv,
                          IncompleteListWasReported, TypeOK
    <3> QED
      BY <3>1, <3>2, <3>3 DEF ListInv
  <2>4. ASSUME LoadProperty
        PROVE  ListInv'
    <3> USE AppendedItem
    <3>1. BuildInv' /\ IncompleteListWasReported'
      BY <2>4 DEF LoadProperty, ListInv, BuildInv, IncompleteListWasReported,
                  TypeOK
    <3>2. OfferInv'
      <4>1. phase = "items" /\ offered' = offered
        BY <2>4 DEF LoadProperty
      <4> DEFINE n == Len(aspectProperties)
      <4>2. n \in Nat /\ Len(pending) \in Nat
        BY <2>4
      <4>3. /\ Len(offered) = n + Len(pending)
            /\ \A i \in 1..n : aspectProperties[i] = offered[i]
            /\ \A i \in 1..Len(pending) : pending[i] = offered[n + i]
        BY <4>1 DEF ListInv, OfferInv
      <4>4. /\ Len(aspectProperties') = n + 1
            /\ \A i \in 1..n : aspectProperties'[i] = aspectProperties[i]
            /\ aspectProperties'[n + 1] = pending[1]
            /\ Len(pending) > 0 /\ Len(pending') = Len(pending) - 1
            /\ \A i \in 1..Len(pending') : pending'[i] = pending[i + 1]
        BY <2>4
      <4> HIDE DEF n
      <4>5. Len(offered) = (n + 1) + Len(pending')
        BY <4>2, <4>3, <4>4
      <4>6. ASSUME NEW i \in 1..(n + 1)
            PROVE  aspectProperties'[i] = offered[i]
        <5>1. CASE i = n + 1
          BY <4>2, <4>3, <4>4, <5>1
        <5>2. CASE i \in 1..n
          BY <4>3, <4>4, <5>2
        <5> QED
          BY <4>2, <5>1, <5>2
      <4>7. ASSUME NEW i \in 1..Len(pending')
            PROVE  pending'[i] = offered[(n + 1) + i]
        <5>1. i + 1 \in 1..Len(pending) /\ n + (i + 1) = (n + 1) + i
          BY <4>2, <4>4
        <5> QED
          BY <4>3, <4>4, <5>1
      <4> QED
        BY <4>1, <4>4, <4>5, <4>6, <4>7 DEF ListInv, OfferInv
    <3>3. WeightedInv'
      <4>1. aspectProperties # NoList /\ phase = "items"
            /\ weightedPropertyNames' = weightedPropertyNames \cup
                {pending[1].name : t \in {pending[1].type} \cap {"Weighted"}}
        BY <2>4 DEF LoadProperty, TypeOK
      <4>2. pending[1] = offered[Len(aspectProperties) + 1]
            /\ Len(aspectProperties) + 1 \in DOMAIN offered
        <5>1. /\ Len(aspectProperties) \in Nat /\ Len(pending) > 0
              /\ Len(pending) \in Nat /\ offered \in Seq(Items)
          BY <2>4 DEF TypeOK
        <5>2. /\ Len(offered) = Len(aspectProperties) + Len(pending)
              /\ \A i \in 1..Len(pending) :
                    pending[i] = offered[Len(aspectProperties) + i]
          BY <4>1 DEF ListInv, OfferInv
        <5>3. 1 \in 1..Len(pending) /\ DOMAIN offered = 1..Len(offered)
          BY <5>1
        <5> QED
          BY <5>1, <5>2, <5>3
      <4>3. \A i \in 1..Len(aspectProperties) :
                aspectProperties[i].name # pending[1].name
        <5> SUFFICES ASSUME NEW i \in 1..Len(aspectProperties),
                            aspectProperties[i].name = pending[1].name
                     PROVE  FALSE
          OBVIOUS
        <5>1. aspectProperties[i] = offered[i]
          BY <4>1 DEF ListInv, OfferInv
        <5>2. Len(aspectProperties) \in Nat /\ DOMAIN offered = 1..Len(offered)
              /\ Len(offered) \in Nat
          BY <2>4 DEF TypeOK
        <5>3. i \in DOMAIN offered /\ i # Len(aspectProperties) + 1
          BY <4>2, <5>2
        <5> QED
          BY <4>2, <5>1, <5>3 DEF ListInv, OfferInv
      <4>4. \A i \in DOMAIN aspectProperties' :
                aspectProperties'[i].name \in weightedPropertyNames'
                    <=> aspectProperties'[i].type = "Weighted"
        <5> SUFFICES ASSUME NEW i \in 1..(Len(aspectProperties) + 1)
                     PROVE  aspectProperties'[i].name \in weightedPropertyNames'
                                <=> aspectProperties'[i].type = "Weighted"
          BY <2>4
        <5>1. CASE i = Len(aspectProperties) + 1
          <6>1. aspectProperties'[i] = pending[1]
            BY <2>4, <5>1
          <6>2. pending[1].name \notin weightedPropertyNames
            <7>1. \A name \in weightedPropertyNames :
                    \E k \in DOMAIN aspectProperties :
                        aspectProperties[k].name = name
              BY <4>1 DEF ListInv, WeightedInv
            <7>2. DOMAIN aspectProperties = 1..Len(aspectProperties)
              BY <2>4
            <7> QED
              BY <4>3, <7>1, <7>2
          <6> QED
            BY <4>1, <6>1, <6>2
        <5>2. CASE i \in 1..Len(aspectProperties)
          BY <2>4, <4>1, <4>3, <5>2 DEF ListInv, WeightedInv
        <5> QED
          BY <2>4, <5>1, <5>2
      <4>5. \A name \in weightedPropertyNames' :
                \E i \in DOMAIN aspectProperties' :
                    aspectProperties'[i].name = name
        BY <2>4, <4>1 DEF ListInv, WeightedInv
      <4> QED
        BY <2>4, <4>4, <4>5 DEF WeightedInv
    <3> QED
      BY <3>1, <3>2, <3>3 DEF ListInv
  <2>5. ASSUME LoadUnknownType \/ Loaded
        PROVE  ListInv'
    <3>1. BuildInv'
      BY <2>5 DEF LoadUnknownType, Loaded, Built, ListInv, BuildInv, TypeOK
    <3>2. OfferInv' /\ WeightedInv'
      BY <2>5 DEF LoadUnknownType, Loaded, Built, ListInv, OfferInv, WeightedInv
    <3>3. IncompleteListWasReported'
      <4>1. CASE LoadUnknownType
        BY <4>1 DEF LoadUnknownType, Built, IncompleteListWasReported, TypeOK
      <4>2. CASE Loaded
        <5>1. /\ phase = "items" /\ Len(pending) = 0
              /\ aspectProperties' = aspectProperties /\ offered' = offered
          BY <4>2 DEF Loaded
        <5>2. aspectProperties \in Seq(Items) /\ offered \in Seq(Items)
          BY <5>1 DEF TypeOK
        <5>3. /\ Len(aspectProperties) = Len(offered)
              /\ \A i \in 1..Len(aspectProperties) :
                    aspectProperties[i] = offered[i]
          BY <5>1, <5>2 DEF ListInv, OfferInv
        <5>4. aspectProperties = offered
          BY <5>2, <5>3, SeqEqual
        <5> QED
          BY <5>1, <5>4 DEF IncompleteListWasReported
      <4> QED
        BY <2>5, <4>1, <4>2
    <3> QED
      BY <3>1, <3>2, <3>3 DEF ListInv
  <2>6. ASSUME RequestStep
        PROVE  ListInv'
    BY <2>6, RequestsLeaveTheList DEF ListInv, BuildInv, OfferInv, WeightedInv,
        IncompleteListWasReported, buildVars
  <2> QED
    BY <2>1, <2>2, <2>3, <2>4, <2>5, <2>6, StepCases
<1> QED
  BY <1>1, <1>2, TypeInvariant, PTL DEF Spec

\* IncompleteListWasReported, for any number of pipelines and any lists: an
\* engine that is stuck with less than the service offered has been reported.
THEOREM ReportTheorem == Spec => []IncompleteListWasReported
<1>1. ListInv => IncompleteListWasReported
  BY DEF ListInv
<1> QED
  BY <1>1, ListInvariant, PTL

-----------------------------------------------------------------------------
(* Requests: one that reads the list is in a pipeline with a request engine, *)
(* and such a pipeline is only built once nothing is loaded any more.        *)

RequestInv ==
    \A r \in Requests :
        /\ pc[r] \in {"check", "iterate", "answered"} =>
            pipeline[r] \in Pipelines /\ pipelines[pipeline[r]] = "built"
        /\ pc[r] \in {"iterate", "answered"} =>
            pipeline[r] \in withRequestEngine /\ aspectProperties # NoList

\* A pipeline that is built stays built, and a list stays a list.
LEMMA BuiltStaysBuilt ==
    ASSUME TypeOK, BuildInv, [Next]_vars
    PROVE  /\ \A p \in Pipelines : pipelines[p] = "built" => pipelines'[p] = "built"
           /\ aspectProperties # NoList => aspectProperties' # NoList
           /\ withRequestEngine' = withRequestEngine
<1>1. ASSUME NEW p \in Pipelines, AddPipeline(p)
      PROVE  /\ \A q \in Pipelines : pipelines[q] = "built" => pipelines'[q] = "built"
             /\ aspectProperties' = aspectProperties
             /\ withRequestEngine' = withRequestEngine
  BY <1>1 DEF AddPipeline, Built, TypeOK
<1>2. ASSUME LoadThrows \/ LoadNothing \/ LoadUnknownType \/ Loaded
      PROVE  /\ \A q \in Pipelines : pipelines[q] = "built" => pipelines'[q] = "built"
             /\ aspectProperties' = aspectProperties
             /\ withRequestEngine' = withRequestEngine
  BY <1>2 DEF LoadThrows, LoadNothing, LoadUnknownType, Loaded, Built, BuildInv,
              TypeOK
<1>3. ASSUME LoadAspectProperties
      PROVE  /\ pipelines' = pipelines
             /\ aspectProperties = NoList
             /\ withRequestEngine' = withRequestEngine
  BY <1>3 DEF LoadAspectProperties, BuildInv
<1>4. ASSUME LoadProperty
      PROVE  /\ pipelines' = pipelines
             /\ aspectProperties' # NoList
             /\ withRequestEngine' = withRequestEngine
  BY <1>4, AppendedItem DEF LoadProperty
<1>5. ASSUME RequestStep
      PROVE  /\ pipelines' = pipelines
             /\ aspectProperties' = aspectProperties
             /\ withRequestEngine' = withRequestEngine
  BY <1>5, RequestsLeaveTheList DEF buildVars
<1> QED
  BY <1>1, <1>2, <1>3, <1>4, <1>5, StepCases

LEMMA RequestInvariant == Spec => []RequestInv
<1>1. Init => RequestInv
  BY DEF Init, RequestInv
<1>2. TypeOK /\ ListInv /\ RequestInv /\ [Next]_vars => RequestInv'
  <2> SUFFICES ASSUME TypeOK, ListInv, RequestInv, [Next]_vars
               PROVE  RequestInv'
    OBVIOUS
  <2>0. /\ \A p \in Pipelines : pipelines[p] = "built" => pipelines'[p] = "built"
        /\ aspectProperties # NoList => aspectProperties' # NoList
        /\ withRequestEngine' = withRequestEngine
    BY BuiltStaysBuilt DEF ListInv
  <2>1. ASSUME UNCHANGED requestVars
        PROVE  RequestInv'
    BY <2>0, <2>1 DEF RequestInv, requestVars
  <2>2. ASSUME NEW r \in Requests, NEW p \in Pipelines, Process(r, p)
        PROVE  RequestInv'
    BY <2>0, <2>2 DEF Process, RequestInv, TypeOK
  <2>3. ASSUME NEW r \in Requests, RefuseWithoutEngine(r) \/ ResponseUnusable(r)
                                   \/ ReadMalformed(r)
        PROVE  RequestInv'
    <3>1. pc' = [pc EXCEPT ![r] = "failed"] /\ pipeline' = pipeline
      BY <2>3 DEF RefuseWithoutEngine, ResponseUnusable, ReadMalformed, Fail
    <3> QED
      BY <2>0, <3>1 DEF RequestInv, TypeOK
  <2>4. ASSUME NEW r \in Requests, ReadResponse(r)
        PROVE  RequestInv'
    BY <2>0, <2>4 DEF ReadResponse, RequestInv, TypeOK
  <2>5. ASSUME NEW r \in Requests, ReadProperty(r)
        PROVE  RequestInv'
    BY <2>0, <2>5 DEF ReadProperty, RequestInv
  <2>6. ASSUME NEW r \in Requests, Populate(r)
        PROVE  RequestInv'
    BY <2>0, <2>6 DEF Populate, RequestInv, TypeOK
  <2>7. ASSUME \/ \E p \in Pipelines : AddPipeline(p)
               \/ LoadThrows \/ LoadNothing \/ LoadAspectProperties
               \/ LoadProperty \/ LoadUnknownType \/ Loaded
               \/ UNCHANGED vars
        PROVE  UNCHANGED requestVars
    BY <2>7 DEF AddPipeline, LoadThrows, LoadNothing, LoadAspectProperties,
        LoadProperty, LoadUnknownType, Loaded, vars
  <2> QED
    BY <2>1, <2>2, <2>3, <2>4, <2>5, <2>6, <2>7 DEF Next
<1> QED
  BY <1>1, <1>2, TypeInvariant, ListInvariant, PTL DEF Spec

\* While a request reads the list, or has, no step changes it.
LEMMA ListIsStill ==
    ASSUME TypeOK, ListInv, RequestInv, [Next]_vars,
           NEW r \in Requests, pc[r] \in {"iterate", "answered"}
    PROVE  /\ aspectProperties' = aspectProperties
           /\ weightedPropertyNames' = weightedPropertyNames
<1>1. phase = "idle"
  BY DEF TypeOK, ListInv, BuildInv, RequestInv
<1>2. ~LoadAspectProperties /\ ~LoadProperty
  BY <1>1 DEF LoadAspectProperties, LoadProperty
<1> QED
  BY <1>2, StepCases, RequestsLeaveTheList DEF AddPipeline, LoadThrows,
     LoadNothing, LoadUnknownType, Loaded, buildVars

\* ListIsStillWhileRead, for any number of threads and pipelines: the list a
\* request walks through without a lock never changes under it.
THEOREM StillTheorem == Spec => ListIsStillWhileRead
<1>1. TypeOK /\ ListInv /\ RequestInv /\ [Next]_vars
        => [\A r \in Requests : pc[r] = "iterate" =>
                aspectProperties' = aspectProperties]_vars
  BY ListIsStill
<1> QED
  BY <1>1, TypeInvariant, ListInvariant, RequestInvariant, PTL
     DEF Spec, ListIsStillWhileRead

-----------------------------------------------------------------------------
(* What a request has read.                                                  *)

\* The map holds the item, as a weighted list exactly if it is one.
Holds(map, item) ==
    /\ item.name \in DOMAIN map
    /\ map[item.name] # "noValue" =>
        (map[item.name] = "weighted" <=> item.type = "Weighted")

AnswerInv ==
    \A r \in Requests :
        /\ pc[r] \in {"idle", "check"} => index[r] = 1
        /\ pc[r] = "iterate" =>
            \A i \in DOMAIN aspectProperties : i < index[r] =>
                Holds(propertyMap[r], aspectProperties[i])
        /\ pc[r] = "answered" =>
            \A i \in DOMAIN aspectProperties :
                Holds(aspectData[r], aspectProperties[i])
        /\ pc[r] # "answered" => DOMAIN aspectData[r] = {}

LEMMA AnswerInvariant == Spec => []AnswerInv
<1>1. Init => AnswerInv
  BY EmptyMap DEF Init, AnswerInv
<1>2. /\ TypeOK /\ ListInv /\ RequestInv /\ AnswerInv /\ [Next]_vars
      => AnswerInv'
  <2> SUFFICES ASSUME TypeOK, ListInv, RequestInv, AnswerInv, [Next]_vars
               PROVE  AnswerInv'
    OBVIOUS
  <2>0. \A r \in Requests : pc[r] \in {"iterate", "answered"} =>
            aspectProperties' = aspectProperties
    BY ListIsStill
  <2>1. ASSUME UNCHANGED requestVars
        PROVE  AnswerInv'
    BY <2>0, <2>1 DEF AnswerInv, requestVars
  <2>2. ASSUME NEW r \in Requests, NEW p \in Pipelines, Process(r, p)
        PROVE  AnswerInv'
    BY <2>0, <2>2 DEF Process, AnswerInv, TypeOK
  <2>3. ASSUME NEW r \in Requests, RefuseWithoutEngine(r) \/ ResponseUnusable(r)
                                   \/ ReadMalformed(r)
        PROVE  AnswerInv'
    <3>1. /\ pc' = [pc EXCEPT ![r] = "failed"] /\ pc[r] # "answered"
          /\ UNCHANGED <<index, propertyMap, aspectData>>
      BY <2>3 DEF RefuseWithoutEngine, ResponseUnusable, ReadMalformed, Fail
    <3> QED
      BY <2>0, <3>1 DEF AnswerInv, TypeOK
  <2>4. ASSUME NEW r \in Requests, ReadResponse(r)
        PROVE  AnswerInv'
    <3>1. aspectProperties' = aspectProperties
      BY <2>4 DEF ReadResponse, buildVars
    <3>2. aspectProperties \in Seq(Items)
      BY <2>4 DEF ReadResponse, TypeOK
    <3>3. \A i \in DOMAIN aspectProperties : ~(i < 1)
      BY <3>2
    <3> QED
      BY <2>4, <3>1, <3>3 DEF ReadResponse, AnswerInv, TypeOK
  <2>5. ASSUME NEW r \in Requests, ReadProperty(r)
        PROVE  AnswerInv'
    <3> DEFINE item == aspectProperties[index[r]]
    <3>1. /\ aspectProperties \in Seq(Items)
          /\ index[r] \in 1..Len(aspectProperties)
          /\ DOMAIN aspectProperties = 1..Len(aspectProperties)
      BY <2>5 DEF ReadProperty, TypeOK
    <3>2. item \in Items
      BY <3>1, ElementOfSeq
    <3>3. PICK kind \in Kinds :
            /\ kind # "noValue" =>
                (kind = "weighted" <=> item.name \in weightedPropertyNames)
            /\ propertyMap' = [propertyMap EXCEPT ![r] =
                                    Put(propertyMap[r], item.name, kind)]
      BY <2>5 DEF ReadProperty, Kinds
    <3>4. \A i \in DOMAIN aspectProperties :
            aspectProperties[i].name \in weightedPropertyNames
                <=> aspectProperties[i].type = "Weighted"
      BY <3>1 DEF ListInv, WeightedInv, TypeOK
    <3>5. /\ index' = [index EXCEPT ![r] = index[r] + 1]
          /\ UNCHANGED <<pc, aspectData, aspectProperties>>
          /\ pc[r] = "iterate"
      BY <2>5 DEF ReadProperty, buildVars
    <3>6. propertyMap'[r] = Put(propertyMap[r], item.name, kind)
      BY <3>3 DEF TypeOK
    <3>7. ASSUME NEW i \in DOMAIN aspectProperties, i < index[r] + 1
          PROVE  Holds(propertyMap'[r], aspectProperties[i])
      <4>1. CASE aspectProperties[i].name = item.name
        BY <3>1, <3>3, <3>4, <3>6, <4>1 DEF Holds, Put
      <4>2. CASE aspectProperties[i].name # item.name
        <5>1. i < index[r]
          BY <3>1, <3>7, <4>2
        <5>2. Holds(propertyMap[r], aspectProperties[i])
          BY <3>5, <5>1 DEF AnswerInv
        <5> QED
          BY <3>6, <4>2, <5>2 DEF Holds, Put
      <4> QED
        BY <4>1, <4>2
    <3>8. \A q \in Requests \ {r} :
            propertyMap'[q] = propertyMap[q] /\ index'[q] = index[q]
      BY <3>3, <3>5 DEF TypeOK
    <3>9. index'[r] = index[r] + 1
      BY <3>5 DEF TypeOK
    <3> HIDE DEF item
    <3> QED
      BY <3>5, <3>7, <3>8, <3>9 DEF AnswerInv
  <2>6. ASSUME NEW r \in Requests, Populate(r)
        PROVE  AnswerInv'
    <3> DEFINE map(reasons) ==
            [p \in DOMAIN propertyMap[r] \cup reasons |->
                IF p \in reasons THEN "noValue" ELSE propertyMap[r][p]]
    <3>1. PICK reasons \in SUBSET (Properties \ DOMAIN propertyMap[r]) :
            aspectData' = [aspectData EXCEPT ![r] = map(reasons)]
      BY <2>6 DEF Populate
    <3>2. /\ pc' = [pc EXCEPT ![r] = "answered"] /\ pc[r] = "iterate"
          /\ index[r] > Len(aspectProperties)
          /\ UNCHANGED <<index, aspectProperties>>
          /\ \E other : propertyMap' = [propertyMap EXCEPT ![r] = other]
      BY <2>6 DEF Populate, buildVars
    <3>3. ASSUME NEW i \in DOMAIN aspectProperties
          PROVE  Holds(map(reasons), aspectProperties[i])
      <4>1. aspectProperties \in Seq(Items) /\ index[r] \in Nat
        BY <3>2 DEF TypeOK
      <4>2. i < index[r]
        BY <3>2, <4>1
      <4>3. Holds(propertyMap[r], aspectProperties[i])
        BY <3>2, <4>2 DEF AnswerInv
      <4>4. aspectProperties[i].name \notin reasons
        BY <4>3 DEF Holds
      <4> QED
        BY <4>3, <4>4 DEF Holds
    <3>4. aspectData'[r] = map(reasons)
      BY <3>1 DEF TypeOK
    <3> HIDE DEF map
    <3>5. \A q \in Requests \ {r} : /\ propertyMap'[q] = propertyMap[q]
                                    /\ aspectData'[q] = aspectData[q]
                                    /\ pc'[q] = pc[q]
      BY <3>1, <3>2 DEF TypeOK
    <3>6. pc'[r] = "answered"
      BY <3>2 DEF TypeOK
    <3> QED
      BY <3>2, <3>3, <3>4, <3>5, <3>6 DEF AnswerInv
  <2>7. ASSUME \/ \E p \in Pipelines : AddPipeline(p)
               \/ LoadThrows \/ LoadNothing \/ LoadAspectProperties
               \/ LoadProperty \/ LoadUnknownType \/ Loaded
               \/ UNCHANGED vars
        PROVE  UNCHANGED requestVars
    BY <2>7 DEF AddPipeline, LoadThrows, LoadNothing, LoadAspectProperties,
        LoadProperty, LoadUnknownType, Loaded, vars
  <2> QED
    BY <2>1, <2>2, <2>3, <2>4, <2>5, <2>6, <2>7 DEF Next
<1> QED
  BY <1>1, <1>2, TypeInvariant, ListInvariant, RequestInvariant, PTL DEF Spec

\* AnswersAreWhole, whatever the service offers and answers: a request stores
\* every property of the list, weighted ones as weighted lists, or nothing.
THEOREM WholeTheorem == Spec => []AnswersAreWhole
<1>1. AnswerInv => AnswersAreWhole
  BY DEF AnswerInv, AnswersAreWhole, Holds
<1> QED
  BY <1>1, AnswerInvariant, PTL
=============================================================================
