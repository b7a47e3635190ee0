----------------------------- MODULE CloudEngine -----------------------------
(***************************************************************************)
(* IPIntelligenceCloudEngine: one thread adds the engine to pipelines, one *)
(* after another, while requests of the pipelines that are built already   *)
(* run in threads of their own.                                            *)
(*                                                                         *)
(* The cloud service is outside: asked for its properties it fails, has    *)
(* none for this engine, or has a list, with types the engine may not      *)
(* know; asked about an address it answers with a value, a null or         *)
(* something malformed for each property.  Names are taken up to case, as  *)
(* the code's maps do.  The base classes (the flow data, the stages of an  *)
(* aspect engine) are outside too.                                         *)
(***************************************************************************)
EXTENDS Naturals, Sequences

CONSTANTS
    Pipelines,   \* pipelines the engine is added to
    Requests,    \* threads that process one flow data each
    Properties,  \* names of properties of the service
    CloudLists,  \* lists of properties the service may give
    NoPipeline,
    NoList       \* the property list before it is assigned

Types == {"Weighted", "Scalar", "Unknown"}
Items == [name : Properties, type : Types]
Kinds == {"weighted", "plain", "noValue"}
Maps == UNION {[names -> Kinds] : names \in SUBSET Properties}

ASSUME CloudAssumption ==
    /\ CloudLists \subseteq Seq(Items)
    /\ \A list \in CloudLists : \A i, j \in DOMAIN list :
        list[i].name = list[j].name => i = j
    /\ NoPipeline \notin Pipelines
    /\ NoList \notin Seq(Items)

VARIABLES
    withRequestEngine,      \* pipelines that hold a CloudRequestEngine
    pipelines,              \* what became of each pipeline
    builder,                \* the pipeline that is being built, or NoPipeline
    phase,                  \* where addPipeline is
    pending,                \* items of the service's list still to be read
    offered,                \* the list the service gave when it was asked
    cloudRequestEngine,     \* pipeline whose request engine was kept
    aspectProperties,
    weightedPropertyNames,
    logged,                 \* "Failed to load aspect properties"
    pc, pipeline,           \* of a request: where it is, and in which pipeline
    index,                  \* of a request: its place in the list
    propertyMap,            \* of a request: what it has read so far
    aspectData              \* of a request: what it has stored

buildVars == <<pipelines, builder, phase, pending, offered, cloudRequestEngine,
               aspectProperties, weightedPropertyNames, logged>>
requestVars == <<pc, pipeline, index, propertyMap, aspectData>>
vars == <<withRequestEngine, buildVars, requestVars>>

NoValues == [p \in {} |-> "noValue"]

Init ==
    /\ withRequestEngine \in SUBSET Pipelines
    /\ pipelines = [p \in Pipelines |-> "new"]
    /\ builder = NoPipeline
    /\ phase = "idle"
    /\ pending = <<>>
    /\ offered = <<>>
    /\ cloudRequestEngine = NoPipeline
    /\ aspectProperties = NoList
    /\ weightedPropertyNames = {}
    /\ logged = FALSE
    /\ pc = [r \in Requests |-> "idle"]
    /\ pipeline = [r \in Requests |-> NoPipeline]
    /\ index = [r \in Requests |-> 1]
    /\ propertyMap = [r \in Requests |-> NoValues]
    /\ aspectData = [r \in Requests |-> NoValues]

-----------------------------------------------------------------------------
(* addPipeline *)

Built(p, result) ==
    /\ pipelines' = [pipelines EXCEPT ![p] = result]
    /\ builder' = NoPipeline
    /\ phase' = "idle"

\* As if every request engine were asked for its list.
AddPipelineAndReload(p) ==
    /\ phase = "idle"
    /\ pipelines[p] = "new"
    /\ IF p \in withRequestEngine
       THEN /\ cloudRequestEngine' = p
            /\ builder' = p
            /\ phase' = "load"
            /\ UNCHANGED pipelines
       ELSE /\ Built(p, "built")
            /\ UNCHANGED cloudRequestEngine
    /\ UNCHANGED <<withRequestEngine, pending, offered, aspectProperties,
                   weightedPropertyNames, logged, requestVars>>

\* The request engine is remembered before its properties are loaded, and only
\* the first one is: afterwards nothing is loaded.
AddPipeline(p) ==
    /\ phase = "idle"
    /\ pipelines[p] = "new"
    /\ IF cloudRequestEngine = NoPipeline /\ p \in withRequestEngine
       THEN /\ cloudRequestEngine' = p
            /\ builder' = p
            /\ phase' = "load"
            /\ UNCHANGED pipelines
       ELSE /\ Built(p, "built")
            /\ UNCHANGED cloudRequestEngine
    /\ UNCHANGED <<withRequestEngine, pending, offered, aspectProperties,
                   weightedPropertyNames, logged, requestVars>>

\* getPublicProperties throws, and so does addPipeline.
LoadThrows ==
    /\ phase = "load"
    /\ Built(builder, "failed")
    /\ UNCHANGED <<withRequestEngine, pending, offered, cloudRequestEngine,
                   aspectProperties, weightedPropertyNames, logged, requestVars>>

\* The service has no properties for this engine: the pipeline is built anyway.
LoadNothing ==
    /\ phase = "load"
    /\ logged' = TRUE
    /\ Built(builder, "built")
    /\ UNCHANGED <<withRequestEngine, pending, offered, cloudRequestEngine,
                   aspectProperties, weightedPropertyNames, requestVars>>

LoadAspectProperties ==
    /\ phase = "load"
    /\ \E list \in CloudLists :
        /\ offered' = list
        /\ pending' = list
    /\ aspectProperties' = <<>>
    /\ weightedPropertyNames' = {}
    /\ phase' = "items"
    /\ UNCHANGED <<withRequestEngine, pipelines, builder, cloudRequestEngine,
                   logged, requestVars>>

\* The name of a weighted property is noted before the type is resolved.
LoadProperty ==
    /\ phase = "items"
    /\ pending # <<>>
    /\ Head(pending).type # "Unknown"
    /\ weightedPropertyNames' = weightedPropertyNames \cup
            {Head(pending).name : t \in {Head(pending).type} \cap {"Weighted"}}
    /\ aspectProperties' = Append(aspectProperties, Head(pending))
    /\ pending' = Tail(pending)
    /\ UNCHANGED <<withRequestEngine, pipelines, builder, phase, offered,
                   cloudRequestEngine, logged, requestVars>>

\* As if a property of an unknown type were skipped.
LoadUnknownTypeSkipped ==
    /\ phase = "items"
    /\ pending # <<>>
    /\ Head(pending).type = "Unknown"
    /\ pending' = Tail(pending)
    /\ UNCHANGED <<withRequestEngine, pipelines, builder, phase, offered,
                   cloudRequestEngine, aspectProperties, weightedPropertyNames,
                   logged, requestVars>>

\* As if the loop went on where it was when it threw.
LoadUnknownTypeHalfWay ==
    /\ phase = "items"
    /\ pending # <<>>
    /\ Head(pending).type = "Unknown"
    /\ Built(builder, "failed")
    /\ UNCHANGED <<withRequestEngine, pending, offered, cloudRequestEngine,
                   aspectProperties, weightedPropertyNames, logged, requestVars>>

\* resolvePropertyType does not know the type: the exception leaves the list as
\* short as it is.
LoadUnknownType ==
    /\ phase = "items"
    /\ pending # <<>>
    /\ Head(pending).type = "Unknown"
    /\ pending' = <<>>
    /\ Built(builder, "failed")
    /\ UNCHANGED <<withRequestEngine, offered, cloudRequestEngine,
                   aspectProperties, weightedPropertyNames, logged, requestVars>>

Loaded ==
    /\ phase = "items"
    /\ pending = <<>>
    /\ Built(builder, "built")
    /\ UNCHANGED <<withRequestEngine, pending, offered, cloudRequestEngine,
                   aspectProperties, weightedPropertyNames, logged, requestVars>>

-----------------------------------------------------------------------------
(* processEngine *)

Fail(r) == pc' = [pc EXCEPT ![r] = "failed"]

Process(r, p) ==
    /\ pc[r] = "idle"
    /\ pipelines[p] = "built"
    /\ pc' = [pc EXCEPT ![r] = "check"]
    /\ pipeline' = [pipeline EXCEPT ![r] = p]
    /\ UNCHANGED <<withRequestEngine, buildVars, index, propertyMap, aspectData>>

\* No request engine is known.
RefuseWithoutEngine(r) ==
    /\ pc[r] = "check"
    /\ cloudRequestEngine = NoPipeline
    /\ Fail(r)
    /\ UNCHANGED <<withRequestEngine, buildVars, pipeline, index, propertyMap,
                   aspectData>>

\* One is known, but the flow data has nothing from it, or what it has is not
\* the JSON expected; or there is no property list.
ResponseUnusable(r) ==
    /\ pc[r] = "check"
    /\ cloudRequestEngine # NoPipeline
    /\ Fail(r)
    /\ UNCHANGED <<withRequestEngine, buildVars, pipeline, index, propertyMap,
                   aspectData>>

\* The data of the request engine is found by its key, so that of the
\* pipeline's own request engine will do.
ReadResponse(r) ==
    /\ pc[r] = "check"
    /\ cloudRequestEngine # NoPipeline
    /\ pipeline[r] \in withRequestEngine
    /\ aspectProperties # NoList
    /\ pc' = [pc EXCEPT ![r] = "iterate"]
    /\ UNCHANGED <<withRequestEngine, buildVars, pipeline, index, propertyMap,
                   aspectData>>

\* propertyMap.put
Put(map, name, kind) ==
    [p \in DOMAIN map \cup {name} |-> IF p = name THEN kind ELSE map[p]]

\* As if each value were stored when it is read.
ReadPropertyAndStore(r) ==
    /\ pc[r] = "iterate"
    /\ index[r] <= Len(aspectProperties)
    /\ LET name == aspectProperties[index[r]].name
           present == IF name \in weightedPropertyNames
                      THEN "weighted" ELSE "plain"
       IN  \E kind \in {present, "noValue"} :
            /\ propertyMap' = [propertyMap EXCEPT ![r] = Put(@, name, kind)]
            /\ aspectData' = [aspectData EXCEPT ![r] = Put(@, name, kind)]
    /\ index' = [index EXCEPT ![r] = @ + 1]
    /\ UNCHANGED <<withRequestEngine, buildVars, pc, pipeline>>

\* A null, with or without a reason, is no value.
ReadProperty(r) ==
    /\ pc[r] = "iterate"
    /\ index[r] <= Len(aspectProperties)
    /\ LET name == aspectProperties[index[r]].name
           present == IF name \in weightedPropertyNames
                      THEN "weighted" ELSE "plain"
       IN  \E kind \in {present, "noValue"} :
            propertyMap' = [propertyMap EXCEPT ![r] = Put(@, name, kind)]
    /\ index' = [index EXCEPT ![r] = @ + 1]
    /\ UNCHANGED <<withRequestEngine, buildVars, pc, pipeline, aspectData>>

\* A getter throws: the value is not of the property's type.
ReadMalformed(r) ==
    /\ pc[r] = "iterate"
    /\ index[r] <= Len(aspectProperties)
    /\ Fail(r)
    /\ UNCHANGED <<withRequestEngine, buildVars, pipeline, index, propertyMap,
                   aspectData>>

\* The reasons of properties that are not in the list are added, and the data
\* gets everything at once.
Populate(r) ==
    /\ pc[r] = "iterate"
    /\ index[r] > Len(aspectProperties)
    /\ \E reasons \in SUBSET (Properties \ DOMAIN propertyMap[r]) :
        LET map == [p \in DOMAIN propertyMap[r] \cup reasons |->
                        IF p \in reasons THEN "noValue" ELSE propertyMap[r][p]]
        IN  /\ propertyMap' = [propertyMap EXCEPT ![r] = map]
            /\ aspectData' = [aspectData EXCEPT ![r] = map]
    /\ pc' = [pc EXCEPT ![r] = "answered"]
    /\ UNCHANGED <<withRequestEngine, buildVars, pipeline, index>>

-----------------------------------------------------------------------------

Next ==
    \/ \E p \in Pipelines : AddPipeline(p)
    \/ LoadThrows \/ LoadNothing \/ LoadAspectProperties
    \/ LoadProperty \/ LoadUnknownType \/ Loaded
    \/ \E r \in Requests :
        \/ \E p \in Pipelines : Process(r, p)
        \/ RefuseWithoutEngine(r)
        \/ ResponseUnusable(r)
        \/ ReadResponse(r)
        \/ ReadProperty(r)
        \/ ReadMalformed(r)
        \/ Populate(r)

Spec == Init /\ [][Next]_vars

-----------------------------------------------------------------------------

\* Every variable has its type, and items are only left to be read, into a list,
\* while a pipeline is being built.
TypeOK ==
    /\ withRequestEngine \subseteq Pipelines
    /\ pipelines \in [Pipelines -> {"new", "built", "failed"}]
    /\ builder \in Pipelines \cup {NoPipeline}
    /\ phase \in {"idle", "load", "items"}
    /\ pending \in Seq(Items)
    /\ pending # <<>> => phase = "items"
    /\ phase = "idle" <=> builder = NoPipeline
    /\ offered \in Seq(Items)
    /\ cloudRequestEngine \in Pipelines \cup {NoPipeline}
    /\ aspectProperties \in Seq(Items) \cup {NoList}
    /\ phase = "items" => aspectProperties # NoList
    /\ weightedPropertyNames \subseteq Properties
    /\ logged \in BOOLEAN
    /\ pc \in [Requests -> {"idle", "check", "iterate", "answered", "failed"}]
    /\ \A r \in Requests : pc[r] = "iterate" => aspectProperties # NoList
    /\ pipeline \in [Requests -> Pipelines \cup {NoPipeline}]
    /\ index \in [Requests -> Nat \ {0}]
    /\ propertyMap \in [Requests -> Maps]
    /\ aspectData \in [Requests -> Maps]

\* Requests walk through the list without a lock, while the engine may be added
\* to further pipelines: the list they are in does not change under them.
\* (addPipeline, loadAspectProperties, processEngine)
ListIsStillWhileRead ==
    [][\A r \in Requests : pc[r] = "iterate" =>
            aspectProperties' = aspectProperties]_vars

\* The engine is stuck for good with a list that is missing or shorter than what
\* the service offered, and serves requests of later pipelines with it.  That
\* never goes unnoticed: either a pipeline could not be built, or the failure
\* was logged.  (addPipeline, loadAspectProperties, resolvePropertyType)
IncompleteListWasReported ==
    /\ phase = "idle"
    /\ cloudRequestEngine # NoPipeline
    /\ aspectProperties # offered
    => logged \/ \E p \in Pipelines : pipelines[p] = "failed"

\* A request stores all properties of the list or none, also when a getter
\* throws half way; and each is a weighted list exactly if the service said so
\* when the list was loaded.  (processEngine)
AnswersAreWhole ==
    \A r \in Requests :
        IF pc[r] = "answered"
        THEN \A i \in DOMAIN aspectProperties :
                LET item == aspectProperties[i]
                IN  /\ item.name \in DOMAIN aspectData[r]
                    /\ aspectData[r][item.name] # "noValue" =>
                        (aspectData[r][item.name] = "weighted"
                            <=> item.type = "Weighted")
        ELSE DOMAIN aspectData[r] = {}
=============================================================================
