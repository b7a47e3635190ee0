------------------------ MODULE OnPremiseEngineProofs ------------------------
(***************************************************************************)
(* What holds of the engine for any number of threads, any length of the   *)
(* property collection, any retry limit and any number of data sets.       *)
(***************************************************************************)
EXTENDS OnPremiseEngine, TLAPS

\* The field is null exactly until the first data set is loaded, and until the
\* engine is handed out nothing but the creating thread has run.
EngineInv ==
    /\ engine = "null" <=> dataset = 0
    /\ evidenceKeys <= dataset
    /\ dataFileMetaData <= dataset
    /\ pc[Updater] \in {"create", "load"} => engine = "null"
    /\ pc[Updater] \in {"refresh", "keys", "invalidate", "dates"} => engine # "null"
    /\ pc[Closer] # "idle" => engine # "null"
    /\ metaDataThrew # "no" => engine # "null"
    /\ pc[Updater] \in {"keys", "invalidate", "dates"} => metaDataThrew = "no"

\* Step correctness of the type invariant.
LEMMA TypeStep ==
    ASSUME TypeOK, EngineInv, [Next]_vars
    PROVE  TypeOK' /\ EngineInv'
<1> USE ThreadAssumption, CountAssumption
        DEF TypeOK, EngineInv, Labels, Threads, Goes, Built, Iterating,
            engineVars, listVars, history
<1>a. <<>> \in Seq(0 .. MaxDataset) /\ Iterating \in SUBSET Readers
    OBVIOUS
<1>1. ASSUME NEW r \in Readers, FastPath(r) PROVE TypeOK' /\ EngineInv'
    BY <1>1 DEF FastPath, ReturnList
<1>2. ASSUME NEW r \in Readers, SlowPath(r) PROVE TypeOK' /\ EngineInv'
    BY <1>2 DEF SlowPath
<1>3. ASSUME NEW r \in Readers, EnterMonitor(r) PROVE TypeOK' /\ EngineInv'
    BY <1>3 DEF EnterMonitor
<1>4. ASSUME NEW r \in Readers, FoundPopulated(r) PROVE TypeOK' /\ EngineInv'
    BY <1>4 DEF FoundPopulated, ReturnList
<1>5. ASSUME NEW r \in Readers, StartFill(r) PROVE TypeOK' /\ EngineInv'
    BY <1>5, <1>a DEF StartFill
<1>6. ASSUME NEW r \in Readers, OpenCollection(r) PROVE TypeOK' /\ EngineInv'
    BY <1>6 DEF OpenCollection
<1>7. ASSUME NEW r \in Readers, AddProperty(r) PROVE TypeOK' /\ EngineInv'
    BY <1>7 DEF AddProperty
<1>8. ASSUME NEW r \in Readers, EndFill(r) PROVE TypeOK' /\ EngineInv'
    BY <1>8 DEF EndFill
<1>9. ASSUME NEW r \in Readers, FillThrows(r) PROVE TypeOK' /\ EngineInv'
    BY <1>9 DEF FillThrows
<1>10. ASSUME NEW r \in Readers, PublishProperties(r) PROVE TypeOK' /\ EngineInv'
    BY <1>10 DEF PublishProperties, ReturnList
<1>11. ASSUME NEW r \in Readers, EndIteration(r) PROVE TypeOK' /\ EngineInv'
    BY <1>11 DEF EndIteration
<1>12. ASSUME NEW w \in Workers, ReadEvidenceKeys(w) PROVE TypeOK' /\ EngineInv'
    BY <1>12 DEF ReadEvidenceKeys
<1>13. ASSUME NEW w \in Workers, NativeProcess(w) PROVE TypeOK' /\ EngineInv'
    BY <1>13 DEF NativeProcess
<1>14. CASE CallRefresh \/ CallRefreshFromMemory
    BY <1>14 DEF CallRefresh, CallRefreshFromMemory
<1>15. CASE CreateEngine
    BY <1>15 DEF CreateEngine
<1>16. CASE CreateThrows \/ GiveUp \/ LoadThrows
    BY <1>16 DEF CreateThrows, GiveUp, LoadThrows
<1>17. CASE NativeRefresh
    BY <1>17 DEF NativeRefresh
<1>18. CASE NativeRefreshThrows \/ SetEvidenceKeys \/ SetMetaDataThrows
    BY <1>18 DEF NativeRefreshThrows, SetEvidenceKeys, SetMetaDataThrows
<1>19. CASE InvalidateProperties
    BY <1>19 DEF InvalidateProperties
<1>20. CASE SetDataFileMetaData
    BY <1>20 DEF SetDataFileMetaData
<1>21. CASE CallClose \/ CloseChecks
    BY <1>21 DEF CallClose, CloseChecks
<1>22. CASE CloseEnters \/ CloseClears
    <2>1. CASE CloseEnters
        BY <2>1 DEF CloseEnters
    <2>2. CASE CloseClears
        BY <2>2, <1>a DEF CloseClears
    <2>. QED
        BY <1>22, <2>1, <2>2
<1>23. CASE DeleteNative
    BY <1>23 DEF DeleteNative
<1>24. CASE UNCHANGED vars
    BY <1>24 DEF vars
<1>. QED
    BY <1>1, <1>2, <1>3, <1>4, <1>5, <1>6, <1>7, <1>8, <1>9, <1>10, <1>11,
       <1>12, <1>13, <1>14, <1>15, <1>16, <1>17, <1>18, <1>19, <1>20, <1>21,
       <1>22, <1>23, <1>24
    DEF Next, Reader, ReaderStep, Worker, RefreshStep, CloseStep

LEMMA InitType == Init => TypeOK /\ EngineInv
<1> SUFFICES ASSUME Init PROVE TypeOK /\ EngineInv
    OBVIOUS
<1> USE CountAssumption DEF Init
<1>1. properties \in Seq(0 .. MaxDataset)
    <2>1. <<>> \in Seq(0 .. MaxDataset)
        OBVIOUS
    <2>. QED
        BY <2>1
<1>2. pc \in [Threads -> Labels]
    BY DEF Labels
<1>3. snapshot \in [Readers \cup Workers -> 0 .. MaxDataset]
    OBVIOUS
<1>4. outdated \in SUBSET Readers /\ disturbed \in SUBSET Readers
    OBVIOUS
<1>5. /\ propertiesPopulated \in BOOLEAN
      /\ fillFailed \in BOOLEAN
      /\ overtaken \in BOOLEAN
      /\ metaDataThrew \in {"no", "keys", "dates"}
    OBVIOUS
<1>6. /\ monitor \in Threads \cup {NoThread}
      /\ dataset \in 0 .. MaxDataset
      /\ tries \in 0 .. MaxTries
    OBVIOUS
<1>7. TypeOK
    BY <1>1, <1>2, <1>3, <1>4, <1>5, <1>6 DEF TypeOK
<1>8. EngineInv
    BY DEF EngineInv, Threads
<1>. QED
    BY <1>7, <1>8

\* Every variable keeps its type: the retry counter its limit, the list its
\* kind of entry, a thread one of its places in the code.
THEOREM TypeInvariant == Spec => []TypeOK
<1>1. Init => TypeOK /\ EngineInv
    BY InitType
<1>2. TypeOK /\ EngineInv /\ [Next]_vars => TypeOK' /\ EngineInv'
    BY TypeStep
<1>. QED
    BY <1>1, <1>2, PTL DEF Spec

-----------------------------------------------------------------------------
(* The monitor of the list                                                 *)

LEMMA MonitorStep ==
    ASSUME TypeOK, MonitorExclusion, [Next]_vars
    PROVE  MonitorExclusion'
<1> USE ThreadAssumption
    DEF TypeOK, MonitorExclusion, InMonitor, Threads, Goes, listVars
<1>1. ASSUME NEW r \in Readers, FastPath(r) \/ SlowPath(r)
      PROVE  MonitorExclusion'
    BY <1>1 DEF FastPath, SlowPath, ReturnList
<1>2. ASSUME NEW r \in Readers, EnterMonitor(r) PROVE MonitorExclusion'
    BY <1>2 DEF EnterMonitor
<1>3. ASSUME NEW r \in Readers, FoundPopulated(r) PROVE MonitorExclusion'
    BY <1>3 DEF FoundPopulated, ReturnList
<1>4. ASSUME NEW r \in Readers, StartFill(r) PROVE MonitorExclusion'
    BY <1>4 DEF StartFill
<1>5. ASSUME NEW r \in Readers, OpenCollection(r) PROVE MonitorExclusion'
    BY <1>5 DEF OpenCollection
<1>6. ASSUME NEW r \in Readers, AddProperty(r) PROVE MonitorExclusion'
    BY <1>6 DEF AddProperty
<1>7. ASSUME NEW r \in Readers, EndFill(r) \/ FillThrows(r)
      PROVE  MonitorExclusion'
    BY <1>7 DEF EndFill, FillThrows
<1>8. ASSUME NEW r \in Readers, PublishProperties(r) PROVE MonitorExclusion'
    BY <1>8 DEF PublishProperties, ReturnList
<1>9. ASSUME NEW r \in Readers, EndIteration(r) PROVE MonitorExclusion'
    BY <1>9 DEF EndIteration
<1>10. ASSUME NEW w \in Workers, Worker(w) PROVE MonitorExclusion'
    BY <1>10 DEF Worker, ReadEvidenceKeys, NativeProcess
<1>11. CASE CallRefresh \/ CallRefreshFromMemory
    BY <1>11 DEF CallRefresh, CallRefreshFromMemory
<1>12. CASE CreateEngine \/ CreateThrows \/ GiveUp \/ LoadThrows
    BY <1>12 DEF CreateEngine, CreateThrows, GiveUp, LoadThrows
<1>13. CASE NativeRefresh \/ NativeRefreshThrows \/ SetEvidenceKeys
    BY <1>13 DEF NativeRefresh, NativeRefreshThrows, SetEvidenceKeys
<1>14. CASE InvalidateProperties \/ SetDataFileMetaData \/ SetMetaDataThrows
    BY <1>14 DEF InvalidateProperties, SetDataFileMetaData, SetMetaDataThrows
<1>15. CASE CallClose \/ CloseChecks \/ DeleteNative
    BY <1>15 DEF CallClose, CloseChecks, DeleteNative
<1>16. CASE CloseEnters \/ CloseClears
    BY <1>16 DEF CloseEnters, CloseClears
<1>17. CASE UNCHANGED vars
    BY <1>17 DEF vars
<1>. QED
    BY <1>1, <1>2, <1>3, <1>4, <1>5, <1>6, <1>7, <1>8, <1>9, <1>10, <1>11,
       <1>12, <1>13, <1>14, <1>15, <1>16, <1>17
    DEF Next, Reader, ReaderStep, RefreshStep, CloseStep

\* The synchronized blocks of getProperties and of the cleanup exclude each
\* other, and a thread has the monitor exactly while it is in one of them.
THEOREM MonitorTheorem == Spec => []MonitorExclusion
<1>1. Init => MonitorExclusion
    BY ThreadAssumption DEF Init, MonitorExclusion, InMonitor
<1>2. TypeOK /\ MonitorExclusion /\ [Next]_vars => MonitorExclusion'
    BY MonitorStep
<1>. QED
    BY <1>1, <1>2, TypeInvariant, PTL DEF Spec

-----------------------------------------------------------------------------
(* The list of properties                                                  *)

\* Every entry of the list is of data set d.
AllOf(d) == \A i \in 1 .. Len(properties) : properties[i] = d

Closing == pc[Closer] \in {"delete", "closed"}

\* What makes the properties of the list inductive: under a population the flag
\* is down, and while the flag is down every iteration is an outdated one.
ListInv ==
    /\ ~propertiesPopulated => Iterating \subseteq outdated
    /\ \A r \in Readers : Filling(r) => ~propertiesPopulated
    /\ \A r \in Readers : pc[r] = "open" => properties = <<>>
    /\ \A r \in Readers : pc[r] \in {"fill", "publish"} => AllOf(snapshot[r])
    /\ \A r \in Readers : pc[r] = "publish" =>
          Len(properties) = PropertyCount \/ fillFailed
    /\ propertiesPopulated =>
          Len(properties) = PropertyCount \/ fillFailed \/ Closing
    /\ OneDatasetList
    /\ UndisturbedIteration

\* A refresh has got as far as its invalidation.
Invalidated == pc[Updater] \notin {"keys", "invalidate"} /\ metaDataThrew # "keys"

\* A population that a refresh has not overtaken is of the data set in use, once
\* the refresh has invalidated the list; keys and dates follow the data set in
\* the order in which setEngineMetaData sets them.
FreshInv ==
    /\ \A t \in Readers \cup Workers : snapshot[t] <= dataset
    /\ dataFileMetaData <= evidenceKeys
    /\ Invalidated /\ engine # "deleted" /\ ~overtaken =>
          /\ propertiesPopulated => AllOf(dataset)
          /\ \A r \in Readers : pc[r] = "fill" => snapshot[r] = dataset
          /\ \A r \in Readers : pc[r] = "publish" => AllOf(dataset)
    /\ pc[Updater] \in {"invalidate", "dates"} /\ engine = "live" =>
          evidenceKeys = dataset
    /\ pc[Updater] \in {"idle", "refresh"} /\ engine = "live" =>
          /\ metaDataThrew # "keys" => evidenceKeys = dataset
          /\ metaDataThrew = "no" => dataFileMetaData = dataset

LEMMA ListStep ==
    ASSUME TypeOK, MonitorExclusion, ListInv, [Next]_vars
    PROVE  ListInv'
<1> USE ThreadAssumption
    DEF TypeOK, MonitorExclusion, InMonitor, Threads, Goes, ListInv, Filling,
        Iterating, Closing, AllOf, OneDatasetList, UndisturbedIteration,
        listVars, history
<1>1. ASSUME NEW r \in Readers, FastPath(r) PROVE ListInv'
    BY <1>1 DEF FastPath, ReturnList
<1>2. ASSUME NEW r \in Readers, SlowPath(r) PROVE ListInv'
    BY <1>2 DEF SlowPath
<1>3. ASSUME NEW r \in Readers, EnterMonitor(r) PROVE ListInv'
    BY <1>3 DEF EnterMonitor
<1>4. ASSUME NEW r \in Readers, FoundPopulated(r) PROVE ListInv'
    BY <1>4 DEF FoundPopulated, ReturnList
<1>5. ASSUME NEW r \in Readers, StartFill(r) PROVE ListInv'
    BY <1>5 DEF StartFill
<1>6. ASSUME NEW r \in Readers, OpenCollection(r) PROVE ListInv'
    BY <1>6 DEF OpenCollection
<1>7. ASSUME NEW r \in Readers, AddProperty(r) PROVE ListInv'
    BY <1>7 DEF AddProperty
<1>8. ASSUME NEW r \in Readers, EndFill(r) PROVE ListInv'
    BY <1>8 DEF EndFill
<1>9. ASSUME NEW r \in Readers, FillThrows(r) PROVE ListInv'
    BY <1>9 DEF FillThrows
<1>10. ASSUME NEW r \in Readers, PublishProperties(r) PROVE ListInv'
    BY <1>10 DEF PublishProperties, ReturnList
<1>11. ASSUME NEW r \in Readers, EndIteration(r) PROVE ListInv'
    BY <1>11 DEF EndIteration
<1>12. ASSUME NEW w \in Workers, Worker(w) PROVE ListInv'
    <2>1. CASE ReadEvidenceKeys(w)
        BY <2>1 DEF ReadEvidenceKeys
    <2>2. CASE NativeProcess(w)
        BY <2>2 DEF NativeProcess
    <2>. QED
        BY <1>12, <2>1, <2>2 DEF Worker
<1>13. CASE CallRefresh \/ CallRefreshFromMemory
    BY <1>13 DEF CallRefresh, CallRefreshFromMemory
<1>14. CASE CreateEngine \/ CreateThrows \/ GiveUp \/ LoadThrows
    BY <1>14 DEF CreateEngine, CreateThrows, GiveUp, LoadThrows
<1>15. CASE NativeRefresh \/ NativeRefreshThrows \/ SetEvidenceKeys
    BY <1>15 DEF NativeRefresh, NativeRefreshThrows, SetEvidenceKeys
<1>16. CASE InvalidateProperties
    BY <1>16 DEF InvalidateProperties
<1>17. CASE SetDataFileMetaData \/ SetMetaDataThrows
    BY <1>17 DEF SetDataFileMetaData, SetMetaDataThrows
<1>18. CASE CallClose \/ CloseChecks \/ CloseEnters
    BY <1>18 DEF CallClose, CloseChecks, CloseEnters
<1>19. CASE CloseClears
    BY <1>19 DEF CloseClears
<1>20. CASE DeleteNative
    BY <1>20 DEF DeleteNative
<1>21. CASE UNCHANGED vars
    BY <1>21 DEF vars
<1>. QED
    BY <1>1, <1>2, <1>3, <1>4, <1>5, <1>6, <1>7, <1>8, <1>9, <1>10, <1>11,
       <1>12, <1>13, <1>14, <1>15, <1>16, <1>17, <1>18, <1>19, <1>20, <1>21
    DEF Next, Reader, ReaderStep, RefreshStep, CloseStep

LEMMA FreshStep ==
    ASSUME TypeOK, EngineInv, MonitorExclusion, ListInv, FreshInv, [Next]_vars
    PROVE  FreshInv'
<1> USE ThreadAssumption
    DEF TypeOK, EngineInv, MonitorExclusion, InMonitor, Threads, Goes, FreshInv,
        AllOf, Invalidated, engineVars, listVars, history
<1>1. ASSUME NEW r \in Readers, FastPath(r) PROVE FreshInv'
    BY <1>1 DEF FastPath, ReturnList
<1>2. ASSUME NEW r \in Readers, SlowPath(r) \/ EnterMonitor(r) PROVE FreshInv'
    BY <1>2 DEF SlowPath, EnterMonitor
<1>4. ASSUME NEW r \in Readers, FoundPopulated(r) PROVE FreshInv'
    BY <1>4 DEF FoundPopulated, ReturnList
<1>5. ASSUME NEW r \in Readers, StartFill(r) PROVE FreshInv'
    BY <1>5 DEF StartFill
<1>6. ASSUME NEW r \in Readers, OpenCollection(r) PROVE FreshInv'
    BY <1>6 DEF OpenCollection
<1>7. ASSUME NEW r \in Readers, AddProperty(r) PROVE FreshInv'
    BY <1>7 DEF AddProperty, ListInv, Filling
<1>8. ASSUME NEW r \in Readers, EndFill(r) PROVE FreshInv'
    BY <1>8 DEF EndFill, ListInv
<1>9. ASSUME NEW r \in Readers, FillThrows(r) PROVE FreshInv'
    BY <1>9 DEF FillThrows, ListInv
<1>10. ASSUME NEW r \in Readers, PublishProperties(r) PROVE FreshInv'
    <2>1. /\ pc' = [pc EXCEPT ![r] = "iterate"] /\ pc[r] = "publish"
          /\ snapshot' = [snapshot EXCEPT ![r] = 0]
          /\ UNCHANGED <<engineVars, properties, overtaken, metaDataThrew>>
        BY <1>10 DEF PublishProperties, ReturnList
    <2>2. /\ pc'[Updater] = pc[Updater]
          /\ \A q \in Readers : pc'[q] \in {"fill", "publish"} =>
                pc'[q] = pc[q] /\ snapshot'[q] = snapshot[q]
        BY <2>1
    <2>3. \A t \in Readers \cup Workers : snapshot'[t] <= dataset'
        BY <2>1
    <2>4. Invalidated /\ engine # "deleted" /\ ~overtaken => AllOf(dataset)
        BY <2>1
    <2>. QED
        BY <2>1, <2>2, <2>3, <2>4
<1>11. ASSUME NEW r \in Readers, EndIteration(r) PROVE FreshInv'
    BY <1>11 DEF EndIteration
<1>12. ASSUME NEW w \in Workers, Worker(w) PROVE FreshInv'
    <2>1. CASE ReadEvidenceKeys(w)
        BY <2>1 DEF ReadEvidenceKeys
    <2>2. CASE NativeProcess(w)
        BY <2>2 DEF NativeProcess
    <2>. QED
        BY <1>12, <2>1, <2>2 DEF Worker
<1>13. CASE CallRefresh \/ CallRefreshFromMemory
    BY <1>13 DEF CallRefresh, CallRefreshFromMemory
<1>14. CASE CreateEngine \/ CreateThrows \/ GiveUp \/ LoadThrows
    BY <1>14 DEF CreateEngine, CreateThrows, GiveUp, LoadThrows
<1>15. CASE NativeRefresh \/ NativeRefreshThrows \/ SetEvidenceKeys
    BY <1>15 DEF NativeRefresh, NativeRefreshThrows, SetEvidenceKeys
<1>16. CASE InvalidateProperties
    <2>1. ASSUME NEW r \in Readers, pc[r] \in {"fill", "publish"}, ~overtaken'
          PROVE  snapshot[r] = dataset /\ AllOf(dataset)
        <3>1. ~(snapshot[r] < dataset)
            BY <1>16, <2>1 DEF InvalidateProperties
        <3>2. snapshot[r] \in Nat /\ dataset \in Nat /\ snapshot[r] <= dataset
            OBVIOUS
        <3>3. AllOf(snapshot[r])
            BY <2>1 DEF ListInv
        <3>. QED
            BY <3>1, <3>2, <3>3
    <2>2. /\ pc' = [pc EXCEPT ![Updater] = "dates"]
          /\ ~propertiesPopulated'
          /\ UNCHANGED <<engine, dataset, evidenceKeys, dataFileMetaData,
                         properties, snapshot>>
        BY <1>16 DEF InvalidateProperties
    <2>3. \A r \in Readers : pc'[r] = pc[r]
        BY <2>2
    <2>4. ~overtaken' => \A r \in Readers :
             pc'[r] \in {"fill", "publish"} => snapshot'[r] = dataset' /\ AllOf(dataset)'
        BY <2>1, <2>2, <2>3
    <2>5. pc'[Updater] = "dates" /\ (engine = "live" => evidenceKeys = dataset)
        BY <1>16 DEF InvalidateProperties
    <2>. QED
        BY <2>2, <2>3, <2>4, <2>5
<1>17. CASE SetDataFileMetaData
    BY <1>17 DEF SetDataFileMetaData
<1>22. CASE SetMetaDataThrows
    <2>1. PICK getter \in {"keys", "dates"} :
              Goes(Updater, getter, "idle") /\ metaDataThrew' = getter
        BY <1>22 DEF SetMetaDataThrows
    <2>2. /\ pc[Updater] = getter
          /\ pc'[Updater] = "idle"
          /\ \A r \in Readers : pc'[r] = pc[r]
          /\ UNCHANGED <<engine, dataset, evidenceKeys, dataFileMetaData,
                         properties, propertiesPopulated, snapshot, overtaken>>
        BY <2>1, <1>22 DEF SetMetaDataThrows
    <2>3. CASE getter = "keys"
        BY <2>1, <2>2, <2>3
    <2>4. CASE getter = "dates"
        BY <2>1, <2>2, <2>4
    <2>. QED
        BY <2>3, <2>4
<1>18. CASE CallClose \/ CloseChecks \/ CloseEnters
    BY <1>18 DEF CallClose, CloseChecks, CloseEnters
<1>19. CASE CloseClears
    BY <1>19 DEF CloseClears
<1>20. CASE DeleteNative
    BY <1>20 DEF DeleteNative
<1>21. CASE UNCHANGED vars
    BY <1>21 DEF vars
<1>. QED
    BY <1>1, <1>2, <1>4, <1>5, <1>6, <1>7, <1>8, <1>9, <1>10, <1>11,
       <1>12, <1>13, <1>14, <1>15, <1>16, <1>17, <1>18, <1>19, <1>20, <1>21,
       <1>22
    DEF Next, Reader, ReaderStep, RefreshStep, CloseStep

-----------------------------------------------------------------------------
(* What the callers of getProperties rely on                               *)

IInv == TypeOK /\ EngineInv /\ MonitorExclusion /\ ListInv /\ FreshInv

LEMMA InductiveInvariant == Spec => []IInv
<1>1. Init => IInv
    <2> SUFFICES ASSUME Init PROVE IInv
        OBVIOUS
    <2>1. TypeOK /\ EngineInv
        BY InitType
    <2>2. MonitorExclusion
        BY ThreadAssumption DEF Init, MonitorExclusion, InMonitor
    <2>3. Closer \in Threads /\ Updater \in Threads /\ Readers \subseteq Threads
        BY DEF Threads
    <2>4. ListInv
        BY <2>3 DEF Init, ListInv, Iterating, Filling, AllOf, OneDatasetList,
            UndisturbedIteration
    <2>5. FreshInv
        BY <2>3 DEF Init, FreshInv, Invalidated
    <2>. QED
        BY <2>1, <2>2, <2>4, <2>5 DEF IInv
<1>2. IInv /\ [Next]_vars => IInv'
    BY TypeStep, MonitorStep, ListStep, FreshStep DEF IInv
<1>. QED
    BY <1>1, <1>2, PTL DEF Spec

\* No list mixes the meta data of two data sets, whichever populations,
\* failures and refreshes it has been through.
THEOREM OneDatasetTheorem == Spec => []OneDatasetList
<1>1. IInv => OneDatasetList
    BY DEF IInv, ListInv
<1>. QED
    BY <1>1, InductiveInvariant, PTL

\* What getProperties hands out without the monitor is a whole list that nobody
\* is filling, unless the population threw or the engine is being closed.
THEOREM WholeListTheorem == Spec => []PopulatedListIsWhole
<1>1. IInv => PopulatedListIsWhole
    BY DEF IInv, ListInv, PopulatedListIsWhole, Closing
<1>. QED
    BY <1>1, InductiveInvariant, PTL

\* A list that is being iterated is cleared or refilled in place only after a
\* refresh has invalidated it, or by a close.
THEOREM UndisturbedTheorem == Spec => []UndisturbedIteration
<1>1. IInv => UndisturbedIteration
    BY DEF IInv, ListInv
<1>. QED
    BY <1>1, InductiveInvariant, PTL

\* The list served after a refresh is of the refreshed data unless a population
\* was under way when the refresh cleared the flag, or the refresh threw over
\* the evidence keys and has not cleared it.
THEOREM StaleTheorem == Spec => []StaleListExplained
<1>1. IInv => StaleListExplained
    BY DEF IInv, FreshInv, AllOf, Invalidated, StaleListExplained
<1>. QED
    BY <1>1, InductiveInvariant, PTL

\* The evidence keys and the dates of the data file follow the data set, unless
\* the last refresh threw before it had set them; whichever getter throws, on
\* whichever refresh, dates never run ahead of keys, and neither keys nor
\* requests ahead of the data set.
THEOREM MetaDataTheorem == Spec => []MetaDataFollowsDataset
<1>1. IInv => MetaDataFollowsDataset
    BY DEF IInv, EngineInv, FreshInv, MetaDataFollowsDataset
<1>. QED
    BY <1>1, InductiveInvariant, PTL

\* Only the thread that holds the monitor changes the list, and nobody else is
\* in the middle of a population then.
THEOREM ListChangeTheorem == Spec => ListChangesUnderMonitor
<1> DEFINE Held == /\ monitor # NoThread
                   /\ pc[monitor] \in {"recheck", "fill", "clear"}
                   /\ \A r \in Readers \ {monitor} : ~Filling(r)
<1>1. ASSUME IInv, [Next]_vars, properties' # properties
      PROVE  Held
    <2> USE ThreadAssumption, <1>1
        DEF IInv, TypeOK, MonitorExclusion, InMonitor, Filling, Threads, Goes,
            listVars
    <2>1. ASSUME NEW r \in Readers, Reader(r) PROVE Held
        <3>1. CASE StartFill(r)
            BY <3>1 DEF StartFill
        <3>2. CASE AddProperty(r)
            BY <3>2 DEF AddProperty
        <3>. QED
            BY <2>1, <3>1, <3>2
            DEF Reader, ReaderStep, FastPath, SlowPath, ReturnList, EnterMonitor,
                FoundPopulated, OpenCollection, EndFill, FillThrows,
                PublishProperties, EndIteration
    <2>2. ASSUME NEW w \in Workers, Worker(w) PROVE FALSE
        BY <2>2 DEF Worker, ReadEvidenceKeys, NativeProcess
    <2>3. ~CallRefresh /\ ~CallRefreshFromMemory /\ ~CallClose
        BY DEF CallRefresh, CallRefreshFromMemory, CallClose
    <2>4. ~RefreshStep
        BY DEF RefreshStep, CreateEngine, CreateThrows, GiveUp, LoadThrows,
            NativeRefresh, NativeRefreshThrows, SetEvidenceKeys,
            InvalidateProperties, SetDataFileMetaData, SetMetaDataThrows
    <2>5. CASE CloseStep
        BY <2>5 DEF CloseStep, CloseChecks, CloseEnters, CloseClears, DeleteNative
    <2>6. ~UNCHANGED vars
        BY DEF vars
    <2>. QED
        BY <2>1, <2>2, <2>3, <2>4, <2>5, <2>6 DEF Next
<1>2. IInv /\ [Next]_vars => [properties' # properties => Held]_vars
    BY <1>1
<1>. QED
    BY <1>2, InductiveInvariant, PTL DEF Spec, ListChangesUnderMonitor
=============================================================================
