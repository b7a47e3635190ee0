------------------------- MODULE EngineCacheProofs -------------------------
(***************************************************************************)
(* The engine implements VersionedCache, for any number of threads, any    *)
(* length of the collection and any number of data sets.                   *)
(***************************************************************************)
EXTENDS EngineCache, OnPremiseEngineProofs

\* A reader has the version of a collection only while it reads from it.
SnapshotInv ==
    \A r \in Readers : pc[r] \notin {"fill", "publish"} => snapshot[r] = 0

LEMMA SnapshotStep ==
    ASSUME TypeOK, SnapshotInv, [Next]_vars
    PROVE  SnapshotInv'
<1> USE ThreadAssumption DEF TypeOK, SnapshotInv, Threads, Goes
<1>1. ASSUME NEW r \in Readers, FastPath(r) \/ SlowPath(r) PROVE SnapshotInv'
    BY <1>1 DEF FastPath, SlowPath, ReturnList
<1>2. ASSUME NEW r \in Readers, EnterMonitor(r) \/ FoundPopulated(r)
      PROVE  SnapshotInv'
    BY <1>2 DEF EnterMonitor, FoundPopulated, ReturnList
<1>3. ASSUME NEW r \in Readers, StartFill(r) \/ OpenCollection(r)
      PROVE  SnapshotInv'
    BY <1>3 DEF StartFill, OpenCollection
<1>4. ASSUME NEW r \in Readers, AddProperty(r) \/ EndFill(r) \/ FillThrows(r)
      PROVE  SnapshotInv'
    BY <1>4 DEF AddProperty, EndFill, FillThrows
<1>5. ASSUME NEW r \in Readers, PublishProperties(r) \/ EndIteration(r)
      PROVE  SnapshotInv'
    BY <1>5 DEF PublishProperties, EndIteration, ReturnList
<1>6. ASSUME NEW w \in Workers, Worker(w) PROVE SnapshotInv'
    BY <1>6 DEF Worker, ReadEvidenceKeys, NativeProcess
<1>7. CASE CallRefresh \/ CallRefreshFromMemory
    BY <1>7 DEF CallRefresh, CallRefreshFromMemory
<1>8. CASE CreateEngine \/ CreateThrows \/ GiveUp \/ LoadThrows
    BY <1>8 DEF CreateEngine, CreateThrows, GiveUp, LoadThrows
<1>9. CASE NativeRefresh \/ NativeRefreshThrows \/ SetEvidenceKeys
    BY <1>9 DEF NativeRefresh, NativeRefreshThrows, SetEvidenceKeys
<1>10. CASE InvalidateProperties \/ SetDataFileMetaData \/ SetMetaDataThrows
    BY <1>10 DEF InvalidateProperties, SetDataFileMetaData, SetMetaDataThrows
<1>11. CASE CallClose \/ CloseStep
    BY <1>11 DEF CallClose, CloseStep, CloseChecks, CloseEnters, CloseClears,
       DeleteNative
<1>12. CASE UNCHANGED vars
    BY <1>12 DEF vars
<1>. QED
    BY <1>1, <1>2, <1>3, <1>4, <1>5, <1>6, <1>7, <1>8, <1>9, <1>10, <1>11,
       <1>12
    DEF Next, Reader, ReaderStep, RefreshStep

Same == UNCHANGED <<dataset, CacheFilling, CacheServed>>

\* Every step of the engine is a step of the cache, or changes nothing of it.
LEMMA CacheStep ==
    ASSUME TypeOK, MonitorExclusion, ListInv, SnapshotInv, [Next]_vars
    PROVE  Cache!CacheNext \/ Same
<1> USE ThreadAssumption
    DEF TypeOK, MonitorExclusion, InMonitor, Threads, Goes, FillUnderWay,
        CacheFilling, CacheServed, Same, listVars, engineVars
<1>1. ASSUME NEW r \in Readers, FastPath(r) \/ SlowPath(r) PROVE Same
    BY <1>1 DEF FastPath, SlowPath, ReturnList
<1>2. ASSUME NEW r \in Readers, EnterMonitor(r) \/ FoundPopulated(r)
      PROVE  Same
    BY <1>2 DEF EnterMonitor, FoundPopulated, ReturnList
<1>3. ASSUME NEW r \in Readers, StartFill(r) PROVE Same
    BY <1>3 DEF StartFill
<1>4. ASSUME NEW r \in Readers, OpenCollection(r) PROVE Cache!Begin
    <2>1. ~propertiesPopulated /\ monitor = r
        BY <1>4 DEF OpenCollection, ListInv, Filling
    <2>. QED
        BY <1>4, <2>1 DEF OpenCollection, Cache!Begin, Cache!Fill, Cache!List,
           Cache!None
<1>5. ASSUME NEW r \in Readers, AddProperty(r) PROVE Same
    <2>1. ~propertiesPopulated
        BY <1>5 DEF AddProperty, ListInv, Filling
    <2>. QED
        BY <1>5, <2>1 DEF AddProperty
<1>6. ASSUME NEW r \in Readers, EndFill(r) PROVE Same
    BY <1>6 DEF EndFill
<1>7. ASSUME NEW r \in Readers, FillThrows(r) PROVE Cache!Begin \/ Same
    <2>1. ~propertiesPopulated /\ monitor = r
        BY <1>7 DEF FillThrows, ListInv, Filling
    <2>2. CASE pc[r] = "open"
        <3>1. snapshot[r] = 0
            BY <2>2 DEF SnapshotInv
        <3>. QED
            BY <1>7, <2>1, <2>2, <3>1 DEF FillThrows, Cache!Begin, Cache!Fill,
               Cache!List, Cache!None
    <2>3. CASE pc[r] = "fill"
        BY <1>7, <2>1, <2>3 DEF FillThrows
    <2>. QED
        BY <1>7, <2>2, <2>3 DEF FillThrows
<1>8. ASSUME NEW r \in Readers, PublishProperties(r) PROVE Cache!Finish
    <2>1. monitor = r /\ pc[r] = "publish"
        BY <1>8 DEF PublishProperties, ReturnList
    <2>2. VersionOf(properties) \in {snapshot[r], 0}
        BY <2>1 DEF VersionOf, ListInv, AllOf
    <2>3. /\ CacheFilling.version = snapshot[r]
          /\ CacheFilling.none = FALSE
        BY <2>1
    <2>4. CacheFilling' = Cache!None
        BY <1>8 DEF PublishProperties, ReturnList, Cache!None
    <2>5. CacheServed' = Cache!List(VersionOf(properties),
                                    Len(properties) = PropertyCount)
        BY <1>8 DEF PublishProperties, ReturnList, Cache!List, VersionOf
    <2>6. (Len(properties) = PropertyCount) \in BOOLEAN
        OBVIOUS
    <2>7. dataset' = dataset
        BY <1>8 DEF PublishProperties, ReturnList
    <2>8. CacheFilling # Cache!None
        BY <2>3 DEF Cache!None
    <2>. QED
        BY <2>2, <2>3, <2>4, <2>5, <2>6, <2>7, <2>8 DEF Cache!Finish
<1>9. ASSUME NEW r \in Readers, EndIteration(r) PROVE Same
    BY <1>9 DEF EndIteration
<1>10. ASSUME NEW w \in Workers, Worker(w) PROVE Same
    <2>1. CASE ReadEvidenceKeys(w)
        BY <2>1 DEF ReadEvidenceKeys
    <2>2. CASE NativeProcess(w)
        BY <2>2 DEF NativeProcess
    <2>. QED
        BY <1>10, <2>1, <2>2 DEF Worker
<1>11. CASE CallRefresh \/ CallRefreshFromMemory
    BY <1>11 DEF CallRefresh, CallRefreshFromMemory
<1>12. ASSUME CreateEngine \/ NativeRefresh PROVE Cache!Advance
    BY <1>12 DEF CreateEngine, NativeRefresh, Cache!Advance
<1>13. ASSUME CreateThrows \/ GiveUp \/ LoadThrows PROVE Same
    BY <1>13 DEF CreateThrows, GiveUp, LoadThrows
<1>14. ASSUME NativeRefreshThrows \/ SetEvidenceKeys PROVE Same
    BY <1>14 DEF NativeRefreshThrows, SetEvidenceKeys
<1>15. ASSUME InvalidateProperties PROVE Cache!Invalidate
    BY <1>15 DEF InvalidateProperties, Cache!Invalidate, Cache!None
<1>16. ASSUME SetDataFileMetaData \/ SetMetaDataThrows PROVE Same
    BY <1>16 DEF SetDataFileMetaData, SetMetaDataThrows
<1>17. ASSUME CallClose \/ CloseChecks \/ CloseEnters \/ DeleteNative
       PROVE  Same
    BY <1>17 DEF CallClose, CloseChecks, CloseEnters, DeleteNative
<1>18. ASSUME CloseClears PROVE Cache!Empty \/ Same
    <2>1. monitor = Closer
        BY <1>18 DEF CloseClears
    <2>2. CASE propertiesPopulated
        BY <1>18, <2>1, <2>2 DEF CloseClears, Cache!Empty, Cache!List,
           Cache!None, VersionOf
    <2>3. CASE ~propertiesPopulated
        BY <1>18, <2>1, <2>3 DEF CloseClears
    <2>. QED
        BY <2>2, <2>3
<1>19. CASE UNCHANGED vars
    BY <1>19 DEF vars
<1>. QED
    BY <1>1, <1>2, <1>3, <1>4, <1>5, <1>6, <1>7, <1>8, <1>9, <1>10, <1>11,
       <1>12, <1>13, <1>14, <1>15, <1>16, <1>17, <1>18, <1>19
    DEF Next, Reader, ReaderStep, RefreshStep, CloseStep, Cache!CacheNext

\* Whatever readers, refreshes, failures and a close do in whatever order, the
\* list of getProperties behaves like a cache that is filled by one thread at a
\* time, of one version, and only while nothing is served.
THEOREM RefinementTheorem == Spec => ServesVersionedCache
<1>1. Init => Cache!CacheInit
    BY ThreadAssumption
    DEF Init, Cache!CacheInit, Cache!None, CacheFilling, CacheServed,
        FillUnderWay, Threads
<1>2. Init => SnapshotInv
    BY DEF Init, SnapshotInv
<1>3. TypeOK /\ SnapshotInv /\ [Next]_vars => SnapshotInv'
    BY SnapshotStep
<1>4. TypeOK /\ MonitorExclusion /\ ListInv /\ SnapshotInv /\ [Next]_vars
        => [Cache!CacheNext]_<<dataset, CacheFilling, CacheServed>>
    BY CacheStep DEF Same
<1>5. IInv => TypeOK /\ MonitorExclusion /\ ListInv
    BY DEF IInv
<1>. QED
    BY <1>1, <1>2, <1>3, <1>4, <1>5, InductiveInvariant, PTL
    DEF Spec, ServesVersionedCache, Cache!CacheSpec
=============================================================================
