--------------------------- MODULE OnPremiseEngine ---------------------------
(***************************************************************************)
(* IPIntelligenceOnPremiseEngine: one Java engine in front of one native   *)
(* engine.  Request threads match evidence against the cached evidence     *)
(* keys, other threads ask for the lazily filled list of property meta     *)
(* data, the data update thread creates and then refreshes the native      *)
(* engine, and one thread closes it all.  The monitor of the list is the   *)
(* only synchronisation between them.                                      *)
(*                                                                         *)
(* The native library is external.  It is modelled by what the Java code   *)
(* relies on: it holds one data set at a time, replaces it atomically or   *)
(* leaves it alone and throws, and a native collection keeps the data set  *)
(* it was obtained from.  Data sets are numbered from 1 in the order they  *)
(* are loaded.  A call through a deleted handle dereferences null in C++:  *)
(* either the process ends there, or the call throws.                      *)
(***************************************************************************)
EXTENDS Naturals, Sequences

CONSTANTS
    Readers,         \* threads that call getProperties and iterate the result
    Workers,         \* threads that call processEngine
    Updater, Closer, \* the thread that refreshes, the thread that closes
    NoThread,        \* nobody: the monitor is free
    PropertyCount,   \* entries of a native property collection
    MaxTries,        \* attempts at creating the native engine (10 in the code)
    MaxDataset       \* bound: data sets the native engine loads

Threads == Readers \cup Workers \cup {Updater, Closer}

ASSUME ThreadAssumption ==
    /\ Readers \cap Workers = {}
    /\ {Updater, Closer} \cap (Readers \cup Workers) = {}
    /\ Updater # Closer
    /\ NoThread \notin Threads
ASSUME CountAssumption ==
    /\ PropertyCount \in Nat
    /\ MaxTries \in Nat \ {0}
    /\ MaxDataset \in Nat \ {0}

VARIABLES
    engine,              \* the field: "null", "live", or "deleted" (proxy freed)
    dataset,             \* data set the native engine holds, 0 for none
    evidenceKeys,        \* data set the evidence keys and their filter are of
    dataFileMetaData,    \* data set the dates and the path of the data file are
                         \* of: the last of the three, which are set in order
    propertiesPopulated, \* the volatile flag
    properties,          \* the shared list: the data set of each entry
    monitor,             \* who holds the monitor of the list
    pc,                  \* where each thread is
    snapshot,            \* local: the data set a reader's native collection is
                         \* of, or that the keys a worker has read are of
    tries                \* local: failed attempts of the creation loop

\* History variables, read by properties only.
VARIABLES
    outdated,            \* readers whose list a refresh has invalidated since
    disturbed,           \* readers whose list changed under their iteration
    fillFailed,          \* the last population ended in an exception
    overtaken,           \* a refresh cleared the flag under the last population
    metaDataThrew        \* where the last setEngineMetaData threw: getting the
                         \* "keys", getting the "dates", or "no"where

engineVars == <<engine, dataset, evidenceKeys, dataFileMetaData>>
listVars == <<propertiesPopulated, properties, monitor>>
history == <<outdated, disturbed, fillFailed, overtaken, metaDataThrew>>
vars == <<engineVars, listVars, pc, snapshot, tries, history>>

Labels == {"idle", "enter", "recheck", "open", "fill", "publish", "iterate",
           "matched", "create", "load", "refresh", "keys", "invalidate", "dates",
           "check", "clear", "delete", "closed"}

TypeOK ==
    /\ engine \in {"null", "live", "deleted"}
    /\ dataset \in 0 .. MaxDataset
    /\ evidenceKeys \in 0 .. MaxDataset
    /\ dataFileMetaData \in 0 .. MaxDataset
    /\ propertiesPopulated \in BOOLEAN
    /\ properties \in Seq(0 .. MaxDataset)
    /\ monitor \in Threads \cup {NoThread}
    /\ pc \in [Threads -> Labels]
    /\ snapshot \in [Readers \cup Workers -> 0 .. MaxDataset]
    /\ tries \in 0 .. MaxTries
    /\ outdated \in SUBSET Readers
    /\ disturbed \in SUBSET Readers
    /\ fillFailed \in BOOLEAN
    /\ overtaken \in BOOLEAN
    /\ metaDataThrew \in {"no", "keys", "dates"}

\* Inside "synchronized (properties)".
InMonitor(t) == pc[t] \in {"recheck", "open", "fill", "publish", "clear"}

\* Between the clear() and the flag of a population.
Filling(r) == pc[r] \in {"open", "fill", "publish"}

Iterating == {r \in Readers : pc[r] = "iterate"}

\* The builder hands the engine out when a refreshData has returned: the dates
\* have been set, by the first one or by a retry after it threw.
Built == dataFileMetaData > 0

Goes(t, from, to) == pc[t] = from /\ pc' = [pc EXCEPT ![t] = to]

Init ==
    /\ engine = "null"
    /\ dataset = 0
    /\ evidenceKeys = 0
    /\ dataFileMetaData = 0
    /\ propertiesPopulated = FALSE
    /\ properties = <<>>
    /\ monitor = NoThread
    /\ pc = [t \in Threads |-> "idle"]
    /\ snapshot = [t \in Readers \cup Workers |-> 0]
    /\ tries = 0
    /\ outdated = {}
    /\ disturbed = {}
    /\ fillFailed = FALSE
    /\ overtaken = FALSE
    /\ metaDataThrew = "no"

-----------------------------------------------------------------------------
(* getProperties                                                           *)

\* The reader gets the shared list and starts to iterate it.
ReturnList(r, from) ==
    /\ Goes(r, from, "iterate")
    /\ snapshot' = [snapshot EXCEPT ![r] = 0]
    /\ UNCHANGED <<engineVars, properties, tries, history>>

(* Plausible faults.  No behaviour of the specification uses them; each      *)
(* stands in for the definition it is named after to show that a property    *)
(* would notice it.                                                          *)

\* "<=" in the loop condition.
CreateThrowsOnceMore ==
    /\ pc[Updater] = "create"
    /\ tries <= MaxTries
    /\ tries' = tries + 1
    /\ UNCHANGED <<engineVars, listVars, pc, snapshot, history>>

\* The retry limit is dropped: the loop goes round for ever.
CreateThrowsForEver ==
    /\ pc[Updater] = "create"
    /\ tries' = (tries + 1) % MaxTries
    /\ UNCHANGED <<engineVars, listVars, pc, snapshot, history>>

\* clear() forgotten: the new entries are added behind the old ones.
StartFillWithoutClear(r) ==
    /\ ~propertiesPopulated
    /\ Goes(r, "recheck", "open")
    /\ fillFailed' = FALSE
    /\ overtaken' = FALSE
    /\ UNCHANGED <<engineVars, listVars, snapshot, tries, outdated, disturbed,
                   metaDataThrew>>

\* The second check of the flag left out of the double-checked locking.
StartFillWithoutRecheck(r) ==
    /\ Goes(r, "recheck", "open")
    /\ properties' = <<>>
    /\ disturbed' = disturbed \cup Iterating
    /\ fillFailed' = FALSE
    /\ overtaken' = FALSE
    /\ UNCHANGED <<engineVars, propertiesPopulated, monitor, snapshot, tries,
                   outdated, metaDataThrew>>

\* The flag set before the list is filled.
StartFillPublishesEarly(r) ==
    /\ ~propertiesPopulated
    /\ Goes(r, "recheck", "open")
    /\ propertiesPopulated' = TRUE
    /\ properties' = <<>>
    /\ disturbed' = disturbed \cup Iterating
    /\ fillFailed' = FALSE
    /\ overtaken' = FALSE
    /\ UNCHANGED <<engineVars, monitor, snapshot, tries, outdated, metaDataThrew>>

\* The monitor kept on the way out that finds the list filled.
FoundPopulatedKeepsMonitor(r) ==
    /\ propertiesPopulated
    /\ ReturnList(r, "recheck")
    /\ UNCHANGED <<propertiesPopulated, monitor>>

\* The monitor kept after a population.
PublishKeepsMonitor(r) ==
    /\ ReturnList(r, "publish")
    /\ propertiesPopulated' = TRUE
    /\ UNCHANGED monitor

\* The evidence keys read only when the engine is created.
SetEvidenceKeysOnce ==
    /\ engine = "live"
    /\ Goes(Updater, "keys", "invalidate")
    /\ evidenceKeys' = IF evidenceKeys = 0 THEN dataset ELSE evidenceKeys
    /\ UNCHANGED <<engine, dataset, dataFileMetaData, listVars, snapshot, tries,
                   history>>

\* The flag left as it is by a refresh.
KeepPropertiesPopulated ==
    /\ Goes(Updater, "invalidate", "dates")
    /\ UNCHANGED <<engineVars, listVars, snapshot, tries, history>>

\* The cleanup clears the list without entering the monitor.
CloseDoesNotWait ==
    /\ Goes(Closer, "enter", "clear")
    /\ UNCHANGED <<engineVars, listVars, snapshot, tries, history>>

\* The check outside the monitor.
FastPath(r) ==
    /\ Built /\ propertiesPopulated
    /\ ReturnList(r, "idle")
    /\ UNCHANGED <<propertiesPopulated, monitor>>

SlowPath(r) ==
    /\ Built /\ ~propertiesPopulated
    /\ Goes(r, "idle", "enter")
    /\ UNCHANGED <<engineVars, listVars, snapshot, tries, history>>

EnterMonitor(r) ==
    /\ monitor = NoThread
    /\ monitor' = r
    /\ Goes(r, "enter", "recheck")
    /\ UNCHANGED <<engineVars, propertiesPopulated, properties, snapshot, tries,
                   history>>

\* Someone else has filled the list while this thread waited.
FoundPopulated(r) ==
    /\ propertiesPopulated
    /\ ReturnList(r, "recheck")
    /\ monitor' = NoThread
    /\ UNCHANGED propertiesPopulated

\* properties.clear(), in place: the list other threads may be iterating.
StartFill(r) ==
    /\ ~propertiesPopulated
    /\ Goes(r, "recheck", "open")
    /\ properties' = <<>>
    /\ disturbed' = disturbed \cup Iterating
    /\ fillFailed' = FALSE
    /\ overtaken' = FALSE
    /\ UNCHANGED <<engineVars, propertiesPopulated, monitor, snapshot, tries,
                   outdated, metaDataThrew>>

\* engine.getMetaData().getProperties(): a collection over the current data set.
OpenCollection(r) ==
    /\ engine = "live"
    /\ Goes(r, "open", "fill")
    /\ snapshot' = [snapshot EXCEPT ![r] = dataset]
    /\ UNCHANGED <<engineVars, listVars, tries, history>>

\* One turn of the loop over the native collection.
AddProperty(r) ==
    /\ pc[r] = "fill"
    /\ Len(properties) < PropertyCount
    /\ properties' = Append(properties, snapshot[r])
    /\ disturbed' = disturbed \cup Iterating
    /\ UNCHANGED <<engineVars, propertiesPopulated, monitor, pc, snapshot, tries,
                   outdated, fillFailed, overtaken, metaDataThrew>>

EndFill(r) ==
    /\ Len(properties) = PropertyCount
    /\ Goes(r, "fill", "publish")
    /\ UNCHANGED <<engineVars, listVars, snapshot, tries, history>>

\* catch (Exception e): opening or reading the native collection threw.
FillThrows(r) ==
    /\ \E from \in {"open", "fill"} : Goes(r, from, "publish")
    /\ fillFailed' = TRUE
    /\ UNCHANGED <<engineVars, listVars, snapshot, tries, outdated, disturbed,
                   overtaken, metaDataThrew>>

\* propertiesPopulated = true, after a failure too, and the end of the monitor.
PublishProperties(r) ==
    /\ ReturnList(r, "publish")
    /\ propertiesPopulated' = TRUE
    /\ monitor' = NoThread

\* The caller is done with the list.
EndIteration(r) ==
    /\ Goes(r, "iterate", "idle")
    /\ outdated' = outdated \ {r}
    /\ disturbed' = disturbed \ {r}
    /\ UNCHANGED <<engineVars, listVars, snapshot, tries, fillFailed, overtaken,
                   metaDataThrew>>

-----------------------------------------------------------------------------
(* processEngine                                                           *)

\* The field is neither volatile nor guarded: a request thread may still see
\* the keys of any data set whose keys were ever assigned.
ReadEvidenceKeys(w) ==
    /\ Built
    /\ Goes(w, "idle", "matched")
    /\ \E k \in 1 .. evidenceKeys : snapshot' = [snapshot EXCEPT ![w] = k]
    /\ UNCHANGED <<engineVars, listVars, tries, history>>

\* engine.process(relevantEvidence): results of the data set held now, or an
\* exception; either way the engine is done with the request.
NativeProcess(w) ==
    /\ Goes(w, "matched", "idle")
    /\ snapshot' = [snapshot EXCEPT ![w] = 0]
    /\ UNCHANGED <<engineVars, listVars, tries, history>>

-----------------------------------------------------------------------------
(* refreshData and setEngineMetaData, on the one thread that updates       *)

\* A data file that is missing throws before anything changes: no step.
CallRefresh ==
    /\ Goes(Updater, "idle", IF engine = "null" THEN "create" ELSE "refresh")
    /\ UNCHANGED <<engineVars, listVars, snapshot, tries, history>>

\* The same over a byte array: the constructor is called once, outside a loop.
CallRefreshFromMemory ==
    /\ Goes(Updater, "idle", IF engine = "null" THEN "load" ELSE "refresh")
    /\ UNCHANGED <<engineVars, listVars, snapshot, tries, history>>

\* new EngineIpiSwig(...) succeeds, and the loop is left.
CreateEngine ==
    /\ tries < MaxTries
    /\ \E from \in {"create", "load"} : Goes(Updater, from, "keys")
    /\ engine' = "live"
    /\ dataset' = dataset + 1
    /\ tries' = 0
    /\ UNCHANGED <<evidenceKeys, dataFileMetaData, listVars, snapshot, history>>

\* It throws in the loop: count it and go round the loop again.
CreateThrows ==
    /\ pc[Updater] = "create"
    /\ tries < MaxTries
    /\ tries' = tries + 1
    /\ UNCHANGED <<engineVars, listVars, pc, snapshot, history>>

\* Too many failures: IllegalStateException, and the field stays null.
GiveUp ==
    /\ tries >= MaxTries
    /\ Goes(Updater, "create", "idle")
    /\ tries' = 0
    /\ UNCHANGED <<engineVars, listVars, snapshot, history>>

LoadThrows ==
    /\ Goes(Updater, "load", "idle")
    /\ UNCHANGED <<engineVars, listVars, snapshot, tries, history>>

\* engine.refreshData(): the native engine moves to a new data set.
NativeRefresh ==
    /\ engine = "live"
    /\ dataset < MaxDataset
    /\ Goes(Updater, "refresh", "keys")
    /\ dataset' = dataset + 1
    /\ metaDataThrew' = "no"
    /\ UNCHANGED <<engine, evidenceKeys, dataFileMetaData, listVars, snapshot,
                   tries, outdated, disturbed, fillFailed, overtaken>>

\* The native engine throws and keeps its data set; so does every Java field.
NativeRefreshThrows ==
    /\ Goes(Updater, "refresh", "idle")
    /\ UNCHANGED <<engineVars, listVars, snapshot, tries, history>>

\* evidenceKeys and evidenceKeyFilter.
SetEvidenceKeys ==
    /\ engine = "live"
    /\ Goes(Updater, "keys", "invalidate")
    /\ evidenceKeys' = dataset
    /\ UNCHANGED <<engine, dataset, dataFileMetaData, listVars, snapshot, tries,
                   history>>

\* propertiesPopulated = false, without the monitor.
InvalidateProperties ==
    /\ Goes(Updater, "invalidate", "dates")
    /\ propertiesPopulated' = FALSE
    /\ outdated' = outdated \cup Iterating
    /\ overtaken' = (overtaken \/ \E r \in Readers :
                        pc[r] \in {"fill", "publish"} /\ snapshot[r] < dataset)
    /\ UNCHANGED <<engineVars, properties, monitor, snapshot, tries, disturbed,
                   fillFailed, metaDataThrew>>

\* Published date, update time and temporary path of the data file.
SetDataFileMetaData ==
    /\ engine = "live"
    /\ Goes(Updater, "dates", "idle")
    /\ dataFileMetaData' = dataset
    /\ UNCHANGED <<engine, dataset, evidenceKeys, listVars, snapshot, tries,
                   history>>

\* A native getter of setEngineMetaData throws, on a live engine or on one that
\* was closed meanwhile.  The data set stays; what the getters before it have
\* set stays too, and what comes after it is not done: with the keys, neither
\* is the invalidation.
SetMetaDataThrows ==
    /\ \E getter \in {"keys", "dates"} :
          /\ Goes(Updater, getter, "idle")
          /\ metaDataThrew' = getter
    /\ UNCHANGED <<engineVars, listVars, snapshot, tries, outdated, disturbed,
                   fillFailed, overtaken>>

-----------------------------------------------------------------------------
(* unmanagedResourcesCleanup, entered once per engine by the base class    *)

CallClose ==
    /\ Built
    /\ Goes(Closer, "idle", "check")
    /\ UNCHANGED <<engineVars, listVars, snapshot, tries, history>>

\* The flag outside the monitor: an unpopulated list is left as it is.
CloseChecks ==
    /\ Goes(Closer, "check", IF propertiesPopulated THEN "enter" ELSE "delete")
    /\ UNCHANGED <<engineVars, listVars, snapshot, tries, history>>

CloseEnters ==
    /\ monitor = NoThread
    /\ monitor' = Closer
    /\ Goes(Closer, "enter", "clear")
    /\ UNCHANGED <<engineVars, propertiesPopulated, properties, snapshot, tries,
                   history>>

\* The flag again, and clear() under the monitor; the flag itself stays.
CloseClears ==
    /\ IF propertiesPopulated
       THEN properties' = <<>> /\ disturbed' = disturbed \cup Iterating
       ELSE UNCHANGED <<properties, disturbed>>
    /\ monitor' = NoThread
    /\ Goes(Closer, "clear", "delete")
    /\ UNCHANGED <<engineVars, propertiesPopulated, snapshot, tries, outdated,
                   fillFailed, overtaken, metaDataThrew>>

\* config.delete(), propertiesConfigSwig.delete(), engine.delete().
DeleteNative ==
    /\ Goes(Closer, "delete", "closed")
    /\ engine' = "deleted"
    /\ UNCHANGED <<dataset, evidenceKeys, dataFileMetaData, listVars, snapshot,
                   tries, history>>

-----------------------------------------------------------------------------

\* The steps of getProperties once its first check has failed.
ReaderStep(r) ==
    \/ EnterMonitor(r)
    \/ FoundPopulated(r)
    \/ StartFill(r)
    \/ OpenCollection(r)
    \/ AddProperty(r)
    \/ EndFill(r)
    \/ FillThrows(r)
    \/ PublishProperties(r)

Reader(r) == FastPath(r) \/ SlowPath(r) \/ ReaderStep(r) \/ EndIteration(r)

Worker(w) == ReadEvidenceKeys(w) \/ NativeProcess(w)

\* The steps of refreshData once it has been called.
RefreshStep ==
    \/ CreateEngine
    \/ CreateThrows
    \/ GiveUp
    \/ LoadThrows
    \/ NativeRefresh
    \/ NativeRefreshThrows
    \/ SetEvidenceKeys
    \/ InvalidateProperties
    \/ SetDataFileMetaData
    \/ SetMetaDataThrows

\* The steps of the cleanup once the engine's close has called it.
CloseStep == CloseChecks \/ CloseEnters \/ CloseClears \/ DeleteNative

Next ==
    \/ \E r \in Readers : Reader(r)
    \/ \E w \in Workers : Worker(w)
    \/ CallRefresh \/ CallRefreshFromMemory \/ RefreshStep
    \/ CallClose \/ CloseStep

Spec == Init /\ [][Next]_vars

\* A thread does not stop inside a call.  Nobody has to call anything, and the
\* monitor hands itself to no thread in particular: weak fairness throughout.
Fairness ==
    /\ \A r \in Readers : WF_vars(ReaderStep(r))
    /\ WF_vars(RefreshStep)
    /\ WF_vars(CloseStep)

FairSpec == Spec /\ Fairness

-----------------------------------------------------------------------------
(* Properties                                                              *)

\* One thread at a time is inside "synchronized (properties)", the one that
\* holds the monitor, and none of the ways out keeps hold of it.
MonitorExclusion == \A t \in Threads : InMonitor(t) <=> monitor = t

\* The list changes only in a step of the thread that holds its monitor, while
\* no other thread is between its clear() and its flag.
ListChangesUnderMonitor ==
    [][properties' # properties =>
          /\ monitor # NoThread /\ pc[monitor] \in {"recheck", "fill", "clear"}
          /\ \A r \in Readers \ {monitor} : ~Filling(r)]_vars

\* Meta data of two data sets is never mixed in one list, however populations,
\* failed populations and refreshes interleave.
OneDatasetList ==
    \A i, j \in 1 .. Len(properties) : properties[i] = properties[j]

\* What the unlocked check of the flag relies on: a set flag means that no
\* population is under way and that the list is whole, unless the population
\* threw or the engine is being closed.
PopulatedListIsWhole ==
    propertiesPopulated =>
        /\ \A r \in Readers : ~Filling(r)
        /\ \/ Len(properties) = PropertyCount
           \/ fillFailed
           \/ pc[Closer] \in {"delete", "closed"}

\* The caller that iterates the shared list sees it change under its feet only
\* when a refresh has invalidated it since, or the engine is being closed:
\* threads that hash the meta data after a reload do not disturb each other.
UndisturbedIteration ==
    disturbed \subseteq outdated \/ pc[Closer] \in {"delete", "closed"}

\* Once a refresh is past its invalidation, a list that counts as populated is
\* of the data set the native engine holds, with two exceptions and no other: a
\* population of the previous data set was under way and set the flag after the
\* refresh cleared it, or the last refresh threw over the evidence keys, with
\* the new data set in use, and never got to its invalidation.  The next refresh
\* that succeeds undoes the second.
StaleListExplained ==
    propertiesPopulated /\ pc[Updater] \notin {"keys", "invalidate"} =>
        \/ overtaken
        \/ metaDataThrew = "keys"
        \/ engine = "deleted"
        \/ \A i \in 1 .. Len(properties) : properties[i] = dataset

\* What "apply new data files" promises the callers of getProperties: between
\* two refreshes, neither of which threw, a list whose population did not fail
\* is of the data set in use.  The code breaks it when a population is overtaken.
AppliedDataIsServed ==
    /\ propertiesPopulated /\ ~fillFailed
    /\ pc[Updater] = "idle" /\ metaDataThrew = "no"
    => \/ pc[Closer] # "idle"
       \/ \A i \in 1 .. Len(properties) : properties[i] = dataset

\* Between two calls of refreshData the evidence keys and the dates of the data
\* file are those of the data set in use, also when the native refresh itself
\* failed.  A refresh that threw after it leaves at most the dates behind, or
\* the keys and the dates: the dates never run ahead of the keys, the keys never
\* ahead of the data set, and no request matches evidence by keys of a data set
\* that is not yet loaded.
MetaDataFollowsDataset ==
    /\ pc[Updater] \in {"idle", "refresh"} /\ engine = "live" =>
          /\ metaDataThrew # "keys" => evidenceKeys = dataset
          /\ metaDataThrew = "no" => dataFileMetaData = dataset
    /\ dataFileMetaData <= evidenceKeys /\ evidenceKeys <= dataset
    /\ \A w \in Workers : pc[w] = "matched" => snapshot[w] <= dataset

\* getProperties returns: no thread waits for the monitor for ever, whatever
\* refreshes, failures and a close do meanwhile.
GetPropertiesReturns ==
    \A r \in Readers : pc[r] = "enter" ~> pc[r] = "iterate"

\* refreshData returns or throws: the creation loop ends.
RefreshReturns == pc[Updater] # "idle" ~> pc[Updater] = "idle"

\* The cleanup gets past the monitor and releases the native engine.
CloseReleases == pc[Closer] = "check" ~> engine = "deleted"
=============================================================================
