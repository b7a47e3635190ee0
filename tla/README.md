# Verification of 51Degrees IP Intelligence (Java)

TLA+ models of this repository's own logic, the TLC runs that check them and the
TLAPS proofs about them. Paths below are relative to the repository; `ENG`, `DATA`,
`BASE`, `BLD`, `PB`, `CLOUD`, `TR` and `CPP` stand for `IPIntelligenceOnPremiseEngine.java`,
`IPIntelligenceDataHashDefault.java`, `IPIntelligenceDataBaseOnPremise.java`,
`IPIntelligenceOnPremiseEngineBuilder.java`, `IPIntelligenceOnPremisePipelineBuilder.java`,
`IPIntelligenceCloudEngine.java`, `CountriesTranslationEngine.java` and
`Java_Ipi_Engine.cpp`.

    tlc -config engine.cfg MCOnPremiseEngine.tla      # model-check one run
    tlapm OnPremiseEngineProofs.tla                   # check the proofs

## The system

A pipeline built by one of the pipeline builders sends each request (a flow data)
through an engine. The on-premise engine matches the request's evidence against the
keys its native engine accepts and lets the native engine compute results, which it
stores in the request's element data. The application reads them by typed getters
or as a map, and closes the flow data, which frees them. Meanwhile the data update
service may refresh the engine with a new data file, other threads may ask it for
the meta data of its properties, and the pipeline may be closed. The cloud engine
takes the same properties from the JSON that a cloud request engine has stored. The
countries translation, when it is part of the pipeline, makes complete lists of
countries from the weighted codes and their translated names.

| Component | State | Operations | Interacts with | What is hard | What makes it correct |
|---|---|---|---|---|---|
| On-premise engine (ENG) | native engine, evidence keys and filter, shared property list with a volatile flag, dates of the data file | getProperties, processEngine, refreshData from file and memory, cleanup | called by request threads, the update thread and the closing thread; calls the native engine | the list is cleared and filled in place under double-checked locking, the flag is cleared without the lock, native calls throw half way | a list is whole and of one data set, nobody's iteration is disturbed without cause, keys and dates follow the data set, every call ends |
| Request data (DATA, BASE) | closed flag, native results, lazily populated map with a plain flag, two locks | setResults, typed getters, get(name), asKeyMap, close | written by the engine, read by any thread of the request, closed by the flow data | nested locks, exceptions inside both, plain flags read without a lock, close without a lock | locks always given back, map all or nothing and filled once, values of the right results, native results freed once, nothing served after close |
| Native proxies (generated `*Swig.java`) | pointer, ownership flag | delete, finalize, every native call | owned by the engine, the data, the meta data wrappers | finalizers in a thread of their own, exceptions between nested resources | freed once, by the owner, and not while a part is being read |
| Native wrappers (CPP) | none beyond one call | 407 exported functions | called by the proxies, call the C++ library | conversions that refuse an argument half way, catch clauses that differ from function to function | an exception or a result, never a null reference passed on, nothing left pinned |
| Meta data wrappers, iterators (`data/*MetaDataIPI.java`, `interop/*Iterable.java`) | a native object and the collection it comes from | iterate, getValues, close | created by the engine's meta data getters | several proxies at once | each native object deleted by its one owner |
| On-premise engine builder (BLD) | one native configuration, data files, temporary directory | setters, newEngine | makes engines that share the configuration | an engine deletes the configuration the others use | an engine's configuration lives as long as the engine |
| Pipeline builders (PB, `IPIntelligenceCloudPipelineBuilder.java`) | settings, flow elements, managed services | setters, build | engine builders, data update service | a second build, settings that are dropped | the engine is configured as told |
| Cloud engine (CLOUD) | property list loaded from the request engine | addPipeline, loadAspectProperties, processEngine | reads the JSON the cloud request engine stored | loading fails once and for all or half way, requests read the list without a lock | an answer is taken over completely or not at all, a short list does not go unnoticed |
| Countries translation (TR) | translation tables; per request, the lists | processInternal | reads the codes and names other elements stored | merging weighted lists, a sentinel, ties, missing translations, precedence of languages | every country once, in the right order, with its own name |
| Native library | data set, collections, results | a submodule that is not here | the native wrappers | may throw anywhere | external |
| Pipeline base classes | flow data, update service, translation base class | another repository | | | external |

## Modules

| Module | What it is |
|---|---|
| `OnPremiseEngine` | the engine: getProperties, processEngine, refreshData, cleanup |
| `VersionedCache` | abstract specification: what getProperties promises of its list |
| `EngineCache` | the refinement mapping from the engine to the cache |
| `OnPremiseEngineProofs`, `EngineCacheProofs` | theorems about the engine, and that it implements the cache |
| `ResultsData`, `ResultsDataProofs` | the element data of one request |
| `ElementData` | abstract specification: what the data of a request promises to the threads that share it |
| `ResultsElementData`, `ElementDataProofs` | the refinement mapping from the one to the other, and its proof |
| `NativeApi` | the native interface as a table of signatures |
| `JniCall`, `JniCallProofs` | one call through a wrapper, for any table |
| `NativeObjects`, `NativeObjectsProofs` | which proxy deletes which native object, and when |
| `CloudEngine`, `CloudEngineProofs` | loading the property list, answering requests |
| `CountriesTranslation`, `CountriesTranslationProofs` | one request through processInternal |
| `MC...` | their instances for TLC |

`JniCall` and `NativeObjects` both read `NativeApi`: a wrong entry of the table shows
in the one as an exception that is not caught, in the other as an object deleted
twice or never. `ResultsData` starts where `OnPremiseEngine` hands over results.

Each model holds variants of its operators that no behaviour uses, marked "Mutant"
or collected under "Plausible faults". They show that every property would notice a
likely mistake; the pairs are in `PROJECT.json` under `mutants`.

### OnPremiseEngine, VersionedCache, EngineCache

A data set is a number, in the order of loading. `engine` is the field (null, live,
or a proxy whose native engine was deleted), `dataset` what the native engine holds,
`evidenceKeys` and `dataFileMetaData` the data set that the keys and the dates were
read from (the last of the three dates, which are set one after another), `properties` the shared list as the data set of each entry. `pc` says
where each thread is, and a label stands for the place before the next access to
something shared: the two checks of the flag, the monitor, `clear()`, the opening of
the native collection, each `add`, the assignment of the flag. The same is done with
`setEngineMetaData` (keys, flag, dates) and with the cleanup. What happens between
two such places is one action. The native getters of `setEngineMetaData` may throw, like
any native call, also on a live engine whose refresh has just succeeded: nothing that
comes after them is then done, the invalidation included if it was `getKeys`.

Five variables are history: `outdated` and `disturbed` (readers whose list was
invalidated, or changed, since they were given it), `fillFailed` and `overtaken`
(what happened to the last population), and `metaDataThrew` (at which getter, if any,
the last `setEngineMetaData` threw). No action reads them.

What is assumed of the code outside the repository: refreshes are serialised (one
update thread); the engine is handed out after its first refreshData returned
(`Built`); the base class calls the cleanup once; a native refresh is atomic or
throws and changes nothing; a native collection stays with the data set it was
opened on; a call through a deleted handle throws or ends the process. An
iteration of the list begins when getProperties returns. The keys field is not
volatile, so a request may read any keys that were ever assigned. That every data
set has the same number of properties is a simplification: the list's length
matters only for being whole.

`VersionedCache` has no threads, monitor or loop: a source whose version grows, one
fill at a time, begun only while nothing is served, and ended by being served even
if it was overtaken or cut short. `EngineCache` maps the data set to the source, the
population of the thread that holds the monitor to the fill, and the list to what
is served while its flag is up. The abstract specification deliberately allows the
lost invalidation; it excludes two fills at once, a fill of two versions, and a
list that changes while it is served.

### ResultsData, ElementData, ResultsElementData

`resultsList` tells native results apart by the properties they contain;
`swigCMemOwn` and `deletes` are the proxy's ownership flag and a count of releases.
`map` gives per property the native results its value came from. A value has a
shape: the single value that a getter of a scalar type asks for, or the weighted list
that list getters, `get(name)` and asKeyMap ask for (BASE:231-236, 285-288); the Java type itself
is left out. `tryGetValue` is one action per shared access: checkState, the read of
`mapPopulated`, propertyIsAvailable (which checks again and calls native code before
getLock), getLock, the native read. asKeyMap runs the same actions for each of its
properties while it holds dataLock.

`closed` and `mapPopulated` are plain fields. `seenClosed` and `seenPopulated` hold
the threads that must see the new value; any other thread may read the old or the
new one. A thread outside `synced` that reads the new `mapPopulated` may find the
map incomplete, because nothing orders the population before its read. This is
slightly more than one Java virtual machine does, never less. setResults takes place
before the data is used: the pipeline hands the data out after the engines are done.

`ElementData` has no locks, no place in the code and no map under way: native results
that are added, asked in order and released once; a map that is kept at one moment, with
every property, by a thread that does not know of a close; and for every thread what it
was answered last and whether it knows of the close or has been given the map for certain.
It excludes a value of the wrong results, an answer other than the exception or the map
to a thread that knows of the close, a second map, a map with a property missing from
every result, a release before the close or a second one, and a failure, a part of the
map or a value not from it for a thread that `synced` holds. It deliberately allows what the runs
`data_closed` and `data_type` show: a kept map answers with weighted lists, and also
after the close. `ResultsElementData` maps `mapPopulated` to the map being kept and `synced` to
those who were given it for certain; populations, waits, and reads for the map are stutters.

### NativeApi, JniCall

The wrapper of an exported function differs from the others in how each argument is
converted, which exceptions it catches, whether its helper checks bounds, what it
returns and whether the proxy made of that owns it. `NativeApi` gives these for all
407 functions, built up from the templates that generated them (list, collection,
weighted list, value...). `JniCall` performs one call: one action per conversion in
the order of the arguments, the native call with each way it can end, the catch
clauses, the conversion of the result and the release of what was pinned. Which
arguments are null is free, except that a receiver is null only after its proxy was
deleted. Wrappers keep everything in locals, so one call at a time is enough. That
the C++ library throws what its comments and headers say is not assumed: every
outcome is tried on every function, also those no catch clause names. A null that a
wrapper passes on unchecked (receiver, pointer, C string, byte array, name that could
not be pinned) may end the process, or not, since the library need not look at it. Two
exceptions are assumed: `delete` of null is defined and does nothing, and a pinned name
is always looked at, since the helpers hand it on as a C string (CPP:889-906).

### NativeObjects

An address is named by the kind of object and its index; a proxy knows whether it
still has the address, whether it owns the object there, and whether code holds it.
The tasks are the pieces of Java code that use several proxies at a time:
`populateWeightedValues` for elements that hold a number and for those that hold a
byte string (DATA:135-163, 244-257), `ProfileMetaDataIPI.getValues`, and the
collection settings of a configuration. Every native call of a task may throw, at
which point the open try-with-resources blocks close what they opened; the
finalizer may come to any proxy that no code holds at any moment. What a proxy owns
is read from `NativeApi`.

### CloudEngine

One thread adds the engine to pipelines (with or without a request engine); requests
of pipelines that are built already run in threads of their own. Loading the list
is one action per item, a request one action per property, so that loads and
requests interleave. The service fails, has nothing for this engine, or has a list
in which types may be unknown; a value is there, is null, or is malformed. `offered`
is history: what the service had when it was asked. Assumed: pipelines are built one
after another, as the builders do; the service names no property twice; a request
enters a pipeline only after it is built.

### CountriesTranslation

One request, step by step: the base class translates the names of each dimension
that has any; `resolveMatch` goes through the evidence keys in order; the codes are
read; `buildAndStore` pairs codes and names, sorts the pairs by weight and name, drops the sentinel,
appends the other countries by name, and stores the two lists. The
culture is that of the match's locale; a match with a translator may have no locale
(TR:322-324), and then the names are translated but sorted as strings, and no culture is
reported. The languages with a locale are a constant, `WithLocale`. The
collator of a culture is a rank of names in which two names may be equal. A sort is
the order of the indices in which an index comes before another if the comparator says so, or if
it says neither and the index is smaller (`StableSort`): what `List.sort` promises,
not how it works. A filter is the same with the order of the list (`Selected`). Properties
compare the lists with what the inputs say of each country, not with a second sort.

External: the base class keeps the order of what it translates and resolves the same
language as `resolveMatch`; `Languages.match` finds nothing for English, which has no
translation file (TR:311 relies on it); and the IP engine gives no country two weights
for one dimension (`CodesAssumption`). The code does not check the last: it would list
such a country twice, because only the remaining countries are compared with
the codes used (TR:213-216, 223).

## Runs

| Run | Checks | Result |
|---|---|---|
| `engine` | safety of the list, the keys and the dates; the engine implements `VersionedCache` (`ServesVersionedCache`) | holds, 252,334 states |
| `engine_live` | every call that has started comes to an end | holds, 28,638 states |
| `engine_stale` | `AppliedDataIsServed` | violated: a lost invalidation |
| `data` | locks, map, sources of values, release of native results; what holds until the map is populated; the data implements `ElementData` (`ServesElementData`) | holds, 32,879 states |
| `data_closed` | `ClosedThrows` | violated: asKeyMap after close |
| `data_type` | `GetterKeepsType` | violated: a getter after asKeyMap |
| `jni` | conversions, catch clauses and results of every exported function | holds, 1,899 states |
| `objects` | ownership, clean-up, and reads of parts of objects | holds, 689 states |
| `config_owner` | `OnlyLiveObjectsAreDeleted` with all collection getters | violated: a part is deleted |
| `countries` | completeness, pairing and order of the lists | holds, 273,152 states |
| `countries_english` | `QueryTranslationWins` | violated: English is passed over |
| `cloud` | short lists are reported, answers are whole, the list is still while read | holds, 78,954 states |

What the properties say is written above each of them in the module.

**Violations.** `engine_stale`: a reader opens the native collection of data set 1,
a refresh loads data set 2 and clears the flag, the reader sets the flag (ENG:139) over a
list of data set 1; until the next refresh getProperties serves old meta data
although the new data file was applied (PB:121-122). `StaleListExplained` says, and
the proof shows, that there is only one other way to a stale list: a refresh that throws at
`getKeys` (ENG:342), after the new data set is in use and before the flag is cleared. The
property violated here leaves such refreshes out. `data_closed`:
asKeyMap has no check of its own, so a closed instance whose map was populated
returns it; the test `IPIData_Closed` expects an exception but tries it only on an
unpopulated instance. `data_type`: once the map is populated, `getCountryCode()`,
declared as a value of String, is answered with the weighted list from the map.
`config_owner`: four getters of `ConfigIpiSwig` (from line 84) make an owning proxy of
what the wrapper returns as the address of a part (CPP:23477), so its finalizer
deletes a part of the configuration; the project's own code does not call them.
`countries_english`: a query that asks for English matches no language, so the
browser's language is used, although a test calls the query key the one of higher
precedence.

**Bounds.** `engine`: three readers are the fewest that let one iterate, one populate and one
wait. Two properties let a population stop half way. Three data sets are a creation and two
refreshes, so that a population can be overtaken and the list populated again.
Ten attempts is the code's own limit. In `engine_live` two readers
contend, with one property and one refresh, and no symmetry is used. `data`: two
native results reach both branches of getSingleResults and a close that is half
way, two properties a population that is half way, two threads every race of a
pair; three threads were also tried and give the same answer in 1.1 million states.
The violations of `data_closed` and `data_type` need one thread only. Symmetry is
over threads of one kind and over properties; no action or property names one.
`jni`: all signatures of the interface and all combinations of null arguments, so
nothing is bounded; functions of the same signature are one. `objects`: three
entries give a first, a middle and a last one; the proofs lift the bound. `cloud`: the
first pipeline may lack a request engine, the second load, the third come after;
two requests, one in each of two pipelines; lists that are empty, whole, and with an
unknown type in the middle, so that a loading stops half way with something kept.
The evidence of `countries` is every value of three keys out of none, English and
two languages. German has a locale, lacks a name, and has two names that are equal to
its collator; Cornish has every name and no locale. Weights and codes give ties, the sentinel in every place, and nothing left
for the rest of the list. The second dimension runs the same code after the first
and needs only few codes.

**Deadlock** is checked in the runs of the engine and the request data: no state is
without a successor, so dataLock and getLock cannot be held by threads that wait for each
other. The other models describe a call, a task, a request or a build that ends,
and are not checked for it; none of them holds a lock.

**Fairness.** `engine_live` assumes weak fairness of the steps inside a running call:
a thread that can go on goes on. Nothing is assumed about starting a call, so
refreshes and closes may never happen. Java monitors do not promise to
serve waiting threads in turn; weak fairness of a waiting reader is enough here
because the number of refreshes is bounded, and only a refresh makes readers
populate again. With refreshes for ever a reader could lose the race for the
monitor each time. The request data has no liveness property for the same reason:
threads may call getters for ever, and only a fair lock would serve them all. The
remaining models are loops over finite lists without waiting; and nothing obliges
a Java virtual machine to ever run a finalizer, so `NativeObjects` promises an owner
for each object (`EveryObjectHasAnOwner`) and no deletion by it.

## Proofs

Every safety property of every passing run is proved for
all values of the constants, as are the two refinements. The assumptions are those the
modules declare (distinct thread names, natural bounds, well-formed signatures and
lists, collators that rank by integers) and, for the native interface, four conditions on the table that the
theorems state and TLC evaluates on the real one in `MCJniCall` and `MCNativeObjects`
(the last of them on the getters the run `objects` uses: it does not hold of all).

`OnPremiseEngineProofs`. `IInv` is the inductive invariant:

- `TypeOK` and `EngineInv`: the field is null exactly before the first data set; keys
  and dates are never ahead of it. Proved first, one step per action (`TypeStep`).
- `MonitorExclusion`, inductive given the types (`MonitorStep`).
- `ListInv`: `OneDatasetList` and `UndisturbedIteration` are not inductive alone. A
  new entry matches the old ones only because the list was empty when its population
  opened the collection and every entry since is of that collection; and a population may
  change the list under an iteration because the flag is down, and while it is down every
  iteration is of an outdated list. Both facts need the exclusion of populations.
- `FreshInv`: after a refresh is past its invalidation, a population that was not
  overtaken is of the data set in use, as is a populated list; keys and dates follow
  step by step through `setEngineMetaData`. A refresh that throws at the keys never gets
  past its invalidation (`Invalidated`), one that throws at the dates leaves only them
  behind. Keys that are set before the dates are why no date runs ahead of the keys.

`InductiveInvariant` combines them and each theorem follows from it.
`ListChangeTheorem` is an action property: which steps change the list, by whom.

`EngineCacheProofs` (`RefinementTheorem`) cites these: with `ListInv` and the fact that
only a thread inside a population has a version (`SnapshotInv`), every action is a step
of the cache or changes nothing of it (`CacheStep`).

`ResultsDataProofs` adds, one after another, `TInv` (types, and that a getter past the
check of availability has results with its property), `ClosedInv` (a thread that knows of
the close is in no getter past its check), `ReleaseInv` (a results object has been
released once if its proxy has lost the ownership flag, and a closing thread leaves
nothing owned behind it), `PopulatingInv` (under dataLock, past the second check, the map
is not populated), `UnusedInv` (while nobody has asked the data anything, and it may get
more native results, its map is empty), `BuiltInv` (what asKeyMap has collected comes from the first results with the
property), `MapInv` (the map is whole from the moment it is in place) and `AnswerInv`.
The lemma `FirstWithFound` says that the search for a property ends at results that
contain it.

`ElementDataProofs` (`ElementDataTheorem`) needs two invariants more. `SeenInv`: a thread
that has seen the flag is nowhere between it and the native results or a population, so a
miss or a failure never reaches a thread that is certain of the map; one that knows of the close
collects nothing; and what is stored is whole. `FoundInv`: every entry of a map, made or
being made, has results that contain it. `GetStep`, `KeyMapStep` and `CloseStep` then map
each action to one step of `ElementData` or to none: the close of results that are already
released, the reads of asKeyMap under dataLock and everything about getLock are none.
`FirstIsFirst` says that the code's search ends where `ElementData` looks.
`MappedInv` (a map is only handed out when the flag is set, and only then is a shape
not the one asked for) gives `PromisesTheorem`: a populated map is the only way to the two
broken promises. `MapStaysTheorem` is an action property: a populated map never changes.

`JniCallProofs` treats the table as a parameter. `CallInv` (conversions in order),
`CheckedInv` (what was converted and can be refused is not null), `OutcomeInv` (nothing is
decided before the native call) and `PinInv` (only converted arguments of two kinds are pinned)
hold for every table. `WellGuarded` (a helper that checks bounds has its catch clause)
and `PinsComeLast` (nothing can be refused after something was pinned, and no function with a
clause for bounds pins anything) are what a new function must satisfy for the remaining properties.

`NativeObjectsProofs`: `MemoryInv` says that the allocated objects are exactly those
some proxy owns, which makes, borrows, deletes and finalizers keep wherever the task is
(`MakeStep`, `BorrowStep`, `DeleteStep`, `LetGoStep`); `HoldingInv` says what a task holds
at each place, so that what it deletes or reads is there. A finalizer never disturbs a
list that is being read because none of value, list and string has one. `Ownership`
and `OnlyBorrowed` are the conditions on the table; `config_owner` is what happens
without the second.

`CloudEngineProofs`: `BuildInv` (before the request engine is kept there is no list, and
while it is being loaded no pipeline with a request engine is built), `OfferInv` (while
loading, the list and the items still to be read make up the offered list) and
`WeightedInv` (the weighted names are those of the list) are with
`IncompleteListWasReported` the inductive `ListInv`. `RequestInv` (a request that walks
through the list is in a pipeline that is built and has a request engine) and `BuildInv`
exclude a loading under a request; `AnswerInv` says that what a request has collected
covers the list up to its index.

`CountriesTranslationProofs` has three parts. The first is about sorts and filters, for
any finite set in any strict order (`StrictOrder`): no two elements have equally many below them
(`BelowGrows`), so the numbers of elements below are all the numbers up to the size of the set
(`Places`), and putting each element at its number gives the order that `InOrder` chooses
(`InOrderSorts`). A comparator of weights and ranks is a weak order (`ByWeightAndRank`), which
with the index between equals becomes a strict one (`StableSortSorts`). The second part
follows one list: the pairs (`TuplesPair`), their sort (`TuplesSorted`), what is left without
the sentinel (`ValidIsWeightedPart`), the other countries (`RemainingIsSorted`),
and both one after the other (`BuildListsBuilds`). A country of the second part has
no weight, because one that has is in the first; and the length is that of the known
countries because both list the same set without repetition (`AsManyCountries`). The
third part carries this through the request: `ResolvedInv` (one language, resolved from evidence
that stays), `TranslatedInv` (names of all the codes, in that language, or none),
`ReadInv` and `StoredInv` make the stored properties inductive (`StoreStep`).
`NamesTheorem` is about the language resolved, which is the culture reported only if its match
has a locale. `QueryLanguageTheorem` is what remains true of `QueryTranslationWins`: a query is
overruled only if it asks for English or for a language without translations.

The parts of each inductive invariant were checked by TLC on the instance of its
run first.

Only model-checked: liveness (`engine_live`). The violations are TLC
counterexamples. Nothing is proved by induction over data: lists are functions of an index, and
their lengths are compared by counting.

## Not modelled

- **On-premise engine builder and the pipeline builders**: each setter passes one value on,
  in one thread, and nothing is kept that later calls read, except the list of
  elements of a base class that is not in this repository. What was noticed while
  reading: a concurrency of 1 is not passed on (PB:393), a second `build()` appends
  its elements to the first's (PB:335-339), and engines of one builder share the native
  configuration (BLD:67) that the first one to close deletes. Only the base class
  could make two engines of one builder.
- **Hardware profile engine**: it has no state and no process step of its own.
- **Typed getters**: a line each; the call they make is an action of `ResultsData`,
  and only the Java type they declare is left out.
- **Meta data wrappers** other than `ProfileMetaDataIPI`: one native call and one
  proxy each, which the proxy's own rules cover.
- **`getProperties` of the countries translation**: adds four constant entries to a
  list that no request reads; every thread would compute the same.
- **Generated list classes**: the checks of index and count that they make in Java come
  before the native ones, which are modelled.
- **The native library and the base classes** of the pipeline, the flow data, the
  update service and the translation: outside the repository. What is assumed of
  them stands with each module above.
- **Of the wrappers**: the byte arrays copied with malloc (CPP:24567, 25275-25378) are
  passed to the library, which owns them or not; and numeric conversions of results,
  such as a weight narrowed to a short (CPP:548-576). Exceptions that no wrapper
  catches are modelled (`CrashIsExplained`).
- Formatting, logging, exception texts and the conversion of values to Java types.
