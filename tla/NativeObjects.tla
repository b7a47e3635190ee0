--------------------------- MODULE NativeObjects ---------------------------
(***************************************************************************)
(* Who deletes a native object.  Java code reaches native memory through   *)
(* proxies; a proxy holds an address and whether it owns the object there. *)
(* It is deleted by an explicit close, or by its finalizer once no code    *)
(* holds it, in a thread of the JVM's own and at a time of its choosing.   *)
(*                                                                         *)
(* A task is one of the pieces of Java code that juggle several proxies:   *)
(*   plain, text  populateWeightedValues of IPIntelligenceDataHashDefault, *)
(*                for elements that hold a number or a nested byte string  *)
(*   profile      ProfileMetaDataIPI.getValues(propertyName)               *)
(*   config       reaching the collection settings of a configuration      *)
(* Tasks share no proxies, so one task and the finalizer thread are all    *)
(* that can interfere.  What a proxy owns is taken from NativeApi.         *)
(***************************************************************************)
EXTENDS Naturals, FiniteSets, NativeApi

CONSTANTS
  Size,            \* elements of a list, values of a profile
  CollectionsUsed  \* the getters of ConfigIpiSwig that are called

ASSUME SizeAssumption == Size \in Nat
ASSUME CollectionsAssumption == CollectionsUsed \subseteq DOMAIN ConfigCollections

\* What the tasks need of the interface: proxies of objects made for the
\* caller own them, and the proxy of an element does not.
Ownership ==
  /\ ResultsIpiSwig["getValuesAsWeightedBoolList0"].owned = TRUE
  /\ WeightedBoolListValueSwig["getValue"].owned = TRUE
  /\ WeightedBoolListSwig["doGet"].owned = FALSE
  /\ WeightedValueUTF8StringSwig["getValue"].owned = TRUE
  /\ MetaDataSwig["getValuesForProfile"].owned = TRUE
  /\ ValueMetaDataCollectionSwig["getByIndex"].owned = TRUE
  /\ MetaDataSwig["getPropertyForValue"].owned = TRUE
  /\ ConfigProfiles["new"].owned = TRUE

\* Proxies of the parts of a configuration do not own them.
OnlyBorrowed == \A g \in CollectionsUsed : ConfigIpiSwig[g].owned = FALSE

VARIABLES
  task,     \* the piece of code that runs
  pc,       \* its next step
  i,        \* the element or value it is at
  failed,   \* an exception is on its way out
  live,     \* whole native objects that are allocated
  broken,   \* addresses deleted that are no whole live object
  proxies   \* address -> what the proxy made for it knows

vars == <<task, pc, i, failed, live, broken, proxies>>

\* An address: the name of the object and the index it was made for.
Value == <<"value", 0>>           List      == <<"list", 0>>
Element(n) == <<"element", n>>    Text(n)   == <<"text", n>>
Values == <<"values", 0>>         Config    == <<"config", 0>>
Item(n) == <<"item", n>>          Property(n) == <<"property", n>>
Part(g) == <<"part", g>>

Names == {"value", "list", "element", "text", "values", "config", "item",
          "property", "part"}
Tasks == {"plain", "text", "profile", "config"}

\* The classes whose proxies have a finalizer.
Finalizable == {"element", "values", "item", "property", "part", "config"}

Weighted == {"plain", "text"}

\* What a proxy knows: whether it still has the address, whether it owns the
\* object there; and whether any code holds the proxy.
Proxy(owns) == [ptr |-> TRUE, owns |-> owns, held |-> TRUE]
Cleared     == [ptr |-> FALSE, owns |-> FALSE, held |-> FALSE]

With(o, p) ==
  [a \in DOMAIN proxies \cup {o} |-> IF a = o THEN p ELSE proxies[a]]

\* The proxies after code lets go of those in a set.
LetGo(gone) ==
  [a \in DOMAIN proxies |->
     IF a \in gone THEN [proxies[a] EXCEPT !.held = FALSE] ELSE proxies[a]]

Init ==
  /\ task \in Tasks
  /\ pc = "start" /\ i = 1 /\ failed = FALSE
  /\ live = IF task = "config" THEN {Config} ELSE {}
  /\ broken = {}
  /\ proxies = IF task = "config"
               THEN [a \in {Config} |-> Proxy(ConfigProfiles["new"].owned)]
               ELSE <<>>

-----------------------------------------------------------------------------
(* The proxies.                                                            *)

\* Mutant: the proxy of a new object does not own it.
MakeUnowned(o, signature) ==
  /\ live' = live \cup {o}
  /\ proxies' = With(o, Proxy(FALSE))
  /\ UNCHANGED broken

\* Native code makes an object and its proxy is created.
Make(o, signature) ==
  /\ live' = live \cup {o}
  /\ proxies' = With(o, Proxy(signature.owned))
  /\ UNCHANGED broken

\* A proxy is made for a part of an object.
Borrow(o, signature) ==
  /\ proxies' = With(o, Proxy(signature.owned))
  /\ UNCHANGED <<live, broken>>

\* Mutant: delete() does not forget that it owned the object.
DeleteAndKeep(o) ==
  /\ proxies' = LetGo({o})
  /\ IF proxies[o].owns
     THEN /\ live' = live \ {o}
          /\ broken' = IF o \in live THEN broken ELSE broken \cup {o}
     ELSE UNCHANGED <<live, broken>>

\* delete() of a proxy: nothing happens a second time.  Code that deletes a
\* proxy does not use it again.
Delete(o) ==
  /\ proxies' = [proxies EXCEPT ![o] = Cleared]
  /\ IF proxies[o].ptr /\ proxies[o].owns
     THEN /\ live' = live \ {o}
          /\ broken' = IF o \in live THEN broken ELSE broken \cup {o}
     ELSE UNCHANGED <<live, broken>>

\* The finalizer thread comes to a proxy that no code holds.
Finalize(o) ==
  /\ ~proxies[o].held /\ proxies[o].ptr
  /\ o[1] \in Finalizable
  /\ Delete(o)
  /\ UNCHANGED <<task, pc, i, failed>>

Memory == <<live, broken, proxies>>

-----------------------------------------------------------------------------
(* populateWeightedValues.  Each native call may throw, and each resource  *)
(* is closed on the way out whether or not one did.                        *)

\* A step of the task from one place to the next.
Step(tasks, from, to) ==
  /\ task \in tasks /\ pc = from /\ pc' = to
  /\ UNCHANGED task

\* An exception: on to the innermost resource that is open.
Throws(tasks, from, handler) ==
  /\ Step(tasks, from, handler)
  /\ failed' = TRUE
  /\ UNCHANGED <<i, Memory>>

SupplyValue ==
  \/ /\ Step(Weighted, "start", "hasValue")
     /\ Make(Value, ResultsIpiSwig["getValuesAsWeightedBoolList0"])
     /\ UNCHANGED <<i, failed>>
  \/ Throws(Weighted, "start", "done")

HasValue ==
  \/ /\ Step(Weighted, "hasValue", "extract") \/ Step(Weighted, "hasValue", "message")
     /\ UNCHANGED <<i, failed, Memory>>
  \/ Throws(Weighted, "hasValue", "closeValue")

NoValueMessage ==
  \/ Step(Weighted, "message", "closeValue") /\ UNCHANGED <<i, failed, Memory>>
  \/ Throws(Weighted, "message", "closeValue")

\* Mutant: the value is closed as soon as its list has been taken from it,
\* and the list with it, before the stream of its elements is collected.
ExtractListTooBriefly ==
  /\ Step(Weighted, "extract", "elements")
  /\ proxies' = With(List, Cleared)
  /\ UNCHANGED <<i, failed, live, broken>>

ExtractList ==
  \/ /\ Step(Weighted, "extract", "elements")
     /\ Make(List, WeightedBoolListValueSwig["getValue"])
     /\ UNCHANGED <<i, failed>>
  \/ Throws(Weighted, "extract", "closeValue")

\* Mutant: one element too many.
NextElementOneMore ==
  \/ /\ i <= Size + 1
     /\ \/ Step({"plain"}, "elements", "read")
        \/ Step({"text"}, "elements", "nested")
     /\ Borrow(Element(i), WeightedBoolListSwig["doGet"])
     /\ UNCHANGED <<i, failed>>
  \/ /\ i > Size
     /\ Step(Weighted, "elements", "closeList")
     /\ UNCHANGED <<i, failed, Memory>>

\* The stream asks the list for its next element.
NextElement ==
  \/ /\ i <= Size
     /\ \/ Step({"plain"}, "elements", "read")
        \/ Step({"text"}, "elements", "nested")
     /\ Borrow(Element(i), WeightedBoolListSwig["doGet"])
     /\ UNCHANGED <<i, failed>>
  \/ /\ i > Size
     /\ Step(Weighted, "elements", "closeList")
     /\ UNCHANGED <<i, failed, Memory>>
  \/ Throws(Weighted, "elements", "closeList")

\* The weight and, of a plain element, the value.
ReadElement ==
  \/ /\ Step(Weighted, "read", "elements")
     /\ i' = i + 1
     /\ proxies' = LetGo({Element(i)})
     /\ UNCHANGED <<failed, live, broken>>
  \/ /\ Step(Weighted, "read", "closeList")
     /\ failed' = TRUE
     /\ proxies' = LetGo({Element(i)})
     /\ UNCHANGED <<i, live, broken>>

OpenText ==
  \/ /\ Step({"text"}, "nested", "chars")
     /\ Make(Text(i), WeightedValueUTF8StringSwig["getValue"])
     /\ UNCHANGED <<i, failed>>
  \/ /\ Step({"text"}, "nested", "closeList")
     /\ failed' = TRUE
     /\ proxies' = LetGo({Element(i)})
     /\ UNCHANGED <<i, live, broken>>

ReadChars ==
  \/ Step({"text"}, "chars", "closeText") /\ UNCHANGED <<i, failed, Memory>>
  \/ Throws({"text"}, "chars", "closeText")

\* Mutant: the string is only closed when its bytes could be read.
CloseTextUnlessFailed ==
  /\ Step({"text"}, "closeText", IF failed THEN "closeList" ELSE "read")
  /\ IF failed
     THEN proxies' = LetGo({Element(i), Text(i)}) /\ UNCHANGED <<live, broken>>
     ELSE Delete(Text(i))
  /\ UNCHANGED <<i, failed>>

CloseText ==
  /\ Step({"text"}, "closeText", IF failed THEN "closeList" ELSE "read")
  /\ Delete(Text(i))
  /\ UNCHANGED <<i, failed>>

CloseList ==
  /\ Step(Weighted, "closeList", "closeValue")
  /\ Delete(List)
  /\ UNCHANGED <<i, failed>>

CloseValue ==
  /\ Step(Weighted, "closeValue", "done")
  /\ Delete(Value)
  /\ UNCHANGED <<i, failed>>

PopulateWeightedValues ==
  \/ SupplyValue \/ HasValue \/ NoValueMessage \/ ExtractList \/ NextElement
  \/ ReadElement \/ OpenText \/ ReadChars \/ CloseText \/ CloseList
  \/ CloseValue

-----------------------------------------------------------------------------
(* ProfileMetaDataIPI.getValues(propertyName): nothing is closed when a    *)
(* call throws, every proxy is left to its finalizer.                      *)

Abandon(from) ==
  /\ Step({"profile"}, from, "done")
  /\ failed' = TRUE
  /\ proxies' = LetGo(DOMAIN proxies)
  /\ UNCHANGED <<i, live, broken>>

OpenValues ==
  \/ /\ Step({"profile"}, "start", "items")
     /\ Make(Values, MetaDataSwig["getValuesForProfile"])
     /\ UNCHANGED <<i, failed>>
  \/ Abandon("start")

NextItem ==
  \/ /\ i <= Size /\ Step({"profile"}, "items", "property")
     /\ Make(Item(i), ValueMetaDataCollectionSwig["getByIndex"])
     /\ UNCHANGED <<i, failed>>
  \/ /\ i > Size /\ Step({"profile"}, "items", "returned")
     /\ Delete(Values)
     /\ UNCHANGED <<i, failed>>
  \/ Abandon("items")

PropertyForValue ==
  \/ /\ Step({"profile"}, "property", "compare")
     /\ Make(Property(i), MetaDataSwig["getPropertyForValue"])
     /\ UNCHANGED <<i, failed>>
  \/ Abandon("property")

\* Values of other properties are deleted at once.
CompareName ==
  \/ Step({"profile"}, "compare", "closeProperty")
     /\ UNCHANGED <<i, failed, Memory>>
  \/ /\ Step({"profile"}, "compare", "closeProperty")
     /\ Delete(Item(i))
     /\ UNCHANGED <<i, failed>>
  \/ Abandon("compare")

CloseProperty ==
  /\ Step({"profile"}, "closeProperty", "items")
  /\ Delete(Property(i))
  /\ i' = i + 1
  /\ UNCHANGED failed

\* The caller closes a value it was handed, or forgets about it.
CloseItem ==
  \E n \in 1 .. Size :
    /\ task = "profile" /\ pc = "returned"
    /\ Item(n) \in DOMAIN proxies /\ proxies[Item(n)].held
    /\ \/ Delete(Item(n))
       \/ proxies' = LetGo({Item(n)}) /\ UNCHANGED <<live, broken>>
    /\ UNCHANGED <<task, pc, i, failed>>

ProfileValues ==
  OpenValues \/ NextItem \/ PropertyForValue \/ CompareName \/ CloseProperty
    \/ CloseItem

-----------------------------------------------------------------------------
(* Collection settings.                                                    *)

\* The address of a part of the configuration.  The model follows one proxy
\* of a part at a time.
UseCollection(g) ==
  /\ task = "config" /\ pc = "start"
  /\ Part(g) \in DOMAIN proxies => ~proxies[Part(g)].ptr
  /\ Borrow(Part(g), ConfigIpiSwig[g])
  /\ UNCHANGED <<task, pc, i, failed>>

ForgetCollection(g) ==
  /\ task = "config" /\ pc = "start"
  /\ Part(g) \in DOMAIN proxies /\ proxies[Part(g)].held
  /\ proxies' = LetGo({Part(g)})
  /\ UNCHANGED <<task, pc, i, failed, live, broken>>

\* The engine closes its configuration.
CloseConfig ==
  /\ Step({"config"}, "start", "done")
  /\ Delete(Config)
  /\ UNCHANGED <<i, failed>>

ConfigSettings ==
  \/ \E g \in CollectionsUsed : UseCollection(g) \/ ForgetCollection(g)
  \/ CloseConfig

-----------------------------------------------------------------------------
Next ==
  \/ PopulateWeightedValues
  \/ ProfileValues
  \/ ConfigSettings
  \/ \E o \in DOMAIN proxies : Finalize(o)

Spec == Init /\ [][Next]_vars

-----------------------------------------------------------------------------
TypeOK ==
  /\ task \in Tasks
  /\ i \in 1 .. Size + 1
  /\ failed \in BOOLEAN
  /\ \A o \in live \cup broken : o[1] \in Names
  /\ \A o \in DOMAIN proxies :
       proxies[o] \in [ptr : BOOLEAN, owns : BOOLEAN, held : BOOLEAN]

\* No object is deleted twice, and no part of an object is deleted as if it
\* were one, whatever the code and the finalizer thread do in what order.
OnlyLiveObjectsAreDeleted == broken = {}

\* Every object that is still allocated has an owner that will delete it: a
\* proxy in the hands of code, or one with a finalizer.  Without one it would
\* leak, whichever call threw.
EveryObjectHasAnOwner ==
  \A o \in live :
    /\ o \in DOMAIN proxies /\ proxies[o].ptr /\ proxies[o].owns
    /\ proxies[o].held \/ o[1] \in Finalizable

\* A getter leaves nothing allocated behind.
GettersCleanUp == pc = "done" /\ task \in Weighted => live = {}

\* An element is an address inside its list: while code reads one, or the
\* string in it, the list and the value it came from have not been deleted.
ElementsAreReadAlive ==
  pc \in {"read", "nested", "chars", "closeText"} => {Value, List} \subseteq live

=============================================================================
