------------------------ MODULE NativeObjectsProofs ------------------------
(***************************************************************************)
(* The properties of the code that juggles native proxies, for lists and   *)
(* profiles of any size, whatever call throws and whenever finalizers run. *)
(* What the native interface must be like is stated as a condition         *)
(* (Ownership, OnlyBorrowed).                                              *)
(***************************************************************************)
EXTENDS NativeObjects, TLAPS

-----------------------------------------------------------------------------
(* The inductive invariants.                                               *)

\* The kinds of proxies that only borrow.
Borrowing == {"element", "part"}

Owned == {o \in DOMAIN proxies : proxies[o].ptr /\ proxies[o].owns}

\* The objects that are allocated are those that a proxy owns, and the proxy
\* can still delete them.  This does not depend on where the task is.
MemoryInv ==
  /\ broken = {}
  /\ proxies \in [DOMAIN proxies ->
                    [ptr : BOOLEAN, owns : BOOLEAN, held : BOOLEAN]]
  /\ \A o \in DOMAIN proxies : o[1] \in Names
  /\ live = Owned
  /\ \A o \in live :
       /\ o[1] \notin Borrowing
       /\ proxies[o].held \/ o[1] \in Finalizable

\* Where each task may be, and how far it has come.
PlaceInv ==
  /\ task \in Tasks
  /\ failed \in BOOLEAN
  /\ i \in 1 .. Size + 1
  /\ pc \in {"read", "nested", "chars", "closeText", "property", "compare",
             "closeProperty"} => i <= Size
  /\ task = "profile" => pc \in {"start", "items", "property", "compare",
                                  "closeProperty", "returned", "done"}
  /\ task = "config" => pc \in {"start", "done"}

\* What a task on a weighted list has allocated at each of its places.
WeightedHolds(place, element, objects) ==
  \/ place \in {"start", "done"} /\ objects = {}
  \/ place \in {"hasValue", "message", "extract", "closeValue"}
       /\ objects = {Value}
  \/ place \in {"elements", "read", "nested", "closeList"}
       /\ objects = {Value, List}
  \/ place \in {"chars", "closeText"}
       /\ objects = {Value, List, Text(element)}

\* What every task has at its places: whatever it is going to
\* delete has a proxy, and the proxies of a profile can be left to themselves.
HoldingInv ==
  /\ task \in Weighted => WeightedHolds(pc, i, live)
  /\ task = "profile" =>
       /\ \A o \in DOMAIN proxies : o[1] \in Finalizable
       /\ pc = "items" => Values \in DOMAIN proxies
       /\ pc \in {"property", "compare", "closeProperty"} =>
            {Values, Item(i)} \subseteq DOMAIN proxies
       /\ pc \in {"compare", "closeProperty"} => Property(i) \in DOMAIN proxies
  /\ task = "config" /\ pc = "start" => Config \in DOMAIN proxies

-----------------------------------------------------------------------------
(* What the operations on proxies do to the memory.                        *)

LEMMA Addresses ==
  /\ Value[1] = "value" /\ List[1] = "list"
  /\ Values[1] = "values" /\ Config[1] = "config"
  /\ \A n : /\ Element(n)[1] = "element" /\ Text(n)[1] = "text"
            /\ Item(n)[1] = "item" /\ Property(n)[1] = "property"
  /\ \A g : Part(g)[1] = "part"
BY DEF Value, List, Values, Config, Element, Text, Item, Property, Part

LEMMA MakeStep ==
  ASSUME MemoryInv, NEW o, NEW signature, signature.owned = TRUE,
         o[1] \in Names \ Borrowing, Make(o, signature)
  PROVE  MemoryInv' /\ live' = live \cup {o}
           /\ DOMAIN proxies' = DOMAIN proxies \cup {o}
<1>1. /\ DOMAIN proxies' = DOMAIN proxies \cup {o}
      /\ proxies'[o] = [ptr |-> TRUE, owns |-> TRUE, held |-> TRUE]
      /\ \A a \in DOMAIN proxies : a # o => proxies'[a] = proxies[a]
      /\ live' = live \cup {o} /\ broken' = {}
  BY DEF Make, With, Proxy, MemoryInv
<1>2. proxies' \in [DOMAIN proxies' ->
                      [ptr : BOOLEAN, owns : BOOLEAN, held : BOOLEAN]]
  BY DEF Make, With, Proxy, MemoryInv
<1>3. live' = Owned'
  BY <1>1 DEF MemoryInv, Owned
<1>5. \A a \in DOMAIN proxies' : a[1] \in Names
  BY <1>1 DEF MemoryInv
<1>6. \A a \in live' : /\ a[1] \notin Borrowing
                       /\ proxies'[a].held \/ a[1] \in Finalizable
  BY <1>1 DEF MemoryInv, Owned
<1> QED
  BY <1>1, <1>2, <1>3, <1>5, <1>6 DEF MemoryInv

LEMMA BorrowStep ==
  ASSUME MemoryInv, NEW o, NEW signature, signature.owned = FALSE,
         o[1] \in Borrowing, Borrow(o, signature)
  PROVE  MemoryInv' /\ live' = live
           /\ DOMAIN proxies' = DOMAIN proxies \cup {o}
<1>1. /\ DOMAIN proxies' = DOMAIN proxies \cup {o}
      /\ proxies'[o] = [ptr |-> TRUE, owns |-> FALSE, held |-> TRUE]
      /\ \A a \in DOMAIN proxies : a # o => proxies'[a] = proxies[a]
      /\ live' = live /\ broken' = {}
  BY DEF Borrow, With, Proxy, MemoryInv
<1>2. proxies' \in [DOMAIN proxies' ->
                      [ptr : BOOLEAN, owns : BOOLEAN, held : BOOLEAN]]
  BY DEF Borrow, With, Proxy, MemoryInv
<1>3. o \notin live /\ o[1] \in Names
  BY DEF MemoryInv, Borrowing, Names
<1>4. live' = Owned'
  BY <1>1, <1>3 DEF MemoryInv, Owned
<1>5. \A a \in DOMAIN proxies' : a[1] \in Names
  BY <1>1, <1>3 DEF MemoryInv
<1>6. \A a \in live' : /\ a[1] \notin Borrowing
                       /\ proxies'[a].held \/ a[1] \in Finalizable
  BY <1>1, <1>3 DEF MemoryInv, Owned
<1> QED
  BY <1>1, <1>2, <1>3, <1>4, <1>5, <1>6 DEF MemoryInv

LEMMA DeleteStep ==
  ASSUME MemoryInv, NEW o \in DOMAIN proxies, Delete(o)
  PROVE  MemoryInv' /\ live' = live \ {o}
           /\ DOMAIN proxies' = DOMAIN proxies
<1>1. /\ DOMAIN proxies' = DOMAIN proxies
      /\ proxies'[o] = [ptr |-> FALSE, owns |-> FALSE, held |-> FALSE]
      /\ \A a \in DOMAIN proxies : a # o => proxies'[a] = proxies[a]
  BY DEF Delete, Cleared, MemoryInv
<1>2. proxies' \in [DOMAIN proxies' ->
                      [ptr : BOOLEAN, owns : BOOLEAN, held : BOOLEAN]]
  BY DEF Delete, Cleared, MemoryInv
<1>3. live' = live \ {o} /\ broken' = {}
  BY DEF Delete, MemoryInv, Owned
<1>4. live' = Owned'
  BY <1>1, <1>3 DEF MemoryInv, Owned
<1>5. \A a \in DOMAIN proxies' : a[1] \in Names
  BY <1>1, <1>3 DEF MemoryInv
<1>6. \A a \in live' : /\ a[1] \notin Borrowing
                       /\ proxies'[a].held \/ a[1] \in Finalizable
  BY <1>1, <1>3 DEF MemoryInv, Owned
<1> QED
  BY <1>1, <1>2, <1>3, <1>4, <1>5, <1>6 DEF MemoryInv

LEMMA LetGoStep ==
  ASSUME MemoryInv, NEW gone, proxies' = LetGo(gone),
         UNCHANGED <<live, broken>>,
         \A o \in gone \cap live : o[1] \in Finalizable
  PROVE  MemoryInv' /\ DOMAIN proxies' = DOMAIN proxies
<1>1. /\ DOMAIN proxies' = DOMAIN proxies
      /\ \A a \in DOMAIN proxies :
           /\ proxies'[a].ptr = proxies[a].ptr
           /\ proxies'[a].owns = proxies[a].owns
           /\ a \notin gone => proxies'[a].held = proxies[a].held
  BY DEF LetGo, MemoryInv
<1>2. proxies' \in [DOMAIN proxies' ->
                      [ptr : BOOLEAN, owns : BOOLEAN, held : BOOLEAN]]
  BY DEF LetGo, MemoryInv
<1>3. live' = Owned'
  BY <1>1 DEF MemoryInv, Owned
<1>5. \A a \in DOMAIN proxies' : a[1] \in Names
  BY <1>1 DEF MemoryInv
<1>6. \A a \in live' : /\ a[1] \notin Borrowing
                       /\ proxies'[a].held \/ a[1] \in Finalizable
  BY <1>1 DEF MemoryInv, Owned
<1> QED
  BY <1>1, <1>2, <1>3, <1>5, <1>6 DEF MemoryInv

-----------------------------------------------------------------------------
(* Every step of a task keeps the invariants.                              *)

IInv == MemoryInv /\ PlaceInv /\ HoldingInv

\* Steps that change no proxy.
LEMMA MemoryUnchanged ==
  MemoryInv /\ UNCHANGED Memory => MemoryInv'
BY DEF MemoryInv, Owned, Memory

LEMMA InitIInv == ASSUME Ownership PROVE Init => IInv
<1> SUFFICES ASSUME Init PROVE IInv
  OBVIOUS
<1>1. PlaceInv
  <2>1. task \in Tasks /\ pc = "start" /\ i = 1 /\ failed = FALSE
    BY DEF Init
  <2>2. 1 \in 1 .. Size + 1
    BY SizeAssumption
  <2> QED
    BY <2>1, <2>2 DEF PlaceInv
<1>2. CASE task = "config"
  <2>1. /\ DOMAIN proxies = {Config} /\ live = {Config} /\ broken = {}
        /\ proxies[Config] = [ptr |-> TRUE, owns |-> TRUE, held |-> TRUE]
        /\ proxies \in [{Config} -> [ptr : BOOLEAN, owns : BOOLEAN,
                                     held : BOOLEAN]]
    BY <1>2 DEF Init, Proxy, Ownership
  <2>2. MemoryInv
    BY <2>1, Addresses DEF MemoryInv, Owned, Names, Borrowing, Finalizable
  <2>3. HoldingInv
    BY <1>2, <2>1 DEF HoldingInv, Weighted
  <2> QED
    BY <1>1, <2>2, <2>3 DEF IInv
<1>3. CASE task # "config"
  <2>1. proxies = <<>> /\ live = {} /\ broken = {} /\ pc = "start"
    BY <1>3 DEF Init
  <2>2. DOMAIN <<>> = {}
    OBVIOUS
  <2>3. <<>> \in [{} -> [ptr : BOOLEAN, owns : BOOLEAN, held : BOOLEAN]]
    OBVIOUS
  <2>4. MemoryInv
    BY <2>1, <2>2, <2>3 DEF MemoryInv, Owned
  <2>5. HoldingInv
    BY <1>3, <2>1, <2>2 DEF HoldingInv, WeightedHolds
  <2> QED
    BY <1>1, <2>4, <2>5 DEF IInv
<1> QED
  BY <1>2, <1>3

LEMMA LiveAreProxied ==
  MemoryInv => \A o \in live : o \in DOMAIN proxies
BY DEF MemoryInv, Owned

LEMMA DistinctObjects ==
  /\ Value # List
  /\ \A n : Text(n) # Value /\ Text(n) # List
BY Addresses

LEMMA WeightedBefore ==
  ASSUME PlaceInv, HoldingInv, task \in Weighted
  PROVE  /\ WeightedHolds(pc, i, live) /\ i \in 1 .. Size + 1
         /\ task \in Tasks /\ failed \in BOOLEAN
         /\ pc \in {"read", "nested", "chars", "closeText"} => i <= Size
BY DEF PlaceInv, HoldingInv

LEMMA WeightedAfter ==
  ASSUME task' = task, task \in Weighted, task \in Tasks, failed' \in BOOLEAN,
         i' \in 1 .. Size + 1, WeightedHolds(pc', i', live'),
         pc' \in {"read", "nested", "chars", "closeText"} => i' <= Size
  PROVE  PlaceInv' /\ HoldingInv'
<1>1. task' \notin {"profile", "config"}
  BY DEF Weighted
<1>2. pc' \notin {"property", "compare", "closeProperty"}
  BY DEF WeightedHolds
<1>3. PlaceInv'
  BY <1>1, <1>2 DEF PlaceInv
<1>4. HoldingInv'
  BY <1>1 DEF HoldingInv
<1> QED
  BY <1>3, <1>4

\* A native call that throws changes nothing but the place and the failure.
LEMMA ThrowsStep ==
  ASSUME IInv, NEW from, NEW handler, Throws(Weighted, from, handler),
         WeightedHolds(handler, i, live), handler \notin {"read", "nested"},
         handler = "closeText" => i <= Size, handler # "chars"
  PROVE  IInv'
<1>1. task \in Weighted /\ task' = task /\ pc' = handler /\ failed' = TRUE
        /\ i' = i /\ UNCHANGED Memory
  BY DEF Throws, Step
<1>2. MemoryInv'
  BY <1>1, MemoryUnchanged DEF IInv
<1>3. live' = live
  BY <1>1 DEF Memory
<1>4. PlaceInv' /\ HoldingInv'
  BY <1>1, <1>3, WeightedBefore, WeightedAfter DEF IInv
<1> QED
  BY <1>2, <1>4 DEF IInv

LEMMA PopulateStep ==
  ASSUME Ownership, IInv, PopulateWeightedValues PROVE IInv'
<1>0. /\ task \in Weighted /\ task' = task /\ Size \in Nat
      /\ WeightedHolds(pc, i, live) /\ i \in 1 .. Size + 1
      /\ task \in Tasks /\ failed \in BOOLEAN
      /\ pc \in {"read", "nested", "chars", "closeText"} => i <= Size
      /\ MemoryInv
  <2>1. task \in Weighted /\ task' = task
    BY DEF PopulateWeightedValues, SupplyValue, HasValue, NoValueMessage,
       ExtractList, NextElement, ReadElement, OpenText, ReadChars, CloseText,
       CloseList, CloseValue, Throws, Step, Weighted
  <2> QED
    BY <2>1, WeightedBefore, SizeAssumption DEF IInv
<1>1. CASE SupplyValue
  <2>1. CASE Throws(Weighted, "start", "done")
    <3>1. live = {}
      BY <1>0, <2>1 DEF Throws, Step, WeightedHolds
    <3> QED
      BY <2>1, <3>1, ThrowsStep DEF WeightedHolds
  <2>2. CASE Step(Weighted, "start", "hasValue") /\ UNCHANGED <<i, failed>>
               /\ Make(Value, ResultsIpiSwig["getValuesAsWeightedBoolList0"])
    <3>1. MemoryInv' /\ live' = live \cup {Value}
      BY <1>0, <2>2, MakeStep, Addresses DEF Names, Borrowing, Ownership
    <3>2. WeightedHolds(pc', i', live')
      BY <1>0, <2>2, <3>1 DEF Step, WeightedHolds
    <3> QED
      BY <1>0, <2>2, <3>1, <3>2, WeightedAfter DEF Step, IInv
  <2> QED
    BY <1>1, <2>1, <2>2 DEF SupplyValue
<1>2. CASE HasValue
  <2>1. CASE Throws(Weighted, "hasValue", "closeValue")
    <3>1. live = {Value}
      BY <1>0, <2>1 DEF Throws, Step, WeightedHolds
    <3> QED
      BY <2>1, <3>1, ThrowsStep DEF WeightedHolds
  <2>2. CASE /\ \/ Step(Weighted, "hasValue", "extract")
                \/ Step(Weighted, "hasValue", "message")
             /\ UNCHANGED <<i, failed, Memory>>
    <3>1. WeightedHolds(pc', i', live') /\ MemoryInv'
      BY <1>0, <2>2, MemoryUnchanged DEF Step, WeightedHolds, Memory
    <3> QED
      BY <1>0, <2>2, <3>1, WeightedAfter DEF Step, IInv
  <2> QED
    BY <1>2, <2>1, <2>2 DEF HasValue
<1>3. CASE NoValueMessage
  <2>1. WeightedHolds(pc', i', live') /\ MemoryInv' /\ i' = i
          /\ failed' \in BOOLEAN /\ pc' = "closeValue"
    BY <1>0, <1>3, MemoryUnchanged
       DEF NoValueMessage, Throws, Step, WeightedHolds, Memory
  <2> QED
    BY <1>0, <2>1, WeightedAfter DEF IInv
<1>4. CASE ExtractList
  <2>1. CASE Throws(Weighted, "extract", "closeValue")
    <3>1. live = {Value}
      BY <1>0, <2>1 DEF Throws, Step, WeightedHolds
    <3> QED
      BY <2>1, <3>1, ThrowsStep DEF WeightedHolds
  <2>2. CASE Step(Weighted, "extract", "elements") /\ UNCHANGED <<i, failed>>
               /\ Make(List, WeightedBoolListValueSwig["getValue"])
    <3>1. MemoryInv' /\ live' = live \cup {List}
      BY <1>0, <2>2, MakeStep, Addresses DEF Names, Borrowing, Ownership
    <3>2. WeightedHolds(pc', i', live')
      BY <1>0, <2>2, <3>1 DEF Step, WeightedHolds
    <3> QED
      BY <1>0, <2>2, <3>1, <3>2, WeightedAfter DEF Step, IInv
  <2> QED
    BY <1>4, <2>1, <2>2 DEF ExtractList
<1>5. CASE NextElement
  <2>1. CASE Throws(Weighted, "elements", "closeList")
    <3>1. live = {Value, List}
      BY <1>0, <2>1 DEF Throws, Step, WeightedHolds
    <3> QED
      BY <2>1, <3>1, ThrowsStep DEF WeightedHolds
  <2>2. CASE /\ i <= Size /\ UNCHANGED <<i, failed>>
             /\ \/ Step({"plain"}, "elements", "read")
                \/ Step({"text"}, "elements", "nested")
             /\ Borrow(Element(i), WeightedBoolListSwig["doGet"])
    <3>1. MemoryInv' /\ live' = live
      BY <1>0, <2>2, BorrowStep, Addresses DEF Borrowing, Ownership
    <3>2. WeightedHolds(pc', i', live')
      BY <1>0, <2>2, <3>1 DEF Step, WeightedHolds
    <3> QED
      BY <1>0, <2>2, <3>1, <3>2, WeightedAfter DEF IInv
  <2>3. CASE i > Size /\ Step(Weighted, "elements", "closeList")
               /\ UNCHANGED <<i, failed, Memory>>
    <3>1. WeightedHolds(pc', i', live') /\ MemoryInv'
      BY <1>0, <2>3, MemoryUnchanged DEF Step, WeightedHolds, Memory
    <3> QED
      BY <1>0, <2>3, <3>1, WeightedAfter DEF Step, IInv
  <2> QED
    BY <1>5, <2>1, <2>2, <2>3 DEF NextElement
<1>6. CASE ReadElement \/ (OpenText /\ pc' = "closeList")
  <2>1. /\ proxies' = LetGo({Element(i)}) /\ UNCHANGED <<live, broken>>
        /\ pc \in {"read", "nested"} /\ pc' \in {"elements", "closeList"}
        /\ i' \in {i, i + 1} /\ failed' \in BOOLEAN
    BY <1>0, <1>6 DEF ReadElement, OpenText, Step
  <2>2. MemoryInv'
    BY <1>0, <2>1, LetGoStep, Addresses DEF Finalizable
  <2>3. WeightedHolds(pc', i', live') /\ i' \in 1 .. Size + 1
    BY <1>0, <2>1 DEF WeightedHolds
  <2> QED
    BY <1>0, <2>1, <2>2, <2>3, WeightedAfter DEF IInv
<1>7. CASE OpenText /\ pc' # "closeList"
  <2>1. Step({"text"}, "nested", "chars") /\ UNCHANGED <<i, failed>>
          /\ Make(Text(i), WeightedValueUTF8StringSwig["getValue"])
    BY <1>7 DEF OpenText, Step
  <2>2. MemoryInv' /\ live' = live \cup {Text(i)}
    BY <1>0, <2>1, MakeStep, Addresses DEF Names, Borrowing, Ownership
  <2>3. WeightedHolds(pc', i', live')
    BY <1>0, <2>1, <2>2 DEF Step, WeightedHolds
  <2> QED
    BY <1>0, <2>1, <2>2, <2>3, WeightedAfter DEF Step, IInv
<1>8. CASE ReadChars
  <2>1. WeightedHolds(pc', i', live') /\ MemoryInv' /\ i' = i
          /\ failed' \in BOOLEAN /\ i <= Size
    BY <1>0, <1>8, MemoryUnchanged
       DEF ReadChars, Throws, Step, WeightedHolds, Memory
  <2> QED
    BY <1>0, <2>1, WeightedAfter DEF IInv
<1>9. CASE CloseText
  <2>1. /\ live = {Value, List, Text(i)} /\ Delete(Text(i)) /\ i' = i
        /\ pc' \in {"closeList", "read"} /\ failed' = failed /\ i <= Size
    BY <1>0, <1>9 DEF CloseText, Step, WeightedHolds
  <2>2. MemoryInv' /\ live' = live \ {Text(i)}
    BY <1>0, <2>1, DeleteStep, LiveAreProxied
  <2>3. WeightedHolds(pc', i', live')
    BY <2>1, <2>2, DistinctObjects DEF WeightedHolds
  <2> QED
    BY <1>0, <2>1, <2>2, <2>3, WeightedAfter DEF IInv
<1>10. CASE CloseList
  <2>1. /\ live = {Value, List} /\ Delete(List) /\ i' = i
        /\ pc' = "closeValue" /\ failed' = failed
    BY <1>0, <1>10 DEF CloseList, Step, WeightedHolds
  <2>2. MemoryInv' /\ live' = live \ {List}
    BY <1>0, <2>1, DeleteStep, LiveAreProxied
  <2>3. WeightedHolds(pc', i', live')
    BY <2>1, <2>2, DistinctObjects DEF WeightedHolds
  <2> QED
    BY <1>0, <2>1, <2>2, <2>3, WeightedAfter DEF IInv
<1>11. CASE CloseValue
  <2>1. /\ live = {Value} /\ Delete(Value) /\ i' = i
        /\ pc' = "done" /\ failed' = failed
    BY <1>0, <1>11 DEF CloseValue, Step, WeightedHolds
  <2>2. MemoryInv' /\ live' = live \ {Value}
    BY <1>0, <2>1, DeleteStep, LiveAreProxied
  <2>3. WeightedHolds(pc', i', live')
    BY <2>1, <2>2 DEF WeightedHolds
  <2> QED
    BY <1>0, <2>1, <2>2, <2>3, WeightedAfter DEF IInv
<1> QED
  BY <1>1, <1>2, <1>3, <1>4, <1>5, <1>6, <1>7, <1>8, <1>9, <1>10, <1>11
     DEF PopulateWeightedValues

\* A step of the profile's task that makes or deletes one object, or none.
LEMMA ProfileAfter ==
  ASSUME PlaceInv, HoldingInv, task = "profile", task' = task,
         failed' \in BOOLEAN, i' \in 1 .. Size + 1,
         DOMAIN proxies \subseteq DOMAIN proxies',
         \A o \in DOMAIN proxies' \ DOMAIN proxies : o[1] \in Finalizable,
         \/ pc' \in {"items", "returned", "done"}
         \/ /\ pc' \in {"property", "compare", "closeProperty"}
            /\ i' <= Size /\ Item(i') \in DOMAIN proxies'
            /\ pc' # "property" => Property(i') \in DOMAIN proxies',
         pc' \in {"items", "property", "compare", "closeProperty"} =>
           Values \in DOMAIN proxies'
  PROVE  PlaceInv' /\ HoldingInv'
<1>1. PlaceInv'
  BY DEF PlaceInv
<1>2. HoldingInv'
  BY DEF HoldingInv, Weighted
<1> QED
  BY <1>1, <1>2

LEMMA ProfileStep ==
  ASSUME Ownership, IInv, ProfileValues PROVE IInv'
<1>0. /\ task = "profile" /\ task' = task /\ Size \in Nat
      /\ i \in 1 .. Size + 1 /\ failed \in BOOLEAN
      /\ MemoryInv /\ PlaceInv /\ HoldingInv
      /\ pc \in {"items", "property", "compare", "closeProperty"} =>
           Values \in DOMAIN proxies
      /\ pc \in {"property", "compare", "closeProperty"} =>
           i <= Size /\ Item(i) \in DOMAIN proxies
      /\ pc \in {"compare", "closeProperty"} => Property(i) \in DOMAIN proxies
      /\ \A o \in DOMAIN proxies : o[1] \in Finalizable
  <2>1. task = "profile" /\ task' = task
    BY DEF ProfileValues, OpenValues, NextItem, PropertyForValue, CompareName,
       CloseProperty, CloseItem, Abandon, Step
  <2> QED
    BY <2>1, SizeAssumption DEF IInv, PlaceInv, HoldingInv
<1>1. ASSUME NEW from, Abandon(from) PROVE IInv'
  <2>1. /\ pc' = "done" /\ failed' = TRUE /\ i' = i
        /\ proxies' = LetGo(DOMAIN proxies) /\ UNCHANGED <<live, broken>>
    BY <1>1 DEF Abandon, Step
  <2>2. MemoryInv' /\ DOMAIN proxies' = DOMAIN proxies
    BY <1>0, <2>1, LetGoStep
  <2> QED
    BY <1>0, <2>1, <2>2, ProfileAfter DEF IInv
<1>2. ASSUME Step({"profile"}, "start", "items"), UNCHANGED <<i, failed>>,
             Make(Values, MetaDataSwig["getValuesForProfile"])
      PROVE  IInv'
  <2>1. MemoryInv' /\ DOMAIN proxies' = DOMAIN proxies \cup {Values}
    BY <1>0, <1>2, MakeStep, Addresses DEF Names, Borrowing, Ownership
  <2> QED
    BY <1>0, <1>2, <2>1, ProfileAfter, Addresses DEF IInv, Step, Finalizable
<1>3. ASSUME i <= Size, Step({"profile"}, "items", "property"),
             UNCHANGED <<i, failed>>,
             Make(Item(i), ValueMetaDataCollectionSwig["getByIndex"])
      PROVE  IInv'
  <2>1. MemoryInv' /\ DOMAIN proxies' = DOMAIN proxies \cup {Item(i)}
    BY <1>0, <1>3, MakeStep, Addresses DEF Names, Borrowing, Ownership
  <2> QED
    BY <1>0, <1>3, <2>1, ProfileAfter, Addresses DEF IInv, Step, Finalizable
<1>4. ASSUME Step({"profile"}, "items", "returned"), Delete(Values),
             UNCHANGED <<i, failed>>
      PROVE  IInv'
  <2>1. MemoryInv' /\ DOMAIN proxies' = DOMAIN proxies
    BY <1>0, <1>4, DeleteStep DEF Step
  <2> QED
    BY <1>0, <1>4, <2>1, ProfileAfter DEF IInv, Step
<1>5. ASSUME Step({"profile"}, "property", "compare"), UNCHANGED <<i, failed>>,
             Make(Property(i), MetaDataSwig["getPropertyForValue"])
      PROVE  IInv'
  <2>1. MemoryInv' /\ DOMAIN proxies' = DOMAIN proxies \cup {Property(i)}
    BY <1>0, <1>5, MakeStep, Addresses DEF Names, Borrowing, Ownership
  <2> QED
    BY <1>0, <1>5, <2>1, ProfileAfter, Addresses DEF IInv, Step, Finalizable
<1>6. ASSUME Step({"profile"}, "compare", "closeProperty"),
             UNCHANGED <<i, failed>>, Delete(Item(i)) \/ UNCHANGED Memory
      PROVE  IInv'
  <2>1. MemoryInv' /\ DOMAIN proxies' = DOMAIN proxies
    BY <1>0, <1>6, DeleteStep, MemoryUnchanged DEF Step, Memory
  <2> QED
    BY <1>0, <1>6, <2>1, ProfileAfter DEF IInv, Step
<1>7. CASE CloseProperty
  <2>1. /\ pc = "closeProperty" /\ pc' = "items" /\ Delete(Property(i))
        /\ i' = i + 1 /\ failed' = failed
    BY <1>7 DEF CloseProperty, Step
  <2>2. MemoryInv' /\ DOMAIN proxies' = DOMAIN proxies
    BY <1>0, <2>1, DeleteStep
  <2> QED
    BY <1>0, <2>1, <2>2, ProfileAfter DEF IInv
<1>8. ASSUME NEW n \in 1 .. Size, pc = "returned",
             Item(n) \in DOMAIN proxies,
             \/ Delete(Item(n))
             \/ proxies' = LetGo({Item(n)}) /\ UNCHANGED <<live, broken>>,
             UNCHANGED <<task, pc, i, failed>>
      PROVE  IInv'
  <2>1. MemoryInv' /\ DOMAIN proxies' = DOMAIN proxies
    BY <1>0, <1>8, DeleteStep, LetGoStep, Addresses DEF Finalizable
  <2> QED
    BY <1>0, <1>8, <2>1, ProfileAfter DEF IInv
<1>9. CASE OpenValues
  BY <1>9, <1>1, <1>2 DEF OpenValues
<1>10. CASE NextItem
  BY <1>10, <1>1, <1>3, <1>4 DEF NextItem
<1>11. CASE PropertyForValue
  BY <1>11, <1>1, <1>5 DEF PropertyForValue
<1>12. CASE CompareName
  BY <1>12, <1>1, <1>6 DEF CompareName
<1>13. CASE CloseItem
  BY <1>13, <1>8 DEF CloseItem
<1> QED
  BY <1>7, <1>9, <1>10, <1>11, <1>12, <1>13 DEF ProfileValues

LEMMA ConfigStep ==
  ASSUME Ownership, OnlyBorrowed, IInv, ConfigSettings PROVE IInv'
<1>0. /\ task = "config" /\ task' = task /\ pc = "start"
      /\ pc' \in {"start", "done"} /\ i' = i /\ failed' = failed
      /\ Config \in DOMAIN proxies /\ MemoryInv /\ PlaceInv
  <2>1. /\ task = "config" /\ task' = task /\ pc = "start"
        /\ pc' \in {"start", "done"} /\ i' = i /\ failed' = failed
    BY DEF ConfigSettings, UseCollection, ForgetCollection, CloseConfig, Step
  <2> QED
    BY <2>1 DEF IInv, HoldingInv
<1>1. MemoryInv' /\ Config \in DOMAIN proxies'
  <2>1. ASSUME NEW g \in CollectionsUsed, UseCollection(g)
        PROVE  MemoryInv' /\ Config \in DOMAIN proxies'
    <3>1. ConfigIpiSwig[g].owned = FALSE /\ Borrow(Part(g), ConfigIpiSwig[g])
      BY <2>1 DEF UseCollection, OnlyBorrowed
    <3> QED
      BY <1>0, <3>1, BorrowStep, Addresses DEF Borrowing
  <2>2. ASSUME NEW g \in CollectionsUsed, ForgetCollection(g)
        PROVE  MemoryInv' /\ Config \in DOMAIN proxies'
    BY <1>0, <2>2, LetGoStep, Addresses DEF ForgetCollection, Finalizable
  <2>3. CASE CloseConfig
    BY <1>0, <2>3, DeleteStep DEF CloseConfig
  <2> QED
    BY <2>1, <2>2, <2>3 DEF ConfigSettings
<1>2. PlaceInv'
  BY <1>0 DEF PlaceInv
<1>3. HoldingInv'
  BY <1>0, <1>1 DEF HoldingInv, Weighted
<1> QED
  BY <1>1, <1>2, <1>3 DEF IInv

\* The finalizer never takes an object that a task is going to use: what a
\* task on a list holds has no finalizer, and deleting leaves the addresses.
LEMMA FinalizeStep ==
  ASSUME IInv, NEW o \in DOMAIN proxies, Finalize(o) PROVE IInv'
<1>1. MemoryInv' /\ live' = live \ {o} /\ DOMAIN proxies' = DOMAIN proxies
  BY DeleteStep DEF IInv, Finalize
<1>2. PlaceInv'
  BY DEF IInv, Finalize, PlaceInv
<1>3. CASE task \in Weighted
  <2>1. o # Value /\ o # List /\ o # Text(i)
    BY Addresses DEF Finalize, Finalizable
  <2>2. live' = live
    BY <1>1, <1>3, <2>1 DEF IInv, HoldingInv, WeightedHolds
  <2> QED
    BY <1>1, <1>2, <1>3, <2>2 DEF IInv, HoldingInv, Finalize, Weighted
<1>4. CASE task \notin Weighted
  BY <1>1, <1>2, <1>4 DEF IInv, HoldingInv, Finalize
<1> QED
  BY <1>3, <1>4

LEMMA IInvStep ==
  ASSUME Ownership, OnlyBorrowed PROVE IInv /\ [Next]_vars => IInv'
<1> SUFFICES ASSUME IInv, [Next]_vars PROVE IInv'
  OBVIOUS
<1>1. CASE UNCHANGED vars
  BY <1>1 DEF vars, IInv, MemoryInv, Owned, PlaceInv, HoldingInv
<1> QED
  BY <1>1, PopulateStep, ProfileStep, ConfigStep, FinalizeStep DEF Next

THEOREM InductiveInvariant ==
  ASSUME Ownership, OnlyBorrowed PROVE Spec => []IInv
BY InitIInv, IInvStep, PTL DEF Spec

-----------------------------------------------------------------------------
(* The properties.                                                         *)

\* What the proxies know and the place of the task keep their types: an
\* index never leaves the list or the profile.
THEOREM TypeInvariant ==
  ASSUME Ownership, OnlyBorrowed PROVE Spec => []TypeOK
<1>1. IInv => TypeOK
  BY DEF IInv, MemoryInv, PlaceInv, Owned, TypeOK
<1> QED
  BY <1>1, InductiveInvariant, PTL

\* delete() and finalizers between them delete every object once, and never
\* a part of one.
THEOREM DeleteTheorem ==
  ASSUME Ownership, OnlyBorrowed PROVE Spec => []OnlyLiveObjectsAreDeleted
<1>1. IInv => OnlyLiveObjectsAreDeleted
  BY DEF IInv, MemoryInv, OnlyLiveObjectsAreDeleted
<1> QED
  BY <1>1, InductiveInvariant, PTL

\* Whichever native call throws, what is allocated can still be deleted.
THEOREM OwnerTheorem ==
  ASSUME Ownership, OnlyBorrowed PROVE Spec => []EveryObjectHasAnOwner
<1>1. IInv => EveryObjectHasAnOwner
  BY DEF IInv, MemoryInv, Owned, EveryObjectHasAnOwner
<1> QED
  BY <1>1, InductiveInvariant, PTL

\* A getter of a weighted list has freed everything when it ends.
THEOREM CleanUpTheorem ==
  ASSUME Ownership, OnlyBorrowed PROVE Spec => []GettersCleanUp
<1>1. IInv => GettersCleanUp
  BY DEF IInv, HoldingInv, WeightedHolds, GettersCleanUp
<1> QED
  BY <1>1, InductiveInvariant, PTL

\* The list outlives the reading of its elements.
THEOREM AliveTheorem ==
  ASSUME Ownership, OnlyBorrowed PROVE Spec => []ElementsAreReadAlive
<1>1. IInv => ElementsAreReadAlive
  <2> SUFFICES ASSUME IInv,
                      pc \in {"read", "nested", "chars", "closeText"}
               PROVE  {Value, List} \subseteq live
    BY DEF ElementsAreReadAlive
  <2>1. task \in Weighted
    BY DEF IInv, PlaceInv, Tasks, Weighted
  <2> QED
    BY <2>1 DEF IInv, HoldingInv, WeightedHolds
<1> QED
  BY <1>1, InductiveInvariant, PTL

=============================================================================
