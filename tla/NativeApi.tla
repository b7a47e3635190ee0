----------------------------- MODULE NativeApi -----------------------------
(***************************************************************************)
(* The native interface of the on-premise engine: every function that      *)
(* Java_Ipi_Engine.cpp exports to the Java proxies, described by what the  *)
(* proxies and their callers depend on.  A function is a signature:        *)
(*                                                                         *)
(*   args     how each argument is converted before the native call,       *)
(*   guards   which C++ exceptions are caught around that call,            *)
(*   bounded  whether the wrapped helper raises std::out_of_range itself   *)
(*            (a bad index, a negative count, a size above a Java int),    *)
(*   result   what is handed back,                                         *)
(*   owned    whether the Java proxy made of the result deletes it.        *)
(*                                                                         *)
(* The module is a table; JniCall runs the functions and NativeObjects     *)
(* follows the objects that they hand out.                                 *)
(***************************************************************************)
EXTENDS Sequences, TLC

(***************************************************************************)
(* Arguments.  A receiver ("self"), an object passed by pointer            *)
(* ("pointer") and an object to delete ("freed") are passed on unchecked;  *)
(* an object passed by reference or by value is checked for null first.    *)
(* "text" becomes a std::string and "chars" stays a C string for the time  *)
(* of the call; "copied" is a byte array copied with malloc and "pinned"   *)
(* one that stays pinned for the time of the call.                         *)
(***************************************************************************)
Unchecked == {"self", "pointer", "freed"}
Checked   == {"reference", "value"}
ArgKinds  == Unchecked \cup Checked \cup
               {"text", "chars", "copied", "pinned", "scalar"}

\* Results.  "fresh" is a copy made by the wrapper, "made" an object that the
\* native call created for the caller, "inside" the address of a part of the
\* receiver, "kept" an object that the receiver goes on owning.
ResultKinds == {"void", "scalar", "text", "fresh", "made", "inside", "kept"}

\* A call inside the try block that all but the oldest wrappers have, which
\* catches the seven exceptions of the library, runtime_error and
\* invalid_argument.
Call(args, result) ==
  [args   |-> args,  guards |-> {"standard"}, bounded |-> FALSE,
   result |-> result, owned |-> result \in {"fresh", "made"}]

\* A call of a helper that checks its index or count, in a try block of its
\* own for std::out_of_range.
Bounded(args, result) ==
  [Call(args, result) EXCEPT !.guards = @ \cup {"range"}, !.bounded = TRUE]

\* The same functions in the wrappers without the outer try block.
Bare(table) ==
  [f \in DOMAIN table |->
     [table[f] EXCEPT !.guards = IF f = "delete" THEN @
                                 ELSE @ \ {"standard"}]]

Each(names, signature) == [f \in names |-> signature]
Getters(names, result) == Each(names, Call(<<"self">>, result))
Setters(names, kind)   == Each(names, Call(<<"self", kind>>, "void"))
New                    == Each({"new"}, Call(<<>>, "made"))
Deleted                == Each({"delete"}, Call(<<"freed">>, "void"))

-----------------------------------------------------------------------------
(* Containers.                                                             *)

\* std::vector<element>: making, sizing and emptying it.
ListStorage(element) ==
  Each({"new0"}, Call(<<>>, "made")) @@
  Each({"new1"}, Call(<<"reference">>, "made")) @@
  Each({"new2"}, Bounded(<<"scalar", element>>, "made")) @@
  Getters({"isEmpty"}, "scalar") @@
  Getters({"clear"}, "void") @@
  Each({"doCapacity", "doSize"}, Bounded(<<"self">>, "scalar")) @@
  Each({"doReserve"}, Bounded(<<"self", "scalar">>, "void"))

\* Its elements.  "removed" is how an element that leaves the vector is
\* handed out, "read" how one that stays is.
ListElements(element, removed, read) ==
  Setters({"doAdd0"}, element) @@
  Each({"doAdd1"}, Bounded(<<"self", "scalar", element>>, "void")) @@
  Each({"doRemove"}, Bounded(<<"self", "scalar">>, removed)) @@
  Each({"doGet"}, Bounded(<<"self", "scalar">>, read)) @@
  Each({"doSet"}, Bounded(<<"self", "scalar", element>>, removed)) @@
  Each({"doRemoveRange"}, Bounded(<<"self", "scalar", "scalar">>, "void")) @@
  Deleted

MapMade ==
  Bare(Each({"new0"}, Call(<<>>, "made")) @@
       Each({"new1"}, Call(<<"reference">>, "made")))

MapIterator ==
  Bare(Getters({"getNextUnchecked"}, "fresh") @@
       Each({"isNot"}, Call(<<"self", "value">>, "scalar")) @@
       Getters({"getKey", "getValue"}, "text") @@
       Setters({"setValue"}, "text") @@
       Deleted)

MapStringStringSwig ==
  MapMade @@
  Bare(Getters({"isEmpty"}, "scalar") @@
       Getters({"clear"}, "void") @@
       Getters({"begin", "end"}, "fresh") @@
       Each({"find"}, Call(<<"self", "text">>, "fresh")) @@
       Each({"sizeImpl"}, Bounded(<<"self">>, "scalar")) @@
       Each({"containsImpl"}, Call(<<"self", "text">>, "scalar")) @@
       Each({"putUnchecked"}, Call(<<"self", "text", "text">>, "void")) @@
       Each({"removeUnchecked"}, Call(<<"self", "value">>, "void")) @@
       Deleted)

VectorStringStorage == Bare(ListStorage("text"))
VectorStringSwig ==
  VectorStringStorage @@ Bare(ListElements("text", "text", "text"))

UTF8StringStorage == ListStorage("scalar")
UTF8StringSwig ==
  UTF8StringStorage @@ ListElements("scalar", "scalar", "scalar")

WeightedStringListStorage == ListStorage("reference")
WeightedStringListSwig ==
  WeightedStringListStorage @@ ListElements("reference", "fresh", "inside")

WeightedUTF8StringListStorage == ListStorage("reference")
WeightedUTF8StringListSwig ==
  WeightedUTF8StringListStorage @@
  ListElements("reference", "fresh", "inside")

WeightedBoolListStorage == ListStorage("reference")
WeightedBoolListSwig ==
  WeightedBoolListStorage @@ ListElements("reference", "fresh", "inside")

WeightedIntListStorage == ListStorage("reference")
WeightedIntListSwig ==
  WeightedIntListStorage @@ ListElements("reference", "fresh", "inside")

WeightedDoubleListStorage == ListStorage("reference")
WeightedDoubleListSwig ==
  WeightedDoubleListStorage @@ ListElements("reference", "fresh", "inside")

-----------------------------------------------------------------------------
(* Values: what a results object answers for a property.                   *)

ValueClass(value) ==
  New @@ Deleted @@ Getters({"hasValue"}, "scalar") @@
  Getters({"getNoValueMessage"}, "text") @@ Getters({"getValue"}, value)

StringValueSwig        == ValueClass("text")
BoolValueSwig          == ValueClass("scalar")
IntegerValueSwig       == ValueClass("scalar")
DoubleValueSwig        == ValueClass("scalar")
VectorStringValuesSwig == ValueClass("fresh")

WeightedStringListValueSwig     == ValueClass("fresh")
WeightedUTF8StringListValueSwig == ValueClass("fresh")
WeightedBoolListValueSwig       == ValueClass("fresh")
WeightedIntListValueSwig        == ValueClass("fresh")
WeightedDoubleListValueSwig     == ValueClass("fresh")

IpAddressValueSwig  == ValueClass("fresh")
UTF8StringValueSwig == ValueClass("fresh")

\* An element of a weighted list: a value and a weight, made by the library
\* only, so there is no constructor.
WeightedValue(kind, value) ==
  Deleted @@ Getters({"getValue"}, value) @@ Setters({"setValue"}, kind) @@
  Getters({"getWeight", "getShortRawWeight"}, "scalar") @@
  Setters({"setShortRawWeight"}, "scalar")

WeightedValueStringSwig     == WeightedValue("text", "text")
WeightedValueUTF8StringSwig == WeightedValue("value", "fresh")
WeightedValueBoolSwig       == WeightedValue("scalar", "scalar")
WeightedValueIntSwig        == WeightedValue("scalar", "scalar")
WeightedValueDoubleSwig     == WeightedValue("scalar", "scalar")

IpType ==
  Each({"INVALID_get", "IPV4_get", "IPV6_get"}, Call(<<>>, "scalar"))

IpAddressSwig ==
  Each({"new0"}, Call(<<"copied", "scalar">>, "made")) @@
  Each({"new1"}, Call(<<"chars">>, "made")) @@
  Setters({"getCopyOfIpAddress"}, "copied") @@
  Getters({"getType"}, "scalar") @@ Deleted

-----------------------------------------------------------------------------
(* Results.  A value is asked for by property name or by property index.   *)

AskedFor(names, more) ==
  Each({n \o "0" : n \in names}, Call(<<"self", "text">> \o more, "fresh")) @@
  Each({n \o "1" : n \in names}, Call(<<"self", "scalar">> \o more, "fresh"))

ResultsProperties ==
  Getters({"getAvailableProperties"}, "scalar") @@
  Getters({"getProperties"}, "fresh") @@
  Each({"containsProperty"}, Call(<<"self", "text">>, "scalar")) @@
  Each({"getPropertyName"}, Call(<<"self", "scalar">>, "text"))

ResultsValues ==
  AskedFor({"getValues", "getValueAsString", "getValueAsBool",
            "getValueAsInteger", "getValueAsDouble"}, <<>>)

ResultsBaseSwig == Deleted @@ ResultsProperties @@ ResultsValues

ResultsTexts ==
  AskedFor({"getValuesAsWeightedStringList", "getValueAsUTF8String",
            "getValuesAsWeightedUTF8StringList"}, <<>>) @@
  AskedFor({"getValuesAsWeightedWKTStringList"}, <<"scalar">>)

ResultsNumbers ==
  AskedFor({"getValuesAsWeightedBoolList", "getValuesAsWeightedIntegerList",
            "getValuesAsWeightedDoubleList", "getValueAsIpAddress"}, <<>>)

ResultsIpiSwig == Deleted @@ ResultsTexts @@ ResultsNumbers

\* The functions that take names as bytes instead of strings.
ResultsFromBytes ==
  Each({"Results_GetValueAsString", "Results_GetValues",
        "Results_GetValueAsBool", "Results_GetValueAsInteger",
        "Results_GetValueAsDouble"}, Call(<<"pointer", "pinned">>, "fresh")) @@
  Each({"Results_ContainsProperty"}, Call(<<"pointer", "pinned">>, "scalar"))

EvidenceFromBytes ==
  Each({"Evidence_AddFromBytes"},
       Call(<<"pointer", "pinned", "pinned">>, "void"))

EvidenceBaseSwig == New @@ Deleted
EvidenceIpiSwig  == New @@ Deleted

-----------------------------------------------------------------------------
(* Meta data.                                                              *)

Date == Getters({"getYear", "getMonth", "getDay"}, "scalar") @@ Deleted

PropertyTexts ==
  Getters({"getName", "getType", "getCategory", "getUrl"}, "text") @@
  Getters({"getDataFilesWherePresent"}, "fresh")

PropertyFlags ==
  Getters({"getAvailable", "getDisplayOrder", "getIsMandatory", "getIsList",
           "getIsObsolete", "getShow", "getShowValues"}, "scalar")

PropertyMetaDataSwig ==
  PropertyTexts @@ PropertyFlags @@ Getters({"getDescription"}, "text") @@
  Deleted

ComponentMetaDataSwig ==
  Getters({"getComponentIdAsInt", "getComponentId"}, "scalar") @@
  Getters({"getName"}, "text") @@ Deleted

ProfileMetaDataSwig == Getters({"getProfileId"}, "scalar") @@ Deleted

ValueMetaDataKeySwig ==
  Each({"new0"}, Call(<<"text", "text">>, "made")) @@
  Each({"new1"}, Call(<<"text", "copied">>, "made")) @@
  Getters({"getPropertyName", "getValueName"}, "text") @@ Deleted

ValueMetaDataSwig ==
  Getters({"getName", "getDescription", "getUrl"}, "text") @@
  Getters({"getUtf8ValueName"}, "fresh") @@ Deleted

Collection(key) ==
  Each({"getByKey"}, Call(<<"self", key>>, "made")) @@
  Each({"getByIndex"}, Call(<<"self", "scalar">>, "made")) @@
  Getters({"getSize"}, "scalar") @@ Deleted

ComponentMetaDataCollectionSwig == Collection("scalar")
PropertyMetaDataCollectionSwig  == Collection("text")
ProfileMetaDataCollectionSwig   == Collection("scalar")
ValueMetaDataCollectionSwig     == Collection("value")

MetaDataCollections ==
  Getters({"getComponents", "getProperties", "getProfiles", "getValues"},
          "made")

MetaDataRelations ==
  Each({"getValuesForProperty", "getValuesForProfile",
        "getComponentForProfile", "getComponentForProperty",
        "getDefaultProfileForComponent", "getDefaultValueForProperty",
        "getPropertiesForComponent", "getPropertyForValue"},
       Call(<<"self", "pointer">>, "made"))

MetaDataSwig == Deleted @@ MetaDataCollections @@ MetaDataRelations

-----------------------------------------------------------------------------
(* Configuration.                                                          *)

RequiredPropertiesConfigSwig ==
  Each({"new0"}, Call(<<>>, "made")) @@
  Each({"new1"}, Call(<<"pointer">>, "made")) @@
  Each({"new2"}, Call(<<"chars">>, "made")) @@
  Getters({"getProperties"}, "fresh") @@ Deleted

ConfigBaseSetters ==
  Setters({"setUseUpperPrefixHeaders", "setUseTempFile",
           "setReuseTempFile"}, "scalar") @@
  Setters({"setTempDirectories"}, "value")

ConfigBaseGetters ==
  Getters({"getUseUpperPrefixHeaders", "getUseTempFile",
           "getReuseTempFile", "getConcurrency"}, "scalar") @@
  Getters({"getTempDirectories"}, "fresh")

ConfigBaseSwig == Deleted @@ ConfigBaseSetters @@ ConfigBaseGetters

CollectionConfigSwig ==
  New @@ Deleted @@
  Setters({"setCapacity", "setConcurrency", "setLoaded"}, "scalar") @@
  Getters({"getCapacity", "getConcurrency", "getLoaded"}, "scalar")

ConfigProfiles ==
  New @@
  Getters({"setHighPerformance", "setBalanced", "setBalancedTemp",
           "setLowMemory", "setMaxPerformance"}, "void") @@
  Setters({"setConcurrency"}, "scalar")

\* Each collection of a configuration is a part of it, handed out by address.
ConfigCollections ==
  Getters({"getStrings", "getComponents", "getMaps", "getProperties",
           "getValues", "getProfiles", "getGraphs", "getProfileGroups",
           "getProfileOffsets", "getPropertyTypes", "getGraph"}, "inside")

\* The proxies of four of these collections are made as owners, like those of
\* the collections of the same names that MetaDataSwig hands out.
OwnedCollections ==
  {"getComponents", "getProperties", "getValues", "getProfiles"}

ConfigIpiSwig ==
  ConfigProfiles @@
  [f \in DOMAIN ConfigCollections |->
     [ConfigCollections[f] EXCEPT !.owned = f \in OwnedCollections]] @@
  Getters({"getConcurrency"}, "scalar") @@ Deleted

-----------------------------------------------------------------------------
(* The engine.                                                             *)

Refreshing ==
  Getters({"refreshData0"}, "void") @@
  Setters({"refreshData1"}, "chars") @@
  Setters({"refreshData2"}, "copied")

EngineBaseSettings ==
  Setters({"setLicenseKey", "setDataUpdateUrl"}, "text")

EngineBaseInformation ==
  Getters({"getDataUpdateUrl", "getDataFilePath", "getDataFileTempPath",
           "getProduct", "getType"}, "text") @@
  Getters({"getPublishedTime", "getUpdateAvailableTime"}, "fresh")

EngineBaseParts ==
  Getters({"getMetaData", "getKeys"}, "kept") @@
  Getters({"getAutomaticUpdatesEnabled", "getIsThreadSafe"}, "scalar")

EngineBaseSwig ==
  Deleted @@ EngineBaseSettings @@ EngineBaseParts @@ EngineBaseInformation @@
  Each({"processBase"}, Call(<<"self", "pointer">>, "made")) @@ Refreshing

EngineIpiMade ==
  Each({"new0"}, Call(<<"text", "pointer", "pointer">>, "made")) @@
  Each({"new1"}, Call(<<"copied", "pointer", "pointer">>, "made"))

EngineIpiInformation ==
  Getters({"getDataFilePath", "getDataFileTempPath"}, "text") @@
  Getters({"getPublishedTime", "getUpdateAvailableTime"}, "fresh")

EngineIpiRefreshing == Refreshing

EngineIpiProcessing ==
  Each({"process0", "processBase"}, Call(<<"self", "pointer">>, "made")) @@
  Each({"process1"}, Call(<<"self", "chars">>, "made")) @@
  Each({"process2"}, Call(<<"self", "copied", "scalar">>, "made"))

EngineIpiSwig ==
  EngineIpiMade @@ EngineIpiInformation @@ EngineIpiRefreshing @@
  EngineIpiProcessing @@ Deleted

\* The casts from a class to its base class.
Upcasts ==
  Bare(Each({"ResultsIpiSwig", "ConfigIpiSwig", "EvidenceBaseSwig",
             "EvidenceIpiSwig", "EngineIpiSwig"}, Call(<<"scalar">>, "scalar")))

-----------------------------------------------------------------------------
\* Every exported function, by class.
Api ==
  [MapStringStringSwig            |-> MapStringStringSwig,
   MapIterator                    |-> MapIterator,
   VectorStringSwig               |-> VectorStringSwig,
   UTF8StringSwig                 |-> UTF8StringSwig,
   WeightedStringListSwig         |-> WeightedStringListSwig,
   WeightedUTF8StringListSwig     |-> WeightedUTF8StringListSwig,
   WeightedBoolListSwig           |-> WeightedBoolListSwig,
   WeightedIntListSwig            |-> WeightedIntListSwig,
   WeightedDoubleListSwig         |-> WeightedDoubleListSwig,
   StringValueSwig                |-> StringValueSwig,
   BoolValueSwig                  |-> BoolValueSwig,
   IntegerValueSwig               |-> IntegerValueSwig,
   DoubleValueSwig                |-> DoubleValueSwig,
   VectorStringValuesSwig         |-> VectorStringValuesSwig,
   WeightedStringListValueSwig    |-> WeightedStringListValueSwig,
   WeightedUTF8StringListValueSwig |-> WeightedUTF8StringListValueSwig,
   WeightedBoolListValueSwig      |-> WeightedBoolListValueSwig,
   WeightedIntListValueSwig       |-> WeightedIntListValueSwig,
   WeightedDoubleListValueSwig    |-> WeightedDoubleListValueSwig,
   IpAddressValueSwig             |-> IpAddressValueSwig,
   UTF8StringValueSwig            |-> UTF8StringValueSwig,
   WeightedValueStringSwig        |-> WeightedValueStringSwig,
   WeightedValueUTF8StringSwig    |-> WeightedValueUTF8StringSwig,
   WeightedValueBoolSwig          |-> WeightedValueBoolSwig,
   WeightedValueIntSwig           |-> WeightedValueIntSwig,
   WeightedValueDoubleSwig        |-> WeightedValueDoubleSwig,
   IpType                         |-> IpType,
   IpAddressSwig                  |-> IpAddressSwig,
   ResultsBaseSwig                |-> ResultsBaseSwig,
   ResultsIpiSwig                 |-> ResultsIpiSwig,
   Module                         |-> ResultsFromBytes @@ EvidenceFromBytes,
   EvidenceBaseSwig               |-> EvidenceBaseSwig,
   EvidenceIpiSwig                |-> EvidenceIpiSwig,
   Date                           |-> Date,
   PropertyMetaDataSwig           |-> PropertyMetaDataSwig,
   ComponentMetaDataSwig          |-> ComponentMetaDataSwig,
   ProfileMetaDataSwig            |-> ProfileMetaDataSwig,
   ValueMetaDataKeySwig           |-> ValueMetaDataKeySwig,
   ValueMetaDataSwig              |-> ValueMetaDataSwig,
   ComponentMetaDataCollectionSwig |-> ComponentMetaDataCollectionSwig,
   PropertyMetaDataCollectionSwig |-> PropertyMetaDataCollectionSwig,
   ProfileMetaDataCollectionSwig  |-> ProfileMetaDataCollectionSwig,
   ValueMetaDataCollectionSwig    |-> ValueMetaDataCollectionSwig,
   MetaDataSwig                   |-> MetaDataSwig,
   RequiredPropertiesConfigSwig   |-> RequiredPropertiesConfigSwig,
   ConfigBaseSwig                 |-> ConfigBaseSwig,
   CollectionConfigSwig           |-> CollectionConfigSwig,
   ConfigIpiSwig                  |-> ConfigIpiSwig,
   EngineBaseSwig                 |-> EngineBaseSwig,
   EngineIpiSwig                  |-> EngineIpiSwig,
   Upcasts                        |-> Upcasts]

\* The signatures that occur.
Signatures == LET Table(c) == {Api[c][f] : f \in DOMAIN Api[c]}
              IN UNION {Table(c) : c \in DOMAIN Api}

=============================================================================
