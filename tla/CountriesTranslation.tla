------------------------ MODULE CountriesTranslation ------------------------
(***************************************************************************)
(* CountriesTranslationEngine.processInternal for one request: from the    *)
(* weighted country codes of the IP Intelligence engine and their names to *)
(* the "All" lists, one of codes and one of names for each dimension.      *)
(*                                                                         *)
(* Codes and evidence are compared ignoring case by the code, so both are  *)
(* taken up to case.  A name is the country it names and the language it   *)
(* is in.  The collator of a culture is a rank of the names: two names may *)
(* have the same one.  The base class, its translations and the matching   *)
(* of a language to the evidence are outside the repository; they do here  *)
(* what the comments in processInternal and resolveMatch say they do.      *)
(***************************************************************************)
EXTENDS Integers, Sequences, FiniteSets, Functions

CONSTANTS
    Countries,      \* the known country codes, in the order of the file
    Sentinel,       \* the code the IP engine gives when nothing matches
    Languages,      \* languages with a translation file
    WithLocale,     \* those whose match comes with a locale
    English,        \* the base language: it has no translation file
    Translations,   \* pairs <<language, country>> the files translate
    Rank,           \* Rank[culture][name]: place of a name in a culture's order
    CodesOf,        \* CodesOf[d]: the weighted codes an IP engine may return
    EvidenceValues, \* what a key of the evidence may hold
    Blank,          \* an evidence key that is missing or blank
    None            \* no match, no culture, no value

ASSUME CountriesAssumption ==
    /\ Countries \in Seq(Range(Countries))
    /\ Sentinel \notin Range(Countries)
    /\ \A i, j \in DOMAIN Countries : Countries[i] = Countries[j] => i = j

ASSUME LanguagesAssumption ==
    /\ English \notin Languages
    /\ None \notin Languages /\ Blank \notin Languages
    /\ WithLocale \subseteq Languages
    /\ Translations \subseteq Languages \X Range(Countries)

Dimensions == <<"Geographical", "Population">>

validCodes == Range(Countries)

Name(country, language) == [country |-> country, language |-> language]

Names == {Name(c, l) : c \in validCodes \cup {Sentinel},
                       l \in Languages \cup {English}}

WeightedCode == [value : validCodes \cup {Sentinel}, weight : Nat]

ASSUME RankAssumption ==
    \A culture \in WithLocale \cup {None} : \A name \in Names :
        Rank[culture][name] \in Int

\* The IP engine, which is outside, gives no country two weights.
ASSUME CodesAssumption ==
    \A d \in Range(Dimensions) : \A list \in CodesOf[d] :
        /\ list \in Seq(WeightedCode)
        /\ \A i, j \in DOMAIN list : list[i].value = list[j].value => i = j

\* By precedence: what the query asks for, then what the browser accepts.
EVIDENCE_KEYS ==
    <<"query.translation", "query.accept-language", "header.accept-language">>

VARIABLES
    evidence,            \* value of each evidence key
    ipCodes,             \* weighted codes of a dimension, or None
    translatedNames,     \* weighted names the base class translated, or None
    match,               \* the language resolved from the evidence, or None
    SortingCultureUsed,  \* the culture reported, or None: the empty string
    geoCodes, popCodes,  \* locals of processInternal
    allCodes, allNames,  \* the lists stored for each dimension
    pc

vars == <<evidence, ipCodes, translatedNames, match, SortingCultureUsed,
          geoCodes, popCodes, allCodes, allNames, pc>>

Shorter(m, n) == IF m < n THEN m ELSE n

\* Translator.translate with MissingTranslationBehavior.ORIGINAL, or no
\* translator at all: a name that cannot be translated stays English.
Translate(language, country) ==
    Name(country,
         IF <<language, country>> \in Translations THEN language ELSE English)

\* As if the base language were one to translate to.
LanguagesMatchWithEnglish(value) ==
    IF value \in Languages \cup {English} THEN value ELSE None

\* Languages.match: English, the base language, matches nothing.
LanguagesMatch(value) == IF value \in Languages THEN value ELSE None

\* The first key, by precedence, that names a language to translate to.
Resolve ==
    LET matching == {k \in DOMAIN EVIDENCE_KEYS :
                        /\ evidence[EVIDENCE_KEYS[k]] # Blank
                        /\ LanguagesMatch(evidence[EVIDENCE_KEYS[k]]) # None}
    IN  IF matching = {} THEN None
        ELSE LanguagesMatch(evidence[EVIDENCE_KEYS[
                CHOOSE k \in matching : \A other \in matching : k <= other]])

\* The elements of a finite set in a strict order, given as a set of pairs.
InOrder(S, less) ==
    CHOOSE order \in [1..Cardinality(S) -> S] :
        \A i, j \in 1..Cardinality(S) :
            i < j => <<order[i], order[j]>> \in less

\* The elements of a list at some indices, in an order of the indices.
Taken(list, indices, less) ==
    LET order == InOrder(indices, less)
    IN  [k \in DOMAIN order |-> list[order[k]]]

\* Those at some indices, as they come.
Selected(list, indices) ==
    Taken(list, indices, {p \in indices \X indices : p[1] < p[2]})

\* List.sort, which keeps the order of elements neither of which is before the
\* other; before has the pairs of indices that the comparator puts in this
\* order.
StableSort(list, before) ==
    Taken(list, DOMAIN list, {p \in (DOMAIN list) \X (DOMAIN list) :
        p \in before \/ (<<p[2], p[1]>> \notin before /\ p[1] < p[2])})

\* As if every list were sorted by its English names.
PrecedesInEnglish(culture, a, b) ==
    Rank[None][Name(a.country, English)] < Rank[None][Name(b.country, English)]

\* createComparator: the culture of a match is that of its locale.  A match may
\* have a translator and no locale, and then there is no culture.
CultureOf(language) == IF language \in WithLocale THEN language ELSE None

\* Its comparator: the collator of the culture, or String.CASE_INSENSITIVE_ORDER
\* if there is none.
Precedes(culture, a, b) == Rank[culture][a] < Rank[culture][b]

Paired(names, codes, count) ==
    [i \in 1..count |-> [code   |-> codes[i].value,
                         name   |-> names[i].value,
                         weight |-> names[i].weight]]

\* As if the sentinel were dropped from the codes before they are paired.
TuplesOfKnown(names, codes) ==
    LET known == Selected(codes,
                    {i \in DOMAIN codes : codes[i].value \in validCodes})
    IN  Paired(names, known, Shorter(Len(names), Len(known)))

\* Names and codes, paired by index as far as both go.
Tuples(names, codes) == Paired(names, codes, Shorter(Len(names), Len(codes)))

\* The pairs, most probable first, and by name where equally probable.
BuildWeightedTuples(names, codes) ==
    LET tuples == Tuples(names, codes)
    IN  StableSort(tuples, {p \in (DOMAIN tuples) \X (DOMAIN tuples) :
            \/ tuples[p[1]].weight > tuples[p[2]].weight
            \/ /\ tuples[p[1]].weight = tuples[p[2]].weight
               /\ Precedes(CultureOf(match), tuples[p[1]].name,
                           tuples[p[2]].name)})

\* As if the weighted codes were taken as they come.
ValidAsTheyCome(tuples) == tuples

\* The tuples of real countries: the sentinel is dropped.
Valid(tuples) ==
    Selected(tuples, {i \in DOMAIN tuples : tuples[i].code \in validCodes})

\* The weighted countries, then every other country by its name.
BuildLists(names, codes) ==
    LET weighted == Valid(BuildWeightedTuples(names, codes))
        usedCodes == {weighted[i].code : i \in DOMAIN weighted}
        others == Selected(Countries,
                    {i \in DOMAIN Countries : Countries[i] \notin usedCodes})
        remaining == [i \in DOMAIN others |->
                        [code   |-> others[i],
                         name   |-> Translate(match, others[i]),
                         weight |-> 0]]
    IN  weighted \o StableSort(remaining,
            {p \in (DOMAIN remaining) \X (DOMAIN remaining) :
                Precedes(CultureOf(match), remaining[p[1]].name,
                         remaining[p[2]].name)})

Init ==
    /\ evidence \in [Range(EVIDENCE_KEYS) -> EvidenceValues]
    /\ \E geo \in CodesOf["Geographical"] \cup {None},
          pop \in CodesOf["Population"] \cup {None} :
        ipCodes = [d \in Range(Dimensions) |->
                        IF d = "Geographical" THEN geo ELSE pop]
    /\ translatedNames = [d \in Range(Dimensions) |-> None]
    /\ match = None
    /\ SortingCultureUsed = None
    /\ geoCodes = <<>>
    /\ popCodes = <<>>
    /\ allCodes = [d \in Range(Dimensions) |-> None]
    /\ allNames = [d \in Range(Dimensions) |-> None]
    /\ pc = "translate"

-----------------------------------------------------------------------------

\* super.processInternal: names in the order of their codes, with their
\* weights.  A dimension without codes has no names, and the names may be
\* missing although the codes are there: CountryCodeTranslationEngine failed.
TranslateWeighted ==
    /\ pc = "translate"
    /\ \E lost \in SUBSET Range(Dimensions) :
        translatedNames' = [d \in Range(Dimensions) |->
            IF d \in lost \/ ipCodes[d] = None THEN None
            ELSE [i \in DOMAIN ipCodes[d] |->
                    [value  |-> Translate(Resolve, ipCodes[d][i].value),
                     weight |-> ipCodes[d][i].weight]]]
    /\ pc' = "resolve"
    /\ UNCHANGED <<evidence, ipCodes, match, SortingCultureUsed, geoCodes,
                   popCodes, allCodes, allNames>>

ResolveMatch ==
    /\ pc = "resolve"
    /\ match' = Resolve
    /\ SortingCultureUsed' = CultureOf(Resolve)
    /\ pc' = "read"
    /\ UNCHANGED <<evidence, ipCodes, translatedNames, geoCodes, popCodes,
                   allCodes, allNames>>

OrEmpty(list) == IF list = None THEN <<>> ELSE list

\* No value, or any RuntimeException on the way to it, counts as no codes.
ReadCodes ==
    /\ pc = "read"
    /\ geoCodes' = OrEmpty(ipCodes["Geographical"])
    /\ popCodes' = OrEmpty(ipCodes["Population"])
    /\ pc' = "Geographical"
    /\ UNCHANGED <<evidence, ipCodes, translatedNames, match,
                   SortingCultureUsed, allCodes, allNames>>

\* Codes and names of the same tuples are stored side by side.
BuildAndStore(d, codes, next) ==
    /\ pc = d
    /\ LET list == BuildLists(OrEmpty(translatedNames[d]), codes)
       IN  /\ allCodes' = [allCodes EXCEPT ![d] =
                               [i \in DOMAIN list |-> list[i].code]]
           /\ allNames' = [allNames EXCEPT ![d] =
                               [i \in DOMAIN list |-> list[i].name]]
    /\ pc' = next
    /\ UNCHANGED <<evidence, ipCodes, translatedNames, match,
                   SortingCultureUsed, geoCodes, popCodes>>

Next ==
    \/ TranslateWeighted
    \/ ResolveMatch
    \/ ReadCodes
    \/ BuildAndStore("Geographical", geoCodes, "Population")
    \/ BuildAndStore("Population", popCodes, "done")

Spec == Init /\ [][Next]_vars

-----------------------------------------------------------------------------

\* Every variable has its type; a language that is resolved is never English.
TypeOK ==
    /\ evidence \in [Range(EVIDENCE_KEYS) -> EvidenceValues]
    /\ \A d \in Range(Dimensions) :
        /\ ipCodes[d] \in CodesOf[d] \cup {None}
        /\ translatedNames[d] # None =>
            \A i \in DOMAIN translatedNames[d] :
                translatedNames[d][i].value \in Names
        /\ allCodes[d] # None =>
            Range(allCodes[d]) \subseteq validCodes \cup {Sentinel}
        /\ allNames[d] # None => Range(allNames[d]) \subseteq Names
    /\ match \in Languages \cup {None}
    /\ SortingCultureUsed \in WithLocale \cup {None}
    /\ pc \in Range(Dimensions) \cup {"translate", "resolve", "read", "done"}

\* Whatever codes the IP engine returned for a dimension, none of them twice,
\* its list of codes has every known country exactly once, and nothing else: the sentinel is not led in by
\* its weight, and no weighted country comes back among the others.
\* (buildAndStore)
EveryCountryOnce ==
    \A d \in Range(Dimensions) : allCodes[d] # None =>
        /\ Len(allCodes[d]) = Len(Countries)
        /\ Range(allCodes[d]) = validCodes

\* The two lists of a dimension belong together: at each index the name is that
\* of the code, in the one language that was resolved for the request, also
\* after the sentinel was dropped and both parts were sorted, and whether the
\* base class translated it or buildAndStore did.  If a culture is reported, it
\* is that of this language; names may be translated and none reported.
\* (buildWeightedTuples, buildAndStore, createComparator)
NamesBelongToCodes ==
    \A d \in Range(Dimensions) : allCodes[d] # None =>
        /\ DOMAIN allNames[d] = DOMAIN allCodes[d]
        /\ \A i \in DOMAIN allCodes[d] :
            allNames[d][i] = Translate(match, allCodes[d][i])
        /\ SortingCultureUsed \in {match, None}

\* The weight of a country with these entries; less than any when it has none.
WeightAmong(entries) ==
    IF entries = {} THEN -1 ELSE (CHOOSE e \in entries : TRUE).weight

\* What the IP engine says of a country: nothing, too, when the names of the
\* dimension were lost.
WeightOf(d, code) ==
    WeightAmong(IF None \in {ipCodes[d], translatedNames[d]} THEN {}
                ELSE {e \in Range(ipCodes[d]) : e.value = code})

\* No country stands behind one that is less probable, nor, with the same
\* weight, behind one whose name comes later in the order of the culture that is
\* reported, case-insensitive if none is.
\* (buildWeightedTuples, the sort in buildAndStore)
MostProbableFirst ==
    \A d \in Range(Dimensions) : allCodes[d] # None =>
        \A i, j \in DOMAIN allCodes[d] : i < j =>
            LET wi == WeightOf(d, allCodes[d][i])
                wj == WeightOf(d, allCodes[d][j])
            IN  \/ wi > wj
                \/ /\ wi = wj
                   /\ Rank[SortingCultureUsed][allNames[d][i]]
                        <= Rank[SortingCultureUsed][allNames[d][j]]

\* "query.translation has higher precedence": the language a query asks for is
\* used whatever the browser accepts.  (resolveMatch)
QueryTranslationWins ==
    pc \notin {"translate", "resolve"} =>
        LET asked == evidence["query.translation"]
        IN  asked \in Languages \cup {English} =>
                match = IF asked = English THEN None ELSE asked
=============================================================================
