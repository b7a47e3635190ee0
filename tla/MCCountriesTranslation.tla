----------------------- MODULE MCCountriesTranslation -----------------------
(***************************************************************************)
(* Three countries and two languages.  German has a locale, lacks the name *)
(* of one country, and the two names that it has are the same to its       *)
(* collator.  Cornish has all three names and no locale, so they are       *)
(* compared as strings.                                                    *)
(***************************************************************************)
EXTENDS CountriesTranslation

SomeCountries == <<"DE", "FR", "GB">>
SomeTranslations ==
    ({"german"} \X {"DE", "GB"}) \cup ({"cornish"} \X {"DE", "FR", "GB"})

InGerman == [DE |-> 1, FR |-> 2, GB |-> 1, ZZ |-> 4]

\* As strings: Almayn, Deutschland, France, Frynk, Germany, Ruwvaneth Unys,
\* United Kingdom, Vereinigtes Koenigreich, then the sentinel.
AsStrings ==
    [english |-> [DE |-> 5, FR |-> 3, GB |-> 7, ZZ |-> 9],
     german  |-> [DE |-> 2, FR |-> 3, GB |-> 8, ZZ |-> 9],
     cornish |-> [DE |-> 1, FR |-> 4, GB |-> 6, ZZ |-> 9]]

SomeRank ==
    [culture \in {"german", None} |-> [name \in Names |->
        IF culture = "german" THEN InGerman[name.country]
                              ELSE AsStrings[name.language][name.country]]]

\* Lists of weighted codes, no code twice.
WeightedLists(codes, weights, length) ==
    {list \in UNION {[1..n -> [value : codes, weight : weights]] : n \in 0..length} :
        \A i, j \in DOMAIN list : list[i].value = list[j].value => i = j}

\* Nothing is left for the part behind the weighted countries.
EveryCountry == <<[value |-> "DE", weight |-> 1], [value |-> "FR", weight |-> 2],
                  [value |-> "GB", weight |-> 1]>>

SomeCodes ==
    [d \in Range(Dimensions) |->
        IF d = "Geographical"
        THEN WeightedLists({"DE", "GB", "ZZ"}, {1, 2}, 3) \cup {EveryCountry}
        ELSE WeightedLists({"FR"}, {1}, 1)]
=============================================================================
