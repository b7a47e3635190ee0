\* One request that may ask for English.
CONSTANTS
  Countries <- SomeCountries
  Sentinel = "ZZ"
  Languages = {"german", "cornish"}
  WithLocale = {"german"}
  English = "english"
  Translations <- SomeTranslations
  Rank <- SomeRank
  CodesOf <- SomeCodes
  Blank = Blank
  None = None
  EvidenceValues = {Blank, "english", "german"}

SPECIFICATION Spec

INVARIANT
  QueryTranslationWins

CHECK_DEADLOCK FALSE
