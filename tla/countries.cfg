\* One request.  It ends, hence no deadlock check.
CONSTANTS
  Countries <- SomeCountries
  Sentinel = "ZZ"
  Languages = {"german", "cornish"}
  WithLocale = {"german"}
  English = "english"
  Translations <- SomeTranslations
  Rank <- SomeRank
  CodesOf <- SomeCodes
  Blank = Blank
  None = None
  EvidenceValues = {Blank, "english", "german", "cornish"}

SPECIFICATION Spec

INVARIANTS
  TypeOK
  EveryCountryOnce
  NamesBelongToCodes
  MostProbableFirst

CHECK_DEADLOCK FALSE
