\* Pages of one passage, the second of which is past the candidates of the first.
CONSTANTS
  law = law
  decree = decree
  scan = scan
  word = word
  other = other
  t1 = t1
  t2 = t2
  t3 = t3
  t4 = t4
  place = place
  Passages <- Rows
  Texts <- TheTexts
  TextOf <- TheTextOf
  Versions <- TheVersions
  VersionOf <- TheVersionOf
  Documents = {law, decree}
  DocumentOf <- TheDocumentOf
  PlaceOf <- ThePlaceOf
  NoPlace = NoPlace
  Forms = {t3}
  RrfK = 60
  Pool = 1
  Limit = 1
  Located = {1, 2, 3, 5}
  FarFrom = 2
  Recut <- TheRecut
  Corpora <- TheCorpora
  Reported = {"EFFECTIVE", "EXPIRED"}
  Questions <- TheQuestions
  Claims <- TheClaims
  Invented = Invented
SPECIFICATION Spec
INVARIANT PagesAgree
CHECK_DEADLOCK FALSE
