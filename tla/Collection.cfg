SPECIFICATION FairSpec
CONSTANTS
  daily = daily
  manual = manual
  d1 = d1
  d2 = d2
  d3 = d3
  d4 = d4
  na = na
  nb = nb
  nd = nd
  ne = ne
  fa = fa
  ga = ga
  fd = fd
  fe = fe
  fs = fs
  Items <- SixItems
  Ministry <- FirstTwo
  Seed = {6}
  NumberOf <- Listing
  FileOf <- Serves
  TitleOf <- Titled
  Broken = {3}
  Numbers = {na, nb, nd, ne}
  Files = {fa, ga, fd, fe, fs}
  Curated = {nb}
  Protected = {nd}
  Corrections <- Renumbering
  Limit = 2
  Collectors = {daily, manual}
  KindsOf <- ByHand
  Steady = {daily}
  DocIds = {d1, d2, d3, d4}
  NoDoc = NoDoc
  NoNumber = NoNumber
INVARIANTS EveryDocumentHasAFile RawIsStored
PROPERTIES CollectedStays EveryNumberIsCollected
