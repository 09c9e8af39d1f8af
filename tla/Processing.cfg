SPECIFICATION Spec
CONSTANTS
  w1 = w1
  w2 = w2
  digital = digital
  scan = scan
  holed = holed
  p = p
  q = q
  r = r
  Versions <- TwoVersions
  Workers <- Runs
  Modes <- AllButReocr
  Limit = 2
  Texts <- AnyText
  OcrTexts = {scan, holed}
  Holed = {holed}
  Misnumbered = {digital}
  Reads <- ReadMixed
  Passages = {p, q, r}
  Split <- Cuts
  MaxEdition = 2
  MaxMade = 0
  NoText = NoText
SYMMETRY RunSymmetry
INVARIANTS NothingIsMissing NothingIsStale
PROPERTY TextStands
