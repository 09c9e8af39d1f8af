SPECIFICATION Spec
CONSTANTS
  w1 = w1
  w2 = w2
  digital = digital
  scan = scan
  holed = holed
  p = p
  q = q
  r = r
  Versions <- OneVersion
  Workers <- OneRun
  Modes <- Daily
  Limit = 2
  Texts <- AnyText
  OcrTexts = {scan, holed}
  Holed = {holed}
  Misnumbered = {}
  Reads <- ReadMixed
  Passages = {p, q, r}
  Split <- Cuts
  MaxEdition = 2
  MaxMade = 0
  NoText = NoText
INVARIANT HolesAreRecorded
