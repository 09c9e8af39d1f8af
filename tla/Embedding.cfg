SPECIFICATION EmbSpec
CONSTANTS
  w1 = w1
  e1 = e1
  e2 = e2
  digital = digital
  p = p
  q = q
  r = r
  s = s
  Versions <- OneVersion
  Workers <- OneRun
  Modes <- Daily
  Limit = 1
  Texts = {digital}
  OcrTexts = {}
  Holed = {}
  Misnumbered = {}
  Reads <- ReadAll
  Passages = {p, q, r, s}
  Split <- Cuts
  MaxEdition = 2
  MaxMade = 2
  NoText = NoText
  Embedders <- TwoEmbedders
  PageSize = 2
  BatchSize = 1
  EmbedLimit = 3
SYMMETRY EmbedderSymmetry
INVARIANTS CompleteMeansEmbedded
PROPERTY UnchangedKeepVectors
