SPECIFICATION PipelineSpec
CONSTANTS
  w1 = w1
  e1 = e1
  digital = digital
  p = p
  q = q
  Versions <- TwoVersions
  Workers = {w1}
  Modes <- Daily
  Limit = 1
  Texts = {digital}
  OcrTexts = {}
  Holed = {}
  Misnumbered = {}
  Reads <- ReadAll
  Passages = {p, q}
  Split <- Cuts
  MaxEdition = 2
  MaxMade = 2
  NoText = NoText
  Embedders = {e1}
  PageSize = 2
  BatchSize = 1
  EmbedLimit = 1
  RunOf <- OneAtATime
  EmbedRun = e1
  Attempts = 2
PROPERTIES CatchesUp AllEmbedded
