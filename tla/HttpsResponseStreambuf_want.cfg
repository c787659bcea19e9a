SPECIFICATION StreambufSpec
CONSTANTS
  BufferLen = 3
  PutBackLen = 2
  ResponseLen = 12
  Wants = TRUE
  PutsBackAtEof = FALSE
PROPERTY
  WantReadsNothing
