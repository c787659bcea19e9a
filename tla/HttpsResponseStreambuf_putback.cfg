SPECIFICATION StreambufSpec
CONSTANTS
  BufferLen = 3
  PutBackLen = 2
  ResponseLen = 12
  Wants = FALSE
  PutsBackAtEof = TRUE
PROPERTY
  PutBackIsLastTaken
