SPECIFICATION ComponentsSpec
CONSTANTS
  MaxGrants = 1
  MaxRotations = 0
  Keys = {"list", "code", "q"}
  Scalars = {"a", "b", "9e9"}
  Strings = {"a", "b"}
  WrittenAs <- WrittenTexts
  Calls <- VisitorCalls
  TypeTables <- VisitorSchema
  MaxEvents = 9
  MaxNesting = 3
  MaxDocuments = 2
  MaxBufferSize = 1073741823
  MaxDepth = 64
  MaxTables = 1000000
  BufferLen = 3
  PutBackLen = 2
  ResponseLen = 12
  Wants = FALSE
  PutsBackAtEof = FALSE
  Inputs <- AlgorithmInputs
INVARIANT RequestBodyIsJson
CHECK_DEADLOCK FALSE
