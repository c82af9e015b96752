SPECIFICATION Spec
CONSTANTS
  MaxDepth = 2
  MaxName = 3
  Undefined = Undefined
  Guess <- MCGuess
  JsonOf <- MCJsonOf
  Interval = 2
  MaxLine = 3
  MaxIndent = 1
  EditorBytes = 4
  EditorLines = 2
  HeadBytes = 3
  SniffLen = 4
  Ascii <- MCAscii
  Alphabets <- MCAlphabets
  MaxText = 5
  MaxPlace = 2
  LiveBytes = 4
  Octets <- MCOctets
  MaxChunk = 2
  MaxStream = 6
  Letters = {"x", "y", "z"}
  Texts <- MCTexts
  MaxDetail = 5
  MaxVariables = 3
  MaxTyped <- MCMaxTyped
  MaxOps = 3
  Days <- MCDays
  MaxDays = 800
  Parts = {"braces", "names", "ops", "json", "path", "argv", "request", "stream", "text", "literal", "mask", "days"}
CHECK_DEADLOCK FALSE
INVARIANTS
  NamesReported
  DateFollows
  OperationsDoAsReported
  ParamsStayInPlace
  CodeMeansRequest
  ChunksDoNotMatter
  TextsStayWhole
  SecretsAreMasked
