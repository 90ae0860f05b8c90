SPECIFICATION MCSpec
CONSTANTS
  Parts = {"upstream"}
  Upstreams = {s1, s2, s3}
  Compressed = {}
  PieceLimit = 1
  UpstreamItems = 4
  UpstreamBytes = 3
  MaxPieces = 1
  OpenTag <- Open2
  CloseTag <- Close3
  JsonPrefixes <- Prefixes3
  Fence = "f"
  Newline = "n"
  SuffixSize = 2
  Marker <- Marker2
  HoldMax = 3
  ErrorPrefix <- Error2
  FilterSetups <- Setups
  FilterLetters <- LettersOf
  MaxLetters = 5
  MaxDelta = 3
  MaxEvents = 2
CHECK_DEADLOCK FALSE
INVARIANT NoCircularWait
