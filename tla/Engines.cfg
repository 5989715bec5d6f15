SPECIFICATION FairSpec
CONSTANTS
  ProgOf <- MCProgOf
  NewLine <- MCNewLine
  WordChar <- MCWordChar
  Queries <- EngineQueries
INVARIANTS NeverTwice CapturesUndone RefsExact RoomForAll
PROPERTIES RefinesMatching Ends
CHECK_DEADLOCK FALSE
