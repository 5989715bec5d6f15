SPECIFICATION Spec
CONSTANTS
  Thread = {t1, t2}
  Addr = {x1, x2, x3}
  EndText = EndText
  Key <- LongestKey
  Class = {"a", "o"}
  StartKind = {"open", "closed"}
  RangeKind = "closed"
  StartOf <- LongestStartOf
  Delta <- LongestDelta
  MatchKey = {"M"}
  InstKey <- LongestInstKey
  MatchIds <- LongestMatchIds
  AccelKind = {}
  SkipClass = {}
  Cost <- LongestCost
  StateBudget = 6
  BailFactor = 1
  SizeMod = 16
  ManyMatch = FALSE
  Forward = FALSE
  MaxText = 4
  Requests <- ChainRequests
  DeadState = DeadState  FullMatchState = FullMatchState
  NULL = NULL  NoPos = NoPos  NoThread = NoThread  Fatal = Fatal
PROPERTIES SlowSearchGivesUp
