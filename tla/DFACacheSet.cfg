SPECIFICATION Spec
CONSTANTS
  Thread = {t1, t2}
  Addr = {x1, x2, x3, x4}
  EndText = EndText
  Key <- SetKey
  Class = {"a", "b"}
  StartKind = {"open", "closed"}
  RangeKind = "closed"
  StartOf <- SetStartOf
  Delta <- SetDelta
  MatchKey <- SetMatchKey
  InstKey <- SetInstKey
  MatchIds <- SetMatchIds
  AccelKind = {}
  SkipClass = {}
  Cost <- SetCost
  StateBudget = 6
  BailFactor = 1
  SizeMod = 16
  ManyMatch = TRUE
  Forward = TRUE
  MaxText = 3
  Requests <- SetRequests
  DeadState = DeadState  FullMatchState = FullMatchState
  NULL = NULL  NoPos = NoPos  NoThread = NoThread  Fatal = Fatal
PROPERTIES RefinesSearch
SYMMETRY Symmetry
