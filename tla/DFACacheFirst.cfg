SPECIFICATION Spec
CONSTANTS
  Thread = {t1, t2}
  Addr = {x1, x2, x3}
  EndText = EndText
  Key <- FirstKey
  Class = {"a", "o"}
  StartKind = {"open", "closed"}
  RangeKind = "closed"
  StartOf <- FirstStartOf
  Delta <- FirstDelta
  MatchKey = {"M"}
  InstKey <- FirstInstKey
  MatchIds <- FirstMatchIds
  AccelKind = {"open"}
  SkipClass = {"o"}
  Cost <- FirstCost
  StateBudget = 3
  BailFactor = 1
  SizeMod = 16
  ManyMatch = FALSE
  Forward = TRUE
  MaxText = 3
  Requests <- FirstRequests
  DeadState = DeadState  FullMatchState = FullMatchState
  NULL = NULL  NoPos = NoPos  NoThread = NoThread  Fatal = Fatal
INVARIANTS TypeOK GraphSound NoDuplicateStates
PROPERTIES GraphOnlyGrows RefinesSearch
SYMMETRY Symmetry
