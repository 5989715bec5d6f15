SPECIFICATION Spec
CONSTANTS
  CaseFolds <- MCCaseFolds
  NewLine = 10
  WordChar <- MCWordChar
  kMaxNsub = 65535
  ProgOf <- MCProgOf
  Patterns = {}
  Objects <- Constructed
  AnswerTo <- Best
  Meaning <- MeaningOfTree
  Calls <- MCCalls
  kSmallText = 2
  kTinyText = 1
  kBitStateInsts = 12
  kBitStateBitmapMaxSize = 20
  kVecSize = 17
  NoPattern <- MCNoPattern
  SetPatterns = {}
  SetTexts <- MCSetTexts
  SetFlags <- SetPF
  SetRoom = 40
  kMaxSet = 3
  ToLower <- MCToLower
  kMaxInfoVisits = 100000
  kMaxParents = 9
  FilterPatterns <- PrunedPatterns
  FilterTexts <- PrunedTexts
  MinAtomLens = {2}
  kMaxFiltered = 1
INVARIANTS FilterRight
