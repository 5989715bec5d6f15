SPECIFICATION Spec
CONSTANTS
  CaseFolds <- MCCaseFolds
  NewLine = 10
  WordChar <- MCWordChar
  kMaxNsub = 1000
  ProgOf <- MCProgOf
  Patterns <- MCPatterns
  Objects <- Constructed
  AnswerTo <- Best
  Meaning <- MeaningOfTree
  Calls <- MCCalls
  kSmallText = 2
  kTinyText = 1
  kBitStateInsts = 12
  kBitStateBitmapMaxSize = 20
  kVecSize = 17
  NoPattern <- MCNoPattern
  SetPatterns <- MCSetPatterns
  SetTexts <- MCSetTexts
  SetFlags <- SetPF
  SetRoom = 40
  kMaxSet = 3
  ToLower <- MCToLower
  kMaxInfoVisits = 12
  kMaxParents = 1
  FilterPatterns <- MCFilterPatterns
  FilterTexts <- MCFilterTexts
  MinAtomLens = {0, 2}
  kMaxFiltered = 3
INVARIANTS AnswersRight ReplacedRight SetRight FilterRight
