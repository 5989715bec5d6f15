SPECIFICATION Spec
CONSTANTS
  CaseFolds <- MCCaseFolds
  PerlGroups <- MCPerlGroups
  PosixGroups <- MCPosixGroups
  UnicodeGroups <- MCUnicodeGroups
  CaptureRunes <- MCCaptureRunes
  NewLine = 10
  WordChar <- MCWordChar
  kMaxNsub = 4
  MaximumRepeatCount = 10
  Sources <- FoldSources
INVARIANT LettersStayASCII
CHECK_DEADLOCK FALSE
