SPECIFICATION Spec
CONSTANTS
  CaseFolds <- MCCaseFolds
  PerlGroups <- MCPerlGroups
  PosixGroups <- MCPosixGroups
  UnicodeGroups <- MCUnicodeGroups
  CaptureRunes <- MCCaptureRunes
  NewLine = 10
  WordChar <- MCWordChar
  kMaxNsub = 4
  MaximumRepeatCount = 10
  Sources <- MCSources
INVARIANTS TypeOK ParseRight PrintedSame SimplifySame CompileSame FlattenSame HintsRight ByteMapSame PrefixRight
CHECK_DEADLOCK FALSE
