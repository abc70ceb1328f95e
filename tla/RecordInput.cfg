SPECIFICATION FairInputSpec
CONSTANTS
  Word = 2
  Items32 <- MCItems32
  Items64 <- MCItems64
  Formats <- MCFormats
  HostLittle = TRUE
  Magic <- MCMagic
  Magics <- MCMagics
  MaxChunk = 24
  BeginMark <- MCBegin
  PlainBegin <- MCPlain
  ZlibBegin <- MCZlib
  EndMark <- MCEnd
  EndMarkZlib <- MCEndZlib
  Inputs <- MCInputs
  Deflated = 5
  Room = 2
  MaxRead = 60
INVARIANTS NothingStaysBehind FailureEarned
PROPERTIES FeedsStream InputEnds
CHECK_DEADLOCK FALSE
