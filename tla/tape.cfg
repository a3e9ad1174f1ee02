SPECIFICATION Spec
CONSTANTS
  Width = 4
  BlocksPerStep = 2
  TapeStep = 2
  Slack = 4
  InitialTape = 6
  Texts <- MCTexts
  Keys <- MCKeys
  Lexed <- MCLexed
INVARIANTS TapeFits Terminated ParserTapeOk
PROPERTY IsScan
CHECK_DEADLOCK FALSE
