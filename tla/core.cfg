SPECIFICATION CoreSpec
CONSTANTS
  Keys <- MCKeys
  Documents <- First
  Again <- Second
  Received <- MCDocs
  MaxCalls = 2
  MaxDepth = 3
  IndentSize = 3
INVARIANTS MinifyKeepsTokens RoundTrip AnswerMatchesErrors WellFormedPasses AcceptedHasShape FormattingKeepsValidity
CHECK_DEADLOCK FALSE
