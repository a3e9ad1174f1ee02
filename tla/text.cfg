SPECIFICATION JsonTextSpec
CONSTANTS
  Widths <- MCWidths
  Texts <- MCTexts
  Before <- MCBefore
  StepBytes = 3
  Steps <- MCSteps
  Tails <- MCTails
  Values <- MCValues
  Rests <- MCRests
INVARIANTS Decodes RefusesOnlyBad ValidatesUtf8 BufferFits ExactlyUtf8 StringsReadBack
PROPERTY EveryTurnAdvances
