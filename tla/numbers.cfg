SPECIFICATION Spec
CONSTANTS
  Width = 10
  CountWidth = 4
  ExpCap = 40
  InfiniteFrom = 102400
  GroupSize = 2
  Texts <- MCTexts
  Values <- MCValues
INVARIANTS IntegersExact DecimalsTruncate OnlyNumbers FloatDigits PrintsBack
CHECK_DEADLOCK FALSE
