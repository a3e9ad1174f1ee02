SPECIFICATION Spec
CONSTANTS
  a = a
  b = b
  NUL = NUL
  Raw = Raw
  Chars = {a, b}
  Texts <- AllTexts
  Sizes <- AllSizes
  Capacities <- AllCapacities
  NewerSize = 2
  MaxSize = 1000
  InlineSize = 1
  BufferSize = 3
  MaxLength = 4
  Alignment = 2
  HugePageSize = 4
  HugePageThreshold = 8
INVARIANTS Fits FreedAsAllocated
PROPERTIES TerminatorFollows Implements
