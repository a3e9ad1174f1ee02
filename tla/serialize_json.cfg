SPECIFICATION Spec
CONSTANTS
  Types <- MCTypes
  Schema <- MCSchema
  Keys <- MCKeys
  Arguments <- MCArguments
  IndentSize = 3
  TableDepth = 2
INVARIANTS ProducesJson
CHECK_DEADLOCK FALSE
