SPECIFICATION Spec
CONSTANTS
  Keys <- MCKeys
  Schema <- TypesOf
  Types <- MCTypes
  Uses <- MCUses
  MaxDepth = 3
INVARIANTS TypeOK DepthCounts ErrorsAgree NestingBounded AcceptedIsJson ConformingIsAccepted StoresWhatItMeans TableConverges
PROPERTY Terminates
CHECK_DEADLOCK FALSE
