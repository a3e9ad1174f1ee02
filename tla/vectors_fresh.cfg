SPECIFICATION Spec
CONSTANTS
  Members = {kept, moved}
  Copied = {kept}
  Values = {v, w}
  Default = Default
  MaxElements = 2
INVARIANT MissingIsUntouched
