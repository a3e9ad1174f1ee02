SPECIFICATION Spec
CONSTANTS
  SimdBytes = 16
  StorageSize = 2048
  SeedsPerLength = 16
  KeyLists <- MCKeyLists
  Spellings <- MCSpellings
  Following <- MCFollowing
INVARIANTS SoundTableFindsTheKey OtherKeysAreSkipped
CHECK_DEADLOCK FALSE
