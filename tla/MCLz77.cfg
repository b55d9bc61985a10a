SPECIFICATION Spec
CONSTANTS
  Byte = {"a", "b"}
  Hash <- HashDef
  MinMatch = 3
  MaxMatch = 5
  MaxDistance = 4
  RingSize = 5
  MaxWalks = 5
  LazyThreshold = 2
  FarDistance = 2
  MaxInput = 11
INVARIANTS ChainsExact WalkFindsLongest TokensExpandToInput TokensEncodable
PROPERTY Termination
CHECK_DEADLOCK FALSE
