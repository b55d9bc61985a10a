\* Fields up to a word wide, as all callers write them; two words and a bit.
SPECIFICATION Spec
CONSTANTS
  ByteBits = 2
  MaxWidth = 4
  MaxBits = 7
  RootBits = 3
INVARIANTS NoBitLost OutputBeforeCut RoundTrip
INVARIANTS OnlyRealBits TruncatedOnlyAtEnd LookaheadIsTrue
CHECK_DEADLOCK FALSE
