SPECIFICATION Spec
CONSTANTS
  NumberSymbols = 7
  TableSize = 4
  LongestCode = 6
  Frequencies <- Weights
  Limits = {3, 4, 6}
  ReadLengths <- AnyLengths
INVARIANTS LengthsAreOptimal AcceptsCompleteCodes LookupIsCanonical
CHECK_DEADLOCK FALSE
