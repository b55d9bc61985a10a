SPECIFICATION SpecBlocks
CONSTANTS
  LiteralSymbols = 256
  MainSymbols = 768
  TokenLists <- MCTokenLists
INVARIANTS LengthsInStep EverySymbolHasACode TokensSurvive
