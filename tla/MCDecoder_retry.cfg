\* A caller that goes on after an error in a block header.
SPECIFICATION Spec
CONSTANTS
  Zero = zero
  Byte = {zero}
  WindowSize = 2
  MinMatch = 2
  MaxMatch = 3
  MaxBlock = 3
  MaxOut = 4
  ZeroLens = z
  GoodLens = {g, h}
  Lens = {z, g, h}
  NoTable = none
INVARIANT TableMatchesLengths
CHECK_DEADLOCK FALSE
