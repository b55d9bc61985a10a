\* Two byte values, a window of 3, output longer than the window, and several
\* code-length arrays, so that a stale table differs from a current one.
SPECIFICATION Spec
CONSTANTS
  Zero = zero
  Byte = {zero, one}
  WindowSize = 3
  MinMatch = 2
  MaxMatch = 3
  MaxBlock = 3
  MaxOut = 4
  ZeroLens = z
  GoodLens = {g, h}
  Lens = {z, g, h}
  NoTable = none
INVARIANTS WindowMirrorsHistory MatchWithinBlock CallAccounting BlockAccounting
INVARIANTS OneShotExact FreshTables AlignedTableCurrent ReuseHasTable
PROPERTIES RefinesHistory CallReturns
CHECK_DEADLOCK FALSE
