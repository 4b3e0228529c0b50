SPECIFICATION Spec
CONSTANTS
  CommonTypes = {{"CODE"}, {"INTR"}, {"READ_UNMAPPED", "WRITE_UNMAPPED"}, {"READ_UNMAPPED"}}
  Addrs = {0, 1}
  Ranges <- MCRanges
  Handles = {h1, h2, h3}
  NoHandle = NoHandle
  MaxId = 3
SYMMETRY MCSymmetry
INVARIANTS DispatchersAreKnown SilentOnlyAfterFailedClear EveryHookFiresOnce FaultsAreCaughtByHooks
