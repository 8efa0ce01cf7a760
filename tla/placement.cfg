\* Every small ledger is loaded, and every small request settled, in one go.
CONSTANTS
  MaxPort = 6
  Ledgers <- SmallLedgers
  Configs <- SmallConfigs
  Offsets <- SmallOffsets
  Occupations <- UpToTwo
  Requests <- SmallRequests
SPECIFICATION PlacementSpec
CHECK_DEADLOCK FALSE
INVARIANTS VerdictExact SettledRight ExhaustedRight SavedLedgerLoads
