CONSTANTS
  c1 = c1
  c2 = c2
  NoPin = NoPin
  Device = {1, 2}
  Config = {c1}
  Display = {1}
  Retaining = {2}
  Layout = {"blank", "clock"}
  Blank = "blank"
  Pin = {}
  PinOf <- NoPins
  DelayedRemove = TRUE
  Restoring = TRUE
  MaxFaults = 1
  MaxCrashes = 1
  MaxDamage = 0
SPECIFICATION FairSpec
INVARIANTS IndexedRecordsPresent
PROPERTIES SwapAfterCommit FlushSettles
