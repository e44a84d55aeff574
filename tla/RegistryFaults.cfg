CONSTANTS
  c1 = c1
  c2 = c2
  NoPin = NoPin
  Device = {1, 2}
  Config = {c1, c2}
  Display = {}
  Retaining = {2}
  Layout = {"blank"}
  Blank = "blank"
  Pin = {c1, c2}
  PinOf <- OnePinEach
  DelayedRemove = TRUE
  Restoring = FALSE
  MaxFaults = 2
  MaxCrashes = 2
  MaxDamage = 2
SPECIFICATION Spec
INVARIANTS TypeOK StoredRegistryRecoverable CleanIsDurable NoStalePinOwner RecordsMarked NoLiveDeviceForgotten
PROPERTIES BootKeepsReadable RecoveryConverges
