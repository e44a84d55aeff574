CONSTANTS
  c1 = c1
  c2 = c2
  NoPin = NoPin
  Device = {1, 2}
  Config = {c1, c2}
  Display = {1}
  Retaining = {}
  Layout = {"blank"}
  Blank = "blank"
  Pin = {c1, c2}
  PinOf <- OnePinEach
  DelayedRemove = FALSE
  Restoring = TRUE
  MaxFaults = 0
  MaxCrashes = 0
  MaxDamage = 0
SPECIFICATION Spec
INVARIANTS NoStalePinOwner
