CONSTANTS
  c1 = c1
  c2 = c2
  NoPin = NoPin
  Device = {1, 2}
  Config = {c1}
  Display = {}
  Retaining = {}
  Layout = {"blank"}
  Blank = "blank"
  Pin = {}
  PinOf <- NoPins
  DelayedRemove = FALSE
  Restoring = FALSE
  MaxFaults = 1
  MaxCrashes = 0
  MaxDamage = 0
SPECIFICATION Spec
PROPERTIES FailedCreateLeavesNothing
