CONSTANTS
  c1 = c1
  c2 = c2
  NoPin = NoPin
  Device = {1, 2}
  Config = {c1}
  Display = {1}
  Retaining = {}
  Layout = {"blank", "clock"}
  Blank = "blank"
  Pin = {}
  PinOf <- NoPins
  DelayedRemove = FALSE
  Restoring = FALSE
  MaxFaults = 0
  MaxCrashes = 0
  MaxDamage = 0
SPECIFICATION Spec
INVARIANTS LayoutsMarked
