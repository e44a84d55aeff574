CONSTANTS
  MaxTroubles = 1
  MaxRequests = 2
  CheckInterval = 1
  MinSwitchInterval = 2
  SensorTimeout = 1
  RetryAfterError = 1
  MaxHeaterFaults = 1
  MaxThermoRequests = 1
  DoseMinutes = {0}
  GraceMinutes = 1
  DayMinutes = 2
  RunTicks = 1
  LastDay = 1
  MaxDoserRequests = 1
  MaxUpsets = 1
  Units = {"auto", "thermostat"}
SPECIFICATION ActuatorsSpec
INVARIANTS SwitchHonest NeverBlindForLong
PROPERTIES OffObeyed RecoversWithSwitch OffWithThermostat ColdGetsHeat
CHECK_DEADLOCK FALSE
