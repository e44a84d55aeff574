CONSTANTS
  FaultThreshold = 2
  MaxBusEvents = 2
  MaxOneWireEvents = 3
  Channels = {1, 2, 3}
  AdcSamples = 2
  LastGeneration = 3
  MaxHubEvents = 2
SPECIFICATION SensorsSpec
INVARIANTS SensorsTypeOK ReadsOwnChannel
PROPERTIES ReadsItsOwn SensorsRecover
CHECK_DEADLOCK FALSE
