------------------------------- MODULE OneWireBus -------------------------------
(***************************************************************************)
(* A OneWire bus (OneWireBusDevice) with a DS18B20 sensor on it.  Both are *)
(* ticked every 100 ms; deadlines are not counted, each tick finds them    *)
(* reached or not.  Another sensor with the same address, a twin, may be   *)
(* configured on the bus and taken away again.                             *)
(***************************************************************************)
EXTENDS BusLifecycle

CONSTANT MaxOneWireEvents    \* bound: configuration changes of the bus, the sensor and the twin, and scans

ASSUME OneWireAssumption == MaxOneWireEvents \in Nat

VARIABLES
  oneWire,         \* OneWireBusDevice; driver: is it begun on the configured pin, not on one the
                   \* bus had before? scanning: scan_.inProgress
  ds,              \* Ds18b20TemperatureSensorDevice; last: lastDependencyGeneration_, errors:
                   \* consecutiveErrors_, shown: does it show a reading? asked: observer, the
                   \* generation under which the pending conversion was asked for
  oneWireFirst,    \* is the bus ticked before the sensor? (the order of the ids)
  twin,            \* is there a twin?
  probe,           \* where the sensor answers: on the configured pin, on the one the driver is
                   \* left on, or nowhere
  oneWireEvents    \* bound

Wirings == {"configured", "left", "nowhere"}

oneWireVars == <<oneWire, ds, oneWireFirst, twin, probe, oneWireEvents>>
-------------------------------------------------------------------------------
(* OneWireBusDevice *)
\* beginDependencyTransaction() of a bus that is Ready; a sensor that has one
\* ends it in the same tick.
LendsWire(b) == ~b.scanning /\ ~Unwanted(b) /\ ~b.reconf

\* end() only depowers: the driver stays begun on the old pin, and a scan in progress.
endWire(b) == [b EXCEPT !.driver = FALSE]

startWireScan(b) == [b EXCEPT !.scanning = TRUE, !.state = "Scanning"]
-------------------------------------------------------------------------------
(* Ds18b20TemperatureSensorDevice *)
OrTwin(d, next) == IF twin THEN Goto(d, "Faulted", "Faulted") ELSE next

DsSteady(d, b, next) == Steady(d, b, OrTwin(d, next))

DsStarting(d, b) == HaltOr(d, b, OrTwin(d, Goto([d EXCEPT !.start = FALSE], "PowerUpDelay", "Starting")))

PowerUpDelay(d, b, due) ==
  HaltOr(d, b, OrTwin(d, Goto(d, IF due THEN "ConfigureSensor" ELSE "PowerUpDelay", "Starting")))

ConfigureSensor(d, b, answers) ==
  HaltOr(d, b, OrTwin(d, Transacts(d, LendsWire(b), "Starting", answers,
    Goto([d EXCEPT !.last = b.gen, !.errors = 0], "RequestConversion", "Starting"))))

RequestConversion(d, b, answers) ==
  DsSteady(d, b, Transacts(d, LendsWire(b), "Ready", answers, Goto([d EXCEPT !.asked = b.gen], "WaitConversion", "Ready")))

WaitConversion(d, b, due) == DsSteady(d, b, Goto(d, IF due THEN "ReadScratchpad" ELSE "WaitConversion", "Ready"))

ReadScratchpad(d, b, answers) ==
  DsSteady(d, b, Transacts(d, LendsWire(b), "Ready", answers,
    Goto([d EXCEPT !.shown = TRUE, !.errors = 0], "Ready", "Ready")))

\* RetryBackoff, and Faulted: neither leaves it at once while there is a twin.
DsWaits(d, b, due, status) == HaltOr(d, b, IF twin /\ ~d.reconf THEN Goto(d, "Faulted", "Faulted") ELSE Waits(d, b, due, status))

DsReconfiguring(d, b) ==
  LET q == [d EXCEPT !.reconf = FALSE, !.last = 0, !.errors = 0]
  IN HaltOr(q, b, OrTwin(q, Goto(q, "Starting", "Reconfiguring")))

\* invalidateReading: with the device, its bus, a twin or an answer; not when the bus is busy.
DsWithdrawn(d, q) ==
  LET kept == /\ q.state \notin {"Disabled", "DependencyBlocked", "Faulted"}
              /\ q.errors <= d.errors
              /\ d.state \notin {"Starting", "Reconfiguring"} /\ (d.state = "Idle" => ~d.start)
  IN [q EXCEPT !.shown = @ /\ kept, !.asked = IF q.state \in {"WaitConversion", "ReadScratchpad"} THEN @ ELSE 0]

DsTick(d, b, due) ==
  LET answers == probe = IF b.driver THEN "configured" ELSE "left"
  IN DsWithdrawn(d,
       CASE d.state = "Starting" -> DsStarting(d, b)
         [] d.state = "PowerUpDelay" -> PowerUpDelay(d, b, due)
         [] d.state = "ConfigureSensor" -> ConfigureSensor(d, b, answers)
         [] d.state = "RequestConversion" -> RequestConversion(d, b, answers)
         [] d.state = "WaitConversion" -> WaitConversion(d, b, due)
         [] d.state = "ReadScratchpad" -> ReadScratchpad(d, b, answers)
         [] d.state = "Ready" -> DsSteady(d, b, Goto(d, IF due THEN "RequestConversion" ELSE "Ready", "Ready"))
         [] d.state = "RetryBackoff" -> DsWaits(d, b, due, "Starting")
         [] d.state = "Faulted" -> DsWaits(d, b, due, "Faulted")
         [] d.state = "Reconfiguring" -> DsReconfiguring(d, b)
         [] OTHER -> QuietTick(d, b, due))
-------------------------------------------------------------------------------
(* The registry *)
RefreshDs(d) == ds' = Refreshed(d, {oneWire'.status})

\* tick100ms.  last: the search finds no further address.
OneWireRound(last, due) ==
  /\ last => oneWire.state = "Scanning"
  /\ UNCHANGED <<oneWireFirst, twin, probe, oneWireEvents>>
  /\ oneWire' = BusTick(oneWire, TRUE, last)
  /\ RefreshDs(DsTick(ds, IF oneWireFirst THEN oneWire' ELSE oneWire, due))

WireEvent == oneWireEvents < MaxOneWireEvents /\ oneWireEvents' = oneWireEvents + 1

\* Another pin ends the driver and starts the machine over.  Whether the sensor is
\* wired to the new pin is a matter of ProbeChanges.
EditWire(enabled, rewired) ==
  LET b == IF rewired THEN resetStateMachine(endWire(oneWire)) ELSE oneWire
  IN /\ WireEvent /\ UNCHANGED <<oneWireFirst, twin, probe>>
     /\ oneWire' = (IF enabled = oneWire.enabled THEN b
                    ELSE IF enabled THEN BusTick(Asked(b, TRUE), TRUE, FALSE)
                    ELSE Asked(b, FALSE))
     /\ RefreshDs(requestReconfigure(ds))

\* Another address or resolution starts the machine of the sensor over.
EditDs(enabled, changed) ==
  LET d == IF changed THEN resetStateMachine(ds) ELSE ds
  IN /\ enabled # ds.enabled \/ changed
     /\ WireEvent /\ UNCHANGED <<oneWire, oneWireFirst, twin, probe>>
     /\ RefreshDs(IF enabled = ds.enabled THEN d
                  ELSE IF enabled THEN DsTick(Asked(d, TRUE), oneWire, TRUE)
                  ELSE Asked(d, FALSE))

ScanWire ==
  /\ WireEvent /\ oneWire.status = "Ready" /\ LendsWire(oneWire)
  /\ oneWire' = startWireScan(oneWire)
  /\ RefreshDs(ds)
  /\ UNCHANGED <<oneWireFirst, twin, probe>>

\* A device with the address of the sensor is created or deleted, or given or taken its address.
TwinChanges ==
  /\ WireEvent
  /\ twin' = ~twin
  /\ UNCHANGED <<oneWire, ds, oneWireFirst, probe>>

\* The sensor falls silent or answers again, or is wired to another pin.
ProbeChanges ==
  /\ probe' \in Wirings \ {probe}
  /\ UNCHANGED <<oneWire, ds, oneWireFirst, twin, oneWireEvents>>
-------------------------------------------------------------------------------
FreshDs(enabled) ==
  IdleTick([state |-> "Idle", status |-> "Creating", start |-> TRUE, reconf |-> FALSE, disable |-> FALSE,
            fault |-> FALSE, enabled |-> enabled, last |-> 0, errors |-> 0, shown |-> FALSE, asked |-> 0])

OneWireInit ==
  /\ oneWire = FreshBus
  /\ \E enabled \in BOOLEAN : ds = FreshDs(enabled)
  /\ oneWireFirst \in BOOLEAN
  /\ twin = FALSE /\ probe = "configured" /\ oneWireEvents = 0

OneWireNext ==
  \/ \E last, due \in BOOLEAN : OneWireRound(last, due)
  \/ \E enabled, changed \in BOOLEAN : EditWire(enabled, changed) \/ EditDs(enabled, changed)
  \/ ScanWire \/ TwinChanges \/ ProbeChanges

EndsWireScan == oneWire.state = "Scanning" /\ OneWireRound(TRUE, TRUE)

\* The main loop ticks for ever, deadlines are reached, and a search comes to its last address.
OneWireSpec == OneWireInit /\ [][OneWireNext]_oneWireVars
  /\ WF_oneWireVars(OneWireRound(FALSE, TRUE))
  /\ WF_oneWireVars(EndsWireScan)
-------------------------------------------------------------------------------
DsStates == States \cup {"PowerUpDelay", "ConfigureSensor", "RequestConversion", "WaitConversion", "ReadScratchpad", "RetryBackoff"}

OneWireTypeOK ==
  /\ oneWire.state \in States \cup {"Scanning"} /\ ds.state \in DsStates
  /\ {oneWire.status, ds.status} \subseteq Statuses
  /\ ds.errors \in 0..FaultThreshold /\ ds.last \in 0..oneWire.gen

\* A temperature is read only under the initialization of the bus under which its
\* conversion was asked for, and with it through the same pin, and never while another
\* sensor on the bus has the same address.  That pin may be one the bus had before.
ReadsItsConversion ==
  [][ds.state = "ReadScratchpad" /\ ds'.state = "Ready" =>
       ds.asked = oneWire'.gen /\ ~twin]_oneWireVars

\* An edit of the pin during a scan: the bus is Ready, and refuses scans and
\* transactions, until the next edit that asks it to reconfigure.
StuckScan == oneWire.scanning /\ oneWire.state # "Scanning"

\* A scan asked for between an edit of the pin and the next tick: the bus goes on
\* with the old pin, and reads a sensor that is still wired to it.
OldPin == oneWire.state \in {"Scanning", "Ready"} /\ ~oneWire.driver

\* The sensor answers on the pin that the bus uses.
WireWell ==
  oneWire.enabled /\ ds.enabled /\ ~StuckScan /\ probe = IF OldPin THEN "left" ELSE "configured"

\* A sensor that answers on the pin in use, of a bus that works, shows nothing, or shows
\* a reading although it has a twin.
SensorWaits == IF twin THEN ds.shown ELSE WireWell /\ ~ds.shown
=================================================================================
