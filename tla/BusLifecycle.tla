------------------------------ MODULE BusLifecycle ------------------------------
(***************************************************************************)
(* The machine of a bus, and what the devices have in common that work     *)
(* through a device they share with others (BusDependentDeviceBase): an    *)
(* I2C or OneWire bus, or the hub of an analog input.  The shared device b *)
(* has at least a status and a generation gen, which grows with each of    *)
(* its initializations; the user d has, besides the fields of every        *)
(* device, last: the generation it was set up under, and errors: its       *)
(* consecutive errors.                                                     *)
(***************************************************************************)
EXTENDS DeviceLifecycle

CONSTANT FaultThreshold    \* kFaultErrorThreshold

ASSUME UserAssumption == FaultThreshold \in Nat \ {0}

ToReconfiguring(d) == Goto(d, "Reconfiguring", "Reconfiguring")
-------------------------------------------------------------------------------
(* The machine of a bus: I2cBusDevice and OneWireBusDevice, state by state.  *)
(* driver: is it begun with the configured pins? scanning: scan_.inProgress *)
releaseHardware(b) == [b EXCEPT !.driver = FALSE, !.scanning = FALSE]

\* initializeHardware(), ending Ready or Faulted.
Initialized(b, works) ==
  IF works THEN Goto([b EXCEPT !.driver = TRUE, !.gen = @ + 1], "Ready", "Ready")
  ELSE Goto([b EXCEPT !.driver = FALSE, !.fault = TRUE], "Faulted", "Faulted")

BusOff(b) == SwitchedOff(releaseHardware(b))

BusIdle(b) ==
  IF Unwanted(b) THEN BusOff(b)
  ELSE IF b.reconf THEN ToReconfiguring(b)
  ELSE [b EXCEPT !.state = IF b.start THEN "Starting" ELSE "Idle", !.status = "Creating"]

BusStarting(b, works) ==
  IF Unwanted(b) THEN BusOff(b)
  ELSE IF b.reconf THEN ToReconfiguring(b)
  ELSE LET up == Initialized(b, works) IN [up EXCEPT !.start = @ /\ ~works]

BusReady(b) ==
  IF Unwanted(b) THEN BusOff(b)
  ELSE IF b.reconf THEN ToReconfiguring(b)
  ELSE IF b.fault THEN Goto(b, "Faulted", "Faulted")
  ELSE Goto(b, "Ready", "Ready")

\* last: the last address has been tried.
BusScanning(b, last) ==
  IF b.scanning /\ Unwanted(b) THEN BusOff(b)
  ELSE IF b.scanning /\ b.reconf THEN ToReconfiguring([b EXCEPT !.scanning = FALSE])
  ELSE IF b.scanning /\ ~last THEN Goto(b, "Scanning", "Ready")
  ELSE Goto([b EXCEPT !.scanning = FALSE], "Ready", "Ready")

BusDisabled(b) ==
  LET q == releaseHardware(b) IN IF q.reconf THEN ToReconfiguring(q) ELSE SwitchedOff(q)

BusFaulted(b) ==
  LET q == releaseHardware(b)
  IN IF q.reconf THEN ToReconfiguring([q EXCEPT !.fault = FALSE]) ELSE Goto(q, "Faulted", "Faulted")

BusTick(b, works, last) ==
  CASE b.state = "Idle" -> BusIdle(b)
    [] b.state = "Starting" -> BusStarting(b, works)
    [] b.state = "Ready" -> BusReady(b)
    [] b.state = "Scanning" -> BusScanning(b, last)
    [] b.state = "Reconfiguring" -> Initialized(releaseHardware([b EXCEPT !.reconf = FALSE]), works)
    [] b.state = "Disabled" -> BusDisabled(b)
    [] b.state = "Faulted" -> BusFaulted(b)

\* beginDependencyTransaction() of an I2C bus that is Ready: otherwise it is busy.
\* A user that has the bus gives it back in the same tick.
Lends(b) == ~b.disable /\ ~b.reconf /\ b.enabled
-------------------------------------------------------------------------------
(* The users of a shared device *)
\* Where a device stops before it looks at anything else; {} when it may go on.
Halts(d, b) ==
  IF Unwanted(d) THEN {"Disabled"} ELSE IF b.status # "Ready" THEN {"DependencyBlocked"} ELSE {}

HaltOr(d, b, next) ==
  IF Halts(d, b) = {} THEN next ELSE LET s == CHOOSE s \in Halts(d, b) : TRUE IN Goto(d, s, s)

(* Mutant: neither a new initialization of the bus nor a request interrupts. *)
SupersededNever(d, b) == FALSE

\* dependencyGenerationChanged, or a request.
Superseded(d, b) == (d.last # 0 /\ b.gen # d.last) \/ d.reconf

\* The states that go on only with the bus as it was.
Steady(d, b, next) == HaltOr(d, b, IF Superseded(d, b) THEN ToReconfiguring(d) ELSE next)

(* Mutant: the errors are counted without a limit. *)
FailedUncapped(d, status) ==
  LET n == d.errors + 1
  IN Goto([d EXCEPT !.errors = n], IF n >= FaultThreshold THEN "Faulted" ELSE "RetryBackoff", status)

\* recordFailure and where it leads; the status stays for this tick.
Failed(d, status) ==
  LET n == IF d.errors < FaultThreshold THEN d.errors + 1 ELSE d.errors
  IN Goto([d EXCEPT !.errors = n], IF n = FaultThreshold THEN "Faulted" ELSE "RetryBackoff", status)

\* A transaction on a bus that is Ready: lends, is it not busy?
Transacts(d, lends, status, answers, done) ==
  IF ~lends THEN Goto(d, "RetryBackoff", status)
  ELSE IF answers THEN done
  ELSE Failed(d, status)

(* Mutant: a failed device waits for a request. *)
WaitsForRequest(d, b, due, status) ==
  HaltOr(d, b, IF d.reconf THEN ToReconfiguring(d) ELSE [d EXCEPT !.status = status])

\* RetryBackoff and Faulted
Waits(d, b, due, status) ==
  HaltOr(d, b, IF d.reconf THEN ToReconfiguring(d)
               ELSE Goto(d, IF due THEN "Starting" ELSE d.state, status))

UserReconfiguring(d, b) ==
  LET q == [d EXCEPT !.reconf = FALSE, !.start = FALSE, !.last = 0, !.errors = 0]
  IN HaltOr(q, b, Goto(q, "Starting", "Reconfiguring"))

UserDependencyBlocked(d, b) ==
  IF Unwanted(d) THEN SwitchedOff(d)
  ELSE IF b.status = "Ready" /\ (d.reconf \/ d.start \/ d.last = 0) THEN ToReconfiguring(d)
  ELSE Goto(d, "DependencyBlocked", "DependencyBlocked")

UserDisabled(d) == IF d.reconf /\ d.enabled THEN ToReconfiguring(d) ELSE SwitchedOff(d)

\* The states in which nothing is asked of the shared device.
QuietTick(d, b, due) ==
  CASE d.state = "Idle" -> IdleTick(d)
    [] d.state = "RetryBackoff" -> Waits(d, b, due, "Starting")
    [] d.state = "DependencyBlocked" -> UserDependencyBlocked(d, b)
    [] d.state = "Reconfiguring" -> UserReconfiguring(d, b)
    [] d.state = "Disabled" -> UserDisabled(d)
    [] d.state = "Faulted" -> Waits(d, b, due, "Faulted")
-------------------------------------------------------------------------------
\* A bus after its first tick.
FreshBus ==
  IdleTick([state |-> "Idle", status |-> "Creating", start |-> TRUE, reconf |-> FALSE, disable |-> FALSE,
            fault |-> FALSE, enabled |-> TRUE, driver |-> FALSE, gen |-> 0, scanning |-> FALSE])
=================================================================================
