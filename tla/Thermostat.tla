------------------------------- MODULE Thermostat -------------------------------
(***************************************************************************)
(* ThermostatDevice with the switch of its heater and the temperature      *)
(* sensor it reads.  Every pass of the main loop ticks the switch; every   *)
(* 100 ms a pass ticks the thermostat too, which is the unit of time here. *)
(* Time stamps are kept as the time that is left or gone by; the stamps    *)
(* that mean "never" (0) are not confused with a time here.                *)
(***************************************************************************)
EXTENDS OutputDevice

CONSTANTS
  CheckInterval, MinSwitchInterval, SensorTimeout, RetryAfterError,   \* ThermostatDeviceConfigV1
  MaxHeaterFaults,    \* bound: writes that the hardware refuses
  MaxThermoRequests   \* bound: configuration changes and commands

ASSUME ThermostatAssumption ==
  /\ {CheckInterval, MinSwitchInterval, SensorTimeout, RetryAfterError} \subseteq Nat \ {0}
  /\ {MaxHeaterFaults, MaxThermoRequests} \subseteq Nat

VARIABLES
  heater,      \* AbstractOutputDevice
  thermo,      \* ThermostatDevice
  sensor,      \* status of the sensor and its reading, relative to the band and the safe range
  heaterTicked,    \* the pass has ticked the switch already
  heaterFaults, thermoRequests,   \* bounds
  touched,     \* observer: someone else has changed what the switch drives
  blindFor     \* observer: 100 ms ticks in a row with the heater on and no reading to justify it,
               \* since the last fault of the heater, edit or command

thermoVars ==
  <<heater, thermo, sensor, heaterTicked, heaterFaults, thermoRequests, touched, blindFor>>

Readings == {"invalid", "unsafe", "low", "mid", "high"}
ThermoModes == {"Off", "Heat", "Cool"}
ThermoStates == States \cup {"CheckTemperature", "ApplyOutput", "RetryBackoff"}
SensorStatuses == {"Ready", "Reconfiguring", "Faulted", "Disabled"}

Hot == TRUE \in heater.pin
Grounds == sensor.status = "Ready" /\ sensor.reading \in {"low", "mid", "high"}

WaitCap == 2 * (CheckInterval + MinSwitchInterval + SensorTimeout) + 4 * (MaxThermoRequests + 1)   \* bound of blindFor
Less(n) == IF n = 0 THEN 0 ELSE n - 1
More(n, cap) == IF n = cap THEN n ELSE n + 1
-------------------------------------------------------------------------------
(* ThermostatDevice: what a tick does to the thermostat t and to the switch. *)

\* Time goes by between two ticks: the deadlines come nearer.
Aged(t) ==
  [t EXCEPT !.next = Less(@), !.retry = Less(@), !.sinceSwitch = More(@, MinSwitchInterval),
            !.invalidFor = {More(n, SensorTimeout) : n \in @}]

minSwitchIntervalElapsed(t) == t.sinceSwitch = MinSwitchInterval

\* Does the switch take the value v?
Takes(v, hw) == Accepts(heater) /\ (v = heater.on \/ hw # "noWrite")

(* Mutant: the safe state is only wished for. *)
requestSafeOffOnce(t, hw) ==
  [thermo |-> [t EXCEPT !.safety = TRUE, !.pending = FALSE, !.desired = FALSE, !.actual = FALSE],
   heater |-> IF t.desired THEN requestOutputState(heater, FALSE, hw) ELSE heater]

requestSafeOff(t, hw) ==
  LET off == [t EXCEPT !.safety = TRUE, !.pending = FALSE]
  IN [thermo |-> IF Takes(FALSE, hw) THEN [off EXCEPT !.desired = FALSE, !.actual = FALSE] ELSE off,
      heater |-> requestOutputState(heater, FALSE, hw)]

SafeOffTo(t, state, hw) == requestSafeOff(Goto(t, state, state), hw)
Quiet(t) == [thermo |-> t, heater |-> heater]

\* What stops a thermostat: its own requests, a disabled dependency, one that is not ready.
ThermoDeps == {sensor.status, heater.status}
Stops(t) ==
  IF Unwanted(t) \/ "Disabled" \in ThermoDeps THEN {"Disabled"}
  ELSE IF ThermoDeps # {"Ready"} THEN {"DependencyBlocked"}
  ELSE {}

ThermoIdle(t, hw) ==
  IF Unwanted(t) THEN SafeOffTo(t, "Disabled", hw)
  ELSE Quiet([t EXCEPT !.state = IF t.start THEN "Starting" ELSE "Idle", !.status = "Creating"])

Stop(t, hw) == SafeOffTo(t, CHOOSE s \in Stops(t) : TRUE, hw)

ThermoStarting(t, hw) ==
  IF Stops(t) # {} THEN Stop(t, hw)
  ELSE Quiet(Goto([t EXCEPT !.start = FALSE, !.reconf = FALSE, !.fault = FALSE, !.next = 0, !.retry = 0,
                            !.safety = FALSE, !.pending = FALSE, !.desired = heater.on,
                            !.actual = heater.on], "Ready", "Ready"))

\* What the output is believed to be stays as it was.
ThermoReconfiguring(t, hw) ==
  LET q == [t EXCEPT !.reconf = FALSE, !.fault = FALSE]
  IN IF Stops(q) # {} THEN Stop(q, hw)
     ELSE Quiet(Goto([q EXCEPT !.next = 0, !.retry = 0], "Ready", "Ready"))

ThermoReady(t, hw) ==
  IF Stops(t) # {} THEN Stop(t, hw)
  ELSE IF t.reconf THEN Quiet(Goto(t, "Reconfiguring", "Ready"))
  ELSE IF t.fault THEN Quiet(Goto(t, "Faulted", "Faulted"))
  ELSE Quiet(Goto(t, IF t.next > 0 THEN "Ready" ELSE "CheckTemperature", "Ready"))

(* Mutant: the modes are swapped. *)
desiredStateSwapped(t) ==
  CASE t.mode = "Off" -> FALSE
    [] t.mode # "Off" /\ sensor.reading = "mid" -> t.desired
    [] OTHER -> (sensor.reading = "low") = (t.mode = "Cool")

desiredStateForTemperature(t) ==
  CASE t.mode = "Off" -> FALSE
    [] t.mode # "Off" /\ sensor.reading = "mid" -> t.desired
    [] OTHER -> (sensor.reading = "low") = (t.mode = "Heat")

\* Faulted, with the back-off armed.
ThermoFails(t) == Quiet(Goto([t EXCEPT !.retry = RetryAfterError], "Faulted", "Faulted"))
CheckLater(t, ticks) == Quiet(Goto([t EXCEPT !.next = ticks], "Ready", "Ready"))
UntilSwitchable(t) == MinSwitchInterval - t.sinceSwitch

(* Mutant: each failed read starts the timeout over. *)
InvalidReadingAfresh(t) ==
  LET q == [t EXCEPT !.invalidFor = {0}]
  IN CheckLater(q, CheckInterval)

InvalidReading(t) ==
  LET q == [t EXCEPT !.invalidFor = IF @ = {} THEN {0} ELSE @]
  IN IF q.invalidFor = {SensorTimeout} THEN ThermoFails(q) ELSE CheckLater(q, CheckInterval)

CheckTemperature(t) ==
  LET q == [t EXCEPT !.invalidFor = {}]
      wanted == desiredStateForTemperature(t)
      p == [q EXCEPT !.pending = wanted, !.safety = FALSE]
  IN CASE sensor.reading = "invalid" -> InvalidReading(t)
       [] sensor.reading = "unsafe" -> ThermoFails(q)
       [] OTHER ->
            IF wanted = t.desired
            THEN IF t.actual # t.desired THEN Quiet(Goto(p, "ApplyOutput", "Ready"))
                 ELSE CheckLater(p, CheckInterval)
            ELSE IF ~minSwitchIntervalElapsed(p) THEN CheckLater(p, UntilSwitchable(p))
            ELSE Quiet(Goto(p, "ApplyOutput", "Ready"))

\* The switch has taken the pending state; requestSwitchOutput.
Switched(t, hw) ==
  [thermo |-> Goto([t EXCEPT !.desired = t.pending, !.actual = t.pending, !.safety = FALSE,
                             !.next = CheckInterval,
                             !.sinceSwitch = IF t.safety THEN @ ELSE 0], "Ready", "Ready"),
   heater |-> requestOutputState(heater, t.pending, hw)]

ApplyOutput(t, hw) ==
  IF Stops(t) # {} THEN Stop(t, hw)
  ELSE IF ~t.safety /\ ~minSwitchIntervalElapsed(t) /\ t.pending # t.desired
       THEN CheckLater(t, UntilSwitchable(t))
  ELSE IF Takes(t.pending, hw) THEN Switched(t, hw)
  ELSE [ThermoFails(t) EXCEPT !.heater = requestOutputState(heater, t.pending, hw)]

\* The states that ask for the safe state in every tick.
ThermoRetryBackoff(t, hw) ==
  IF Stops(t) # {} THEN Stop(t, hw)
  ELSE requestSafeOff(Goto(t, IF t.retry > 0 THEN "RetryBackoff" ELSE "Reconfiguring", "Faulted"), hw)

ThermoDependencyBlocked(t, hw) ==
  IF Stops(t) # {} THEN Stop(t, hw) ELSE SafeOffTo(t, "Reconfiguring", hw)

ThermoDisabled(t, hw) ==
  requestSafeOff(Goto(t, IF Unwanted(t) \/ ThermoDeps # {"Ready"} THEN "Disabled" ELSE "Reconfiguring",
                      "Disabled"), hw)

ThermoFaulted(t, hw) ==
  IF Unwanted(t) THEN SafeOffTo(t, "Disabled", hw)
  ELSE requestSafeOff(Goto(t, "RetryBackoff", "Faulted"), hw)

ThermoTick(t, hw) ==
  CASE t.state = "Idle" -> ThermoIdle(t, hw)
    [] t.state = "Starting" -> ThermoStarting(t, hw)
    [] t.state = "Ready" -> ThermoReady(t, hw)
    [] t.state = "Reconfiguring" -> ThermoReconfiguring(t, hw)
    [] t.state = "CheckTemperature" -> CheckTemperature(t)
    [] t.state = "ApplyOutput" -> ApplyOutput(t, hw)
    [] t.state = "RetryBackoff" -> ThermoRetryBackoff(t, hw)
    [] t.state = "DependencyBlocked" -> ThermoDependencyBlocked(t, hw)
    [] t.state = "Disabled" -> ThermoDisabled(t, hw)
    [] t.state = "Faulted" -> ThermoFaulted(t, hw)
-------------------------------------------------------------------------------
(* The registry and the main loop *)
HeaterTrouble(hw) ==
  IF hw = "works" THEN UNCHANGED heaterFaults
  ELSE heater.channel /\ heaterFaults < MaxHeaterFaults /\ heaterFaults' = heaterFaults + 1

AsksThermo == thermoRequests < MaxThermoRequests /\ thermoRequests' = thermoRequests + 1

RefreshedThermo(t) == Refreshed(t, {sensor'.status, heater'.status})

ThermoFastLoop(hw) ==
  /\ HeaterTrouble(hw)
  /\ heater' = OutputTick(heater, TRUE, hw)
  /\ UNCHANGED <<sensor, thermoRequests, touched>>
  /\ blindFor' = IF hw = "works" THEN blindFor ELSE 0
  /\ thermo' = RefreshedThermo(thermo)
  /\ heaterTicked' = TRUE

Thermo100ms(hw) ==
  LET ticked == ThermoTick(Aged(thermo), hw)
  IN /\ heaterTicked
     /\ HeaterTrouble(hw)
     /\ heater' = ticked.heater
     /\ UNCHANGED <<sensor, thermoRequests, touched>>
     /\ thermo' = RefreshedThermo(ticked.thermo)
     /\ heaterTicked' = FALSE
     /\ blindFor' = IF Hot /\ ~Grounds /\ hw = "works" THEN More(blindFor, WaitCap) ELSE 0

\* A new configuration of the thermostat, with another mode or not.
EditThermo(enabled, newMode) ==
  LET t == [thermo EXCEPT !.mode = newMode, !.enabled = enabled]
      begun == ThermoTick(Asked(t, TRUE), "works")
      changed == enabled # thermo.enabled
  IN /\ AsksThermo
     /\ heater' = (IF changed /\ enabled THEN begun.heater ELSE heater)
     /\ UNCHANGED <<sensor, heaterTicked, heaterFaults, touched>>
     /\ blindFor' = 0
     /\ thermo' = RefreshedThermo(IF ~changed THEN t ELSE IF enabled THEN begun.thermo
                                  ELSE Asked(t, FALSE))

EditHeater(enabled, reset, hw) ==
  LET d == IF reset THEN resetStateMachine(Released(heater)) ELSE heater
      changed == enabled # heater.enabled
  IN /\ AsksThermo /\ HeaterTrouble(hw)
     /\ heater' = (IF ~changed THEN d
                   ELSE IF enabled THEN OutputTick(Asked(d, TRUE), TRUE, hw)
                   ELSE Asked(d, FALSE))
     /\ UNCHANGED <<sensor, heaterTicked>>
     /\ touched' = TRUE /\ blindFor' = 0
     /\ thermo' = RefreshedThermo(requestReconfigure(thermo))

\* A command to the switch itself, from the portal or from Home Assistant.
CommandHeater(v, hw) ==
  /\ Accepts(heater)
  /\ AsksThermo /\ HeaterTrouble(hw)
  /\ heater' = requestOutputState(heater, v, hw)
  /\ touched' = TRUE /\ blindFor' = 0
  /\ UNCHANGED <<thermo, sensor, heaterTicked>>

\* The sensor measures something else.
SensorMeasures(reading) ==
  /\ sensor.status = "Ready" /\ sensor.reading # reading
  /\ sensor' = [sensor EXCEPT !.reading = reading]
  /\ UNCHANGED <<heater, thermo, heaterTicked, heaterFaults, thermoRequests, touched, blindFor>>

\* The sensor fails, is edited, or comes back; it has no reading then.
SensorChanges(status) ==
  /\ sensor.status # status
  /\ sensor.status = "Disabled" => status = "Reconfiguring"
  /\ IF sensor.status = "Ready" THEN AsksThermo ELSE UNCHANGED thermoRequests
  /\ sensor' = [status |-> status, reading |-> "invalid"]
  /\ UNCHANGED <<heater, heaterTicked, heaterFaults, touched, blindFor>>
  /\ thermo' = RefreshedThermo(IF sensor.status = "Disabled" THEN requestReconfigure(thermo) ELSE thermo)

Unset == [next |-> 0, retry |-> 0, sinceSwitch |-> MinSwitchInterval, invalidFor |-> {},
          desired |-> FALSE, actual |-> FALSE, pending |-> FALSE, safety |-> FALSE, mode |-> "Heat"]

FreshThermo(enabled) ==
  [f \in DOMAIN Fresh(enabled) \cup DOMAIN Unset |->
     IF f \in DOMAIN Unset THEN Unset[f] ELSE IdleTick(Fresh(enabled))[f]]

ThermoInit ==
  /\ sensor = [status |-> "Ready", reading |-> "invalid"]
  /\ \E channel \in BOOLEAN : heater = OutputTick(FreshOutput(TRUE, channel, FALSE), TRUE, "works")
  /\ thermo \in {FreshThermo(TRUE), FreshThermo(FALSE)}
  /\ heaterTicked = FALSE /\ heaterFaults = 0 /\ thermoRequests = 0
  /\ touched = FALSE /\ blindFor = 0

ThermoNext ==
  \/ \E hw \in Hardware : ThermoFastLoop(hw) \/ Thermo100ms(hw)
  \/ \E e \in BOOLEAN, m \in ThermoModes : EditThermo(e, m)
  \/ \E e, reset \in BOOLEAN, hw \in Hardware : EditHeater(e, reset, hw)
  \/ \E v \in BOOLEAN, hw \in Hardware : CommandHeater(v, hw)
  \/ \E r \in Readings : SensorMeasures(r)
  \/ \E s \in SensorStatuses : SensorChanges(s)

ThermoSpec == ThermoInit /\ [][ThermoNext]_thermoVars
  /\ WF_thermoVars(\E hw \in Hardware : ThermoFastLoop(hw))
  /\ WF_thermoVars(\E hw \in Hardware : Thermo100ms(hw))
-------------------------------------------------------------------------------
ThermoTypeOK ==
  /\ heater \in Outputs /\ thermo.state \in ThermoStates
  /\ {thermo.status, sensor.status} \subseteq Statuses /\ sensor.reading \in Readings
  /\ thermo.next \in 0..(CheckInterval + MinSwitchInterval) /\ thermo.retry \in 0..RetryAfterError

LongestWait == IF CheckInterval > MinSwitchInterval THEN CheckInterval ELSE MinSwitchInterval

\* As long as the switch takes every write: however the sensor fails and whoever has
\* switched the heater on, it is off again after the longest wait for the next check,
\* the timeout of the sensor and a few ticks; an edit, or a sensor that is away for a
\* moment, adds two ticks at most.
NeverBlindForLong ==
  heaterFaults = 0 => blindFor <= LongestWait + SensorTimeout + CheckInterval + 5 + 2 * thermoRequests

\* A thermostat that is switched off has switched its heater off.
OffWithThermostat ==
  ~thermo.enabled /\ heaterFaults = 0 ~> ~Hot \/ thermo.enabled \/ heaterFaults # 0

\* When it is too cold the heater is switched on, unless somebody else has
\* switched it before.
Cold ==
  /\ sensor = [status |-> "Ready", reading |-> "low"]
  /\ thermo.enabled /\ thermo.mode = "Heat" /\ heater.enabled /\ heater.status # "Faulted"
ColdGetsHeat == Cold /\ ~touched ~> Hot \/ ~Cold \/ touched
=================================================================================
