----------------------------- MODULE MCActuators -----------------------------
(***************************************************************************)
(* Model checking of the devices that control a switch, each with the      *)
(* devices it depends on.  As in MCConnectivity, a behaviour is one of one *)
(* unit, chosen at the start, while the others rest in one fixed initial   *)
(* state.  The pump is two units: "dosing" has the clock run, and one      *)
(* request, "editing" stops the clock for as many requests and upsets as   *)
(* MaxDoserRequests says.                                                  *)
(***************************************************************************)
EXTENDS AutoSwitch, Thermostat, DosingPump

CONSTANT Units    \* those that are looked at, of auto, thermostat, dosing and editing

VARIABLE unit

actuatorsVars == <<unit, autoVars, thermoVars, dosingVars>>

PumpUnits == {"dosing", "editing"}

Rests ==
  /\ unit # "auto" => ~lamp.channel /\ mode = "Off" /\ ~auto.enabled
  /\ unit # "thermostat" => ~heater.channel /\ thermo.enabled
  /\ unit \notin PumpUnits => ~motor.channel

ActuatorsInit ==
  /\ unit \in Units
  /\ AutoInit /\ ThermoInit /\ DosingInit
  /\ Rests

AutoStep == unit = "auto" /\ AutoNext /\ UNCHANGED <<unit, thermoVars, dosingVars>>
ThermoStep == unit = "thermostat" /\ ThermoNext /\ UNCHANGED <<unit, autoVars, dosingVars>>
DosingStep ==
  /\ unit \in PumpUnits /\ DosingNext /\ UNCHANGED <<unit, autoVars, thermoVars>>
  /\ unit = "dosing" => doserRequests' <= 1
  /\ unit = "editing" => wall'.minute = wall.minute
                         /\ doserRequests' + upsets' + boardTroubles' <= MaxDoserRequests

ActuatorsNext == AutoStep \/ ThermoStep \/ DosingStep

\* The fairness of the specification of each unit, when it is the one that runs.
ActuatorsFairness ==
  /\ WF_autoVars(unit = "auto" /\ \E hw \in Hardware : tickFastLoop(hw))
  /\ WF_autoVars(unit = "auto" /\ \E hw \in Hardware, active \in BOOLEAN : tick1s(FALSE, active, hw))
  /\ WF_thermoVars(unit = "thermostat" /\ \E hw \in Hardware : ThermoFastLoop(hw))
  /\ WF_thermoVars(unit = "thermostat" /\ \E hw \in Hardware : Thermo100ms(hw))
  /\ WF_dosingVars(unit \in PumpUnits /\ \E hw \in Hardware : MotorTick(hw))
  /\ WF_dosingVars(unit \in PumpUnits /\ TicksDoser)

ActuatorsSpec == ActuatorsInit /\ [][ActuatorsNext]_actuatorsVars /\ ActuatorsFairness

\* Every variable of every unit holds a value of its type.
ActuatorsTypeOK == AutoTypeOK /\ ThermoTypeOK /\ DosingTypeOK
================================================================================
