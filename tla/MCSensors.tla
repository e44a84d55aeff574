-------------------------------- MODULE MCSensors --------------------------------
(***************************************************************************)
(* Model checking of the devices that share a bus or a hub.  As in         *)
(* MCConnectivity, a behaviour is one of one unit, chosen at the start,    *)
(* while the others rest in one fixed initial state.                       *)
(***************************************************************************)
EXTENDS I2cBus, OneWireBus, AnalogHub

VARIABLE unit    \* i2c, onewire or hub

sensorsVars == <<unit, busVars, oneWireVars, hubVars>>

Rests ==
  /\ unit # "i2c" => busFirst /\ user = FreshChip(FALSE)
  /\ unit # "onewire" => oneWireFirst /\ ds = FreshDs(FALSE)
  /\ unit # "hub" => hubFirst /\ hub.kind = "mux" /\ leaf = [l \in Inputs |-> FreshLeaf(FALSE, l)]

SensorsInit ==
  /\ unit \in {"i2c", "onewire", "hub"}
  /\ BusInit /\ OneWireInit /\ HubInit
  /\ Rests

I2cStep == unit = "i2c" /\ BusNext /\ UNCHANGED <<unit, oneWireVars, hubVars>>
OneWireStep == unit = "onewire" /\ OneWireNext /\ UNCHANGED <<unit, busVars, hubVars>>
HubStep == unit = "hub" /\ HubNext /\ UNCHANGED <<unit, busVars, oneWireVars>>

SensorsNext == I2cStep \/ OneWireStep \/ HubStep

\* The fairness of the specification of each unit, when it is the one that runs.
SensorsFairness ==
  /\ WF_busVars(unit = "i2c" /\ PlainRound)
  /\ SF_busVars(unit = "i2c" /\ EndsMeasurement)
  /\ WF_busVars(unit = "i2c" /\ EndsScan)
  /\ WF_busVars(unit = "i2c" /\ ChipRound(TRUE))
  /\ WF_oneWireVars(unit = "onewire" /\ OneWireRound(FALSE, TRUE))
  /\ WF_oneWireVars(unit = "onewire" /\ EndsWireScan)
  /\ WF_hubVars(unit = "hub" /\ HubRound({0} \cup Inputs))

SensorsSpec == SensorsInit /\ [][SensorsNext]_sensorsVars /\ SensorsFairness

\* Every variable of every unit holds a value of its type.
SensorsTypeOK == BusTypeOK /\ OneWireTypeOK /\ HubTypeOK

\* What a sensor reads from its bus is what it asked for itself, under the same
\* initialization of the bus.
ReadsItsOwn == ReadsWhatItAsked /\ ReadsItsConversion

\* No device that answers behind buses and hubs that work waits for ever, whatever has
\* failed, been edited or been switched off before: a sensor or a channel of a hub shows a
\* reading, a channel of an expander drives its pin, and a sensor with a twin shows none.
Waiting == UserWaits \/ SensorWaits \/ ChannelWaits
SensorsRecover == Waiting ~> ~Waiting
================================================================================
