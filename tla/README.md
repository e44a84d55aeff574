# Gekko: TLA+ models of the firmware

Gekko is firmware for ESP32 boards. A board runs a set of *devices* (relays,
sensors, displays, thermostats, dosing pumps) that its owner creates, links to
each other, reconfigures and deletes over a web portal. One task, the main loop,
ticks everything; the web server's task, the radio's event task and the network
stack call in between. These modules model the registry of devices with its
flash storage, the machines of the devices with the devices they depend on, and
the parts that connect the board: Wi-Fi, MQTT and time.

Source paths below are relative to `src/src/` of the repository, documents (`*.md`) to
`src/docs-site/src/content/docs/`.

## Inventory

| Component | State | Operations | Talks to | What is hard, what makes it correct |
|---|---|---|---|---|
| Device registry core (`devices/registry/DeviceRegistry.cpp`) | `runtimes_`, `pinOwner_`, the dirty marks, `registryRevision_` | `begin`, `create`, `updateConfigAndDeps`, `setDeps`, `remove`, `applyPersistedStateUpdate`, `command`, `restore`, `flushNow`, `tick*` | portal (async_tcp task), main loop, store | Calls are serialised by a recursive mutex, but a call writes several NVS keys: power losses and failing writes fall in between. Flash is always loadable; what is unsaved is marked. |
| Registry store (`DeviceRegistryStore.cpp`) | NVS keys `version`, `index`, `record_%08x` | `load`, `save`, `saveRecovered`, `saveRecords`, `saveIndex`, `removeRecord` | NVS | Keys are atomic one by one, never together. The index never names a missing record. |
| Persistence coordinator (`DeviceRegistryPersistenceCoordinator.cpp`) | `dirty_`, three sets of dirty ids, `firstDirtyAt_`, `lastChangeAt_` | `mark*`, `clear*`, `markClean`, `shouldFlush` | registry | Wrapping time stamps of two tasks; a summary flag kept by hand. |
| Snapshot validation (`DeviceRegistrySnapshotValidator.cpp`, `DeviceRegistry::validate*`) | none | `validateStructure`, `validateTypedRelationships`, `discardInvalidLoadRelationships` | registry, store | Dependency links are closed and acyclic; boot keeps as much as possible. |
| Scoped and retained data (`DeviceScopedDataStore.cpp`, `DeviceRetainedDataStore.*`, `devices/display/DisplayDeviceBase.cpp`) | layout and retained output per device | load, save, clear | registry | Not covered by the registry's commit; stale data of a former owner of an id. |
| Runtime lifecycle (`devices/core/DeviceRuntimeBase.cpp`) | state, status, pending request flags | `requestStart`, `requestReconfigure`, `requestDisable`, `resetStateMachine` | registry, devices | The registry asks once, the machine answers ticks later; status decides what dependents do. |
| Buses and hubs (`devices/bus`, `devices/analog/input`) | driver, generation, owner of a transaction | ticks, `beginDependencyTransaction`, `pollChannelReading` | sensors, expanders, channels | A result asked for before a new initialization must not be used; one user must not block the others. |
| Switches, thermostat, dosing, schedule (`devices/switch`, `thermostat`, `dosing`, `schedule`) | per-device machines | ticks, commands, edits | registry, hardware, each other | Off must stay off; a motor or heater must not be left running; doses are given once. |
| Event queue and bus (`integrations/common`) | ring buffer of 16 events, sinks | `push`, `pop`, dispatch | registry, MQTT, web socket | Filled from two tasks without a lock; drops when full. |
| Wi-Fi manager, BLE button (`wifi/`) | connection state, pending credentials | `tick`, `submitCredentials`, `clearCredentials` | driver, portal, settings | Check-then-act between tasks; retries and timeouts; a board nobody can reach. |
| Settings (`config/ConfigStore.cpp`) | `config_`, 14 NVS keys | `load`, `save` | Wi-Fi manager, portal | Two tasks save without a lock. |
| MQTT / Home Assistant (`platform/MqttManager.cpp`, `integrations/mqtt`) | session, announced devices | `tick`, event sink | event bus, broker | Reconnect after lost sessions and changed settings; `connect()` blocks. |
| Time (`time/`) | sync state, sources | `tick` | NTP, RTC | Late answers of the resolver; which source may overwrite which. |
| Main loop (`core/App.cpp`) | last tick stamps | `tick` | all | Its `now` is read once per pass. |
| Displays, pixels, codecs, portal transport, OTA, metrics | mostly I/O | - | - | See *Not modelled*. |

The registry calls nobody back while it holds its lock except the runtimes and
the event queue. The portal runs on its own task and takes the lock per public
method, so two calls of one HTTP request are two separate critical sections
(`create` and then `applyPersistedStateUpdate`, for example). A device never calls
the registry: it reads the status of the devices it depends on through pointers
that the registry sets, and the registry passes changes of status on by request
flags after each round of ticks.

## Modules

```
RegistryGraph               records, links, Valid, Survivors            (pure)
  AtomicRegistry            what flash promises; instanced by DeviceRegistry
  RegistryStore             the NVS keys and what one write does
    DeviceRegistry          RAM, every public call, power and faults
      RegistryPromises      two documented promises the code does not keep
        MCDeviceRegistry    small instances for TLC
PersistenceTimer            debounce and cap on a wrapping clock

DeviceLifecycle             the machine and the requests every device has
  OutputDevice              switches on a pin or on an expander's channel
    AutoSwitch Thermostat DosingPump      -> MCActuators
  BusLifecycle              a shared bus, and what its users have in common
    I2cBus OneWireBus AnalogHub           -> MCSensors

ConfigStore - WifiManager, BleProvisioningButton, NtpManager, RtcSync,
DeviceEventQueue - MqttBridge             -> MCConnectivity

RegistryGraph_proofs        lemmas about Put, Drop, Restrict, Valid, Survivors
  DeviceRegistry_proofs - RegistryDurability_proofs - RegistryStructure_proofs
PersistenceTimer_proofs, Connectivity_proofs, Actuators_proofs, Sensors_proofs
```

Three `MC` modules hold several *units* (a unit: one component with what it depends
on, for example a thermostat with its sensor and its heater). Units share no
variable, so their product would show nothing that each does not show alone: in a
behaviour one unit, chosen at the start, runs, and the others rest in one fixed
initial state. Each unit also has a specification of its own (`MqttSpec`,
`RtcSpec`, ...), which is what the theorems are about.

### The registry

**`RegistryGraph`.** A registry is a function from ids to records, a record is a
config payload and a set of ids it depends on. `Valid` is what both validators
accept: every link leads to a record (`Closed`) and no record reaches itself
(`OnCycle`). `Reaches` is stated as a closure, not as the recursive search of
the code. `Survivors` is what `discardInvalidLoadRelationships` keeps at boot:
a link to a missing device stays (its owner shows as blocked), only cycles are
discarded.

**`RegistryStore`.** One variable per kind of key; `Put*` is one NVS write,
`Stored` is what `load` would return to a boot right now. `damaged` marks records
this firmware cannot read (corrupt, unknown type, newer config version).

**`DeviceRegistry`.** A call that writes flash starts with an action that does
everything the code does in RAM up to the first write (`Create`, `SetDeps`,
`Remove*`, `Restore`, `Flush`, `BeginLoad`). Then `pc` walks through the writes:

| `pc` | code | actions |
|---|---|---|
| `records` | `saveRecords`, then the index | `WriteRecord` per id, `WriteIndex`, `SkipIndex` |
| `version` | the version key of `saveIndex` | `WriteVersion` |
| `retained`, `layouts` | the scoped saves of `flushNow` | `SaveRetainedState`, `SavePersistedState` |
| `cleanup` | what follows a successful save | `Finish*` |

Two calls never interleave (mutex); `WriteFails` and `PowerLoss` can come before
any write. `op` names the call, `subject` the ids it creates or cleans up after,
`snapshot` and `todo` what it still has to write. A set of ids written in "some
order" stands for the order of a map or of a bundle. `remove` deletes a layout in
flash before anything else and is refused by the store if the remaining registry
has a dangling link, which the model keeps. A runtime's retained output changes in
ticks, in commands and at the start of a runtime; in each of them the same call
captures it, so the change and its mark are one action, `CaptureRetained`, that may
come at any idle moment.

**`AtomicRegistry`.** One variable, the registry a boot would find; one step adds,
replaces or deletes one device and leaves a valid registry. `DeviceRegistry`
implements it with `reg <- Stored`.

**`PersistenceTimer`.** The clock is a counter modulo `Word`. `StartPass` reads
`now` for a pass of the main loop, the pass ends in `TickFlushes`, `TickFails` or
`TickWaits`; the web server's task stamps changes with the clock of its own.
`age`, `quiet`, `failed` and `foreign` only observe.

**`RegistryPromises`.** Properties quoted from comments and tests, each violated.

### Devices

**`DeviceLifecycle`** has the record every runtime is (state, status, the request
flags), what `requestReconfigure` and its like set, and what
`refreshDependentRuntimeStates` asks of a device whose dependencies changed. An
action of a device module is one round of the registry's ticks, or one call of the
portal, with the refresh that ends it; both hold the registry's lock.

**`OutputDevice`** is `AbstractOutputDevice` as a switch on a GPIO pin or on an
expander's channel uses it: the state shown, the level at the pin, the safe level.
**`AutoSwitch`** adds the auto switch and its schedule; **`Thermostat`** its machine
with the sensor and the heater's switch, time counted in its 100 ms ticks;
**`DosingPump`** its machine, its schedule of the day, the retained marks of the
doses given, power losses and a wall clock that is corrected.

**`BusLifecycle`** is the machine of a bus and what `BusDependentDeviceBase` gives
its users: generations, retries, the error count. **`I2cBus`** puts a
temperature and humidity probe or a PCF857x expander on it, **`OneWireBus`** a
DS18B20 with a twin that may claim its address, **`AnalogHub`** models an ADS1115 or
a multiplexer with two channel devices that poll it in turn. In these, deadlines are
not counted: a tick finds each reached or not.

### Connectivity

**`ConfigStore`** is the settings object with one NVS key per field, saved by two
tasks without a lock. **`WifiManager`** has one action per state and tick and splits
each call of the web server's task where the main loop can come in between.
**`BleProvisioningButton`** samples a level on a wrapping clock; `upFor` and `released`
observe how long the samples have found the button up. **`NtpManager`** is
the exchange with its resolver, whose answer may come after the query was given up.
**`RtcSync`** keeps the errors of both clocks instead of their times.
**`DeviceEventQueue`** is the ring of events, its places counted from `head_`: `enqueue`
of the web server's task and `pop` of the loop each move their index and read the
counter in one step and write it back in another. When the two have met, the counter
no longer fits the indices and everything goes on with it: slots are overwritten, read
torn, read twice or read before they were written (`Found`, `NoEvent`).
**`MqttBridge`** feeds it with the devices' changes and handles what it pops:
`broker` is what the broker retains of each device, `dialing` the time `connect()`
blocks the loop while the portal still changes devices and settings. What is published
of a device for one event, or when a connect announces it, arrives as a whole or not at
all (`failed`), and nobody looks at which.

## Runs

| Run | Shows | Bounds |
|---|---|---|
| `RegistryFaults` | Flash is loadable between any two writes; nothing pending means everything is in flash; marks survive failing saves; no live device is missing from flash; a damaged record costs one device; boot recovery converges; the pin table names no stale owner | 2 devices with any link, 2 configs on 2 pins, 1 retaining, no imports; 2 failing writes, 2 power losses, 2 damages |
| `RegistryStructure` | Existence and links are never left to the debounce; refinement of `AtomicRegistry` | 3 devices, all links, 1 power loss, no failing write |
| `RegistryRestore` | All operations with imports: index names only present records; the swap follows the commit; dirty work settles (liveness) | 2 devices, a display with 2 layouts, a retaining device, 1 failing write, 1 power loss |
| `Timer` | `dirty_` matches the sets; the cap holds; the quiet period holds for the loop's own changes | clock of 16, debounce 4, cap 6, passes of up to 2 |
| `Connectivity` | Wi-Fi: credentials survive a reboot, submissions settle, a board can be reached; button: it rests up between two requests; MQTT: the broker mirrors the registry, settings take effect; NTP: new settings, new exchange; RTC: the chip is not overwritten from a system clock nobody has set, a sync is not lost | 1 network, 2 retries, 1 failing write; clock of 16; 1 device, ring of 2, 1 loss, 1 change of settings; 2 servers; clocks with errors of up to 10 |
| `Switches` | The pin is what the portal shows; off is obeyed; recovery with the dependency; a heater is not on without readings for long and not off in the cold | 1 trouble of the board, 2 requests; 1 refused write, 1 request, intervals of 1 and 2 ticks |
| `Dosing` | The motor turns only in a run and stops again; a dose is given once | 1 dose a day, 2 days of 2 minutes, 1 upset (power loss or clock correction), 1 trouble of the board; `"dosing"`: the clock runs, 1 edit or command; `"editing"`: it stands, 3 edits, commands, upsets and troubles together |
| `Sensors` | A reading is what its device asked for itself; a device behind working buses and hubs does not wait for ever | fault threshold 2, 2 or 3 edits and failures, 3 channels, 2 samples, generations up to 3 |
| `LayoutOrphaned` | finding: an immediate relink clears the mark of a layout it does not write | 2 devices |
| `CreateResurrects` | finding: a create reported as failed is there after a boot | 2 devices, 1 failing write |
| `RestoreLeaksPins` | finding: an import leaks pins | 2 devices, 2 pins |
| `TimerUnderflow` | finding: a change newer than the pass's `now` is flushed at once | as `Timer` |

Why the bounds are enough to be interesting: two devices give every pair of
owner and dependent, of survivor and deleted, and two users of one pin; three give
chains, diamonds minus one edge and cycles longer than two. Two power losses
allow one during normal work and one during the recovery of the first; two
failing writes allow a failed relink to be followed by another. Every write
is a step of its own, so a bound on failures does not restrict where they fall.
Where two devices were too few (see *Seen while modelling*), the theorems, which
have no bounds, showed it. In the device modules one edit, one command and one
failure at any moment already give every order of a request, a status change and a
tick that the machines can meet; a second edit gives a request that meets the
remains of the first. A ring of two is full after two events and its counter is read
while a pop is under way. Clocks are longer than every interval as in the firmware,
and wrap within a behaviour.

The bounds are the constants named `Max*`, `Word`, `ButtonWrap`, `LastDay` and
`LastGeneration`, and `AgeCap`: observers saturate above the largest value a
property compares.

Deadlock is not checked where bounded requests run out and the rest may legally
stand still (`CHECK_DEADLOCK FALSE` in `Connectivity`, `Switches`, `Dosing`).

Conditions built into properties, and why:

- `StoredRegistryRecoverable`, `StructureDurable`, `NoStalePinOwner` hold while no
  save has failed (and, the first two, no record was damaged): a failed relink is in
  RAM and half in flash (marked, see `RecordsMarked`), a failed create keeps its pins.
- `CleanIsDurable` says nothing of *other* devices in flash once a record was
  damaged (see *Seen while modelling*).
- `StoreIsAtomic` is checked without `Delayed` deletes, which only the API allows (no
  caller in the portal uses them) and which batch several deletions by design.
- `BootKeepsReadable` assumes no write has failed, because two relinks whose saves
  failed half way can leave a cycle in flash that costs both devices.
- `MaxDelayHolds` excludes a first change at the millisecond whose stamp equals
  `kDirtyTimestampUnset`; such a change is never flushed by the tick.
- `BrokerMirrorsRegistry` leaves out devices an event of which was dropped by a full
  queue or could not be published, and those the announcement of which failed at the
  last connect (`missed`). Once a push and a pop have met it says nothing any more
  (`missed` is all devices then): the counter is wrong for good, and of the queue only
  its limits still hold, which `ConnectivityTypeOK` states.
- `ReadsItsOwn` ties a temperature to the initialization of the bus under which its
  conversion was asked for, not to the pin in the settings: see `OldPin` below.
- `MotorOnlyInRun`, `MotorStops` and `SwitchHonest` hold while the hardware obeys. The
  two of the motor leave out a switch that was disabled and enabled, or edited,
  behind the pump's back (`meddled`), and `MotorStops` a dose that was started on a
  pump about to leave Ready (`Rushed`); both are told below.
- `NeverBlindForLong` holds while the switch takes every write.
- `DoseOncePerDay` grants one repetition per edit, power loss or clock correction.

**Fairness.** The main loop never stops, so its ticks are weakly fair, time passes,
and a call, a scan or a measurement once begun goes on (`FairSpec`,
`ConnectivityFairness`, `ActuatorsFairness`, `SensorsFairness`). Where a tick may
find a deadline reached or not, the tick that finds it reached is weakly fair,
because deadlines are reached in the end. Strong fairness is used three times, each
time for something the loop asks for in every pass and that others disable again
and again: `Flush` needs a mutex that the web server's task keeps taking and that
FreeRTOS hands to a waiting task; `MqttTick` runs in every pass also when events
keep the passes busy; `EndsMeasurement` is the last phase of a probe that retries.
No request, fault, power loss or answer of somebody else is fair.

## Proofs

TLAPS checks the theorems below for every value of the constants that the named
assumptions of the modules allow (`DeviceAssumption`, `StoreAssumption`,
`RegistryAssumption`, `TimerAssumption`, `QueueAssumption`, `MqttAssumption`,
`NtpAssumption`, `RtcAssumption`, `ButtonAssumption`, `ConfigAssumption`,
`WifiAssumption`, `AutoAssumption`, `ThermostatAssumption`, `DosingAssumption`, `UserAssumption`,
`BusAssumption`, `OneWireAssumption`, `HubAssumption`): any number of devices,
pins, channels, networks and events, any number of faults and power losses. Each invariant was
first checked by TLC on a small instance. In every proof there is one lemma per
action, one step per conjunct the action can disturb, and a last step by PTL.

**Registry.** The properties are not inductive alone. Their proofs rest on a chain of
invariants, each of which uses the ones before:

| Invariant | Module | What it adds |
|---|---|---|
| `IInv` | `DeviceRegistry_proofs` | types; what is at rest between calls (`RestInv`); which snapshot which call carries (`CallInv`); which ids of it have their record by now (`ProgressInv`); every live device but one being created has a record (`LiveRecorded`) |
| `RecordInv` | `RegistryDurability_proofs` | what a call has written equals its snapshot and is readable (`SnapshotHeld`); the version follows the index; a live device is marked or its record is in flash (`LiveHeld`), and is named by the index (`LiveIndexed`) |
| `RetainedInv` | same | the same for retained outputs, which a flush writes after the records |
| `PinInv` | same | a pin's owner is alive and configured there, also in the middle of a call that moves it |
| `GraphInv` | `RegistryStructure_proofs` | without failing writes: RAM and flash are both acyclic in every step, the links in flash are those of RAM but for the record being written (`LinksDurable`), and no live device needs one that only flash still has (`LinksInside`) - the latter is why a half-written relink cannot close a cycle with stale records |
| `WholeInv` | same | also without damaged records: nothing dangles, and the index names the live devices, plus the one a delete has not written yet and less the one being created (`IndexExact`) |
| `StoredInv` | same | the two together with `IInv` and `RecordInv`, from which each write maps to one step of `AtomicRegistry` |

| Theorem | States | Hypothesis |
|---|---|---|
| `TypeCorrect`, `IndexNamesRecords` | `TypeOK`, `IndexedRecordsPresent` | none |
| `ImportsCommitFirst`, `RecoveryIsComplete` | `SwapAfterCommit`, `RecoveryConverges` | none |
| `ChangesAreMarked`, `LiveDevicesStored`, `PinsFollowDevices` | `RecordsMarked`, `NoLiveDeviceForgotten`, `NoStalePinOwner` | no imports |
| `FlashIsRecoverable`, `BootKeepsDevices`, `CleanMeansDurable`, `StructureIsDurable` | `StoredRegistryRecoverable`, `BootKeepsReadable`, `CleanIsDurable`, `StructureDurable` | no imports |
| `SavesAreAtomic` | `StoreIsAtomic`, the refinement of `AtomicRegistry` | no imports, no `Delayed` deletes, no failing writes, no damages |

"No imports" (`~Restoring`) is needed, not a convenience: an import that fails half
way has overwritten records of live devices in place and left RAM unmarked, and it can
shrink the index below the live devices; both are runs of the model. The hypotheses
of the refinement are of the same kind: a failed relink is written by a flush
together with other devices, a flush deletes several devices at once after `Delayed`
deletes, and a damaged record disappears without a write. Power losses are allowed
everywhere, in any number.

**Timer.** `TimerTypeCorrect`, `SummaryCorrect` (`DirtyMatchesWork`), `CapHolds`
(`MaxDelayHolds`) and `OwnBurstsSettle` (`DebounceHolds`): for any width of the
clock, debounce, cap and length of a pass that `TimerAssumption` allows; the
invariant relates the wrapped stamps to the true ages.

**Connectivity.** `ConnectivityTypeCorrect` (`ConnectivityTypeOK`, of the five units),
`CredentialsKept`, `PressAsksOnce`, `ChipKeepsTime`,
`SyncIsNotLost`, `ExchangeClosesSocket`, and for MQTT `MqttTypeCorrect` and
`BrokerMirrors`. The invariant of the last (`BridgeInv`) says that what the broker
has of a device is right or an event that puts it right is in the ring or in a pop
under way (`Repaired`); that a queued `deleted` is final (`DeletedForGood`), which is
why a stale event cannot undo a later one; and how the counter, the indices and the
calls under way relate (`Counting`). All this ends with the first push that meets a pop.
What does not (`QueueTypes`) is that the count a push has read is below `MaxEvents` and
the one a pop has read is not 0, and this alone keeps the counter within the ring in
`MqttTypeCorrect`. `PressAsksOnce` rests on `PressInv`: the debounce never counts more
time than the samples have found the button up (`Counted`), which a contact that
bounces starts again.

**Actuators.** `AutoTypeCorrect`, `ThermoTypeCorrect`, `DosingTypeCorrect` and, of the
units together, `ActuatorsTypeCorrect` (`ActuatorsTypeOK`); `PinIsShown`
(`SwitchHonest`), `NoDoseTwice` (`DoseOncePerDay`), and the two that say when
something is off:

- `MotorObeys` (`MotorOnlyInRun`). The pump turns the motor off before its run ends, so
  what matters is who could turn it on again. The invariant (`MotorInv`) says of a motor
  that is on without a run that it is on its way to off: its switch takes no command
  before it has gone through Disabled or Starting, both of which end off, and no
  reconfiguration applies ON again, because one that begins outside of a run begins off.
- `HeaterNotBlind` (`NeverBlindForLong`). `Left` is a potential: the ticks of the
  thermostat at which the heater can still be on without a reading, as a function of
  the machine, the deadline of the next check, the age of the last good reading, the
  machine of the heater's switch and the requests both have pending. Each tick that
  finds the heater on and no reading uses one up (`TickLess`), a tick of the switch adds
  none (`FastLess`), and a sensor that goes away adds two at most (`AskedLeft`), which
  are paid for by the request it is counted as. That a check put off, failed or
  repeated never gains time is in the lemmas on `Rest`, by arithmetic for any intervals.
  The proof found the bound to be two ticks for each request, where the model had
  three; `CapBeyondLimit` shows that the counter is not stopped at the bound.

**Sensors.** `SensorsTypeCorrect` (`SensorsTypeOK`), `ReadsOwn` (`ReadsOwnChannel`),
`ReadsAsked`, `ReadsConversion` and, of the units together, `SensorsReadTheirOwn`
(`ReadsItsOwn`). For the hub (`HubInv`): a conversion under way is of the channel that
has claimed the hub, the claim is its device's own channel, and a device whose hub has
another gain than its conversion has a request that makes it give the claim up before
it reads. This has to survive any poll between the two (`Grown`: what a tick of the hub
may do; `Served`: what a poll may do) and needs that an edit of the gain asks every
channel to reconfigure in the same call. For the two buses (`I2cInv`, `OneWireInv`): a
device past its set-up has a generation other than 0, what it waits for was asked for
under that generation, and a bus that says that it is Ready has been initialized
(`Lawful`). `BusKeeps`, that a bus which lends itself is not initialized again by its
next tick, makes the result independent of which of the two is ticked first.

**Only model-checked.** Liveness (`FlushSettles`, `SubmissionSettles`,
`BoardReachable`, `SettingsTakeEffect`, `ResyncAfterSettings`, `OffObeyed`,
`RecoversWithSwitch`, `OffWithThermostat`, `ColdGetsHeat`, `MotorStops`,
`SensorsRecover`): liveness under fairness, and ENABLED, are out of the prover's
reach, and so is induction over data, which is why `Reaches` is a closure and not a
recursion. Every invariant and every action property of the passing
runs is stated by a theorem.

## Seen while modelling

Besides the findings with a run of their own. First what the proofs showed:

- Registry, with three devices and one damaged record (two are too few to see it): a
  boot leaves a dangling link; deleting a third, unrelated device drops its runtime
  although the store refuses the save (`DeviceRegistry.cpp:939`), nothing is marked, and
  the device is back after the next boot. `CleanIsDurable` therefore speaks of other
  devices in flash only as long as nothing was damaged.
- An import that fails half way leaves RAM records unmarked whose copies in flash it
  has overwritten, and may leave the index shorter than the list of live devices.

Registry and storage:

- A relink whose save fails stays in RAM, marked, until a later flush. An import that
  shares ids with the current registry rewrites their records in place; a power
  loss in between boots a mixture, only the swap in RAM is atomic.
- Nothing refuses two devices on one pin. Deleting one frees the pin in the table
  while the other still drives it. A delete forgets the layout in flash before it
  commits the index.
- `requestDelete()` has no caller and `remove()` calls no `end()`: deleting a
  thermostat leaves its heater as it is (`reference/devices/thermostat.md:56-59` says otherwise),
  deleting a pump in a run its motor, deleting a channel in a sample its claim on the
  hub (`Wedged`).
- `ConfigStore::save` is unlocked; a power loss between the keys of a first save can
  make `load()` fall back to defaults, Wi-Fi credentials included.
- A display that is initialized again stays blank when its layout is static.

Switches, thermostat, dosing:

- A schedule that is disabled and enabled again leaves its auto switch `Disabled`
  (`reference/faq.md:51-55`: "recovers on its own"; `ScheduleDevice.cpp:263-273`). The same
  pattern is in binary sensors, polled temperature sensors and the composers.
- A pump on an expander's channel: the board goes away and comes back during a run; the
  OFF that ends the run is refused and its result ignored, and the board applies ON
  again: the motor runs on (`reference/devices/dosing-pump.md:97` says otherwise).
- A switch that is disabled and enabled together with another pin is Ready with a
  request to reconfigure still pending (`Starting` clears only the request to start). A
  dose that starts then is ended in the middle of the reconfiguration by an OFF that
  is refused, which `finishRun` ignores (`DosingPumpDevice.cpp:474-485`), and the
  reconfiguration applies ON again: the motor runs without a run.
- A pump that has decided to leave Ready still shows Ready until its next tick, and
  `startRun` looks at nothing else (`DosingPumpDevice.cpp:360`). When the pump is
  disabled, or its switch not ready, before that tick, `Reconfiguring` (612-633) goes on
  to Disabled or DependencyBlocked without ending the run: the motor runs on
  (`reference/devices/dosing-pump.md:97`: "anything that takes the device out of service
  force-stops the motor").
- Doses are repeated after an edit within the grace period, a power loss within the
  debounce of the retained marks, and a clock set back over midnight.
- A channel whose ON is refused keeps the level in the expander's shadow while the
  switch shows off; a faulted output never retries by itself.
- "Cold always gets heat" does not hold once somebody has touched the heater's switch.
  An unsafe sensor is not noticed while the next check waits for the minimum interval.
- The weekday of a schedule window that spans midnight is tested on the current day.

Buses and hubs:

- A scan accepted after an edit of an I2C bus and before the next tick skips the
  initialization: the bus is Ready, its driver has ended (`DeafBus`). The same on
  OneWire leaves the scan flag set (`StuckScan`) or the old pin in use (`OldPin`):
  `end()` only takes the power away (`OneWireBusDevice.cpp:293-301`), the generation
  stays, `beginDependencyTransaction` (147-155) lends the driver as it is, and the
  readings of a sensor on the old pin are published, until something sends the bus
  through Starting again.
- An ADS1115 whose chip was silent for long alternates between Ready and Faulted until
  it is reconfigured; a gain edit does not bump the generation although
  `DeviceTypes.h` says so (its channels are asked to reconfigure, and that is what keeps
  `ReadsOwnChannel`).
- A multiplexer whose pins cannot be configured never retries.

Connectivity:

- Push and pop race on `count_` (`DeviceEventQueue.cpp:9-24`); afterwards the indices
  and the counter disagree for good: an event is hidden until another one comes, or
  slots are handled that were never written or were handled before, which `guides/mqtt-home-assistant.md:208-212` ("never
  drift apart") does not allow for.
- Settings that change while `connect()` blocks are counted as applied
  (`MqttManager.cpp:157`) although the session uses the old ones.
- A device deleted while the broker is away stays in Home Assistant; a failed publish
  is not retried before the next change of the device or the next connection.
- Each PUT of the MQTT settings registers the bridge's callbacks once more.
- A board that is connected never looks at credentials submitted meanwhile.
- `RtcSyncCoordinator::tickWriteBack` writes a drifting system clock to the chip when
  the network's time is old, and a failed write waits for the next regular interval.
- A late answer of the resolver may set the address of a server that is no longer
  configured.

## Not modelled, and why

Inside the modelled parts: names, sizes, roles, limits on dependents and exclusive
links (guards on data the properties do not tell apart); the revision counter; config
migration at boot (it takes two firmware versions and only marks the record); the
reset of the namespace on an unreadable index (modelled for a missing version); a
stored layout the type rejects at boot; the branch where `applyConfig` or the layout
sidecar is refused in `updateConfigAndDeps` (its input has passed the type's own
validation before); the overload of `restore` without layouts (tests only); failures
of erasing keys, which every caller ignores. `begin` runs once per power cycle and
its failure is ignored by `App::begin`, as in the model. Saving an empty layout is an
erase and cannot fail in the code; the model lets it fail, which only adds behaviours.
The registry and the devices are separate modules: what a delete does to a running
device is said above, not checked. Values, filters, calibration, calendars, MQTT topics
and payloads are abstracted to what the machines decide on.

Whole components: displays, pixel strips, other sensors and SPI repeat the patterns
above or only render; the HTTP controllers, the web socket, the codecs, the layout
store, OTA, metrics and the web application are transport, parsing and formatting with
little control of their own. `PROJECT.json` lists them.

## Plan

Done: the registry with its storage and timer, its safety properties and the
refinement proved; connectivity; switches, thermostat and dosing; buses and hubs.

1. Proofs: the safety half of the liveness properties (what a request that is pending
   can still meet), more of what the bus and hub machines promise each other.
2. Models, if the project grows: the displays and pixel strips on `DeviceLifecycle`, the
   setup transfer (an export torn by a delete, an import that leaves bitmaps behind).
