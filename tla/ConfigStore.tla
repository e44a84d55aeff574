------------------------------ MODULE ConfigStore ------------------------------
(***************************************************************************)
(* The firmware's settings: one DeviceConfig in RAM and one NVS key for    *)
(* each of its fields.  A save copies config_, changes the copy, writes    *)
(* the keys one after another and makes the copy current only after the    *)
(* last.  Nothing locks the store: the main loop saves the credentials of  *)
(* a provisioning while the web server's task may be saving other          *)
(* settings.  A power loss or a failing write can fall between any two     *)
(* keys.                                                                   *)
(*                                                                         *)
(* Two fields are enough to tell the cases apart: the Wi-Fi credentials    *)
(* and one other setting.                                                  *)
(***************************************************************************)
EXTENDS Naturals, Sequences

CONSTANTS
  Networks,     \* networks somebody may submit
  None,         \* no network: the empty ssid and password
  MaxFaults     \* bound: writes that fail and power losses

ASSUME ConfigAssumption == None \notin Networks /\ MaxFaults \in Nat

Writers == {"loop", "web"}
Settings == {"default", "changed"}
Keys == <<"wifi", "setting">>

Config == [wifi : Networks \cup {None}, setting : Settings]

defaultConfig == [wifi |-> None, setting |-> "default"]

VARIABLES
  config,    \* config_
  flash,     \* the keys of the namespace "device"
  next,      \* per writer: the copy it is saving; {}: config_ itself, passed by reference
  at,        \* per writer: the key it writes next; 0 when it is not saving
  faults,    \* bound: failing writes and power losses so far
  ordered    \* observer: no save was cut, failed or overlapped another since boot

configVars == <<config, flash, next, at, faults, ordered>>

ConfigInit ==
  /\ config = defaultConfig
  /\ flash = defaultConfig
  /\ next = [w \in Writers |-> {}]
  /\ at = [w \in Writers |-> 0]
  /\ faults = 0
  /\ ordered = TRUE

Saving(w) == at[w] # 0

WithCredentials(c, n) == [c EXCEPT !.wifi = n]

\* save(): the copy in c is made, the first key comes next.  A copy that the
\* validation refuses changes nothing and is left out.
BeginSave(w, c) ==
  /\ ~Saving(w)
  /\ next' = [next EXCEPT ![w] = c]
  /\ at' = [at EXCEPT ![w] = 1]
  /\ ordered' = (ordered /\ \A v \in Writers : ~Saving(v))

saveWifiCredentials(w, n) ==
  /\ BeginSave(w, {WithCredentials(config, n)})
  /\ UNCHANGED <<config, flash, faults>>

\* saveTimeConfig() and savePersistenceConfig().
saveSetting ==
  /\ BeginSave("web", {[config EXCEPT !.setting = "changed"]})
  /\ UNCHANGED <<config, flash, faults>>

\* clearWifiCredentials() empties config_ first, then the two keys, and then
\* saves what config_ holds.
clearWifiCredentials(w) ==
  /\ config' = WithCredentials(config, None)
  /\ flash' = WithCredentials(flash, None)
  /\ BeginSave(w, {})
  /\ UNCHANGED faults

Done(w) == at[w] = Len(Keys)
Source(w) == IF next[w] = {} THEN config ELSE CHOOSE c \in next[w] : TRUE

\* One key; after the last one the copy becomes config_.
WriteKey(w) ==
  /\ Saving(w)
  /\ flash' = [flash EXCEPT ![Keys[at[w]]] = Source(w)[Keys[at[w]]]]
  /\ at' = [at EXCEPT ![w] = IF Done(w) THEN 0 ELSE @ + 1]
  /\ config' = IF Done(w) THEN Source(w) ELSE config
  /\ next' = IF Done(w) THEN [next EXCEPT ![w] = {}] ELSE next
  /\ UNCHANGED <<faults, ordered>>

\* A key that cannot be written ends the save; the keys before it stay.
WriteFails(w) ==
  /\ Saving(w)
  /\ faults < MaxFaults
  /\ faults' = faults + 1
  /\ at' = [at EXCEPT ![w] = 0]
  /\ next' = [next EXCEPT ![w] = {}]
  /\ ordered' = FALSE
  /\ UNCHANGED <<config, flash>>

\* load() at boot: RAM holds what flash holds, whatever a cut save left there.
ConfigReboot ==
  /\ faults < MaxFaults /\ faults' = faults + 1
  /\ config' = flash
  /\ next' = [w \in Writers |-> {}]
  /\ at' = [w \in Writers |-> 0]
  /\ ordered' = TRUE
  /\ UNCHANGED flash
================================================================================
