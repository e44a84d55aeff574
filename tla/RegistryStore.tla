---------------------------- MODULE RegistryStore ----------------------------
(***************************************************************************)
(* DeviceRegistryStore, the retained-state store and the scoped data store *)
(* over ESP32 NVS.  A key is written as a whole or not at all; nothing     *)
(* spans two keys, so a power loss can fall between any two writes.        *)
(*                                                                         *)
(* The constants pick what a run looks at: Display are the ids whose type  *)
(* keeps a layout (IDevicePersistedState), Retaining those whose type      *)
(* supports retained state.                                                *)
(***************************************************************************)
EXTENDS RegistryGraph

CONSTANTS Display, Retaining, Layout, Blank

ASSUME StoreAssumption ==
  /\ Display \subseteq Device
  /\ Retaining \subseteq Device
  /\ Blank \in Layout

VARIABLES
  nvsVersion,   \* is the key "version" there, with the supported format?
  nvsIndex,     \* ids in the key "index"; {} when the key is missing
  nvsRecord,    \* the keys "record_%08x"
  nvsLayout,    \* per display: the layout blob, Blank when there is none
  nvsRetained,  \* per retaining device: the retained output, FALSE when there is none
  damaged       \* ids whose record this firmware cannot read

flash == <<nvsVersion, nvsIndex, nvsRecord, nvsLayout, nvsRetained, damaged>>

StoreTypeOK ==
  /\ nvsVersion \in BOOLEAN
  /\ nvsIndex \in SUBSET Device
  /\ nvsRecord \in Registry
  /\ nvsLayout \in [Display -> Layout]
  /\ nvsRetained \in [Retaining -> BOOLEAN]
  /\ damaged \in SUBSET Device

StoreInit ==
  /\ nvsVersion = FALSE
  /\ nvsIndex = {}
  /\ nvsRecord = EmptyRegistry
  /\ nvsLayout = [d \in Display |-> Blank]
  /\ nvsRetained = [d \in Retaining |-> FALSE]
  /\ damaged = {}

(* DeviceRegistryStore::load: the records the index names, without those    *)
(* that are missing or cannot be read.                                      *)
Readable == Restrict(nvsRecord, (nvsIndex \cap DOMAIN nvsRecord) \ damaged)

(* What a power loss right now would leave to the next boot. *)
Stored == IF nvsVersion THEN Readable ELSE EmptyRegistry

(* A missing or unsupported version resets the namespace. *)
ResetStorage ==
  /\ nvsIndex' = {}
  /\ nvsRecord' = EmptyRegistry
  /\ damaged' = {}
  /\ UNCHANGED <<nvsVersion, nvsLayout, nvsRetained>>

PutRecord(d, rec) ==
  /\ nvsRecord' = Put(nvsRecord, d, rec)
  /\ damaged' = damaged \ {d}
  /\ UNCHANGED <<nvsVersion, nvsIndex, nvsLayout, nvsRetained>>

(* Mutants: one entry too many is counted; the old entries are kept. *)
PutIndexOneMore(ids) ==
  /\ nvsIndex' = ids \cup {0}
  /\ UNCHANGED <<nvsVersion, nvsRecord, nvsLayout, nvsRetained, damaged>>

PutIndexMerged(ids) ==
  /\ nvsIndex' = nvsIndex \cup ids
  /\ UNCHANGED <<nvsVersion, nvsRecord, nvsLayout, nvsRetained, damaged>>

PutIndex(ids) ==
  /\ nvsIndex' = ids
  /\ UNCHANGED <<nvsVersion, nvsRecord, nvsLayout, nvsRetained, damaged>>

PutVersion ==
  /\ nvsVersion' = TRUE
  /\ UNCHANGED <<nvsIndex, nvsRecord, nvsLayout, nvsRetained, damaged>>

PutLayout(d, layout) ==
  /\ nvsLayout' = [nvsLayout EXCEPT ![d] = layout]
  /\ UNCHANGED <<nvsVersion, nvsIndex, nvsRecord, nvsRetained, damaged>>

PutRetained(d, on) ==
  /\ nvsRetained' = [nvsRetained EXCEPT ![d] = on]
  /\ UNCHANGED <<nvsVersion, nvsIndex, nvsRecord, nvsLayout, damaged>>

(* removeRecord of ids, and clearDevice of their scoped and retained data    *)
(* when the caller also forgets those.  Results are ignored by every caller. *)
RemoveRecords(ids) ==
  /\ nvsRecord' = Drop(nvsRecord, ids)
  /\ damaged' = damaged \ ids

ClearDeviceData(ids) ==
  /\ nvsLayout' = [d \in Display |-> IF d \in ids THEN Blank ELSE nvsLayout[d]]
  /\ nvsRetained' = [d \in Retaining |-> IF d \in ids THEN FALSE ELSE nvsRetained[d]]

(* External: a record goes bad, or another firmware cannot read it. *)
DamageRecord(d) ==
  /\ d \in nvsIndex \cap DOMAIN nvsRecord
  /\ d \notin damaged
  /\ damaged' = damaged \cup {d}
  /\ UNCHANGED <<nvsVersion, nvsIndex, nvsRecord, nvsLayout, nvsRetained>>
==============================================================================
