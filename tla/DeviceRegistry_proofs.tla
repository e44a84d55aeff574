------------------------- MODULE DeviceRegistry_proofs -------------------------
(***************************************************************************)
(* For every set of devices, configs and pins, any number of power losses, *)
(* failing writes and damaged records, and with imports and delayed        *)
(* deletes allowed: DeviceRegistry is type correct and its index never     *)
(* names a record that is not there.                                       *)
(***************************************************************************)
EXTENDS DeviceRegistry, RegistryGraph_proofs, TLAPS

(* A power-off board has nothing in RAM; a board at rest runs no call.       *)
RestInv ==
  /\ pc \in {"off", "idle"} => op = "none"
  /\ pc = "off" => Live = {}

(* What the call in progress saves, and which ids it may clean up after.     *)
CallInv ==
  /\ op \in {"create", "update", "remove", "flush", "recover"} => snapshot = runtimes
  /\ op = "clean" => Live \subseteq DOMAIN snapshot
  /\ op \in {"remove", "flush", "recover", "clean"} => subject \cap Live = {}
  /\ op = "flush" /\ ~dirtyIndex => subject = {}

(* How far the call has come.                                                *)
ProgressInv ==
  /\ pc = "records" =>
       /\ todo \subseteq DOMAIN snapshot
       /\ WritesIndex => DOMAIN snapshot \ todo \subseteq DOMAIN nvsRecord
  /\ pc = "retained" => todo \subseteq Retaining
  /\ pc = "layouts" => todo \subseteq Display
  /\ pc \in {"version", "retained", "layouts", "cleanup"} /\ WritesIndex => nvsIndex = DOMAIN snapshot

(* Every live device has a record, but for the one that is being created.    *)
LiveRecorded == Live \ (IF op = "create" THEN subject ELSE {}) \subseteq DOMAIN nvsRecord

IInv ==
  /\ TypeOK
  /\ RestInv
  /\ CallInv
  /\ ProgressInv
  /\ LiveRecorded
  /\ IndexedRecordsPresent

------------------------------------------------------------------------------
(* What the helpers of the actions return. *)

LEMMA ClaimsType ==
  ASSUME NEW owner, NEW reg, NEW next \in Claims(owner, reg)
  PROVE  next \in [Pin -> Device \cup {0}]
  BY DEF Claims

LEMMA ReleaseType ==
  ASSUME NEW owner \in [Pin -> Device \cup {0}], NEW rec
  PROVE  Release(owner, rec) \in [Pin -> Device \cup {0}]
  BY DEF Release

LEMMA BlankTypes ==
  /\ NoLayouts \in [Display -> Layout]
  /\ NothingRetained \in [Retaining -> BOOLEAN]
  /\ FreePins \in [Pin -> Device \cup {0}]
  BY StoreAssumption DEF NoLayouts, NothingRetained, FreePins

LEMMA LoadedTypes ==
  ASSUME TypeOK, NEW ids
  PROVE  /\ LoadedLayouts(ids) \in [Display -> Layout]
         /\ LoadedRetained(ids) \in [Retaining -> BOOLEAN]
  BY StoreAssumption DEF TypeOK, StoreTypeOK, LoadedLayouts, LoadedRetained

LEMMA ReadableType ==
  ASSUME TypeOK
  PROVE  /\ Readable \in Registry
         /\ DOMAIN Readable = (nvsIndex \cap DOMAIN nvsRecord) \ damaged
  BY RestrictType, (nvsIndex \cap DOMAIN nvsRecord) \ damaged \in SUBSET DOMAIN nvsRecord
     DEF TypeOK, StoreTypeOK, Readable

------------------------------------------------------------------------------
(* The initial state and one lemma for each action. *)

LEMMA InitIInv == Init => IInv
  <1> SUFFICES ASSUME Init PROVE IInv
    OBVIOUS
  <1>1. TypeOK
    <2>1. StoreTypeOK
      BY EmptyRegistryType, BlankTypes
         DEF Init, StoreInit, StoreTypeOK, NoLayouts, NothingRetained
    <2>2. faults \in 0..MaxFaults /\ crashes \in 0..MaxCrashes /\ damages \in 0..MaxDamage
      BY RegistryAssumption DEF Init
    <2> QED
      BY <2>1, <2>2, EmptyRegistryType, BlankTypes DEF Init, TypeOK, Phases, Operations
  <1>2. RestInv /\ LiveRecorded /\ IndexedRecordsPresent
    BY EmptyRegistryType DEF Init, StoreInit, RestInv, LiveRecorded, IndexedRecordsPresent, Live
  <1>3. CallInv /\ ProgressInv
    BY DEF Init, CallInv, ProgressInv
  <1> QED
    BY <1>1, <1>2, <1>3 DEF IInv

LEMMA BeginEmptyStep ==
  ASSUME IInv, BeginEmpty
  PROVE  IInv'
  <1> USE DEF IInv, BeginEmpty, ResetStorage, ram, env
  <1>1. TypeOK'
    BY EmptyRegistryType DEF TypeOK, StoreTypeOK, Phases
  <1>2. RestInv' /\ LiveRecorded' /\ IndexedRecordsPresent'
    BY DEF RestInv, LiveRecorded, IndexedRecordsPresent, Live
  <1>3. CallInv' /\ ProgressInv'
    BY DEF RestInv, CallInv, ProgressInv, WritesIndex
  <1> QED
    BY <1>1, <1>2, <1>3

LEMMA BeginLoadStep ==
  ASSUME IInv, BeginLoad
  PROVE  IInv'
  <1> DEFINE kept == Survivors(Readable)
             discarded == nvsIndex \ DOMAIN kept
  <1> USE DEF IInv
  <1>1. /\ kept \in Registry
        /\ DOMAIN kept \subseteq DOMAIN Readable
        /\ DOMAIN Readable \subseteq DOMAIN nvsRecord
        /\ Readable \in Registry
        /\ discarded \in SUBSET Device
        /\ DOMAIN kept \in SUBSET Device
    BY ReadableType, SurvivorsType, RegistryForm DEF TypeOK, StoreTypeOK
  <1>2. /\ pc = "off" /\ op = "none" /\ runtimes' = kept
        /\ layouts' = LoadedLayouts(DOMAIN kept)
        /\ retained' = LoadedRetained(DOMAIN kept)
        /\ pinOwner' \in Claims(pinOwner, kept)
        /\ UNCHANGED <<flash, dirtyIndex, dirtyConfig, dirtyRetained, imported, env>>
    BY DEF BeginLoad, RestInv, Enter
  <1>3. \/ pc' = "idle" /\ UNCHANGED <<op, subject, snapshot, todo>>
        \/ Enter("clean", discarded, Readable, {})
        \/ Enter("recover", discarded, kept, DOMAIN kept)
    BY DEF BeginLoad
  <1>4. TypeOK'
    <2>1. /\ LoadedLayouts(DOMAIN kept) \in [Display -> Layout]
          /\ LoadedRetained(DOMAIN kept) \in [Retaining -> BOOLEAN]
      BY LoadedTypes
    <2>2. pinOwner' \in [Pin -> Device \cup {0}]
      BY <1>2, ClaimsType
    <2> HIDE DEF kept, discarded
    <2> QED
      BY <1>1, <1>2, <1>3, <2>1, <2>2
         DEF TypeOK, StoreTypeOK, Enter, Phases, Operations, flash, env
  <1>5. RestInv' /\ LiveRecorded' /\ IndexedRecordsPresent'
    BY <1>1, <1>2, <1>3 DEF RestInv, LiveRecorded, IndexedRecordsPresent, Live, Enter, flash
  <1>6. CallInv' /\ ProgressInv'
    BY <1>1, <1>2, <1>3 DEF CallInv, ProgressInv, Live, Enter, flash, WritesIndex
  <1> QED
    BY <1>4, <1>5, <1>6

LEMMA CreateStep ==
  ASSUME IInv, NEW d \in Device, NEW rec \in Record, Create(d, rec)
  PROVE  IInv'
  <1> USE DEF IInv
  <1>1. /\ runtimes' \in Registry
        /\ Live' = Live \cup {d}
        /\ runtimes' = Put(runtimes, d, rec)
        /\ DOMAIN runtimes' \in SUBSET Device
    BY PutType, RegistryForm DEF Create, TypeOK, Live
  <1>2. /\ pc = "idle" /\ op = "none" /\ d \notin Live
        /\ pc' = "records" /\ op' = "create" /\ subject' = {d}
        /\ snapshot' = runtimes' /\ todo' = DOMAIN runtimes'
        /\ UNCHANGED <<flash, dirtyIndex, dirtyConfig, dirtyRetained, imported, env>>
    BY DEF Create, SaveAll, Enter, RestInv
  <1>3. TypeOK'
    <2>1. layouts' \in [Display -> Layout]
      BY DEF Create, TypeOK, StoreTypeOK
    <2>2. retained' \in [Retaining -> BOOLEAN]
      BY DEF Create, TypeOK, StoreTypeOK
    <2>3. pinOwner' \in [Pin -> Device \cup {0}]
      BY ClaimsType DEF Create
    <2> QED
      BY <1>1, <1>2, <2>1, <2>2, <2>3 DEF TypeOK, StoreTypeOK, Phases, Operations, flash, env
  <1>4. RestInv' /\ LiveRecorded' /\ IndexedRecordsPresent'
    BY <1>1, <1>2 DEF RestInv, LiveRecorded, IndexedRecordsPresent, flash
  <1>5. CallInv' /\ ProgressInv'
    BY <1>1, <1>2 DEF CallInv, ProgressInv, WritesIndex
  <1> QED
    BY <1>3, <1>4, <1>5

(* Relinking a device: its record changes, its layout and its pins may, and  *)
(* the call either ends there or goes on to save everything.                 *)
LEMMA RelinkStep ==
  ASSUME IInv, NEW d \in Live, NEW rec \in Record,
         pc = "idle",
         runtimes' = Put(runtimes, d, rec),
         layouts' \in [Display -> Layout],
         pinOwner' \in [Pin -> Device \cup {0}],
         dirtyConfig' = dirtyConfig \cup {d},
         UNCHANGED <<flash, retained, dirtyIndex, dirtyRetained, imported>>,
         UNCHANGED <<ctl, env>> \/ SaveAll("update", {d}, runtimes')
  PROVE  IInv'
  <1> USE DEF IInv
  <1>1. /\ d \in Device
        /\ runtimes' \in Registry
        /\ Live' = Live
        /\ DOMAIN runtimes' \in SUBSET Device
    <2>1. runtimes \in Registry /\ d \in Device
      BY RegistryForm DEF TypeOK, Live
    <2>2. runtimes' \in Registry /\ DOMAIN runtimes' = DOMAIN runtimes \cup {d}
      BY <2>1, PutType
    <2> QED
      BY <2>1, <2>2, RegistryForm DEF Live
  <1>2. op = "none"
    BY DEF RestInv
  <1>3. \/ UNCHANGED <<pc, op, subject, snapshot, todo, env>>
        \/ /\ pc' = "records" /\ op' = "update" /\ subject' = {d}
           /\ snapshot' = runtimes' /\ todo' = DOMAIN runtimes' /\ UNCHANGED env
    BY DEF SaveAll, Enter, ctl
  <1>4. TypeOK'
    BY <1>1, <1>3 DEF TypeOK, StoreTypeOK, Phases, Operations, flash, env
  <1>5. RestInv' /\ LiveRecorded' /\ IndexedRecordsPresent'
    BY <1>1, <1>2, <1>3 DEF RestInv, LiveRecorded, IndexedRecordsPresent, flash
  <1>6. CallInv' /\ ProgressInv'
    BY <1>1, <1>2, <1>3 DEF CallInv, ProgressInv, WritesIndex
  <1> QED
    BY <1>4, <1>5, <1>6

LEMMA UpdateStep ==
  ASSUME IInv, NEW d \in Device, NEW rec \in Record, NEW layout \in Layout,
         UpdateConfigAndDeps(d, rec, layout)
  PROVE  IInv'
  <1>1. TypeOK
    BY DEF IInv
  <1>2. layouts' \in [Display -> Layout]
    BY <1>1 DEF UpdateConfigAndDeps, TypeOK
  <1>3. pinOwner' \in [Pin -> Device \cup {0}]
    BY ClaimsType DEF UpdateConfigAndDeps
  <1>4. /\ d \in Live /\ pc = "idle"
        /\ runtimes' = Put(runtimes, d, rec)
        /\ dirtyConfig' = dirtyConfig \cup {d}
        /\ UNCHANGED <<flash, retained, dirtyIndex, dirtyRetained, imported>>
        /\ UNCHANGED <<ctl, env>> \/ SaveAll("update", {d}, runtimes')
    BY DEF UpdateConfigAndDeps, ctl
  <1> QED
    BY <1>2, <1>3, <1>4, RelinkStep

LEMMA SetDepsStep ==
  ASSUME IInv, NEW d \in Device, NEW deps \in SUBSET Device, SetDeps(d, deps)
  PROVE  IInv'
  <1> DEFINE rec == [runtimes[d] EXCEPT !.deps = deps]
  <1>1. d \in Live
    BY DEF SetDeps
  <1>2. rec \in Record
    BY <1>1, RegistryForm DEF IInv, TypeOK, Live, Record
  <1>3. /\ pc = "idle"
        /\ runtimes' = Put(runtimes, d, rec)
        /\ layouts' = layouts /\ pinOwner' = pinOwner
        /\ dirtyConfig' = dirtyConfig \cup {d}
        /\ UNCHANGED <<flash, retained, dirtyIndex, dirtyRetained, imported>>
        /\ SaveAll("update", {d}, runtimes')
    BY DEF SetDeps
  <1>4. layouts' \in [Display -> Layout] /\ pinOwner' \in [Pin -> Device \cup {0}]
    BY <1>3 DEF IInv, TypeOK
  <1> HIDE DEF rec
  <1> QED
    BY <1>1, <1>2, <1>3, <1>4, RelinkStep

(* Both ways to delete a device share what Remove does to it. *)
LEMMA RemoveStep ==
  ASSUME IInv, NEW d \in Device, Remove(d),
         \/ UNCHANGED <<dirtyIndex, dirtyConfig>>
         \/ dirtyIndex' = TRUE /\ dirtyConfig' = dirtyConfig \cup {d},
         \/ UNCHANGED <<ctl, env>>
         \/ SaveAll("remove", {d}, runtimes') /\ UNCHANGED imported
  PROVE  IInv'
  <1> USE DEF IInv
  <1>1. /\ runtimes' \in Registry
        /\ Live' = Live \ {d}
        /\ DOMAIN runtimes' \in SUBSET Device
    BY DropType, RegistryForm DEF Remove, TypeOK, Live
  <1>2. /\ pc = "idle" /\ op = "none"
        /\ UNCHANGED <<nvsVersion, nvsIndex, nvsRecord, nvsRetained, damaged, dirtyRetained>>
    BY DEF Remove, RestInv
  <1>3. \/ UNCHANGED <<pc, op, subject, snapshot, todo, imported, env>>
        \/ /\ pc' = "records" /\ op' = "remove" /\ subject' = {d}
           /\ snapshot' = runtimes' /\ todo' = DOMAIN runtimes' /\ UNCHANGED <<env, imported>>
    BY DEF SaveAll, Enter, ctl
  <1>4. TypeOK'
    <2>1. layouts' \in [Display -> Layout] /\ nvsLayout' \in [Display -> Layout]
      BY StoreAssumption DEF Remove, TypeOK, StoreTypeOK
    <2>2. retained' \in [Retaining -> BOOLEAN]
      BY DEF Remove, TypeOK
    <2>3. pinOwner' \in [Pin -> Device \cup {0}]
      BY ReleaseType DEF Remove, TypeOK
    <2> QED
      BY <1>1, <1>2, <1>3, <2>1, <2>2, <2>3 DEF TypeOK, StoreTypeOK, Phases, Operations, env
  <1>5. RestInv' /\ LiveRecorded' /\ IndexedRecordsPresent'
    BY <1>1, <1>2, <1>3 DEF RestInv, LiveRecorded, IndexedRecordsPresent
  <1>6. CallInv' /\ ProgressInv'
    BY <1>1, <1>2, <1>3 DEF CallInv, ProgressInv, WritesIndex, Live
  <1> QED
    BY <1>4, <1>5, <1>6

LEMMA RemoveImmediateStep ==
  ASSUME IInv, NEW d \in Device, RemoveImmediate(d)
  PROVE  IInv'
  BY RemoveStep DEF RemoveImmediate

LEMMA RemoveDelayedStep ==
  ASSUME IInv, NEW d \in Device, RemoveDelayed(d)
  PROVE  IInv'
  BY RemoveStep DEF RemoveDelayed

LEMMA ApplyPersistedStateStep ==
  ASSUME IInv, NEW d \in Device, NEW layout \in Layout, ApplyPersistedStateUpdate(d, layout)
  PROVE  IInv'
  <1> USE DEF IInv, ApplyPersistedStateUpdate, ctl, env, flash
  <1>1. TypeOK'
    BY DEF TypeOK, StoreTypeOK
  <1>2. RestInv' /\ LiveRecorded' /\ IndexedRecordsPresent'
    BY DEF RestInv, LiveRecorded, IndexedRecordsPresent, Live
  <1>3. CallInv' /\ ProgressInv'
    BY DEF RestInv, CallInv, ProgressInv, WritesIndex, Live
  <1> QED
    BY <1>1, <1>2, <1>3

LEMMA CaptureRetainedStep ==
  ASSUME IInv, NEW d \in Device, CaptureRetained(d)
  PROVE  IInv'
  <1> USE DEF IInv, CaptureRetained, ctl, env, flash
  <1>1. TypeOK'
    <2>1. retained' \in [Retaining -> BOOLEAN]
      BY DEF TypeOK
    <2> QED
      BY <2>1 DEF TypeOK, StoreTypeOK
  <1>2. RestInv' /\ LiveRecorded' /\ IndexedRecordsPresent'
    BY DEF RestInv, LiveRecorded, IndexedRecordsPresent, Live
  <1>3. CallInv' /\ ProgressInv'
    BY DEF RestInv, CallInv, ProgressInv, WritesIndex, Live
  <1> QED
    BY <1>1, <1>2, <1>3

LEMMA RestoreStep ==
  ASSUME IInv, NEW reg \in Registry, NEW bundle \in [Display -> Layout], Restore(reg, bundle)
  PROVE  IInv'
  <1> USE DEF IInv, Restore, SaveAll, Enter, flash, env
  <1>1. TypeOK'
    BY RegistryForm, ClaimsType DEF TypeOK, StoreTypeOK, Phases, Operations
  <1>2. RestInv' /\ LiveRecorded' /\ IndexedRecordsPresent'
    BY DEF RestInv, LiveRecorded, IndexedRecordsPresent, Live
  <1>3. CallInv' /\ ProgressInv'
    BY DEF CallInv, ProgressInv, WritesIndex
  <1> QED
    BY <1>1, <1>2, <1>3

LEMMA RestoreRejectedStep ==
  ASSUME IInv, NEW reg \in Registry, RestoreRejected(reg)
  PROVE  IInv'
  <1> USE DEF IInv, RestoreRejected, ctl, flash, env
  <1>1. TypeOK'
    BY ClaimsType DEF TypeOK, StoreTypeOK
  <1>2. RestInv' /\ LiveRecorded' /\ IndexedRecordsPresent'
    BY DEF RestInv, LiveRecorded, IndexedRecordsPresent, Live
  <1>3. CallInv' /\ ProgressInv'
    BY DEF CallInv, ProgressInv, WritesIndex, Live
  <1> QED
    BY <1>1, <1>2, <1>3

LEMMA FlushStep ==
  ASSUME IInv, Flush
  PROVE  IInv'
  <1> USE DEF IInv
  <1>1. /\ pc = "idle" /\ op = "none"
        /\ pc' = "records" /\ op' = "flush" /\ snapshot' = runtimes
        /\ subject' = IF dirtyIndex THEN dirtyConfig \ Live ELSE {}
        /\ todo' \in SUBSET Live
        /\ UNCHANGED <<flash, ram, imported, env>>
    BY DEF Flush, Enter, RestInv
  <1>2. Live \in SUBSET Device
    BY RegistryForm DEF TypeOK, Live
  <1>3. TypeOK'
    BY <1>1, <1>2 DEF TypeOK, StoreTypeOK, Phases, Operations, flash, ram, env
  <1>4. RestInv' /\ LiveRecorded' /\ IndexedRecordsPresent'
    BY <1>1 DEF RestInv, LiveRecorded, IndexedRecordsPresent, Live, flash, ram
  <1>5. CallInv' /\ ProgressInv'
    BY <1>1 DEF CallInv, ProgressInv, LiveRecorded, WritesIndex, Live, flash, ram
  <1> QED
    BY <1>3, <1>4, <1>5

------------------------------------------------------------------------------
(* The steps of a call that writes flash. *)

LEMMA WriteRecordStep ==
  ASSUME IInv, WriteRecord
  PROVE  IInv'
  <1> USE DEF IInv
  <1>1. PICK d \in todo :
          /\ nvsRecord' = Put(nvsRecord, d, snapshot[d])
          /\ damaged' = damaged \ {d}
          /\ todo' = todo \ {d}
          /\ UNCHANGED <<nvsVersion, nvsIndex, nvsLayout, nvsRetained>>
          /\ UNCHANGED <<ram, env, pc, op, subject, snapshot, imported>>
    BY DEF WriteRecord, PutRecord
  <1>2. pc = "records" /\ d \in DOMAIN snapshot /\ d \in Device
    BY DEF WriteRecord, TypeOK, ProgressInv
  <1>3. nvsRecord' \in Registry /\ DOMAIN nvsRecord' = DOMAIN nvsRecord \cup {d}
    <2>1. nvsRecord \in Registry /\ snapshot[d] \in Record
      BY <1>2, RegistryForm DEF TypeOK, StoreTypeOK
    <2> QED
      BY <1>1, <1>2, <2>1, PutType
  <1>4. TypeOK'
    BY <1>1, <1>3 DEF TypeOK, StoreTypeOK, ram, env
  <1>5. RestInv' /\ LiveRecorded' /\ IndexedRecordsPresent'
    BY <1>1, <1>3 DEF RestInv, LiveRecorded, IndexedRecordsPresent, Live, ram
  <1>6. CallInv' /\ ProgressInv'
    BY <1>1, <1>3 DEF CallInv, ProgressInv, WritesIndex, Live, ram
  <1> QED
    BY <1>4, <1>5, <1>6

(* The index is written when every record it names has been. *)
LEMMA WriteIndexStep ==
  ASSUME IInv, WriteIndex
  PROVE  IInv'
  <1> USE DEF IInv, WriteIndex, PutIndex, ram, env
  <1>1. TypeOK'
    BY RegistryForm DEF TypeOK, StoreTypeOK, Phases
  <1>2. RestInv' /\ LiveRecorded' /\ IndexedRecordsPresent'
    BY DEF RestInv, LiveRecorded, IndexedRecordsPresent, ProgressInv, Live
  <1>3. CallInv' /\ ProgressInv'
    BY DEF CallInv, ProgressInv, WritesIndex, Live
  <1> QED
    BY <1>1, <1>2, <1>3

(* A step that writes no record and no index, and leaves the call where the  *)
(* work that is left is for retaining devices or for displays.               *)
LEMMA ScopedStep ==
  ASSUME IInv,
         UNCHANGED <<ram, env, op, subject, snapshot, imported, nvsIndex, nvsRecord, damaged>>,
         nvsVersion' \in BOOLEAN,
         nvsLayout' \in [Display -> Layout],
         nvsRetained' \in [Retaining -> BOOLEAN],
         pc \in {"records", "version", "retained", "layouts"},
         pc = "records" => ~WritesIndex,
         \/ pc' = "retained" /\ todo' \in SUBSET Retaining
         \/ pc' = "layouts" /\ todo' \in SUBSET Display
         \/ pc' = "cleanup" /\ todo' \in SUBSET Device
  PROVE  IInv'
  <1> USE DEF IInv, ram, env
  <1>1. TypeOK'
    BY StoreAssumption DEF TypeOK, StoreTypeOK, Phases
  <1>2. RestInv' /\ LiveRecorded' /\ IndexedRecordsPresent'
    BY DEF RestInv, LiveRecorded, IndexedRecordsPresent, Live
  <1>3. CallInv' /\ ProgressInv'
    BY DEF CallInv, ProgressInv, WritesIndex, Live
  <1> QED
    BY <1>1, <1>2, <1>3

LEMMA WriteVersionStep ==
  ASSUME IInv, WriteVersion
  PROVE  IInv'
  BY ScopedStep DEF IInv, TypeOK, StoreTypeOK, WriteVersion, PutVersion, ScopedSaves

LEMMA SkipIndexStep ==
  ASSUME IInv, SkipIndex
  PROVE  IInv'
  BY ScopedStep DEF IInv, TypeOK, StoreTypeOK, SkipIndex, ScopedSaves, flash

LEMMA SaveRetainedStateStep ==
  ASSUME IInv, SaveRetainedState
  PROVE  IInv'
  <1>1. /\ pc = "retained" /\ todo \in SUBSET Retaining
        /\ nvsVersion \in BOOLEAN
        /\ nvsLayout \in [Display -> Layout]
        /\ nvsRetained \in [Retaining -> BOOLEAN]
        /\ retained \in [Retaining -> BOOLEAN]
    BY DEF IInv, TypeOK, StoreTypeOK, ProgressInv, SaveRetainedState
  <1>2. CASE todo = {}
    BY <1>1, <1>2, ScopedStep DEF SaveRetainedState, flash
  <1>3. CASE todo # {}
    <2>1. PICK d \in todo : PutRetained(d, retained[d]) /\ todo' = todo \ {d}
      BY <1>3 DEF SaveRetainedState
    <2>2. nvsRetained' \in [Retaining -> BOOLEAN]
      <3>1. retained[d] \in BOOLEAN
        BY <1>1
      <3>2. nvsRetained' = [nvsRetained EXCEPT ![d] = retained[d]]
        BY <2>1 DEF PutRetained
      <3> QED
        BY <1>1, <3>1, <3>2
    <2>3. todo' \in SUBSET Retaining /\ pc' = "retained"
      BY <1>1, <1>3, <2>1 DEF SaveRetainedState
    <2>4. /\ UNCHANGED <<ram, env, op, subject, snapshot, imported, nvsIndex, nvsRecord, damaged>>
          /\ nvsVersion' \in BOOLEAN /\ nvsLayout' \in [Display -> Layout]
      BY <1>1, <2>1 DEF SaveRetainedState, PutRetained
    <2> QED
      BY <1>1, <2>2, <2>3, <2>4, ScopedStep
  <1> QED
    BY <1>2, <1>3

LEMMA SavePersistedStateStep ==
  ASSUME IInv, SavePersistedState
  PROVE  IInv'
  <1>1. /\ pc = "layouts" /\ todo \in SUBSET Display /\ todo \in SUBSET Device
        /\ nvsVersion \in BOOLEAN
        /\ nvsLayout \in [Display -> Layout]
        /\ nvsRetained \in [Retaining -> BOOLEAN]
        /\ layouts \in [Display -> Layout]
    BY DEF IInv, TypeOK, StoreTypeOK, ProgressInv, SavePersistedState
  <1>2. CASE todo = {}
    BY <1>1, <1>2, ScopedStep DEF SavePersistedState, flash
  <1>3. CASE todo # {}
    <2>1. PICK d \in todo : PutLayout(d, layouts[d]) /\ todo' = todo \ {d}
      BY <1>3 DEF SavePersistedState
    <2>2. nvsLayout' \in [Display -> Layout]
      BY <1>1, <2>1 DEF PutLayout
    <2>3. todo' \in SUBSET Display /\ pc' = "layouts"
      BY <1>1, <1>3, <2>1 DEF SavePersistedState
    <2>4. /\ UNCHANGED <<ram, env, op, subject, snapshot, imported, nvsIndex, nvsRecord, damaged>>
          /\ nvsVersion' \in BOOLEAN /\ nvsRetained' \in [Retaining -> BOOLEAN]
      BY <1>1, <2>1 DEF SavePersistedState, PutLayout
    <2> QED
      BY <1>1, <2>2, <2>3, <2>4, ScopedStep
  <1> QED
    BY <1>2, <1>3

------------------------------------------------------------------------------
(* What a call does once everything is written. *)

LEMMA ReturnTypes ==
  ASSUME Return
  PROVE  /\ pc' \in Phases /\ op' \in Operations
         /\ subject' \in SUBSET Device /\ todo' \in SUBSET Device
         /\ snapshot' \in Registry
         /\ imported' \in [Display -> Layout]
  BY EmptyRegistryType, BlankTypes DEF Return, Phases, Operations

(* Returning ends the call: nothing is left to say of its progress. *)
LEMMA ReturnSettles ==
  ASSUME Return
  PROVE  RestInv' /\ CallInv' /\ ProgressInv'
  BY DEF Return, RestInv, CallInv, ProgressInv

LEMMA ClearedTypes ==
  ASSUME TypeOK, NEW ids, ClearDeviceData(ids)
  PROVE  /\ nvsLayout' \in [Display -> Layout]
         /\ nvsRetained' \in [Retaining -> BOOLEAN]
  <1>1. nvsLayout' \in [Display -> Layout]
    BY StoreAssumption DEF TypeOK, StoreTypeOK, ClearDeviceData
  <1>2. nvsRetained' \in [Retaining -> BOOLEAN]
    BY DEF TypeOK, StoreTypeOK, ClearDeviceData
  <1> QED
    BY <1>1, <1>2

(* A committed call has an index that names exactly its snapshot, unless it  *)
(* is a flush that had no index to write.                                    *)
LEMMA CommittedIndex ==
  ASSUME IInv, NEW o, Committed(o), o # "flush"
  PROVE  nvsIndex = DOMAIN snapshot
  BY DEF IInv, Committed, ProgressInv, WritesIndex

LEMMA FinishImmediateStep ==
  ASSUME IInv, FinishImmediate
  PROVE  IInv'
  <1>1. /\ Return /\ dirtyIndex' = FALSE /\ dirtyConfig' = {}
        /\ UNCHANGED <<flash, env, runtimes, layouts, retained, pinOwner, dirtyRetained>>
    BY DEF FinishImmediate, ForgetConfigDirty
  <1>2. TypeOK'
    BY <1>1, ReturnTypes DEF IInv, TypeOK, StoreTypeOK, flash, env
  <1>3. Live' = nvsIndex /\ IndexedRecordsPresent
    BY <1>1, CommittedIndex DEF FinishImmediate, Committed, IInv, CallInv, Live
  <1>4. LiveRecorded' /\ IndexedRecordsPresent'
    BY <1>1, <1>3 DEF Return, LiveRecorded, IndexedRecordsPresent, flash
  <1> QED
    BY <1>1, <1>2, <1>4, ReturnSettles DEF IInv

LEMMA FinishRemoveStep ==
  ASSUME IInv, FinishRemove
  PROVE  IInv'
  <1>1. /\ Return /\ op = "remove"
        /\ dirtyIndex' = FALSE /\ dirtyConfig' = {}
        /\ RemoveRecords(subject) /\ ClearDeviceData(subject)
        /\ UNCHANGED <<nvsVersion, nvsIndex, env, runtimes, layouts, retained, pinOwner, dirtyRetained>>
    BY DEF FinishRemove, ForgetConfigDirty, Committed
  <1>2. nvsRecord' \in Registry /\ DOMAIN nvsRecord' = DOMAIN nvsRecord \ subject
    BY <1>1, DropType DEF RemoveRecords, IInv, TypeOK, StoreTypeOK
  <1>3. TypeOK'
    BY <1>1, <1>2, ReturnTypes, ClearedTypes DEF RemoveRecords, IInv, TypeOK, StoreTypeOK, env
  <1>4. nvsIndex = Live /\ subject \cap Live = {} /\ Live \subseteq DOMAIN nvsRecord
    BY <1>1, CommittedIndex DEF FinishRemove, Committed, IInv, CallInv, LiveRecorded, Live
  <1>5. LiveRecorded' /\ IndexedRecordsPresent'
    BY <1>1, <1>2, <1>4 DEF Return, LiveRecorded, IndexedRecordsPresent, Live
  <1> QED
    BY <1>1, <1>3, <1>5, ReturnSettles DEF IInv

LEMMA FinishRestoreStep ==
  ASSUME IInv, FinishRestore
  PROVE  IInv'
  <1>1. /\ Return
        /\ runtimes' = snapshot /\ layouts' = imported
        /\ retained' = LoadedRetained(DOMAIN snapshot)
        /\ dirtyIndex' = FALSE
        /\ dirtyConfig' = DOMAIN snapshot \cap Display
        /\ dirtyRetained' = {}
        /\ UNCHANGED <<flash, env, pinOwner>>
    BY DEF FinishRestore
  <1>2. TypeOK'
    <2>1. DOMAIN snapshot \cap Display \in SUBSET Device
      BY RegistryForm DEF IInv, TypeOK
    <2>2. LoadedRetained(DOMAIN snapshot) \in [Retaining -> BOOLEAN]
      BY LoadedTypes DEF IInv
    <2> QED
      BY <1>1, <2>1, <2>2, ReturnTypes DEF IInv, TypeOK, StoreTypeOK, flash, env
  <1>3. Live' = nvsIndex /\ IndexedRecordsPresent
    BY <1>1, CommittedIndex DEF FinishRestore, Committed, IInv, Live
  <1>4. LiveRecorded' /\ IndexedRecordsPresent'
    BY <1>1, <1>3 DEF Return, LiveRecorded, IndexedRecordsPresent, flash
  <1> QED
    BY <1>1, <1>2, <1>4, ReturnSettles DEF IInv

(* Only a flush that also wrote the index deletes records. *)
LEMMA FinishFlushStep ==
  ASSUME IInv, FinishFlush
  PROVE  IInv'
  <1>1. /\ Return /\ op = "flush" /\ pc = "cleanup"
        /\ RemoveRecords(subject)
        /\ dirtyIndex' = FALSE /\ dirtyConfig' = {} /\ dirtyRetained' = {}
        /\ UNCHANGED <<nvsVersion, nvsIndex, nvsLayout, nvsRetained, env, runtimes, layouts, retained, pinOwner>>
    BY DEF FinishFlush, Committed, MarkClean
  <1>2. nvsRecord' \in Registry /\ DOMAIN nvsRecord' = DOMAIN nvsRecord \ subject
    BY <1>1, DropType DEF RemoveRecords, IInv, TypeOK, StoreTypeOK
  <1>3. TypeOK'
    BY <1>1, <1>2, ReturnTypes DEF RemoveRecords, IInv, TypeOK, StoreTypeOK, env
  <1>4. subject \cap Live = {} /\ Live \subseteq DOMAIN nvsRecord
    BY <1>1 DEF IInv, CallInv, LiveRecorded
  <1>5. nvsIndex \subseteq DOMAIN nvsRecord \ subject
    <2>1. CASE dirtyIndex
      BY <1>1, <1>4, <2>1 DEF IInv, CallInv, ProgressInv, WritesIndex, Live
    <2>2. CASE ~dirtyIndex
      BY <1>1, <2>2 DEF IInv, CallInv, IndexedRecordsPresent
    <2> QED
      BY <2>1, <2>2
  <1>6. LiveRecorded' /\ IndexedRecordsPresent'
    BY <1>1, <1>2, <1>4, <1>5 DEF Return, LiveRecorded, IndexedRecordsPresent, Live
  <1> QED
    BY <1>1, <1>3, <1>6, ReturnSettles DEF IInv

LEMMA FinishCleanStep ==
  ASSUME IInv, FinishClean
  PROVE  IInv'
  <1>1. /\ op = "clean" /\ pc' = "records" /\ op' = "recover"
        /\ snapshot' = runtimes /\ todo' = Live /\ subject' = subject
        /\ RemoveRecords(subject \ DOMAIN snapshot)
        /\ UNCHANGED <<nvsVersion, nvsIndex, nvsLayout, nvsRetained, ram, env, imported>>
    BY DEF FinishClean, Committed, Recover, Enter
  <1>2. /\ nvsRecord' \in Registry
        /\ DOMAIN nvsRecord' = DOMAIN nvsRecord \ (subject \ DOMAIN snapshot)
    BY <1>1, DropType DEF RemoveRecords, IInv, TypeOK, StoreTypeOK
  <1>3. TypeOK'
    BY <1>1, <1>2, RegistryForm
       DEF RemoveRecords, IInv, TypeOK, StoreTypeOK, Phases, Operations, Live, env, ram
  <1>4. nvsIndex = DOMAIN snapshot /\ Live \subseteq DOMAIN snapshot /\ subject \cap Live = {}
    BY <1>1, CommittedIndex DEF FinishClean, IInv, CallInv
  <1>5. RestInv' /\ LiveRecorded' /\ IndexedRecordsPresent'
    BY <1>1, <1>2, <1>4 DEF IInv, RestInv, LiveRecorded, IndexedRecordsPresent, Live, ram
  <1>6. CallInv' /\ ProgressInv'
    BY <1>1, <1>4 DEF IInv, CallInv, ProgressInv, Live, ram
  <1> QED
    BY <1>3, <1>5, <1>6 DEF IInv

LEMMA FinishRecoverStep ==
  ASSUME IInv, FinishRecover
  PROVE  IInv'
  <1>1. /\ Return /\ op = "recover"
        /\ RemoveRecords(subject) /\ ClearDeviceData(subject)
        /\ UNCHANGED <<nvsVersion, nvsIndex, ram, env>>
    BY DEF FinishRecover, Committed
  <1>2. nvsRecord' \in Registry /\ DOMAIN nvsRecord' = DOMAIN nvsRecord \ subject
    BY <1>1, DropType DEF RemoveRecords, IInv, TypeOK, StoreTypeOK
  <1>3. TypeOK'
    BY <1>1, <1>2, ReturnTypes, ClearedTypes DEF RemoveRecords, IInv, TypeOK, StoreTypeOK, env, ram
  <1>4. nvsIndex = Live /\ subject \cap Live = {} /\ Live \subseteq DOMAIN nvsRecord
    BY <1>1, CommittedIndex DEF FinishRecover, Committed, IInv, CallInv, LiveRecorded, Live
  <1>5. LiveRecorded' /\ IndexedRecordsPresent'
    BY <1>1, <1>2, <1>4 DEF Return, LiveRecorded, IndexedRecordsPresent, Live, ram
  <1> QED
    BY <1>1, <1>3, <1>5, ReturnSettles DEF IInv

------------------------------------------------------------------------------
(* The environment. *)

LEMMA WriteFailsStep ==
  ASSUME IInv, WriteFails
  PROVE  IInv'
  <1>1. /\ faults' \in 0..MaxFaults
        /\ UNCHANGED <<flash, crashes, damages, pinOwner, dirtyIndex, dirtyConfig, dirtyRetained>>
    BY RegistryAssumption DEF WriteFails, IInv, TypeOK
  <1>2. CASE op = "create"
    <2>1. /\ Return
          /\ runtimes' = Drop(runtimes, subject)
          /\ layouts' = [d \in Display |-> IF d \in subject THEN Blank ELSE layouts[d]]
          /\ retained' = [d \in Retaining |-> d \notin subject /\ retained[d]]
      BY <1>2 DEF WriteFails
    <2>2. runtimes' \in Registry /\ Live' = Live \ subject
      BY <2>1, DropType DEF IInv, TypeOK, Live
    <2>3. layouts' \in [Display -> Layout]
      BY <2>1, StoreAssumption DEF IInv, TypeOK
    <2>4. retained' \in [Retaining -> BOOLEAN]
      BY <2>1
    <2>5. TypeOK'
      BY <1>1, <2>1, <2>2, <2>3, <2>4, ReturnTypes DEF IInv, TypeOK, StoreTypeOK, flash
    <2>6. LiveRecorded' /\ IndexedRecordsPresent'
      BY <1>1, <1>2, <2>1, <2>2 DEF IInv, Return, LiveRecorded, IndexedRecordsPresent, flash
    <2> QED
      BY <2>1, <2>5, <2>6, ReturnSettles DEF IInv
  <1>3. CASE op = "clean"
    <2>1. /\ UNCHANGED <<runtimes, layouts, retained, subject, imported>>
          /\ pc' = "records" /\ op' = "recover" /\ snapshot' = runtimes /\ todo' = Live
      BY <1>3 DEF WriteFails
    <2>2. TypeOK'
      BY <1>1, <2>1, RegistryForm
         DEF IInv, TypeOK, StoreTypeOK, Phases, Operations, Live, flash
    <2>3. RestInv' /\ LiveRecorded' /\ IndexedRecordsPresent'
      BY <1>1, <1>3, <2>1 DEF IInv, RestInv, LiveRecorded, IndexedRecordsPresent, Live, flash
    <2>4. CallInv' /\ ProgressInv'
      BY <1>1, <1>3, <2>1 DEF IInv, CallInv, ProgressInv, Live
    <2> QED
      BY <2>2, <2>3, <2>4 DEF IInv
  <1>4. CASE op \notin {"create", "clean"}
    <2>1. Return /\ UNCHANGED <<runtimes, layouts, retained>>
      BY <1>4 DEF WriteFails
    <2>2. TypeOK'
      BY <1>1, <2>1, ReturnTypes DEF IInv, TypeOK, StoreTypeOK, flash
    <2>3. LiveRecorded' /\ IndexedRecordsPresent'
      BY <1>1, <1>4, <2>1 DEF IInv, Return, LiveRecorded, IndexedRecordsPresent, Live, flash
    <2> QED
      BY <2>1, <2>2, <2>3, ReturnSettles DEF IInv
  <1> QED
    BY <1>2, <1>3, <1>4

LEMMA PowerLossStep ==
  ASSUME IInv, PowerLoss
  PROVE  IInv'
  <1> USE DEF IInv, PowerLoss, RamOff, flash
  <1>1. TypeOK'
    <2>1. crashes' \in 0..MaxCrashes
      BY RegistryAssumption DEF TypeOK
    <2>2. StoreTypeOK'
      BY DEF TypeOK, StoreTypeOK
    <2> QED
      BY <2>1, <2>2, EmptyRegistryType, BlankTypes DEF TypeOK, Phases, Operations
  <1>2. RestInv' /\ LiveRecorded' /\ IndexedRecordsPresent'
    BY EmptyRegistryType DEF RestInv, LiveRecorded, IndexedRecordsPresent, Live
  <1>3. CallInv' /\ ProgressInv'
    BY DEF CallInv, ProgressInv
  <1> QED
    BY <1>1, <1>2, <1>3

LEMMA DamageStep ==
  ASSUME IInv, NEW d \in Device, Damage(d)
  PROVE  IInv'
  <1> USE DEF IInv, Damage, DamageRecord, ram, ctl
  <1>1. TypeOK'
    BY RegistryAssumption DEF TypeOK, StoreTypeOK
  <1>2. RestInv' /\ LiveRecorded' /\ IndexedRecordsPresent'
    BY DEF RestInv, LiveRecorded, IndexedRecordsPresent, Live
  <1>3. CallInv' /\ ProgressInv'
    BY DEF CallInv, ProgressInv, WritesIndex, Live
  <1> QED
    BY <1>1, <1>2, <1>3

LEMMA StutterStep ==
  ASSUME IInv, UNCHANGED vars
  PROVE  IInv'
  <1> USE DEF IInv, vars, ram, ctl, env, flash
  <1>1. TypeOK'
    BY DEF TypeOK, StoreTypeOK
  <1>2. RestInv' /\ LiveRecorded' /\ IndexedRecordsPresent'
    BY DEF RestInv, LiveRecorded, IndexedRecordsPresent, Live
  <1>3. CallInv' /\ ProgressInv'
    BY DEF CallInv, ProgressInv, WritesIndex, Live
  <1> QED
    BY <1>1, <1>2, <1>3

------------------------------------------------------------------------------
(* The theorems. *)

(* IInv is inductive: one case for each disjunct of Next. *)
LEMMA StepIInv == IInv /\ [Next]_vars => IInv'
  <1> SUFFICES ASSUME IInv, [Next]_vars PROVE IInv'
    OBVIOUS
  <1>1. CASE Begin
    BY <1>1, BeginEmptyStep, BeginLoadStep DEF Begin
  <1>2. CASE Request
    BY <1>2, CreateStep, UpdateStep, SetDepsStep, RemoveImmediateStep, RemoveDelayedStep,
       CaptureRetainedStep, ApplyPersistedStateStep, RestoreStep, RestoreRejectedStep
       DEF Request
  <1>3. CASE Flush
    BY <1>3, FlushStep
  <1>4. CASE CallStep
    BY <1>4, WriteRecordStep, WriteIndexStep, WriteVersionStep, SkipIndexStep,
       SaveRetainedStateStep, SavePersistedStateStep, FinishImmediateStep, FinishRemoveStep,
       FinishRestoreStep, FinishFlushStep, FinishCleanStep, FinishRecoverStep
       DEF CallStep, Finish
  <1>5. CASE Environment
    BY <1>5, WriteFailsStep, PowerLossStep, DamageStep DEF Environment
  <1>6. CASE UNCHANGED vars
    BY <1>6, StutterStep
  <1> QED
    BY <1>1, <1>2, <1>3, <1>4, <1>5, <1>6 DEF Next

LEMMA Inductive == Spec => []IInv
  <1>1. Init => IInv
    BY InitIInv
  <1>2. IInv /\ [Next]_vars => IInv'
    BY StepIInv
  <1> QED
    BY <1>1, <1>2, PTL DEF Spec

(* Whatever call runs, fails or is cut short, every variable of the registry *)
(* and of its flash keeps its type: ids stay ids, a registry in RAM or in    *)
(* flash stays one record per id, a pin is owned by a device id or is free.  *)
THEOREM TypeCorrect == Spec => []TypeOK
  <1>1. IInv => TypeOK
    BY DEF IInv
  <1> QED
    BY <1>1, Inductive, PTL

(* The index in flash never names a record that is not there, between any    *)
(* two writes of any call, import, flush or recovery, for any number of      *)
(* power losses, failed writes and damaged records: what save, flushNow,     *)
(* remove and begin write before the index and delete after it is enough.    *)
THEOREM IndexNamesRecords == Spec => []IndexedRecordsPresent
  <1>1. IInv => IndexedRecordsPresent
    BY DEF IInv
  <1> QED
    BY <1>1, Inductive, PTL

==============================================================================
