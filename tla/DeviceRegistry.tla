---------------------------- MODULE DeviceRegistry ----------------------------
(***************************************************************************)
(* DeviceRegistry: the devices in RAM, what of them is not yet in flash,   *)
(* and every public call that changes either.                              *)
(*                                                                         *)
(* Each call runs under the registry's recursive mutex, so two calls never *)
(* interleave; what does fall in the middle of a call is a power loss or a *)
(* failing NVS write.  A call that writes flash is therefore a sequence of *)
(* steps here, one per key, with pc naming the next one, and every other   *)
(* call waits until pc is "idle" again.  pc = "off" is a powered-off board.*)
(*                                                                         *)
(* When the debounce lets a background flush start is the subject of       *)
(* PersistenceTimer; here it may start whenever something is dirty.        *)
(***************************************************************************)
EXTENDS RegistryStore, Integers

CONSTANTS
  Pin, PinOf, NoPin,             \* PinOf[c]: the GPIO a device configured with c owns, or NoPin
  DelayedRemove,                 \* does the caller also delete with the Delayed policy?
  Restoring,                     \* does the caller also import backups?
  MaxFaults, MaxCrashes, MaxDamage   \* bounds on what the environment does

ASSUME RegistryAssumption ==
  /\ NoPin \notin Pin
  /\ PinOf \in [Config -> Pin \cup {NoPin}]
  /\ DelayedRemove \in BOOLEAN /\ Restoring \in BOOLEAN
  /\ MaxFaults \in Nat /\ MaxCrashes \in Nat /\ MaxDamage \in Nat

VARIABLES
  runtimes,       \* runtimes_
  layouts,        \* layout_ of the display runtimes; Blank for any other id
  retained,       \* the retained output of the runtimes; FALSE for an absent id
  pinOwner,       \* pinOwner_: 0 is a free pin
  dirtyIndex,     \* dirtyIndex_
  dirtyConfig,    \* dirtyConfigRecordIds_
  dirtyRetained,  \* dirtyRetainedStateIds_
  pc, op,         \* the step and the call in progress
  subject,        \* ids that call creates, deletes or cleans up after
  snapshot,       \* the DeviceRegistrySnapshot it is saving
  todo,           \* ids the current phase still has to write
  imported,       \* restoreImpl: the layouts of the next runtimes
  faults, crashes, damages

ram == <<runtimes, layouts, retained, pinOwner, dirtyIndex, dirtyConfig, dirtyRetained>>
ctl == <<pc, op, subject, snapshot, todo, imported>>
env == <<faults, crashes, damages>>
vars == <<ram, ctl, env, flash>>

Operations == {"none", "create", "update", "remove", "restore", "flush", "clean", "recover"}
Phases == {"off", "idle", "records", "version", "retained", "layouts", "cleanup"}

TypeOK ==
  /\ StoreTypeOK
  /\ runtimes \in Registry /\ snapshot \in Registry
  /\ layouts \in [Display -> Layout] /\ imported \in [Display -> Layout]
  /\ retained \in [Retaining -> BOOLEAN]
  /\ pinOwner \in [Pin -> Device \cup {0}]
  /\ dirtyIndex \in BOOLEAN
  /\ dirtyConfig \in SUBSET Device /\ dirtyRetained \in SUBSET Device
  /\ pc \in Phases /\ op \in Operations
  /\ subject \in SUBSET Device /\ todo \in SUBSET Device
  /\ faults \in 0..MaxFaults /\ crashes \in 0..MaxCrashes /\ damages \in 0..MaxDamage

Live == DOMAIN runtimes

(* hasPendingPersistence *)
Dirty == dirtyIndex \/ dirtyConfig # {} \/ dirtyRetained # {}

NoLayouts == [d \in Display |-> Blank]
NothingRetained == [d \in Retaining |-> FALSE]
FreePins == [p \in Pin |-> 0]

(* A runtime built for id d loads what the scoped stores hold for that id;   *)
(* an id without a runtime has neither.                                      *)
LoadedLayouts(ids) == [d \in Display |-> IF d \in ids THEN nvsLayout[d] ELSE Blank]
LoadedRetained(ids) == [d \in Retaining |-> d \in ids /\ nvsRetained[d]]

(* claimGpioPins of every device of reg, one after the other, and            *)
(* releaseGpioPins of one: both write the slot without looking at who owns   *)
(* it.  The last to use a pin gets it; their order is that of the index or   *)
(* of an imported bundle, which nothing sorts.                               *)
Claims(owner, reg) ==
  {next \in [Pin -> Device \cup {0}] :
     \A p \in Pin : LET users == {d \in DOMAIN reg : PinOf[reg[d].config] = p}
                   IN IF users = {} THEN next[p] = owner[p] ELSE next[p] \in users}

(* Mutant: a type that does not override releaseGpioPins. *)
ReleaseNothing(owner, rec) == owner

Release(owner, rec) == [p \in Pin |-> IF PinOf[rec.config] = p THEN 0 ELSE owner[p]]

RamOff ==
  /\ runtimes' = EmptyRegistry
  /\ layouts' = NoLayouts
  /\ retained' = NothingRetained
  /\ pinOwner' = FreePins
  /\ dirtyIndex' = FALSE
  /\ dirtyConfig' = {}
  /\ dirtyRetained' = {}

Init ==
  /\ StoreInit
  /\ runtimes = EmptyRegistry
  /\ layouts = NoLayouts
  /\ retained = NothingRetained
  /\ pinOwner = FreePins
  /\ dirtyIndex = FALSE
  /\ dirtyConfig = {}
  /\ dirtyRetained = {}
  /\ pc = "off" /\ op = "none"
  /\ subject = {} /\ todo = {}
  /\ snapshot = EmptyRegistry
  /\ imported = NoLayouts
  /\ faults = 0 /\ crashes = 0 /\ damages = 0

------------------------------------------------------------------------------
(* Entering and leaving a call that writes flash. *)

Enter(o, ids, snap, work) ==
  /\ pc' = "records"
  /\ op' = o
  /\ subject' = ids
  /\ snapshot' = snap
  /\ todo' = work
  /\ UNCHANGED env

Return ==
  /\ pc' = "idle"
  /\ op' = "none"
  /\ subject' = {} /\ todo' = {}
  /\ snapshot' = EmptyRegistry
  /\ imported' = NoLayouts

(* persistIfNeeded(Immediate): DeviceRegistryStore::save of every record. *)
SaveAll(o, ids, snap) == Enter(o, ids, snap, DOMAIN snap)

(* Mutant: everything counts as saved. *)
ForgetAllDirty == dirtyIndex' = FALSE /\ dirtyConfig' = {} /\ dirtyRetained' = {}

(* clearConfigDirtyAfterImmediateFlush: retained work stays. *)
ForgetConfigDirty ==
  /\ dirtyIndex' = FALSE
  /\ dirtyConfig' = {}
  /\ UNCHANGED dirtyRetained

(* Mutant: what is retained stays marked. *)
MarkConfigClean == ForgetConfigDirty

(* markClean *)
MarkClean ==
  /\ dirtyIndex' = FALSE
  /\ dirtyConfig' = {}
  /\ dirtyRetained' = {}

------------------------------------------------------------------------------
(* begin() *)

BeginEmpty ==
  /\ pc = "off"
  /\ ~nvsVersion
  /\ ResetStorage
  /\ pc' = "idle"
  /\ UNCHANGED <<ram, op, subject, snapshot, todo, imported, env>>

BeginLoad ==
  /\ pc = "off"
  /\ nvsVersion
  /\ LET kept == Survivors(Readable)
         discarded == nvsIndex \ DOMAIN kept
     IN /\ runtimes' = kept
        /\ layouts' = LoadedLayouts(DOMAIN kept)
        /\ retained' = LoadedRetained(DOMAIN kept)
        /\ pinOwner' \in Claims(pinOwner, kept)
        /\ CASE discarded = {} -> /\ pc' = "idle"
                                  /\ UNCHANGED <<op, subject, snapshot, todo, env>>
             [] nvsIndex # DOMAIN Readable -> Enter("clean", discarded, Readable, {})
             [] OTHER -> Enter("recover", discarded, kept, DOMAIN kept)
  /\ UNCHANGED <<flash, dirtyIndex, dirtyConfig, dirtyRetained, imported>>

------------------------------------------------------------------------------
(* Calls of the portal and of the integrations. *)

Create(d, rec) ==
  /\ pc = "idle"
  /\ d \notin Live
  /\ Valid(Put(runtimes, d, rec))
  /\ runtimes' = Put(runtimes, d, rec)
  /\ layouts' = [x \in Display |-> IF x = d THEN nvsLayout[x] ELSE layouts[x]]
  /\ retained' = [x \in Retaining |-> IF x = d THEN nvsRetained[x] ELSE retained[x]]
  /\ pinOwner' \in Claims(pinOwner, Restrict(runtimes', {d}))
  /\ SaveAll("create", {d}, runtimes')
  /\ UNCHANGED <<flash, dirtyIndex, dirtyConfig, dirtyRetained, imported>>

(* Mutant: an update never counts as a reassignment of links. *)
RelinksNever(d, rec) == FALSE

(* dependenciesChanged *)
Relinks(d, rec) == rec.deps # runtimes[d].deps

(* updateConfigAndDeps.  Without a change of links the policy stays Delayed  *)
(* and only the record is marked; a change of links makes it Immediate.      *)
(* layout is the optional persisted-state sidecar; it stays in RAM.          *)
UpdateConfigAndDeps(d, rec, layout) ==
  /\ pc = "idle"
  /\ d \in Live
  /\ Valid(Put(runtimes, d, rec))
  /\ d \notin Display => layout = Blank
  /\ runtimes' = Put(runtimes, d, rec)
  /\ layouts' = [x \in Display |-> IF x = d THEN layout ELSE layouts[x]]
  /\ pinOwner' \in Claims(Release(pinOwner, runtimes[d]), Restrict(runtimes', {d}))
  /\ dirtyConfig' = dirtyConfig \cup {d}
  /\ IF Relinks(d, rec)
       THEN SaveAll("update", {d}, runtimes') /\ UNCHANGED imported
       ELSE UNCHANGED <<ctl, env>>
  /\ UNCHANGED <<flash, retained, dirtyIndex, dirtyRetained>>

(* Mutants: the new links are not validated; a failing save leaves no mark. *)
SetDepsUnchecked(d, deps) ==
  /\ pc = "idle"
  /\ d \in Live
  /\ deps # runtimes[d].deps
  /\ runtimes' = Put(runtimes, d, [runtimes[d] EXCEPT !.deps = deps])
  /\ dirtyConfig' = dirtyConfig \cup {d}
  /\ SaveAll("update", {d}, runtimes')
  /\ UNCHANGED <<flash, layouts, retained, pinOwner, dirtyIndex, dirtyRetained, imported>>

SetDepsUnmarked(d, deps) ==
  /\ pc = "idle"
  /\ d \in Live
  /\ deps # runtimes[d].deps
  /\ LET rec == [runtimes[d] EXCEPT !.deps = deps]
     IN /\ Valid(Put(runtimes, d, rec))
        /\ runtimes' = Put(runtimes, d, rec)
  /\ SaveAll("update", {d}, runtimes')
  /\ UNCHANGED <<flash, layouts, retained, pinOwner, dirtyIndex, dirtyConfig, dirtyRetained, imported>>

(* setDeps with the links it already has returns at once. *)
SetDeps(d, deps) ==
  /\ pc = "idle"
  /\ d \in Live
  /\ deps # runtimes[d].deps
  /\ LET rec == [runtimes[d] EXCEPT !.deps = deps]
     IN /\ Valid(Put(runtimes, d, rec))
        /\ runtimes' = Put(runtimes, d, rec)
  /\ dirtyConfig' = dirtyConfig \cup {d}
  /\ SaveAll("update", {d}, runtimes')
  /\ UNCHANGED <<flash, layouts, retained, pinOwner, dirtyIndex, dirtyRetained, imported>>

(* remove.  The layout is forgotten in flash before anything else; the save  *)
(* then refuses a registry with a dangling link before it writes a key, and  *)
(* the call returns with the runtime gone and nothing marked.                *)
Remove(d) ==
  /\ pc = "idle"
  /\ d \in Live
  /\ Dependents(runtimes, d) = {}
  /\ runtimes' = Drop(runtimes, {d})
  /\ layouts' = [x \in Display |-> IF x = d THEN Blank ELSE layouts[x]]
  /\ nvsLayout' = [x \in Display |-> IF x = d THEN Blank ELSE nvsLayout[x]]
  /\ retained' = [x \in Retaining |-> x # d /\ retained[x]]
  /\ pinOwner' = Release(pinOwner, runtimes[d])
  /\ UNCHANGED <<nvsVersion, nvsIndex, nvsRecord, nvsRetained, damaged, dirtyRetained>>

RemoveImmediate(d) ==
  /\ Remove(d)
  /\ UNCHANGED <<dirtyIndex, dirtyConfig>>
  /\ IF Valid(runtimes')
       THEN SaveAll("remove", {d}, runtimes') /\ UNCHANGED imported
       ELSE UNCHANGED <<ctl, env>>

RemoveDelayed(d) ==
  /\ DelayedRemove
  /\ Remove(d)
  /\ dirtyIndex' = TRUE
  /\ dirtyConfig' = dirtyConfig \cup {d}
  /\ UNCHANGED <<ctl, env>>

ApplyPersistedStateUpdate(d, layout) ==
  /\ pc = "idle"
  /\ d \in Live \cap Display
  /\ layouts' = [layouts EXCEPT ![d] = layout]
  /\ dirtyConfig' = dirtyConfig \cup {d}
  /\ UNCHANGED <<flash, ctl, env, runtimes, retained, pinOwner, dirtyIndex, dirtyRetained>>

(* A command or a tick changes what the runtime retains, and the same call   *)
(* captures it (captureRuntimeRetainedState).                                *)
CaptureRetained(d) ==
  /\ pc = "idle"
  /\ d \in Live \cap Retaining
  /\ retained' = [retained EXCEPT ![d] = ~@]
  /\ dirtyRetained' = dirtyRetained \cup {d}
  /\ UNCHANGED <<flash, ctl, env, runtimes, layouts, pinOwner, dirtyIndex, dirtyConfig>>

(* restoreImpl: the next runtimes are built, and claim their pins, before    *)
(* the snapshot is saved.                                                    *)
Restore(reg, bundle) ==
  /\ pc = "idle"
  /\ Valid(reg)
  /\ \A d \in Display \ DOMAIN reg : bundle[d] = Blank
  /\ imported' = bundle
  /\ pinOwner' \in Claims(pinOwner, reg)
  /\ SaveAll("restore", {}, reg)
  /\ UNCHANGED <<flash, runtimes, layouts, retained, dirtyIndex, dirtyConfig, dirtyRetained>>

(* A layout of the bundle that the new runtime rejects ends it there. *)
RestoreRejected(reg) ==
  /\ pc = "idle"
  /\ Valid(reg)
  /\ DOMAIN reg \cap Display # {}
  /\ pinOwner' \in Claims(pinOwner, reg)
  /\ UNCHANGED <<flash, ctl, env, runtimes, layouts, retained, dirtyIndex, dirtyConfig, dirtyRetained>>

(* flushNow, from tick() once the debounce allows or from a restart or an    *)
(* update of the firmware.                                                   *)
Flush ==
  /\ pc = "idle"
  /\ Dirty
  /\ Enter("flush", IF dirtyIndex THEN dirtyConfig \ Live ELSE {}, runtimes,
           CASE dirtyConfig # {} -> dirtyConfig \cap Live
             [] dirtyIndex /\ dirtyConfig = {} -> Live
             [] OTHER -> {})
  /\ UNCHANGED <<flash, ram, imported>>

------------------------------------------------------------------------------
(* The steps of a call that writes flash. *)

(* saveRecords, in the order of the snapshot: an imported one has any.       *)
WriteRecord ==
  /\ pc = "records"
  /\ \E d \in todo : PutRecord(d, snapshot[d]) /\ todo' = todo \ {d}
  /\ UNCHANGED <<ram, env, pc, op, subject, snapshot, imported>>

WritesIndex == op # "flush" \/ dirtyIndex

(* Mutant: the index is written while records it names are missing. *)
WriteIndexEarly ==
  /\ pc = "records"
  /\ WritesIndex
  /\ PutIndex(DOMAIN snapshot)
  /\ pc' = "version"
  /\ UNCHANGED <<ram, env, op, subject, snapshot, todo, imported>>

WriteIndex ==
  /\ pc = "records"
  /\ todo = {}
  /\ WritesIndex
  /\ PutIndex(DOMAIN snapshot)
  /\ pc' = "version"
  /\ UNCHANGED <<ram, env, op, subject, snapshot, todo, imported>>

ScopedSaves ==
  /\ pc' = "retained"
  /\ todo' = dirtyRetained \cap Live \cap Retaining

WriteVersion ==
  /\ pc = "version"
  /\ PutVersion
  /\ IF op = "flush" THEN ScopedSaves ELSE pc' = "cleanup" /\ UNCHANGED todo
  /\ UNCHANGED <<ram, env, op, subject, snapshot, imported>>

SkipIndex ==
  /\ pc = "records"
  /\ todo = {}
  /\ ~WritesIndex
  /\ ScopedSaves
  /\ UNCHANGED <<ram, env, flash, op, subject, snapshot, imported>>

SaveRetainedState ==
  /\ pc = "retained"
  /\ IF todo = {}
       THEN /\ pc' = "layouts"
            /\ todo' = dirtyConfig \cap Live \cap Display
            /\ UNCHANGED flash
       ELSE /\ \E d \in todo : PutRetained(d, retained[d]) /\ todo' = todo \ {d}
            /\ UNCHANGED pc
  /\ UNCHANGED <<ram, env, op, subject, snapshot, imported>>

SavePersistedState ==
  /\ pc = "layouts"
  /\ IF todo = {}
       THEN /\ pc' = "cleanup"
            /\ UNCHANGED <<flash, todo>>
       ELSE /\ \E d \in todo : PutLayout(d, layouts[d]) /\ todo' = todo \ {d}
            /\ UNCHANGED pc
  /\ UNCHANGED <<ram, env, op, subject, snapshot, imported>>

(* Mutant: the call goes on whatever its writes returned. *)
CommittedAnyway(o) == pc \in {"records", "version", "cleanup"} /\ op = o

(* What each call does once everything it had to write is written.  Leaving  *)
(* a stale record behind is never an error.                                  *)
Committed(o) == pc = "cleanup" /\ op = o

FinishImmediate ==
  /\ Committed("create") \/ Committed("update")
  /\ Return
  /\ ForgetConfigDirty
  /\ UNCHANGED <<flash, env, runtimes, layouts, retained, pinOwner>>

FinishRemove ==
  /\ Committed("remove")
  /\ Return
  /\ ForgetConfigDirty
  /\ RemoveRecords(subject)
  /\ ClearDeviceData(subject)
  /\ UNCHANGED <<nvsVersion, nvsIndex, env, runtimes, layouts, retained, pinOwner>>

FinishRestore ==
  /\ Committed("restore")
  /\ Return
  /\ runtimes' = snapshot
  /\ layouts' = imported
  /\ retained' = LoadedRetained(DOMAIN snapshot)
  /\ dirtyIndex' = FALSE
  /\ dirtyConfig' = DOMAIN snapshot \cap Display
  /\ dirtyRetained' = {}
  /\ UNCHANGED <<flash, env, pinOwner>>

FinishFlush ==
  /\ Committed("flush")
  /\ Return
  /\ RemoveRecords(subject)
  /\ MarkClean
  /\ UNCHANGED <<nvsVersion, nvsIndex, nvsLayout, nvsRetained, env, runtimes, layouts, retained, pinOwner>>

(* load() has cleaned the index; begin() goes on to save what it recovered.  *)
Recover == Enter("recover", subject, runtimes, Live) /\ UNCHANGED imported

FinishClean ==
  /\ Committed("clean")
  /\ RemoveRecords(subject \ DOMAIN snapshot)
  /\ Recover
  /\ UNCHANGED <<nvsVersion, nvsIndex, nvsLayout, nvsRetained, ram>>

FinishRecover ==
  /\ Committed("recover")
  /\ Return
  /\ RemoveRecords(subject)
  /\ ClearDeviceData(subject)
  /\ UNCHANGED <<nvsVersion, nvsIndex, ram, env>>

Finish ==
  \/ FinishImmediate \/ FinishRemove \/ FinishRestore
  \/ FinishFlush \/ FinishClean \/ FinishRecover

------------------------------------------------------------------------------
(* What the environment does. *)

HasWrite ==
  \/ pc = "version"
  \/ pc = "records" /\ (todo # {} \/ WritesIndex)
  \/ pc \in {"retained", "layouts"} /\ todo # {}

(* A write fails: every call gives up at that key and keeps what it marked.  *)
(* create() drops the runtime it had built, but not the pins it claimed;     *)
(* load() only warns.                                                        *)
WriteFails ==
  /\ HasWrite
  /\ faults < MaxFaults
  /\ faults' = faults + 1
  /\ UNCHANGED <<flash, crashes, damages, pinOwner, dirtyIndex, dirtyConfig, dirtyRetained>>
  /\ IF op = "create"
       THEN /\ Return
            /\ runtimes' = Drop(runtimes, subject)
            /\ layouts' = [d \in Display |-> IF d \in subject THEN Blank ELSE layouts[d]]
            /\ retained' = [d \in Retaining |-> d \notin subject /\ retained[d]]
       ELSE /\ UNCHANGED <<runtimes, layouts, retained>>
            /\ IF op = "clean"
                 THEN /\ pc' = "records" /\ op' = "recover"
                      /\ snapshot' = runtimes /\ todo' = Live
                      /\ UNCHANGED <<subject, imported>>
                 ELSE Return

PowerLoss ==
  /\ pc # "off"
  /\ crashes < MaxCrashes
  /\ crashes' = crashes + 1
  /\ RamOff
  /\ pc' = "off"
  /\ op' = "none"
  /\ subject' = {} /\ todo' = {}
  /\ snapshot' = EmptyRegistry
  /\ imported' = NoLayouts
  /\ UNCHANGED <<flash, faults, damages>>

Damage(d) ==
  /\ pc = "off"
  /\ damages < MaxDamage
  /\ damages' = damages + 1
  /\ DamageRecord(d)
  /\ UNCHANGED <<ram, ctl, faults, crashes>>

------------------------------------------------------------------------------
Begin == BeginEmpty \/ BeginLoad

Request ==
  \/ \E d \in Device, rec \in Record : Create(d, rec)
  \/ \E d \in Device, rec \in Record, layout \in Layout : UpdateConfigAndDeps(d, rec, layout)
  \/ \E d \in Device, deps \in SUBSET Device : SetDeps(d, deps)
  \/ \E d \in Device : RemoveImmediate(d) \/ RemoveDelayed(d) \/ CaptureRetained(d)
  \/ \E d \in Device, layout \in Layout : ApplyPersistedStateUpdate(d, layout)
  \/ Restoring /\ \E reg \in Registry, bundle \in [Display -> Layout] : Restore(reg, bundle)
  \/ Restoring /\ \E reg \in Registry : RestoreRejected(reg)

CallStep ==
  \/ WriteRecord \/ WriteIndex \/ WriteVersion \/ SkipIndex
  \/ SaveRetainedState \/ SavePersistedState \/ Finish

Environment == WriteFails \/ PowerLoss \/ (\E d \in Device : Damage(d))

Next == Begin \/ Request \/ Flush \/ CallStep \/ Environment

Spec == Init /\ [][Next]_vars

(* The main loop never stops: boot, the background flush and the steps of a  *)
(* call are taken.  The flush waits for a mutex that the web server's task   *)
(* takes again and again, and that FreeRTOS hands to a waiting task.         *)
FairSpec == Spec /\ WF_vars(Begin) /\ WF_vars(CallStep) /\ SF_vars(Flush)

------------------------------------------------------------------------------
(* Properties *)

(* The index never names a record that is not there, whatever fails and      *)
(* whenever the power goes: the commit order of DeviceRegistryStore::save,   *)
(* flushNow, remove and begin.                                               *)
IndexedRecordsPresent == nvsIndex \subseteq DOMAIN nvsRecord

(* Between any two writes of any call the stored links form a closed and     *)
(* acyclic graph, so a boot after a power loss discards no device, unless    *)
(* writes failed or records were damaged.                                    *)
StoredRegistryRecoverable == faults = 0 /\ damages = 0 => Valid(Stored)

(* Each write of flash is, to the next boot, one whole change of one device  *)
(* or no change (DeviceRegistryStore::save writes several keys).             *)
Atomic == INSTANCE AtomicRegistry WITH reg <- Stored
StoreIsAtomic == Atomic!Spec

(* Which devices exist and what they depend on is in flash whenever no call  *)
(* runs, with or without other pending persistence: creating, deleting and   *)
(* relinking are never left to the debounce (policyForCommand and the        *)
(* effectivePolicy of updateConfigAndDeps), but for a delete with the        *)
(* Delayed policy, which marks the index.                                    *)
StructureDurable ==
  pc = "idle" /\ ~dirtyIndex /\ faults = 0 /\ damages = 0 =>
    /\ DOMAIN Stored = Live
    /\ \A d \in Live : Stored[d].deps = runtimes[d].deps

(* A record that differs from its flash copy is marked, also after failed    *)
(* saves; without the mark no flush would ever write it again.               *)
RecordsMarked ==
  pc = "idle" =>
    \A d \in Live : d \in dirtyConfig \/ (d \in DOMAIN nvsRecord /\ nvsRecord[d] = runtimes[d])

(* No failed write makes a device that is alive disappear at the next boot:  *)
(* create() reports it only once the version is written, and a failed save   *)
(* never shrinks the index below the devices it kept.                        *)
NoLiveDeviceForgotten == pc = "idle" => Live \subseteq DOMAIN Stored

(* hasPendingPersistence() = false is what a restart waits for: flash then   *)
(* holds every record and every retained output, unless a save has failed,   *)
(* and no other record, unless one was damaged as well: with a link to a     *)
(* device that is gone the save of a delete is refused and nothing is marked.*)
CleanIsDurable ==
  pc = "idle" /\ ~Dirty /\ faults = 0 =>
    /\ \A d \in Live : d \in DOMAIN Stored /\ Stored[d] = runtimes[d]
    /\ damages = 0 => DOMAIN Stored = Live
    /\ \A d \in Live \cap Retaining : nvsRetained[d] = retained[d]

(* No pin is owned by a device that is gone or is configured elsewhere,      *)
(* unless a save has failed.                                                 *)
NoStalePinOwner ==
  pc = "idle" /\ faults = 0 =>
    \A p \in Pin : pinOwner[p] # 0 =>
      pinOwner[p] \in Live /\ PinOf[runtimes[pinOwner[p]].config] = p

(* restoreImpl replaces the devices in RAM only by devices flash already     *)
(* holds, even when an earlier import failed half way.                       *)
SwapAfterCommit ==
  [][(op = "restore" \/ op' = "restore") /\ runtimes' # runtimes /\ pc' # "off"
       => Stored = runtimes']_vars

(* A record that cannot be read costs its own device and no other: load()    *)
(* and discardInvalidLoadRelationships keep the devices that depend on it.   *)
(* Only relinks whose saves failed half way can leave a cycle to discard.    *)
BootKeepsReadable ==
  [][pc = "off" /\ pc' # "off" /\ nvsVersion /\ faults = 0
       => Live' = nvsIndex \ damaged]_vars

(* The recovery begin() saves is complete: the next boot finds nothing more  *)
(* to clean up, however often the power went, or a write failed, on the way. *)
RecoveryConverges ==
  [][Committed("recover") /\ pc' = "idle"
       => nvsIndex' = Live /\ damaged' \cap nvsIndex' = {}]_vars

(* What is dirty reaches flash or is lost with the power.                    *)
FlushSettles == Dirty ~> (~Dirty \/ pc = "off")
==============================================================================
