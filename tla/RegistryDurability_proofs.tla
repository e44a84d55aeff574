----------------------- MODULE RegistryDurability_proofs -----------------------
(***************************************************************************)
(* For every set of devices, configs and pins and any number of power      *)
(* losses, failing writes and damaged records: what RAM holds and flash    *)
(* does not is marked or is on its way, no live device is forgotten by     *)
(* flash, no pin is left to a device that is gone, and an import replaces  *)
(* RAM only by what flash holds.                                           *)
(***************************************************************************)
EXTENDS DeviceRegistry_proofs

(* The id that is being created, and the ids a call has yet to write.        *)
Fresh == IF op = "create" THEN subject ELSE {}
Unwritten == IF pc = "records" THEN todo ELSE {}
Writing == pc \notin {"off", "idle"}

(* Flash holds, and can read, what reg says of d.                            *)
Held(reg, d) == d \in DOMAIN nvsRecord \ damaged /\ nvsRecord[d] = reg[d]

(* Who writes, and what is skipped.                                          *)
CallsKnown ==
  /\ Writing => op # "none"
  /\ ~Restoring => op # "restore"
  /\ op = "clean" /\ pc = "records" => todo = {}

(* What a call has written of its snapshot.  A flush leaves out what is not  *)
(* marked, which a failed import may have overwritten.                       *)
SnapshotHeld ==
  Writing /\ (Restoring => op # "flush") =>
    \A d \in DOMAIN snapshot \ Unwritten : Held(snapshot, d)

VersionWritten == pc \in {"retained", "layouts", "cleanup"} /\ WritesIndex => nvsVersion

(* RecordsMarked and NoLiveDeviceForgotten, for any pc.                      *)
LiveHeld == ~Restoring => \A d \in Live \ Fresh : d \in dirtyConfig \/ Held(runtimes, d)

LiveIndexed ==
  ~Restoring => /\ Live \ Fresh \subseteq nvsIndex \ damaged
                /\ Live \ Fresh # {} => nvsVersion

RecordInv == CallsKnown /\ SnapshotHeld /\ VersionWritten /\ LiveHeld /\ LiveIndexed

------------------------------------------------------------------------------
(* A step that leaves records, snapshots and devices as they are.            *)
LEMMA RecordsAlone ==
  ASSUME IInv, RecordInv,
         UNCHANGED <<runtimes, nvsVersion, nvsIndex, nvsRecord, damaged, op, subject, snapshot>>,
         dirtyConfig \subseteq dirtyConfig',
         op = "flush" => UNCHANGED dirtyIndex,
         \/ UNCHANGED <<pc, todo>>
         \/ Writing /\ pc' \in {"retained", "layouts", "cleanup"}
            /\ (pc = "records" => todo = {} /\ ~WritesIndex) /\ (pc = "version" => ~WritesIndex)
  PROVE  RecordInv'
  <1> USE DEF RecordInv
  <1>1. CallsKnown'
    BY DEF CallsKnown, Writing
  <1>2. SnapshotHeld'
    BY DEF SnapshotHeld, Writing, Unwritten, Held
  <1>3. VersionWritten'
    BY DEF VersionWritten, WritesIndex, Writing, IInv, TypeOK, Phases
  <1>4. LiveHeld' /\ LiveIndexed'
    BY DEF LiveHeld, LiveIndexed, Fresh, Held, Live
  <1> QED
    BY <1>1, <1>2, <1>3, <1>4

(* A call returns, and what RAM still holds was held before or is now.       *)
LEMMA RecordsSettle ==
  ASSUME IInv, RecordInv, Return,
         UNCHANGED <<nvsVersion, nvsIndex, nvsRecord, damaged>>,
         Live' \subseteq Live,
         \A d \in Live' : runtimes'[d] = runtimes[d],
         ~Restoring => \A d \in Live' : \/ d \notin Fresh /\ dirtyConfig \subseteq dirtyConfig'
                                        \/ Held(runtimes, d) /\ d \in nvsIndex /\ nvsVersion
  PROVE  RecordInv'
  <1> USE DEF RecordInv, Return
  <1>1. CallsKnown' /\ SnapshotHeld' /\ VersionWritten'
    BY DEF CallsKnown, SnapshotHeld, VersionWritten, Writing
  <1>2. LiveHeld'
    BY DEF LiveHeld, Fresh, Held, Live
  <1>3. LiveIndexed'
    BY DEF LiveIndexed, Fresh, Held, Live
  <1> QED
    BY <1>1, <1>2, <1>3

LEMMA InitRecords == Init => RecordInv
  BY EmptyRegistryType
     DEF Init, RecordInv, CallsKnown, SnapshotHeld, VersionWritten, LiveHeld, LiveIndexed, Writing, Live

LEMMA BeginEmptyRecords ==
  ASSUME IInv, RecordInv, BeginEmpty
  PROVE  RecordInv'
  <1>1. /\ pc = "off" /\ op = "none" /\ Live = {} /\ pc' = "idle"
        /\ UNCHANGED <<runtimes, op>>
    BY DEF IInv, RestInv, BeginEmpty, ram
  <1> QED
    BY <1>1 DEF RecordInv, CallsKnown, SnapshotHeld, VersionWritten, LiveHeld, LiveIndexed,
                Writing, Live

(* What a boot keeps, flash holds: it has just been read. *)
LEMMA BeginLoadRecords ==
  ASSUME IInv, RecordInv, BeginLoad
  PROVE  RecordInv'
  <1> DEFINE kept == Survivors(Readable)
             discarded == nvsIndex \ DOMAIN kept
  <1>1. /\ pc = "off" /\ op = "none" /\ nvsVersion
        /\ runtimes' = kept
        /\ UNCHANGED <<flash, dirtyConfig>>
        /\ \/ pc' = "idle" /\ UNCHANGED <<op, subject, snapshot, todo>>
           \/ Enter("clean", discarded, Readable, {})
           \/ Enter("recover", discarded, kept, DOMAIN kept)
    BY DEF BeginLoad, IInv, RestInv
  <1>2. /\ DOMAIN kept \subseteq DOMAIN Readable
        /\ DOMAIN Readable = (nvsIndex \cap DOMAIN nvsRecord) \ damaged
        /\ \A d \in DOMAIN Readable : Readable[d] = nvsRecord[d]
        /\ \A d \in DOMAIN kept : kept[d] = nvsRecord[d]
    <2>1. Readable \in Registry /\ DOMAIN Readable = (nvsIndex \cap DOMAIN nvsRecord) \ damaged
      BY ReadableType DEF IInv
    <2>2. \A d \in DOMAIN Readable : Readable[d] = nvsRecord[d]
      BY <2>1 DEF Readable, Restrict
    <2>3. DOMAIN kept \subseteq DOMAIN Readable /\ DOMAIN kept = DOMAIN Readable \ OnCycle(Readable)
      BY <2>1, DropType, SurvivorsType DEF Survivors
    <2>4. \A d \in DOMAIN kept : kept[d] = Readable[d]
      BY <2>1, <2>3, DropAt DEF Survivors
    <2> HIDE DEF kept
    <2> QED
      BY <2>1, <2>2, <2>3, <2>4
  <1> HIDE DEF kept, discarded
  <1>3. CallsKnown'
    BY <1>1 DEF Enter, RecordInv, CallsKnown, Writing
  <1>4. SnapshotHeld'
    BY <1>1, <1>2 DEF Enter, SnapshotHeld, Unwritten, Held, Writing, flash
  <1>5. VersionWritten'
    BY <1>1 DEF Enter, VersionWritten
  <1>6. LiveHeld' /\ LiveIndexed'
    BY <1>1, <1>2 DEF LiveHeld, LiveIndexed, Held, Live, flash
  <1> QED
    BY <1>3, <1>4, <1>5, <1>6 DEF RecordInv

------------------------------------------------------------------------------
(* Requests *)

LEMMA CreateRecords ==
  ASSUME IInv, RecordInv, NEW d \in Device, NEW rec \in Record, Create(d, rec)
  PROVE  RecordInv'
  <1>1. /\ pc' = "records" /\ op' = "create" /\ subject' = {d} /\ pc = "idle" /\ op = "none"
        /\ snapshot' = runtimes' /\ todo' = DOMAIN runtimes' /\ d \notin Live
        /\ runtimes' = Put(runtimes, d, rec)
        /\ UNCHANGED <<flash, dirtyConfig>>
    BY DEF Create, SaveAll, Enter, IInv, RestInv
  <1>2. DOMAIN runtimes' = Live \cup {d} /\ \A x \in Live : runtimes'[x] = runtimes[x]
    <2>1. runtimes \in Registry
      BY DEF IInv, TypeOK
    <2>2. DOMAIN runtimes' = Live \cup {d}
      BY <1>1, <2>1, PutType DEF Live
    <2> QED
      BY <1>1, <2>1, <2>2, PutAt DEF Live
  <1>3. CallsKnown' /\ SnapshotHeld' /\ VersionWritten'
    BY <1>1 DEF CallsKnown, SnapshotHeld, VersionWritten, Unwritten
  <1>4. LiveHeld' /\ LiveIndexed'
    BY <1>1, <1>2 DEF RecordInv, LiveHeld, LiveIndexed, Fresh, Held, Live, flash
  <1> QED
    BY <1>3, <1>4 DEF RecordInv

(* Both ways to relink a device, and an edit that leaves its links.          *)
LEMMA RelinkRecords ==
  ASSUME IInv, RecordInv, NEW d \in Live, NEW rec \in Record,
         pc = "idle",
         runtimes' = Put(runtimes, d, rec),
         dirtyConfig' = dirtyConfig \cup {d},
         UNCHANGED flash,
         UNCHANGED ctl \/ SaveAll("update", {d}, runtimes')
  PROVE  RecordInv'
  <1>1. \/ UNCHANGED <<pc, op, subject, snapshot, todo>>
        \/ /\ pc' = "records" /\ op' = "update" /\ subject' = {d}
           /\ snapshot' = runtimes' /\ todo' = DOMAIN runtimes'
    BY DEF SaveAll, Enter, ctl
  <1>2. DOMAIN runtimes' = Live /\ \A x \in Live \ {d} : runtimes'[x] = runtimes[x]
    <2>1. runtimes \in Registry /\ d \in Device
      BY RegistryForm DEF IInv, TypeOK, Live
    <2>2. DOMAIN runtimes' = DOMAIN runtimes \cup {d}
      BY <2>1, PutType
    <2> QED
      BY <2>1, <2>2, PutAt DEF Live
  <1>3. op = "none"
    BY DEF IInv, RestInv
  <1>4. CallsKnown' /\ SnapshotHeld' /\ VersionWritten'
    BY <1>1, <1>3 DEF RecordInv, CallsKnown, SnapshotHeld, VersionWritten, Unwritten, Writing
  <1>5. LiveHeld' /\ LiveIndexed'
    BY <1>1, <1>2, <1>3 DEF RecordInv, LiveHeld, LiveIndexed, Fresh, Held, Live, flash
  <1> QED
    BY <1>4, <1>5 DEF RecordInv

LEMMA UpdateRecords ==
  ASSUME IInv, RecordInv, NEW d \in Device, NEW rec \in Record, NEW layout \in Layout,
         UpdateConfigAndDeps(d, rec, layout)
  PROVE  RecordInv'
  <1>1. /\ d \in Live /\ pc = "idle"
        /\ runtimes' = Put(runtimes, d, rec)
        /\ dirtyConfig' = dirtyConfig \cup {d}
        /\ UNCHANGED flash
        /\ UNCHANGED ctl \/ SaveAll("update", {d}, runtimes')
    BY DEF UpdateConfigAndDeps
  <1> QED
    BY <1>1, RelinkRecords

LEMMA SetDepsRecords ==
  ASSUME IInv, RecordInv, NEW d \in Device, NEW deps \in SUBSET Device, SetDeps(d, deps)
  PROVE  RecordInv'
  <1> DEFINE rec == [runtimes[d] EXCEPT !.deps = deps]
  <1>1. d \in Live
    BY DEF SetDeps
  <1>2. rec \in Record
    BY <1>1, RegistryForm DEF IInv, TypeOK, Live, Record
  <1>3. /\ pc = "idle" /\ UNCHANGED flash
        /\ runtimes' = Put(runtimes, d, rec)
        /\ dirtyConfig' = dirtyConfig \cup {d}
        /\ SaveAll("update", {d}, runtimes')
    BY DEF SetDeps
  <1> HIDE DEF rec
  <1> QED
    BY <1>1, <1>2, <1>3, RelinkRecords

LEMMA RemoveRecordsLeaves ==
  ASSUME IInv, RecordInv, NEW d \in Device, Remove(d),
         dirtyConfig \subseteq dirtyConfig',
         UNCHANGED ctl \/ SaveAll("remove", {d}, runtimes')
  PROVE  RecordInv'
  <1>1. \/ UNCHANGED <<pc, op, subject, snapshot, todo>>
        \/ /\ pc' = "records" /\ op' = "remove" /\ subject' = {d}
           /\ snapshot' = runtimes' /\ todo' = DOMAIN runtimes'
    BY DEF SaveAll, Enter, ctl
  <1>2. DOMAIN runtimes' = Live \ {d} /\ \A x \in Live \ {d} : runtimes'[x] = runtimes[x]
    BY DropType, DropAt DEF Remove, IInv, TypeOK, Live
  <1>3. op = "none" /\ pc = "idle" /\ UNCHANGED <<nvsVersion, nvsIndex, nvsRecord, damaged>>
    BY DEF IInv, RestInv, Remove
  <1>4. CallsKnown' /\ SnapshotHeld' /\ VersionWritten'
    BY <1>1, <1>3 DEF RecordInv, CallsKnown, SnapshotHeld, VersionWritten, Unwritten, Writing
  <1>5. LiveHeld' /\ LiveIndexed'
    BY <1>1, <1>2, <1>3 DEF RecordInv, LiveHeld, LiveIndexed, Fresh, Held, Live
  <1> QED
    BY <1>4, <1>5 DEF RecordInv

LEMMA RestoreRecords ==
  ASSUME IInv, RecordInv, Restoring, NEW reg \in Registry, NEW bundle \in [Display -> Layout],
         Restore(reg, bundle)
  PROVE  RecordInv'
  BY DEF Restore, SaveAll, Enter, RecordInv, CallsKnown, SnapshotHeld, VersionWritten, Unwritten,
         LiveHeld, LiveIndexed

LEMMA FlushRecords ==
  ASSUME IInv, RecordInv, Flush
  PROVE  RecordInv'
  <1>1. /\ pc = "idle" /\ op = "none"
        /\ pc' = "records" /\ op' = "flush" /\ snapshot' = runtimes
        /\ dirtyConfig \cap Live \subseteq todo'
        /\ UNCHANGED <<flash, runtimes, dirtyConfig>>
    BY DEF Flush, Enter, IInv, RestInv, ram
  <1>2. CallsKnown' /\ VersionWritten'
    BY <1>1 DEF CallsKnown, VersionWritten, RecordInv
  <1>3. SnapshotHeld'
    BY <1>1 DEF RecordInv, LiveHeld, SnapshotHeld, Unwritten, Fresh, Held, Live, flash
  <1>4. LiveHeld' /\ LiveIndexed'
    BY <1>1 DEF RecordInv, LiveHeld, LiveIndexed, Fresh, Held, Live, flash
  <1> QED
    BY <1>2, <1>3, <1>4 DEF RecordInv

------------------------------------------------------------------------------
(* The steps of a call that writes flash. *)

LEMMA WriteRecordRecords ==
  ASSUME IInv, RecordInv, WriteRecord
  PROVE  RecordInv'
  <1>1. PICK d \in todo :
          /\ nvsRecord' = Put(nvsRecord, d, snapshot[d])
          /\ damaged' = damaged \ {d}
          /\ todo' = todo \ {d}
          /\ UNCHANGED <<nvsVersion, nvsIndex, pc, op, subject, snapshot, runtimes, dirtyIndex, dirtyConfig>>
    BY DEF WriteRecord, PutRecord, ram
  <1>2. pc = "records" /\ d \in DOMAIN snapshot /\ d \in Device
    BY DEF WriteRecord, IInv, TypeOK, ProgressInv
  <1>3. /\ DOMAIN nvsRecord' = DOMAIN nvsRecord \cup {d}
        /\ nvsRecord'[d] = snapshot[d]
        /\ \A x \in DOMAIN nvsRecord \ {d} : nvsRecord'[x] = nvsRecord[x]
    <2>1. nvsRecord \in Registry /\ snapshot[d] \in Record
      BY <1>2, RegistryForm DEF IInv, TypeOK, StoreTypeOK
    <2> QED
      BY <1>1, <1>2, <2>1, PutType, PutAt
  <1>4. CallsKnown' /\ VersionWritten'
    BY <1>1, <1>2 DEF CallsKnown, VersionWritten, RecordInv, Writing
  <1>5. SnapshotHeld'
    BY <1>1, <1>2, <1>3 DEF RecordInv, SnapshotHeld, Unwritten, Held, Writing
  <1>6. ~Restoring => snapshot = runtimes
    BY <1>1, <1>2 DEF IInv, TypeOK, Operations, CallInv, RecordInv, CallsKnown, Writing
  <1>7. LiveHeld'
    BY <1>1, <1>3, <1>6 DEF RecordInv, LiveHeld, Fresh, Held, Live
  <1>8. LiveIndexed'
    BY <1>1 DEF RecordInv, LiveIndexed, Fresh, Live
  <1> QED
    BY <1>4, <1>5, <1>7, <1>8 DEF RecordInv

LEMMA WriteIndexRecords ==
  ASSUME IInv, RecordInv, WriteIndex
  PROVE  RecordInv'
  <1>1. /\ pc = "records" /\ pc' = "version" /\ todo = {}
        /\ nvsIndex' = DOMAIN snapshot
        /\ UNCHANGED <<nvsVersion, nvsRecord, damaged, op, subject, snapshot, todo, runtimes, dirtyConfig, dirtyIndex>>
    BY DEF WriteIndex, PutIndex, ram
  <1>2. CallsKnown' /\ SnapshotHeld' /\ VersionWritten'
    BY <1>1 DEF RecordInv, CallsKnown, SnapshotHeld, VersionWritten, Unwritten, Held, Writing
  <1>3. ~Restoring => Live \subseteq DOMAIN snapshot
    BY <1>1 DEF IInv, TypeOK, Operations, CallInv, RecordInv, CallsKnown, Writing, Live
  <1>4. LiveHeld' /\ LiveIndexed'
    BY <1>1, <1>3 DEF RecordInv, LiveHeld, LiveIndexed, Fresh, Held, Live
  <1> QED
    BY <1>2, <1>4 DEF RecordInv

LEMMA WriteVersionRecords ==
  ASSUME IInv, RecordInv, WriteVersion
  PROVE  RecordInv'
  <1>1. /\ pc = "version" /\ pc' \in {"retained", "cleanup"} /\ nvsVersion' = TRUE
        /\ UNCHANGED <<nvsIndex, nvsRecord, damaged, op, subject, snapshot, runtimes, dirtyConfig>>
    BY DEF WriteVersion, PutVersion, ScopedSaves, ram
  <1>2. CallsKnown' /\ SnapshotHeld' /\ VersionWritten'
    BY <1>1 DEF RecordInv, CallsKnown, SnapshotHeld, VersionWritten, Unwritten, Held, Writing
  <1>3. LiveHeld' /\ LiveIndexed'
    BY <1>1 DEF RecordInv, LiveHeld, LiveIndexed, Fresh, Held, Live
  <1> QED
    BY <1>2, <1>3 DEF RecordInv

(* The scoped stores are not records. *)
LEMMA ScopedRecords ==
  ASSUME IInv, RecordInv, SkipIndex \/ SaveRetainedState \/ SavePersistedState
  PROVE  RecordInv'
  <1>1. /\ UNCHANGED <<nvsVersion, nvsIndex, nvsRecord, damaged, op, subject, snapshot, runtimes,
                       dirtyIndex, dirtyConfig>>
        /\ pc' \in {"retained", "layouts", "cleanup"}
        /\ pc \in {"records", "retained", "layouts"}
        /\ pc = "records" => todo = {} /\ ~WritesIndex
    BY DEF SkipIndex, ScopedSaves, SaveRetainedState, SavePersistedState, PutRetained, PutLayout,
           flash, ram
  <1> QED
    BY <1>1, RecordsAlone DEF Writing

(* A committed save of everything has everything in flash. *)
LEMMA CommittedHeld ==
  ASSUME IInv, RecordInv, NEW o, Committed(o), o # "flush"
  PROVE  /\ nvsVersion /\ nvsIndex = DOMAIN snapshot
         /\ \A d \in DOMAIN snapshot : Held(snapshot, d)
  BY CommittedIndex
     DEF Committed, RecordInv, VersionWritten, WritesIndex, SnapshotHeld, Unwritten, Writing

LEMMA FinishImmediateRecords ==
  ASSUME IInv, RecordInv, FinishImmediate
  PROVE  RecordInv'
  <1>1. PICK o \in {"create", "update"} : Committed(o)
    BY DEF FinishImmediate
  <1>2. /\ Return /\ snapshot = runtimes
        /\ UNCHANGED <<nvsVersion, nvsIndex, nvsRecord, damaged, runtimes>>
    BY <1>1 DEF FinishImmediate, Committed, flash, IInv, CallInv
  <1> QED
    BY <1>1, <1>2, CommittedHeld, RecordsSettle DEF Live

(* Records are deleted only of devices that are neither live nor written. *)
LEMMA DeletedRecords ==
  ASSUME IInv, NEW ids, RemoveRecords(ids)
  PROVE  /\ DOMAIN nvsRecord' = DOMAIN nvsRecord \ ids /\ damaged' = damaged \ ids
         /\ \A d \in DOMAIN nvsRecord' : nvsRecord'[d] = nvsRecord[d]
  <1>1. nvsRecord \in Registry /\ nvsRecord' = Drop(nvsRecord, ids)
    BY DEF IInv, TypeOK, StoreTypeOK, RemoveRecords
  <1>2. DOMAIN nvsRecord' = DOMAIN nvsRecord \ ids
    BY <1>1, DropType
  <1> QED
    BY <1>1, <1>2, DropAt DEF RemoveRecords

(* What live devices have in flash stays there. *)
LEMMA LiveUndeleted ==
  ASSUME IInv, NEW ids, ids \cap Live = {}, RemoveRecords(ids) \/ UNCHANGED <<nvsRecord, damaged>>,
         UNCHANGED runtimes
  PROVE  /\ damaged' \subseteq damaged
         /\ \A d \in Live : Held(runtimes, d) => Held(runtimes, d)'
  <1>1. CASE RemoveRecords(ids)
    <2>1. /\ DOMAIN nvsRecord' = DOMAIN nvsRecord \ ids /\ damaged' = damaged \ ids
          /\ \A d \in DOMAIN nvsRecord' : nvsRecord'[d] = nvsRecord[d]
      BY <1>1, DeletedRecords
    <2> QED
      BY <2>1 DEF Held, Live
  <1>2. CASE UNCHANGED <<nvsRecord, damaged>>
    BY <1>2 DEF Held
  <1> QED
    BY <1>1, <1>2

LEMMA ReturnRecords ==
  ASSUME IInv, RecordInv, Return, NEW ids, RemoveRecords(ids), ids \cap Live = {},
         UNCHANGED <<nvsVersion, nvsIndex, runtimes>>,
         op # "create",
         dirtyConfig' = dirtyConfig \/ (Restoring \/ \A d \in Live : Held(runtimes, d))
  PROVE  RecordInv'
  <1>1. CallsKnown' /\ SnapshotHeld' /\ VersionWritten'
    BY DEF Return, CallsKnown, SnapshotHeld, VersionWritten, Writing
  <1>2. LiveHeld'
    BY LiveUndeleted DEF RecordInv, LiveHeld, Fresh, Live
  <1>3. LiveIndexed'
    BY LiveUndeleted DEF RecordInv, LiveIndexed, Fresh, Live
  <1> QED
    BY <1>1, <1>2, <1>3 DEF RecordInv

LEMMA FinishRemoveRecords ==
  ASSUME IInv, RecordInv, FinishRemove
  PROVE  RecordInv'
  <1>1. /\ Committed("remove") /\ op = "remove" /\ Return /\ RemoveRecords(subject)
        /\ UNCHANGED <<nvsVersion, nvsIndex, runtimes>>
    BY DEF FinishRemove, Committed
  <1>2. snapshot = runtimes /\ subject \cap Live = {}
    BY <1>1 DEF IInv, CallInv
  <1>3. \A d \in Live : Held(runtimes, d)
    BY <1>1, <1>2, CommittedHeld DEF Live
  <1> QED
    BY <1>1, <1>2, <1>3, ReturnRecords

LEMMA FinishFlushRecords ==
  ASSUME IInv, RecordInv, FinishFlush
  PROVE  RecordInv'
  <1>1. /\ op = "flush" /\ pc = "cleanup" /\ Return /\ RemoveRecords(subject)
        /\ UNCHANGED <<nvsVersion, nvsIndex, runtimes>>
    BY DEF FinishFlush, Committed
  <1>2. snapshot = runtimes /\ subject \cap Live = {}
    BY <1>1 DEF IInv, CallInv
  <1>3. Restoring \/ \A d \in Live : Held(runtimes, d)
    BY <1>1, <1>2 DEF RecordInv, SnapshotHeld, Unwritten, Writing, Live
  <1> QED
    BY <1>1, <1>2, <1>3, ReturnRecords

LEMMA FinishRecoverRecords ==
  ASSUME IInv, RecordInv, FinishRecover
  PROVE  RecordInv'
  <1>1. /\ op = "recover" /\ Return /\ RemoveRecords(subject)
        /\ UNCHANGED <<nvsVersion, nvsIndex, runtimes, dirtyConfig>>
    BY DEF FinishRecover, Committed, ram
  <1>2. subject \cap Live = {}
    BY <1>1 DEF IInv, CallInv
  <1> QED
    BY <1>1, <1>2, ReturnRecords

LEMMA FinishRestoreRecords ==
  ASSUME IInv, RecordInv, FinishRestore
  PROVE  RecordInv'
  <1>1. Return /\ op = "restore" /\ pc = "cleanup"
    BY DEF FinishRestore, Committed
  <1>2. Restoring
    BY <1>1 DEF RecordInv, CallsKnown
  <1> QED
    BY <1>1, <1>2 DEF Return, RecordInv, CallsKnown, SnapshotHeld, VersionWritten, LiveHeld,
                      LiveIndexed, Writing

(* load() has cleaned up, or failed to; begin() saves what it recovered.     *)
LEMMA RecoverRecords ==
  ASSUME IInv, RecordInv, op = "clean", NEW ids, ids \cap Live = {},
         RemoveRecords(ids) \/ UNCHANGED <<nvsRecord, damaged>>,
         pc' = "records", op' = "recover", snapshot' = runtimes, todo' = Live,
         UNCHANGED <<nvsVersion, nvsIndex, runtimes, dirtyConfig, subject>>
  PROVE  RecordInv'
  <1>1. CallsKnown' /\ SnapshotHeld' /\ VersionWritten'
    BY DEF CallsKnown, SnapshotHeld, VersionWritten, Unwritten, Live
  <1>2. LiveHeld'
    BY LiveUndeleted DEF RecordInv, LiveHeld, Fresh, Live
  <1>3. LiveIndexed'
    BY LiveUndeleted DEF RecordInv, LiveIndexed, Fresh, Live
  <1> QED
    BY <1>1, <1>2, <1>3 DEF RecordInv

LEMMA FinishCleanRecords ==
  ASSUME IInv, RecordInv, FinishClean
  PROVE  RecordInv'
  <1>1. /\ op = "clean" /\ RemoveRecords(subject \ DOMAIN snapshot)
        /\ pc' = "records" /\ op' = "recover" /\ snapshot' = runtimes /\ todo' = Live
        /\ UNCHANGED <<nvsVersion, nvsIndex, runtimes, dirtyConfig, subject>>
    BY DEF FinishClean, Committed, Recover, Enter, ram
  <1>2. (subject \ DOMAIN snapshot) \cap Live = {}
    BY <1>1 DEF IInv, CallInv
  <1> QED
    BY <1>1, <1>2, RecoverRecords

------------------------------------------------------------------------------
(* The environment. *)

LEMMA WriteFailsRecords ==
  ASSUME IInv, RecordInv, WriteFails
  PROVE  RecordInv'
  <1>1. UNCHANGED <<nvsVersion, nvsIndex, nvsRecord, damaged, dirtyConfig>>
    BY DEF WriteFails, flash
  <1>2. CASE op = "create"
    <2>1. Return /\ runtimes' = Drop(runtimes, subject)
      BY <1>2 DEF WriteFails
    <2>2. Live' = Live \ subject /\ \A d \in Live' : runtimes'[d] = runtimes[d]
      <3>1. runtimes \in Registry
        BY DEF IInv, TypeOK
      <3>2. Live' = Live \ subject
        BY <2>1, <3>1, DropType DEF Live
      <3> QED
        BY <2>1, <3>1, <3>2, DropAt DEF Live
    <2>3. \A d \in Live' : d \notin Fresh /\ dirtyConfig \subseteq dirtyConfig'
      BY <1>1, <1>2, <2>2 DEF Fresh
    <2>4. Live' \subseteq Live
      BY <2>2
    <2> QED
      BY <1>1, <2>1, <2>2, <2>3, <2>4, RecordsSettle
  <1>3. CASE op = "clean"
    <2>1. /\ pc' = "records" /\ op' = "recover" /\ snapshot' = runtimes /\ todo' = Live
          /\ UNCHANGED <<runtimes, subject>>
      BY <1>3 DEF WriteFails
    <2>2. {} \cap Live = {}
      OBVIOUS
    <2> QED
      BY <1>1, <1>3, <2>1, <2>2, RecoverRecords
  <1>4. CASE op \notin {"create", "clean"}
    <2>1. Return /\ UNCHANGED runtimes
      BY <1>4 DEF WriteFails
    <2> QED
      BY <1>1, <1>4, <2>1, RecordsSettle DEF Fresh, Live
  <1> QED
    BY <1>2, <1>3, <1>4

LEMMA PowerLossRecords ==
  ASSUME IInv, RecordInv, PowerLoss
  PROVE  RecordInv'
  BY EmptyRegistryType
     DEF PowerLoss, RamOff, RecordInv, CallsKnown, SnapshotHeld, VersionWritten, LiveHeld,
         LiveIndexed, Writing, Live

LEMMA DamageRecords ==
  ASSUME IInv, RecordInv, NEW d \in Device, Damage(d)
  PROVE  RecordInv'
  <1>1. pc = "off" /\ UNCHANGED <<pc, op, runtimes>> /\ Live = {}
    BY DEF Damage, ram, ctl, IInv, RestInv
  <1> QED
    BY <1>1 DEF RecordInv, CallsKnown, SnapshotHeld, VersionWritten, LiveHeld, LiveIndexed,
                Writing, Live

LEMMA StepRecords == IInv /\ RecordInv /\ [Next]_vars => RecordInv'
  <1> SUFFICES ASSUME IInv, RecordInv, [Next]_vars PROVE RecordInv'
    OBVIOUS
  <1>1. CASE Begin
    BY <1>1, BeginEmptyRecords, BeginLoadRecords DEF Begin
  <1>2. CASE Request
    <2>1. ASSUME NEW d \in Device, NEW rec \in Record, Create(d, rec) PROVE RecordInv'
      BY <2>1, CreateRecords
    <2>2. ASSUME NEW d \in Device, NEW rec \in Record, NEW layout \in Layout,
                 UpdateConfigAndDeps(d, rec, layout)
          PROVE  RecordInv'
      BY <2>2, UpdateRecords
    <2>3. ASSUME NEW d \in Device, NEW deps \in SUBSET Device, SetDeps(d, deps) PROVE RecordInv'
      BY <2>3, SetDepsRecords
    <2>4. ASSUME NEW d \in Device, RemoveImmediate(d) \/ RemoveDelayed(d) PROVE RecordInv'
      BY <2>4, RemoveRecordsLeaves DEF RemoveImmediate, RemoveDelayed
    <2>5. ASSUME NEW d \in Device, CaptureRetained(d) PROVE RecordInv'
      BY <2>5, RecordsAlone DEF CaptureRetained, flash, ctl
    <2>6. ASSUME NEW d \in Device, NEW layout \in Layout, ApplyPersistedStateUpdate(d, layout)
          PROVE  RecordInv'
      BY <2>6, RecordsAlone DEF ApplyPersistedStateUpdate, flash, ctl
    <2>7. ASSUME Restoring, NEW reg \in Registry, NEW bundle \in [Display -> Layout], Restore(reg, bundle)
          PROVE  RecordInv'
      BY <2>7, RestoreRecords
    <2>8. ASSUME NEW reg \in Registry, RestoreRejected(reg) PROVE RecordInv'
      BY <2>8, RecordsAlone DEF RestoreRejected, flash, ctl
    <2> QED
      BY <1>2, <2>1, <2>2, <2>3, <2>4, <2>5, <2>6, <2>7, <2>8 DEF Request
  <1>3. CASE Flush
    BY <1>3, FlushRecords
  <1>4. CASE CallStep
    BY <1>4, WriteRecordRecords, WriteIndexRecords, WriteVersionRecords, ScopedRecords,
       FinishImmediateRecords, FinishRemoveRecords, FinishRestoreRecords, FinishFlushRecords,
       FinishCleanRecords, FinishRecoverRecords
       DEF CallStep, Finish
  <1>5. CASE Environment
    BY <1>5, WriteFailsRecords, PowerLossRecords, DamageRecords DEF Environment
  <1>6. CASE UNCHANGED vars
    BY <1>6, RecordsAlone DEF vars, ram, ctl, flash
  <1> QED
    BY <1>1, <1>2, <1>3, <1>4, <1>5, <1>6 DEF Next

LEMMA RecordsAlways == Spec => []RecordInv
  <1>1. Init => RecordInv
    BY InitRecords
  <1>2. IInv /\ RecordInv /\ [Next]_vars => RecordInv'
    BY StepRecords
  <1> QED
    BY <1>1, <1>2, Inductive, PTL DEF Spec

(* Unless backups are imported: a device whose record differs from the one   *)
(* in flash is marked, so that the next flush writes it, whatever saves have *)
(* failed and wherever the power went.                                       *)
THEOREM ChangesAreMarked == ASSUME ~Restoring PROVE Spec => []RecordsMarked
  <1>1. IInv /\ RecordInv => RecordsMarked
    BY DEF IInv, RestInv, RecordInv, LiveHeld, Fresh, Held, RecordsMarked
  <1> QED
    BY <1>1, Inductive, RecordsAlways, PTL

(* Unless backups are imported: the next boot finds every device that is     *)
(* alive between two calls, whatever writes of this or of earlier calls have *)
(* failed.                                                                   *)
THEOREM LiveDevicesStored == ASSUME ~Restoring PROVE Spec => []NoLiveDeviceForgotten
  <1>1. ASSUME IInv, RecordInv PROVE NoLiveDeviceForgotten
    <2> SUFFICES ASSUME pc = "idle" PROVE Live \subseteq DOMAIN Stored
      BY DEF NoLiveDeviceForgotten
    <2>1. Live \subseteq nvsIndex \ damaged /\ (Live # {} => nvsVersion) /\ Live \subseteq DOMAIN nvsRecord
      BY <1>1 DEF IInv, RestInv, LiveRecorded, RecordInv, LiveIndexed, Fresh
    <2>2. DOMAIN Readable = (nvsIndex \cap DOMAIN nvsRecord) \ damaged
      BY <1>1, ReadableType DEF IInv
    <2> QED
      BY <2>1, <2>2 DEF Stored
  <1> QED
    BY <1>1, Inductive, RecordsAlways, PTL

(* A record that is read back is the one that flash holds. *)
LEMMA CommittedReadable ==
  ASSUME IInv, RecordInv, NEW o, Committed(o), o # "flush"
  PROVE  Stored = snapshot
  <1>1. /\ nvsVersion /\ nvsIndex = DOMAIN snapshot
        /\ \A d \in DOMAIN snapshot : Held(snapshot, d)
    BY CommittedHeld
  <1>2. Stored = [d \in DOMAIN snapshot |-> snapshot[d]]
    <2>1. (nvsIndex \cap DOMAIN nvsRecord) \ damaged = DOMAIN snapshot
      BY <1>1 DEF Held
    <2> QED
      BY <1>1, <2>1 DEF Stored, Readable, Restrict, Held
  <1>3. snapshot = [d \in DOMAIN snapshot |-> snapshot[d]]
    BY RegistryForm DEF IInv, TypeOK
  <1> QED
    BY <1>2, <1>3

(* An import replaces the devices in RAM only once flash holds exactly the   *)
(* new ones, whatever earlier imports left there half way.                   *)
THEOREM ImportsCommitFirst == Spec => SwapAfterCommit
  <1>1. ASSUME IInv, RecordInv, [Next]_vars,
               op = "restore" \/ op' = "restore", runtimes' # runtimes, pc' # "off"
        PROVE  Stored = runtimes'
    <2>1. CASE FinishRestore
      BY <1>1, <2>1, CommittedReadable DEF FinishRestore
    <2>2. CASE Begin
      BY <1>1, <2>2 DEF Begin, BeginEmpty, BeginLoad, Enter, ram, IInv, RestInv
    <2>3. CASE Request
      BY <1>1, <2>3 DEF Request, Create, UpdateConfigAndDeps, SetDeps, RemoveImmediate,
           RemoveDelayed, Remove, CaptureRetained, ApplyPersistedStateUpdate, Restore,
           RestoreRejected, SaveAll, Enter, ctl, IInv, RestInv
    <2>4. CASE Flush
      BY <1>1, <2>4 DEF Flush, ram
    <2>5. CASE CallStep /\ ~FinishRestore
      BY <1>1, <2>5 DEF CallStep, WriteRecord, WriteIndex, WriteVersion, SkipIndex,
           SaveRetainedState, SavePersistedState, Finish, FinishImmediate, FinishRemove,
           FinishFlush, FinishClean, Recover, FinishRecover, ram
    <2>6. CASE Environment
      BY <1>1, <2>6 DEF Environment, WriteFails, Return, PowerLoss, Damage, ram
    <2>7. CASE UNCHANGED vars
      BY <1>1, <2>7 DEF vars, ram
    <2> QED
      BY <1>1, <2>1, <2>2, <2>3, <2>4, <2>5, <2>6, <2>7 DEF Next
  <1> QED
    BY <1>1, Inductive, RecordsAlways, PTL DEF Spec, SwapAfterCommit

(* What begin() recovers it has saved in full when it returns: the index is  *)
(* that of the live devices, and all of their records can be read.           *)
THEOREM RecoveryIsComplete == Spec => RecoveryConverges
  <1>1. ASSUME IInv, RecordInv, [Next]_vars, Committed("recover"), pc' = "idle"
        PROVE  nvsIndex' = Live /\ damaged' \cap nvsIndex' = {}
    <2>1. /\ nvsIndex = DOMAIN snapshot /\ snapshot = runtimes
          /\ \A d \in DOMAIN snapshot : Held(snapshot, d)
      BY <1>1, CommittedHeld DEF Committed, IInv, CallInv
    <2>2. nvsIndex = Live /\ damaged \cap nvsIndex = {}
      BY <2>1 DEF Held, Live
    <2>3. nvsIndex' = nvsIndex /\ damaged' \subseteq damaged
      BY <1>1 DEF Committed, Next, Begin, BeginEmpty, BeginLoad, Request, Create,
           UpdateConfigAndDeps, SetDeps, RemoveImmediate, RemoveDelayed, Remove, CaptureRetained,
           ApplyPersistedStateUpdate, Restore, RestoreRejected, Flush, CallStep, WriteRecord,
           WriteIndex, WriteVersion, SkipIndex, SaveRetainedState, SavePersistedState, Finish,
           FinishImmediate, FinishRemove, FinishRestore, FinishFlush, FinishClean, FinishRecover,
           RemoveRecords, Environment, WriteFails, HasWrite, PowerLoss, Damage, vars, flash, ctl
    <2> QED
      BY <2>2, <2>3
  <1> QED
    BY <1>1, Inductive, RecordsAlways, PTL DEF Spec, RecoveryConverges

------------------------------------------------------------------------------
(* Retained outputs: one that differs from flash is marked, and a flush that *)
(* has come past it has written it.                                          *)

RetainedKept ==
  \A d \in Live \cap Retaining : d \in dirtyRetained \/ nvsRetained[d] = retained[d]

RetainedSaved ==
  op = "flush" /\ pc \in {"retained", "layouts", "cleanup"} =>
    \A d \in (Live \cap Retaining) \ (IF pc = "retained" THEN todo ELSE {}) :
      nvsRetained[d] = retained[d]

RetainedInv == RetainedKept /\ RetainedSaved

(* A step that leaves the retained outputs of live devices alone, and does   *)
(* not go on with a flush.                                                   *)
LEMMA RetainedAlone ==
  ASSUME RetainedInv,
         Live' \subseteq Live,
         \A d \in Live' \cap Retaining : retained'[d] = retained[d] /\ nvsRetained'[d] = nvsRetained[d],
         dirtyRetained' = dirtyRetained,
         \/ UNCHANGED <<pc, op, todo>>
         \/ op' # "flush"
         \/ pc' \notin {"retained", "layouts", "cleanup"}
  PROVE  RetainedInv'
  BY DEF RetainedInv, RetainedKept, RetainedSaved

(* A runtime that is built loads what flash holds. *)
LEMMA LoadedIs ==
  ASSUME IInv, NEW ids
  PROVE  \A d \in ids \cap Retaining : LoadedRetained(ids)[d] = nvsRetained[d]
  BY DEF IInv, TypeOK, StoreTypeOK, LoadedRetained

LEMMA RetainedLoaded ==
  ASSUME \A d \in Live' \cap Retaining : retained'[d] = nvsRetained'[d],
         op' # "flush" \/ pc' \notin {"retained", "layouts", "cleanup"}
  PROVE  RetainedInv'
  BY DEF RetainedInv, RetainedKept, RetainedSaved

LEMMA BeginRetained ==
  ASSUME IInv, RetainedInv, Begin
  PROVE  RetainedInv'
  <1>1. CASE BeginEmpty
    BY <1>1, RetainedAlone DEF BeginEmpty, ResetStorage, ram, IInv, RestInv, Live
  <1>2. CASE BeginLoad
    <2>1. /\ retained' = LoadedRetained(Live') /\ nvsRetained' = nvsRetained
          /\ pc' \in {"idle", "records"}
      BY <1>2 DEF BeginLoad, Enter, flash, Live
    <2> QED
      BY <2>1, LoadedIs, RetainedLoaded
  <1> QED
    BY <1>1, <1>2 DEF Begin

LEMMA RequestRetained ==
  ASSUME IInv, RetainedInv, Request
  PROVE  RetainedInv'
  <1>1. pc = "idle" /\ op = "none"
    BY DEF Request, Create, UpdateConfigAndDeps, SetDeps, RemoveImmediate, RemoveDelayed, Remove,
           CaptureRetained, ApplyPersistedStateUpdate, Restore, RestoreRejected, IInv, RestInv
  <1>2. runtimes \in Registry /\ retained \in [Retaining -> BOOLEAN]
    BY DEF IInv, TypeOK
  <1>3. ASSUME NEW d \in Device, NEW rec \in Record, Create(d, rec) PROVE RetainedInv'
    <2>1. Live' = Live \cup {d}
      BY <1>2, <1>3, PutType DEF Create, Live
    <2>2. /\ retained' = [x \in Retaining |-> IF x = d THEN nvsRetained[x] ELSE retained[x]]
          /\ pc' = "records" /\ UNCHANGED <<nvsRetained, dirtyRetained>>
      BY <1>3 DEF Create, SaveAll, Enter, flash
    <2> QED
      BY <2>1, <2>2 DEF RetainedInv, RetainedKept, RetainedSaved
  <1>4. ASSUME NEW d \in Live, NEW rec \in Record, runtimes' = Put(runtimes, d, rec)
        PROVE  Live' = Live
    <2>1. d \in Device
      BY <1>2, RegistryForm DEF Live
    <2> QED
      <3>1. DOMAIN runtimes' = DOMAIN runtimes \cup {d}
        BY <1>2, <1>4, <2>1, PutType
      <3> QED
        BY <3>1 DEF Live
  <1>5. ASSUME NEW d \in Device, NEW rec \in Record, NEW layout \in Layout,
               UpdateConfigAndDeps(d, rec, layout)
        PROVE  RetainedInv'
    <2>1. Live' = Live
      BY <1>4, <1>5 DEF UpdateConfigAndDeps
    <2>2. /\ UNCHANGED <<retained, nvsRetained, dirtyRetained>>
          /\ pc' = "records" \/ UNCHANGED <<pc, op, todo>>
      BY <1>5 DEF UpdateConfigAndDeps, SaveAll, Enter, flash, ctl
    <2> QED
      BY <2>1, <2>2, RetainedAlone
  <1>6. ASSUME NEW d \in Device, NEW deps \in SUBSET Device, SetDeps(d, deps) PROVE RetainedInv'
    <2> DEFINE rec == [runtimes[d] EXCEPT !.deps = deps]
    <2>1. d \in Live /\ runtimes' = Put(runtimes, d, rec)
      BY <1>6 DEF SetDeps
    <2>2. rec \in Record
      BY <1>2, <2>1, RegistryForm DEF Live, Record
    <2>3. Live' = Live
      <3> HIDE DEF rec
      <3> QED
        BY <1>4, <2>1, <2>2
    <2>4. UNCHANGED <<retained, nvsRetained, dirtyRetained>> /\ pc' = "records"
      BY <1>6 DEF SetDeps, SaveAll, Enter, flash
    <2> QED
      BY <2>3, <2>4, RetainedAlone
  <1>7. ASSUME NEW d \in Device, RemoveImmediate(d) \/ RemoveDelayed(d) PROVE RetainedInv'
    <2>1. Live' = Live \ {d}
      BY <1>2, <1>7, DropType DEF RemoveImmediate, RemoveDelayed, Remove, Live
    <2>2. /\ retained' = [x \in Retaining |-> x # d /\ retained[x]]
          /\ UNCHANGED <<nvsRetained, dirtyRetained>>
          /\ pc' = "records" \/ UNCHANGED <<pc, op, todo>>
      BY <1>7 DEF RemoveImmediate, RemoveDelayed, Remove, SaveAll, Enter, ctl
    <2>3. \A x \in Live' \cap Retaining : retained'[x] = retained[x]
      BY <1>2, <2>1, <2>2
    <2> QED
      BY <2>1, <2>2, <2>3, RetainedAlone
  <1>8. ASSUME NEW d \in Device, CaptureRetained(d) PROVE RetainedInv'
    <2>1. /\ retained' = [retained EXCEPT ![d] = ~@]
          /\ dirtyRetained' = dirtyRetained \cup {d}
          /\ UNCHANGED <<nvsRetained, runtimes, pc>>
      BY <1>8 DEF CaptureRetained, flash, ctl
    <2>2. \A x \in Retaining \ {d} : retained'[x] = retained[x]
      BY <1>2, <2>1
    <2> QED
      BY <1>1, <2>1, <2>2 DEF RetainedInv, RetainedKept, RetainedSaved, Live
  <1>9. ASSUME NEW d \in Device, NEW layout \in Layout, ApplyPersistedStateUpdate(d, layout)
        PROVE  RetainedInv'
    BY <1>9, RetainedAlone DEF ApplyPersistedStateUpdate, flash, ctl, Live
  <1>10. ASSUME NEW reg \in Registry, NEW bundle \in [Display -> Layout], Restore(reg, bundle)
         PROVE  RetainedInv'
    BY <1>10, RetainedAlone DEF Restore, SaveAll, Enter, flash, Live
  <1>11. ASSUME NEW reg \in Registry, RestoreRejected(reg) PROVE RetainedInv'
    BY <1>11, RetainedAlone DEF RestoreRejected, flash, ctl, Live
  <1> QED
    BY <1>3, <1>5, <1>6, <1>7, <1>8, <1>9, <1>10, <1>11 DEF Request

LEMMA CallRetained ==
  ASSUME IInv, RetainedInv, CallStep
  PROVE  RetainedInv'
  <1>1. CASE WriteRecord \/ WriteIndex
    BY <1>1, RetainedAlone DEF WriteRecord, PutRecord, WriteIndex, PutIndex, ram, Live
  <1>2. CASE WriteVersion \/ SkipIndex
    BY <1>2 DEF WriteVersion, PutVersion, SkipIndex, ScopedSaves, ram, flash, Live,
                RetainedInv, RetainedKept, RetainedSaved
  <1>3. CASE SaveRetainedState
    <2>1. CASE todo = {}
      BY <1>3, <2>1 DEF SaveRetainedState, ram, flash, Live, RetainedInv, RetainedKept, RetainedSaved
    <2>2. CASE todo # {}
      <3>1. PICK d \in todo : PutRetained(d, retained[d]) /\ todo' = todo \ {d}
        BY <1>3, <2>2 DEF SaveRetainedState
      <3>2. /\ pc' = pc /\ pc = "retained" /\ op' = op
            /\ UNCHANGED <<runtimes, retained, dirtyRetained>>
        BY <1>3, <2>2 DEF SaveRetainedState, ram
      <3>3. d \in Retaining /\ nvsRetained \in [Retaining -> BOOLEAN]
        BY <3>2 DEF IInv, ProgressInv, TypeOK, StoreTypeOK
      <3>4. nvsRetained'[d] = retained[d] /\ \A x \in Retaining \ {d} : nvsRetained'[x] = nvsRetained[x]
        BY <3>1, <3>3 DEF PutRetained
      <3> QED
        BY <3>1, <3>2, <3>4 DEF RetainedInv, RetainedKept, RetainedSaved, Live
    <2> QED
      BY <2>1, <2>2
  <1>4. CASE SavePersistedState
    BY <1>4 DEF SavePersistedState, PutLayout, ram, flash, Live, RetainedInv, RetainedKept, RetainedSaved
  <1>5. CASE FinishImmediate
    BY <1>5, RetainedAlone DEF FinishImmediate, ForgetConfigDirty, Return, flash, Live
  <1>6. CASE FinishRemove \/ FinishRecover
    <2>1. /\ ClearDeviceData(subject) /\ UNCHANGED <<runtimes, retained, dirtyRetained>> /\ op' = "none"
      BY <1>6 DEF FinishRemove, FinishRecover, ForgetConfigDirty, Return, ram
    <2>2. subject \cap Live = {}
      BY <1>6 DEF FinishRemove, FinishRecover, Committed, IInv, CallInv
    <2>3. \A d \in Live \cap Retaining : nvsRetained'[d] = nvsRetained[d]
      BY <2>1, <2>2 DEF ClearDeviceData
    <2> QED
      BY <2>1, <2>3, RetainedAlone DEF Live
  <1>7. CASE FinishRestore
    <2>1. /\ retained' = LoadedRetained(Live') /\ nvsRetained' = nvsRetained
          /\ op' = "none"
      BY <1>7 DEF FinishRestore, Return, flash, Live
    <2> QED
      BY <2>1, LoadedIs, RetainedLoaded
  <1>8. CASE FinishFlush
    BY <1>8 DEF FinishFlush, Committed, MarkClean, Return, Live, RetainedInv, RetainedKept, RetainedSaved
  <1>9. CASE FinishClean
    BY <1>9, RetainedAlone DEF FinishClean, Recover, Enter, ram, Live
  <1> QED
    BY <1>1, <1>2, <1>3, <1>4, <1>5, <1>6, <1>7, <1>8, <1>9 DEF CallStep, Finish

LEMMA EnvironmentRetained ==
  ASSUME IInv, RetainedInv, Environment
  PROVE  RetainedInv'
  <1>1. CASE WriteFails /\ op = "create"
    <2>1. /\ Live' = Live \ subject
          /\ retained' = [d \in Retaining |-> d \notin subject /\ retained[d]]
          /\ UNCHANGED <<nvsRetained, dirtyRetained>> /\ op' = "none"
      BY <1>1, DropType DEF WriteFails, Return, flash, Live, IInv, TypeOK
    <2>2. \A d \in Live' \cap Retaining : retained'[d] = retained[d]
      BY <2>1 DEF IInv, TypeOK
    <2> QED
      BY <2>1, <2>2, RetainedAlone
  <1>2. CASE WriteFails /\ op # "create"
    BY <1>2, RetainedAlone DEF WriteFails, Return, flash, Live
  <1>3. CASE PowerLoss
    BY <1>3, EmptyRegistryType, RetainedLoaded DEF PowerLoss, RamOff, Live
  <1>4. ASSUME NEW d \in Device, Damage(d) PROVE RetainedInv'
    BY <1>4, RetainedAlone DEF Damage, DamageRecord, ram, ctl, Live
  <1> QED
    BY <1>1, <1>2, <1>3, <1>4 DEF Environment

LEMMA RetainedAlways == Spec => []RetainedInv
  <1>1. Init => RetainedInv
    BY DEF Init, StoreInit, NothingRetained, RetainedInv, RetainedKept, RetainedSaved
  <1>2. IInv /\ RetainedInv /\ [Next]_vars => RetainedInv'
    <2> SUFFICES ASSUME IInv, RetainedInv, [Next]_vars PROVE RetainedInv'
      OBVIOUS
    <2>1. CASE Flush
      BY <2>1, RetainedAlone DEF Flush, Enter, ram, flash, Live
    <2>2. CASE UNCHANGED vars
      BY <2>2, RetainedAlone DEF vars, ram, ctl, flash, Live
    <2> QED
      BY <2>1, <2>2, BeginRetained, RequestRetained, CallRetained, EnvironmentRetained DEF Next
  <1> QED
    BY <1>1, <1>2, Inductive, PTL DEF Spec

------------------------------------------------------------------------------
(* Pins: whoever owns one is alive and configured to it.  A failed create    *)
(* and a failed or rejected import leave theirs behind.                      *)

Owns(reg, d, p) == d \in DOMAIN reg /\ PinOf[reg[d].config] = p

OwnersLive ==
  faults = 0 /\ ~Restoring => \A p \in Pin : pinOwner[p] # 0 => Owns(runtimes, pinOwner[p], p)

PinInv == OwnersLive /\ (pc = "off" => pinOwner = FreePins)

LEMMA ClaimedBy ==
  ASSUME NEW owner, NEW reg, NEW next \in Claims(owner, reg), NEW p \in Pin
  PROVE  next[p] = owner[p] \/ Owns(reg, next[p], p)
  BY DEF Claims, Owns

LEMMA RestrictedTo ==
  ASSUME NEW reg \in Registry, NEW d \in DOMAIN reg
  PROVE  DOMAIN Restrict(reg, {d}) = {d} /\ Restrict(reg, {d})[d] = reg[d]
  BY DEF Restrict

(* The new user of a pin owns it; who owned another one still does. *)
LEMMA PinsClaimed ==
  ASSUME IInv, PinInv, pc # "off", pc' # "off", faults' = faults,
         NEW d \in Device, NEW rec \in Record, runtimes' = Put(runtimes, d, rec),
         NEW owner, pinOwner' \in Claims(owner, Restrict(runtimes', {d})),
         \A p \in Pin : owner[p] = pinOwner[p] \/ owner[p] = 0,
         \A p \in Pin : owner[p] = d => PinOf[rec.config] = p
  PROVE  PinInv'
  <1>1. /\ runtimes \in Registry /\ runtimes' \in Registry
        /\ DOMAIN runtimes' = DOMAIN runtimes \cup {d} /\ runtimes'[d] = rec
        /\ \A x \in DOMAIN runtimes \ {d} : runtimes'[x] = runtimes[x]
    <2>1. runtimes \in Registry
      BY DEF IInv, TypeOK
    <2> QED
      <3>1. \A x \in DOMAIN runtimes \ {d} : Put(runtimes, d, rec)[x] = runtimes[x]
        BY <2>1, PutAt
      <3>2. /\ Put(runtimes, d, rec) \in Registry
            /\ DOMAIN Put(runtimes, d, rec) = DOMAIN runtimes \cup {d}
            /\ Put(runtimes, d, rec)[d] = rec
        BY <2>1, PutType
      <3> QED
        BY <2>1, <3>1, <3>2
  <1>2. DOMAIN Restrict(runtimes', {d}) = {d} /\ Restrict(runtimes', {d})[d] = rec
    BY <1>1, RestrictedTo
  <1>3. ASSUME faults = 0, ~Restoring, NEW p \in Pin, pinOwner'[p] # 0
        PROVE  Owns(runtimes', pinOwner'[p], p)
    <2>1. CASE pinOwner'[p] = owner[p]
      <3>1. owner[p] = pinOwner[p] /\ Owns(runtimes, pinOwner[p], p)
        BY <1>3, <2>1 DEF PinInv, OwnersLive
      <3> QED
        BY <1>1, <2>1, <3>1 DEF Owns
    <2>2. CASE Owns(Restrict(runtimes', {d}), pinOwner'[p], p)
      BY <1>1, <1>2, <2>2 DEF Owns
    <2> QED
      BY <2>1, <2>2, ClaimedBy
  <1> QED
    BY <1>3 DEF PinInv, OwnersLive

LEMMA CreatePins ==
  ASSUME IInv, PinInv, NEW d \in Device, NEW rec \in Record, Create(d, rec)
  PROVE  PinInv'
  <1>1. /\ pc = "idle" /\ pc' = "records" /\ faults' = faults
        /\ runtimes' = Put(runtimes, d, rec) /\ d \notin DOMAIN runtimes
        /\ pinOwner' \in Claims(pinOwner, Restrict(runtimes', {d}))
    BY DEF Create, SaveAll, Enter, env, Live
  <1>2. CASE faults = 0 /\ ~Restoring
    <2>1. \A p \in Pin : pinOwner[p] = d => PinOf[rec.config] = p
      BY <1>1, <1>2, DeviceAssumption DEF PinInv, OwnersLive, Owns
    <2> QED
      BY <1>1, <2>1, PinsClaimed
  <1>3. CASE ~(faults = 0 /\ ~Restoring)
    BY <1>1, <1>3 DEF PinInv, OwnersLive
  <1> QED
    BY <1>2, <1>3

LEMMA UpdatePins ==
  ASSUME IInv, PinInv, NEW d \in Device, NEW rec \in Record, NEW layout \in Layout,
         UpdateConfigAndDeps(d, rec, layout)
  PROVE  PinInv'
  <1> DEFINE owner == Release(pinOwner, runtimes[d])
  <1>1. /\ pc = "idle" /\ pc' # "off" /\ faults' = faults
        /\ runtimes' = Put(runtimes, d, rec) /\ d \in DOMAIN runtimes
        /\ pinOwner' \in Claims(owner, Restrict(runtimes', {d}))
    BY DEF UpdateConfigAndDeps, SaveAll, Enter, env, ctl, Live
  <1>2. \A p \in Pin : owner[p] = IF PinOf[runtimes[d].config] = p THEN 0 ELSE pinOwner[p]
    BY DEF Release
  <1>3. CASE faults = 0 /\ ~Restoring
    <2>1. \A p \in Pin : owner[p] # d
      BY <1>2, <1>3, DeviceAssumption DEF PinInv, OwnersLive, Owns
    <2>2. \A p \in Pin : owner[p] = pinOwner[p] \/ owner[p] = 0
      BY <1>2
    <2> HIDE DEF owner
    <2> QED
      BY <1>1, <2>1, <2>2, PinsClaimed
  <1>4. CASE ~(faults = 0 /\ ~Restoring)
    BY <1>1, <1>4 DEF PinInv, OwnersLive
  <1> QED
    BY <1>3, <1>4

(* New links leave the config, and so the pin, as it was. *)
LEMMA SetDepsPins ==
  ASSUME IInv, PinInv, NEW d \in Device, NEW deps \in SUBSET Device, SetDeps(d, deps)
  PROVE  PinInv'
  <1> DEFINE rec == [runtimes[d] EXCEPT !.deps = deps]
  <1>1. /\ pc = "idle" /\ pc' = "records" /\ faults' = faults
        /\ runtimes' = Put(runtimes, d, rec) /\ d \in DOMAIN runtimes /\ pinOwner' = pinOwner
    BY DEF SetDeps, SaveAll, Enter, env, Live
  <1>2. runtimes \in Registry /\ runtimes[d] \in Record
    BY <1>1, RegistryForm DEF IInv, TypeOK
  <1>3. rec \in Record /\ rec.config = runtimes[d].config
    BY <1>2 DEF Record
  <1> HIDE DEF rec
  <1>4. /\ DOMAIN runtimes' = DOMAIN runtimes \cup {d} /\ runtimes'[d] = rec
        /\ \A x \in DOMAIN runtimes \ {d} : runtimes'[x] = runtimes[x]
    <2>1. \A x \in DOMAIN runtimes \ {d} : Put(runtimes, d, rec)[x] = runtimes[x]
      BY <1>2, PutAt
    <2>2. DOMAIN Put(runtimes, d, rec) = DOMAIN runtimes \cup {d} /\ Put(runtimes, d, rec)[d] = rec
      BY <1>2, <1>3, PutType
    <2> QED
      BY <1>1, <2>1, <2>2
  <1> QED
    BY <1>1, <1>3, <1>4 DEF PinInv, OwnersLive, Owns

LEMMA RemovePins ==
  ASSUME IInv, PinInv, NEW d \in Device, Remove(d), pc' # "off", faults' = faults
  PROVE  PinInv'
  <1>1. /\ d \in DOMAIN runtimes
        /\ runtimes' = Drop(runtimes, {d})
        /\ pinOwner' = Release(pinOwner, runtimes[d])
        /\ runtimes \in Registry
    BY DEF Remove, Live, IInv, TypeOK
  <1>2. /\ DOMAIN runtimes' = DOMAIN runtimes \ {d}
        /\ \A x \in DOMAIN runtimes \ {d} : runtimes'[x] = runtimes[x]
    BY <1>1, DropType, DropAt
  <1>3. \A p \in Pin : pinOwner'[p] = IF PinOf[runtimes[d].config] = p THEN 0 ELSE pinOwner[p]
    BY <1>1 DEF Release
  <1>4. ASSUME faults = 0, ~Restoring, NEW p \in Pin, pinOwner'[p] # 0
        PROVE  Owns(runtimes', pinOwner'[p], p)
    <2>1. pinOwner'[p] = pinOwner[p] /\ PinOf[runtimes[d].config] # p
      BY <1>3, <1>4
    <2>2. Owns(runtimes, pinOwner[p], p)
      BY <1>4, <2>1 DEF PinInv, OwnersLive
    <2> QED
      BY <1>2, <2>1, <2>2 DEF Owns
  <1> QED
    BY <1>4 DEF PinInv, OwnersLive

(* A boot begins with free pins. *)
LEMMA BeginPins ==
  ASSUME IInv, PinInv, Begin
  PROVE  PinInv'
  <1>1. pc = "off" /\ pinOwner = FreePins /\ Live = {} /\ pc' # "off"
    BY DEF Begin, BeginEmpty, BeginLoad, Enter, PinInv, IInv, RestInv
  <1>2. \A p \in Pin : pinOwner[p] = 0
    BY <1>1 DEF FreePins
  <1>3. CASE BeginEmpty
    BY <1>1, <1>2, <1>3 DEF BeginEmpty, ram, PinInv, OwnersLive
  <1>4. CASE BeginLoad
    <2>1. pinOwner' \in Claims(pinOwner, runtimes')
      BY <1>4 DEF BeginLoad
    <2> QED
      BY <1>1, <1>2, <2>1, ClaimedBy DEF PinInv, OwnersLive
  <1> QED
    BY <1>3, <1>4 DEF Begin

LEMMA PinsAlone ==
  ASSUME PinInv, UNCHANGED <<runtimes, pinOwner>>, pc' # "off" \/ pc' = pc,
         faults' = faults \/ faults' # 0 \/ Restoring
  PROVE  PinInv'
  BY DEF PinInv, OwnersLive

LEMMA StepPins == IInv /\ RecordInv /\ PinInv /\ [Next]_vars => PinInv'
  <1> SUFFICES ASSUME IInv, RecordInv, PinInv, [Next]_vars PROVE PinInv'
    OBVIOUS
  <1>1. CASE Begin
    BY <1>1, BeginPins
  <1>2. CASE Request
    <2>1. ASSUME NEW d \in Device, RemoveImmediate(d) \/ RemoveDelayed(d) PROVE PinInv'
      <3>1. Remove(d) /\ pc' # "off" /\ faults' = faults
        BY <2>1 DEF RemoveImmediate, RemoveDelayed, Remove, SaveAll, Enter, ctl, env
      <3> QED
        BY <3>1, RemovePins
    <2>2. ASSUME NEW d \in Device, CaptureRetained(d) PROVE PinInv'
      BY <2>2, PinsAlone DEF CaptureRetained, ctl, env
    <2>3. ASSUME NEW d \in Device, NEW layout \in Layout, ApplyPersistedStateUpdate(d, layout)
          PROVE  PinInv'
      BY <2>3, PinsAlone DEF ApplyPersistedStateUpdate, ctl, env
    <2>4. ASSUME Restoring, NEW reg \in Registry, NEW bundle \in [Display -> Layout], Restore(reg, bundle)
          PROVE  PinInv'
      BY <2>4 DEF Restore, SaveAll, Enter, PinInv, OwnersLive
    <2>5. ASSUME Restoring, NEW reg \in Registry, RestoreRejected(reg) PROVE PinInv'
      BY <2>5 DEF RestoreRejected, ctl, PinInv, OwnersLive
    <2> QED
      BY <1>2, <2>1, <2>2, <2>3, <2>4, <2>5, CreatePins, UpdatePins, SetDepsPins DEF Request
  <1>3. CASE Flush
    BY <1>3, PinsAlone DEF Flush, Enter, ram, env
  <1>4. CASE CallStep
    <2>1. CASE FinishRestore
      BY <2>1 DEF FinishRestore, Committed, Return, RecordInv, CallsKnown, PinInv, OwnersLive
    <2>2. CASE ~FinishRestore
      <3>1. UNCHANGED <<runtimes, pinOwner, faults>> /\ pc' # "off"
        BY <1>4, <2>2 DEF CallStep, WriteRecord, WriteIndex, WriteVersion, SkipIndex, ScopedSaves,
             SaveRetainedState, SavePersistedState, Finish, FinishImmediate, FinishRemove,
             FinishFlush, FinishClean, Recover, Enter, FinishRecover, Return, ram, env
      <3> QED
        BY <3>1, PinsAlone
    <2> QED
      BY <2>1, <2>2
  <1>5. CASE Environment
    <2>1. CASE WriteFails
      <3>1. faults' # 0 /\ pc' # "off"
        BY <2>1 DEF WriteFails, Return, IInv, TypeOK
      <3> QED
        BY <3>1 DEF PinInv, OwnersLive
    <2>2. CASE PowerLoss
      BY <2>2 DEF PowerLoss, RamOff, FreePins, PinInv, OwnersLive
    <2>3. ASSUME NEW d \in Device, Damage(d) PROVE PinInv'
      BY <2>3, PinsAlone DEF Damage, ram, ctl
    <2> QED
      BY <1>5, <2>1, <2>2, <2>3 DEF Environment
  <1>6. CASE UNCHANGED vars
    BY <1>6, PinsAlone DEF vars, ram, ctl, env
  <1> QED
    BY <1>1, <1>2, <1>3, <1>4, <1>5, <1>6 DEF Next

LEMMA PinsAlways == Spec => []PinInv
  <1>1. Init => PinInv
    BY DEF Init, FreePins, PinInv, OwnersLive
  <1>2. IInv /\ RecordInv /\ PinInv /\ [Next]_vars => PinInv'
    BY StepPins
  <1> QED
    BY <1>1, <1>2, Inductive, RecordsAlways, PTL DEF Spec

(* Unless backups are imported or a save has failed: no pin is left to a     *)
(* device that is gone or that an edit has moved to another pin.             *)
THEOREM PinsFollowDevices == ASSUME ~Restoring PROVE Spec => []NoStalePinOwner
  <1>1. PinInv => NoStalePinOwner
    BY DEF PinInv, OwnersLive, Owns, NoStalePinOwner, Live
  <1> QED
    BY <1>1, PinsAlways, PTL
==============================================================================
