------------------------ MODULE RegistryStructure_proofs ------------------------
(***************************************************************************)
(* For every set of devices: as long as no write has failed and no backup  *)
(* is imported, the links of the devices, in RAM and as the next boot      *)
(* would find them, form no cycle, between any two writes of any call; and *)
(* as long as no record was damaged either, none of them dangles, and what *)
(* flash holds goes from one registry to the next like a single variable.  *)
(***************************************************************************)
EXTENDS RegistryDurability_proofs

Sound == faults = 0 /\ ~Restoring
Whole == Sound /\ damages = 0

(* The device whose new links are still on their way to flash.               *)
Changing == IF op \in {"create", "update"} /\ pc = "records" THEN subject \cap todo ELSE {}

LinksDurable == \A x \in Live \ Changing : nvsRecord[x].deps = runtimes[x].deps

(* No live device needs one that is gone from RAM and still in flash.        *)
LinksInside == \A x \in Live : runtimes[x].deps \cap (nvsIndex \ damaged) \subseteq Live

GraphInv ==
  /\ op \in {"create", "update", "remove"} => \E d \in Device : subject = {d}
  /\ Sound => /\ OnCycle(runtimes) = {}
              /\ OnCycle(Readable) = {}
              /\ LinksDurable
              /\ LinksInside
              /\ op = "clean" => snapshot = runtimes

------------------------------------------------------------------------------
LEMMA ReadableIs ==
  ASSUME IInv
  PROVE  /\ Readable \in Registry
         /\ DOMAIN Readable = nvsIndex \ damaged
         /\ \A x \in DOMAIN Readable : Readable[x] = nvsRecord[x]
  <1>1. DOMAIN Readable = (nvsIndex \cap DOMAIN nvsRecord) \ damaged /\ Readable \in Registry
    BY ReadableType DEF IInv
  <1>2. \A x \in DOMAIN Readable : Readable[x] = nvsRecord[x]
    BY <1>1 DEF Readable, Restrict
  <1> QED
    BY <1>1, <1>2 DEF IInv, IndexedRecordsPresent

LEMMA ReadableNext ==
  ASSUME IInv'
  PROVE  /\ Readable' \in Registry
         /\ DOMAIN Readable' = nvsIndex' \ damaged'
         /\ \A x \in DOMAIN Readable' : Readable'[x] = nvsRecord'[x]
  <1>1. nvsRecord' \in Registry /\ nvsIndex' \subseteq DOMAIN nvsRecord'
    BY DEF IInv, TypeOK, StoreTypeOK, IndexedRecordsPresent
  <1>2. /\ (nvsIndex' \cap DOMAIN nvsRecord') \ damaged' = nvsIndex' \ damaged'
        /\ nvsIndex' \ damaged' \in SUBSET DOMAIN nvsRecord'
    BY <1>1
  <1>3. Readable' = Restrict(nvsRecord', nvsIndex' \ damaged')
    BY <1>2 DEF Readable
  <1>4. Readable' \in Registry /\ DOMAIN Readable' = nvsIndex' \ damaged'
    BY <1>1, <1>2, <1>3, RestrictType
  <1>5. \A x \in nvsIndex' \ damaged' : Readable'[x] = nvsRecord'[x]
    BY <1>3 DEF Restrict
  <1> QED
    BY <1>4, <1>5

LEMMA Registries ==
  ASSUME IInv
  PROVE  runtimes \in Registry /\ snapshot \in Registry /\ nvsRecord \in Registry
  BY DEF IInv, TypeOK, StoreTypeOK

(* Nothing that the graph is read from changes.                              *)
LEMMA GraphAlone ==
  ASSUME GraphInv,
         UNCHANGED <<runtimes, nvsIndex, nvsRecord, damaged>>,
         Sound' => Sound,
         \/ UNCHANGED <<op, subject, snapshot, Changing>>
         \/ Changing = {} /\ op' \notin {"create", "update", "remove", "clean"}
  PROVE  GraphInv'
  <1>1. Readable' = Readable
    BY DEF Readable
  <1>2. op' \in {"create", "update", "remove"} => \E d \in Device : subject' = {d}
    BY DEF GraphInv
  <1>3. ASSUME Sound' PROVE LinksDurable'
    BY <1>3 DEF GraphInv, LinksDurable, Live, Changing
  <1>4. ASSUME Sound' PROVE LinksInside'
    BY <1>4 DEF GraphInv, LinksInside, Live
  <1> QED
    BY <1>1, <1>2, <1>3, <1>4 DEF GraphInv

LEMMA InitGraph == Init => GraphInv
  <1> SUFFICES ASSUME Init PROVE GraphInv
    OBVIOUS
  <1>1. Live = {} /\ OnCycle(runtimes) = {}
    BY EmptyValid, EmptyRegistryType DEF Init, Live, Valid
  <1>2. DOMAIN Readable = {}
    BY EmptyRegistryType DEF Init, StoreInit, Readable, Restrict
  <1>3. OnCycle(Readable) = {}
    BY <1>2 DEF OnCycle
  <1> QED
    BY <1>1, <1>3 DEF Init, GraphInv, LinksDurable, LinksInside

LEMMA BeginGraph ==
  ASSUME IInv, IInv', GraphInv, Begin
  PROVE  GraphInv'
  <1>1. pc = "off" /\ op = "none" /\ Live = {} /\ faults' = faults
    BY DEF Begin, BeginEmpty, BeginLoad, Enter, IInv, RestInv, env
  <1>2. CASE BeginEmpty
    <2>1. UNCHANGED <<runtimes, op>> /\ nvsRecord' = EmptyRegistry
      BY <1>2 DEF BeginEmpty, ResetStorage, ram
    <2>2. DOMAIN Readable' = {}
      BY <2>1, EmptyRegistryType DEF Readable, Restrict
    <2>3. OnCycle(Readable') = {}
      BY <2>2 DEF OnCycle
    <2> QED
      BY <1>1, <2>1, <2>3 DEF GraphInv, Sound, LinksDurable, LinksInside, Live
  <1>3. CASE BeginLoad
    <2>1. /\ runtimes' = Survivors(Readable) /\ UNCHANGED <<nvsIndex, nvsRecord, damaged>>
          /\ op' \in {"none", "clean", "recover"}
          /\ op' = "clean" => snapshot' = Readable
      BY <1>1, <1>3 DEF BeginLoad, Enter, flash
    <2>2. Readable' = Readable
      BY <2>1 DEF Readable
    <2>3. ASSUME Sound' PROVE runtimes' = Readable
      BY <1>1, <2>1, <2>3, ReadableIs, SurvivorsOfAcyclic DEF GraphInv, Sound
    <2>4. ASSUME Sound'
          PROVE  /\ OnCycle(runtimes') = {} /\ OnCycle(Readable') = {}
                 /\ LinksDurable' /\ LinksInside' /\ (op' = "clean" => snapshot' = runtimes')
      BY <1>1, <2>1, <2>2, <2>3, <2>4, ReadableIs DEF GraphInv, Sound, LinksDurable, LinksInside, Live
    <2> QED
      BY <2>1, <2>4 DEF GraphInv
  <1> QED
    BY <1>2, <1>3 DEF Begin

(* A device is created or gets another record.                               *)
LEMMA PutGraph ==
  ASSUME IInv, GraphInv, op = "none", NEW d \in Device, NEW rec \in Record,
         runtimes' = Put(runtimes, d, rec), Valid(runtimes'),
         UNCHANGED <<nvsIndex, nvsRecord, damaged, faults>>,
         \/ op' = op /\ d \in Live /\ rec.deps = runtimes[d].deps
         \/ op' \in {"create", "update"} /\ pc' = "records" /\ subject' = {d} /\ d \in todo'
  PROVE  GraphInv'
  <1>1. runtimes \in Registry
    BY Registries
  <1>2. DOMAIN runtimes' = DOMAIN runtimes \cup {d} /\ runtimes'[d] = rec
    BY <1>1, PutType
  <1>3. \A x \in DOMAIN runtimes \ {d} : runtimes'[x] = runtimes[x]
    BY <1>1, PutAt
  <1>4. Readable' = Readable
    BY DEF Readable
  <1>5. ASSUME Sound' PROVE LinksDurable'
    <2>1. LinksDurable
      BY <1>5 DEF GraphInv, Sound
    <2> QED
      BY <1>2, <1>3, <2>1 DEF LinksDurable, Changing, Live
  <1>6. ASSUME Sound' PROVE LinksInside'
    BY DEF Valid, Closed, LinksInside, Live
  <1> QED
    BY <1>4, <1>5, <1>6 DEF GraphInv, Sound, Valid

LEMMA RemoveGraph ==
  ASSUME IInv, IInv', GraphInv, NEW d \in Device, Remove(d), faults' = faults,
         op' = "none" \/ (op' = "remove" /\ subject' = {d})
  PROVE  GraphInv'
  <1>1. /\ op = "none" /\ runtimes \in Registry /\ runtimes' = Drop(runtimes, {d})
        /\ Dependents(runtimes, d) = {}
        /\ UNCHANGED <<nvsIndex, nvsRecord, damaged>>
    BY Registries DEF Remove, IInv, RestInv
  <1>2. /\ runtimes' \in Registry /\ DOMAIN runtimes' = DOMAIN runtimes \ {d}
        /\ \A x \in DOMAIN runtimes' : runtimes'[x] = runtimes[x]
    <2>1. runtimes' \in Registry /\ DOMAIN runtimes' = DOMAIN runtimes \ {d}
      BY <1>1, DropType
    <2>2. \A x \in DOMAIN runtimes \ {d} : runtimes'[x] = runtimes[x]
      BY <1>1, DropAt
    <2> QED
      BY <2>1, <2>2
  <1>3. Readable' = Readable
    BY <1>1 DEF Readable
  <1>4. ASSUME Sound' PROVE OnCycle(runtimes') = {}
    BY <1>1, <1>2, <1>4, FewerAcyclic DEF GraphInv, Sound
  <1>5. ASSUME Sound' PROVE LinksDurable'
    BY <1>1, <1>2, <1>5 DEF GraphInv, Sound, LinksDurable, Changing, Live
  <1>6. ASSUME Sound' PROVE LinksInside'
    <2>1. \A x \in Live : runtimes[x].deps \cap (nvsIndex \ damaged) \subseteq Live
      BY <1>1, <1>6 DEF GraphInv, Sound, LinksInside
    <2>2. \A x \in DOMAIN runtimes : d \notin runtimes[x].deps
      BY <1>1 DEF Dependents
    <2>3. ASSUME NEW x \in DOMAIN runtimes' PROVE runtimes'[x].deps \cap (nvsIndex \ damaged) \subseteq Live \ {d}
      BY <1>2, <2>1, <2>2 DEF Live
    <2> QED
      BY <1>1, <1>2, <2>3 DEF LinksInside, Live
  <1> QED
    BY <1>1, <1>3, <1>4, <1>5, <1>6 DEF GraphInv, Sound

LEMMA RequestedIsThere ==
  ASSUME IInv, NEW d \in Device, NEW rec \in Record, runtimes' = Put(runtimes, d, rec)
  PROVE  d \in DOMAIN runtimes'
  <1>1. runtimes \in Registry
    BY Registries
  <1>2. DOMAIN Put(runtimes, d, rec) = DOMAIN runtimes \cup {d}
    BY <1>1, PutType
  <1> QED
    BY <1>2

LEMMA RequestGraph ==
  ASSUME IInv, IInv', GraphInv, Request
  PROVE  GraphInv'
  <1>1. pc = "idle" /\ op = "none"
    BY DEF Request, Create, UpdateConfigAndDeps, SetDeps, RemoveImmediate, RemoveDelayed, Remove,
           CaptureRetained, ApplyPersistedStateUpdate, Restore, RestoreRejected, IInv, RestInv
  <1>2. ASSUME NEW d \in Device, NEW rec \in Record, Create(d, rec) PROVE GraphInv'
    <2>1. /\ runtimes' = Put(runtimes, d, rec) /\ Valid(runtimes')
          /\ UNCHANGED <<nvsIndex, nvsRecord, damaged, faults>>
          /\ op' = "create" /\ pc' = "records" /\ subject' = {d} /\ todo' = DOMAIN runtimes'
      BY <1>2 DEF Create, SaveAll, Enter, flash, env
    <2>2. d \in todo'
      BY <2>1, RequestedIsThere
    <2> QED
      BY <1>1, <2>1, <2>2, PutGraph
  <1>3. ASSUME NEW d \in Device, NEW rec \in Record, NEW layout \in Layout,
               UpdateConfigAndDeps(d, rec, layout)
        PROVE  GraphInv'
    <2>1. /\ runtimes' = Put(runtimes, d, rec) /\ Valid(runtimes') /\ d \in Live
          /\ UNCHANGED <<nvsIndex, nvsRecord, damaged, faults>>
          /\ \/ op' = op /\ rec.deps = runtimes[d].deps
             \/ op' = "update" /\ pc' = "records" /\ subject' = {d} /\ todo' = DOMAIN runtimes'
      BY <1>3 DEF UpdateConfigAndDeps, Relinks, SaveAll, Enter, flash, env, ctl
    <2>2. todo' = DOMAIN runtimes' => d \in todo'
      BY <2>1, RequestedIsThere
    <2> QED
      BY <1>1, <2>1, <2>2, PutGraph
  <1>4. ASSUME NEW d \in Device, NEW deps \in SUBSET Device, SetDeps(d, deps) PROVE GraphInv'
    <2> DEFINE rec == [runtimes[d] EXCEPT !.deps = deps]
    <2>1. /\ runtimes' = Put(runtimes, d, rec) /\ Valid(runtimes') /\ d \in Live
          /\ UNCHANGED <<nvsIndex, nvsRecord, damaged, faults>>
          /\ op' = "update" /\ pc' = "records" /\ subject' = {d} /\ todo' = DOMAIN runtimes'
      BY <1>4 DEF SetDeps, SaveAll, Enter, flash, env
    <2>2. rec \in Record
      BY <2>1, Registries, RegistryForm DEF Live, Record
    <2> HIDE DEF rec
    <2>3. d \in todo'
      BY <2>1, <2>2, RequestedIsThere
    <2> QED
      BY <1>1, <2>1, <2>2, <2>3, PutGraph
  <1>5. ASSUME NEW d \in Device, RemoveImmediate(d) \/ RemoveDelayed(d) PROVE GraphInv'
    <2>1. Remove(d) /\ faults' = faults /\ (op' = "none" \/ (op' = "remove" /\ subject' = {d}))
      <3>1. CASE RemoveImmediate(d)
        <4>1. Remove(d) /\ (SaveAll("remove", {d}, runtimes') \/ UNCHANGED <<ctl, env>>)
          BY <3>1 DEF RemoveImmediate
        <4> QED
          BY <1>1, <4>1 DEF SaveAll, Enter, env, ctl
      <3>2. CASE RemoveDelayed(d)
        BY <1>1, <3>2 DEF RemoveDelayed, env, ctl
      <3> QED
        BY <1>5, <3>1, <3>2
    <2> QED
      BY <2>1, RemoveGraph
  <1>6. ASSUME NEW d \in Device, CaptureRetained(d) PROVE GraphInv'
    BY <1>6, GraphAlone DEF CaptureRetained, flash, ctl, env, Sound, Changing
  <1>7. ASSUME NEW d \in Device, NEW layout \in Layout, ApplyPersistedStateUpdate(d, layout)
        PROVE  GraphInv'
    BY <1>7, GraphAlone DEF ApplyPersistedStateUpdate, flash, ctl, env, Sound, Changing
  <1>8. ASSUME Restoring, NEW reg \in Registry, NEW bundle \in [Display -> Layout], Restore(reg, bundle)
        PROVE  GraphInv'
    BY <1>8 DEF Restore, SaveAll, Enter, GraphInv, Sound
  <1>9. ASSUME Restoring, NEW reg \in Registry, RestoreRejected(reg) PROVE GraphInv'
    BY <1>1, <1>9 DEF RestoreRejected, ctl, GraphInv, Sound
  <1> QED
    BY <1>2, <1>3, <1>4, <1>5, <1>6, <1>7, <1>8, <1>9 DEF Request

(* A record that is written over an older one: the links in flash are those  *)
(* of before, or, once the changed device is written, those of RAM.          *)
LEMMA WriteRecordGraph ==
  ASSUME IInv, IInv', RecordInv, GraphInv, WriteRecord
  PROVE  GraphInv'
  <1>1. PICK d \in todo :
          /\ nvsRecord' = Put(nvsRecord, d, snapshot[d])
          /\ damaged' = damaged \ {d}
          /\ todo' = todo \ {d}
          /\ pc = "records"
          /\ UNCHANGED <<nvsIndex, pc, op, subject, snapshot, runtimes, faults>>
    BY DEF WriteRecord, PutRecord, ram, env
  <1> SUFFICES ASSUME Sound PROVE /\ OnCycle(Readable') = {} /\ LinksDurable' /\ LinksInside'
    BY <1>1 DEF GraphInv, Sound
  <1>2. snapshot = runtimes /\ d \in Live /\ op # "clean"
    <2>1. op \in {"create", "update", "remove", "flush", "recover"}
      BY <1>1 DEF IInv, TypeOK, Operations, RecordInv, CallsKnown, Writing, Sound
    <2> QED
      BY <1>1, <2>1 DEF IInv, CallInv, ProgressInv, Live
  <1>3. /\ DOMAIN nvsRecord' = DOMAIN nvsRecord \cup {d} /\ nvsRecord'[d] = runtimes[d]
        /\ \A x \in DOMAIN nvsRecord \ {d} : nvsRecord'[x] = nvsRecord[x]
    <2>1. nvsRecord \in Registry /\ runtimes[d] \in Record /\ d \in Device
      BY <1>2, Registries, RegistryForm DEF Live
    <2>2. \A x \in DOMAIN nvsRecord \ {d} : Put(nvsRecord, d, runtimes[d])[x] = nvsRecord[x]
      BY <2>1, PutAt
    <2>3. /\ DOMAIN Put(nvsRecord, d, runtimes[d]) = DOMAIN nvsRecord \cup {d}
          /\ Put(nvsRecord, d, runtimes[d])[d] = runtimes[d]
      BY <2>1, PutType
    <2> QED
      BY <1>1, <1>2, <2>2, <2>3
  <1>4. Changing' = Changing \ {d}
    BY <1>1 DEF Changing
  <1>5. Live \ Fresh \subseteq DOMAIN nvsRecord /\ (op = "create" => Changing = subject \cap todo)
    BY <1>1 DEF IInv, LiveRecorded, Fresh, Changing
  <1>6. Live \ (Changing \cup {d}) \subseteq DOMAIN nvsRecord
    <2>1. CASE op = "create"
      <3>1. \A x \in subject \ todo : x \in Live => x \in DOMAIN nvsRecord
        BY <1>1, <1>2, <2>1 DEF RecordInv, SnapshotHeld, Writing, Unwritten, Held, Sound, Live
      <3> QED
        BY <1>5, <2>1, <3>1 DEF Fresh
    <2>2. CASE op # "create"
      BY <1>5, <2>2 DEF Fresh
    <2> QED
      BY <2>1, <2>2
  <1>7. LinksDurable'
    <2>1. \A x \in Live \ Changing : nvsRecord[x].deps = runtimes[x].deps
      BY DEF GraphInv, LinksDurable
    <2>2. ASSUME NEW x \in Live \ (Changing \ {d}) PROVE nvsRecord'[x].deps = runtimes[x].deps
      <3>1. CASE x = d
        BY <1>3, <3>1
      <3>2. CASE x # d
        BY <1>3, <1>6, <2>1, <2>2, <3>2
      <3> QED
        BY <3>1, <3>2
    <2> QED
      BY <1>1, <1>4, <2>2 DEF LinksDurable, Live
  <1>8. LinksInside'
    BY <1>1, <1>2 DEF GraphInv, LinksInside, Live
  <1>9. /\ Readable' \in Registry /\ DOMAIN Readable' = nvsIndex \ (damaged \ {d})
        /\ \A x \in DOMAIN Readable' : Readable'[x] = nvsRecord'[x]
    BY <1>1, ReadableNext
  <1>10. /\ Readable \in Registry /\ DOMAIN Readable = nvsIndex \ damaged
         /\ \A x \in DOMAIN Readable : Readable[x] = nvsRecord[x]
         /\ DOMAIN Readable \subseteq DOMAIN nvsRecord
    BY ReadableIs DEF IInv, IndexedRecordsPresent
  <1>11. OnCycle(Readable') = {}
    <2>1. CASE d \in Changing
      <3>1. Changing' = {}
        BY <1>4, <2>1 DEF GraphInv, Changing
      <3>2. \A x \in Live : nvsRecord'[x].deps = runtimes[x].deps
        BY <1>1, <1>7, <3>1 DEF LinksDurable, Live
      <3>3. \A x \in DOMAIN Readable' \cap Live :
              /\ x \in DOMAIN runtimes /\ Readable'[x].deps = runtimes[x].deps
              /\ Readable'[x].deps \cap DOMAIN Readable' \subseteq Live
        BY <1>1, <1>8, <1>9, <3>2 DEF LinksInside, Live
      <3>4. \A x \in DOMAIN Readable' \ Live : x \in DOMAIN Readable /\ Readable'[x].deps = Readable[x].deps
        BY <1>2, <1>3, <1>9, <1>10
      <3> QED
        BY <1>9, <1>10, <3>3, <3>4, Registries, MergeAcyclic DEF GraphInv
    <2>2. CASE d \notin Changing
      <3>1. d \notin Fresh
        BY <1>1, <2>2 DEF Fresh, Changing
      <3>2. d \in nvsIndex \ damaged /\ d \in DOMAIN Readable
        BY <1>2, <1>10, <3>1 DEF RecordInv, LiveIndexed, Sound
      <3>3. nvsRecord[d].deps = runtimes[d].deps
        BY <1>2, <2>2 DEF GraphInv, LinksDurable
      <3>4. \A x \in DOMAIN Readable' : x \in DOMAIN Readable /\ Readable'[x].deps = Readable[x].deps
        BY <1>3, <1>9, <1>10, <3>2, <3>3
      <3> QED
        BY <1>9, <1>10, <3>4, FewerAcyclic DEF GraphInv
    <2> QED
      BY <2>1, <2>2
  <1> QED
    BY <1>7, <1>8, <1>11

(* With the index, flash holds what RAM holds. *)
LEMMA WriteIndexGraph ==
  ASSUME IInv, IInv', RecordInv, GraphInv, WriteIndex
  PROVE  GraphInv'
  <1>1. /\ pc = "records" /\ pc' = "version" /\ todo = {}
        /\ nvsIndex' = DOMAIN snapshot
        /\ UNCHANGED <<nvsRecord, damaged, op, subject, snapshot, runtimes, faults>>
    BY DEF WriteIndex, PutIndex, ram, env
  <1> SUFFICES ASSUME Sound PROVE /\ OnCycle(Readable') = {} /\ LinksDurable' /\ LinksInside'
    BY <1>1 DEF GraphInv, Sound
  <1>2. snapshot = runtimes
    BY <1>1 DEF IInv, TypeOK, Operations, CallInv, RecordInv, CallsKnown, Writing, GraphInv, Sound
  <1>3. \A x \in Live : x \notin damaged /\ nvsRecord[x] = runtimes[x]
    BY <1>1, <1>2 DEF RecordInv, SnapshotHeld, Writing, Unwritten, Held, Sound, Live
  <1>4. LinksDurable' /\ LinksInside'
    BY <1>1, <1>2, <1>3 DEF LinksDurable, LinksInside, Live
  <1>5. /\ Readable' \in Registry /\ DOMAIN Readable' = nvsIndex' \ damaged
        /\ \A x \in DOMAIN Readable' : Readable'[x] = nvsRecord[x]
    BY <1>1, ReadableNext
  <1>6. \A x \in DOMAIN Readable' : x \in DOMAIN runtimes /\ Readable'[x].deps = runtimes[x].deps
    BY <1>1, <1>2, <1>3, <1>5 DEF Live
  <1>7. OnCycle(Readable') = {}
    BY <1>5, <1>6, Registries, FewerAcyclic DEF GraphInv
  <1> QED
    BY <1>4, <1>7

(* Cleaning up deletes no record that the index names.                       *)
LEMMA DeletedGraph ==
  ASSUME IInv, IInv', GraphInv, NEW ids, RemoveRecords(ids), ids \cap Live = {},
         UNCHANGED <<nvsIndex, runtimes, faults>>, Changing = {}, op' \in {"none", "recover"}
  PROVE  GraphInv'
  <1>1. /\ DOMAIN nvsRecord' = DOMAIN nvsRecord \ ids /\ damaged' = damaged \ ids
        /\ \A d \in DOMAIN nvsRecord' : nvsRecord'[d] = nvsRecord[d]
    BY DeletedRecords
  <1>2. nvsIndex \cap ids = {}
    BY <1>1 DEF IInv, IndexedRecordsPresent
  <1>3. nvsIndex' \ damaged' = nvsIndex \ damaged
    BY <1>1, <1>2
  <1>4. Live \subseteq DOMAIN nvsRecord \/ op = "create"
    BY DEF IInv, LiveRecorded
  <1>5. \A x \in DOMAIN Readable' : x \in DOMAIN Readable /\ Readable'[x].deps = Readable[x].deps
    <2>1. /\ DOMAIN Readable' = nvsIndex' \ damaged'
          /\ \A x \in DOMAIN Readable' : Readable'[x] = nvsRecord'[x]
      BY ReadableNext
    <2>2. /\ DOMAIN Readable = nvsIndex \ damaged
          /\ \A x \in DOMAIN Readable : Readable[x] = nvsRecord[x]
          /\ DOMAIN Readable' \subseteq DOMAIN nvsRecord'
      BY <2>1, ReadableIs DEF IInv, IndexedRecordsPresent
    <2> QED
      BY <1>1, <1>3, <2>1, <2>2
  <1>6. ASSUME Sound' PROVE OnCycle(Readable') = {}
    BY <1>5, <1>6, ReadableIs, ReadableNext, FewerAcyclic DEF GraphInv, Sound
  <1>7. ASSUME Sound', NEW x \in Live PROVE nvsRecord'[x].deps = runtimes[x].deps
    <2>1. nvsRecord[x].deps = runtimes[x].deps
      BY <1>7 DEF GraphInv, Sound, LinksDurable
    <2>2. x \in DOMAIN nvsRecord'
      BY DEF IInv, LiveRecorded, Live
    <2> QED
      BY <1>1, <2>1, <2>2
  <1>8. ASSUME Sound' PROVE LinksDurable' /\ LinksInside'
    BY <1>3, <1>7, <1>8 DEF GraphInv, Sound, LinksDurable, LinksInside, Live
  <1> QED
    BY <1>6, <1>8 DEF GraphInv, Sound

LEMMA CallGraph ==
  ASSUME IInv, IInv', RecordInv, GraphInv, CallStep
  PROVE  GraphInv'
  <1>1. CASE WriteVersion \/ SkipIndex \/ SaveRetainedState \/ SavePersistedState
    <2>1. /\ UNCHANGED <<runtimes, nvsIndex, nvsRecord, damaged, faults, op, subject, snapshot>>
          /\ Changing = {} /\ Changing' = {}
      BY <1>1 DEF WriteVersion, PutVersion, SkipIndex, ScopedSaves, WritesIndex, SaveRetainedState,
           PutRetained, SavePersistedState, PutLayout, ram, env, flash, Changing
    <2> QED
      BY <2>1, GraphAlone DEF Sound
  <1>2. CASE FinishImmediate
    BY <1>2, GraphAlone DEF FinishImmediate, Committed, Return, flash, env, Sound, Changing
  <1>3. CASE FinishRemove \/ FinishFlush \/ FinishRecover
    <2>1. /\ RemoveRecords(subject) /\ UNCHANGED <<nvsIndex, runtimes, faults>>
          /\ Changing = {} /\ op' = "none" /\ op \in {"remove", "flush", "recover"}
      BY <1>3 DEF FinishRemove, FinishFlush, FinishRecover, Committed, Return, env, ram, Changing
    <2>2. subject \cap Live = {}
      BY <2>1 DEF IInv, CallInv
    <2> QED
      BY <2>1, <2>2, DeletedGraph
  <1>4. CASE FinishClean
    <2>1. /\ RemoveRecords(subject \ DOMAIN snapshot) /\ UNCHANGED <<nvsIndex, runtimes, faults>>
          /\ Changing = {} /\ op' = "recover" /\ op = "clean"
      BY <1>4 DEF FinishClean, Recover, Enter, Committed, env, ram, Changing
    <2>2. (subject \ DOMAIN snapshot) \cap Live = {}
      BY <2>1 DEF IInv, CallInv
    <2> QED
      BY <2>1, <2>2, DeletedGraph
  <1>5. CASE FinishRestore
    BY <1>5 DEF FinishRestore, Committed, Return, RecordInv, CallsKnown, GraphInv, Sound
  <1> QED
    BY <1>1, <1>2, <1>3, <1>4, <1>5, WriteRecordGraph, WriteIndexGraph DEF CallStep, Finish

LEMMA EnvironmentGraph ==
  ASSUME IInv, IInv', GraphInv, Environment
  PROVE  GraphInv'
  <1>1. CASE WriteFails
    <2>1. faults' # 0 /\ op' \in {"none", "recover"}
      BY <1>1 DEF WriteFails, Return, IInv, TypeOK
    <2> QED
      BY <2>1 DEF GraphInv, Sound
  <1>2. CASE PowerLoss
    <2>1. /\ runtimes' = EmptyRegistry /\ op' = "none" /\ UNCHANGED <<nvsIndex, nvsRecord, damaged, faults>>
      BY <1>2 DEF PowerLoss, RamOff, flash
    <2>2. Readable' = Readable /\ Live' = {}
      BY <2>1, EmptyRegistryType DEF Readable, Live
    <2> QED
      BY <2>1, <2>2, EmptyValid DEF GraphInv, Sound, LinksDurable, LinksInside, Valid
  <1>3. ASSUME NEW d \in Device, Damage(d) PROVE GraphInv'
    <2>1. /\ UNCHANGED <<nvsIndex, nvsRecord, runtimes, faults, op, subject, snapshot>>
          /\ damaged' = damaged \cup {d} /\ Live = {}
      BY <1>3 DEF Damage, DamageRecord, ram, ctl, IInv, RestInv
    <2>2. \A x \in DOMAIN Readable' : x \in DOMAIN Readable /\ Readable'[x].deps = Readable[x].deps
      <3>1. /\ DOMAIN Readable' = nvsIndex' \ damaged'
            /\ \A x \in DOMAIN Readable' : Readable'[x] = nvsRecord'[x]
        BY ReadableNext
      <3>2. /\ DOMAIN Readable = nvsIndex \ damaged
            /\ \A x \in DOMAIN Readable : Readable[x] = nvsRecord[x]
        BY ReadableIs
      <3> QED
        BY <2>1, <3>1, <3>2
    <2>3. Sound' => OnCycle(Readable') = {}
      BY <2>1, <2>2, ReadableIs, ReadableNext, FewerAcyclic DEF GraphInv, Sound
    <2> QED
      BY <2>1, <2>3 DEF GraphInv, Sound, LinksDurable, LinksInside, Live
  <1> QED
    BY <1>1, <1>2, <1>3 DEF Environment

LEMMA GraphAlways == Spec => []GraphInv
  <1>1. Init => GraphInv
    BY InitGraph
  <1>2. IInv /\ IInv' /\ RecordInv /\ GraphInv /\ [Next]_vars => GraphInv'
    <2> SUFFICES ASSUME IInv, IInv', RecordInv, GraphInv, [Next]_vars PROVE GraphInv'
      OBVIOUS
    <2>1. CASE Flush
      <3>1. Changing = {} /\ op' = "flush" /\ UNCHANGED <<runtimes, nvsIndex, nvsRecord, damaged, faults>>
        BY <2>1 DEF Flush, Enter, ram, flash, env, Changing
      <3> QED
        BY <3>1, GraphAlone DEF Sound
    <2>2. CASE UNCHANGED vars
      BY <2>2, GraphAlone DEF vars, ram, ctl, flash, env, Sound, Changing
    <2> QED
      BY <2>1, <2>2, BeginGraph, RequestGraph, CallGraph, EnvironmentGraph DEF Next
  <1> QED
    BY <1>1, <1>2, Inductive, RecordsAlways, PTL DEF Spec

------------------------------------------------------------------------------
(* As long as no record was damaged either, no link dangles, nothing is ever *)
(* discarded at a boot, and flash names the devices RAM has.                 *)
Leaving == IF op = "remove" THEN subject ELSE {}

IndexExact ==
  ~dirtyIndex /\ (pc \in {"idle", "records"} \/ op = "flush")
    => nvsIndex = (Live \ Fresh) \cup Leaving

WholeInv ==
  Whole => /\ damaged = {}
           /\ op \notin {"clean", "recover"}
           /\ Closed(runtimes)
           /\ Closed(Readable)
           /\ IndexExact

LEMMA SameLinksClosed ==
  ASSUME NEW B, NEW C, Closed(B), DOMAIN C = DOMAIN B, \A x \in DOMAIN C : C[x].deps = B[x].deps
  PROVE  Closed(C)
  BY DEF Closed

(* Neither the devices nor what flash names of them changes.                 *)
LEMMA WholeAlone ==
  ASSUME WholeInv,
         UNCHANGED <<runtimes, nvsIndex, nvsRecord, damaged, op, subject, dirtyIndex>>,
         Whole' => Whole,
         pc' \in {"idle", "records"} => pc' = pc
  PROVE  WholeInv'
  <1>1. Readable' = Readable
    BY DEF Readable
  <1>2. ASSUME Whole' PROVE IndexExact'
    BY <1>2 DEF WholeInv, IndexExact, Fresh, Leaving, Live
  <1> QED
    BY <1>1, <1>2 DEF WholeInv

LEMMA BeginWhole ==
  ASSUME IInv, IInv', GraphInv, WholeInv, Begin
  PROVE  WholeInv'
  <1>1. pc = "off" /\ op = "none" /\ Live = {}
    BY DEF Begin, BeginEmpty, BeginLoad, IInv, RestInv
  <1>2. CASE BeginEmpty
    <2>1. /\ UNCHANGED <<runtimes, op, env>> /\ pc' = "idle"
          /\ nvsRecord' = EmptyRegistry /\ nvsIndex' = {} /\ damaged' = {}
      BY <1>2 DEF BeginEmpty, ResetStorage, ram
    <2>2. DOMAIN Readable' = {}
      BY <2>1, EmptyRegistryType DEF Readable, Restrict
    <2> QED
      BY <1>1, <2>1, <2>2 DEF WholeInv, Whole, Sound, env, Closed, IndexExact, Fresh, Leaving, Live
  <1>3. CASE BeginLoad
    <2> SUFFICES ASSUME Whole' PROVE WholeInv'
      BY DEF WholeInv
    <2>1. UNCHANGED env /\ UNCHANGED <<nvsIndex, nvsRecord, damaged>> /\ runtimes' = Survivors(Readable)
      BY <1>3 DEF BeginLoad, Enter, flash
    <2>2. Whole /\ Readable' = Readable
      BY <2>1 DEF Whole, Sound, env, Readable
    <2>3. runtimes' = Readable
      BY <2>1, <2>2, ReadableIs, SurvivorsOfAcyclic DEF GraphInv, Whole
    <2>4. DOMAIN Readable = nvsIndex /\ damaged = {}
      BY <2>2, ReadableIs DEF WholeInv
    <2>5. nvsIndex \ DOMAIN Survivors(Readable) = {}
      BY <2>1, <2>3, <2>4
    <2>6. pc' = "idle" /\ op' = op
      <3> DEFINE discarded == nvsIndex \ DOMAIN Survivors(Readable)
      <3>1. (CASE discarded = {} -> pc' = "idle" /\ UNCHANGED <<op, subject, snapshot, todo, env>>
              [] nvsIndex # DOMAIN Readable -> Enter("clean", discarded, Readable, {})
              [] OTHER -> Enter("recover", discarded, Survivors(Readable), DOMAIN Survivors(Readable)))
        BY <1>3 DEF BeginLoad
      <3>2. discarded = {} /\ nvsIndex = DOMAIN Readable
        BY <2>4, <2>5
      <3> HIDE DEF discarded
      <3> QED
        BY <3>1, <3>2
    <2> QED
      BY <1>1, <2>1, <2>2, <2>3, <2>4, <2>6 DEF WholeInv, IndexExact, Fresh, Leaving, Live
  <1> QED
    BY <1>2, <1>3 DEF Begin

(* A device is created or gets another record, which is validated first.     *)
LEMMA PutWhole ==
  ASSUME IInv, WholeInv, pc = "idle", op = "none", NEW d \in Device, NEW rec \in Record,
         runtimes' = Put(runtimes, d, rec), Valid(runtimes'),
         UNCHANGED <<nvsIndex, nvsRecord, damaged, faults, damages, dirtyIndex>>,
         \/ op' = op /\ d \in Live
         \/ op' = "update" /\ d \in Live
         \/ op' = "create" /\ subject' = {d} /\ d \notin Live
  PROVE  WholeInv'
  <1>1. DOMAIN runtimes' = DOMAIN runtimes \cup {d}
    BY Registries, PutType
  <1>2. Readable' = Readable
    BY DEF Readable
  <1>3. ASSUME Whole' PROVE IndexExact'
    <2>1. ~dirtyIndex => nvsIndex = Live
      BY <1>3 DEF WholeInv, Whole, Sound, IndexExact, Fresh, Leaving
    <2> QED
      BY <1>1, <2>1 DEF IndexExact, Fresh, Leaving, Live
  <1> QED
    BY <1>2, <1>3 DEF WholeInv, Whole, Sound, Valid

LEMMA RemoveWhole ==
  ASSUME IInv, GraphInv', WholeInv, NEW d \in Device, RemoveImmediate(d) \/ RemoveDelayed(d)
  PROVE  WholeInv'
  <1> SUFFICES ASSUME Whole' PROVE WholeInv'
    BY DEF WholeInv
  <1>1. /\ pc = "idle" /\ op = "none" /\ d \in Live
        /\ runtimes' = Drop(runtimes, {d})
        /\ Dependents(runtimes, d) = {}
        /\ UNCHANGED <<nvsIndex, nvsRecord, damaged, env>>
    BY DEF RemoveImmediate, RemoveDelayed, Remove, IInv, RestInv, SaveAll, Enter
  <1>2. Whole
    BY <1>1 DEF Whole, Sound, env
  <1>3. DOMAIN runtimes' = DOMAIN runtimes \ {d}
    BY <1>1, Registries, DropType
  <1>4. \A x \in DOMAIN runtimes \ {d} : runtimes'[x] = runtimes[x]
    BY <1>1, Registries, DropAt
  <1>5. \A x \in DOMAIN runtimes : d \notin runtimes[x].deps /\ runtimes[x].deps \subseteq DOMAIN runtimes
    BY <1>1, <1>2 DEF Dependents, WholeInv, Closed
  <1>6. Closed(runtimes')
    BY <1>3, <1>4, <1>5 DEF Closed
  <1>7. Valid(runtimes')
    BY <1>6 DEF GraphInv, Whole, Valid
  <1>8. Readable' = Readable
    BY <1>1 DEF Readable
  <1>9. \/ dirtyIndex'
        \/ UNCHANGED dirtyIndex /\ op' = "remove" /\ subject' = {d}
    BY <1>7 DEF RemoveImmediate, RemoveDelayed, SaveAll, Enter
  <1>10. op' \notin {"clean", "recover"}
    BY <1>1 DEF RemoveImmediate, RemoveDelayed, SaveAll, Enter, ctl
  <1>11. IndexExact'
    BY <1>1, <1>2, <1>3, <1>9 DEF WholeInv, IndexExact, Fresh, Leaving, Live
  <1> QED
    BY <1>1, <1>2, <1>6, <1>8, <1>10, <1>11 DEF WholeInv

LEMMA RequestWhole ==
  ASSUME IInv, IInv', GraphInv', WholeInv, Request
  PROVE  WholeInv'
  <1>1. pc = "idle" /\ op = "none"
    BY DEF Request, Create, UpdateConfigAndDeps, SetDeps, RemoveImmediate, RemoveDelayed, Remove,
           CaptureRetained, ApplyPersistedStateUpdate, Restore, RestoreRejected, IInv, RestInv
  <1>2. ASSUME NEW d \in Device, NEW rec \in Record, Create(d, rec) PROVE WholeInv'
    <2>1. /\ runtimes' = Put(runtimes, d, rec) /\ Valid(runtimes') /\ d \notin Live
          /\ UNCHANGED <<nvsIndex, nvsRecord, damaged, faults, damages, dirtyIndex>>
          /\ op' = "create" /\ subject' = {d}
      BY <1>2 DEF Create, SaveAll, Enter, flash, env
    <2> QED
      BY <1>1, <2>1, PutWhole
  <1>3. ASSUME NEW d \in Device, NEW rec \in Record, NEW layout \in Layout,
               UpdateConfigAndDeps(d, rec, layout)
        PROVE  WholeInv'
    <2>1. /\ runtimes' = Put(runtimes, d, rec) /\ Valid(runtimes') /\ d \in Live
          /\ UNCHANGED <<nvsIndex, nvsRecord, damaged, faults, damages, dirtyIndex>>
          /\ op' = op \/ op' = "update"
      BY <1>3 DEF UpdateConfigAndDeps, Relinks, SaveAll, Enter, flash, env, ctl
    <2> QED
      BY <1>1, <2>1, PutWhole
  <1>4. ASSUME NEW d \in Device, NEW deps \in SUBSET Device, SetDeps(d, deps) PROVE WholeInv'
    <2> DEFINE rec == [runtimes[d] EXCEPT !.deps = deps]
    <2>1. /\ runtimes' = Put(runtimes, d, rec) /\ Valid(runtimes') /\ d \in Live
          /\ UNCHANGED <<nvsIndex, nvsRecord, damaged, faults, damages, dirtyIndex>>
          /\ op' = "update"
      BY <1>4 DEF SetDeps, SaveAll, Enter, flash, env
    <2>2. rec \in Record
      BY <2>1, Registries, RegistryForm DEF Live, Record
    <2> HIDE DEF rec
    <2> QED
      BY <1>1, <2>1, <2>2, PutWhole
  <1>5. ASSUME NEW d \in Device, RemoveImmediate(d) \/ RemoveDelayed(d) PROVE WholeInv'
    BY <1>5, RemoveWhole
  <1>6. ASSUME NEW d \in Device, CaptureRetained(d) PROVE WholeInv'
    BY <1>6, WholeAlone DEF CaptureRetained, flash, ctl, env, Whole, Sound
  <1>7. ASSUME NEW d \in Device, NEW layout \in Layout, ApplyPersistedStateUpdate(d, layout)
        PROVE  WholeInv'
    BY <1>7, WholeAlone DEF ApplyPersistedStateUpdate, flash, ctl, env, Whole, Sound
  <1>8. Restoring => WholeInv'
    BY DEF WholeInv, Whole, Sound
  <1> QED
    BY <1>2, <1>3, <1>4, <1>5, <1>6, <1>7, <1>8 DEF Request

(* A record that is written never points out of the index: the new links of  *)
(* a device that is indexed lead to devices that are.                        *)
LEMMA WriteRecordWhole ==
  ASSUME IInv, IInv', RecordInv, GraphInv, WholeInv, WriteRecord
  PROVE  WholeInv'
  <1>1. PICK d \in todo :
          /\ nvsRecord' = Put(nvsRecord, d, snapshot[d])
          /\ damaged' = damaged \ {d}
          /\ pc = "records"
          /\ UNCHANGED <<nvsIndex, pc, op, subject, snapshot, runtimes, env, dirtyIndex>>
    BY DEF WriteRecord, PutRecord, ram
  <1> SUFFICES ASSUME Whole' PROVE WholeInv'
    BY DEF WholeInv
  <1>2. /\ Whole /\ damaged = {} /\ damaged' = {} /\ op \notin {"clean", "recover"}
        /\ Closed(runtimes) /\ Closed(Readable) /\ IndexExact
    BY <1>1 DEF Whole, Sound, env, WholeInv
  <1>3. snapshot = runtimes /\ d \in Live /\ d \in Device
    <2>1. op \in {"create", "update", "remove", "flush"}
      BY <1>1, <1>2 DEF IInv, TypeOK, Operations, RecordInv, CallsKnown, Writing, Whole, Sound
    <2> QED
      BY <1>1, <2>1 DEF IInv, TypeOK, CallInv, ProgressInv, Live
  <1>4. nvsRecord'[d] = runtimes[d] /\ \A x \in DOMAIN nvsRecord \ {d} : nvsRecord'[x] = nvsRecord[x]
    <2>1. nvsRecord \in Registry /\ runtimes[d] \in Record
      BY <1>3, Registries, RegistryForm DEF Live
    <2>2. \A x \in DOMAIN nvsRecord \ {d} : Put(nvsRecord, d, runtimes[d])[x] = nvsRecord[x]
      BY <2>1, PutAt
    <2>3. Put(nvsRecord, d, runtimes[d])[d] = runtimes[d]
      BY <1>3, <2>1, PutType
    <2> QED
      BY <1>1, <1>3, <2>2, <2>3
  <1>5. /\ DOMAIN Readable = nvsIndex /\ DOMAIN Readable' = nvsIndex
        /\ \A x \in nvsIndex : Readable[x] = nvsRecord[x] /\ Readable'[x] = nvsRecord'[x]
    BY <1>1, <1>2, ReadableIs, ReadableNext
  <1>6. \A x \in nvsIndex \ {d} : Readable'[x].deps \subseteq nvsIndex
    BY <1>2, <1>4, <1>5 DEF Closed, IInv, IndexedRecordsPresent
  <1>7. d \in nvsIndex => Readable'[d].deps \subseteq nvsIndex
    <2>1. runtimes[d].deps \subseteq Live
      BY <1>2, <1>3 DEF Closed, Live
    <2>2. Live \ Fresh \subseteq nvsIndex
      BY <1>2 DEF RecordInv, LiveIndexed, Whole, Sound
    <2>3. Fresh \subseteq {d} \/ d \notin Changing
      BY <1>1 DEF GraphInv, Fresh, Changing
    <2>4. CASE Fresh \subseteq {d}
      BY <1>4, <1>5, <2>1, <2>2, <2>4
    <2>5. CASE d \notin Changing
      <3>1. nvsRecord[d].deps = runtimes[d].deps
        BY <1>2, <1>3, <2>5 DEF GraphInv, LinksDurable, Whole
      <3> QED
        BY <1>2, <1>4, <1>5, <3>1 DEF Closed
    <2> QED
      BY <2>3, <2>4, <2>5
  <1>8. Closed(Readable')
    BY <1>5, <1>6, <1>7 DEF Closed
  <1>9. Closed(runtimes') /\ IndexExact'
    BY <1>1, <1>2 DEF IndexExact, Fresh, Leaving, Live
  <1> QED
    BY <1>1, <1>2, <1>8, <1>9 DEF WholeInv

LEMMA WriteIndexWhole ==
  ASSUME IInv, IInv', RecordInv, GraphInv, WholeInv, WriteIndex
  PROVE  WholeInv'
  <1>1. /\ pc = "records" /\ pc' = "version" /\ todo = {} /\ WritesIndex
        /\ nvsIndex' = DOMAIN snapshot
        /\ UNCHANGED <<nvsRecord, damaged, op, subject, snapshot, runtimes, dirtyIndex, env>>
    BY DEF WriteIndex, PutIndex, ram
  <1> SUFFICES ASSUME Whole' PROVE WholeInv'
    BY DEF WholeInv
  <1>2. Whole /\ damaged = {} /\ op \notin {"clean", "recover"} /\ Closed(runtimes)
    BY <1>1 DEF Whole, Sound, env, WholeInv
  <1>3. snapshot = runtimes
    BY <1>1, <1>2 DEF IInv, TypeOK, Operations, CallInv, RecordInv, CallsKnown, Writing, Whole, Sound
  <1>4. \A x \in Live : nvsRecord[x] = runtimes[x]
    BY <1>1, <1>3 DEF RecordInv, SnapshotHeld, Writing, Unwritten, Held, Whole, Sound, Live
  <1>5. DOMAIN Readable' = DOMAIN runtimes /\ \A x \in DOMAIN Readable' : Readable'[x].deps = runtimes[x].deps
    BY <1>1, <1>2, <1>3, <1>4, ReadableNext DEF Live
  <1>6. Closed(Readable')
    BY <1>2, <1>5, SameLinksClosed
  <1>7. IndexExact'
    BY <1>1 DEF IndexExact, WritesIndex
  <1> QED
    BY <1>1, <1>2, <1>6, <1>7 DEF WholeInv

(* A call returns: the index names the devices that are live.                *)
LEMMA ReturnWhole ==
  ASSUME IInv, IInv', WholeInv, NEW ids, RemoveRecords(ids), ids \cap Live = {},
         UNCHANGED <<nvsIndex, runtimes, env>>, op' = "none", Whole => nvsIndex = Live
  PROVE  WholeInv'
  <1>1. /\ DOMAIN nvsRecord' = DOMAIN nvsRecord \ ids /\ damaged' = damaged \ ids
        /\ \A d \in DOMAIN nvsRecord' : nvsRecord'[d] = nvsRecord[d]
    BY DeletedRecords
  <1> SUFFICES ASSUME Whole' PROVE WholeInv'
    BY DEF WholeInv
  <1>2. Whole /\ damaged = {} /\ damaged' = {} /\ Closed(runtimes) /\ Closed(Readable)
    BY <1>1 DEF Whole, Sound, env, WholeInv
  <1>3. DOMAIN Readable' = nvsIndex /\ DOMAIN Readable = nvsIndex /\ nvsIndex \subseteq DOMAIN nvsRecord'
    BY <1>2, ReadableIs, ReadableNext DEF IInv, IndexedRecordsPresent
  <1>4. \A x \in DOMAIN Readable' : Readable'[x].deps = Readable[x].deps
    BY <1>1, <1>3, ReadableIs, ReadableNext
  <1>5. Closed(Readable')
    BY <1>2, <1>3, <1>4, SameLinksClosed
  <1>6. IndexExact'
    BY <1>2 DEF IndexExact, Fresh, Leaving, Live
  <1> QED
    BY <1>2, <1>5, <1>6 DEF WholeInv

LEMMA FinishWhole ==
  ASSUME IInv, IInv', RecordInv, WholeInv, Finish
  PROVE  WholeInv'
  <1>1. CASE FinishImmediate
    <2>1. /\ pc = "cleanup" /\ op \in {"create", "update"} /\ op' = "none"
          /\ UNCHANGED <<runtimes, nvsIndex, nvsRecord, damaged, env>>
      BY <1>1 DEF FinishImmediate, Committed, Return, flash
    <2>2. nvsIndex = Live
      BY <2>1 DEF IInv, CallInv, ProgressInv, WritesIndex, Live
    <2>3. Readable' = Readable /\ (Whole' => Whole)
      BY <2>1 DEF Readable, Whole, Sound, env
    <2> QED
      BY <2>1, <2>2, <2>3 DEF WholeInv, IndexExact, Fresh, Leaving, Live
  <1>2. CASE FinishRemove \/ FinishFlush \/ FinishRecover
    <2>1. /\ RemoveRecords(subject) /\ UNCHANGED <<nvsIndex, runtimes, env>>
          /\ pc = "cleanup" /\ op' = "none" /\ op \in {"remove", "flush", "recover"}
      BY <1>2 DEF FinishRemove, FinishFlush, FinishRecover, Committed, Return, ram
    <2>2. subject \cap Live = {} /\ snapshot = runtimes
      BY <2>1 DEF IInv, CallInv
    <2>3. Whole => nvsIndex = Live
      <3>1. CASE op = "flush" /\ ~dirtyIndex
        BY <3>1 DEF WholeInv, IndexExact, Fresh, Leaving
      <3>2. CASE WritesIndex
        BY <2>1, <2>2, <3>2 DEF IInv, ProgressInv, Live
      <3> QED
        BY <3>1, <3>2 DEF WritesIndex
    <2> QED
      BY <2>1, <2>2, <2>3, ReturnWhole
  <1>3. CASE FinishClean
    BY <1>3 DEF FinishClean, Committed, Recover, Enter, WholeInv, Whole, Sound, env
  <1>4. CASE FinishRestore
    BY <1>4 DEF FinishRestore, Committed, RecordInv, CallsKnown, WholeInv, Whole, Sound
  <1> QED
    BY <1>1, <1>2, <1>3, <1>4 DEF Finish

LEMMA StepWhole ==
  ASSUME IInv, IInv', RecordInv, GraphInv, GraphInv', WholeInv, [Next]_vars
  PROVE  WholeInv'
  <1>1. CASE Flush
    <2>1. /\ pc = "idle" /\ op = "none" /\ op' = "flush"
          /\ UNCHANGED <<runtimes, nvsIndex, nvsRecord, damaged, dirtyIndex, env>>
      BY <1>1 DEF Flush, Enter, ram, flash, IInv, RestInv
    <2>2. Readable' = Readable /\ (Whole' => Whole)
      BY <2>1 DEF Readable, Whole, Sound, env
    <2> QED
      BY <2>1, <2>2 DEF WholeInv, IndexExact, Fresh, Leaving, Live
  <1>2. CASE WriteVersion \/ SkipIndex \/ SaveRetainedState \/ SavePersistedState
    <2>1. /\ UNCHANGED <<runtimes, nvsIndex, nvsRecord, damaged, op, subject, dirtyIndex, env>>
          /\ pc' \in {"retained", "layouts", "cleanup"}
      BY <1>2 DEF WriteVersion, PutVersion, SkipIndex, ScopedSaves, SaveRetainedState,
           PutRetained, SavePersistedState, PutLayout, ram, flash
    <2> QED
      BY <2>1, WholeAlone DEF Whole, Sound, env
  <1>3. CASE WriteFails
    BY <1>3 DEF WriteFails, IInv, TypeOK, WholeInv, Whole, Sound
  <1>4. CASE PowerLoss
    <2>1. /\ runtimes' = EmptyRegistry /\ op' = "none" /\ pc' = "off"
          /\ UNCHANGED <<nvsIndex, nvsRecord, damaged, faults, damages>>
      BY <1>4 DEF PowerLoss, RamOff, flash
    <2>2. Readable' = Readable /\ (Whole' => Whole)
      BY <2>1 DEF Readable, Whole, Sound
    <2> QED
      BY <2>1, <2>2, EmptyValid DEF WholeInv, IndexExact, Valid
  <1>5. ASSUME NEW d \in Device, Damage(d) PROVE WholeInv'
    BY <1>5 DEF Damage, IInv, TypeOK, WholeInv, Whole
  <1>6. CASE UNCHANGED vars
    BY <1>6, WholeAlone DEF vars, ram, ctl, flash, env, Whole, Sound
  <1> QED
    BY <1>1, <1>2, <1>3, <1>4, <1>5, <1>6, BeginWhole, RequestWhole, WriteRecordWhole,
       WriteIndexWhole, FinishWhole DEF Next, CallStep, Environment

LEMMA WholeAlways == Spec => []WholeInv
  <1>1. Init => WholeInv
    <2> SUFFICES ASSUME Init PROVE WholeInv
      OBVIOUS
    <2>1. DOMAIN Readable = {}
      BY EmptyRegistryType DEF Init, StoreInit, Readable, Restrict
    <2> QED
      BY <2>1, EmptyRegistryType
         DEF Init, StoreInit, WholeInv, IndexExact, Closed
  <1>2. IInv /\ IInv' /\ RecordInv /\ GraphInv /\ GraphInv' /\ WholeInv /\ [Next]_vars => WholeInv'
    BY StepWhole
  <1> QED
    BY <1>1, <1>2, Inductive, RecordsAlways, GraphAlways, PTL DEF Spec

------------------------------------------------------------------------------
(* Between any two writes of any call of any number of devices, and however  *)
(* often the power goes, flash holds a closed and acyclic registry: the next *)
(* boot takes it whole.                                                      *)
THEOREM FlashIsRecoverable ==
  ASSUME ~Restoring PROVE Spec => []StoredRegistryRecoverable
  <1>1. GraphInv /\ WholeInv => StoredRegistryRecoverable
    BY EmptyValid DEF GraphInv, WholeInv, StoredRegistryRecoverable, Stored, Whole, Sound, Valid
  <1> QED
    BY <1>1, GraphAlways, WholeAlways, PTL

(* A boot keeps every device whose record it can read, those included whose  *)
(* dependencies it cannot.                                                   *)
THEOREM BootKeepsDevices ==
  ASSUME ~Restoring PROVE Spec => BootKeepsReadable
  <1> DEFINE Kept == pc = "off" /\ pc' # "off" /\ nvsVersion /\ faults = 0 => Live' = nvsIndex \ damaged
  <1>1. IInv /\ GraphInv /\ [Next]_vars => [Kept]_vars
    <2> SUFFICES ASSUME IInv, GraphInv, Next, pc = "off", pc' # "off", nvsVersion, faults = 0
                 PROVE  Live' = nvsIndex \ damaged
      OBVIOUS
    <2>1. BeginLoad
      BY DEF Next, Begin, BeginEmpty, Request, Create, UpdateConfigAndDeps, SetDeps, RemoveImmediate,
             RemoveDelayed, Remove, CaptureRetained, ApplyPersistedStateUpdate, Restore, RestoreRejected,
             Flush, CallStep, WriteRecord, WriteIndex, WriteVersion, SkipIndex, SaveRetainedState,
             SavePersistedState, Finish, FinishImmediate, FinishRemove, FinishRestore, FinishFlush,
             FinishClean, FinishRecover, Committed, Environment, WriteFails, HasWrite, PowerLoss,
             Damage, ctl
    <2>2. runtimes' = Survivors(Readable)
      BY <2>1 DEF BeginLoad
    <2>3. Survivors(Readable) = Readable
      BY ReadableIs, SurvivorsOfAcyclic DEF GraphInv, Sound
    <2> QED
      BY <2>2, <2>3, ReadableIs DEF Live
  <1> QED
    BY <1>1, Inductive, GraphAlways, PTL DEF Spec, BootKeepsReadable

(* When nothing is pending, a restart loses nothing: flash holds the record  *)
(* and the retained output of every device, and no other device.             *)
THEOREM CleanMeansDurable ==
  ASSUME ~Restoring PROVE Spec => []CleanIsDurable
  <1>1. IInv /\ RecordInv /\ RetainedInv /\ WholeInv => CleanIsDurable
    <2> SUFFICES ASSUME IInv, RecordInv, RetainedInv, WholeInv, pc = "idle", ~Dirty, faults = 0
                 PROVE  /\ \A d \in Live : d \in DOMAIN Stored /\ Stored[d] = runtimes[d]
                        /\ damages = 0 => DOMAIN Stored = Live
                        /\ \A d \in Live \cap Retaining : nvsRetained[d] = retained[d]
      BY DEF CleanIsDurable
    <2>1. op = "none" /\ ~dirtyIndex /\ dirtyConfig = {} /\ dirtyRetained = {}
      BY DEF IInv, RestInv, Dirty
    <2>2. \A d \in Live : d \in nvsIndex \ damaged /\ nvsRecord[d] = runtimes[d] /\ nvsVersion
      BY <2>1 DEF RecordInv, LiveHeld, LiveIndexed, Fresh, Held
    <2>3. \A d \in Live : d \in DOMAIN Stored /\ Stored[d] = runtimes[d]
      BY <2>2, ReadableIs DEF Stored
    <2>4. ASSUME damages = 0 PROVE DOMAIN Stored = Live
      <3>1. nvsIndex = Live /\ damaged = {}
        BY <2>1, <2>4 DEF WholeInv, Whole, Sound, IndexExact, Fresh, Leaving
      <3> QED
        BY <2>2, <3>1, ReadableIs, EmptyRegistryType DEF Stored
    <2>5. \A d \in Live \cap Retaining : nvsRetained[d] = retained[d]
      BY <2>1 DEF RetainedInv, RetainedKept
    <2> QED
      BY <2>3, <2>4, <2>5
  <1> QED
    BY <1>1, Inductive, RecordsAlways, RetainedAlways, WholeAlways, PTL

(* Which devices exist and what they depend on never waits for the debounce. *)
THEOREM StructureIsDurable ==
  ASSUME ~Restoring PROVE Spec => []StructureDurable
  <1>1. IInv /\ RecordInv /\ GraphInv /\ WholeInv => StructureDurable
    <2> SUFFICES ASSUME IInv, RecordInv, GraphInv, WholeInv,
                        pc = "idle", ~dirtyIndex, faults = 0, damages = 0
                 PROVE  /\ DOMAIN Stored = Live
                        /\ \A d \in Live : Stored[d].deps = runtimes[d].deps
      BY DEF StructureDurable
    <2>1. op = "none"
      BY DEF IInv, RestInv
    <2>2. nvsIndex = Live /\ damaged = {}
      BY <2>1 DEF WholeInv, Whole, Sound, IndexExact, Fresh, Leaving
    <2>3. Live # {} => nvsVersion
      BY <2>1 DEF RecordInv, LiveIndexed, Fresh
    <2>4. \A d \in Live : nvsRecord[d].deps = runtimes[d].deps
      BY DEF GraphInv, Sound, LinksDurable, Changing
    <2> QED
      BY <2>2, <2>3, <2>4, ReadableIs, EmptyRegistryType DEF Stored
  <1> QED
    BY <1>1, Inductive, RecordsAlways, GraphAlways, WholeAlways, PTL

------------------------------------------------------------------------------
(* What a boot would find changes like the single variable of AtomicRegistry. *)

LEMMA SameRegistry ==
  ASSUME NEW A \in Registry, NEW B \in Registry,
         DOMAIN A = DOMAIN B, \A x \in DOMAIN A : A[x] = B[x]
  PROVE  A = B
  BY RegistryForm

LEMMA AtomicOperators ==
  /\ Atomic!Record = Record
  /\ Atomic!EmptyRegistry = EmptyRegistry
  /\ \A reg : Atomic!Valid(reg) <=> Valid(reg)
  /\ \A reg, d, rec : Atomic!Put(reg, d, rec) = Put(reg, d, rec)
  /\ \A reg, d : Atomic!Drop(reg, {d}) = Drop(reg, {d})
  <1>1. Atomic!Record = Record
    BY DEF Atomic!Record, Record
  <1>2. Atomic!EmptyRegistry = EmptyRegistry
    BY DEF Atomic!EmptyRegistry, EmptyRegistry, Atomic!Record, Record
  <1>3. ASSUME NEW reg PROVE Atomic!Valid(reg) <=> Valid(reg)
    BY DEF Atomic!Valid, Valid, Atomic!Closed, Closed, Atomic!OnCycle, OnCycle, Atomic!Reaches, Reaches
  <1>4. ASSUME NEW reg, NEW d, NEW rec PROVE Atomic!Put(reg, d, rec) = Put(reg, d, rec)
    BY DEF Atomic!Put, Put
  <1>5. ASSUME NEW reg, NEW d PROVE Atomic!Drop(reg, {d}) = Drop(reg, {d})
    BY DEF Atomic!Drop, Drop, Atomic!Restrict, Restrict
  <1> QED
    BY <1>1, <1>2, <1>3, <1>4, <1>5

(* Three ways for flash to change: as AtomicRegistry says.                   *)
LEMMA AtomicPut ==
  ASSUME NEW d \in Device, NEW rec \in Record, Stored' = Put(Stored, d, rec), Valid(Stored')
  PROVE  Atomic!Next
  <1>1. Atomic!Add(d, rec) \/ Atomic!Replace(d, rec)
    BY AtomicOperators DEF Atomic!Add, Atomic!Replace, Atomic!Change
  <1> QED
    BY <1>1, AtomicOperators DEF Atomic!Next

LEMMA AtomicDelete ==
  ASSUME NEW d \in Device, d \in DOMAIN Stored, Stored' = Drop(Stored, {d}), Valid(Stored')
  PROVE  Atomic!Next
  <1>1. Atomic!Delete(d)
    BY AtomicOperators DEF Atomic!Delete, Atomic!Change
  <1> QED
    BY <1>1 DEF Atomic!Next

(* The caller the refinement is about: no delete waits for the debounce, no  *)
(* backup is imported, no write fails, no record is damaged.                 *)
Quiet == ~Restoring /\ ~DelayedRemove /\ MaxFaults = 0 /\ MaxDamage = 0

StoredInv ==
  /\ IInv
  /\ RecordInv
  /\ GraphInv
  /\ WholeInv
  /\ ~dirtyIndex

(* Flash, read with its index, in such a state.                              *)
LEMMA QuietReadable ==
  ASSUME Quiet, StoredInv
  PROVE  /\ Whole
         /\ op \notin {"clean", "recover", "restore"}
         /\ DOMAIN Readable = nvsIndex
         /\ Readable \in Registry
         /\ \A x \in nvsIndex : Readable[x] = nvsRecord[x]
         /\ Valid(Stored)
  <1>1. Whole
    BY DEF Quiet, StoredInv, IInv, TypeOK, Whole, Sound
  <1>2. damaged = {} /\ op \notin {"clean", "recover", "restore"}
    BY <1>1 DEF Quiet, StoredInv, WholeInv, RecordInv, CallsKnown
  <1>3. Valid(Stored)
    BY <1>1, EmptyValid DEF StoredInv, GraphInv, WholeInv, Whole, Stored, Valid
  <1> QED
    BY <1>1, <1>2, <1>3, ReadableIs DEF StoredInv

LEMMA QuietReadableNext ==
  ASSUME Quiet, StoredInv'
  PROVE  /\ DOMAIN Readable' = nvsIndex'
         /\ Readable' \in Registry
         /\ \A x \in nvsIndex' : Readable'[x] = nvsRecord'[x]
         /\ Valid(Stored')
  <1>1. Whole'
    BY DEF Quiet, StoredInv, IInv, TypeOK, Whole, Sound
  <1>2. damaged' = {}
    BY <1>1 DEF StoredInv, WholeInv
  <1>3. Valid(Stored')
    BY <1>1, EmptyValid DEF StoredInv, GraphInv, WholeInv, Whole, Stored, Valid
  <1> QED
    BY <1>1, <1>2, <1>3, ReadableNext DEF StoredInv

(* What is not indexed is not seen. *)
LEMMA UnseenRecords ==
  ASSUME Quiet, StoredInv, StoredInv', UNCHANGED <<nvsVersion, nvsIndex>>,
         nvsVersion => \A x \in nvsIndex : nvsRecord'[x] = nvsRecord[x]
  PROVE  Stored' = Stored
  <1>1. nvsVersion => Readable' = Readable
    BY QuietReadable, QuietReadableNext, SameRegistry
  <1> QED
    BY <1>1 DEF Stored

LEMMA WriteRecordStored ==
  ASSUME Quiet, StoredInv, StoredInv', WriteRecord
  PROVE  Atomic!Next \/ Stored' = Stored
  <1>1. PICK d \in todo :
          /\ nvsRecord' = Put(nvsRecord, d, snapshot[d])
          /\ pc = "records"
          /\ UNCHANGED <<nvsVersion, nvsIndex>>
    BY DEF WriteRecord, PutRecord
  <1>2. d \in DOMAIN snapshot /\ snapshot \in Registry /\ nvsRecord \in Registry
    BY <1>1, Registries DEF StoredInv, IInv, ProgressInv
  <1>3. d \in Device /\ snapshot[d] \in Record
    BY <1>2, RegistryForm
  <1>4. nvsRecord'[d] = snapshot[d] /\ \A x \in DOMAIN nvsRecord \ {d} : nvsRecord'[x] = nvsRecord[x]
    <2>1. Put(nvsRecord, d, snapshot[d])[d] = snapshot[d]
      BY <1>2, <1>3, PutType
    <2>2. \A x \in DOMAIN nvsRecord \ {d} : Put(nvsRecord, d, snapshot[d])[x] = nvsRecord[x]
      BY <1>2, PutAt
    <2> QED
      BY <1>1, <2>1, <2>2
  <1>5. nvsIndex \subseteq DOMAIN nvsRecord
    BY DEF StoredInv, IInv, IndexedRecordsPresent
  <1>6. CASE d \notin nvsIndex \/ ~nvsVersion
    BY <1>1, <1>4, <1>5, <1>6, UnseenRecords
  <1>7. CASE d \in nvsIndex /\ nvsVersion
    <2>1. Stored = Readable /\ Stored' = Readable'
      BY <1>1, <1>7 DEF Stored
    <2>2. /\ Put(Readable, d, snapshot[d]) \in Registry
          /\ DOMAIN Put(Readable, d, snapshot[d]) = nvsIndex
          /\ Put(Readable, d, snapshot[d])[d] = snapshot[d]
      <3>1. /\ Put(Readable, d, snapshot[d]) \in Registry
            /\ DOMAIN Put(Readable, d, snapshot[d]) = DOMAIN Readable \cup {d}
            /\ Put(Readable, d, snapshot[d])[d] = snapshot[d]
        BY <1>3, QuietReadable, PutType
      <3> QED
        BY <1>7, <3>1, QuietReadable
    <2>3. \A x \in nvsIndex \ {d} : Put(Readable, d, snapshot[d])[x] = Readable[x]
      BY QuietReadable, PutAt
    <2>4. DOMAIN Readable' = nvsIndex /\ Readable' \in Registry
      BY <1>1, QuietReadableNext
    <2>5. \A x \in nvsIndex : Readable'[x] = Put(Readable, d, snapshot[d])[x]
      BY <1>1, <1>4, <1>5, <2>2, <2>3, QuietReadable, QuietReadableNext
    <2>6. Readable' = Put(Readable, d, snapshot[d])
      BY <2>2, <2>4, <2>5, SameRegistry
    <2> QED
      BY <1>3, <2>1, <2>6, QuietReadableNext, AtomicPut
  <1> QED
    BY <1>6, <1>7

(* The one key that makes a device appear or disappear. *)
LEMMA WriteIndexStored ==
  ASSUME Quiet, StoredInv, StoredInv', WriteIndex
  PROVE  Atomic!Next \/ Stored' = Stored
  <1>1. /\ pc = "records" /\ WritesIndex /\ nvsIndex' = DOMAIN snapshot
        /\ UNCHANGED <<nvsVersion, nvsRecord>>
    BY DEF WriteIndex, PutIndex
  <1>2. op \in {"create", "update", "remove"}
    BY <1>1, QuietReadable
       DEF StoredInv, IInv, TypeOK, Operations, RecordInv, CallsKnown, Writing, WritesIndex
  <1>3. PICK d \in Device : subject = {d}
    BY <1>2 DEF StoredInv, GraphInv
  <1>4. nvsIndex' = Live /\ nvsIndex = (Live \ Fresh) \cup Leaving
    BY <1>1, <1>2, QuietReadable DEF StoredInv, IInv, CallInv, WholeInv, IndexExact, Live
  <1>5. CASE ~nvsVersion
    BY <1>1, <1>5 DEF Stored
  <1>6. CASE nvsVersion
    <2>1. Stored = Readable /\ Stored' = Readable'
      BY <1>1, <1>6 DEF Stored
    <2>2. CASE nvsIndex' = nvsIndex
      BY <1>1, <2>2, UnseenRecords
    <2>3. CASE op = "create" /\ nvsIndex' # nvsIndex
      <3>1. nvsIndex' = nvsIndex \cup {d} /\ d \notin nvsIndex
        BY <1>3, <1>4, <2>3 DEF Fresh, Leaving
      <3> DEFINE rec == Readable'[d]
      <3>2. rec \in Record
        BY <3>1, QuietReadableNext, RegistryForm
      <3> HIDE DEF rec
      <3>3. /\ Put(Readable, d, rec) \in Registry
            /\ DOMAIN Put(Readable, d, rec) = nvsIndex'
            /\ Put(Readable, d, rec)[d] = rec
        BY <3>1, <3>2, QuietReadable, PutType
      <3>4. \A x \in nvsIndex \ {d} : Put(Readable, d, rec)[x] = Readable[x]
        BY QuietReadable, PutAt
      <3>5. \A x \in nvsIndex' : Readable'[x] = Put(Readable, d, rec)[x]
        BY <1>1, <3>1, <3>3, <3>4, QuietReadable, QuietReadableNext DEF rec
      <3>6. Readable' = Put(Readable, d, rec)
        BY <3>3, <3>5, QuietReadableNext, SameRegistry
      <3> QED
        BY <2>1, <3>2, <3>6, QuietReadableNext, AtomicPut
    <2>4. CASE op = "remove"
      <3>1. nvsIndex' = nvsIndex \ {d} /\ d \in nvsIndex
        BY <1>3, <1>4, <2>4 DEF Fresh, Leaving, StoredInv, IInv, CallInv
      <3>2. Drop(Readable, {d}) \in Registry /\ DOMAIN Drop(Readable, {d}) = nvsIndex'
        BY <3>1, QuietReadable, DropType
      <3>3. \A x \in nvsIndex \ {d} : Drop(Readable, {d})[x] = Readable[x]
        BY QuietReadable, DropAt
      <3>4. \A x \in nvsIndex' : Readable'[x] = Drop(Readable, {d})[x]
        BY <1>1, <3>1, <3>3, QuietReadable, QuietReadableNext
      <3>5. Readable' = Drop(Readable, {d})
        BY <3>2, <3>4, QuietReadableNext, SameRegistry
      <3> QED
        BY <2>1, <3>1, <3>5, QuietReadable, QuietReadableNext, AtomicDelete
    <2>5. op = "update" => nvsIndex' = nvsIndex
      BY <1>4 DEF Fresh, Leaving
    <2> QED
      BY <1>2, <2>2, <2>3, <2>4, <2>5
  <1> QED
    BY <1>5, <1>6

(* The version is what makes the first device of all appear.                 *)
LEMMA WriteVersionStored ==
  ASSUME Quiet, StoredInv, StoredInv', WriteVersion
  PROVE  Atomic!Next \/ Stored' = Stored
  <1>1. pc = "version" /\ nvsVersion' = TRUE /\ UNCHANGED <<nvsIndex, nvsRecord, damaged>>
    BY DEF WriteVersion, PutVersion
  <1>2. Stored' = Readable
    BY <1>1 DEF Stored, Readable
  <1>3. CASE nvsVersion
    BY <1>2, <1>3 DEF Stored
  <1>4. CASE ~nvsVersion
    <2>1. Live \ Fresh = {}
      BY <1>4, QuietReadable DEF StoredInv, RecordInv, LiveIndexed, Quiet
    <2>2. nvsIndex = Live
      <3>1. CASE op = "flush"
        BY <3>1, QuietReadable DEF StoredInv, WholeInv, IndexExact, Fresh, Leaving
      <3>2. CASE op # "flush"
        <4>1. op \in {"create", "update", "remove"}
          BY <1>1, <3>2, QuietReadable
             DEF StoredInv, IInv, TypeOK, Operations, RecordInv, CallsKnown, Writing
        <4> QED
          BY <1>1, <4>1 DEF StoredInv, IInv, CallInv, ProgressInv, WritesIndex, Live
      <3> QED
        BY <3>1, <3>2
    <2>3. Stored = EmptyRegistry
      BY <1>4 DEF Stored
    <2>4. CASE nvsIndex = {}
      <3>1. Readable = EmptyRegistry
        BY <2>4, QuietReadable, EmptyRegistryType, SameRegistry
      <3> QED
        BY <1>2, <2>3, <3>1
    <2>5. CASE nvsIndex # {}
      <3>1. op = "create"
        BY <2>1, <2>2, <2>5 DEF Fresh
      <3>2. PICK d \in Device : subject = {d}
        BY <3>1 DEF StoredInv, GraphInv
      <3>3. nvsIndex = {d}
        BY <2>1, <2>2, <2>5, <3>1, <3>2 DEF Fresh
      <3> DEFINE rec == Readable[d]
      <3>4. rec \in Record
        BY <3>3, QuietReadable, RegistryForm
      <3> HIDE DEF rec
      <3>5. /\ Put(EmptyRegistry, d, rec) \in Registry
            /\ DOMAIN Put(EmptyRegistry, d, rec) = {d}
            /\ Put(EmptyRegistry, d, rec)[d] = rec
        <4>1. /\ Put(EmptyRegistry, d, rec) \in Registry
              /\ DOMAIN Put(EmptyRegistry, d, rec) = DOMAIN EmptyRegistry \cup {d}
              /\ Put(EmptyRegistry, d, rec)[d] = rec
          BY <3>4, PutType, EmptyRegistryType
        <4> QED
          BY <4>1, EmptyRegistryType
      <3>6. Readable = Put(EmptyRegistry, d, rec)
        BY <3>3, <3>5, QuietReadable, SameRegistry DEF rec
      <3> QED
        BY <1>2, <2>3, <3>4, <3>6, QuietReadableNext, AtomicPut
    <2> QED
      BY <2>4, <2>5
  <1> QED
    BY <1>3, <1>4

(* Every other step leaves what a boot would find alone.                     *)
LEMMA StepStored ==
  ASSUME Quiet, StoredInv, StoredInv', [Next]_vars
  PROVE  [Atomic!Next]_Stored
  <1>1. CASE BeginEmpty
    BY <1>1 DEF BeginEmpty, ResetStorage, Stored
  <1>2. CASE UNCHANGED <<nvsVersion, nvsIndex, nvsRecord, damaged>>
    BY <1>2 DEF Stored, Readable
  <1>3. CASE FinishRemove \/ FinishFlush
    <2>1. RemoveRecords(subject) /\ UNCHANGED <<nvsVersion, nvsIndex>>
      BY <1>3 DEF FinishRemove, FinishFlush
    <2>2. /\ DOMAIN nvsRecord' = DOMAIN nvsRecord \ subject
          /\ \A d \in DOMAIN nvsRecord' : nvsRecord'[d] = nvsRecord[d]
      BY <2>1, DeletedRecords DEF StoredInv
    <2>3. nvsIndex \subseteq DOMAIN nvsRecord'
      BY <2>1 DEF StoredInv, IInv, IndexedRecordsPresent
    <2> QED
      BY <2>1, <2>2, <2>3, UnseenRecords
  <1>4. ~FinishClean /\ ~FinishRecover
    BY QuietReadable DEF FinishClean, FinishRecover, Committed
  <1>5. ~(\E d \in Device : Damage(d))
    BY DEF Damage, Quiet, StoredInv, IInv, TypeOK
  <1>6. CASE WriteRecord \/ WriteIndex \/ WriteVersion
    BY <1>6, WriteRecordStored, WriteIndexStored, WriteVersionStored
  <1>7. CASE BeginLoad \/ Request \/ Flush \/ SkipIndex \/ SaveRetainedState \/ SavePersistedState
             \/ FinishImmediate \/ FinishRestore \/ WriteFails \/ PowerLoss \/ UNCHANGED vars
    BY <1>2, <1>7
       DEF BeginLoad, Request, Create, UpdateConfigAndDeps, SetDeps, RemoveImmediate, RemoveDelayed,
           Remove, CaptureRetained, ApplyPersistedStateUpdate, Restore, RestoreRejected, Flush,
           SkipIndex, SaveRetainedState, PutRetained, SavePersistedState, PutLayout,
           FinishImmediate, FinishRestore, WriteFails, PowerLoss, flash, vars
  <1> QED
    BY <1>1, <1>3, <1>4, <1>5, <1>6, <1>7 DEF Next, Begin, CallStep, Finish, Environment

LEMMA NothingDelayed ==
  ASSUME ~DelayedRemove PROVE Spec => []~dirtyIndex
  <1>1. Init => ~dirtyIndex
    BY DEF Init
  <1>2. ~dirtyIndex /\ [Next]_vars => ~dirtyIndex'
    BY DEF Next, Begin, BeginEmpty, BeginLoad, Request, Create, UpdateConfigAndDeps, SetDeps,
           RemoveImmediate, RemoveDelayed, CaptureRetained, ApplyPersistedStateUpdate, Restore,
           RestoreRejected, Flush, CallStep, WriteRecord, WriteIndex, WriteVersion, SkipIndex,
           SaveRetainedState, SavePersistedState, Finish, FinishImmediate, FinishRemove,
           FinishRestore, FinishFlush, FinishClean, FinishRecover, ForgetConfigDirty, MarkClean,
           Environment, WriteFails, PowerLoss, RamOff, Damage, ram, vars
  <1> QED
    BY <1>1, <1>2, PTL DEF Spec

(* DeviceRegistryStore::save is atomic to the next boot: spread over as many *)
(* keys as there are devices, and cut short by any number of power losses,   *)
(* each call adds, replaces or deletes one device in flash, or does nothing, *)
(* and flash never holds a registry with a cycle or a dangling link.         *)
THEOREM SavesAreAtomic ==
  ASSUME ~Restoring, ~DelayedRemove, MaxFaults = 0, MaxDamage = 0
  PROVE  Spec => StoreIsAtomic
  <1>1. Quiet
    BY DEF Quiet
  <1>2. Init => Atomic!Init
    BY AtomicOperators DEF Init, StoreInit, Stored, Atomic!Init
  <1>3. StoredInv /\ StoredInv' /\ [Next]_vars => [Atomic!Next]_Stored
    BY <1>1, StepStored
  <1>4. Spec => []StoredInv
    BY Inductive, RecordsAlways, GraphAlways, WholeAlways, NothingDelayed, PTL DEF StoredInv
  <1> QED
    BY <1>2, <1>3, <1>4, PTL DEF Spec, StoreIsAtomic, Atomic!Spec
==============================================================================
