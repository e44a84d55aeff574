------------------------- MODULE RegistryGraph_proofs -------------------------
(***************************************************************************)
(* What the operators on registries return, for every set of ids: the      *)
(* lemmas the proofs about DeviceRegistry rest on.                         *)
(***************************************************************************)
EXTENDS RegistryGraph, TLAPS

(* A registry is a function from some ids to records. *)
LEMMA RegistryForm ==
  ASSUME NEW reg \in Registry
  PROVE  /\ DOMAIN reg \in SUBSET Device
         /\ reg = [d \in DOMAIN reg |-> reg[d]]
         /\ \A d \in DOMAIN reg : reg[d] \in Record
  BY DEF Registry

LEMMA RegistryIntro ==
  ASSUME NEW ids \in SUBSET Device, NEW reg \in [ids -> Record]
  PROVE  reg \in Registry
  BY DEF Registry

LEMMA EmptyRegistryType ==
  /\ EmptyRegistry \in Registry
  /\ DOMAIN EmptyRegistry = {}
  <1>1. EmptyRegistry \in [{} -> Record]
    BY DEF EmptyRegistry
  <1>2. DOMAIN EmptyRegistry = {}
    BY DEF EmptyRegistry
  <1> QED
    BY <1>1, <1>2, RegistryIntro

(* Inserting or overwriting a record. *)
LEMMA PutType ==
  ASSUME NEW reg \in Registry, NEW d \in Device, NEW rec \in Record
  PROVE  /\ Put(reg, d, rec) \in Registry
         /\ DOMAIN Put(reg, d, rec) = DOMAIN reg \cup {d}
         /\ Put(reg, d, rec)[d] = rec
  <1>1. Put(reg, d, rec) \in [DOMAIN reg \cup {d} -> Record]
    BY RegistryForm DEF Put
  <1>2. DOMAIN reg \cup {d} \in SUBSET Device
    BY RegistryForm
  <1> QED
    BY <1>1, <1>2, RegistryIntro DEF Put

(* Keeping some of the records. *)
LEMMA RestrictType ==
  ASSUME NEW reg \in Registry, NEW ids \in SUBSET DOMAIN reg
  PROVE  /\ Restrict(reg, ids) \in Registry
         /\ DOMAIN Restrict(reg, ids) = ids
  <1>1. Restrict(reg, ids) \in [ids -> Record]
    BY RegistryForm DEF Restrict
  <1>2. ids \in SUBSET Device
    BY RegistryForm
  <1> QED
    BY <1>1, <1>2, RegistryIntro DEF Restrict

LEMMA DropType ==
  ASSUME NEW reg \in Registry, NEW ids
  PROVE  /\ Drop(reg, ids) \in Registry
         /\ DOMAIN Drop(reg, ids) = DOMAIN reg \ ids
  BY RestrictType, DOMAIN reg \ ids \in SUBSET DOMAIN reg DEF Drop

(* What is in a record that was kept. *)
LEMMA PutAt ==
  ASSUME NEW reg \in Registry, NEW d, NEW rec
  PROVE  \A x \in DOMAIN reg \ {d} : Put(reg, d, rec)[x] = reg[x]
  BY DEF Put

LEMMA DropAt ==
  ASSUME NEW reg \in Registry, NEW ids
  PROVE  \A x \in DOMAIN reg \ ids : Drop(reg, ids)[x] = reg[x]
  BY DEF Drop, Restrict

LEMMA SurvivorsType ==
  ASSUME NEW reg \in Registry
  PROVE  /\ Survivors(reg) \in Registry
         /\ DOMAIN Survivors(reg) \subseteq DOMAIN reg
  BY DropType DEF Survivors

------------------------------------------------------------------------------
(* Cycles *)

(* What no set of dependencies closes over is on no cycle.                   *)
LEMMA OffCycle ==
  ASSUME NEW reg \in Registry, NEW x, NEW S \in SUBSET Device,
         reg[x].deps \subseteq S,
         \A y \in S \cap DOMAIN reg : reg[y].deps \subseteq S,
         x \notin S
  PROVE  x \notin OnCycle(reg)
  BY DEF OnCycle, Reaches

LEMMA AcyclicWitness ==
  ASSUME NEW reg \in Registry, OnCycle(reg) = {}, NEW x \in DOMAIN reg
  PROVE  \E S \in SUBSET Device :
           /\ reg[x].deps \subseteq S
           /\ \A y \in S \cap DOMAIN reg : reg[y].deps \subseteq S
           /\ x \notin S
  BY DEF OnCycle, Reaches

(* Some devices of C have the links they have in A, the rest those they have *)
(* in B, and from the first no link leads to the rest: C has no cycle if     *)
(* neither A nor B has one.                                                  *)
LEMMA MergeAcyclic ==
  ASSUME NEW A \in Registry, NEW B \in Registry, NEW C \in Registry, NEW L,
         OnCycle(A) = {}, OnCycle(B) = {},
         \A x \in DOMAIN C \cap L : /\ x \in DOMAIN A /\ C[x].deps = A[x].deps
                                    /\ C[x].deps \cap DOMAIN C \subseteq L,
         \A x \in DOMAIN C \ L : x \in DOMAIN B /\ C[x].deps = B[x].deps
  PROVE  OnCycle(C) = {}
  <1> SUFFICES ASSUME NEW x \in DOMAIN C PROVE x \notin OnCycle(C)
    BY DEF OnCycle
  <1>1. \A y \in DOMAIN C : C[y].deps \subseteq Device
    BY RegistryForm DEF Record
  <1>2. CASE x \in L
    <2>1. PICK S \in SUBSET Device : /\ A[x].deps \subseteq S
                                     /\ \A y \in S \cap DOMAIN A : A[y].deps \subseteq S
                                     /\ x \notin S
      BY <1>2, AcyclicWitness
    <2> DEFINE T == (S \cap L) \cup (Device \ DOMAIN C)
    <2>2. C[x].deps \subseteq T
      BY <1>1, <1>2, <2>1
    <2>3. \A y \in T \cap DOMAIN C : C[y].deps \subseteq T
      BY <1>1, <2>1
    <2>4. x \notin T
      BY <2>1
    <2> QED
      BY <2>2, <2>3, <2>4, OffCycle
  <1>3. CASE x \notin L
    <2>1. PICK S \in SUBSET Device : /\ B[x].deps \subseteq S
                                     /\ \A y \in S \cap DOMAIN B : B[y].deps \subseteq S
                                     /\ x \notin S
      BY <1>3, AcyclicWitness
    <2> DEFINE T == S \cup (L \cap Device) \cup (Device \ DOMAIN C)
    <2>2. C[x].deps \subseteq T
      BY <1>3, <2>1
    <2>3. \A y \in T \cap DOMAIN C : C[y].deps \subseteq T
      BY <1>1, <2>1
    <2>4. x \notin T
      BY <1>3, <2>1
    <2> QED
      BY <2>2, <2>3, <2>4, OffCycle
  <1> QED
    BY <1>2, <1>3

(* Fewer devices with the same links. *)
LEMMA FewerAcyclic ==
  ASSUME NEW B \in Registry, NEW C \in Registry, OnCycle(B) = {},
         \A x \in DOMAIN C : x \in DOMAIN B /\ C[x].deps = B[x].deps
  PROVE  OnCycle(C) = {}
  BY MergeAcyclic, B \in Registry, \A x \in DOMAIN C \cap {} : FALSE

LEMMA EmptyValid == Valid(EmptyRegistry)
  BY EmptyRegistryType DEF Valid, Closed, OnCycle

(* A registry that nothing is dropped from. *)
LEMMA SurvivorsOfAcyclic ==
  ASSUME NEW reg \in Registry, OnCycle(reg) = {}
  PROVE  Survivors(reg) = reg
  <1>1. Survivors(reg) = [x \in DOMAIN reg |-> reg[x]]
    BY DEF Survivors, Drop, Restrict
  <1> QED
    BY <1>1, RegistryForm

==============================================================================
