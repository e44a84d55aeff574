---------------------------- MODULE RegistryGraph ----------------------------
(***************************************************************************)
(* What a set of device records has to look like before DeviceRegistry     *)
(* accepts it, and what the boot path keeps of a set that does not.        *)
(*                                                                         *)
(* A registry is a function from the ids it holds to their records, as     *)
(* DeviceRuntimeMap (std::map<DeviceId, ...>) is.  A record keeps the      *)
(* config payload, whose bytes matter to nobody here, and the ids its      *)
(* dependency links name; the roles on the links are left out.             *)
(***************************************************************************)
EXTENDS Functions

CONSTANTS
  Device,   \* device ids the id source may draw; 0 is reserved
  Config    \* config payloads

ASSUME DeviceAssumption == 0 \notin Device

Record == [config : Config, deps : SUBSET Device]

Registry == UNION {[ids -> Record] : ids \in SUBSET Device}

EmptyRegistry == [d \in {} |-> CHOOSE r \in Record : TRUE]

(* std::map insertion or overwrite, and std::map::erase. *)
Put(reg, d, rec) == [x \in DOMAIN reg \cup {d} |-> IF x = d THEN rec ELSE reg[x]]
Drop(reg, ids) == Restrict(reg, DOMAIN reg \ ids)

(* d reaches e when every set that holds the direct dependencies of d and   *)
(* is closed under dependencies holds e.                                    *)
Reaches(reg, d, e) ==
  \A S \in SUBSET Device :
    /\ reg[d].deps \subseteq S
    /\ \A x \in S \cap DOMAIN reg : reg[x].deps \subseteq S
    => e \in S

OnCycle(reg) == {d \in DOMAIN reg : Reaches(reg, d, d)}

Closed(reg) == \A d \in DOMAIN reg : reg[d].deps \subseteq DOMAIN reg

(* validateSnapshot and the store's validateStructure agree on this. *)
Valid(reg) == Closed(reg) /\ OnCycle(reg) = {}

(* Mutant: a link to a missing device discards its owner as well. *)
SurvivorsClosedOnly(reg) ==
  Drop(reg, OnCycle(reg) \cup {d \in DOMAIN reg : ~(reg[d].deps \subseteq DOMAIN reg)})

(* discardInvalidLoadRelationships drops whatever lies on a cycle.  A link  *)
(* to a device that is not there is kept: its owner shows as blocked.       *)
Survivors(reg) == Drop(reg, OnCycle(reg))

(* Mutant: only a device with a single link counts. *)
DependentsSole(reg, d) == {x \in DOMAIN reg : reg[x].deps = {d}}

Dependents(reg, d) == {x \in DOMAIN reg : d \in reg[x].deps}
==============================================================================
