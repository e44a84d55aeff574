---------------------------- MODULE AtomicRegistry ----------------------------
(***************************************************************************)
(* What the persisted registry promises: seen through the next boot, flash *)
(* holds one registry, each change of it adds, replaces or deletes one     *)
(* device, and every registry it goes through is closed and acyclic.  How  *)
(* many keys a change is spread over, and where the power goes in between, *)
(* cannot be told from outside.                                            *)
(***************************************************************************)
EXTENDS RegistryGraph

VARIABLE reg   \* the registry a boot would find

Init == reg = EmptyRegistry

Change(next) == Valid(next) /\ reg' = next

Add(d, rec) == d \notin DOMAIN reg /\ Change(Put(reg, d, rec))

Replace(d, rec) == d \in DOMAIN reg /\ Change(Put(reg, d, rec))

Delete(d) == d \in DOMAIN reg /\ Change(Drop(reg, {d}))

Next ==
  \/ \E d \in Device, rec \in Record : Add(d, rec) \/ Replace(d, rec)
  \/ \E d \in Device : Delete(d)

Spec == Init /\ [][Next]_reg
==============================================================================
