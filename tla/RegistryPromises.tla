--------------------------- MODULE RegistryPromises ---------------------------
(***************************************************************************)
(* What comments, documents and tests of the firmware say of the registry  *)
(* and the code does not keep.  Each is the subject of one run that shows  *)
(* how it fails.                                                           *)
(***************************************************************************)
EXTENDS DeviceRegistry

(* "config, dependencies and layout become dirty together and an immediate   *)
(* dependency flush cannot persist a half-updated display"                   *)
(* (DeviceRegistry.cpp, updateConfigAndDeps): a layout that is not in flash  *)
(* keeps its mark.                                                           *)
LayoutsMarked ==
  pc = "idle" => \A d \in Live \cap Display : d \in dirtyConfig \/ nvsLayout[d] = layouts[d]

(* "immediate persistence failure rolls back create"                         *)
(* (test_device_registry.cpp): a create that fails leaves no device for the  *)
(* next boot.                                                                *)
FailedCreateLeavesNothing ==
  [][op = "create" /\ pc # "cleanup" /\ pc' = "idle" => subject \cap DOMAIN Stored' = {}]_vars
==============================================================================
