--------------------------- MODULE MCDeviceRegistry ---------------------------
(* DeviceRegistry on small instances. *)
EXTENDS RegistryPromises

CONSTANTS c1, c2

NoPins == [c \in Config |-> NoPin]
OnePinEach == [c \in Config |-> c]
==============================================================================
