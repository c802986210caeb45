--------------------------- MODULE MCDeviceEngine ---------------------------
(***************************************************************************)
(* Instances of DeviceEngine for TLC.  Version 1 of the profile defines    *)
(* modes 1 and 2, version 2 defines mode 1 only, version 3 does not parse. *)
(***************************************************************************)
EXTENDS DeviceEngine

MCModesOf == [v \in Versions |-> CASE v = 1 -> {1, 2} [] v = 2 -> {1} [] OTHER -> {}]

OneShape  == {<<"hid", "native">>}
TwoShapes == {<<>>, <<"hid", "native">>}
=============================================================================
