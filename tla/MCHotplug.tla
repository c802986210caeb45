----------------------------- MODULE MCHotplug -----------------------------
(***************************************************************************)
(* Instances of Hotplug for TLC.  Two controllers of one model, of which   *)
(* one has a serial number, and a profile for them that may be renamed.    *)
(***************************************************************************)
EXTENDS Hotplug, TLC

CONSTANTS d1, d2, n1, n2, s1

OneModel  == {<<d1, s1>>, <<d2, s1>>}
OneBoard  == {[name |-> n1, sig |-> s1]}
Renamed   == OneBoard \cup {[name |-> n2, sig |-> s1]}
=============================================================================
