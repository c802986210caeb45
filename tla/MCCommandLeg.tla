--------------------------- MODULE MCCommandLeg ---------------------------
(***************************************************************************)
(* Instances of CommandLeg for TLC.                                        *)
(***************************************************************************)
EXTENDS CommandLeg, TLC

DevSymmetry == Permutations(Devs)
=============================================================================
