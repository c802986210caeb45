---------------------------- MODULE MCReportLeg ----------------------------
(***************************************************************************)
(* Instances of ReportLeg for TLC.                                         *)
(***************************************************************************)
EXTENDS ReportLeg, TLC

UserSymmetry == Permutations(Users)
=============================================================================
