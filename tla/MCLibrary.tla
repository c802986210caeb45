----------------------------- MODULE MCLibrary -----------------------------
(* The library, from an empty database: one bundled board and another one. *)
EXTENDS Library
=============================================================================
