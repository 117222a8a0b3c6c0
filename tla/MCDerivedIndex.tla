---------------------------- MODULE MCDerivedIndex ----------------------------
(* Small instances of DerivedIndex for TLC.                                *)
EXTENDS DerivedIndex, TLC

(* Paths and contents are interchangeable. *)
Interchangeable == Permutations(Paths) \cup Permutations(Contents)
================================================================================
