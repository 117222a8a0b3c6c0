------------------------------ MODULE MCProposals ------------------------------
(* Small instances of Proposals for TLC.                                   *)
EXTENDS Proposals, TLC

(* Paths are interchangeable. *)
Interchangeable == Permutations(Paths)
================================================================================
