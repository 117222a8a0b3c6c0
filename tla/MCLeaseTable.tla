----------------------------- MODULE MCLeaseTable -----------------------------
(* Small instances of LeaseTable for TLC.                                  *)
EXTENDS LeaseTable, TLC

(* Sessions are interchangeable. *)
Interchangeable == Permutations(Sessions)
================================================================================
