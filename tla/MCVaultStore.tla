----------------------------- MODULE MCVaultStore -----------------------------
(* Small instances of VaultStore for TLC.                                  *)
EXTENDS VaultStore, TLC

(* Paths and contents are interchangeable; no liveness is checked where    *)
(* this symmetry is used.                                                  *)
Interchangeable == Permutations(Paths) \cup Permutations(Contents)
==============================================================================
