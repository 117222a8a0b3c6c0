----------------------------- MODULE MCShellBuffer -----------------------------
(* Small instances of ShellBuffer for TLC. *)
EXTENDS ShellBuffer, TLC

(* Documents are interchangeable. *)
Interchangeable == Permutations(Docs)
================================================================================
