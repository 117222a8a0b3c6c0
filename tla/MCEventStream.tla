----------------------------- MODULE MCEventStream -----------------------------
(* Small instances of EventStream for TLC. *)
EXTENDS EventStream, TLC

(* Writers are interchangeable, and so are documents. *)
Interchangeable == Permutations(Writers) \cup Permutations(Docs)
================================================================================
