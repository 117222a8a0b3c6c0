----------------------------- MODULE MCHunkSplice -----------------------------
(* Small instances of HunkSplice for TLC.                                  *)
EXTENDS HunkSplice
================================================================================
