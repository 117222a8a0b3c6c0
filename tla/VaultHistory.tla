----------------------------- MODULE VaultHistory -----------------------------
(***************************************************************************)
(* What the vault promises about revisions, whatever kills the process or  *)
(* the machine: one history of committed revisions in which every document *)
(* is a linear chain, and from which nothing that has been acknowledged    *)
(* ever disappears.  The save transaction of VaultStore implements it as   *)
(* long as no system call fails.                                           *)
(***************************************************************************)
EXTENDS Revisions

VARIABLES
  history,  \* the committed revisions, oldest first
  acked     \* the revisions whose commit was acknowledged

hvars == <<history, acked>>

HInit == history = <<>> /\ acked = {}

(* A revision is committed on top of its document's head, and the caller   *)
(* may or may not learn of it.                                             *)
Commit(r) ==
  /\ r.rev \notin RevsOf(history)
  /\ r.parent = HeadRev(history, r.doc)
  /\ history' = Append(history, r)
  /\ acked' \in {acked, acked \cup {r.rev}}

(* A crash may drop the newest revisions, but none that was acknowledged.  *)
Lose(n) ==
  /\ acked \subseteq RevsOf(SubSeq(history, 1, n))
  /\ history' = SubSeq(history, 1, n)
  /\ UNCHANGED acked

HNext ==
  \/ \E r \in Record : Commit(r)
  \/ \E n \in 0..Len(history) : Lose(n)

HSpec == HInit /\ [][HNext]_hvars
==============================================================================
