------------------------------ MODULE Revisions ------------------------------
(***************************************************************************)
(* Revision records and what the document index derives from a log of      *)
(* them (crates/compos-core/src/journal.rs).                                *)
(*                                                                         *)
(* A log is a sequence of records in append order: the parseable part of   *)
(* the journal segment, or the records the in-memory DocIndex has applied. *)
(* Ids are abstract: a revision id is a number no other revision has       *)
(* (RevisionId::generate), a document's id is the id of the first revision *)
(* attempted for it (DocId::generate, minted by the save that first names  *)
(* the path), and an object hash is the content it identifies.             *)
(* Timestamps, the format version and the origin label are left out: no    *)
(* decision of the modelled code reads them.                               *)
(***************************************************************************)
EXTENDS Integers, Sequences

CONSTANTS
  Paths,     \* vault-relative paths of visible files
  Contents,  \* the distinct byte contents a file can hold
  MaxRevs    \* bound: how many revisions are ever attempted

ASSUME MaxRevsAssumption == MaxRevs \in Nat

RevId == 1..MaxRevs
NoRev == 0
NoDoc == 0

Record == [doc: RevId, rev: RevId, parent: RevId \cup {NoRev},
           object: Contents, path: Paths]

(* The greatest of a set of positions; 0 when there is none. *)
Last(S) ==
  LET top == {i \in S : \A j \in S : j <= i}
  IN  IF top = {} THEN 0 ELSE CHOOSE i \in top : TRUE

(* DocIndex.heads: the last record applied for a document is its head.     *)
HeadAt(log, d)  == Last({i \in DOMAIN log : log[i].doc = d})
HeadRev(log, d) == IF HeadAt(log, d) = 0 THEN NoRev ELSE log[HeadAt(log, d)].rev

(* DocIndex.by_path: applying a record maps its path to its document.      *)
RecordAt(log, p) == Last({i \in DOMAIN log : log[i].path = p})
DocAt(log, p)    == IF RecordAt(log, p) = 0 THEN NoDoc ELSE log[RecordAt(log, p)].doc

(* DocIndex.revs, and the documents that have a head.                      *)
RevsOf(log) == {log[i].rev : i \in DOMAIN log}
DocsOf(log) == {log[i].doc : i \in DOMAIN log}

(* The test DocIndex::build makes of a replayed journal: each record's     *)
(* parent is the head its document had before it.                          *)
Chained(log) ==
  \A i \in DOMAIN log : log[i].parent = HeadRev(SubSeq(log, 1, i - 1), log[i].doc)
==============================================================================
