----------------------------- MODULE DerivedIndex -----------------------------
(***************************************************************************)
(* The derived index of compos-core, state/compos.db (derived.rs): how it  *)
(* is attached, caught up with the journal or rebuilt from it when the     *)
(* vault opens (vault.rs, open_write), and fed by step 6 of every save     *)
(* (writer.rs), with crashes between any two of these steps.               *)
(*                                                                         *)
(* The journal is the one of VaultStore with a save as one append.  The    *)
(* file is SQLite's: a transaction is committed as a whole, survives a     *)
(* kill, and after a power loss (WAL, synchronous = NORMAL) the file may   *)
(* be any state since the last checkpoint.  A row of docs is taken with    *)
(* its row of docs_fts; revision counts and timestamps are left out.       *)
(***************************************************************************)
EXTENDS Revisions

CONSTANTS
  None,      \* no row, no record
  Faults,    \* which of "kill", "power", "io" and "swap" can happen
  MaxFaults  \* bound: faults in a behaviour

ASSUME DerivedAssumption ==
  /\ Faults \subseteq {"kill", "power", "io", "swap"}
  /\ MaxFaults \in Nat

VARIABLES
  (* the vault directory *)
  journal,  \* parseable records of the segment
  torn,     \* a torn line follows them
  synced,   \* how many of the records are known to be on disk for good
  file,     \* the index file
  settled,  \* the index file as of the last checkpoint
  (* the process *)
  pc,       \* what it does next
  known,    \* the records applied to its DocIndex
  derived,  \* Vault.derived is Some
  tx,       \* the contents of the index in the open transaction
  job,      \* the record being fed
  struck,   \* observation: a fault hit the index since the vault was opened
  nextRev, faults

disk == <<journal, torn, synced, file, settled>>
process == <<pc, known, derived, tx, job, struck>>
vars == <<disk, process, nextRev, faults>>

Row == [path: Paths, head: RevId, body: Contents]

(* What an index file holds.  stage is its user_version: "absent" and      *)
(* "bare" are 0, before and after the tables are created, "ready" is       *)
(* DERIVED_SCHEMA_VERSION, "alien" any other, or a file SQLite cannot      *)
(* read.  The revisions table is in the order of its seq column.           *)
Index == [stage: {"absent", "bare", "ready", "alien"}, ours: BOOLEAN,
          applied: 0..MaxRevs, last: RevId \cup {NoRev},
          revisions: Seq(Record), docs: [RevId -> Row \cup {None}]]

Emptied == [stage |-> "ready", ours |-> TRUE, applied |-> 0, last |-> NoRev,
            revisions |-> <<>>, docs |-> [d \in RevId |-> None]]
Fresh   == [Emptied EXCEPT !.ours = FALSE]
Absent  == [Fresh EXCEPT !.stage = "absent"]

ASSUME NoneAssumption == None \notin Row \cup Record

DTypeOK ==
  /\ journal \in Seq(Record) /\ torn \in BOOLEAN /\ synced \in 0..Len(journal)
  /\ file \in Index /\ settled \in Index /\ tx \in Index
  /\ pc \in {"down", "attach", "stamp", "again", "restamp", "begin", "sync", "feed", "idle"}
  /\ known \in Seq(Record)
  /\ derived \in BOOLEAN /\ struck \in BOOLEAN
  /\ job \in Record \cup {None}
  /\ pc = "feed" => job # None
  /\ nextRev \in 1..(MaxRevs + 1)
  /\ faults \in 0..MaxFaults

(* A vault that was just initialised, and its index built.                 *)
Init ==
  /\ journal = <<>> /\ torn = FALSE /\ synced = 0
  /\ file = Emptied /\ settled = Absent /\ tx = Emptied
  /\ pc = "idle" /\ known = <<>> /\ derived = TRUE /\ job = None
  /\ struck = FALSE /\ nextRev = 1 /\ faults = 0

-------------------------------------------------------------------------------
(* The tables.                                                             *)

(* A UNIQUE constraint that fails: the path of another document, or a      *)
(* revision or position that is already there.                             *)
Conflict(t, r, seq) ==
  \/ \E d \in RevId \ {r.doc} : t.docs[d] # None /\ t.docs[d].path = r.path
  \/ r.rev \in RevsOf(t.revisions)
  \/ seq \in DOMAIN t.revisions

(* Faulty variant: the row of a known document is left alone. *)
ApplyRecord_KeepsRow(t, r, seq) ==
  [t EXCEPT !.docs[r.doc] =
              IF @ = None THEN [path |-> r.path, head |-> r.rev, body |-> r.object] ELSE @,
            !.revisions = Append(@, r),
            !.applied = seq,
            !.last = r.rev]

(* Faulty variant: the position is counted once more. *)
ApplyRecord_CountsTwice(t, r, seq) ==
  [t EXCEPT !.docs[r.doc] = [path |-> r.path, head |-> r.rev, body |-> r.object],
            !.revisions = Append(@, r),
            !.applied = seq + 1,
            !.last = r.rev]

(* apply_record, with the metadata it updates in the same transaction.     *)
ApplyRecord(t, r, seq) ==
  [t EXCEPT !.docs[r.doc] = [path |-> r.path, head |-> r.rev, body |-> r.object],
            !.revisions = Append(@, r),
            !.applied = seq,
            !.last = r.rev]

(* Faulty variant: the length alone decides. *)
PrefixOk_ByLength(t, log) == t.ours /\ t.applied <= Len(log)

(* The test of sync: is the index a prefix of this log?                    *)
PrefixOk(t, log) ==
  /\ t.ours
  /\ t.applied <= Len(log)
  /\ t.applied = 0 \/ log[t.applied].rev = t.last

-------------------------------------------------------------------------------
(* Saves.                                                                  *)

DocFor(p) == IF DocAt(known, p) = NoDoc THEN nextRev ELSE DocAt(known, p)

NewRecord(p, c) ==
  [doc |-> DocFor(p), rev |-> nextRev, parent |-> HeadRev(known, DocFor(p)),
   object |-> c, path |-> p]

(* A line written behind a torn one becomes part of it.                    *)
WriteLine(r) == journal' = IF torn THEN journal ELSE Append(journal, r)

StartFeed(r) ==
  IF derived THEN pc' = "feed" /\ job' = r ELSE UNCHANGED <<pc, job>>

(* Steps 2-5 of a commit, and its DocIndex.apply.                          *)
Save(p, c) ==
  /\ pc = "idle"
  /\ nextRev <= MaxRevs
  /\ WriteLine(NewRecord(p, c))
  /\ synced' = Len(journal')
  /\ known' = Append(known, NewRecord(p, c))
  /\ StartFeed(NewRecord(p, c))
  /\ nextRev' = nextRev + 1
  /\ UNCHANGED <<torn, file, settled, derived, tx, struck, faults>>

(* Faulty variant: a failed statement leaves the handle in place. *)
GiveUp_KeepsHandle == UNCHANGED derived /\ pc' = "idle" /\ job' = None

(* "derived index update failed; disabled until next open".                *)
GiveUp == derived' = FALSE /\ pc' = "idle" /\ job' = None

(* DerivedIndex::apply_one, one transaction, which a conflict would undo.   *)
Feed ==
  /\ pc = "feed"
  /\ IF Conflict(file, job, file.applied + 1)
     THEN GiveUp /\ UNCHANGED file
     ELSE /\ file' = ApplyRecord(file, job, file.applied + 1)
          /\ pc' = "idle" /\ job' = None
          /\ UNCHANGED derived
  /\ UNCHANGED <<journal, torn, synced, settled, known, tx, struck, nextRev, faults>>

-------------------------------------------------------------------------------
(* open_write.                                                             *)

(* Tail repair, replay, DocIndex::build.                                   *)
Open ==
  /\ pc = "down"
  /\ Chained(journal)
  /\ torn' = FALSE
  /\ synced' = IF torn THEN Len(journal) ELSE synced
  /\ known' = journal
  /\ struck' = FALSE
  /\ pc' = "attach"
  /\ UNCHANGED <<journal, file, settled, derived, tx, job, nextRev, faults>>

(* JournalCorrupt: the vault cannot be opened for writing any more.        *)
OpenCorrupt == pc = "down" /\ ~Chained(journal) /\ UNCHANGED vars

Attached(t, next) ==
  /\ file' = t
  /\ pc' = next
  /\ UNCHANGED <<journal, torn, synced, settled, known, derived, tx, job, struck, nextRev, faults>>

(* attach: a file of version 0 is given its tables, then its version.  It  *)
(* is called once more ("again", "restamp") after the file was destroyed.  *)
CreateTables ==
  /\ pc \in {"attach", "again"}
  /\ file.stage = "absent"
  /\ Attached([Fresh EXCEPT !.stage = "bare"], IF pc = "attach" THEN "stamp" ELSE "restamp")

StampVersion == pc \in {"stamp", "restamp"} /\ Attached([file EXCEPT !.stage = "ready"], "begin")
AttachReady  == pc = "attach" /\ file.stage = "ready" /\ Attached(file, "begin")

(* Faulty variant: only a file of another version is destroyed. *)
Destroy_KeepsBare ==
  \/ pc = "attach" /\ file.stage = "alien" /\ Attached(Absent, "again")
  \/ /\ pc = "attach" /\ file.stage = "bare"
     /\ derived' = FALSE /\ pc' = "idle"
     /\ UNCHANGED <<disk, known, tx, job, struck, nextRev, faults>>

(* Any other version, and tables that are already there, end in destroy.   *)
Destroy ==
  pc = "attach" /\ file.stage \in {"bare", "alien"} /\ Attached(Absent, "again")

(* sync: one transaction, of everything or of what is missing.             *)
BeginSync ==
  /\ pc = "begin"
  /\ tx' = IF PrefixOk(file, known) THEN file ELSE Emptied
  /\ pc' = "sync"
  /\ UNCHANGED <<disk, known, derived, job, struck, nextRev, faults>>

NextRecord == known[tx.applied + 1]

(* An object that is missing or unreadable is one of the failing calls of  *)
(* IndexFails.                                                             *)
SyncRecord ==
  /\ pc = "sync"
  /\ tx.applied < Len(known)
  /\ ~Conflict(tx, NextRecord, tx.applied + 1)
  /\ tx' = ApplyRecord(tx, NextRecord, tx.applied + 1)
  /\ UNCHANGED <<disk, pc, known, derived, job, struck, nextRev, faults>>

SyncCommits ==
  /\ pc = "sync"
  /\ tx.applied = Len(known)
  /\ file' = tx
  /\ derived' = TRUE
  /\ pc' = "idle"
  /\ UNCHANGED <<journal, torn, synced, settled, known, tx, job, struck, nextRev, faults>>

(* "derived index unavailable": a warning, and a vault without an index.   *)
SyncFails ==
  /\ pc = "sync"
  /\ tx.applied < Len(known)
  /\ Conflict(tx, NextRecord, tx.applied + 1)
  /\ GiveUp
  /\ UNCHANGED <<disk, known, tx, struck, nextRev, faults>>

-------------------------------------------------------------------------------
(* SQLite, faults and what others do to the file.                          *)

Checkpoint ==
  /\ settled # file
  /\ settled' = file
  /\ UNCHANGED <<journal, torn, synced, file, process, nextRev, faults>>

Down ==
  /\ pc' = "down"
  /\ known' = <<>> /\ derived' = FALSE /\ tx' = Emptied /\ job' = None /\ struck' = FALSE

Close ==
  /\ pc = "idle"
  /\ Down
  /\ UNCHANGED <<disk, nextRev, faults>>

Fault(kind) ==
  /\ kind \in Faults
  /\ faults < MaxFaults
  /\ faults' = faults + 1

(* A save that was under way has written its line, or part of it.          *)
HalfSaved ==
  /\ pc = "idle"
  /\ nextRev <= MaxRevs
  /\ \/ (\E p \in Paths, c \in Contents : WriteLine(NewRecord(p, c))) /\ UNCHANGED torn
     \/ torn' = TRUE /\ UNCHANGED journal
  /\ nextRev' = nextRev + 1

Kill ==
  /\ pc # "down"
  /\ Fault("kill")
  /\ Down
  /\ HalfSaved \/ UNCHANGED <<journal, torn, nextRev>>
  /\ UNCHANGED <<synced, file, settled>>

(* What was not fsynced of the journal, and not checkpointed of the index, *)
(* may be lost, each by itself.                                            *)
PowerLoss ==
  /\ Fault("power")
  /\ Down
  /\ \E n \in synced..Len(journal) :
       /\ journal' = SubSeq(journal, 1, n)
       /\ synced' = n
       /\ torn' \in {torn, n < Len(journal)}
  /\ file' \in {file, settled}
  /\ settled' = file'
  /\ UNCHANGED nextRev

(* The append of a save fails after some or all of its effect.             *)
SaveFails ==
  /\ Fault("io")
  /\ HalfSaved
  /\ UNCHANGED <<synced, file, settled, process>>

(* A statement or system call on the index, or the read of an object that  *)
(* a record names, fails for good.                                         *)
IndexFails ==
  /\ pc \in {"attach", "stamp", "again", "restamp", "begin", "sync", "feed"}
  /\ Fault("io")
  /\ GiveUp
  /\ struck' = TRUE
  /\ UNCHANGED <<disk, known, tx, nextRev>>

(* The first attach fails: the file is destroyed and attached once more.   *)
AttachFails ==
  /\ pc \in {"attach", "stamp"}
  /\ Fault("io")
  /\ file' = Absent
  /\ pc' = "again"
  /\ struck' = TRUE
  /\ UNCHANGED <<journal, torn, synced, settled, known, derived, tx, job, nextRev>>

(* While nobody has the vault open, the file is removed, comes from        *)
(* another version of the program or from another vault.                   *)
Swap ==
  /\ pc = "down"
  /\ Fault("swap")
  /\ \/ file' \in {Absent, [Fresh EXCEPT !.stage = "alien"]}
     \/ \E d \in RevId, p \in Paths, c \in Contents :
          file' = ApplyRecord(Fresh, [doc |-> d, rev |-> d, parent |-> NoRev,
                                      object |-> c, path |-> p], 1)
  /\ settled' = file'
  /\ UNCHANGED <<journal, torn, synced, process, nextRev>>

Next ==
  \/ \E p \in Paths, c \in Contents : Save(p, c)
  \/ Feed \/ Open \/ OpenCorrupt \/ CreateTables \/ StampVersion \/ AttachReady \/ Destroy
  \/ BeginSync \/ SyncRecord \/ SyncCommits \/ SyncFails
  \/ Checkpoint \/ Close
  \/ Kill \/ PowerLoss \/ SaveFails \/ IndexFails \/ AttachFails \/ Swap

Spec == Init /\ [][Next]_vars

-------------------------------------------------------------------------------
(* Properties.                                                             *)

(* What the tables should say after a list of records, read off the list.  *)
RowOf(log, d) ==
  IF HeadAt(log, d) = 0 THEN None
  ELSE LET r == log[HeadAt(log, d)]
       IN  [path |-> r.path, head |-> r.rev, body |-> r.object]

Faithful(t, log) ==
  /\ t.revisions = log
  /\ t.applied = Len(log)
  /\ t.last = IF log = <<>> THEN NoRev ELSE log[Len(log)].rev
  /\ t.docs = [d \in RevId |-> RowOf(log, d)]

(* Whoever reads the file, read-only opens included, finds tables that     *)
(* agree with each other: the documents are the heads of its revisions and *)
(* the counters their number and last one ("after a kill the next open     *)
(* sees a consistent prefix", derived.rs).                                 *)
Consistent == file.stage = "ready" => Faithful(file, file.revisions)

(* The test by length and last revision is right: a file that passes it    *)
(* against the journal holds exactly that prefix, however files and        *)
(* journals were lost, cut back or replaced since.                         *)
PrefixSound ==
  file.stage = "ready" /\ PrefixOk(file, journal) =>
    file.revisions = SubSeq(journal, 1, file.applied)

(* While the vault is open and has an index, every search answers from the *)
(* heads of the records the vault itself goes by.                          *)
IndexCurrent == pc = "idle" /\ derived => Faithful(file, known)

(* Two documents at one path, which the saves never make unless one of     *)
(* them was reported as failed.                                            *)
PathClash(log) ==
  \E i, j \in DOMAIN log : log[i].path = log[j].path /\ log[i].doc # log[j].doc

(* "Never an error the caller has to resolve": an open that meets no       *)
(* failing call has an index, whatever state the last process, a crash or  *)
(* another program left the file in; only a journal with two documents at  *)
(* one path has none.                                                      *)
IndexReturns == pc = "idle" /\ ~derived => struck \/ PathClash(known)
================================================================================
