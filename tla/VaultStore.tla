------------------------------ MODULE VaultStore ------------------------------
(***************************************************************************)
(* The save transaction of compos-core and what survives it: writer.rs     *)
(* (save, commit), journal.rs (append, tail repair, replay), objects.rs    *)
(* (put), external.rs (the scan), vault.rs (open_write) and reconcile.rs,  *)
(* step by step on one vault directory, against an external editor of the  *)
(* visible files, process kills, power losses and failing system calls.    *)
(*                                                                         *)
(* The exclusive vault lock and the daemon's mutex admit one operation at  *)
(* a time, so the process is one program counter.  A step is one system    *)
(* call, or one group of them that no crash or editor can split with an    *)
(* effect the neighbouring steps do not already have: a rename that is not *)
(* yet fsynced is either the state before it or the state after it.        *)
(***************************************************************************)
EXTENDS Revisions, FiniteSets

CONSTANTS
  None,        \* no file, no object, no operation, no record
  Faults,      \* which of "kill", "power" and "io" can happen
  EditAt,      \* the program counters at which the external editor may write
  MaxFaults,   \* bound: kills, power losses and I/O errors in a behaviour
  MaxEdits     \* bound: writes of the external editor in a behaviour

(* A save that was admitted; doc is the document it resolved to. *)
Operation ==
  [doc: RevId, path: Paths, base: RevId \cup {NoRev}, content: Contents, scan: BOOLEAN]

ASSUME StoreAssumption ==
  /\ None \notin Contents \cup Record \cup Operation
  /\ Faults \subseteq {"kill", "power", "io"}
  /\ MaxFaults \in Nat
  /\ MaxEdits \in Nat

VARIABLES
  (* the vault directory *)
  journal,  \* parseable records from the start of the segment
  damaged,  \* a torn or garbage line follows them
  synced,   \* how many of the records are known to be on disk for good
  objects,  \* contents in the object store
  loose,    \* those whose rename into the shard was not fsynced
  intents,  \* registered write intents
  ghosts,   \* intents removed since the intents directory was last fsynced
  visible,  \* the bytes of each visible file
  (* the process *)
  pc,       \* what it does next
  index,    \* the records applied to its DocIndex
  op,       \* the save being served
  cur,      \* the revision being committed, or the intent being reconciled
  pending,  \* files the scan still has to commit, with the bytes it read
  todo,     \* intents still to be reconciled
  (* observation *)
  acked,    \* revisions whose append returned Ok
  touched,  \* paths the editor changed after the engine last did
  nextRev, faults, edits

disk == <<journal, damaged, synced, objects, loose, intents, ghosts>>
process == <<pc, index, op, cur, pending, todo>>
counters == <<faults, edits>>
vars == <<disk, visible, process, acked, touched, nextRev, counters>>

CommitSteps == {"put", "sync_object", "intent", "replace", "append", "clear"}
Steps == {"down", "recover", "drop", "idle", "scan", "guard", "check"} \cup CommitSteps

(* What index.head, and by_path with it, say of a document and of a path.  *)
HeadObject(log, d) == IF HeadAt(log, d) = 0 THEN None ELSE log[HeadAt(log, d)].object
ObjectAt(log, p)   == HeadObject(log, DocAt(log, p))

TypeOK ==
  /\ journal \in Seq(Record)
  /\ damaged \in BOOLEAN
  /\ synced \in 0..Len(journal)
  /\ objects \subseteq Contents
  /\ loose \subseteq objects
  /\ intents \subseteq Record
  /\ ghosts \subseteq Record
  /\ visible \in [Paths -> Contents \cup {None}]
  /\ pc \in Steps
  /\ index \in Seq(Record)
  /\ op \in Operation \cup {None}
  /\ cur \in Record \cup {None}
  /\ pending \subseteq [path: Paths, content: Contents]
  /\ todo \subseteq intents
  /\ acked \subseteq RevId
  /\ touched \subseteq Paths
  /\ nextRev \in 1..(MaxRevs + 1)
  /\ faults \in 0..MaxFaults
  /\ edits \in 0..MaxEdits
  /\ pc \in {"guard", "check"} \cup CommitSteps => op # None
  /\ pc \in CommitSteps \cup {"drop"} => cur # None

(* Vault::init: the layout is there and every file is empty or absent.     *)
Init ==
  /\ journal = <<>> /\ damaged = FALSE /\ synced = 0
  /\ objects = {} /\ loose = {}
  /\ intents = {} /\ ghosts = {}
  /\ visible = [p \in Paths |-> None]
  /\ pc = "idle" /\ index = <<>> /\ op = None /\ cur = None
  /\ pending = {} /\ todo = {}
  /\ acked = {} /\ touched = {}
  /\ nextRev = 1 /\ faults = 0 /\ edits = 0

-------------------------------------------------------------------------------
(* The external editor: any program that writes the user's files.          *)

Edit(p, c) ==
  /\ edits < MaxEdits
  /\ pc \in EditAt
  /\ c # visible[p]
  /\ visible' = [visible EXCEPT ![p] = c]
  /\ touched' = touched \cup {p}
  /\ edits' = edits + 1
  /\ UNCHANGED <<disk, process, acked, nextRev, faults>>

(* The engine replaces or removes a visible file.                          *)
SetVisible(p, c) ==
  /\ visible' = [visible EXCEPT ![p] = c]
  /\ touched' = IF visible[p] = c THEN touched ELSE touched \ {p}

-------------------------------------------------------------------------------
(* VaultWriter::save, up to the commit.                                    *)

Serve(d, p, base, c, scan) ==
  /\ nextRev <= MaxRevs
  /\ pc' = "guard"
  /\ op' = [doc |-> d, path |-> p, base |-> base, content |-> c, scan |-> scan]
  /\ UNCHANGED <<disk, visible, index, cur, todo, acked, touched, nextRev, counters>>

(* DocRef::Path: the document at the path, or a new one.                   *)
Resolve(p) == IF DocAt(index, p) = NoDoc THEN nextRev ELSE DocAt(index, p)

SaveByPath(p, base, c) ==
  /\ pc = "idle"
  /\ Serve(Resolve(p), p, base, c, FALSE)
  /\ UNCHANGED pending

(* DocRef::Id: an existing document, at its head's path.                   *)
SaveById(d, base, c) ==
  /\ pc = "idle"
  /\ d \in DocsOf(index)
  /\ Serve(d, index[HeadAt(index, d)].path, base, c, FALSE)
  /\ UNCHANGED pending

(* Faulty variant: a scan skips the file it could not save. *)
Reply_ScanGoesOn(ok) ==
  /\ op' = None
  /\ cur' = None
  /\ IF op.scan THEN pc' = "scan" /\ UNCHANGED pending
                ELSE pc' = "idle" /\ pending' = {}
  /\ UNCHANGED todo

(* The save returns to its caller.  A scan goes on after an Ok and gives   *)
(* up at the first error.                                                  *)
Reply(ok) ==
  /\ op' = None
  /\ cur' = None
  /\ IF op.scan /\ ok THEN pc' = "scan" /\ UNCHANGED pending
                      ELSE pc' = "idle" /\ pending' = {}
  /\ UNCHANGED todo

(* Faulty variant: the parent is the base the caller gave. *)
StartCommit_OnBase(content) ==
  /\ cur' = [doc |-> op.doc, rev |-> nextRev, parent |-> op.base,
             object |-> content, path |-> op.path]
  /\ nextRev' = nextRev + 1
  /\ pc' = "put"
  /\ UNCHANGED <<disk, visible, index, op, pending, todo, acked, touched, counters>>

StartCommit(content) ==
  /\ cur' = [doc |-> op.doc, rev |-> nextRev, parent |-> HeadRev(index, op.doc),
             object |-> content, path |-> op.path]
  /\ nextRev' = nextRev + 1
  /\ pc' = "put"
  /\ UNCHANGED <<disk, visible, index, op, pending, todo, acked, touched, counters>>

(* Faulty variant: only files of known documents are compared. *)
EditedOutOfBand_KnownOnly ==
  /\ op.doc \in DocsOf(index)
  /\ visible[op.path] \notin {None, HeadObject(index, op.doc), op.content}

(* The never-clobber guard: bytes on disk that are neither the head's nor  *)
(* the caller's were written by somebody else.                             *)
EditedOutOfBand ==
  visible[op.path] \notin {None, HeadObject(index, op.doc), op.content}

ConvertExternal ==
  /\ pc = "guard"
  /\ EditedOutOfBand
  /\ StartCommit(visible[op.path])

PassGuard ==
  /\ pc = "guard"
  /\ ~EditedOutOfBand
  /\ pc' = "check"
  /\ UNCHANGED <<disk, visible, index, op, cur, pending, todo, acked, touched, nextRev, counters>>

(* Faulty variant: a save of an existing document needs no base. *)
BaseIsHead_OrAbsent == op.base \in {NoRev, HeadRev(index, op.doc)}

(* Step 1: the base revision, then the lease.                              *)
BaseIsHead == op.base = HeadRev(index, op.doc)

RefuseStaleBase ==
  /\ pc = "check"
  /\ ~BaseIsHead
  /\ Reply(FALSE)
  /\ UNCHANGED <<disk, visible, index, acked, touched, nextRev, counters>>

(* Somebody else may hold a live lease; leases live in memory only, and    *)
(* this module does not follow them.                                       *)
RefuseLeaseHeld ==
  /\ pc = "check"
  /\ BaseIsHead
  /\ Reply(FALSE)
  /\ UNCHANGED <<disk, visible, index, acked, touched, nextRev, counters>>

BeginCommit ==
  /\ pc = "check"
  /\ BaseIsHead
  /\ nextRev <= MaxRevs
  /\ StartCommit(op.content)

-------------------------------------------------------------------------------
(* VaultWriter::commit, steps 2 to 6, for a save and for a conversion.     *)

Converting == cur.object # op.content

Goto(step) == pc' = step /\ UNCHANGED <<index, op, cur, pending, todo>>

(* Faulty variant: the shard directory is not fsynced. *)
PutObject_NoFsync ==
  /\ pc = "put"
  /\ Goto("intent")
  /\ objects' = objects \cup {cur.object}
  /\ loose' = IF cur.object \in objects THEN loose ELSE loose \cup {cur.object}
  /\ UNCHANGED <<journal, damaged, synced, intents, ghosts, visible, acked, touched, nextRev, counters>>

(* Step 2, ObjectStore::put: nothing to do when the file is there, else    *)
(* rename it into its shard and fsync the shard.                           *)
PutObject ==
  /\ pc = "put"
  /\ IF cur.object \in objects
       THEN Goto("intent") /\ UNCHANGED <<objects, loose>>
       ELSE /\ Goto("sync_object")
            /\ objects' = objects \cup {cur.object}
            /\ loose' = loose \cup {cur.object}
  /\ UNCHANGED <<journal, damaged, synced, intents, ghosts, visible, acked, touched, nextRev, counters>>

(* The fsync of the shard directory.  The shard's own entry, where put has *)
(* just created it, counts as durable.                                     *)
SyncObject ==
  /\ pc = "sync_object"
  /\ Goto("intent")
  /\ loose' = loose \ {cur.object}
  /\ UNCHANGED <<journal, damaged, synced, objects, intents, ghosts, visible, acked, touched, nextRev, counters>>

(* Step 3: the fsync of the intents directory also settles what was        *)
(* removed from it before.                                                 *)
RegisterIntent ==
  /\ pc = "intent"
  /\ Goto("replace")
  /\ intents' = intents \cup {cur}
  /\ ghosts' = {}
  /\ UNCHANGED <<journal, damaged, synced, objects, loose, visible, acked, touched, nextRev, counters>>

(* Faulty variant: the intent is cleared once the file is replaced. *)
ReplaceVisible_ClearsIntent ==
  /\ pc = "replace"
  /\ Goto("append")
  /\ SetVisible(cur.path, cur.object)
  /\ intents' = intents \ {cur}
  /\ UNCHANGED <<journal, damaged, synced, objects, loose, ghosts, acked, nextRev, counters>>

(* Step 4. *)
ReplaceVisible ==
  /\ pc = "replace"
  /\ Goto("append")
  /\ SetVisible(cur.path, cur.object)
  /\ UNCHANGED <<disk, acked, nextRev, counters>>

(* Faulty variant: the line stays in a buffer. *)
WriteLine_Buffered == UNCHANGED journal

(* Step 5, Journal::append: write and fsync, the acknowledgment point.  A  *)
(* line written behind a torn one becomes part of it.                      *)
WriteLine == journal' = IF damaged THEN journal ELSE Append(journal, cur)

(* Faulty variant: no fsync before the acknowledgment. *)
AppendRecord_NoFsync ==
  /\ pc = "append"
  /\ Goto("clear")
  /\ WriteLine
  /\ acked' = acked \cup {cur.rev}
  /\ touched' = IF visible[cur.path] = cur.object THEN touched \ {cur.path} ELSE touched
  /\ UNCHANGED <<damaged, synced, objects, loose, intents, ghosts, visible, nextRev, counters>>

AppendRecord ==
  /\ pc = "append"
  /\ Goto("clear")
  /\ WriteLine
  /\ synced' = Len(journal')
  /\ acked' = acked \cup {cur.rev}
  /\ touched' = IF visible[cur.path] = cur.object THEN touched \ {cur.path} ELSE touched
  /\ UNCHANGED <<damaged, objects, loose, intents, ghosts, visible, nextRev, counters>>

(* Step 6: remove the intent, without an fsync, and advance the head.      *)
FinishCommit ==
  /\ index' = Append(index, cur)
  /\ IF Converting THEN /\ pc' = "check"
                        /\ cur' = None
                        /\ UNCHANGED <<op, pending, todo>>
                   ELSE Reply(TRUE)

ClearIntent ==
  /\ pc = "clear"
  /\ FinishCommit
  /\ intents' = intents \ {cur}
  /\ ghosts' = ghosts \cup {cur}
  /\ UNCHANGED <<journal, damaged, synced, objects, loose, visible, acked, touched, nextRev, counters>>

-------------------------------------------------------------------------------
(* Vault::scan_external: collect the files whose bytes are not those of    *)
(* their document's head, then save each of them on the current head.      *)

Changed(p) == visible[p] \notin {None, ObjectAt(index, p)}

ScanBegin ==
  /\ pc = "idle"
  /\ pending' = {[path |-> p, content |-> visible[p]] : p \in {q \in Paths : Changed(q)}}
  /\ nextRev + Cardinality(pending') <= MaxRevs + 1
  /\ pc' = "scan"
  /\ UNCHANGED <<disk, visible, index, op, cur, todo, acked, touched, nextRev, counters>>

ScanSave(f) ==
  /\ pc = "scan"
  /\ f \in pending
  /\ Serve(Resolve(f.path), f.path, HeadRev(index, DocAt(index, f.path)), f.content, TRUE)
  /\ pending' = pending \ {f}

ScanDone ==
  /\ pc = "scan"
  /\ pending = {}
  /\ Goto("idle")
  /\ UNCHANGED <<disk, visible, acked, touched, nextRev, counters>>

-------------------------------------------------------------------------------
(* The process or the machine stops.                                       *)

Down ==
  /\ pc' = "down"
  /\ index' = <<>> /\ op' = None /\ cur' = None /\ pending' = {} /\ todo' = {}

Fault(kind) ==
  /\ kind \in Faults
  /\ faults < MaxFaults
  /\ faults' = faults + 1
  /\ UNCHANGED <<acked, nextRev, edits>>

(* A kill leaves the files as the system calls made so far left them, one  *)
(* of them perhaps half done.                                              *)
Kill ==
  /\ pc # "down"
  /\ Fault("kill")
  /\ Down
  /\ \/ UNCHANGED <<journal, damaged, intents>>
     \/ pc = "intent" /\ intents' = intents \cup {cur} /\ UNCHANGED <<journal, damaged>>
     \/ pc = "append" /\ WriteLine /\ UNCHANGED <<damaged, intents>>
     \/ pc = "append" /\ damaged' = TRUE /\ UNCHANGED <<journal, intents>>
  /\ UNCHANGED <<synced, objects, loose, ghosts, visible, touched>>

(* A power loss also undoes, or not, what was not fsynced: journal lines,  *)
(* renames into the object store, removals of intents.                     *)
PowerLoss ==
  /\ Fault("power")
  /\ Down
  /\ \E log \in {journal} \cup IF pc = "append" /\ ~damaged THEN {Append(journal, cur)} ELSE {} :
     \E n \in synced..Len(log) :
       /\ journal' = SubSeq(log, 1, n)
       /\ synced' = n
       /\ damaged' \in {damaged, pc = "append" \/ n < Len(log)}
  /\ \E lost \in SUBSET loose : objects' = objects \ lost
  /\ loose' = {}
  /\ \E back \in SUBSET (ghosts \cup IF pc = "intent" THEN {cur} ELSE {}) :
       intents' = intents \cup back
  /\ ghosts' = {}
  /\ UNCHANGED <<visible, touched>>

(* A system call of the commit fails, after some or all of its effect; the *)
(* error goes to the caller and the vault stays open.                      *)
FailIo ==
  /\ pc \in CommitSteps \ {"clear"}
  /\ Fault("io")
  /\ Reply(FALSE)
  /\ \/ UNCHANGED <<journal, damaged, intents, visible, touched>>
     \/ pc = "intent" /\ intents' = intents \cup {cur}
        /\ UNCHANGED <<journal, damaged, visible, touched>>
     \/ pc = "replace" /\ SetVisible(cur.path, cur.object)
        /\ UNCHANGED <<journal, damaged, intents>>
     \/ pc = "append" /\ WriteLine
        /\ UNCHANGED <<damaged, intents, visible, touched>>
     \/ pc = "append" /\ damaged' = TRUE
        /\ UNCHANGED <<journal, intents, visible, touched>>
  /\ UNCHANGED <<synced, objects, loose, ghosts, index>>

(* The result of removing the intent is ignored.                           *)
FailClear ==
  /\ pc = "clear"
  /\ Fault("io")
  /\ FinishCommit
  /\ UNCHANGED <<disk, visible, touched>>

-------------------------------------------------------------------------------
(* Vault::open_write: repair the journal's tail, replay it, check every    *)
(* document's chain, then reconcile the intents.                           *)

(* Faulty variant: the repair cuts at the start of the last valid line. *)
Open_CutsTooMuch ==
  /\ pc = "down"
  /\ Chained(journal)
  /\ damaged' = FALSE
  /\ journal' = IF damaged THEN SubSeq(journal, 1, Len(journal) - 1) ELSE journal
  /\ synced' = IF damaged THEN Len(journal') ELSE synced
  /\ index' = journal'
  /\ todo' = intents
  /\ pc' = "recover"
  /\ UNCHANGED <<objects, loose, intents, ghosts, visible, op, cur, pending,
                 acked, touched, nextRev, counters>>

Open ==
  /\ pc = "down"
  /\ Chained(journal)
  /\ damaged' = FALSE
  /\ synced' = IF damaged THEN Len(journal) ELSE synced
  /\ index' = journal
  /\ todo' = intents
  /\ pc' = "recover"
  /\ UNCHANGED <<journal, objects, loose, intents, ghosts, visible, op, cur, pending,
                 acked, touched, nextRev, counters>>

(* JournalCorrupt: the vault cannot be opened for writing any more.        *)
OpenCorrupt == pc = "down" /\ ~Chained(journal) /\ UNCHANGED vars

(* reconcile: oldest intent first, by the wall clock in milliseconds,      *)
(* which may tie or step back: any order.                                  *)
Committed(i) == i.rev \in RevsOf(index)

ParentObject(i) ==
  IF i.parent # NoRev /\ HeadRev(index, i.doc) = i.parent THEN HeadObject(index, i.doc) ELSE None

(* What reconcile writes at an intent's path: W5/W6 restores a missing     *)
(* head, W4 takes back an uncommitted replacement (None removes the file), *)
(* and every other case leaves the file as it is.                          *)
Restores(i) ==
  /\ Committed(i)
  /\ HeadRev(index, i.doc) = i.rev
  /\ visible[i.path] = None

(* Faulty variant: the first save of a document is not taken back. *)
RollsBack_ParentOnly(i) ==
  /\ ~Committed(i)
  /\ visible[i.path] = i.object
  /\ ParentObject(i) \notin {None, i.object}

RollsBack(i) ==
  /\ ~Committed(i)
  /\ visible[i.path] = i.object
  /\ ParentObject(i) # i.object

Repaired(i) ==
  IF Restores(i) THEN HeadObject(index, i.doc)
  ELSE IF RollsBack(i) THEN ParentObject(i)
  ELSE visible[i.path]

Readable(i) == Repaired(i) # visible[i.path] => Repaired(i) \in objects \cup {None}

Reconcile(i) ==
  /\ pc = "recover"
  /\ i \in todo
  /\ Readable(i)
  /\ SetVisible(i.path, Repaired(i))
  /\ cur' = i
  /\ pc' = "drop"
  /\ UNCHANGED <<disk, index, op, pending, todo, acked, nextRev, counters>>

(* Faulty variant: the intent file stays. *)
DropIntent_KeepsFile ==
  /\ pc = "drop"
  /\ todo' = todo \ {cur}
  /\ cur' = None
  /\ pc' = "recover"
  /\ UNCHANGED <<disk, visible, index, op, pending, acked, touched, nextRev, counters>>

(* Faulty variant: the removed intent is visited again. *)
DropIntent_Again ==
  /\ pc = "drop"
  /\ intents' = intents \ {cur}
  /\ ghosts' = ghosts \cup {cur}
  /\ cur' = None
  /\ pc' = "recover"
  /\ UNCHANGED <<journal, damaged, synced, objects, loose, visible, index, op, pending, todo,
                 acked, touched, nextRev, counters>>

DropIntent ==
  /\ pc = "drop"
  /\ intents' = intents \ {cur}
  /\ ghosts' = ghosts \cup {cur}
  /\ todo' = todo \ {cur}
  /\ cur' = None
  /\ pc' = "recover"
  /\ UNCHANGED <<journal, damaged, synced, objects, loose, visible, index, op, pending,
                 acked, touched, nextRev, counters>>

Ready ==
  /\ pc = "recover"
  /\ todo = {}
  /\ Goto("idle")
  /\ UNCHANGED <<disk, visible, acked, touched, nextRev, counters>>

(* ObjectMissing, or an I/O error of reconcile: the open fails.            *)
OpenFails ==
  /\ \/ /\ pc = "recover"
        /\ \E i \in todo : ~Readable(i)
        /\ UNCHANGED <<acked, nextRev, counters>>
     \/ /\ pc \in {"recover", "drop"}
        /\ Fault("io")
  /\ Down
  /\ UNCHANGED <<disk, visible, touched>>

-------------------------------------------------------------------------------
Commit ==
  PutObject \/ SyncObject \/ RegisterIntent \/ ReplaceVisible \/ AppendRecord \/ ClearIntent

Save == ConvertExternal \/ PassGuard \/ RefuseStaleBase \/ RefuseLeaseHeld \/ BeginCommit \/ Commit

Scan == ScanDone \/ \E f \in pending : ScanSave(f)

Recover == Open \/ DropIntent \/ Ready \/ OpenFails \/ \E i \in todo : Reconcile(i)

Request ==
  \/ \E p \in Paths, base \in {NoRev} \cup RevsOf(index), c \in Contents : SaveByPath(p, base, c)
  \/ \E d \in DocsOf(index), base \in {NoRev} \cup RevsOf(index), c \in Contents :
       SaveById(d, base, c)
  \/ ScanBegin

(* The daemon waits for a request.                                         *)
Wait == pc = "idle" /\ UNCHANGED vars

Next ==
  \/ Request \/ Wait
  \/ Save \/ Scan \/ Recover
  \/ Kill \/ PowerLoss \/ FailIo \/ FailClear \/ OpenCorrupt
  \/ \E p \in Paths, c \in Contents \cup {None} : Edit(p, c)

Spec == Init /\ [][Next]_vars

(* A thread that serves a request runs on, and a vault that went down is   *)
(* opened again; nobody has to send a request.                             *)
FairSpec == Spec /\ WF_vars(Save \/ Scan \/ Recover)

-------------------------------------------------------------------------------
(* Properties.                                                             *)

(* Every document's journal records form one linear chain, across guard    *)
(* conversions, refused saves, crashes and recoveries (DocIndex::build     *)
(* refuses to open a vault whose journal does not).                        *)
LinearHistory == Chained(journal)

(* A revision whose append returned Ok is, for good, among the journal     *)
(* records that tail repair and replay will find: "no acknowledged write   *)
(* is ever rolled back" (reconcile.rs).                                    *)
AckedDurable == acked \subseteq RevsOf(SubSeq(journal, 1, synced))

(* The content of every durable revision is durably in the object store:   *)
(* a head can always be read, whatever was lost in the crash.              *)
DurableReadable == \A i \in 1..synced : journal[i].object \in objects \ loose

(* What the index tells readers and base checks is durable: a revision     *)
(* that was once the head of an open vault does not vanish with the next   *)
(* power loss.                                                             *)
IndexDurable ==
  pc # "down" => index \in {SubSeq(journal, 1, n) : n \in 0..synced}

(* Bytes the engine put into a visible file that are not the head's        *)
(* content are covered by a registered intent, at every step and through   *)
(* every crash: recovery can always tell them from a user's edit.          *)
IntentCovers ==
  \A p \in Paths \ touched :
    \/ visible[p] = ObjectAt(journal, p)
    \/ \E i \in intents : i.path = p /\ i.object = visible[p]

(* Whenever the vault is at rest, after saves, scans, refused saves and    *)
(* recoveries, each file nobody else touched holds its document's head.    *)
RestFaithful ==
  pc = "idle" => \A p \in Paths \ touched : visible[p] = ObjectAt(index, p)

(* The engine replaces or removes bytes only when the object store has     *)
(* them: a copy survives even where the journal does not name it.          *)
BytesStayInStore ==
  [][\A p \in Paths :
       p \notin touched' /\ visible[p] \notin {None, visible'[p]} => visible[p] \in objects]_vars

(* The engine replaces or removes bytes a user wrote only after they have  *)
(* become a revision: "Never clobber user bytes" (reconcile.rs), "bytes at *)
(* rest are always captured" (external.rs).                                *)
Recorded(p, c) == \E i \in DOMAIN journal : journal[i].path = p /\ journal[i].object = c

NeverClobber ==
  [][\A p \in touched \ touched' :
       visible[p] \notin {None, visible'[p]} => Recorded(p, visible[p])]_vars

(* A client's save replaces nothing but the bytes of the revision it was   *)
(* based on, or its own: an edit it has not seen makes it fail, whoever    *)
(* made the edit and through whichever door ("The never-clobber guard").   *)
BytesOf(r) == {journal[i].object : i \in {j \in DOMAIN journal : journal[j].rev = r}}

OverwritesOnlyItsBase ==
  [][ReplaceVisible /\ ~Converting
       => visible[op.path] \in {None, op.content} \cup BytesOf(op.base)]_vars

(* A scan that succeeds leaves no visible file whose bytes are not the     *)
(* head of a document.                                                     *)
ScanCaptures ==
  [][ScanDone => \A p \in Paths : visible[p] \in {None, ObjectAt(index, p)}]_vars

(* Journal records that were fsynced stay as they are, in every kind of    *)
(* failure.                                                                *)
DurablePrefix ==
  [][synced <= synced' /\ SubSeq(journal', 1, synced) = SubSeq(journal, 1, synced)]_vars

(* Every save, scan and recovery comes to an end, and then no intent of it *)
(* is left to be acted on later.                                           *)
Settles == pc # "idle" ~> pc = "idle" /\ intents = {}

(* The vault implements the history it promises. *)
History == INSTANCE VaultHistory WITH history <- journal
Implements == History!HSpec
==============================================================================
