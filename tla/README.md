# compOS in TLA+

compOS keeps a vault of plain files and, beside them, a history of every
revision. Its core (`crates/compos-core`) is a hand-written transaction system:
content-addressed objects, write intents, an fsynced journal and a startup
reconciliation, next to files that any other program may edit. A daemon serves
the vault over a socket, and a shell edits it through the daemon.

This directory holds TLA+ models of that code, TLC runs that check them on small
instances, and TLAPS proofs of the results that matter most. Paths below are
relative to `src/`; `core/` stands for `crates/compos-core/src/`.

## Inventory

| component | state | operations | what is hard | what makes it correct |
|---|---|---|---|---|
| save transaction (`core/writer.rs`) | none of its own; drives all of the vault | `save`: resolve, guard, base check, lease, then `commit` steps 2-6 | a crash, an I/O error or an editor between any two steps | an acknowledged revision is durable, chains are linear, nobody's bytes are overwritten unseen |
| journal and index (`core/journal.rs`) | one segment file; `DocIndex` in memory | append, tail repair, replay, chain check | torn lines, lines never fsynced, lines glued to a torn one | the fsynced prefix never changes; what is replayed is chained |
| objects (`core/objects.rs`) | content-addressed files | put, read | rename without directory fsync, dedupe | every durable revision's content is readable |
| reconciliation (`core/reconcile.rs`) | leftovers of a crash | classify and repair each intent | crash windows W1-W7, crashes during recovery, user edits meanwhile | every file nobody else touched shows its head; it ends |
| external edits (`core/external.rs`) | none | `scan_external` | edits during the scan, an error half-way | after a scan every file's bytes are a head |
| vault handle (`core/vault.rs`, `fsutil.rs`) | exclusive file lock, all of the above | init, open_write, open_read, leases, proposals | order of recovery at open | one writer at a time |
| leases (`core/lease.rs`) | in-memory table, wall clock | acquire, renew, release, check | expiry boundary, restart | at most one live holder per document |
| proposals (`core/proposal.rs`, `vault.rs` 279-471) | own journal, index of proposals | create, accept, reject, withdraw | stale base, hunk overlap, crash between the save and the resolution | closed exactly once; applied to the content it was made for |
| derived index (`core/derived.rs`) | SQLite tables with the applied prefix | sync, apply_one, rebuild | falls behind, applied beyond the journal | equals a replay of the journal |
| commands (`core/command.rs`) | registry | 20-odd commands with an effect level | none of its own | - |
| RPC server (`crates/compos-rpc`) | sessions, event bus with sequence numbers, subscriptions | hello, invoke, subscribe, publish | events of concurrent writers, slow subscribers, role of a connection | gaps are detectable; no command above the session's role |
| daemon (`crates/composd`) | the open vault behind a mutex, a file watcher | run, scan on file events | a scan that fails half-way, shutdown | every committed revision is announced |
| composctl | - | one-shot commands | - | - |
| shell (`shell/src`) | RPC client, one buffer with its base revision | open, save, react to events, review | answers and events after an `await`, gaps | typed text is not lost; the base is the head the user saw |
| ids, codecs, profiles, presentation | - | pure functions, rendering | - | - |

How they interact: shell and composctl call the daemon (or the vault directly);
the daemon takes the vault mutex, calls a command, releases the mutex and then
publishes an event for what was committed; the watcher does the same with
`scan_external`. Everything that changes the vault ends in `VaultWriter::save`.
The user's editor changes the visible files with no coordination at all.

## Plan

In this order, the most important behaviour first:

1. `Revisions`, `VaultHistory`, `VaultStore` (**done**): the save transaction,
   the journal, the object store, the scan and recovery against crashes, I/O
   errors and an editor; refinement of the abstract history; type correctness,
   durability, linearity, refinement and what becomes of visible files proved.
2. `Proposals` (**done**): the proposal log over the abstract vault, acceptance as
   a save and a record with a crash between them, staleness; types, closing once,
   durability and the truth of acceptances proved.
3. `ShellBuffer` (**done**): one buffer of the shell, requests and answers, commit
   events, gaps and the end of a connection; its safety properties proved.
4. `EventStream` (**done**): writers, publication after the vault is unlocked, the
   bounded receiver and a client that detects gaps; types, the absence of silent
   losses, the announcements and the client's list proved.
5. `LeaseTable` (**done**): the lease table, the gate of a save and sessions that
   outlive their leases, against a clock; the promise to a holder, and that a
   lease binds no longer than promised, proved.
6. `DerivedIndex` (**done**): the index file, its attachment, the test of the
   applied prefix, catching up and rebuilding against a journal and a file that
   can each lose their tail; all its properties proved.
7. `HunkSplice` (**done**): what `validate_hunks` lets in, what a reviewer selects
   and what `apply_hunks` writes, against a reference definition; proved.
8. Left: a `VaultStore` with the lease table and the derived index inside its
   steps, instead of beside them.

Each module stands for one part with the others reduced to what it needs of them:
`Proposals` sees the vault as `VaultHistory`, which `VaultStore` implements;
`LeaseTable` sees a commit as one step that succeeds or fails, since the vault's
lock is held across it; `DerivedIndex` sees a save as one append, because the
index is only touched behind it.

## The modules

**Revisions** - revision records and what `DocIndex` derives from a log of them.
Ids are abstract: a revision is a number no other revision has; a document is the
number of the first revision attempted for it; an object hash is the content it
identifies. `HeadAt`, `HeadRev`, `DocAt`, `RevsOf` are `head`, `doc_by_path`,
`contains_rev`; `Chained` is the test of `DocIndex::build`.

**VaultHistory** - the abstract promise: a history of revisions in which each is
committed on the head of its document in one atomic step, and from which a crash
removes nothing that was acknowledged.

**VaultStore** - the vault directory (journal, objects, intents, visible files),
the process (`pc`, the in-memory index, the save being served, the scan's pending
files, the intents still to reconcile) and three observation variables (`acked`,
`touched`, and the counters that bound a behaviour).

| variable | code |
|---|---|
| `journal`, `damaged`, `synced` | the segment file: its parseable records, whether a torn line follows them, how many records are known to be fsynced |
| `objects`, `loose` | files in `objects/sha256`, and those whose rename was not fsynced |
| `intents`, `ghosts` | files in `intents/`, and removed ones whose removal was not fsynced |
| `visible` | bytes of the files in `vault/` |
| `index` | the records applied to `DocIndex`, in order |
| `pc`, `op`, `cur` | where `save`, `commit`, `scan_external` or `open_write` is; the request with the document it resolved to; the record or intent in hand |
| `pending`, `todo` | the local collections of `scan_external` and `reconcile` |
| `acked` | revisions for which `Journal::append` returned Ok |
| `touched` | files whose last change was the editor's and not yet recorded |

The exclusive lock (`vault.rs` `take_lock`) and the daemon's mutex admit one
operation at a time, hence one program counter. Every action is one system call,
or one group of them whose intermediate states are among those the model has
already: a rename that was not yet fsynced is, after a power loss, the state
before it or the state after it. `SaveByPath`, `SaveById`, `ConvertExternal`,
`PassGuard`, `RefuseStaleBase`, `RefuseLeaseHeld` and `BeginCommit` are
`VaultWriter::save`; `PutObject`, `SyncObject`, `RegisterIntent`,
`ReplaceVisible`, `AppendRecord` and `ClearIntent` are steps 2 to 6 of `commit`;
`ScanBegin`, `ScanSave`, `ScanDone` are `scan_external`, which saves through the
same actions; `Open`, `Reconcile`, `DropIntent`, `Ready` and `OpenFails` are
`open_write` with `reconcile`. `Kill` stops the process with every file as it is
(a step in progress may or may not have had its effect, an append may be torn);
`PowerLoss` also undoes any choice of what was not fsynced; `FailIo` lets a
system call of the commit fail, after none or all of its effect or with a torn
line, and the vault stays open, as it does in the code.

Abstractions: a file's bytes are one of a few contents; replacing a visible file
is one step, its temporary file and the removal of strays (W1) have no effect any
later step reads; the lease check is a refusal that may always happen; timestamps
are left out, so reconciliation visits intents in any order (the wall clock's
milliseconds may tie or step back); the editor's own writes are durable at once,
and two directory entries that the code never syncs count as durable: the segment
file's in `journal/`, and that of a shard which `put` has just created in
`objects/sha256` (`objects.rs:60`). `DocIndex.apply`
drops an old path when a document moves; no operation moves one.

**Proposals** - the proposal log and the operations on it, over `VaultHistory`:
`VaultStore` implements that module as long as no system call fails, so a save is
one `Commit` here and a power loss one `Lose`. All of this module's properties
share that condition: its `"io"` is a failing append to the proposal log, and a
save that is refused has changed nothing but what its guard recorded.

| variable | code |
|---|---|
| `history`, `acked` | the vault below (`VaultHistory`) |
| `plog`, `torn`, `psynced` | the proposal log file: its parseable records, a torn line after them, how many are known to be fsynced |
| `applied` | the records folded into `ProposalIndex` |
| `pc`, `job` | where `accept_proposal` or an append is; the proposal being accepted, or the record being appended |
| `landed` | observation: which revision came from accepting which proposal |
| `told`, `failed` | observations: records whose append returned Ok; whether an append reported an error |

`CreateProposal`, `ResolveSimple`, `Accept` are the operations of `vault.rs`;
an acceptance goes on as `ConvertExternal`, `AcceptSaves` or `AcceptRefused` (the
save it calls: the guard, the base check, the commit) and ends in `AppendRecord`
of its resolution. `CommitElsewhere` is every other save. `Open` and
`OpenCorrupt` are `ProposalStore::open_write` with its strict replay. The faults
are those of `VaultStore`; a kill or power loss during the save may leave the
revision committed (`HalfSaved`). The text of hunks is `HunkSplice`'s: a revision
that was accepted knows its parent, and with it the content the hunks were spliced
into, which is what `LandsOnItsBase` looks at. Read-only opens are left out.

**HunkSplice** - one proposal's hunks and one acceptance of them. A base is the
number of its lines; what is written is a list of pieces, lines of the base and
texts of hunks, each named by where it belongs. `Propose` is the check of
`create_proposal` (`Valid` is `validate_hunks`, with its saturating sum against
`Largest`, which stands for `u64::MAX`), `Accept` the sorting, deduplication and
range check of the selection, `Splice` one iteration of the loop of `apply_hunks`
and `Finish` what follows it. A slice index out of range or out of order is a
panic (`Sliceable`). An insertion without a final newline runs into the next line;
what it reads like then is left out.

**LeaseTable** - the lease of each document and the sessions that ask for it.

| variable | code |
|---|---|
| `table` | `LeaseTable.leases`: id and `acquired_ms` of each document's lease |
| `clock` | `fsutil::now_ms` |
| `revs`, `base` | the writers of each document's revisions; the revision each session read last |
| `held` | the last lease id each session was granted, which it may present at any time |
| `promise`, `skewed` | observations: how long each session was told its lease still holds; whether a commit failed or the clock was set back |

The vault's lock makes each call one step: `Acquire`, `Renew`, `Release`, and
`Save`, `SaveHeldUp` and `SaveFails` for a save that passes the base check. An
expired lease stays in the table until somebody acquires the document. Restarts
lose the table (`Restart`). The RPC boundary presents no lease id and has no
command for leases, so today only callers of the crate hold any.

**DerivedIndex** - `state/compos.db` beside the journal.

| variable | code |
|---|---|
| `journal`, `torn`, `synced` | the journal, as in `VaultStore`, with a save as one append |
| `file`, `settled` | the index file and its state at the last checkpoint: schema stage, vault id, `applied_records`, `last_rev`, rows |
| `pc`, `known`, `derived` | where `open_write` or a save is; the records of `DocIndex`; `Vault.derived` is `Some` |
| `tx`, `job` | the tables inside the open transaction of `sync`; the record to feed |
| `struck` | observation: a call on the index failed since the vault was opened |

`CreateTables`, `StampVersion`, `AttachReady`, `AttachFails` and `Destroy` are
`DerivedIndex::open` with its one retry; `BeginSync`, `SyncRecord`, `SyncCommits`
and `SyncFails` are `sync`; `Save` and `Feed` are steps 5 and 6 of a
commit with `apply_one`. A constraint of the schema that a row would break is
`Conflict`; in `Feed`, unlike in `sync`, TLC never meets one. An object that `sync`
cannot read (`derived.rs:174`) is one of the failing calls of `IndexFails`, also
when it is missing for good. A transaction is
atomic and survives a kill; a power loss may take the file back to any state
since its last checkpoint (`synchronous = NORMAL`), each file by itself. `Swap`
is what somebody does to the file while the vault is closed: it is removed, or
replaced by one of another version or another vault. A row of `docs` is taken
together with its row of `docs_fts`; counts and timestamps are left out;
`search` and a read-only open change nothing.

**ShellBuffer** - the shell's open document and the connection to the daemon.

| variable | code |
|---|---|
| `store` | the revisions of each document in the daemon's vault |
| `unsent`, `events` | commits not yet published; the event receiver of the connection |
| `requests`, `answers` | the two directions of the WebSocket |
| `serving` | the save that `Session::invoke` has committed and not yet announced |
| `buffer` | `OpenDoc` (path, editor key, base, text, dirty, conflict) |
| `saving` | `savingRef` and the locals of `save()` with the `await` it stands at |
| `deferred` | `deferredCommitsRef` |
| `link` | connected, closed by the daemon, or closed by the user |

Others commit with an event to follow (`OthersCommit`, `Publish`) or without one
(`CommitSilently`): a save or acceptance of another connection that is refused
after its guard recorded an outside edit, an acceptance that fails after its save,
a scan that fails half-way. `store` keeps of each revision whose it is, `"silent"`
for these.

The connection's task answers one request at a time and forwards events between
them; the event of the connection's own save is published before the answer is
sent and forwarded after it, when `save()` waits for the list or has ended; those of
other commits come at any point. A text
is the set of the edits in it: the user and everybody else only add, so that a
text without an edit has lost it. `render` follows every message, so the refs the
handlers read are those of the last message. The editor is taken to be mounted
(Write mode): a reload of the same path and revision keeps the editor's view, and
the replaced text passes through `onChange` (`ReceiveLoaded`). The review panel,
the lists and what only they ask for do not touch the buffer and are left out,
except for the `document.list` that `save()` awaits.

**EventStream** - the daemon's events and one client.

| variable | code |
|---|---|
| `heads`, `open`, `used` | the vault: heads of the documents, open proposals, their ids |
| `agenda`, `inHand` | per thread, what is left to publish after its operation; the numbered event between `next_seq` and `send` |
| `numbered` | the events of each topic, in the order of their numbers |
| `receiver` | the broadcast receiver of the client's connection |
| `topics` | the session's subscriptions |
| `inbox`, `out` | requests of the client; the queue to its writer task |
| `last`, `view` | `lastSeq` and the list of documents in the client |
| `silent`, `got`, `covered` | observations: revisions no event will name; numbers received; numbers a later resync stands in for |

`Operate` is a command or a scan under the vault mutex, `Publish` what its thread
does after unlocking: take a number (`Number`), send (`Send`), read the vault again
for stranded proposals (`CollectStale`), and go through the files of a scan
(`NextFound`). `Forward`, `ServeSubscribe`, `ServeList` are the connection's task;
`ReceiveSubscribed`, `ReceiveEvent` and `ReceiveListed` are `RpcClient.onMessage`
with the handlers of `App.tsx`. The connection's task that waits for room in the
queue holds an event it has already received; the model leaves that event in the
receiver until there is room, so its receiver holds one less than the code's,
which only makes it lag earlier. A scan's files and the stranded proposals come in
any order. Of the client's lists only the documents are followed. The client
subscribes once; a connection that ends is the subject of `ShellBuffer`.

Definitions named `X_Something` beside a definition `X`, in every module, are
faulty variants of it, plausible mistakes in that code. Nothing uses them; each
stands for a mutant that one of the properties has to catch.

**MCVaultStore**, **MCProposals**, **MCShellBuffer**, **MCEventStream**,
**MCLeaseTable**, **MCDerivedIndex**, **MCHunkSplice** - the
symmetry used for small instances. The runs with a liveness property use none.

**Revisions_proofs**, **VaultStore_proofs**, **Proposals_proofs**,
**EventStream_proofs**, **ShellBuffer_proofs**, **LeaseTable_proofs**,
**DerivedIndex_proofs**, **HunkSplice_proofs** - lemmas about logs and sequences, and the theorems.

## What the runs show

| run | instance | properties |
|---|---|---|
| `vault_crash` | 1 file, 3 contents, 3 revisions, 2 power losses anywhere, 2 edits between operations | `TypeOK`, `LinearHistory`, `AckedDurable`, `DurableReadable`, `IndexDurable`, `IntentCovers`, `RestFaithful`, `BytesStayInStore`, `OverwritesOnlyItsBase`, `Implements`, `Settles` |
| `vault_faults` | 2 files, 2 contents, 3 revisions, 2 faults of any kind, 2 edits | `DurablePrefix`, `ScanCaptures` |
| `convert_rollback` | 1 file, 3 contents, 1 kill, 1 edit | `NeverClobber`, violated |
| `failed_append` | 1 file, 3 contents, 1 I/O error | `AckedDurable`, violated |
| `proposals` | 2 paths, 1 content, 3 revisions, 2 proposals, 2 faults of any kind | `PTypeOK`, `ClosedOnce`, `ToldDurable`, `AcceptedCommitted`, `LandsOnce`, `LandsOnItsBase`, `OrphanIsStale` |
| `proposals_io` | 1 path, 1 revision, 1 proposal, 1 failing append | `ResolvesOnce`, violated |
| `shell` | 2 documents, 2 edits, 1 save, 2 openings, 1 lag or disconnection | `STypeOK`, `OthersKept`, `CleanShowsHead`, `ConflictShown`, `SavingEnds` |
| `shell_reload` | 1 document, 3 edits, no fault | `ReloadsAreSafe`, violated |
| `events` | 2 writers, 2 documents, 1 proposal, 2 revisions, a receiver of 2 events, a queue of 1 | `ETypeOK`, `NoSilentLoss`, `ListFollows`, `Announced`, `StaleTold` |
| `leases` | 2 sessions, 1 document, a TTL of 2, 6 instants, 3 leases, 3 revisions, 2 faults | `HolderHolds`, `NoOverhang`, `HolderUndisturbed` |
| `derived` | 2 paths, 2 contents, 3 revisions, 3 faults of any kind | `DTypeOK`, `Consistent`, `PrefixSound`, `IndexCurrent`, `IndexReturns` |
| `hunks` | bases of up to 3 lines, up to 3 hunks, integers up to 4, every selection | `NeverPanics`, `SpliceCorrect` |

Bounds. Three revisions are a base, a conversion and the save that follows, or
two saves and a recovery between them; three contents are the head's, the
editor's and the caller's, which is all the guard and `reconcile` can tell apart;
two faults let recovery itself crash; two edits let one come before and one after
a crash. Two files matter only to the scan and to intents of different files.

Two proposals can strand each other, and three revisions are the two that their
acceptances commit and one of somebody else; the second fault crashes the retry
of what the first interrupted. In `shell`, two edits are one of the user and one
of somebody else, or two of either; the second opening replaces a document while
the first is still on its way; all interleavings of one save with them are there.
In `events`, two revisions and a proposal make up to seven events, more than the
receiver and the queue together hold, so that lagging, gaps and late answers all
occur; the client watches one topic that its list depends on and one that it does
not. A second save of the shell, or a third revision, multiplies the states and
adds no new pair of things in flight.

The types of `LeaseTable` and `HunkSplice` are not part of a run: they are proved.

In `leases`, two sessions and three leases let an old holder come back while a
second one holds the document, and again after that one's lease ran out; documents
do not influence each other, so one is enough; a TTL of 2 has an instant before,
at and after the deadline. In `derived`, three faults are what it takes to bring
index and journal apart: a kill that leaves an unsynced line, an open that puts it
into the index, and a power loss that takes it from the journal only. In `hunks`,
three hunks on three lines can touch, insert at one line, enclose an unselected
one and stand at the end of the file, and integers one beyond the last line
saturate.

Fairness. `FairSpec` of `VaultStore` asks only that a thread that serves a request runs on and that
a vault that went down is opened again. Nobody has to send a request. `Settles`
uses it; all other properties need none. With the power losses bounded, `Settles`
says that saves, scans and recoveries end with no intent left behind.

`FairSpec` of `ShellBuffer` says that the connection's task in the daemon serves
requests and forwards events, and that the browser's event loop delivers what has
arrived; `SavingEnds` uses it. Neither user nor other clients have to do anything.

The four violations are behaviours of the code as it is:

- `convert_rollback`: the conversion of an external edit registers an intent whose
  object is what the user wrote. A kill before the journal append makes
  `reconcile` take the user's file for a half-done save (W4) and put the parent
  back, or delete a new file, although `reconcile.rs:142` says "Never clobber user
  bytes". The bytes are still in the object store (`BytesStayInStore`), under a
  hash no revision names.
- `failed_append`: an append that fails half-way leaves a torn line in an open
  vault. The next save is acknowledged with its line glued to the torn one, and
  the next open cuts both: `writer.rs:3` says "no acknowledged write is ever
  rolled back".
- `proposals_io`: an append whose fsync fails after the whole line was written
  reports an error and leaves the proposal open in memory. The retry appends a
  second resolution, and the next open refuses the vault, although
  `proposal.rs:61` says that `resolve` "closes it exactly once".
- `shell_reload`: a commit event finds a clean buffer and asks for the head; text
  typed before the answer is replaced without a banner. `App.tsx:138` says the
  event is "applied once it is safe: reload a clean buffer, flag a dirty one as
  conflicted".

What holds in which runs is part of the result. `LinearHistory`, `AckedDurable`
and `Implements` hold under kills and power losses and fail only with I/O errors.
`DurableReadable`, `IndexDurable`, `IntentCovers`, `RestFaithful` and
`BytesStayInStore` hold under power losses alone, the last three also under kills
alone; a kill followed by a power loss breaks them through the dedupe of `put`,
which trusts an object whose rename was never fsynced, and through a journal line
that was replayed but never fsynced.

Two more limits can be seen by widening a run's constants. With an editor that
writes while a save is running (`EditAt` with `"put"` or a later step), the bytes
it writes after the guard has read the file are replaced by the rename of step 4
and are in no revision, though `external.rs:16` says that "the bytes at rest are
always captured". With `"samename"` in the `Faults` of `ShellBuffer`, a new
document started at the path of a save in flight inherits that save's revision as
its base, and its own save replaces the document without a `StaleBase`; it is the
only way in which the model breaks `OthersKept`.

`ClosedOnce` and `ToldDurable` are claimed until an append to the log has failed;
`proposals_io` shows why. `AcceptedCommitted`, `LandsOnce`, `LandsOnItsBase` and
`OrphanIsStale` also hold after it has. Nothing is claimed of proposals when a call
of the vault below fails: a torn line in its journal then swallows the line of an
accepted revision, which the next open cuts while the acceptance stays in the
proposal log (`failed_append` shows how), and an accepting save that reports an
error but left its line is repeated.

`NoOverhang` is claimed until a commit fails or the clock is set back. `save`
slides the lease before it commits, so a save that fails has lengthened a lock
that its holder was not told about (rule 2 of `lease.rs` speaks of a successful
save); and a clock that is set back lengthens every lock, because deadlines are
compared with the wall clock. `HolderHolds` and `HolderUndisturbed` hold in either
case: they err on the holder's side. A clock set forward ends leases early and is
not modelled.

`IndexReturns` excepts a journal with two documents at one path. A save of a new
document whose append fails after its line was written is reported as failed; the
retry makes a second document, and from the next open on every rebuild fails at
`UNIQUE(path)`: the vault works, with a warning and without search, although
`writer.rs:175` says that the index rebuilds on the next open and `derived.rs:72`
"never an error the caller has to resolve". `IndexCurrent` is about vaults open for
writing. A read-only open takes the file as it finds it: `Consistent` says that
its tables agree with each other, but they may be behind the journal after a
kill, and ahead of it after a power loss.

`CleanShowsHead` and `ConflictShown` are claimed while no event was missed, and of
revisions that somebody tells the shell about. After a gap the shell refreshes its
lists and leaves the open document alone. After a commit that nobody announces
(`CommitSilently`; `session.rs:214`, `main.rs:185`) a clean buffer stays at the
revision before it, and a dirty one shows no banner, until the document's next
event or a refused save: what the two properties then say is that only such
revisions came after the buffer's base. The daemon's base check remains in both
cases (`OthersKept`, with a lagging receiver and with silent commits). `NoSilentLoss`
speaks of numbers below one that was received: when the newest event of a topic is
lost, nothing tells the client until the topic's next one. Writers that send in
the other order than they were numbered make a client see a gap without a loss,
which costs a refresh, and let `lastSeq` go back, which `NoSilentLoss` and
`ListFollows` show to be harmless. `Announced` and `StaleTold` except the revisions
of operations that fail after they converted an external edit: a save that is
refused, or a scan that ends in an error, publishes nothing for them.

## What is proved

With TLAPS, for all sets of paths, contents, sessions and documents, all bounds and,
where the last column says nothing of `EditAt`, an editor that may write at every
step:

| theorem | statement | under |
|---|---|---|
| `TypeCorrect` | `Spec => []TypeOK` | any faults |
| `DurablePrefixHolds` | `Spec => DurablePrefix` | any faults |
| `AckedDurableHolds` | `Spec => []AckedDurable` | `"io" \notin Faults` |
| `LinearHistoryHolds` | `Spec => []LinearHistory` | `"io" \notin Faults` |
| `ImplementsHistory` | `Spec => Implements` | `"io" \notin Faults` |
| `DurableReadableHolds`, `IndexDurableHolds` | `Spec => []DurableReadable`, `Spec => []IndexDurable` | `Faults \subseteq {"power"}` |
| `NeverForks` | `Spec => []Unforked(journal)` | `"io" \notin Faults` |
| `AlwaysOpens` | `Spec => []`(`Chained(journal)`, and recovery can read every object it needs) | `OneKindOfCrash` |
| `IntentCoversHolds`, `RestFaithfulHolds` | `Spec => []IntentCovers`, `Spec => []RestFaithful` | `OneKindOfCrash` |
| `BytesStayInStoreHolds` | `Spec => BytesStayInStore` | `OneKindOfCrash`; `EditAt` without `"check"` and the steps of the commit |
| `OverwritesOnlyItsBaseHolds` | `Spec => OverwritesOnlyItsBase` | `"io" \notin Faults`; the same `EditAt` |
| `ScanCapturesHolds` | `Spec => ScanCaptures` | any faults; `EditAt` without `"scan"` and the steps of a save |
| `OnlyRecoveryClobbers` | `Spec =>` user bytes that are no revision are replaced only by `TakenBack` | `"io" \notin Faults`; `EditAt` without `"check"` and the steps of the commit |
| `HistoryKeepsPromise` | `HSpec => [](Unforked(history) /\ acked \subseteq RevsOf(history))` | - |
| `VaultBelow` | `Proposals!Spec => HSpec` | any of its faults, none in the calls of a save |
| `PTypeCorrect` | `Proposals!Spec => []PTypeOK` | the same |
| `AcceptedCommittedHolds` | `Proposals!Spec => []AcceptedCommitted` | the same |
| `LandsOnceHolds`, `LandsOnItsBaseHolds`, `OrphanIsStaleHolds` | `Proposals!Spec =>` `[]LandsOnce`, `[]LandsOnItsBase`, `[]OrphanIsStale` | the same |
| `ClosedOnceHolds` | `Proposals!Spec => []ClosedOnce` | the same |
| `ToldDurableHolds` | `Proposals!Spec => []ToldDurable` | the same |
| `ResolvesOnceUnlessIoFails` | `Proposals!Spec => []ResolvesOnce` | the same, and `"io" \notin Faults` |
| `ETypeCorrect` | `EventStream!Spec => []ETypeOK` | finite sets of documents and proposals |
| `NoSilentLossHolds` | `EventStream!Spec => []NoSilentLoss` | the same |
| `AnnouncedHolds`, `StaleToldHolds`, `ListFollowsHolds` | `EventStream!Spec =>` `[]Announced`, `[]StaleTold`, `[]ListFollows` | the same |
| `STypeCorrect` | `ShellBuffer!Spec => []STypeOK` | any faults |
| `OthersKeptHolds` | `ShellBuffer!Spec => []OthersKept` | `"samename" \notin Faults` |
| `CleanShowsHeadHolds`, `ConflictShownHolds` | `ShellBuffer!Spec =>` `[]CleanShowsHead`, `[]ConflictShown` | any faults |
| `LTypesAlways`, `HolderHoldsAlways`, `NoOverhangAlways` | `LeaseTable!Spec => []LTypeOK`, `[]HolderHolds`, `[]NoOverhang` | any faults |
| `HolderUndisturbedAlways` | `LeaseTable!Spec => HolderUndisturbed` | any faults |
| `DerivedTypes`, `ConsistentAlways`, `PrefixSoundAlways`, `IndexCurrentAlways`, `IndexReturnsAlways` | `DerivedIndex!Spec =>` `[]DTypeOK`, `[]Consistent`, `[]PrefixSound`, `[]IndexCurrent`, `[]IndexReturns` | any faults |
| `SpliceTypes`, `NeverPanicsAlways`, `SpliceCorrectAlways` | `HunkSplice!Spec =>` `[]HTypeOK`, `[]NeverPanics`, `[]SpliceCorrect` | `Largest > MaxLines` |

The assumption on `Faults` is not a convenience: with failing system calls the
statements are false (`failed_append`, and the chain break that
`OpenCorrupt` stands for), and so is `OthersKept` with `"samename"`.
`OneKindOfCrash` is `"io" \notin Faults` and not both `"kill"` and `"power"`: the
statements under it fail when a power loss follows a kill. Nor is that on `EditAt`:
the code reads the file, decides, and renames over it later without a lock that an
editor would respect, and what is written in between is lost. Outside that window
the editor writes at any time, also while the vault is down or recovers. The other
assumptions are those of the modules: the bounds are naturals, and `None` is no
content, record or operation.

`TypeOK` alone is not inductive: a save that passes the guard needs a revision to
spend, and the intents of a recovery must stay registered while it visits them,
so `TypeInv` adds the two facts. `HistoryInv` is the inductive invariant behind
the theorems about the store that exclude failing calls. Acknowledgments are safe because a line is acknowledged
only when everything before it is fsynced and nothing is torn, so it says that a
torn line exists only while the process is down. Chains are safe because the index
of an open vault is the journal (with the record in hand during step 6), so the
parent chosen from the index is the head of the journal's chain, and because a
record in hand has a revision the journal does not have yet. For the refinement,
the append, and a kill or power loss that leaves its line behind, are `Commit`; a
power loss that drops unsynced records is `Lose`; all other steps stutter.

The two sides of that refinement meet in `VaultHistory`: `ImplementsHistory` says
that the store is one, `VaultBelow` that the proposals use nothing else, and
`HistoryKeepsPromise` what it is good for. (The `"io"` of `Proposals` is
a failing append to its own log. A failing call in a save is one of the store's,
where `ImplementsHistory` excludes it, so every theorem about `Proposals` is one
about vaults in which no such call fails.) Two revisions with the same parent would
be an update that was lost: chained records whose revisions are all different
cannot have that (`ChainsDoNotFork`), since the later one names the last record of
the document before it. With a failed append the vault does fork, because the
retry takes its parent from an index that lacks the line which reached the disk.

`OnlyRecoveryClobbers` and `ResolvesOnceUnlessIoFails` bound two of the findings.
Without failing calls, the only step that breaks "Never clobber user bytes" is the
one `convert_rollback` shows; and a log that cannot be replayed takes an append
that failed.

`SettledInv` is behind `DurableReadable` and `IndexDurable`, where power losses are
the only faults: no journal record waits for an fsync between two steps, and an
object only between its rename and the fsync of its shard. A kill breaks both
halves: the next process takes the renamed object, or the line it finds, for
settled.

What becomes of visible files rests on the relation between paths and documents.
`PlaceInv`, which holds whatever fails, says that a document keeps its path;
`FiledInv`, which needs that no call fails, that a path keeps its document. The
head of a path and the head of a document are then the same record. `GuardInv`
carries what the guard has seen, and the base check it made, to the rename
(`OverwritesOnlyItsBase`). `ScanInv` says of a running scan that each file holds a
head or is still in `pending`, and of the save of one of them that this is true of
all other files; with `PlaceInv`, a record that becomes the head of its document
cannot take away the head of another file's path.

For recovery, `IntentInv` says what is known of an intent: recovery has its bytes
in the store in spite of any crash, and, if the journal lacks its revision, its
parent is still the head of its document (`Undoable`). The second part is why the
fsync of `intents/` belongs before the rename: it also settles the removal of all
older intents, and only then does the journal grow, so that an intent which a
power loss brings back was either committed or has seen no commit since. `CoverInv`
is the induction over a recovery: before each visit a file nobody else touched has
its head's bytes, or those of an uncommitted intent still to be visited; each
visit either leaves a file alone or gives it its head's bytes. `StoredInv` adds
that no crash takes an object that the journal names, which is where the two kinds
of crash part: after a kill objects may be loose, and only a power loss takes
loose ones. It also gives `AlwaysOpens`, which is not true of a kill followed by a
power loss either: the open then fails with `ObjectMissing`. `BytesStayInStore` combines all of them: what the engine replaces is
the head's, an intent's, or what the running commit has just stored.

`LogInv`, claimed while `failed` is false, is the inductive invariant of `ClosedOnce`
and `ToldDurable`: as above, what
was told is fsynced and a torn line exists only while the process is down; the
index of an open vault is the log, so that the record in hand, which the index let
pass, fits behind the log; and every prefix of a log that can be replayed can be
replayed, which is what a power loss leaves. `AcceptInv` is that of
`AcceptedCommitted`: a resolution is appended only after the save it names was
acknowledged, and `VaultHistory` never loses an acknowledged revision. `LandInv` is
behind where a proposal lands: all copies of a creation, in the log, in the index
and in hand, are one and the same; revisions are numbered in the order of the
history; and a revision that came from a proposal sits on the base of its creation
(`Based`). Its document's head, and the head at its path, are then at least that
revision and so past the base, which is all the stale check and the save need to
refuse a second acceptance.

`EInv` is the inductive invariant of `NoSilentLoss`. Without a gap the client jumps
from `last` to at most its successor, so `last` has to be a number that was
received or that a resync stands in for (`LastAccounted`). With a gap the resync
stands in for all numbers given out so far, so every number on its way has to be
one of them (`OnTheWay`). And the answer to the subscription, which sets `last`,
comes before any event (`SubscribedOnce`). `Announced` and `StaleTold` speak of
writers that are done; before that, what is not yet announced is in some writer's
plan (`AnnouncedOrPlanned`), and a stranded proposal has been called stale, will
be, or its document is still to be searched for such proposals
(`StaleToldOrPlanned`): a proposal created after the search has a base at or past
the commit. For `ListFollows` the list that counts is the last one on its way, or
the one shown when none is (`LastListShows`): each revision that the client was
told of is in it, unless the client's own request for a newer one is still before
the daemon. That needs what a number stands for to be in the vault already
(`RevisionsKnown`).

`CoreInv` gives the types of `ShellBuffer` and says where a save is
(`SaveInFlight`): in exactly one of the requests, the daemon and the answers, in
the phase that `saving` remembers. `Reflects` says that what the shell holds of a
revision (a clean buffer, an answer on its way, the text of the save that was
committed) is what the daemon has under that number. For `OthersKept`, revisions
must also reach the shell in order (`Ordered`); then `Kept` can say of the buffer,
of the save request and of the committed save that their text has the same edits
of others as the revision they name as their base. The new document that
`"samename"` allows is what breaks it. `Informed` is behind `CleanShowsHead` and
`ConflictShown`: as long as no event was missed, a buffer that is behind the last
revision of its document that is not silent (`LastTold`) carries the banner, has
that revision's event put off, or will be told:
the event is unpublished or on its way, or a read is, or a refused save is about
to ask for one (`Coming`). Each answer that may itself move the base has the same
promise behind it in the queue (`InformedAnswers`), since taking it may put the
buffer behind.

`LInv` adds to the two statements about leases where ids come from: they are handed
out once (`IdsHandedOut`), so no two sessions hold the same one (`IdsApart`), and a
late call with a replaced id matches nothing. The promise to a holder then only
has to survive the steps that touch its own document's lease.

`DInv` says of all lists of records there are (the journal, the process's own, and
those in the index file and its checkpoint) that they agree: where one position of
two lists holds the same revision, the lists are equal up to there (`Fits`). A
length and a last revision then identify a prefix, which is `PrefixSound`. New
revisions keep it because an id is used once; cutting a list keeps it because the
relation is closed under prefixes. `Progress` says what each step of the process
has established: in `feed` the process's records are the index's and the one in
hand, so a position that is counted from the file is the record's own.

`HInv` describes the output of the splice after any number of iterations: exactly the pieces
below the cursor and those of the hunks done, in their places. `validate_hunks`
makes every end the true sum and every hunk start at or after the end of all
earlier ones, so that every slice starts at or before its end, whatever hunks the
selection leaves out.

Only model-checked: liveness (`Settles`, `SavingEnds`), which the prover does not
reach. Each safety and action property of the passing runs is also a theorem.

## Not modelled

Left out: pure parsing and formatting (ids, codecs, profiles, command
arguments), which has no state; roles and effect levels, which are one comparison
per request; read-only opens; the daemon's start, bind address and shutdown; the
shell's review panel, lists and presentation; `composctl`, which calls one command
and ends.
