------------------------------- MODULE Proposals -------------------------------
(***************************************************************************)
(* Proposals of compos-core: the proposal log (proposal.rs) and the        *)
(* operations of the vault on it (vault.rs: create_proposal,               *)
(* accept_proposal, reject and withdraw), with crashes between the save    *)
(* that accepts a proposal and the record that closes it.                  *)
(*                                                                         *)
(* The vault below is VaultHistory, which VaultStore implements: a save is *)
(* one Commit, a crash one Lose.  What hunks make of a text is HunkSplice; *)
(* a revision that was accepted knows its parent, and with it the content  *)
(* the hunks were spliced into.                                            *)
(*                                                                         *)
(* As in that implementation, no system call of a save fails after it has  *)
(* changed something; "io" is a failing append to the proposal log.        *)
(***************************************************************************)
EXTENDS VaultHistory, FiniteSets

CONSTANTS
  None,       \* nothing in hand
  Faults,     \* which of "kill", "power" and "io" can happen
  MaxProps,   \* bound: how many proposals are ever created
  MaxFaults   \* bound: faults in a behaviour

ASSUME ProposalAssumption ==
  /\ Faults \subseteq {"kill", "power", "io"}
  /\ MaxProps \in Nat
  /\ MaxFaults \in Nat

VARIABLES
  plog,      \* parseable records of the proposal log
  torn,      \* a torn line follows them
  psynced,   \* how many of the records are known to be on disk for good
  applied,   \* the records folded into the in-memory index
  pc,        \* what the process does next
  job,       \* the proposal being accepted, or the record being appended
  landed,    \* observation: which revision came from accepting which proposal
  told,      \* observation: records whose append returned Ok
  nextProp, nextRev, faults,
  failed     \* observation: an append to the log has reported an error

plogvars == <<plog, torn, psynced>>
vars == <<history, acked, plogvars, applied, pc, job, landed, told, nextProp, nextRev, faults, failed>>

PropId == 1..MaxProps

Create == [event: {"create"}, prop: PropId, doc: RevId \cup {NoDoc}, path: Paths,
           base: RevId \cup {NoRev}]
Resolve == [event: {"accepted"}, prop: PropId, rev: RevId]
             \cup [event: {"rejected", "withdrawn"}, prop: PropId]

ASSUME NoneAssumption == None \notin Create \cup Resolve

(* The state of a proposal, as folded from a log. *)
Known(log)       == {log[i].prop : i \in DOMAIN log}
Resolved(log, q) == \E i \in DOMAIN log : log[i].prop = q /\ log[i].event # "create"
OpenIn(log)      == {q \in Known(log) : ~Resolved(log, q)}
Created(log, q)  == CHOOSE r \in {log[i] : i \in DOMAIN log} : r.prop = q /\ r.event = "create"

(* What replay enforces: create first, resolve exactly once, nothing after. *)
Replayable(log) ==
  \A i \in DOMAIN log :
    LET before == SubSeq(log, 1, i - 1)
    IN  IF log[i].event = "create" THEN log[i].prop \notin Known(before)
                                   ELSE log[i].prop \in OpenIn(before)

PTypeOK ==
  /\ history \in Seq(Record)
  /\ acked \subseteq RevId
  /\ plog \in Seq(Create \cup Resolve)
  /\ torn \in BOOLEAN
  /\ psynced \in 0..Len(plog)
  /\ applied \in Seq(Create \cup Resolve)
  /\ pc \in {"down", "idle", "guard", "check", "append"}
  /\ job \in Create \cup Resolve \cup {None}
  /\ landed \subseteq PropId \X RevId
  /\ told \subseteq Create \cup Resolve
  /\ nextProp \in 1..(MaxProps + 1)
  /\ nextRev \in 1..(MaxRevs + 1)
  /\ faults \in 0..MaxFaults
  /\ failed \in BOOLEAN
  /\ pc \in {"guard", "check"} => job \in Create
  /\ pc = "append" => job # None

Init ==
  /\ HInit
  /\ plog = <<>> /\ torn = FALSE /\ psynced = 0
  /\ applied = <<>> /\ pc = "idle" /\ job = None
  /\ landed = {} /\ told = {}
  /\ nextProp = 1 /\ nextRev = 1 /\ faults = 0 /\ failed = FALSE

-------------------------------------------------------------------------------
(* The vault around the proposals.                                         *)

PathHead(p) == HeadRev(history, DocAt(history, p))

Revision(d, p, c) ==
  [doc |-> d, rev |-> nextRev, parent |-> HeadRev(history, d), object |-> c, path |-> p]

DocFor(p) == IF DocAt(history, p) = NoDoc THEN nextRev ELSE DocAt(history, p)

(* Somebody saves or edits the document at a path. *)
CommitElsewhere(p, c) ==
  /\ pc = "idle"
  /\ nextRev <= MaxRevs
  /\ Commit(Revision(DocFor(p), p, c))
  /\ acked' = acked \cup {nextRev}
  /\ nextRev' = nextRev + 1
  /\ UNCHANGED <<plogvars, applied, pc, job, landed, told, nextProp, faults, failed>>

-------------------------------------------------------------------------------
(* Appending to the log, and what calls it.                                *)

StartAppend(record) ==
  /\ job' = record
  /\ pc' = "append"

CreateProposal(p) ==
  /\ pc = "idle"
  /\ nextProp <= MaxProps
  /\ StartAppend([event |-> "create", prop |-> nextProp, doc |-> DocAt(history, p),
                  path |-> p, base |-> PathHead(p)])
  /\ nextProp' = nextProp + 1
  /\ UNCHANGED <<history, acked, plogvars, applied, landed, told, nextRev, faults, failed>>

(* reject_proposal and withdraw_proposal: resolve_simple. *)
ResolveSimple(q, resolution) ==
  /\ pc = "idle"
  /\ q \in OpenIn(applied)
  /\ StartAppend([event |-> resolution, prop |-> q])
  /\ UNCHANGED <<history, acked, plogvars, applied, landed, told, nextProp, nextRev, faults, failed>>

(* A line written behind a torn one becomes part of it. *)
WriteLine == plog' = IF torn THEN plog ELSE Append(plog, job)

(* Faulty variant: no fsync before the answer. *)
AppendRecord_NoFsync ==
  /\ pc = "append"
  /\ WriteLine
  /\ applied' = Append(applied, job)
  /\ told' = told \cup {job}
  /\ pc' = "idle"
  /\ job' = None
  /\ UNCHANGED <<history, acked, torn, psynced, landed, nextProp, nextRev, faults, failed>>

(* ProposalStore::append: write, fsync, fold into the index.               *)
AppendRecord ==
  /\ pc = "append"
  /\ WriteLine
  /\ psynced' = Len(plog')
  /\ applied' = Append(applied, job)
  /\ told' = told \cup {job}
  /\ pc' = "idle"
  /\ job' = None
  /\ UNCHANGED <<history, acked, torn, landed, nextProp, nextRev, faults, failed>>

-------------------------------------------------------------------------------
(* accept_proposal: the stale check, the save, the record.                 *)

(* Faulty variant: a proposal without a base is never stale. *)
Moved_IfBased(base, head) == base # NoRev /\ head # base

(* The comparison of proposal_is_stale, of the recheck at accept time and  *)
(* of step 1 of the save.                                                  *)
Moved(base, head) == head # base

(* Faulty variant: the head of the document the proposal names. *)
Stale_ByDoc(q) == LET p == Created(applied, q) IN Moved(p.base, HeadRev(history, p.doc))

Stale(q) == LET p == Created(applied, q) IN Moved(p.base, PathHead(p.path))

(* Faulty variant: a proposal can be accepted whatever its state. *)
Accept_Closed(q) ==
  /\ pc = "idle"
  /\ q \in Known(applied)
  /\ ~Stale(q)
  /\ job' = Created(applied, q)
  /\ pc' = "guard"
  /\ UNCHANGED <<history, acked, plogvars, applied, landed, told, nextProp, nextRev, faults, failed>>

Accept(q) ==
  /\ pc = "idle"
  /\ q \in OpenIn(applied)
  /\ ~Stale(q)
  /\ job' = Created(applied, q)
  /\ pc' = "guard"
  /\ UNCHANGED <<history, acked, plogvars, applied, landed, told, nextProp, nextRev, faults, failed>>

(* DocRef::Id for a proposal on a document, DocRef::Path for a new one.    *)
TargetDoc  == IF job.doc # NoDoc THEN job.doc ELSE DocFor(job.path)

(* The guard of the save finds an edit made outside and records it first.  *)
ConvertExternal(c) ==
  /\ pc = "guard"
  /\ nextRev <= MaxRevs
  /\ Commit(Revision(TargetDoc, job.path, c))
  /\ acked' = acked \cup {nextRev}
  /\ nextRev' = nextRev + 1
  /\ pc' = "check"
  /\ UNCHANGED <<plogvars, applied, job, landed, told, nextProp, faults, failed>>

(* Faulty variant: the save goes by the head it finds. *)
Lands_OnHead(c) ==
  /\ pc \in {"guard", "check"}
  /\ nextRev <= MaxRevs
  /\ Commit(Revision(TargetDoc, job.path, c))
  /\ nextRev' = nextRev + 1
  /\ landed' = landed \cup {<<job.prop, nextRev>>}

(* The save of the merged content commits. *)
Lands(c) ==
  /\ pc \in {"guard", "check"}
  /\ nextRev <= MaxRevs
  /\ ~Moved(job.base, HeadRev(history, TargetDoc))
  /\ Commit(Revision(TargetDoc, job.path, c))
  /\ nextRev' = nextRev + 1
  /\ landed' = landed \cup {<<job.prop, nextRev>>}

(* Faulty variant: the revision is logged as accepted before it is durable. *)
AcceptSaves_Unsynced(c) ==
  /\ Lands(c)
  /\ acked' = acked
  /\ StartAppend([event |-> "accepted", prop |-> job.prop, rev |-> nextRev])
  /\ UNCHANGED <<plogvars, applied, told, nextProp, faults, failed>>

AcceptSaves(c) ==
  /\ Lands(c)
  /\ acked' = acked \cup {nextRev}
  /\ StartAppend([event |-> "accepted", prop |-> job.prop, rev |-> nextRev])
  /\ UNCHANGED <<plogvars, applied, told, nextProp, faults, failed>>

(* StaleBase, a lease held by somebody else, or an error of the save       *)
(* before it changed the file or the journal.                              *)
AcceptRefused ==
  /\ pc \in {"guard", "check"}
  /\ pc' = "idle"
  /\ job' = None
  /\ UNCHANGED <<history, acked, plogvars, applied, landed, told, nextProp, nextRev, faults, failed>>

-------------------------------------------------------------------------------
(* Faults and recovery.                                                    *)

Fault(kind) ==
  /\ kind \in Faults
  /\ faults < MaxFaults
  /\ faults' = faults + 1
  /\ failed' = (failed \/ kind = "io")
  /\ UNCHANGED <<told, nextProp>>

Down == pc' = "down" /\ applied' = <<>> /\ job' = None

(* A save that was under way may have reached the journal.                 *)
HalfSaved == \E c \in Contents : Lands(c) /\ acked' = acked

Kill ==
  /\ pc # "down"
  /\ Fault("kill")
  /\ Down
  /\ HalfSaved \/ UNCHANGED <<history, acked, landed, nextRev>>
  /\ \/ UNCHANGED <<plog, torn>>
     \/ pc = "append" /\ WriteLine /\ UNCHANGED torn
     \/ pc = "append" /\ torn' = TRUE /\ UNCHANGED plog
  /\ UNCHANGED psynced

PowerLoss ==
  /\ Fault("power")
  /\ Down
  /\ \/ HalfSaved
     \/ (\E n \in 0..Len(history) : Lose(n)) /\ UNCHANGED <<landed, nextRev>>
  /\ \E log \in {plog} \cup IF pc = "append" /\ ~torn THEN {Append(plog, job)} ELSE {} :
     \E n \in psynced..Len(log) :
       /\ plog' = SubSeq(log, 1, n)
       /\ psynced' = n
       /\ torn' \in {torn, pc = "append" \/ n < Len(log)}

(* The append fails, after some or all of its effect; the vault stays open. *)
FailIo ==
  /\ pc = "append"
  /\ Fault("io")
  /\ pc' = "idle"
  /\ job' = None
  /\ \/ UNCHANGED <<plog, torn>>
     \/ WriteLine /\ UNCHANGED torn
     \/ torn' = TRUE /\ UNCHANGED plog
  /\ UNCHANGED <<history, acked, psynced, applied, landed, nextRev>>

(* Faulty variant: the cut is made behind the torn line. *)
Open_KeepsTorn ==
  /\ pc = "down"
  /\ Replayable(plog)
  /\ torn' = FALSE
  /\ psynced' = IF torn THEN Len(plog) + 1 ELSE psynced
  /\ applied' = plog
  /\ pc' = "idle"
  /\ UNCHANGED <<history, acked, plog, job, landed, told, nextProp, nextRev, faults, failed>>

(* ProposalStore::open_write: repair the tail, replay strictly.            *)
Open ==
  /\ pc = "down"
  /\ Replayable(plog)
  /\ torn' = FALSE
  /\ psynced' = IF torn THEN Len(plog) ELSE psynced
  /\ applied' = plog
  /\ pc' = "idle"
  /\ UNCHANGED <<history, acked, plog, job, landed, told, nextProp, nextRev, faults, failed>>

(* JournalCorrupt: the vault cannot be opened for writing any more.        *)
OpenCorrupt == pc = "down" /\ ~Replayable(plog) /\ UNCHANGED vars

-------------------------------------------------------------------------------
Wait == pc = "idle" /\ UNCHANGED vars

Next ==
  \/ \E p \in Paths, c \in Contents : CommitElsewhere(p, c)
  \/ \E p \in Paths : CreateProposal(p)
  \/ \E q \in PropId, resolution \in {"rejected", "withdrawn"} : ResolveSimple(q, resolution)
  \/ \E q \in PropId : Accept(q)
  \/ \E c \in Contents : ConvertExternal(c) \/ AcceptSaves(c)
  \/ AcceptRefused \/ AppendRecord
  \/ Kill \/ PowerLoss \/ FailIo \/ Open \/ OpenCorrupt \/ Wait

Spec == Init /\ [][Next]_vars

-------------------------------------------------------------------------------
(* Properties.                                                             *)

(* Every proposal is created once and closed at most once ("`resolve`      *)
(* closes it exactly once", proposal.rs), whatever was retried.            *)
ResolvesOnce == Replayable(plog)

(* Until an append has failed, that holds whatever was retried after a     *)
(* crash, and so the log can be replayed and the vault be opened.          *)
ClosedOnce == ~failed => ResolvesOnce

ToldKept == told \subseteq {plog[i] : i \in 1..psynced}

(* What a client was told of a proposal, that it exists or how it was      *)
(* resolved, is on disk for good, until an append has failed.              *)
ToldDurable == ~failed => ToldKept

(* A logged acceptance names a revision that is durably in the history and *)
(* came from that proposal: "never an acceptance claiming a commit that    *)
(* didn't happen" (vault.rs).  Like the three that follow, it takes a vault *)
(* below whose own system calls do not fail.                               *)
AcceptedCommitted ==
  \A i \in DOMAIN plog : plog[i].event = "accepted" =>
    /\ plog[i].rev \in acked \cap RevsOf(history)
    /\ <<plog[i].prop, plog[i].rev>> \in landed

(* A proposal lands in the history at most once, even if a crash kept its  *)
(* acceptance out of the log and a reviewer accepts it again.              *)
LandsOnce ==
  \A x, y \in landed :
    x[1] = y[1] /\ {x[2], y[2]} \subseteq RevsOf(history) => x[2] = y[2]

(* An accepted revision sits directly on the base its hunks were made for. *)
LandsOnItsBase ==
  \A i \in DOMAIN history, j \in DOMAIN plog :
    plog[j].event = "create" /\ <<plog[j].prop, history[i].rev>> \in landed =>
      /\ history[i].parent = plog[j].base
      /\ history[i].path = plog[j].path
      /\ plog[j].doc \in {NoDoc, history[i].doc}

(* A crash between the save and the record leaves the proposal "open       *)
(* against a moved head (derived-stale, rejectable)" (vault.rs).           *)
OrphanIsStale ==
  pc = "idle" => \A x \in landed :
    x[1] \in OpenIn(applied) /\ x[2] \in RevsOf(history) => Stale(x[1])
================================================================================
