------------------------------ MODULE LeaseTable ------------------------------
(***************************************************************************)
(* Edit leases of compos-core: the in-memory table (lease.rs), the vault's *)
(* operations on it (vault.rs: acquire_lease, renew_lease, release_lease)  *)
(* and the gate in a save (writer.rs, step 1), for several sessions that   *)
(* edit the same documents against a wall clock.                           *)
(*                                                                         *)
(* The lock around the vault makes each call one step.  The steps of a     *)
(* commit are VaultStore's; here it succeeds or fails.  A document is its  *)
(* list of revisions, of which only the writer matters.                    *)
(***************************************************************************)
EXTENDS Integers, Sequences

CONSTANTS
  Sessions,   \* callers of the vault; each knows the lease ids it was given
  Docs,
  Outside,    \* the writer of bytes that appear in the visible file
  TTL,        \* DEFAULT_LEASE_TTL_MS
  Faults,     \* which of "restart", "stepback" and "io" can happen
  MaxClock,   \* bound: the latest time
  MaxLeases,  \* bound: how many leases are ever granted
  MaxRevs,    \* bound: revisions of one document
  MaxFaults   \* bound: faults in a behaviour

ASSUME LeaseAssumption ==
  /\ Outside \notin Sessions
  /\ TTL \in Nat \ {0}
  /\ MaxClock \in Nat
  /\ MaxLeases \in Nat
  /\ MaxRevs \in Nat
  /\ MaxFaults \in Nat
  /\ Faults \subseteq {"restart", "stepback", "io"}

VARIABLES
  table,    \* the lease of each document, or Free
  clock,    \* what fsutil::now_ms returns
  revs,     \* the writers of each document's revisions
  base,     \* the revision of each document each session works from
  held,     \* the last lease id each session was granted on each document
  promise,  \* observation: for how long the session was told its lease still holds
  skewed,   \* observation: a failed commit or a clock step came in between
  nextId, faults

vars == <<table, clock, revs, base, held, promise, skewed, nextId, faults>>

Time    == 0..MaxClock
LeaseId == 1..MaxLeases
NoId    == 0
Free    == [id |-> NoId, at |-> 0]
Over    == 0

LTypeOK ==
  /\ table \in [Docs -> [id: LeaseId, at: Time] \cup {Free}]
  /\ clock \in Time
  /\ revs \in [Docs -> Seq(Sessions \cup {Outside})]
  /\ base \in [Sessions -> [Docs -> Nat]]
  /\ held \in [Sessions -> [Docs -> LeaseId \cup {NoId}]]
  /\ promise \in [Sessions -> [Docs -> 0..TTL]]
  /\ skewed \in BOOLEAN
  /\ nextId \in 1..(MaxLeases + 1)
  /\ faults \in 0..MaxFaults

Init ==
  /\ table = [d \in Docs |-> Free]
  /\ clock = 0
  /\ revs = [d \in Docs |-> <<>>]
  /\ base = [s \in Sessions |-> [d \in Docs |-> 0]]
  /\ held = [s \in Sessions |-> [d \in Docs |-> NoId]]
  /\ promise = [s \in Sessions |-> [d \in Docs |-> Over]]
  /\ skewed = FALSE
  /\ nextId = 1 /\ faults = 0

-------------------------------------------------------------------------------
(* The table.                                                              *)

Deadline(d) == table[d].at + TTL

(* Lease::live_at of the document's lease, when there is one.              *)
Live(d) == table[d].id # NoId /\ clock < Deadline(d)

Slide(d) == table' = [table EXCEPT ![d].at = clock]

Tell(s, d) == promise' = [promise EXCEPT ![s][d] = TTL]

(* LeaseTable::acquire; LeaseHeld while somebody's lease is live, the      *)
(* caller's own included.                                                  *)
Acquire(s, d) ==
  /\ nextId <= MaxLeases
  /\ ~Live(d)
  /\ table' = [table EXCEPT ![d] = [id |-> nextId, at |-> clock]]
  /\ held' = [held EXCEPT ![s][d] = nextId]
  /\ Tell(s, d)
  /\ nextId' = nextId + 1
  /\ UNCHANGED <<clock, revs, base, skewed, faults>>

(* LeaseTable::renew; an id that expired or was replaced is refused.       *)
Renew(s, d) ==
  /\ held[s][d] # NoId
  /\ Live(d)
  /\ table[d].id = held[s][d]
  /\ Slide(d)
  /\ Tell(s, d)
  /\ UNCHANGED <<clock, revs, base, held, skewed, nextId, faults>>

(* Faulty variant: the document's lease is removed without comparing ids. *)
Release_Any(s, d) ==
  /\ held[s][d] # NoId
  /\ table' = [table EXCEPT ![d] = Free]
  /\ promise' = [promise EXCEPT ![s][d] = Over]
  /\ UNCHANGED <<clock, revs, base, held, skewed, nextId, faults>>

(* LeaseTable::release, of a lease that may have expired or been replaced. *)
Release(s, d) ==
  /\ held[s][d] # NoId
  /\ table' = IF table[d].id = held[s][d] THEN [table EXCEPT ![d] = Free] ELSE table
  /\ promise' = [promise EXCEPT ![s][d] = Over]
  /\ UNCHANGED <<clock, revs, base, held, skewed, nextId, faults>>

-------------------------------------------------------------------------------
(* Saves.                                                                  *)

Read(s, d) ==
  /\ base' = [base EXCEPT ![s][d] = Len(revs[d])]
  /\ UNCHANGED <<table, clock, revs, held, promise, skewed, nextId, faults>>

(* Faulty variant: a save that presents no lease is never held up. *)
Gate_Optional(d, presented) == Live(d) => presented \in {NoId, table[d].id}

(* The refusals of LeaseTable::check_and_renew.                            *)
Gate(d, presented) == Live(d) => presented = table[d].id

(* Faulty variant: a refused save slides the lease it ran into. *)
SaveHeldUp_Slides(s, d, presented) ==
  /\ base[s][d] = Len(revs[d])
  /\ ~Gate(d, presented)
  /\ Slide(d)
  /\ UNCHANGED <<clock, revs, base, held, promise, skewed, nextId, faults>>

(* LeaseHeld: a save on the head that somebody's lease keeps out.          *)
SaveHeldUp(s, d, presented) ==
  /\ base[s][d] = Len(revs[d])
  /\ ~Gate(d, presented)
  /\ UNCHANGED vars

(* Step 1 of VaultWriter::save: the base, then the lease, which slides.    *)
Admit(s, d, presented) ==
  /\ base[s][d] = Len(revs[d])
  /\ Gate(d, presented)
  /\ IF Live(d) THEN Slide(d) ELSE UNCHANGED table

(* ... and the commit succeeds.                                            *)
Save(s, d, presented) ==
  /\ Len(revs[d]) < MaxRevs
  /\ Admit(s, d, presented)
  /\ revs' = [revs EXCEPT ![d] = Append(@, s)]
  /\ base' = [base EXCEPT ![s][d] = Len(revs[d]) + 1]
  /\ IF Live(d) THEN Tell(s, d) ELSE UNCHANGED promise
  /\ UNCHANGED <<clock, held, skewed, nextId, faults>>

(* The never-clobber guard of a save, or a scan, records what somebody     *)
(* wrote to the visible file, whoever holds the lease.                     *)
ConvertExternal(d) ==
  /\ Len(revs[d]) < MaxRevs
  /\ revs' = [revs EXCEPT ![d] = Append(@, Outside)]
  /\ UNCHANGED <<table, clock, base, held, promise, skewed, nextId, faults>>

-------------------------------------------------------------------------------
(* Time and faults.                                                        *)

Tick ==
  /\ clock < MaxClock
  /\ clock' = clock + 1
  /\ promise' = [s \in Sessions |-> [d \in Docs |->
                   IF promise[s][d] = Over THEN Over ELSE promise[s][d] - 1]]
  /\ UNCHANGED <<table, revs, base, held, skewed, nextId, faults>>

Fault(kind) ==
  /\ kind \in Faults
  /\ faults < MaxFaults
  /\ faults' = faults + 1

(* An admitted save whose commit fails has slid the lease all the same.    *)
SaveFails(s, d, presented) ==
  /\ Fault("io")
  /\ Admit(s, d, presented)
  /\ skewed' = TRUE
  /\ UNCHANGED <<clock, revs, base, held, promise, nextId>>

(* The system clock is set back.                                           *)
StepBack(to) ==
  /\ Fault("stepback")
  /\ to < clock
  /\ clock' = to
  /\ skewed' = TRUE
  /\ UNCHANGED <<table, revs, base, held, promise, nextId>>

(* The table is lost; the clients may still present their old ids.         *)
Restart ==
  /\ Fault("restart")
  /\ table' = [d \in Docs |-> Free]
  /\ promise' = [s \in Sessions |-> [d \in Docs |-> Over]]
  /\ UNCHANGED <<clock, revs, base, held, skewed, nextId>>

Next ==
  \/ \E s \in Sessions, d \in Docs :
       \/ Acquire(s, d) \/ Renew(s, d) \/ Release(s, d) \/ Read(s, d)
       \/ \E presented \in {NoId, held[s][d]} :
            \/ Save(s, d, presented)
            \/ SaveHeldUp(s, d, presented)
            \/ SaveFails(s, d, presented)
  \/ \E d \in Docs : ConvertExternal(d)
  \/ Tick \/ Restart
  \/ \E to \in Time : StepBack(to)

Spec == Init /\ [][Next]_vars

-------------------------------------------------------------------------------
(* Properties.                                                             *)

(* A session that was told it holds a document for some time, and has      *)
(* neither released it nor seen the vault restart, really holds it until   *)
(* then: its next renewal or save is admitted, whatever late renewals,     *)
(* releases and saves of earlier holders arrive ("past its TTL a lease no  *)
(* longer binds and the next acquire wins", lease.rs).                     *)
HolderHolds ==
  \A s \in Sessions, d \in Docs : promise[s][d] # Over =>
    table[d].id = held[s][d] /\ promise[s][d] <= Deadline(d) - clock

(* While it holds the document, the head moves only by its own saves or by *)
(* bytes written to the visible file.                                      *)
HolderUndisturbed ==
  [][\A s \in Sessions, d \in Docs :
       promise[s][d] # Over /\ promise'[s][d] # Over =>
         \A i \in DOMAIN revs'[d] \ DOMAIN revs[d] : revs'[d][i] \in {s, Outside}]_vars

(* "There is no steal verb; expiry is the release": a document is locked   *)
(* only while some session was told it holds it, and exactly until then,   *)
(* as long as no admitted save failed and the clock only went forward.     *)
NoOverhang ==
  ~skewed => \A d \in Docs : Live(d) =>
    \E s \in Sessions :
      /\ held[s][d] = table[d].id
      /\ promise[s][d] # Over /\ promise[s][d] = Deadline(d) - clock
================================================================================
