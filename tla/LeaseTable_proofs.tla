-------------------------- MODULE LeaseTable_proofs --------------------------
(***************************************************************************)
(* LeaseTable for any number of sessions and documents and any TTL: what a *)
(* holder was promised is kept, and a lease binds no longer than its       *)
(* holder was told.                                                        *)
(*                                                                         *)
(* The inductive invariant adds to HolderHolds and NoOverhang where ids    *)
(* come from: they are handed out once, so two sessions never hold the     *)
(* same one, and an id that was replaced matches no later lease.           *)
(***************************************************************************)
EXTENDS LeaseTable, TLAPS

(* Ids are handed out in order. *)
IdsHandedOut ==
  /\ \A d \in Docs : table[d].id < nextId
  /\ \A s \in Sessions, d \in Docs : held[s][d] < nextId

(* No two sessions hold one id. *)
IdsApart ==
  \A s, t \in Sessions, d \in Docs : held[s][d] = held[t][d] /\ held[s][d] # NoId => s = t

(* Nothing is promised about a lease that was never granted. *)
PromisesHeld == \A s \in Sessions, d \in Docs : promise[s][d] # Over => held[s][d] # NoId

LInv == LTypeOK /\ IdsHandedOut /\ IdsApart /\ PromisesHeld /\ HolderHolds /\ NoOverhang

USE DEF Time, LeaseId, NoId, Free, Over, Deadline, Live

-------------------------------------------------------------------------------
(* What a session was promised on a document makes its lease live.         *)
LEMMA PromiseIsLive ==
  ASSUME LInv, NEW s \in Sessions, NEW d \in Docs, promise[s][d] # Over
  PROVE  Live(d) /\ table[d].id = held[s][d]
<1>1. promise[s][d] \in 0..TTL /\ table[d] \in [id: LeaseId, at: Time] \cup {Free}
  BY DEF LInv, LTypeOK
<1>2. /\ table[d].id = held[s][d]
      /\ promise[s][d] <= Deadline(d) - clock
      /\ held[s][d] # NoId
  BY DEF LInv, HolderHolds, PromisesHeld
<1>3. clock \in Time
  BY DEF LInv, LTypeOK
<1> QED BY <1>1, <1>2, <1>3, LeaseAssumption

(* While the lease is live, only an admitted session presents its id.      *)
LEMMA AdmittedHolds ==
  ASSUME LInv, NEW s \in Sessions, NEW d \in Docs, NEW presented \in {NoId, held[s][d]},
         Gate(d, presented), Live(d)
  PROVE  held[s][d] = table[d].id
BY DEF Gate

(* What an update of one entry of a table of tables leaves. *)
LEMMA OneEntry ==
  ASSUME NEW S, NEW D, NEW X, NEW f \in [S -> [D -> X]], NEW s \in S, NEW d \in D, NEW v
  PROVE  \A t \in S, e \in D :
           [f EXCEPT ![s][d] = v][t][e] = IF t = s /\ e = d THEN v ELSE f[t][e]
OBVIOUS

LEMMA InitLeases == Init => LInv
<1> SUFFICES ASSUME Init PROVE LInv OBVIOUS
<1>1. LTypeOK
  <2>1. table \in [Docs -> [id: LeaseId, at: Time] \cup {Free}]
    BY DEF Init
  <2>2. revs \in [Docs -> Seq(Sessions \cup {Outside})] /\ base \in [Sessions -> [Docs -> Nat]]
    BY DEF Init
  <2>3. /\ held \in [Sessions -> [Docs -> LeaseId \cup {NoId}]]
        /\ promise \in [Sessions -> [Docs -> 0..TTL]]
    BY LeaseAssumption DEF Init
  <2>4. clock \in Time /\ nextId \in 1..(MaxLeases + 1) /\ faults \in 0..MaxFaults
    BY LeaseAssumption DEF Init
  <2>5. skewed \in BOOLEAN
    BY DEF Init
  <2> QED BY <2>1, <2>2, <2>3, <2>4, <2>5 DEF LTypeOK
<1>2. IdsHandedOut /\ IdsApart /\ PromisesHeld /\ HolderHolds /\ NoOverhang
  BY DEF Init, IdsHandedOut, IdsApart, PromisesHeld, HolderHolds, NoOverhang
<1> QED BY <1>1, <1>2 DEF LInv

-------------------------------------------------------------------------------
(* One lemma for each kind of step.                                        *)

LEMMA AcquireKeeps ==
  ASSUME LInv, NEW s \in Sessions, NEW d \in Docs, Acquire(s, d)
  PROVE  LInv'
<1> USE DEF LInv
<1>a. /\ nextId \in LeaseId /\ ~Live(d)
      /\ table' = [table EXCEPT ![d] = [id |-> nextId, at |-> clock]]
      /\ held' = [held EXCEPT ![s][d] = nextId]
      /\ promise' = [promise EXCEPT ![s][d] = TTL]
      /\ nextId' = nextId + 1
      /\ UNCHANGED <<clock, revs, base, skewed, faults>>
  BY LeaseAssumption DEF Acquire, Tell, LTypeOK
<1>1. LTypeOK'
  BY <1>a, LeaseAssumption DEF LTypeOK
<1>b. \A t \in Sessions, e \in Docs :
        held'[t][e] = IF t = s /\ e = d THEN nextId ELSE held[t][e]
  BY <1>a, OneEntry DEF LTypeOK
<1>c. /\ nextId \in Nat
      /\ \A e \in Docs : table'[e] = IF e = d THEN [id |-> nextId, at |-> clock] ELSE table[e]
      /\ \A e \in Docs : table[e].id \in Nat
      /\ \A t \in Sessions, e \in Docs : held[t][e] \in Nat
  BY <1>a, LeaseAssumption DEF LTypeOK
<1>2. IdsHandedOut'
  BY <1>a, <1>b, <1>c DEF IdsHandedOut
<1>3. IdsApart'
  BY <1>b, <1>c DEF IdsApart, IdsHandedOut
<1>4. PromisesHeld'
  BY <1>a, LeaseAssumption DEF LTypeOK, PromisesHeld
<1>5. HolderHolds'
  <2> SUFFICES ASSUME NEW t \in Sessions, NEW e \in Docs, promise'[t][e] # Over
               PROVE  table'[e].id = held'[t][e] /\ promise'[t][e] <= Deadline(e)' - clock'
    BY DEF HolderHolds
  <2>1. CASE e # d
    BY <2>1, <1>a DEF HolderHolds, LTypeOK
  <2>2. CASE e = d /\ t = s
    BY <2>2, <1>a, LeaseAssumption DEF LTypeOK
  <2>3. CASE e = d /\ t # s
    <3>1. promise[t][d] # Over
      BY <2>3, <1>a DEF LTypeOK
    <3> QED BY <3>1, <1>a, PromiseIsLive
  <2> QED BY <2>1, <2>2, <2>3
<1>6. NoOverhang'
  <2>a. \A e \in Docs : Live(e)' => Deadline(e)' - clock' # Over
    <3>1. clock' \in Nat /\ \A e \in Docs : table'[e].at \in Nat
      BY <1>1, LeaseAssumption DEF LTypeOK
    <3> QED BY <3>1, LeaseAssumption
  <2> SUFFICES ASSUME ~skewed', NEW e \in Docs, Live(e)'
               PROVE  \E t \in Sessions :
                        held'[t][e] = table'[e].id /\ promise'[t][e] = Deadline(e)' - clock'
    BY <2>a DEF NoOverhang
  <2>1. CASE e = d
    BY <2>1, <1>a, LeaseAssumption DEF LTypeOK
  <2>2. CASE e # d
    BY <2>2, <1>a, LeaseAssumption DEF LTypeOK, NoOverhang
  <2> QED BY <2>1, <2>2
<1> QED BY <1>1, <1>2, <1>3, <1>4, <1>5, <1>6

(* The holder slides its live lease, and may be told. *)
LEMMA SlideKeeps ==
  ASSUME LInv, NEW s \in Sessions, NEW d \in Docs,
         Live(d), table[d].id = held[s][d], Slide(d),
         \/ Tell(s, d) /\ skewed' = skewed
         \/ promise' = promise /\ skewed' = TRUE,
         UNCHANGED <<clock, held, nextId>>
  PROVE  /\ IdsHandedOut' /\ IdsApart' /\ PromisesHeld' /\ HolderHolds' /\ NoOverhang'
         /\ table' \in [Docs -> [id: LeaseId, at: Time] \cup {Free}]
         /\ promise' \in [Sessions -> [Docs -> 0..TTL]]
<1> USE DEF LInv
<1>a. /\ table' = [table EXCEPT ![d].at = clock]
      /\ table[d] \in [id: LeaseId, at: Time]
      /\ promise' = promise \/ promise' = [promise EXCEPT ![s][d] = TTL]
  BY DEF Slide, Tell, LTypeOK
<1>b. \A t \in Sessions, e \in Docs :
        promise'[t][e] = promise[t][e] \/ (t = s /\ e = d /\ promise'[t][e] = TTL)
  BY <1>a, OneEntry DEF LTypeOK
<1>1. /\ table' \in [Docs -> [id: LeaseId, at: Time] \cup {Free}]
      /\ promise' \in [Sessions -> [Docs -> 0..TTL]]
  <2>1. table' \in [Docs -> [id: LeaseId, at: Time] \cup {Free}]
    BY <1>a DEF LTypeOK
  <2>2. promise' \in [Sessions -> [Docs -> 0..TTL]]
    <3>1. promise \in [Sessions -> [Docs -> 0..TTL]] /\ TTL \in 0..TTL
      BY LeaseAssumption DEF LTypeOK
    <3> QED BY <1>a, <3>1
  <2> QED BY <2>1, <2>2
<1>2. /\ table'[d] = [id |-> table[d].id, at |-> clock]
      /\ \A e \in Docs : table'[e].id = table[e].id
      /\ \A e \in Docs \ {d} : table'[e] = table[e]
  BY <1>a DEF LTypeOK
<1>3. IdsHandedOut' /\ IdsApart'
  BY <1>2 DEF IdsHandedOut, IdsApart
<1>4. PromisesHeld'
  <2>1. held[s][d] # NoId
    BY <1>a
  <2> QED BY <2>1, <1>b DEF PromisesHeld
<1>5. HolderHolds'
  <2> SUFFICES ASSUME NEW t \in Sessions, NEW e \in Docs, promise'[t][e] # Over
               PROVE  table'[e].id = held'[t][e] /\ promise'[t][e] <= Deadline(e)' - clock'
    BY DEF HolderHolds
  <2>1. CASE e # d
    BY <2>1, <1>2, <1>b DEF HolderHolds
  <2>2. CASE e = d
    <3>1. promise'[t][d] <= TTL
      BY <1>1, LeaseAssumption
    <3>2. Deadline(d)' - clock' = TTL
      BY <1>2, LeaseAssumption DEF LTypeOK
    <3>3. promise[t][d] # Over \/ t = s
      BY <1>b, <2>2
    <3>4. table[d].id = held[t][d]
      BY <3>3 DEF HolderHolds
    <3> QED BY <2>2, <3>1, <3>2, <3>4, <1>2
  <2> QED BY <2>1, <2>2
<1>6. NoOverhang'
  <2> SUFFICES ASSUME ~skewed', NEW e \in Docs, Live(e)'
               PROVE  \E t \in Sessions :
                        held'[t][e] = table'[e].id /\ promise'[t][e] = Deadline(e)' - clock'
    BY <1>1, LeaseAssumption DEF NoOverhang, LTypeOK
  <2>0. promise' = [promise EXCEPT ![s][d] = TTL] /\ ~skewed
    BY DEF Tell
  <2>1. CASE e = d
    <3>1. promise'[s][d] = TTL
      BY <2>0 DEF LTypeOK
    <3>2. Deadline(d)' - clock' = TTL
      BY <1>2, LeaseAssumption DEF LTypeOK
    <3> QED BY <2>1, <3>1, <3>2, <1>2
  <2>2. CASE e # d
    <3>1. Live(e)
      BY <2>2, <1>2
    <3>2. PICK t \in Sessions : held[t][e] = table[e].id /\ promise[t][e] = Deadline(e) - clock
      BY <3>1, <2>0 DEF NoOverhang
    <3>3. promise'[t][e] = promise[t][e]
      BY <2>0, <2>2 DEF LTypeOK
    <3> QED BY <2>2, <3>2, <3>3, <1>2
  <2> QED BY <2>1, <2>2
<1> QED BY <1>1, <1>3, <1>4, <1>5, <1>6

(* Nothing that the leases depend on changes. *)
LEMMA LeasesUntouched ==
  ASSUME LInv, UNCHANGED <<table, clock, held, promise, nextId>>,
         skewed' = skewed \/ skewed' = TRUE
  PROVE  IdsHandedOut' /\ IdsApart' /\ PromisesHeld' /\ HolderHolds' /\ NoOverhang'
BY DEF LInv, IdsHandedOut, IdsApart, PromisesHeld, HolderHolds, NoOverhang

LEMMA RenewKeeps ==
  ASSUME LInv, NEW s \in Sessions, NEW d \in Docs, Renew(s, d)
  PROVE  LInv'
<1>1. /\ IdsHandedOut' /\ IdsApart' /\ PromisesHeld' /\ HolderHolds' /\ NoOverhang'
      /\ table' \in [Docs -> [id: LeaseId, at: Time] \cup {Free}]
      /\ promise' \in [Sessions -> [Docs -> 0..TTL]]
  BY SlideKeeps DEF Renew
<1> QED BY <1>1 DEF LInv, LTypeOK, Renew

LEMMA ReleaseKeeps ==
  ASSUME LInv, NEW s \in Sessions, NEW d \in Docs, Release(s, d)
  PROVE  LInv'
<1> USE DEF LInv
<1>a. /\ table' = IF table[d].id = held[s][d] THEN [table EXCEPT ![d] = Free] ELSE table
      /\ promise' = [promise EXCEPT ![s][d] = Over]
      /\ held[s][d] # NoId
      /\ UNCHANGED <<clock, revs, base, held, skewed, nextId, faults>>
  BY DEF Release
<1>1. LTypeOK'
  BY <1>a, LeaseAssumption DEF LTypeOK
<1>2. \A e \in Docs : table'[e] = table[e] \/ (e = d /\ table'[e] = Free /\ table[d].id = held[s][d])
  <2>1. CASE table[d].id = held[s][d]
    BY <2>1, <1>a DEF LTypeOK
  <2>2. CASE table[d].id # held[s][d]
    BY <2>2, <1>a
  <2> QED BY <2>1, <2>2
<1>3. \A t \in Sessions, e \in Docs :
         IF t = s /\ e = d THEN promise'[t][e] = Over ELSE promise'[t][e] = promise[t][e]
  BY <1>a, OneEntry DEF LTypeOK
<1>4. IdsHandedOut'
  BY <1>a, <1>2 DEF IdsHandedOut, LTypeOK
<1>5. IdsApart' /\ PromisesHeld'
  BY <1>a, <1>3 DEF IdsApart, PromisesHeld
<1>6. HolderHolds'
  <2> SUFFICES ASSUME NEW t \in Sessions, NEW e \in Docs, promise'[t][e] # Over
               PROVE  table'[e].id = held'[t][e] /\ promise'[t][e] <= Deadline(e)' - clock'
    BY DEF HolderHolds
  <2>1. promise'[t][e] = promise[t][e] /\ ~(t = s /\ e = d)
    BY <1>3
  <2>2. table[e].id = held[t][e] /\ held[t][e] # NoId
    BY <2>1 DEF HolderHolds, PromisesHeld
  <2>3. table'[e] = table[e]
    BY <1>2, <2>1, <2>2 DEF IdsApart
  <2> QED BY <2>1, <2>3, <1>a DEF HolderHolds
<1>7. NoOverhang'
  <2>a. \A e \in Docs : Live(e)' => Deadline(e)' - clock' # Over
    <3>1. clock' \in Nat /\ \A e \in Docs : table'[e].at \in Nat
      BY <1>1, LeaseAssumption DEF LTypeOK
    <3> QED BY <3>1, LeaseAssumption
  <2> SUFFICES ASSUME ~skewed', NEW e \in Docs, Live(e)'
               PROVE  \E t \in Sessions :
                        held'[t][e] = table'[e].id /\ promise'[t][e] = Deadline(e)' - clock'
    BY <2>a DEF NoOverhang
  <2>1. table'[e] = table[e]
    BY <1>2
  <2>2. PICK t \in Sessions : held[t][e] = table[e].id /\ promise[t][e] = Deadline(e) - clock
    BY <2>1, <1>a DEF NoOverhang
  <2>3. ~(t = s /\ e = d)
    BY <2>1, <2>2, <1>a DEF LTypeOK
  <2>4. promise'[t][e] = promise[t][e]
    BY <2>3, <1>3
  <2> QED BY <2>1, <2>2, <2>4, <1>a
<1> QED BY <1>1, <1>4, <1>5, <1>6, <1>7

LEMMA SaveKeeps ==
  ASSUME LInv, NEW s \in Sessions, NEW d \in Docs, NEW presented \in {NoId, held[s][d]},
         Save(s, d, presented) \/ SaveFails(s, d, presented)
  PROVE  LInv'
<1>1. /\ IdsHandedOut' /\ IdsApart' /\ PromisesHeld' /\ HolderHolds' /\ NoOverhang'
      /\ table' \in [Docs -> [id: LeaseId, at: Time] \cup {Free}]
      /\ promise' \in [Sessions -> [Docs -> 0..TTL]]
  <2>1. CASE Live(d)
    <3>1. held[s][d] = table[d].id
      BY <2>1, AdmittedHolds DEF Save, SaveFails, Admit
    <3> QED BY <2>1, <3>1, SlideKeeps DEF Save, SaveFails, Admit
  <2>2. CASE ~Live(d)
    BY <2>2, LeasesUntouched DEF Save, SaveFails, Admit, LInv, LTypeOK
  <2> QED BY <2>1, <2>2
<1>2. revs' \in [Docs -> Seq(Sessions \cup {Outside})] /\ base' \in [Sessions -> [Docs -> Nat]]
  <2>1. CASE Save(s, d, presented)
    <3>1. revs[d] \in Seq(Sessions \cup {Outside})
      BY DEF LInv, LTypeOK
    <3>2. Append(revs[d], s) \in Seq(Sessions \cup {Outside}) /\ Len(revs[d]) + 1 \in Nat
      BY <3>1
    <3> QED BY <2>1, <3>2 DEF Save, LInv, LTypeOK
  <2>2. CASE SaveFails(s, d, presented)
    BY <2>2 DEF SaveFails, LInv, LTypeOK
  <2> QED BY <2>1, <2>2
<1>3. faults' \in 0..MaxFaults
  BY LeaseAssumption DEF Save, SaveFails, Fault, LInv, LTypeOK
<1> QED BY <1>1, <1>2, <1>3 DEF LInv, LTypeOK, Save, SaveFails

LEMMA TickKeeps ==
  ASSUME LInv, Tick
  PROVE  LInv'
<1> USE DEF LInv
<1>a. /\ clock \in Nat /\ clock' = clock + 1 /\ clock' \in Time
      /\ \A t \in Sessions, e \in Docs :
           /\ promise[t][e] \in Nat
           /\ promise'[t][e] = IF promise[t][e] = Over THEN Over ELSE promise[t][e] - 1
      /\ \A e \in Docs : table[e].at \in Nat
      /\ UNCHANGED <<table, revs, base, held, skewed, nextId, faults>>
  BY LeaseAssumption DEF Tick, LTypeOK
<1>1. LTypeOK'
  BY <1>a, LeaseAssumption DEF LTypeOK, Tick
<1>2. IdsHandedOut' /\ IdsApart' /\ PromisesHeld'
  BY <1>a DEF IdsHandedOut, IdsApart, PromisesHeld
<1>3. HolderHolds'
  BY <1>a, LeaseAssumption DEF HolderHolds
<1>4. NoOverhang'
  BY <1>a, LeaseAssumption DEF NoOverhang
<1> QED BY <1>1, <1>2, <1>3, <1>4

LEMMA FaultKeeps ==
  ASSUME LInv, Restart \/ \E to \in Time : StepBack(to)
  PROVE  LInv'
<1> USE DEF LInv
<1>1. CASE Restart
  <2>1. LTypeOK'
    BY <1>1, LeaseAssumption DEF Restart, Fault, LTypeOK
  <2>2. IdsHandedOut' /\ IdsApart' /\ PromisesHeld' /\ HolderHolds' /\ NoOverhang'
    BY <1>1 DEF Restart, LTypeOK, IdsHandedOut, IdsApart, PromisesHeld, HolderHolds, NoOverhang
  <2> QED BY <2>1, <2>2
<1>2. CASE \E to \in Time : StepBack(to)
  <2>1. LTypeOK'
    BY <1>2, LeaseAssumption DEF StepBack, Fault, LTypeOK
  <2>2. IdsHandedOut' /\ IdsApart' /\ PromisesHeld'
    BY <1>2 DEF StepBack, IdsHandedOut, IdsApart, PromisesHeld
  <2>3. clock \in Nat /\ clock' \in Nat /\ clock' < clock /\ skewed' /\ UNCHANGED <<table, held, promise>>
    BY <1>2, LeaseAssumption DEF StepBack, LTypeOK
  <2>4. \A e \in Docs : table[e].at \in Nat
    BY LeaseAssumption DEF LTypeOK
  <2>5. \A t \in Sessions, e \in Docs : promise[t][e] \in Nat
    BY LeaseAssumption DEF LTypeOK
  <2>6. HolderHolds'
    BY <2>3, <2>4, <2>5, LeaseAssumption DEF HolderHolds
  <2>7. NoOverhang'
    BY <2>3 DEF NoOverhang
  <2> QED BY <2>1, <2>2, <2>6, <2>7
<1> QED BY <1>1, <1>2

LEMMA StepLeases == LInv /\ [Next]_vars => LInv'
<1> SUFFICES ASSUME LInv, [Next]_vars PROVE LInv'
  OBVIOUS
<1>1. ASSUME NEW s \in Sessions, NEW d \in Docs, Acquire(s, d) \/ Renew(s, d) \/ Release(s, d)
      PROVE  LInv'
  BY <1>1, AcquireKeeps, RenewKeeps, ReleaseKeeps
<1>2. ASSUME NEW s \in Sessions, NEW d \in Docs, NEW presented \in {NoId, held[s][d]},
             Save(s, d, presented) \/ SaveFails(s, d, presented)
      PROVE  LInv'
  BY <1>2, SaveKeeps
<1>3. ASSUME NEW s \in Sessions, NEW d \in Docs, Read(s, d)
      PROVE  LInv'
  <2>1. base' \in [Sessions -> [Docs -> Nat]]
    BY <1>3 DEF Read, LInv, LTypeOK
  <2> QED BY <1>3, <2>1, LeasesUntouched DEF Read, LInv, LTypeOK
<1>4. ASSUME NEW d \in Docs, ConvertExternal(d)
      PROVE  LInv'
  <2>1. revs' \in [Docs -> Seq(Sessions \cup {Outside})]
    BY <1>4 DEF ConvertExternal, LInv, LTypeOK
  <2> QED BY <1>4, <2>1, LeasesUntouched DEF ConvertExternal, LInv, LTypeOK
<1>5. CASE UNCHANGED vars
  BY <1>5, LeasesUntouched DEF vars, LInv, LTypeOK
<1>6. CASE \E s \in Sessions, d \in Docs, presented \in LeaseId \cup {NoId} :
             SaveHeldUp(s, d, presented)
  BY <1>6, <1>5 DEF SaveHeldUp
<1>7. \A s \in Sessions, d \in Docs : held[s][d] \in LeaseId \cup {NoId}
  BY DEF LInv, LTypeOK
<1> QED BY <1>1, <1>2, <1>3, <1>4, <1>5, <1>6, <1>7, TickKeeps, FaultKeeps DEF Next

(* The inductive invariant holds in every reachable state. *)
THEOREM LeasesInvariant == Spec => []LInv
BY InitLeases, StepLeases, PTL DEF Spec

(* The table, the clock and what the sessions hold keep their types: a     *)
(* lease never starts later than the latest time there was.                *)
THEOREM LTypesAlways == Spec => []LTypeOK
<1>1. LInv => LTypeOK
  BY DEF LInv
<1> QED BY <1>1, LeasesInvariant, PTL

-------------------------------------------------------------------------------
(* A promised lease is kept: the holder's next renewal or save is admitted *)
(* by the table of lease.rs whatever earlier holders send late.            *)
THEOREM HolderHoldsAlways == Spec => []HolderHolds
<1>1. LInv => HolderHolds
  BY DEF LInv
<1> QED BY <1>1, LeasesInvariant, PTL

(* A document is locked only for as long as its holder was told.           *)
THEOREM NoOverhangAlways == Spec => []NoOverhang
<1>1. LInv => NoOverhang
  BY DEF LInv
<1> QED BY <1>1, LeasesInvariant, PTL

LEMMA StepUndisturbed ==
  ASSUME LInv, [Next]_vars, NEW s \in Sessions, NEW d \in Docs, promise[s][d] # Over,
         NEW i \in DOMAIN revs'[d] \ DOMAIN revs[d]
  PROVE  revs'[d][i] \in {s, Outside}
<1>0. revs \in [Docs -> Seq(Sessions \cup {Outside})]
  BY DEF LInv, LTypeOK
<1>1. CASE revs' = revs
  BY <1>1
<1>2. ASSUME NEW w \in Sessions, NEW e \in Docs, NEW presented \in {NoId, held[w][e]},
             Save(w, e, presented)
      PROVE  revs'[d][i] \in {s, Outside}
  <2>1. revs' = [revs EXCEPT ![e] = Append(@, w)] /\ Gate(e, presented)
    BY <1>2 DEF Save, Admit
  <2>2. e = d /\ revs'[d][i] = w
    BY <2>1, <1>0
  <2>3. Live(d) /\ table[d].id = held[s][d] /\ held[s][d] # NoId
    BY PromiseIsLive DEF LInv, PromisesHeld
  <2>4. held[w][d] = table[d].id
    BY <2>1, <2>2, <2>3, AdmittedHolds
  <2> QED BY <2>2, <2>3, <2>4 DEF LInv, IdsApart
<1>3. ASSUME NEW e \in Docs, ConvertExternal(e)
      PROVE  revs'[d][i] \in {s, Outside}
  <2>1. revs' = [revs EXCEPT ![e] = Append(@, Outside)]
    BY <1>3 DEF ConvertExternal
  <2> QED BY <2>1, <1>0
<1> QED BY <1>1, <1>2, <1>3 DEF Next, vars, Acquire, Renew, Release, Read, SaveHeldUp, SaveFails,
                                 Tick, Restart, StepBack

(* The head of a document moves past its holder only by its own saves and  *)
(* by bytes written to the visible file.                                   *)
THEOREM HolderUndisturbedAlways == Spec => HolderUndisturbed
<1>1. LInv /\ [Next]_vars =>
        [\A s \in Sessions, d \in Docs :
           promise[s][d] # Over /\ promise'[s][d] # Over =>
             \A i \in DOMAIN revs'[d] \ DOMAIN revs[d] : revs'[d][i] \in {s, Outside}]_vars
  BY StepUndisturbed
<1> QED BY <1>1, LeasesInvariant, PTL DEF Spec, HolderUndisturbed
================================================================================
