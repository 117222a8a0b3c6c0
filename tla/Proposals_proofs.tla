--------------------------- MODULE Proposals_proofs ---------------------------
(***************************************************************************)
(* Proofs about Proposals, for every set of paths and contents, every      *)
(* bound and, where the statement does not say otherwise, every            *)
(* combination of faults.                                                  *)
(***************************************************************************)
EXTENDS Proposals, Revisions_proofs

Entry == Create \cup Resolve

-------------------------------------------------------------------------------
(* Facts about proposal logs.                                              *)

LEMMA EntryFields ==
  ASSUME NEW r \in Entry
  PROVE  /\ r # None
         /\ r.prop \in PropId
         /\ r.event = "create" => r \in Create
         /\ r.event # "create" => r \in Resolve
         /\ r.event = "accepted" => r.rev \in RevId
<1>1. r # None
  BY NoneAssumption DEF Entry
<1>2. CASE r \in Create
  BY <1>1, <1>2 DEF Create
<1>3. CASE r \in Resolve
  BY <1>1, <1>3 DEF Resolve
<1>. QED
  BY <1>2, <1>3 DEF Entry

(* The proposals of a log, and the creation of one that is still open. *)
LEMMA OpenIsCreated ==
  ASSUME NEW log \in Seq(Entry)
  PROVE  /\ Known(log) \subseteq PropId
         /\ \A q \in OpenIn(log) :
              Created(log, q) \in Create /\ Created(log, q).prop = q
<1>1. Len(log) \in Nat /\ DOMAIN log = 1..Len(log)
  BY LenProperties
<1>2. \A i \in DOMAIN log : log[i] \in Entry
  BY <1>1, ElementOfSeq
<1>3. Known(log) \subseteq PropId
  BY <1>2, EntryFields DEF Known
<1>4. ASSUME NEW q \in OpenIn(log)
      PROVE  Created(log, q) \in Create /\ Created(log, q).prop = q
  <2>1. PICK i \in DOMAIN log : log[i].prop = q
    BY DEF OpenIn, Known
  <2>2. log[i].event = "create"
    BY <2>1 DEF OpenIn, Resolved
  <2>3. /\ Created(log, q) \in {log[j] : j \in DOMAIN log}
        /\ Created(log, q).prop = q
        /\ Created(log, q).event = "create"
    BY <2>1, <2>2 DEF Created
  <2>. QED
    BY <1>2, <2>3, EntryFields
<1>. QED
  BY <1>3, <1>4

(* What appending a record does to the proposals of a log. *)
LEMMA AppendProposal ==
  ASSUME NEW log \in Seq(Entry), NEW r \in Entry
  PROVE  /\ Known(Append(log, r)) = Known(log) \cup {r.prop}
         /\ \A q : Resolved(Append(log, r), q) <=>
                     Resolved(log, q) \/ (r.prop = q /\ r.event # "create")
<1>1. Len(log) \in Nat /\ DOMAIN log = 1..Len(log)
  BY LenProperties
<1>2. /\ Append(log, r) \in Seq(Entry)
      /\ Len(Append(log, r)) = Len(log) + 1
      /\ Append(log, r)[Len(log) + 1] = r
      /\ \A i \in 1..Len(log) : Append(log, r)[i] = log[i]
  BY AppendIsLog
<1>3. DOMAIN Append(log, r) = DOMAIN log \cup {Len(log) + 1}
  <2>1. DOMAIN Append(log, r) = 1..(Len(log) + 1)
    BY <1>2, LenProperties
  <2>. QED
    BY <1>1, <2>1
<1>4. Known(Append(log, r)) = Known(log) \cup {r.prop}
  BY <1>1, <1>2, <1>3 DEF Known
<1>5. ASSUME NEW q
      PROVE  Resolved(Append(log, r), q) <=>
               Resolved(log, q) \/ (r.prop = q /\ r.event # "create")
  BY <1>1, <1>2, <1>3 DEF Resolved
<1>. QED
  BY <1>4, <1>5

(* Cutting a log at any length leaves one that can be replayed. *)
LEMMA PrefixReplayable ==
  ASSUME NEW log \in Seq(Entry), NEW n \in 0..Len(log)
  PROVE  /\ Known(SubSeq(log, 1, n)) \subseteq Known(log)
         /\ Replayable(log) => Replayable(SubSeq(log, 1, n))
<1> DEFINE short == SubSeq(log, 1, n)
<1>1. Len(log) \in Nat /\ DOMAIN log = 1..Len(log)
  BY LenProperties
<1>2. short \in Seq(Entry) /\ Len(short) = n /\ \A i \in 1..n : short[i] = log[i]
  BY PrefixIsLog
<1>3. DOMAIN short = 1..n
  BY <1>2, LenProperties
<1>4. \A i \in 1..n : i \in DOMAIN log /\ i - 1 \in 0..n
  BY <1>1
<1>5. Known(short) \subseteq Known(log)
  BY <1>2, <1>3, <1>4 DEF Known
<1>6. \A i \in 1..n : SubSeq(short, 1, i - 1) = SubSeq(log, 1, i - 1)
  BY <1>4, PrefixOfPrefix
<1>7. ASSUME Replayable(log)
      PROVE  Replayable(short)
  <2> SUFFICES ASSUME NEW i \in 1..n
               PROVE  IF short[i].event = "create"
                      THEN short[i].prop \notin Known(SubSeq(short, 1, i - 1))
                      ELSE short[i].prop \in OpenIn(SubSeq(short, 1, i - 1))
    BY <1>3 DEF Replayable
  <2>1. IF log[i].event = "create"
        THEN log[i].prop \notin Known(SubSeq(log, 1, i - 1))
        ELSE log[i].prop \in OpenIn(SubSeq(log, 1, i - 1))
    BY <1>4, <1>7 DEF Replayable
  <2>. QED
    BY <1>2, <1>6, <2>1
<1>. QED
  BY <1>5, <1>7

(* The record that may come next. *)
Fits(log, r) == IF r.event = "create" THEN r.prop \notin Known(log) ELSE r.prop \in OpenIn(log)

LEMMA AppendReplayable ==
  ASSUME NEW log \in Seq(Entry), NEW r \in Entry, Replayable(log), Fits(log, r)
  PROVE  Replayable(Append(log, r))
<1> DEFINE long == Append(log, r)
<1>1. Len(log) \in Nat /\ DOMAIN log = 1..Len(log)
  BY LenProperties
<1>2. /\ long \in Seq(Entry)
      /\ Len(long) = Len(log) + 1
      /\ long[Len(log) + 1] = r
      /\ \A i \in 1..Len(log) : long[i] = log[i]
      /\ \A m \in 0..Len(log) : SubSeq(long, 1, m) = SubSeq(log, 1, m)
  BY AppendIsLog
<1>3. DOMAIN long = 1..(Len(log) + 1)
  BY <1>2, LenProperties
<1>4. SubSeq(log, 1, Len(log)) = log
  <2>1. Len(log) \in 0..Len(log)
    BY <1>1
  <2>. QED
    BY <2>1, PrefixOfPrefix
<1>5. SUFFICES ASSUME NEW i \in 1..(Len(log) + 1)
               PROVE  IF long[i].event = "create"
                      THEN long[i].prop \notin Known(SubSeq(long, 1, i - 1))
                      ELSE long[i].prop \in OpenIn(SubSeq(long, 1, i - 1))
  BY <1>3 DEF Replayable
<1>6. i - 1 \in 0..Len(log) /\ SubSeq(long, 1, i - 1) = SubSeq(log, 1, i - 1)
  BY <1>1, <1>2
<1>7. CASE i = Len(log) + 1
  <2>1. i - 1 = Len(log)
    BY <1>1, <1>7
  <2>. QED
    BY <1>2, <1>4, <1>6, <1>7, <2>1 DEF Fits
<1>8. CASE i \in 1..Len(log)
  BY <1>1, <1>2, <1>6, <1>8 DEF Replayable
<1>. QED
  BY <1>1, <1>7, <1>8

-------------------------------------------------------------------------------
(* Type correctness.                                                       *)

LEMMA PTypeInit == Init => PTypeOK
<1> SUFFICES ASSUME Init PROVE PTypeOK
  OBVIOUS
<1>1. \A S : <<>> \in Seq(S) /\ Len(<<>>) = 0
  BY EmptySeq
<1>2. 1 \in 1..(MaxRevs + 1) /\ 1 \in 1..(MaxProps + 1) /\ 0 \in 0..MaxFaults
  BY MaxRevsAssumption, ProposalAssumption
<1>3. history = <<>> /\ plog = <<>> /\ applied = <<>> /\ psynced = 0 /\ acked = {}
  BY DEF Init, HInit
<1>4. /\ history \in Seq(Record) /\ plog \in Seq(Create \cup Resolve)
      /\ applied \in Seq(Create \cup Resolve) /\ psynced \in 0..Len(plog)
  BY <1>1, <1>3
<1>. QED
  BY <1>2, <1>3, <1>4 DEF Init, PTypeOK

(* The revision a save would commit. *)
LEMMA SavedIsRecord ==
  ASSUME PTypeOK, nextRev <= MaxRevs, NEW p \in Paths, NEW c \in Contents,
         NEW d \in {DocFor(p)} \cup RevId
  PROVE  /\ DocFor(p) \in RevId
         /\ Revision(d, p, c) \in Record
         /\ Revision(d, p, c).rev = nextRev
         /\ Append(history, Revision(d, p, c)) \in Seq(Record)
         /\ nextRev \in RevId
         /\ nextRev + 1 \in 1..(MaxRevs + 1)
<1>1. nextRev \in RevId /\ nextRev + 1 \in 1..(MaxRevs + 1)
  BY MaxRevsAssumption DEF PTypeOK, RevId
<1>2. history \in Seq(Record)
  BY DEF PTypeOK
<1>3. HeadRev(history, d) \in RevId \cup {NoRev} /\ DocAt(history, p) \in RevId \cup {NoDoc}
  BY <1>2, LogTypes
<1>4. DocFor(p) \in RevId
  BY <1>1, <1>3 DEF DocFor
<1>5. Revision(d, p, c) \in Record
  BY <1>1, <1>3, <1>4 DEF Revision, Record
<1>. QED
  BY <1>1, <1>2, <1>4, <1>5, AppendIsLog DEF Revision

LEMMA TargetIsDoc ==
  ASSUME PTypeOK, job \in Create, nextRev <= MaxRevs
  PROVE  TargetDoc \in RevId /\ job.path \in Paths /\ job.prop \in PropId
<1>1. job.doc \in RevId \cup {NoDoc} /\ job.path \in Paths /\ job.prop \in PropId
  BY DEF Create
<1>2. nextRev \in RevId
  BY MaxRevsAssumption DEF PTypeOK, RevId
<1>3. DocAt(history, job.path) \in RevId \cup {NoDoc}
  BY LogTypes DEF PTypeOK
<1>. QED
  BY <1>1, <1>2, <1>3 DEF TargetDoc, DocFor

(* What the save of an acceptance leaves, however it ends. *)
LEMMA LandsTypes ==
  ASSUME PTypeOK, NEW c \in Contents, Lands(c)
  PROVE  /\ history' \in Seq(Record)
         /\ history' = Append(history, Revision(TargetDoc, job.path, c))
         /\ Revision(TargetDoc, job.path, c) \in Record
         /\ Revision(TargetDoc, job.path, c).rev = nextRev
         /\ nextRev \in RevId
         /\ nextRev' \in 1..(MaxRevs + 1)
         /\ landed' \subseteq PropId \X RevId
         /\ job.prop \in PropId
<1>1. nextRev <= MaxRevs /\ job \in Create
  BY DEF Lands, PTypeOK
<1>2. TargetDoc \in RevId /\ job.path \in Paths /\ job.prop \in PropId
  BY <1>1, TargetIsDoc
<1>3. /\ Revision(TargetDoc, job.path, c) \in Record
      /\ Revision(TargetDoc, job.path, c).rev = nextRev
      /\ Append(history, Revision(TargetDoc, job.path, c)) \in Seq(Record)
      /\ nextRev \in RevId
      /\ nextRev + 1 \in 1..(MaxRevs + 1)
  BY <1>1, <1>2, SavedIsRecord
<1>4. history' = Append(history, Revision(TargetDoc, job.path, c)) /\ nextRev' = nextRev + 1
  BY DEF Lands, Commit
<1>5. landed' \subseteq PropId \X RevId
  BY <1>2, <1>3 DEF Lands, PTypeOK
<1>. QED
  BY <1>2, <1>3, <1>4, <1>5

(* What a crash during a save leaves of the vault. *)
LEMMA CrashTypes ==
  ASSUME PTypeOK,
         \/ HalfSaved
         \/ (\E n \in 0..Len(history) : Lose(n)) /\ UNCHANGED <<landed, nextRev>>
         \/ UNCHANGED <<history, acked, landed, nextRev>>
  PROVE  /\ history' \in Seq(Record)
         /\ acked' = acked
         /\ landed' \subseteq PropId \X RevId
         /\ nextRev' \in 1..(MaxRevs + 1)
<1>1. CASE HalfSaved
  BY <1>1, LandsTypes DEF HalfSaved
<1>2. CASE (\E n \in 0..Len(history) : Lose(n)) /\ UNCHANGED <<landed, nextRev>>
  <2>1. \A n \in 0..Len(history) : SubSeq(history, 1, n) \in Seq(Record)
    BY PrefixIsLog DEF PTypeOK
  <2>. QED
    BY <1>2, <2>1 DEF Lose, PTypeOK
<1>3. CASE UNCHANGED <<history, acked, landed, nextRev>>
  BY <1>3 DEF PTypeOK
<1>. QED
  BY <1>1, <1>2, <1>3

(* The log that a line in hand leaves. *)
LEMMA LineTypes ==
  ASSUME PTypeOK, pc = "append"
  PROVE  /\ job \in Entry
         /\ WriteLine => plog' \in Seq(Entry) /\ Len(plog') >= Len(plog)
         /\ Append(plog, job) \in Seq(Entry)
         /\ Len(Append(plog, job)) = Len(plog) + 1
         /\ Append(applied, job) \in Seq(Entry)
<1>1. plog \in Seq(Entry) /\ Len(plog) \in Nat /\ applied \in Seq(Entry)
  BY LenProperties DEF PTypeOK, Entry
<1>2. job \in Entry
  BY DEF PTypeOK, Entry
<1>3. /\ Append(plog, job) \in Seq(Entry)
      /\ Len(Append(plog, job)) = Len(plog) + 1
      /\ Append(applied, job) \in Seq(Entry)
  BY <1>1, <1>2, AppendIsLog
<1>. QED
  BY <1>1, <1>2, <1>3 DEF WriteLine

LEMMA PTypeNext == PTypeOK /\ [Next]_vars => PTypeOK'
<1> SUFFICES ASSUME PTypeOK, [Next]_vars PROVE PTypeOK'
  OBVIOUS
<1> USE MaxRevsAssumption, ProposalAssumption
<1>1. /\ plog \in Seq(Entry) /\ Len(plog) \in Nat
      /\ applied \in Seq(Entry) /\ psynced \in 0..Len(plog)
  BY LenProperties DEF PTypeOK, Entry
<1>2. \A r \in Entry : r # None /\ r \in Create \cup Resolve
  BY EntryFields DEF Entry
<1>3. ASSUME NEW p \in Paths, NEW c \in Contents, CommitElsewhere(p, c)
      PROVE  PTypeOK'
  <2>1. nextRev <= MaxRevs
    BY <1>3 DEF CommitElsewhere
  <2>2. /\ Append(history, Revision(DocFor(p), p, c)) \in Seq(Record)
        /\ nextRev \in RevId /\ nextRev + 1 \in 1..(MaxRevs + 1)
    BY <2>1, SavedIsRecord
  <2>. QED
    BY <1>3, <2>2 DEF CommitElsewhere, Commit, PTypeOK, plogvars
<1>4. ASSUME NEW p \in Paths, CreateProposal(p)
      PROVE  PTypeOK'
  <2>1. DocAt(history, p) \in RevId \cup {NoDoc} /\ PathHead(p) \in RevId \cup {NoRev}
    BY LogTypes DEF PTypeOK, PathHead
  <2>2. nextProp \in PropId /\ nextProp + 1 \in 1..(MaxProps + 1)
    BY <1>4 DEF CreateProposal, PTypeOK, PropId
  <2>3. job' \in Create
    BY <1>4, <2>1, <2>2 DEF CreateProposal, StartAppend, Create
  <2>4. job' # None
    BY <1>2, <2>3 DEF Entry
  <2>. QED
    BY <1>4, <2>2, <2>3, <2>4 DEF CreateProposal, StartAppend, PTypeOK, plogvars
<1>5. ASSUME NEW q \in PropId, NEW resolution \in {"rejected", "withdrawn"},
             ResolveSimple(q, resolution)
      PROVE  PTypeOK'
  <2>1. job' \in Resolve
    BY <1>5 DEF ResolveSimple, StartAppend, Resolve
  <2>2. job' # None
    BY <1>2, <2>1 DEF Entry
  <2>. QED
    BY <1>5, <2>1, <2>2 DEF ResolveSimple, StartAppend, PTypeOK, plogvars
<1>6. ASSUME NEW q \in PropId, Accept(q)
      PROVE  PTypeOK'
  <2>1. job' \in Create
    BY <1>1, <1>6, OpenIsCreated DEF Accept
  <2>. QED
    BY <1>6, <2>1 DEF Accept, PTypeOK, plogvars
<1>7. ASSUME NEW c \in Contents, ConvertExternal(c)
      PROVE  PTypeOK'
  <2>1. nextRev <= MaxRevs /\ job \in Create /\ pc = "guard"
    BY <1>7 DEF ConvertExternal, PTypeOK
  <2>2. TargetDoc \in RevId /\ job.path \in Paths
    BY <2>1, TargetIsDoc
  <2>3. /\ Append(history, Revision(TargetDoc, job.path, c)) \in Seq(Record)
        /\ nextRev \in RevId /\ nextRev + 1 \in 1..(MaxRevs + 1)
    BY <2>1, <2>2, SavedIsRecord
  <2>. QED
    BY <1>7, <2>1, <2>3 DEF ConvertExternal, Commit, PTypeOK, plogvars
<1>8. ASSUME NEW c \in Contents, AcceptSaves(c)
      PROVE  PTypeOK'
  <2>1. Lands(c)
    BY <1>8 DEF AcceptSaves
  <2>2. /\ history' \in Seq(Record) /\ nextRev \in RevId /\ nextRev' \in 1..(MaxRevs + 1)
        /\ landed' \subseteq PropId \X RevId /\ job.prop \in PropId
    BY <2>1, LandsTypes
  <2>3. job' \in Resolve
    BY <1>8, <2>2 DEF AcceptSaves, StartAppend, Resolve
  <2>4. job' # None
    BY <1>2, <2>3 DEF Entry
  <2>. QED
    BY <1>8, <2>2, <2>3, <2>4 DEF AcceptSaves, StartAppend, PTypeOK, plogvars
<1>9. CASE AcceptRefused
  BY <1>9 DEF AcceptRefused, PTypeOK, plogvars
<1>10. CASE AppendRecord
  <2>1. /\ job \in Entry
        /\ plog' \in Seq(Entry) /\ Len(plog') >= Len(plog)
        /\ Append(applied, job) \in Seq(Entry)
    BY <1>10, LineTypes DEF AppendRecord
  <2>2. psynced' \in 0..Len(plog') /\ told' \subseteq Create \cup Resolve
    <3>1. Len(plog') \in Nat
      BY <2>1, LenProperties
    <3>. QED
      BY <1>10, <2>1, <3>1 DEF AppendRecord, PTypeOK, Entry
  <2>. QED
    BY <1>10, <2>1, <2>2 DEF AppendRecord, PTypeOK, Entry
<1>11. CASE Kill
  <2>1. /\ history' \in Seq(Record) /\ acked' = acked
        /\ landed' \subseteq PropId \X RevId /\ nextRev' \in 1..(MaxRevs + 1)
    BY <1>11, CrashTypes DEF Kill
  <2>2. plog' \in Seq(Entry) /\ psynced' \in 0..Len(plog') /\ torn' \in BOOLEAN
    <3>0. plog' = plog \/ (pc = "append" /\ WriteLine)
      BY <1>11 DEF Kill
    <3>1. plog' \in Seq(Entry) /\ Len(plog') >= Len(plog) /\ torn' \in BOOLEAN
      <4>1. torn' \in BOOLEAN
        BY <1>11 DEF Kill, PTypeOK
      <4>2. plog' \in Seq(Entry) /\ Len(plog') >= Len(plog)
        BY <1>1, <3>0, LineTypes
      <4>. QED
        BY <4>1, <4>2
    <3>2. Len(plog') \in Nat
      BY <3>1, LenProperties
    <3>. QED
      BY <1>1, <1>11, <3>1, <3>2 DEF Kill
  <2>3. applied' \in Seq(Entry)
    BY <1>11, EmptySeq DEF Kill, Down
  <2>. QED
    BY <1>11, <2>1, <2>2, <2>3 DEF Kill, Fault, Down, PTypeOK, Entry
<1>12. CASE PowerLoss
  <2>1. /\ history' \in Seq(Record) /\ acked' = acked
        /\ landed' \subseteq PropId \X RevId /\ nextRev' \in 1..(MaxRevs + 1)
    BY <1>12, CrashTypes DEF PowerLoss
  <2>2. plog' \in Seq(Entry) /\ psynced' \in 0..Len(plog') /\ torn' \in BOOLEAN
    <3>1. PICK log \in {plog} \cup IF pc = "append" /\ ~torn THEN {Append(plog, job)} ELSE {} :
            \E n \in psynced..Len(log) :
              /\ plog' = SubSeq(log, 1, n) /\ psynced' = n
              /\ torn' \in {torn, pc = "append" \/ n < Len(log)}
      BY <1>12 DEF PowerLoss
    <3>2. log \in Seq(Entry)
      BY <1>1, <3>1, LineTypes
    <3>3. PICK n \in psynced..Len(log) :
            /\ plog' = SubSeq(log, 1, n) /\ psynced' = n
            /\ torn' \in {torn, pc = "append" \/ n < Len(log)}
      BY <3>1
    <3>4. n \in 0..Len(log) /\ n \in Nat
      <4>1. Len(log) \in Nat
        BY <3>2, LenProperties
      <4>. QED
        BY <1>1, <3>3, <4>1
    <3>5. SubSeq(log, 1, n) \in Seq(Entry) /\ Len(SubSeq(log, 1, n)) = n
      BY <3>2, <3>4, PrefixIsLog
    <3>6. torn' \in BOOLEAN
      BY <3>3 DEF PTypeOK
    <3>. QED
      BY <3>3, <3>4, <3>5, <3>6
  <2>3. applied' \in Seq(Entry)
    BY <1>12, EmptySeq DEF PowerLoss, Down
  <2>. QED
    BY <1>12, <2>1, <2>2, <2>3 DEF PowerLoss, Fault, Down, PTypeOK, Entry
<1>13. CASE FailIo
  <2>1. plog' \in Seq(Entry) /\ Len(plog') >= Len(plog) /\ torn' \in BOOLEAN
    <3>1. torn' \in BOOLEAN
      BY <1>13 DEF FailIo, PTypeOK
    <3>2. plog' = plog \/ (pc = "append" /\ WriteLine)
      BY <1>13 DEF FailIo
    <3>3. plog' \in Seq(Entry) /\ Len(plog') >= Len(plog)
      BY <1>1, <3>2, LineTypes
    <3>. QED
      BY <3>1, <3>3
  <2>2. psynced' \in 0..Len(plog')
    <3>1. Len(plog') \in Nat
      BY <2>1, LenProperties
    <3>. QED
      BY <1>1, <1>13, <2>1, <3>1 DEF FailIo
  <2>. QED
    BY <1>13, <2>1, <2>2 DEF FailIo, Fault, PTypeOK, Entry
<1>14. CASE Open
  <2>1. psynced' \in 0..Len(plog')
    BY <1>1, <1>14 DEF Open
  <2>. QED
    BY <1>1, <1>14, <2>1 DEF Open, PTypeOK, Entry
<1>15. CASE OpenCorrupt \/ Wait \/ UNCHANGED vars
  BY <1>15 DEF OpenCorrupt, Wait, vars, plogvars, PTypeOK
<1>. QED
  BY <1>3, <1>4, <1>5, <1>6, <1>7, <1>8, <1>9, <1>10, <1>11, <1>12, <1>13, <1>14, <1>15 DEF Next

(* Every variable of the proposal model keeps its type. *)
THEOREM PTypeCorrect == Spec => []PTypeOK
<1>. QED
  BY PTypeInit, PTypeNext, PTL DEF Spec

-------------------------------------------------------------------------------
(* The log can be replayed, and keeps what was told.                       *)

(* The records a client was told about are in the part that is on disk for *)
(* good; a torn line exists only while the process is down; the index of   *)
(* an open vault is the log, so the record in hand, chosen by the index,   *)
(* fits behind the log.                                                    *)
LogInv ==
  /\ torn => pc = "down"
  /\ pc # "down" => applied = plog
  /\ ResolvesOnce
  /\ Known(plog) \subseteq 1..(nextProp - 1)
  /\ pc = "append" => Fits(plog, job) /\ job.prop \in 1..(nextProp - 1)
  /\ pc \in {"guard", "check"} => job.prop \in OpenIn(plog)
  /\ ToldKept

LEMMA LogInit == Init => LogInv
<1> SUFFICES ASSUME Init PROVE LogInv
  OBVIOUS
<1>1. plog = <<>> /\ DOMAIN <<>> = {} /\ told = {} /\ pc = "idle" /\ applied = <<>> /\ ~torn
  BY DEF Init
<1>2. Known(plog) = {} /\ Replayable(plog)
  BY <1>1 DEF Known, Replayable
<1>. QED
  BY <1>1, <1>2 DEF LogInv, ResolvesOnce, ToldKept

(* A step that touches neither the log nor the index. *)
LEMMA LogUntouched ==
  ASSUME PTypeOK, LogInv, pc # "down", pc' # "down", nextProp' \in Nat, nextProp' >= nextProp,
         UNCHANGED <<plogvars, applied, told>>,
         pc' = "append" => Fits(plog, job') /\ job'.prop \in 1..(nextProp' - 1),
         pc' \in {"guard", "check"} => job'.prop \in OpenIn(plog)
  PROVE  LogInv'
<1>1. Known(plog) \subseteq 1..(nextProp' - 1)
  BY DEF LogInv, PTypeOK
<1>2. UNCHANGED <<plog, torn, psynced, applied, told>>
  BY DEF plogvars
<1>. QED
  BY <1>1, <1>2 DEF LogInv, ResolvesOnce, ToldKept, Fits, OpenIn, Known, Resolved

(* Writing the record in hand to a log without a torn line. *)
LEMMA LogExtended ==
  ASSUME PTypeOK, LogInv, pc = "append"
  PROVE  /\ Append(plog, job) \in Seq(Entry)
         /\ Len(Append(plog, job)) = Len(plog) + 1
         /\ Append(plog, job)[Len(plog) + 1] = job
         /\ \A i \in 1..Len(plog) : Append(plog, job)[i] = plog[i]
         /\ Replayable(Append(plog, job))
         /\ Known(Append(plog, job)) \subseteq 1..(nextProp - 1)
<1>1. plog \in Seq(Entry) /\ job \in Entry
  BY DEF PTypeOK, Entry
<1>2. Replayable(plog) /\ Fits(plog, job) /\ job.prop \in 1..(nextProp - 1)
      /\ Known(plog) \subseteq 1..(nextProp - 1)
  BY DEF LogInv, ResolvesOnce
<1>3. Replayable(Append(plog, job))
  BY <1>1, <1>2, AppendReplayable
<1>4. Known(Append(plog, job)) \subseteq 1..(nextProp - 1)
  BY <1>1, <1>2, AppendProposal
<1>. QED
  BY <1>1, <1>3, <1>4, AppendIsLog

(* A process that is down finds a prefix of the log, or of the log and the *)
(* line in hand, that has all that was on disk for good.                   *)
LEMMA LogCrash ==
  ASSUME PTypeOK, LogInv, pc' = "down", UNCHANGED <<told, nextProp>>,
         NEW log \in {plog} \cup (IF pc = "append" THEN {Append(plog, job)} ELSE {}),
         NEW n \in 0..Len(log), plog' = SubSeq(log, 1, n),
         psynced <= psynced', psynced' \in 0..n
  PROVE  LogInv'
<1>1. plog \in Seq(Entry) /\ Len(plog) \in Nat /\ psynced \in 0..Len(plog)
  BY LenProperties DEF PTypeOK, Entry
<1>2. /\ log \in Seq(Entry) /\ Len(log) \in Nat /\ Len(log) >= Len(plog)
      /\ \A i \in 1..Len(plog) : log[i] = plog[i]
      /\ Replayable(log) /\ Known(log) \subseteq 1..(nextProp - 1)
  <2>1. CASE log = plog
    BY <1>1, <2>1 DEF LogInv, ResolvesOnce
  <2>2. CASE pc = "append" /\ log = Append(plog, job)
    BY <1>1, <2>2, LogExtended
  <2>. QED
    BY <2>1, <2>2
<1>3. /\ plog' \in Seq(Entry)
      /\ \A i \in 1..n : plog'[i] = log[i]
      /\ Known(plog') \subseteq 1..(nextProp - 1)
      /\ Replayable(plog')
  BY <1>2, PrefixIsLog, PrefixReplayable
<1>4. \A i \in 1..psynced : i \in 1..psynced' /\ plog'[i] = plog[i]
  <2>1. \A i \in 1..psynced : i \in 1..psynced' /\ i \in 1..n /\ i \in 1..Len(plog)
    BY <1>1, <1>2
  <2>. QED
    BY <1>2, <1>3, <2>1
<1>5. ToldKept'
  BY <1>4 DEF LogInv, ToldKept
<1>. QED
  BY <1>3, <1>5 DEF LogInv, ResolvesOnce

(* An append that failed is never forgotten. *)
LEMMA FailedStays == [Next]_vars /\ failed => failed'
BY DEF Next, CommitElsewhere, CreateProposal, ResolveSimple, Accept, ConvertExternal, AcceptSaves,
       AcceptRefused, AppendRecord, Kill, PowerLoss, FailIo, Fault, Open, OpenCorrupt, Wait, vars

LEMMA LogNext == PTypeOK /\ LogInv /\ [Next]_vars /\ ~failed' => LogInv'
<1> SUFFICES ASSUME PTypeOK, LogInv, [Next]_vars, ~failed' PROVE LogInv'
  OBVIOUS
<1>1. /\ plog \in Seq(Entry) /\ Len(plog) \in Nat
      /\ psynced \in 0..Len(plog)
      /\ nextProp \in Nat
  BY LenProperties, ProposalAssumption DEF PTypeOK, Entry
<1>2. ASSUME NEW p \in Paths, NEW c \in Contents, CommitElsewhere(p, c)
      PROVE  LogInv'
  BY <1>1, <1>2, LogUntouched DEF CommitElsewhere
<1>3. ASSUME NEW p \in Paths, CreateProposal(p)
      PROVE  LogInv'
  <2>1. /\ pc = "idle" /\ pc' = "append" /\ nextProp' = nextProp + 1
        /\ job'.event = "create" /\ job'.prop = nextProp
        /\ UNCHANGED <<plogvars, applied, told>>
    BY <1>3 DEF CreateProposal, StartAppend
  <2>2. nextProp \notin Known(plog) /\ nextProp \in 1..(nextProp' - 1)
    BY <1>1, <2>1 DEF LogInv, PTypeOK
  <2>3. Fits(plog, job')
    BY <2>1, <2>2 DEF Fits
  <2>. QED
    BY <1>1, <2>1, <2>2, <2>3, LogUntouched
<1>4. ASSUME NEW q \in PropId, NEW resolution \in {"rejected", "withdrawn"},
             ResolveSimple(q, resolution)
      PROVE  LogInv'
  <2>1. /\ pc = "idle" /\ pc' = "append" /\ nextProp' = nextProp
        /\ job'.event # "create" /\ job'.prop = q /\ q \in OpenIn(applied)
        /\ UNCHANGED <<plogvars, applied, told>>
    BY <1>4 DEF ResolveSimple, StartAppend
  <2>2. q \in OpenIn(plog) /\ q \in 1..(nextProp - 1)
    BY <2>1 DEF LogInv, OpenIn
  <2>3. Fits(plog, job')
    BY <2>1, <2>2 DEF Fits
  <2>. QED
    BY <1>1, <2>1, <2>2, <2>3, LogUntouched
<1>5. ASSUME NEW q \in PropId, Accept(q)
      PROVE  LogInv'
  <2>1. /\ pc = "idle" /\ pc' = "guard" /\ nextProp' = nextProp
        /\ q \in OpenIn(plog) /\ job' = Created(plog, q)
        /\ UNCHANGED <<plogvars, applied, told>>
    BY <1>5 DEF Accept, LogInv
  <2>2. job'.prop = q
    BY <1>1, <2>1, OpenIsCreated
  <2>. QED
    BY <1>1, <2>1, <2>2, LogUntouched
<1>6. ASSUME NEW c \in Contents, ConvertExternal(c)
      PROVE  LogInv'
  <2>1. /\ pc = "guard" /\ pc' = "check" /\ UNCHANGED <<plogvars, applied, told, job, nextProp>>
    BY <1>6 DEF ConvertExternal
  <2>2. job'.prop \in OpenIn(plog)
    BY <2>1 DEF LogInv
  <2>. QED
    BY <1>1, <2>1, <2>2, LogUntouched
<1>7. ASSUME NEW c \in Contents, AcceptSaves(c)
      PROVE  LogInv'
  <2>1. /\ pc \in {"guard", "check"} /\ pc' = "append"
        /\ job'.event # "create" /\ job'.prop = job.prop
        /\ UNCHANGED <<plogvars, applied, told, nextProp>>
    BY <1>7 DEF AcceptSaves, Lands, StartAppend
  <2>2. job.prop \in OpenIn(plog) /\ job.prop \in 1..(nextProp - 1)
    BY <2>1 DEF LogInv, OpenIn
  <2>3. Fits(plog, job')
    BY <2>1, <2>2 DEF Fits
  <2>. QED
    BY <1>1, <2>1, <2>2, <2>3, LogUntouched
<1>8. CASE AcceptRefused
  BY <1>1, <1>8, LogUntouched DEF AcceptRefused
<1>9. CASE AppendRecord
  <2>1. /\ pc = "append" /\ ~torn /\ pc' = "idle" /\ UNCHANGED <<torn, nextProp>>
        /\ told' = told \cup {job} /\ psynced' = Len(plog')
        /\ applied' = Append(applied, job)
    BY <1>9 DEF AppendRecord, LogInv
  <2>2. plog' = Append(plog, job) /\ applied' = plog'
    BY <1>9, <2>1 DEF AppendRecord, WriteLine, LogInv
  <2>3. /\ Len(plog') = Len(plog) + 1
        /\ plog'[Len(plog) + 1] = job
        /\ \A i \in 1..Len(plog) : plog'[i] = plog[i]
        /\ Replayable(plog') /\ Known(plog') \subseteq 1..(nextProp - 1)
    BY <2>1, <2>2, LogExtended
  <2>4. \A r \in told' : \E i \in 1..psynced' : plog'[i] = r
    <3>1. \A i \in 1..psynced : i \in 1..Len(plog) /\ i \in 1..psynced'
      BY <1>1, <2>1, <2>3
    <3>2. Len(plog) + 1 \in 1..psynced'
      BY <1>1, <2>1, <2>3
    <3>. QED
      BY <2>1, <2>3, <3>1, <3>2 DEF LogInv, ToldKept
  <2>5. ToldKept'
    BY <2>4 DEF ToldKept
  <2>. QED
    BY <2>1, <2>2, <2>3, <2>5 DEF LogInv, ResolvesOnce
<1>10. CASE Kill
  <2>1. pc' = "down" /\ UNCHANGED <<told, nextProp, psynced>>
    BY <1>10 DEF Kill, Down, Fault
  <2>2. plog' = plog \/ (pc = "append" /\ plog' = Append(plog, job))
    BY <1>10 DEF Kill, WriteLine
  <2>3. SubSeq(plog', 1, Len(plog')) = plog' /\ Len(plog') \in 0..Len(plog')
        /\ psynced' \in 0..Len(plog')
    <3>1. plog' \in Seq(Entry) /\ Len(plog') \in Nat /\ Len(plog') >= Len(plog)
      BY <1>1, <2>2, LogExtended
    <3>. QED
      BY <1>1, <2>1, <3>1, PrefixOfPrefix
  <2>4. PICK log \in {plog} \cup (IF pc = "append" THEN {Append(plog, job)} ELSE {}) : plog' = log
    BY <2>2
  <2>5. PICK n \in 0..Len(log) : plog' = SubSeq(log, 1, n) /\ psynced' \in 0..n
    BY <2>3, <2>4
  <2>6. psynced <= psynced'
    BY <1>1, <2>1
  <2>. QED
    BY <2>1, <2>4, <2>5, <2>6, LogCrash
<1>11. CASE PowerLoss
  <2>1. pc' = "down" /\ UNCHANGED <<told, nextProp>>
    BY <1>11 DEF PowerLoss, Down, Fault
  <2>2. PICK log \in {plog} \cup IF pc = "append" /\ ~torn THEN {Append(plog, job)} ELSE {} :
          \E n \in psynced..Len(log) : plog' = SubSeq(log, 1, n) /\ psynced' = n
    BY <1>11 DEF PowerLoss
  <2>3. PICK n \in psynced..Len(log) : plog' = SubSeq(log, 1, n) /\ psynced' = n
    BY <2>2
  <2>4. log \in {plog} \cup (IF pc = "append" THEN {Append(plog, job)} ELSE {})
    BY <2>2
  <2>5. Len(log) \in Nat
    BY <1>1, <2>4, LogExtended
  <2>6. n \in 0..Len(log) /\ psynced <= psynced' /\ psynced' \in 0..n
    BY <1>1, <2>3, <2>5
  <2>. QED
    BY <2>1, <2>3, <2>4, <2>6, LogCrash
<1>12. CASE FailIo
  BY <1>12 DEF FailIo, Fault
<1>13. CASE Open
  <2>1. /\ torn' = FALSE /\ applied' = plog' /\ plog' = plog /\ pc' = "idle"
        /\ UNCHANGED <<told, nextProp>>
        /\ psynced' = IF torn THEN Len(plog) ELSE psynced
    BY <1>13 DEF Open
  <2>2. \A i \in 1..psynced : i \in 1..psynced'
    BY <1>1, <2>1
  <2>3. ToldKept'
    BY <2>1, <2>2 DEF LogInv, ToldKept
  <2>. QED
    BY <2>1, <2>3 DEF LogInv, ResolvesOnce
<1>14. CASE OpenCorrupt \/ Wait \/ UNCHANGED vars
  BY <1>14 DEF OpenCorrupt, Wait, vars, plogvars, LogInv, ResolvesOnce, ToldKept, Fits, OpenIn,
               Known, Resolved
<1>. QED
  BY <1>2, <1>3, <1>4, <1>5, <1>6, <1>7, <1>8, <1>9, <1>10, <1>11, <1>12, <1>13, <1>14 DEF Next

(* The log is as described until an append has failed. *)
LogSafe == ~failed => LogInv

LEMMA LogSafeNext == PTypeOK /\ LogSafe /\ [Next]_vars => LogSafe'
BY LogNext, FailedStays DEF LogSafe

(* Until an append fails, no kill, power loss or retry leaves a log with a *)
(* proposal created or closed twice.                                       *)
THEOREM ClosedOnceHolds == Spec => []ClosedOnce
<1>1. Init => LogSafe
  BY LogInit DEF LogSafe
<1>2. LogSafe => ClosedOnce
  BY DEF LogSafe, LogInv, ClosedOnce
<1>. QED
  BY <1>1, <1>2, PTypeInit, PTypeNext, LogSafeNext, PTL DEF Spec

(* Until an append fails, a proposal or resolution that was reported to a  *)
(* client stays in the log.                                                *)
THEOREM ToldDurableHolds == Spec => []ToldDurable
<1>1. Init => LogSafe
  BY LogInit DEF LogSafe
<1>2. LogSafe => ToldDurable
  BY DEF LogSafe, LogInv, ToldDurable
<1>. QED
  BY <1>1, <1>2, PTypeInit, PTypeNext, LogSafeNext, PTL DEF Spec

(* As long as no append fails, every proposal is created once and closed   *)
(* at most once through any kills and power losses, with retries after     *)
(* them: the log can be replayed, and the vault be opened, at any time.    *)
THEOREM ResolvesOnceUnlessIoFails ==
  ASSUME "io" \notin Faults
  PROVE  Spec => []ResolvesOnce
<1>1. Init => ~failed
  BY DEF Init
<1>2. ~failed /\ [Next]_vars => ~failed'
  <2> SUFFICES ASSUME ~failed, [Next]_vars PROVE ~failed'
    OBVIOUS
  <2>1. CASE \E p \in Paths, c \in Contents : CommitElsewhere(p, c)
    BY <2>1 DEF CommitElsewhere
  <2>2. CASE \/ \E p \in Paths : CreateProposal(p)
             \/ \E q \in PropId, resolution \in {"rejected", "withdrawn"} : ResolveSimple(q, resolution)
             \/ \E q \in PropId : Accept(q)
    BY <2>2 DEF CreateProposal, ResolveSimple, Accept
  <2>3. CASE \E c \in Contents : ConvertExternal(c) \/ AcceptSaves(c)
    BY <2>3 DEF ConvertExternal, AcceptSaves
  <2>4. CASE AcceptRefused \/ AppendRecord \/ Open \/ OpenCorrupt \/ Wait \/ UNCHANGED vars
    BY <2>4 DEF AcceptRefused, AppendRecord, Open, OpenCorrupt, Wait, vars
  <2>5. CASE Kill \/ PowerLoss
    BY <2>5 DEF Kill, PowerLoss, Fault
  <2>6. ~FailIo
    BY DEF FailIo, Fault
  <2>. QED
    BY <2>1, <2>2, <2>3, <2>4, <2>5, <2>6 DEF Next
<1>3. ~failed /\ ClosedOnce => ResolvesOnce
  BY DEF ClosedOnce
<1>. QED
  BY <1>1, <1>2, <1>3, ClosedOnceHolds, PTL DEF Spec

-------------------------------------------------------------------------------
(* No acceptance without its commit.                                       *)

Backed(r, revs, pairs) == r.event = "accepted" => r.rev \in revs /\ <<r.prop, r.rev>> \in pairs

(* A logged acceptance, and one about to be logged, is of a revision that  *)
(* was acknowledged; and no acknowledged revision is missing.              *)
AcceptInv ==
  /\ \A i \in DOMAIN plog : Backed(plog[i], acked, landed)
  /\ pc = "append" => Backed(job, acked, landed)
  /\ acked \subseteq RevsOf(history)

LEMMA AcceptInit == Init => AcceptInv
<1>1. DOMAIN <<>> = {}
  OBVIOUS
<1>. QED
  BY <1>1 DEF Init, HInit, AcceptInv

(* A commit of a new revision keeps what was acknowledged. *)
LEMMA CommitKeeps ==
  ASSUME PTypeOK, AcceptInv, NEW r \in Record, Commit(r)
  PROVE  acked \subseteq acked' /\ acked' \subseteq RevsOf(history')
<1>1. RevsOf(Append(history, r)) = RevsOf(history) \cup {r.rev}
  BY AppendRevs DEF PTypeOK
<1>. QED
  BY <1>1 DEF Commit, AcceptInv

LEMMA CrashKeeps ==
  ASSUME PTypeOK, AcceptInv,
         \/ HalfSaved
         \/ (\E n \in 0..Len(history) : Lose(n)) /\ UNCHANGED <<landed, nextRev>>
         \/ UNCHANGED <<history, acked, landed, nextRev>>
  PROVE  landed \subseteq landed' /\ acked \subseteq acked' /\ acked' \subseteq RevsOf(history')
<1>1. CASE HalfSaved
  <2>1. PICK c \in Contents : Lands(c)
    BY <1>1 DEF HalfSaved
  <2>2. Revision(TargetDoc, job.path, c) \in Record
    BY <2>1, LandsTypes
  <2>. QED
    BY <2>1, <2>2, CommitKeeps DEF Lands
<1>2. CASE (\E n \in 0..Len(history) : Lose(n)) /\ UNCHANGED <<landed, nextRev>>
  BY <1>2 DEF Lose
<1>3. CASE UNCHANGED <<history, acked, landed, nextRev>>
  BY <1>3 DEF AcceptInv
<1>. QED
  BY <1>1, <1>2, <1>3

(* The log only ever holds backed records, if the record in hand is one. *)
LEMMA BackedLog ==
  ASSUME PTypeOK, AcceptInv, landed \subseteq landed', acked \subseteq acked',
         NEW log \in {plog} \cup (IF pc = "append" THEN {Append(plog, job)} ELSE {}),
         NEW n \in 0..Len(log), plog' = SubSeq(log, 1, n)
  PROVE  \A i \in DOMAIN plog' : Backed(plog'[i], acked', landed')
<1>1. plog \in Seq(Entry) /\ Len(plog) \in Nat /\ DOMAIN plog = 1..Len(plog)
  BY LenProperties DEF PTypeOK, Entry
<1>2. log \in Seq(Entry) /\ \A i \in 1..Len(log) : Backed(log[i], acked, landed)
  <2>1. CASE log = plog
    BY <1>1, <2>1 DEF AcceptInv
  <2>2. CASE pc = "append" /\ log = Append(plog, job)
    <3>1. /\ log \in Seq(Entry) /\ Len(log) = Len(plog) + 1 /\ log[Len(plog) + 1] = job
          /\ \A i \in 1..Len(plog) : log[i] = plog[i]
      BY <1>1, <2>2, LineTypes, AppendIsLog
    <3>2. \A i \in 1..(Len(plog) + 1) : i \in 1..Len(plog) \/ i = Len(plog) + 1
      BY <1>1
    <3>. QED
      BY <1>1, <2>2, <3>1, <3>2 DEF AcceptInv
  <2>. QED
    BY <2>1, <2>2
<1>3. plog' \in Seq(Entry) /\ Len(plog') = n /\ \A i \in 1..n : plog'[i] = log[i]
  BY <1>2, PrefixIsLog
<1>4. DOMAIN plog' = 1..n /\ Len(log) \in Nat
  BY <1>2, <1>3, LenProperties
<1>5. \A i \in 1..n : i \in 1..Len(log)
  BY <1>4
<1>. QED
  BY <1>2, <1>3, <1>4, <1>5 DEF Backed

LEMMA AcceptNext == PTypeOK /\ AcceptInv /\ [Next]_vars => AcceptInv'
<1> SUFFICES ASSUME PTypeOK, AcceptInv, [Next]_vars PROVE AcceptInv'
  OBVIOUS
<1>1. /\ plog \in Seq(Entry) /\ Len(plog) \in Nat
      /\ SubSeq(plog, 1, Len(plog)) = plog /\ Len(plog) \in 0..Len(plog)
  <2>1. plog \in Seq(Entry) /\ Len(plog) \in Nat
    BY LenProperties DEF PTypeOK, Entry
  <2>. QED
    BY <2>1, PrefixOfPrefix
<1>2. ASSUME plog' = plog, landed \subseteq landed', acked \subseteq acked'
      PROVE  \A i \in DOMAIN plog' : Backed(plog'[i], acked', landed')
  BY <1>2 DEF AcceptInv, Backed
<1>3. ASSUME WriteLine, pc = "append", landed \subseteq landed', acked \subseteq acked'
      PROVE  \A i \in DOMAIN plog' : Backed(plog'[i], acked', landed')
  <2>1. CASE torn
    BY <1>2, <1>3, <2>1 DEF WriteLine
  <2>2. CASE ~torn
    <3>1. plog' = Append(plog, job)
      BY <1>3, <2>2 DEF WriteLine
    <3>2. Append(plog, job) \in Seq(Entry) /\ Len(Append(plog, job)) = Len(plog) + 1
      BY <1>3, LineTypes
    <3>3. PICK log \in {plog} \cup (IF pc = "append" THEN {Append(plog, job)} ELSE {}) :
            log = Append(plog, job)
      BY <1>3
    <3>4. Len(log) \in 0..Len(log)
      <4>1. Len(log) = Len(plog) + 1
        BY <3>2, <3>3
      <4>2. Len(plog) + 1 \in 0..(Len(plog) + 1)
        BY <1>1
      <4>. QED
        BY <4>1, <4>2
    <3>5. SubSeq(log, 1, Len(log)) = log
      BY <3>2, <3>3, <3>4, PrefixOfPrefix
    <3>6. PICK n \in 0..Len(log) : plog' = SubSeq(log, 1, n)
      BY <3>1, <3>3, <3>4, <3>5
    <3>. QED
      BY <1>3, <3>6, BackedLog
  <2>. QED
    BY <2>1, <2>2
<1>4. ASSUME NEW p \in Paths, NEW c \in Contents, CommitElsewhere(p, c)
      PROVE  AcceptInv'
  <2>1. nextRev <= MaxRevs
    BY <1>4 DEF CommitElsewhere
  <2>2. Revision(DocFor(p), p, c) \in Record
    BY <2>1, SavedIsRecord
  <2>3. acked \subseteq acked' /\ acked' \subseteq RevsOf(history')
    BY <1>4, <2>2, CommitKeeps DEF CommitElsewhere
  <2>. QED
    BY <1>2, <1>4, <2>3 DEF CommitElsewhere, AcceptInv, Backed, plogvars
<1>5. ASSUME NEW p \in Paths, CreateProposal(p)
      PROVE  AcceptInv'
  BY <1>5 DEF CreateProposal, StartAppend, AcceptInv, Backed, plogvars
<1>6. ASSUME NEW q \in PropId, NEW resolution \in {"rejected", "withdrawn"},
             ResolveSimple(q, resolution)
      PROVE  AcceptInv'
  BY <1>6 DEF ResolveSimple, StartAppend, AcceptInv, Backed, plogvars
<1>7. ASSUME NEW q \in PropId, Accept(q)
      PROVE  AcceptInv'
  BY <1>7 DEF Accept, AcceptInv, Backed, plogvars
<1>8. ASSUME NEW c \in Contents, ConvertExternal(c)
      PROVE  AcceptInv'
  <2>1. nextRev <= MaxRevs /\ job \in Create
    BY <1>8 DEF ConvertExternal, PTypeOK
  <2>2. Revision(TargetDoc, job.path, c) \in Record
    BY <2>1, TargetIsDoc, SavedIsRecord
  <2>3. acked \subseteq acked' /\ acked' \subseteq RevsOf(history')
    BY <1>8, <2>2, CommitKeeps DEF ConvertExternal
  <2>. QED
    BY <1>2, <1>8, <2>3 DEF ConvertExternal, AcceptInv, Backed, plogvars
<1>9. ASSUME NEW c \in Contents, AcceptSaves(c)
      PROVE  AcceptInv'
  <2>1. Lands(c) /\ plog' = plog /\ job' = [event |-> "accepted", prop |-> job.prop, rev |-> nextRev]
        /\ acked' = acked \cup {nextRev}
    BY <1>9 DEF AcceptSaves, StartAppend, plogvars
  <2>2. Revision(TargetDoc, job.path, c) \in Record
    BY <2>1, LandsTypes
  <2>3. acked \subseteq acked' /\ acked' \subseteq RevsOf(history')
    BY <2>1, <2>2, CommitKeeps DEF Lands
  <2>4. landed' = landed \cup {<<job.prop, nextRev>>}
    BY <2>1 DEF Lands
  <2>5. Backed(job', acked', landed')
    BY <2>1, <2>4 DEF Backed
  <2>6. \A i \in DOMAIN plog' : Backed(plog'[i], acked', landed')
    BY <1>2, <2>1, <2>3, <2>4
  <2>. QED
    BY <2>3, <2>5, <2>6 DEF AcceptInv
<1>10. CASE AcceptRefused
  BY <1>10 DEF AcceptRefused, AcceptInv, Backed, plogvars
<1>11. CASE AppendRecord
  <2>1. /\ pc = "append" /\ WriteLine /\ pc' = "idle"
        /\ UNCHANGED <<history, acked, landed>>
    BY <1>11 DEF AppendRecord
  <2>. QED
    BY <1>3, <2>1 DEF AcceptInv
<1>12. CASE Kill
  <2>1. /\ pc' = "down"
        /\ plog' = plog \/ (pc = "append" /\ WriteLine)
    BY <1>12 DEF Kill, Down
  <2>2. landed \subseteq landed' /\ acked \subseteq acked' /\ acked' \subseteq RevsOf(history')
    BY <1>12, CrashKeeps DEF Kill
  <2>. QED
    BY <1>2, <1>3, <2>1, <2>2 DEF AcceptInv
<1>13. CASE PowerLoss
  <2>1. pc' = "down"
    BY <1>13 DEF PowerLoss, Down
  <2>2. landed \subseteq landed' /\ acked \subseteq acked' /\ acked' \subseteq RevsOf(history')
    BY <1>13, CrashKeeps DEF PowerLoss
  <2>3. PICK log \in {plog} \cup IF pc = "append" /\ ~torn THEN {Append(plog, job)} ELSE {} :
          \E n \in psynced..Len(log) : plog' = SubSeq(log, 1, n)
    BY <1>13 DEF PowerLoss
  <2>4. PICK n \in psynced..Len(log) : plog' = SubSeq(log, 1, n)
    BY <2>3
  <2>5. log \in {plog} \cup (IF pc = "append" THEN {Append(plog, job)} ELSE {})
    BY <2>3
  <2>6. n \in 0..Len(log)
    <3>1. Len(log) \in Nat /\ psynced \in 0..Len(plog)
      BY <1>1, <2>5, LineTypes DEF PTypeOK
    <3>. QED
      BY <1>1, <2>4, <3>1
  <2>7. \A i \in DOMAIN plog' : Backed(plog'[i], acked', landed')
    BY <2>2, <2>4, <2>5, <2>6, BackedLog
  <2>. QED
    BY <2>1, <2>2, <2>7 DEF AcceptInv
<1>14. CASE FailIo
  <2>1. /\ pc = "append" /\ pc' = "idle"
        /\ plog' = plog \/ WriteLine
        /\ UNCHANGED <<history, acked, landed>>
    BY <1>14 DEF FailIo
  <2>. QED
    BY <1>2, <1>3, <2>1 DEF AcceptInv
<1>15. CASE Open
  BY <1>15 DEF Open, AcceptInv, Backed
<1>16. CASE OpenCorrupt \/ Wait \/ UNCHANGED vars
  BY <1>16 DEF OpenCorrupt, Wait, vars, plogvars, AcceptInv, Backed
<1>. QED
  BY <1>4, <1>5, <1>6, <1>7, <1>8, <1>9, <1>10, <1>11, <1>12, <1>13, <1>14, <1>15, <1>16 DEF Next

(* Through kills, power losses and failing appends to the log, a logged    *)
(* acceptance names a revision that came from that proposal and that the   *)
(* history has for good, if no system call fails in the vault below.       *)
THEOREM AcceptedCommittedHolds == Spec => []AcceptedCommitted
<1>1. AcceptInv => AcceptedCommitted
  BY DEF AcceptInv, Backed, AcceptedCommitted
<1>. QED
  BY <1>1, PTypeInit, PTypeNext, AcceptInit, AcceptNext, PTL DEF Spec

-------------------------------------------------------------------------------
(* Where an accepted proposal lands.                                       *)

Entries(log) == {log[i] : i \in DOMAIN log}

(* Every creation that a log, the index or the process holds. *)
Proposed == (Entries(plog) \cup Entries(applied) \cup {job}) \cap Create

(* Revisions are numbered in the order of the history, and after parents. *)
Ordered(log, n) ==
  /\ \A i, j \in DOMAIN log : i < j => log[i].rev < log[j].rev
  /\ \A i \in DOMAIN log : log[i].parent < log[i].rev /\ log[i].rev < n

SitsOn(rec, r) == rec.parent = r.base /\ rec.path = r.path /\ r.doc \in {NoDoc, rec.doc}

Numbered ==
  /\ \A x \in landed : x[1] < nextProp /\ x[2] < nextRev
  /\ \A r \in Proposed : r.prop < nextProp /\ (r.doc = NoDoc <=> r.base = NoRev)
  /\ \A r, s \in Proposed : r.prop = s.prop => r = s

(* A revision that came from a proposal sits on the base of its creation,  *)
(* wherever a copy of that creation is; so its document's head has moved.  *)
Based ==
  \A x \in landed, r \in Proposed, i \in DOMAIN history :
    x[1] = r.prop /\ x[2] = history[i].rev => SitsOn(history[i], r)

LandInv == Ordered(history, nextRev) /\ Numbered /\ Based /\ LandsOnce

LEMMA LandInit == Init => LandInv
<1> SUFFICES ASSUME Init PROVE LandInv
  OBVIOUS
<1>1. DOMAIN <<>> = {}
  OBVIOUS
<1>2. Proposed = {}
  BY <1>1, NoneAssumption DEF Init, Proposed, Entries
<1>. QED
  BY <1>1, <1>2 DEF Init, HInit, LandInv, Ordered, Numbered, Based, LandsOnce

(* Elements of a log that grew, and of one that was cut. *)
LEMMA EntriesOfAppend ==
  ASSUME NEW S, NEW log \in Seq(S), NEW e \in S
  PROVE  Entries(Append(log, e)) \subseteq Entries(log) \cup {e}
<1>1. Len(log) \in Nat /\ DOMAIN log = 1..Len(log)
  BY LenProperties
<1>2. /\ Append(log, e) \in Seq(S) /\ Len(Append(log, e)) = Len(log) + 1
      /\ Append(log, e)[Len(log) + 1] = e
      /\ \A i \in 1..Len(log) : Append(log, e)[i] = log[i]
  BY AppendIsLog
<1>3. DOMAIN Append(log, e) = 1..(Len(log) + 1)
  BY <1>2, LenProperties
<1>4. \A i \in 1..(Len(log) + 1) : i \in 1..Len(log) \/ i = Len(log) + 1
  BY <1>1
<1>. QED
  BY <1>1, <1>2, <1>3, <1>4 DEF Entries

LEMMA EntriesOfPrefix ==
  ASSUME NEW S, NEW log \in Seq(S), NEW n \in 0..Len(log)
  PROVE  Entries(SubSeq(log, 1, n)) \subseteq Entries(log)
<1>1. Len(log) \in Nat /\ DOMAIN log = 1..Len(log)
  BY LenProperties
<1>2. /\ SubSeq(log, 1, n) \in Seq(S) /\ Len(SubSeq(log, 1, n)) = n
      /\ \A i \in 1..n : SubSeq(log, 1, n)[i] = log[i]
  BY PrefixIsLog
<1>3. DOMAIN SubSeq(log, 1, n) = 1..n
  BY <1>2, LenProperties
<1>4. \A i \in 1..n : i \in DOMAIN log
  BY <1>1
<1>. QED
  BY <1>2, <1>3, <1>4 DEF Entries

(* The revision at any place is older than, or is, the head of its         *)
(* document, and of the document now at its path.                          *)
LEMMA HeadIsLater ==
  ASSUME NEW log \in Seq(Record), NEW n, Ordered(log, n), NEW i \in DOMAIN log
  PROVE  /\ log[i].rev <= HeadRev(log, log[i].doc)
         /\ log[i].rev <= HeadRev(log, DocAt(log, log[i].path))
         /\ DocAt(log, log[i].path) # NoDoc
         /\ log[i].parent < log[i].rev
         /\ log[i].rev \in RevId /\ log[i].parent \in RevId \cup {NoRev}
<1>1. Len(log) \in Nat /\ DOMAIN log = 1..Len(log)
  BY LenProperties
<1>2. \A j \in DOMAIN log : /\ log[j].rev \in RevId /\ log[j].doc \in RevId
                            /\ log[j].parent \in RevId \cup {NoRev}
  <2>1. \A j \in DOMAIN log : log[j] \in Record
    BY <1>1, ElementOfSeq
  <2>. QED
    BY <2>1 DEF Record
<1>3. ASSUME NEW j \in DOMAIN log
      PROVE  log[j].rev <= HeadRev(log, log[j].doc)
  <2> DEFINE H == {k \in DOMAIN log : log[k].doc = log[j].doc}
  <2>1. H \in SUBSET (1..Len(log)) /\ j \in H
    BY <1>1
  <2>2. Last(H) \in H /\ j <= Last(H)
    BY <1>1, <2>1, LastIsGreatest
  <2>3. HeadAt(log, log[j].doc) = Last(H)
    BY DEF HeadAt
  <2>4. HeadRev(log, log[j].doc) = log[Last(H)].rev
    BY <1>1, <2>2, <2>3 DEF HeadRev
  <2>5. j = Last(H) \/ j < Last(H)
    BY <1>1, <2>2
  <2> HIDE DEF H
  <2>6. CASE j < Last(H)
    BY <1>2, <2>1, <2>2, <2>4, <2>6 DEF Ordered, H, RevId
  <2>. QED
    BY <1>2, <2>4, <2>5, <2>6 DEF RevId
<1> DEFINE P == {k \in DOMAIN log : log[k].path = log[i].path}
<1>4. Last(P) \in P /\ i <= Last(P)
  <2>1. P \in SUBSET (1..Len(log)) /\ i \in P
    BY <1>1
  <2>. QED
    BY <1>1, <2>1, LastIsGreatest
<1>5. DocAt(log, log[i].path) = log[Last(P)].doc /\ Last(P) \in DOMAIN log
  <2>1. RecordAt(log, log[i].path) = Last(P)
    BY DEF RecordAt
  <2>. QED
    BY <1>1, <1>4, <2>1 DEF DocAt
<1>6. log[i].rev <= log[Last(P)].rev
  <2>1. i = Last(P) \/ i < Last(P)
    BY <1>1, <1>4
  <2> HIDE DEF P
  <2>. QED
    BY <1>2, <1>5, <2>1 DEF Ordered, RevId
<1>7. log[Last(P)].rev <= HeadRev(log, log[Last(P)].doc)
  BY <1>3, <1>5
<1>8. /\ HeadRev(log, log[Last(P)].doc) \in RevId \cup {NoRev}
      /\ log[Last(P)].rev \in RevId /\ log[Last(P)].doc # NoDoc
  BY <1>2, <1>5, LogTypes DEF RevId, NoDoc
<1>9. log[i].rev <= HeadRev(log, DocAt(log, log[i].path))
  <2> HIDE DEF P
  <2>. QED
    BY <1>2, <1>5, <1>6, <1>7, <1>8 DEF RevId, NoRev
<1>. QED
  BY <1>2, <1>3, <1>5, <1>8, <1>9 DEF Ordered

(* Histories that are cut or extended by the next revision stay ordered.   *)
LEMMA CutOrdered ==
  ASSUME NEW log \in Seq(Record), NEW n, Ordered(log, n), NEW k \in 0..Len(log)
  PROVE  /\ Ordered(SubSeq(log, 1, k), n)
         /\ DOMAIN SubSeq(log, 1, k) \subseteq DOMAIN log
         /\ \A i \in DOMAIN SubSeq(log, 1, k) : SubSeq(log, 1, k)[i] = log[i]
<1>1. Len(log) \in Nat /\ DOMAIN log = 1..Len(log)
  BY LenProperties
<1>2. /\ SubSeq(log, 1, k) \in Seq(Record) /\ Len(SubSeq(log, 1, k)) = k
      /\ \A i \in 1..k : SubSeq(log, 1, k)[i] = log[i]
  BY PrefixIsLog
<1>3. DOMAIN SubSeq(log, 1, k) = 1..k /\ 1..k \subseteq DOMAIN log
  BY <1>1, <1>2, LenProperties
<1>. QED
  BY <1>2, <1>3 DEF Ordered

LEMMA ExtendOrdered ==
  ASSUME NEW log \in Seq(Record), NEW n \in RevId, Ordered(log, n),
         NEW r \in Record, r.rev = n, r.parent = HeadRev(log, r.doc)
  PROVE  /\ Ordered(Append(log, r), n + 1)
         /\ DOMAIN Append(log, r) = DOMAIN log \cup {Len(log) + 1}
         /\ Append(log, r)[Len(log) + 1] = r
         /\ \A i \in DOMAIN log : Append(log, r)[i] = log[i]
<1>1. Len(log) \in Nat /\ DOMAIN log = 1..Len(log)
  BY LenProperties
<1>2. /\ Append(log, r) \in Seq(Record) /\ Len(Append(log, r)) = Len(log) + 1
      /\ Append(log, r)[Len(log) + 1] = r
      /\ \A i \in 1..Len(log) : Append(log, r)[i] = log[i]
  BY AppendIsLog
<1>3. DOMAIN Append(log, r) = 1..(Len(log) + 1)
  BY <1>2, LenProperties
<1>4. DOMAIN Append(log, r) = DOMAIN log \cup {Len(log) + 1}
  BY <1>1, <1>3
<1>5. \A i \in DOMAIN log : log[i].rev \in Nat /\ log[i].rev < n
  <2>1. \A i \in DOMAIN log : log[i] \in Record
    BY <1>1, ElementOfSeq
  <2>. QED
    BY <2>1, MaxRevsAssumption DEF Record, RevId, Ordered
<1>6. r.parent < n
  <2>1. CASE HeadAt(log, r.doc) = 0
    BY <2>1, MaxRevsAssumption DEF HeadRev, NoRev, RevId
  <2>2. CASE HeadAt(log, r.doc) # 0
    <3>1. HeadAt(log, r.doc) \in DOMAIN log
      BY <1>1, <2>2, LogTypes
    <3>. QED
      BY <1>5, <2>2, <3>1 DEF HeadRev
  <2>. QED
    BY <2>1, <2>2
<1>7. n < n + 1 /\ \A i \in DOMAIN log : log[i].rev < n + 1
  BY <1>5, MaxRevsAssumption DEF RevId
<1>8. \A i, j \in DOMAIN Append(log, r) : i < j =>
        i \in DOMAIN log /\ (j \in DOMAIN log \/ j = Len(log) + 1)
  BY <1>1, <1>3
<1>. QED
  BY <1>1, <1>2, <1>4, <1>5, <1>6, <1>7, <1>8 DEF Ordered

(* A step that commits nothing, or drops revisions, and creates nothing.   *)
LEMMA LandKept ==
  ASSUME PTypeOK, LandInv,
         history' = history \/ \E n \in 0..Len(history) : Lose(n),
         Proposed' \subseteq Proposed, UNCHANGED <<landed, nextRev, nextProp>>
  PROVE  LandInv'
<1>1. /\ Ordered(history', nextRev)
      /\ DOMAIN history' \subseteq DOMAIN history
      /\ \A i \in DOMAIN history' : history'[i] = history[i]
  <2>1. CASE history' = history
    BY <2>1 DEF LandInv
  <2>2. CASE \E n \in 0..Len(history) : Lose(n)
    BY <2>2, CutOrdered DEF Lose, LandInv, PTypeOK
  <2>. QED
    BY <2>1, <2>2
<1>2. Numbered'
  BY DEF LandInv, Numbered
<1>3. Based'
  BY <1>1 DEF LandInv, Based
<1>4. RevsOf(history') \subseteq RevsOf(history)
  BY <1>1 DEF RevsOf
<1>5. LandsOnce'
  BY <1>4 DEF LandInv, LandsOnce
<1>. QED
  BY <1>1, <1>2, <1>3, <1>5 DEF LandInv, Ordered

(* A commit that has nothing to do with a proposal.                        *)
LEMMA LandBeside ==
  ASSUME PTypeOK, LandInv, nextRev <= MaxRevs,
         NEW d, NEW p \in Paths, NEW c \in Contents,
         Revision(d, p, c) \in Record, Commit(Revision(d, p, c)),
         nextRev' = nextRev + 1, Proposed' \subseteq Proposed,
         UNCHANGED <<landed, nextProp>>
  PROVE  LandInv'
<1> DEFINE r == Revision(d, p, c)
<1>1. nextRev \in RevId
  BY MaxRevsAssumption DEF PTypeOK, RevId
<1>2. r.rev = nextRev /\ r.parent = HeadRev(history, r.doc) /\ history' = Append(history, r)
  BY DEF Revision, Commit
<1>3. history \in Seq(Record) /\ r \in Record /\ Ordered(history, nextRev)
  BY DEF PTypeOK, LandInv
<1> HIDE DEF r
<1>4. /\ Ordered(history', nextRev')
      /\ DOMAIN history' = DOMAIN history \cup {Len(history) + 1}
      /\ history'[Len(history) + 1] = r
      /\ \A i \in DOMAIN history : history'[i] = history[i]
  BY <1>1, <1>2, <1>3, ExtendOrdered
<1>5. \A x \in landed : x[2] < nextRev + 1 /\ x[2] # nextRev
  <2>1. \A x \in landed : x[2] \in RevId /\ x[2] < nextRev
    BY DEF LandInv, Numbered, PTypeOK
  <2>. QED
    BY <1>1, <2>1, MaxRevsAssumption DEF RevId
<1>6. Numbered'
  BY <1>5 DEF LandInv, Numbered
<1>7. Based'
  BY <1>2, <1>4, <1>5 DEF LandInv, Based
<1>8. RevsOf(history') = RevsOf(history) \cup {nextRev}
  BY <1>2, <1>3, AppendRevs
<1>9. LandsOnce'
  BY <1>5, <1>8 DEF LandInv, LandsOnce
<1>. QED
  BY <1>4, <1>6, <1>7, <1>9 DEF LandInv

(* The save of an acceptance goes by the base of its proposal, and so      *)
(* finds nothing of that proposal in the history.                          *)
LEMMA LandFresh ==
  ASSUME PTypeOK, LandInv, NEW c \in Contents, Lands(c)
  PROVE  /\ job \in Proposed
         /\ HeadRev(history, TargetDoc) = job.base
         /\ job.doc \in {NoDoc, TargetDoc}
         /\ \A x \in landed, i \in DOMAIN history :
              x[1] = job.prop => x[2] # history[i].rev
<1>1. job \in Create /\ job \in Proposed /\ history \in Seq(Record)
  BY DEF Lands, PTypeOK, Proposed
<1>2. HeadRev(history, TargetDoc) = job.base
  BY DEF Lands, Moved
<1>3. job.doc \in {NoDoc, TargetDoc}
  BY DEF TargetDoc
<1>4. ASSUME NEW x \in landed, NEW i \in DOMAIN history,
             x[1] = job.prop, x[2] = history[i].rev
      PROVE  FALSE
  <2>1. SitsOn(history[i], job)
    BY <1>1, <1>4 DEF LandInv, Based
  <2>2. /\ history[i].rev <= HeadRev(history, history[i].doc)
        /\ history[i].rev <= HeadRev(history, DocAt(history, history[i].path))
        /\ DocAt(history, history[i].path) # NoDoc
        /\ history[i].parent < history[i].rev
        /\ history[i].rev \in RevId /\ history[i].parent \in RevId \cup {NoRev}
    BY <1>1, HeadIsLater DEF LandInv
  <2>3. CASE job.doc # NoDoc
    <3>1. TargetDoc = history[i].doc /\ job.base = history[i].parent
      BY <2>1, <2>3 DEF SitsOn, TargetDoc
    <3>2. history[i].rev <= history[i].parent
      BY <1>2, <2>2, <3>1
    <3>. QED
      BY <2>2, <3>2, MaxRevsAssumption DEF RevId, NoRev
  <2>4. CASE job.doc = NoDoc
    <3>1. job.base = history[i].parent /\ job.path = history[i].path
      BY <2>1 DEF SitsOn
    <3>2. TargetDoc = DocAt(history, history[i].path)
      BY <2>2, <2>4, <3>1 DEF TargetDoc, DocFor
    <3>3. history[i].rev <= history[i].parent
      BY <1>2, <2>2, <3>1, <3>2
    <3>. QED
      BY <2>2, <3>3, MaxRevsAssumption DEF RevId, NoRev
  <2>. QED
    BY <2>3, <2>4
<1>. QED
  BY <1>1, <1>2, <1>3, <1>4

LEMMA LandTaken ==
  ASSUME PTypeOK, LandInv, NEW c \in Contents, Lands(c),
         Proposed' \subseteq Proposed, UNCHANGED nextProp
  PROVE  LandInv'
<1> DEFINE r == Revision(TargetDoc, job.path, c)
           new == <<job.prop, nextRev>>
<1>1. /\ r.rev = nextRev /\ r.parent = HeadRev(history, r.doc)
      /\ r.doc = TargetDoc /\ r.path = job.path
      /\ history' = Append(history, r) /\ nextRev' = nextRev + 1
      /\ landed' = landed \cup {new}
  BY DEF Revision, Lands, Commit
<1>2. history \in Seq(Record) /\ r \in Record /\ nextRev \in RevId /\ Ordered(history, nextRev)
  BY LandsTypes DEF PTypeOK, LandInv
<1>3. /\ job \in Proposed
      /\ HeadRev(history, TargetDoc) = job.base
      /\ job.doc \in {NoDoc, TargetDoc}
      /\ \A x \in landed, i \in DOMAIN history : x[1] = job.prop => x[2] # history[i].rev
  BY LandFresh
<1>4. SitsOn(r, job)
  BY <1>1, <1>3 DEF SitsOn
<1> HIDE DEF r
<1>5. /\ Ordered(history', nextRev')
      /\ DOMAIN history' = DOMAIN history \cup {Len(history) + 1}
      /\ history'[Len(history) + 1] = r
      /\ \A i \in DOMAIN history : history'[i] = history[i]
  BY <1>1, <1>2, ExtendOrdered
<1>6. \A x \in landed : x[2] < nextRev + 1 /\ x[2] # nextRev /\ x[1] < nextProp
  <2>1. \A x \in landed : x[2] \in RevId /\ x[2] < nextRev /\ x[1] < nextProp
    BY DEF LandInv, Numbered, PTypeOK
  <2>. QED
    BY <1>2, <2>1, MaxRevsAssumption DEF RevId
<1>7. \A i \in DOMAIN history : history[i].rev # nextRev
  <2>1. \A i \in DOMAIN history : history[i].rev \in RevId
    BY <1>2, HeadIsLater
  <2>. QED
    BY <1>2, <2>1, MaxRevsAssumption DEF Ordered, RevId
<1>8. new[1] = job.prop /\ new[2] = nextRev
  OBVIOUS
<1>9. job.prop < nextProp /\ nextRev < nextRev + 1
  BY <1>2, <1>3, MaxRevsAssumption DEF LandInv, Numbered, RevId
<1> HIDE DEF new
<1>10. Numbered'
  BY <1>1, <1>6, <1>8, <1>9 DEF LandInv, Numbered
<1>11. ASSUME NEW x \in landed', NEW s \in Proposed', NEW i \in DOMAIN history',
              x[1] = s.prop, x[2] = history'[i].rev
       PROVE  SitsOn(history'[i], s)
  <2>1. CASE x = new
    <3>1. i = Len(history) + 1
      BY <1>5, <1>7, <1>8, <1>11, <2>1
    <3>2. s = job
      BY <1>3, <1>8, <1>11, <2>1 DEF LandInv, Numbered
    <3>. QED
      BY <1>4, <1>5, <3>1, <3>2
  <2>2. CASE x \in landed
    <3>1. i \in DOMAIN history
      BY <1>1, <1>5, <1>6, <1>11, <2>2
    <3>. QED
      BY <1>5, <1>11, <2>2, <3>1 DEF LandInv, Based
  <2>. QED
    BY <1>1, <2>1, <2>2
<1>12. RevsOf(history') = RevsOf(history) \cup {nextRev}
  BY <1>1, <1>2, AppendRevs
<1>13. \A x \in landed : x[2] \in RevsOf(history') => x[2] \in RevsOf(history)
  BY <1>6, <1>12
<1>14. \A x \in landed : x[1] = job.prop => x[2] \notin RevsOf(history')
  BY <1>3, <1>13 DEF RevsOf
<1>15. LandsOnce'
  BY <1>1, <1>8, <1>13, <1>14 DEF LandInv, LandsOnce
<1>. QED
  BY <1>5, <1>10, <1>11, <1>15 DEF LandInv, Based

(* The creations that a crash, or a written line, leaves in the log.       *)
LEMMA ProposedLog ==
  ASSUME PTypeOK,
         NEW log \in {plog} \cup (IF pc = "append" THEN {Append(plog, job)} ELSE {}),
         NEW n \in 0..Len(log)
  PROVE  /\ Entries(log) \subseteq Entries(plog) \cup {job}
         /\ Entries(SubSeq(log, 1, n)) \subseteq Entries(plog) \cup {job}
<1>1. plog \in Seq(Entry)
  BY DEF PTypeOK, Entry
<1>2. log \in Seq(Entry) /\ Entries(log) \subseteq Entries(plog) \cup {job}
  <2>1. CASE log = plog
    BY <1>1, <2>1
  <2>2. CASE pc = "append" /\ log = Append(plog, job)
    BY <1>1, <2>2, LineTypes, EntriesOfAppend
  <2>. QED
    BY <2>1, <2>2
<1>3. Entries(SubSeq(log, 1, n)) \subseteq Entries(log)
  BY <1>2, EntriesOfPrefix
<1>. QED
  BY <1>2, <1>3

LEMMA ProposedLine ==
  ASSUME PTypeOK, plog' = plog \/ (pc = "append" /\ WriteLine)
  PROVE  Entries(plog') \subseteq Entries(plog) \cup {job}
<1>1. plog \in Seq(Entry)
  BY DEF PTypeOK, Entry
<1>2. CASE plog' = plog
  BY <1>2
<1>3. CASE pc = "append" /\ plog' = Append(plog, job)
  BY <1>1, <1>3, LineTypes, EntriesOfAppend
<1>. QED
  BY <1>2, <1>3 DEF WriteLine

(* What a crash does to the vault behind a proposal.                       *)
LEMMA LandCrash ==
  ASSUME PTypeOK, LandInv,
         \/ HalfSaved
         \/ (\E n \in 0..Len(history) : Lose(n)) /\ UNCHANGED <<landed, nextRev>>
         \/ UNCHANGED <<history, acked, landed, nextRev>>,
         Proposed' \subseteq Proposed, UNCHANGED nextProp
  PROVE  LandInv'
<1>1. CASE HalfSaved
  BY <1>1, LandTaken DEF HalfSaved
<1>2. CASE ~HalfSaved
  BY <1>2, LandKept
<1>. QED
  BY <1>1, <1>2

LEMMA LandNext == PTypeOK /\ LandInv /\ [Next]_vars => LandInv'
<1> SUFFICES ASSUME PTypeOK, LandInv, [Next]_vars PROVE LandInv'
  OBVIOUS
<1>1. /\ applied \in Seq(Entry) /\ Entries(<<>>) = {} /\ None \notin Create
      /\ \A r \in Resolve : r \notin Create
  <2>1. \A r \in Create : r.event = "create"
    BY DEF Create
  <2>2. \A r \in Resolve : r.event # "create"
    BY DEF Resolve
  <2>. QED
    BY <2>1, <2>2, NoneAssumption DEF PTypeOK, Entry, Entries
<1>2. ASSUME NEW p \in Paths, NEW c \in Contents, CommitElsewhere(p, c)
      PROVE  LandInv'
  <2>1. nextRev <= MaxRevs /\ Proposed' = Proposed
    BY <1>2 DEF CommitElsewhere, Proposed, plogvars
  <2>2. Revision(DocFor(p), p, c) \in Record
    BY <2>1, SavedIsRecord
  <2>. QED
    BY <1>2, <2>1, <2>2, LandBeside DEF CommitElsewhere
<1>3. ASSUME NEW p \in Paths, CreateProposal(p)
      PROVE  LandInv'
  <2>1. /\ nextProp <= MaxProps /\ nextProp' = nextProp + 1
        /\ Proposed' \subseteq Proposed \cup {job'}
        /\ job'.prop = nextProp /\ job'.doc = DocAt(history, p) /\ job'.base = PathHead(p)
        /\ UNCHANGED <<history, landed, nextRev>>
    BY <1>3 DEF CreateProposal, StartAppend, Proposed, plogvars
  <2>2. job'.doc = NoDoc <=> job'.base = NoRev
    <3>1. CASE DocAt(history, p) = NoDoc
      <4>1. \A i \in DOMAIN history : history[i].doc # NoDoc
        <5>1. \A i \in DOMAIN history : history[i] \in Record
          BY LenProperties, ElementOfSeq DEF PTypeOK
        <5>. QED
          BY <5>1 DEF Record, RevId, NoDoc
      <4>2. {i \in DOMAIN history : history[i].doc = NoDoc} = {}
        BY <4>1
      <4>3. HeadAt(history, NoDoc) = 0
        BY <4>2 DEF HeadAt, Last
      <4>. QED
        BY <2>1, <3>1, <4>3 DEF PathHead, HeadRev
    <3>2. CASE DocAt(history, p) # NoDoc
      <4>1. history \in Seq(Record) /\ Len(history) \in Nat /\ DOMAIN history = 1..Len(history)
        BY LenProperties DEF PTypeOK
      <4>2. {i \in DOMAIN history : history[i].path = p} \in SUBSET (1..Len(history))
        BY <4>1
      <4>3. RecordAt(history, p) # 0 /\ RecordAt(history, p) \in 0..Len(history)
        BY <3>2, <4>1, <4>2, LastInRange DEF DocAt, RecordAt
      <4>4. PICK i \in DOMAIN history : DocAt(history, p) = history[i].doc
        BY <4>1, <4>3 DEF DocAt
      <4>5. history[i].rev <= PathHead(p) /\ history[i].rev \in RevId
        BY <4>1, <4>4, HeadIsLater DEF LandInv, PathHead
      <4>. QED
        BY <2>1, <3>2, <4>5 DEF RevId, NoRev
    <3>. QED
      BY <3>1, <3>2
  <2>3. \A x \in landed : x[1] < nextProp /\ x[1] < nextProp + 1 /\ x[1] # nextProp
    BY ProposalAssumption DEF LandInv, Numbered, PTypeOK, PropId
  <2>4. \A r \in Proposed : r.prop < nextProp + 1 /\ r.prop # nextProp
    BY ProposalAssumption DEF LandInv, Numbered, PTypeOK, Proposed, Create, PropId
  <2>5. nextProp < nextProp + 1
    BY ProposalAssumption DEF PTypeOK
  <2>6. Numbered'
    BY <2>1, <2>2, <2>3, <2>4, <2>5 DEF LandInv, Numbered
  <2>7. Based'
    BY <2>1, <2>3 DEF LandInv, Based
  <2>. QED
    BY <2>1, <2>6, <2>7 DEF LandInv, Ordered, LandsOnce, RevsOf
<1>4. ASSUME NEW q \in PropId, NEW resolution \in {"rejected", "withdrawn"},
             ResolveSimple(q, resolution)
      PROVE  LandInv'
  <2>1. job' \in Resolve
    BY <1>4 DEF ResolveSimple, StartAppend, Resolve
  <2>. QED
    BY <1>1, <1>4, <2>1, LandKept DEF ResolveSimple, Proposed, plogvars
<1>5. ASSUME NEW q \in PropId, Accept(q)
      PROVE  LandInv'
  <2>1. Known(applied) = {applied[i].prop : i \in DOMAIN applied} /\ job' = Created(applied, q)
    BY <1>5 DEF Accept, Known
  <2>2. PICK i \in DOMAIN applied : applied[i].prop = q
    BY <1>5 DEF Accept, OpenIn, Known
  <2>3. applied[i].event = "create"
    BY <1>5, <2>2 DEF Accept, OpenIn, Resolved
  <2>4. Created(applied, q) \in Entries(applied)
    BY <2>2, <2>3 DEF Created, Entries
  <2>. QED
    BY <1>5, <2>1, <2>4, LandKept DEF Accept, Proposed, plogvars
<1>6. ASSUME NEW c \in Contents, ConvertExternal(c)
      PROVE  LandInv'
  <2>1. nextRev <= MaxRevs /\ job \in Create /\ Proposed' = Proposed
    BY <1>6 DEF ConvertExternal, PTypeOK, Proposed, plogvars
  <2>2. Revision(TargetDoc, job.path, c) \in Record /\ job.path \in Paths
    BY <2>1, TargetIsDoc, SavedIsRecord
  <2>. QED
    BY <1>6, <2>1, <2>2, LandBeside DEF ConvertExternal
<1>7. ASSUME NEW c \in Contents, AcceptSaves(c)
      PROVE  LandInv'
  <2>1. Lands(c) /\ UNCHANGED <<plogvars, applied, nextProp>>
        /\ job' = [event |-> "accepted", prop |-> job.prop, rev |-> nextRev]
    BY <1>7 DEF AcceptSaves, StartAppend
  <2>2. job' \in Resolve
    BY <2>1, LandsTypes DEF Resolve
  <2>3. Proposed' \subseteq Proposed
    BY <1>1, <2>1, <2>2 DEF Proposed, plogvars
  <2>. QED
    BY <2>1, <2>3, LandTaken
<1>8. CASE AcceptRefused
  BY <1>1, <1>8, LandKept DEF AcceptRefused, Proposed, plogvars
<1>9. CASE AppendRecord
  <2>1. /\ pc = "append" /\ WriteLine /\ applied' = Append(applied, job) /\ job' = None
        /\ UNCHANGED <<history, landed, nextRev, nextProp>>
    BY <1>9 DEF AppendRecord
  <2>2. Entries(plog') \subseteq Entries(plog) \cup {job}
    BY <2>1, ProposedLine
  <2>3. Entries(applied') \subseteq Entries(applied) \cup {job}
    BY <1>1, <2>1, LineTypes, EntriesOfAppend
  <2>. QED
    BY <1>1, <2>1, <2>2, <2>3, LandKept DEF Proposed
<1>10. CASE Kill
  <2>1. /\ plog' = plog \/ (pc = "append" /\ WriteLine)
        /\ applied' = <<>> /\ job' = None /\ nextProp' = nextProp
        /\ HalfSaved \/ UNCHANGED <<history, acked, landed, nextRev>>
    BY <1>10 DEF Kill, Down, Fault
  <2>2. Proposed' \subseteq Proposed
    BY <1>1, <2>1, ProposedLine DEF Proposed
  <2>. QED
    BY <2>1, <2>2, LandCrash
<1>11. CASE PowerLoss
  <2>1. /\ applied' = <<>> /\ job' = None /\ nextProp' = nextProp
        /\ \/ HalfSaved
           \/ (\E n \in 0..Len(history) : Lose(n)) /\ UNCHANGED <<landed, nextRev>>
    BY <1>11 DEF PowerLoss, Down, Fault
  <2>2. PICK log \in {plog} \cup IF pc = "append" /\ ~torn THEN {Append(plog, job)} ELSE {} :
          \E n \in psynced..Len(log) : plog' = SubSeq(log, 1, n)
    BY <1>11 DEF PowerLoss
  <2>3. PICK n \in psynced..Len(log) : plog' = SubSeq(log, 1, n)
    BY <2>2
  <2>4. log \in {plog} \cup (IF pc = "append" THEN {Append(plog, job)} ELSE {})
    BY <2>2
  <2>5. n \in 0..Len(log)
    <3>1. Len(log) \in Nat /\ psynced \in Nat
      <4>1. plog \in Seq(Entry) /\ Len(plog) \in Nat /\ psynced \in 0..Len(plog)
        BY LenProperties DEF PTypeOK, Entry
      <4>. QED
        BY <2>4, <4>1, LineTypes
    <3>. QED
      BY <2>3, <3>1
  <2>6. Entries(plog') \subseteq Entries(plog) \cup {job}
    BY <2>3, <2>4, <2>5, ProposedLog
  <2>7. Proposed' \subseteq Proposed
    BY <1>1, <2>1, <2>6 DEF Proposed
  <2>. QED
    BY <2>1, <2>7, LandCrash
<1>12. CASE FailIo
  <2>1. /\ plog' = plog \/ (pc = "append" /\ WriteLine)
        /\ applied' = applied /\ job' = None
        /\ UNCHANGED <<history, landed, nextRev, nextProp>>
    BY <1>12 DEF FailIo, Fault
  <2>2. Proposed' \subseteq Proposed
    BY <1>1, <2>1, ProposedLine DEF Proposed
  <2>. QED
    BY <2>1, <2>2, LandKept
<1>13. CASE Open
  BY <1>13, LandKept DEF Open, Proposed
<1>14. CASE OpenCorrupt \/ Wait \/ UNCHANGED vars
  BY <1>14, LandKept DEF OpenCorrupt, Wait, vars, plogvars, Proposed
<1>. QED
  BY <1>2, <1>3, <1>4, <1>5, <1>6, <1>7, <1>8, <1>9, <1>10, <1>11, <1>12, <1>13, <1>14 DEF Next

(* Whatever kill, power loss or failing append comes between the save and  *)
(* the record that closes the proposal, and however often its acceptance   *)
(* is tried again, the history holds at most one revision of a proposal,   *)
(* if no system call fails in the vault below.                             *)
THEOREM LandsOnceHolds == Spec => []LandsOnce
<1>1. LandInv => LandsOnce
  BY DEF LandInv
<1>. QED
  BY <1>1, PTypeInit, PTypeNext, LandInit, LandNext, PTL DEF Spec

(* An accepted revision sits on the base, the path and the document its    *)
(* proposal was made for, under the same condition.                        *)
THEOREM LandsOnItsBaseHolds == Spec => []LandsOnItsBase
<1>1. ASSUME PTypeOK, LandInv PROVE LandsOnItsBase
  <2> SUFFICES ASSUME NEW i \in DOMAIN history, NEW j \in DOMAIN plog,
                      plog[j].event = "create",
                      <<plog[j].prop, history[i].rev>> \in landed
               PROVE  SitsOn(history[i], plog[j])
    BY DEF LandsOnItsBase, SitsOn
  <2>1. plog[j] \in Proposed
    <3>1. plog[j] \in Entry
      BY <1>1, LenProperties, ElementOfSeq DEF PTypeOK, Entry
    <3>2. plog[j] \in Create
      BY <3>1, EntryFields
    <3>. QED
      BY <3>2 DEF Proposed, Entries
  <2> DEFINE x == <<plog[j].prop, history[i].rev>>
  <2>2. x[1] = plog[j].prop /\ x[2] = history[i].rev /\ x \in landed
    OBVIOUS
  <2> HIDE DEF x
  <2>. QED
    BY <1>1, <2>1, <2>2 DEF LandInv, Based
<1>. QED
  BY <1>1, PTypeInit, PTypeNext, LandInit, LandNext, PTL DEF Spec

(* A proposal whose acceptance was committed but never logged can only be  *)
(* found stale, and so be rejected or withdrawn, not accepted again, under *)
(* the same condition.                                                     *)
THEOREM OrphanIsStaleHolds == Spec => []OrphanIsStale
<1>1. ASSUME PTypeOK, LandInv PROVE OrphanIsStale
  <2> SUFFICES ASSUME NEW x \in landed, x[1] \in OpenIn(applied),
                      NEW i \in DOMAIN history, x[2] = history[i].rev
               PROVE  Stale(x[1])
    BY DEF OrphanIsStale, RevsOf
  <2> DEFINE r == Created(applied, x[1])
  <2>1. applied \in Seq(Entry) /\ history \in Seq(Record)
    BY <1>1 DEF PTypeOK, Entry
  <2>2. r \in Create /\ r.prop = x[1]
    BY <2>1, OpenIsCreated
  <2>3. r \in Entries(applied)
    <3>1. PICK k \in DOMAIN applied : applied[k].prop = x[1]
      BY DEF OpenIn, Known
    <3>2. applied[k].event = "create"
      BY <3>1 DEF OpenIn, Resolved
    <3>. QED
      BY <3>1, <3>2 DEF Created, Entries
  <2> HIDE DEF r
  <2>4. SitsOn(history[i], r)
    BY <1>1, <2>2, <2>3 DEF Proposed, LandInv, Based
  <2>5. /\ history[i].rev <= PathHead(r.path)
        /\ history[i].parent < history[i].rev
        /\ history[i].rev \in RevId /\ history[i].parent \in RevId \cup {NoRev}
        /\ r.base = history[i].parent
    BY <1>1, <2>1, <2>4, HeadIsLater DEF SitsOn, PathHead, LandInv
  <2>6. PathHead(r.path) # r.base
    BY <2>5, MaxRevsAssumption DEF RevId, NoRev
  <2>. QED
    BY <2>6 DEF Stale, Moved, r
<1>. QED
  BY <1>1, PTypeInit, PTypeNext, LandInit, LandNext, PTL DEF Spec

-------------------------------------------------------------------------------
(* The vault below.                                                        *)

(* Every step is one of VaultHistory, or does not touch the history.       *)
LEMMA VaultStep == PTypeOK /\ [Next]_vars => [HNext]_hvars
<1> SUFFICES ASSUME PTypeOK, [Next]_vars PROVE [HNext]_hvars
  OBVIOUS
<1>1. ASSUME NEW r \in Record, Commit(r)
      PROVE  HNext
  BY <1>1 DEF HNext
<1>2. ASSUME NEW c \in Contents, Lands(c), acked' \in {acked, acked \cup {nextRev}}
      PROVE  HNext
  <2> DEFINE r == Revision(TargetDoc, job.path, c)
  <2>1. r \in Record
    BY <1>2, LandsTypes
  <2>2. Commit(r)
    BY <1>2 DEF Lands
  <2> HIDE DEF r
  <2>. QED
    BY <1>1, <2>1, <2>2
<1>3. ASSUME NEW p \in Paths, NEW c \in Contents, CommitElsewhere(p, c)
      PROVE  HNext
  <2> DEFINE r == Revision(DocFor(p), p, c)
  <2>1. r \in Record
    BY <1>3, SavedIsRecord DEF CommitElsewhere
  <2>2. Commit(r)
    BY <1>3 DEF CommitElsewhere
  <2> HIDE DEF r
  <2>. QED
    BY <1>1, <2>1, <2>2
<1>4. ASSUME NEW c \in Contents, ConvertExternal(c)
      PROVE  HNext
  <2> DEFINE r == Revision(TargetDoc, job.path, c)
  <2>1. job \in Create /\ nextRev <= MaxRevs
    BY <1>4 DEF ConvertExternal, PTypeOK
  <2>2. TargetDoc \in RevId /\ job.path \in Paths
    BY <2>1, TargetIsDoc
  <2>3. r \in Record
    BY <2>1, <2>2, SavedIsRecord
  <2>4. Commit(r)
    BY <1>4 DEF ConvertExternal
  <2> HIDE DEF r
  <2>. QED
    BY <1>1, <2>3, <2>4
<1>5. ASSUME NEW c \in Contents, AcceptSaves(c)
      PROVE  HNext
  BY <1>2, <1>5 DEF AcceptSaves
<1>6. HalfSaved => HNext
  BY <1>2 DEF HalfSaved
<1>7. CASE Kill \/ PowerLoss
  BY <1>6, <1>7 DEF Kill, PowerLoss, HNext, hvars
<1>8. CASE UNCHANGED <<history, acked>>
  BY <1>8 DEF hvars
<1>9. CASE \/ \E p \in Paths : CreateProposal(p)
           \/ \E q \in PropId, resolution \in {"rejected", "withdrawn"} : ResolveSimple(q, resolution)
           \/ \E q \in PropId : Accept(q)
           \/ AcceptRefused \/ AppendRecord \/ FailIo \/ Open \/ OpenCorrupt \/ Wait
           \/ UNCHANGED vars
  BY <1>8, <1>9 DEF CreateProposal, ResolveSimple, Accept, AcceptRefused, AppendRecord, FailIo,
                    Open, OpenCorrupt, Wait, vars
<1>. QED
  BY <1>3, <1>4, <1>5, <1>7, <1>9 DEF Next

(* What the proposals see and change of the vault is a VaultHistory, the   *)
(* one VaultStore implements as long as no system call fails in it: the    *)
(* two modules meet there.                                                 *)
THEOREM VaultBelow == Spec => HSpec
<1>1. Init => HInit
  BY DEF Init
<1>. QED
  BY <1>1, PTypeInit, PTypeNext, VaultStep, PTL DEF Spec, HSpec

HistoryInv ==
  /\ history \in Seq(Record)
  /\ Chained(history)
  /\ OneEach(history)
  /\ acked \subseteq RevsOf(history)

LEMMA HistoryNext == HistoryInv /\ [HNext]_hvars => HistoryInv'
<1> SUFFICES ASSUME HistoryInv, [HNext]_hvars PROVE HistoryInv'
  OBVIOUS
<1>1. history \in Seq(Record)
  BY DEF HistoryInv
<1>2. ASSUME NEW r \in Record, Commit(r)
      PROVE  HistoryInv'
  <2>1. /\ history' = Append(history, r) /\ r.rev \notin RevsOf(history)
        /\ r.parent = HeadRev(history, r.doc)
    BY <1>2 DEF Commit
  <2>2. history' \in Seq(Record)
    BY <1>1, <2>1, AppendIsLog
  <2>3. Chained(history')
    BY <1>1, <2>1, AppendChained DEF HistoryInv
  <2>4. OneEach(history')
    BY <1>1, <2>1, AppendOneEach DEF HistoryInv
  <2>5. RevsOf(history') = RevsOf(history) \cup {r.rev}
    BY <1>1, <2>1, AppendRevs
  <2>6. acked' \subseteq RevsOf(history')
    BY <1>2, <2>5 DEF Commit, HistoryInv
  <2>. QED
    BY <2>2, <2>3, <2>4, <2>6 DEF HistoryInv, Chained, OneEach
<1>3. ASSUME NEW n \in 0..Len(history), Lose(n)
      PROVE  HistoryInv'
  <2>1. history' = SubSeq(history, 1, n) /\ acked' = acked
    BY <1>3 DEF Lose
  <2>2. history' \in Seq(Record)
    BY <1>1, <2>1, PrefixIsLog
  <2>3. Chained(history')
    BY <1>1, <2>1, PrefixChained DEF HistoryInv
  <2>4. OneEach(history')
    BY <1>1, <2>1, PrefixOneEach DEF HistoryInv
  <2>5. acked' \subseteq RevsOf(history')
    BY <1>3, <2>1 DEF Lose
  <2>. QED
    BY <2>2, <2>3, <2>4, <2>5 DEF HistoryInv, Chained, OneEach
<1>4. CASE UNCHANGED hvars
  BY <1>4 DEF hvars, HistoryInv, Chained, OneEach, RevsOf
<1>. QED
  BY <1>2, <1>3, <1>4 DEF HNext

(* What the vault promises is enough for what its clients rely on: no two  *)
(* revisions of a document follow the same one, and an acknowledged        *)
(* revision is always in the history.                                      *)
THEOREM HistoryKeepsPromise ==
  HSpec => [](Unforked(history) /\ acked \subseteq RevsOf(history))
<1>1. HInit => HistoryInv
  <2>1. DOMAIN <<>> = {} /\ <<>> \in Seq(Record)
    OBVIOUS
  <2>. QED
    BY <2>1 DEF HInit, HistoryInv, Chained, OneEach
<1>2. HistoryInv => Unforked(history) /\ acked \subseteq RevsOf(history)
  BY ChainsDoNotFork DEF HistoryInv
<1>. QED
  BY <1>1, <1>2, HistoryNext, PTL DEF HSpec
===============================================================================
