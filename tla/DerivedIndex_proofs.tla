------------------------- MODULE DerivedIndex_proofs -------------------------
(***************************************************************************)
(* DerivedIndex for any number of paths, contents, revisions and faults.   *)
(*                                                                         *)
(* The argument is about where records stand.  Revision ids are never      *)
(* reused and a journal only grows at its end or loses its end, so in the  *)
(* journal, in what the process knows and in every index ever filled from  *)
(* it, one revision at one position has one past (Agree).  The position    *)
(* and id of the last record applied therefore decide everything below it, *)
(* which is what the test of sync relies on.  A failed save leaves the     *)
(* journal ahead of what the process knows, never at the same length with  *)
(* other records, unless the journal is torn and grows no more (Ahead).    *)
(***************************************************************************)
EXTENDS DerivedIndex, Revisions_proofs

(* Positions are bounded by ids, ids by the next one, and none repeats. *)
Ordered(log, n) ==
  \A i \in DOMAIN log :
    /\ i <= log[i].rev
    /\ log[i].rev < n
    /\ \A j \in DOMAIN log : log[i].rev = log[j].rev => i = j

(* One revision at one position has one past. *)
Agree(a, b) ==
  \A i \in DOMAIN a \cap DOMAIN b : a[i].rev = b[i].rev => \A j \in 1..i : a[j] = b[j]

Fits(A, n) == \A a \in A : Ordered(a, n) /\ \A b \in A : Agree(a, b)

(* The lists of records there are; an index of another vault is none. *)
Logs == {journal, known} \cup {t.revisions : t \in {u \in {file, settled} : u.ours}}

Ahead == torn \/ journal = known \/ Len(journal) > Len(known)

FilesFaithful == Faithful(file, file.revisions) /\ Faithful(settled, settled.revisions)

(* What each step of the process has established. *)
Progress ==
  /\ pc = "begin" => file.stage = "ready"
  /\ pc = "sync" => /\ tx.stage = "ready" /\ tx.ours
                    /\ tx.applied \in 0..Len(known)
                    /\ Faithful(tx, SubSeq(known, 1, tx.applied))
  /\ pc = "feed" => /\ file.ours /\ derived
                    /\ known = Append(file.revisions, job)
  /\ pc = "idle" /\ derived => file.ours /\ file.revisions = known

DInv == DTypeOK /\ Fits(Logs, nextRev) /\ Ahead /\ FilesFaithful /\ Progress /\ IndexReturns

-------------------------------------------------------------------------------
(* Lists of records.                                                       *)

LEMMA LogDomain ==
  ASSUME NEW log \in Seq(Record)
  PROVE  Len(log) \in Nat /\ DOMAIN log = 1..Len(log) /\ \A i \in 1..Len(log) : log[i] \in Record
BY LenProperties, ElementOfSeq

LEMMA RevsAreIds ==
  ASSUME NEW log \in Seq(Record), NEW i \in DOMAIN log
  PROVE  log[i] \in Record /\ log[i].rev \in RevId /\ log[i].rev \in Nat
<1>1. log[i] \in Record
  BY LogDomain
<1> QED BY <1>1 DEF Record, RevId

(* Prefixes of lists that fit fit. *)
LEMMA PrefixesFit ==
  ASSUME NEW A \in SUBSET Seq(Record), NEW B, NEW n \in Nat, NEW m \in Nat, n <= m, Fits(A, n),
         \A b \in B : \E a \in A : \E k \in 0..Len(a) : b = SubSeq(a, 1, k)
  PROVE  Fits(B, m)
<1>1. ASSUME NEW b \in B
      PROVE  \E a \in A : \E k \in Nat :
               DOMAIN b = 1..k /\ 1..k \subseteq DOMAIN a /\ \A i \in 1..k : b[i] = a[i]
  <2>0. PICK a \in A : \E k \in 0..Len(a) : b = SubSeq(a, 1, k)
    OBVIOUS
  <2>1. PICK k \in 0..Len(a) : b = SubSeq(a, 1, k)
    BY <2>0
  <2>2. b \in Seq(Record) /\ Len(b) = k /\ \A i \in 1..k : b[i] = a[i]
    BY <2>1, PrefixIsLog
  <2> QED BY <2>1, <2>2, LogDomain
<1>2. ASSUME NEW b \in B PROVE Ordered(b, m)
  <2>1. PICK a \in A, k \in Nat :
          DOMAIN b = 1..k /\ 1..k \subseteq DOMAIN a /\ \A i \in 1..k : b[i] = a[i]
    BY <1>1
  <2>2. Ordered(a, n) /\ \A i \in DOMAIN a : a[i].rev \in Nat
    BY RevsAreIds DEF Fits
  <2> QED BY <2>1, <2>2 DEF Ordered
<1>3. ASSUME NEW b \in B, NEW c \in B PROVE Agree(b, c)
  <2>1. PICK a \in A, k \in Nat :
          DOMAIN b = 1..k /\ 1..k \subseteq DOMAIN a /\ \A i \in 1..k : b[i] = a[i]
    BY <1>1
  <2>2. PICK d \in A, l \in Nat :
          DOMAIN c = 1..l /\ 1..l \subseteq DOMAIN d /\ \A i \in 1..l : c[i] = d[i]
    BY <1>1
  <2>3. Agree(a, d)
    BY DEF Fits
  <2>4. SUFFICES ASSUME NEW i \in DOMAIN b \cap DOMAIN c, b[i].rev = c[i].rev, NEW j \in 1..i
                 PROVE  b[j] = c[j]
    BY DEF Agree
  <2>5. /\ i \in DOMAIN a \cap DOMAIN d /\ a[i].rev = d[i].rev
        /\ j \in 1..k /\ j \in 1..l
    BY <2>1, <2>2, <2>4
  <2>6. a[j] = d[j]
    BY <2>3, <2>5 DEF Agree
  <2> QED BY <2>1, <2>2, <2>5, <2>6
<1> QED BY <1>2, <1>3 DEF Fits

(* A new record may be appended to lists of different lengths. *)
LEMMA AppendFits ==
  ASSUME NEW A \in SUBSET Seq(Record), NEW B \in SUBSET A, NEW n \in Nat, Fits(A, n),
         NEW r \in Record, r.rev = n,
         \A a, b \in B : a = b \/ Len(a) # Len(b),
         NEW C \in SUBSET (A \cup {Append(b, r) : b \in B})
  PROVE  Fits(C, n + 1)
<1>1. ASSUME NEW a \in A PROVE Ordered(a, n + 1) /\ \A i \in DOMAIN a : a[i].rev \in Nat /\ a[i].rev < n
  <2>1. \A i \in DOMAIN a : a[i].rev \in Nat
    BY RevsAreIds
  <2>2. Ordered(a, n)
    BY DEF Fits
  <2> QED BY <2>1, <2>2 DEF Ordered
<1>2. ASSUME NEW b \in B
      PROVE  /\ DOMAIN b = 1..Len(b) /\ Len(b) \in Nat
             /\ DOMAIN Append(b, r) = 1..(Len(b) + 1)
             /\ Append(b, r)[Len(b) + 1] = r
             /\ \A i \in 1..Len(b) : Append(b, r)[i] = b[i]
  <2>1. Append(b, r) \in Seq(Record) /\ Len(Append(b, r)) = Len(b) + 1
    BY AppendIsLog
  <2> QED BY <2>1, AppendIsLog, LogDomain
<1>3. ASSUME NEW b \in B PROVE Ordered(Append(b, r), n + 1)
  <2>1. Len(b) + 1 <= n
    <3>1. CASE Len(b) = 0
      BY <3>1 DEF Record, RevId
    <3>2. CASE Len(b) # 0
      <4>1. Len(b) \in DOMAIN b
        BY <3>2, <1>2
      <4>2. b[Len(b)].rev \in Nat /\ b[Len(b)].rev < n /\ Len(b) <= b[Len(b)].rev
        BY <4>1, <1>1 DEF Fits, Ordered
      <4> QED BY <4>2, <1>2
    <3> QED BY <3>1, <3>2
  <2>2. \A i \in 1..Len(b) : b[i].rev \in Nat /\ b[i].rev < n
    BY <1>1, <1>2
  <2>3. \A i \in 1..Len(b) : i <= b[i].rev /\ \A j \in 1..Len(b) : b[i].rev = b[j].rev => i = j
    BY <1>2 DEF Fits, Ordered
  <2> QED BY <1>2, <2>1, <2>2, <2>3 DEF Ordered
<1>4. ASSUME NEW a \in A, NEW b \in B PROVE Agree(a, Append(b, r)) /\ Agree(Append(b, r), a)
  <2>1. Agree(a, b) /\ Agree(b, a) /\ DOMAIN a = 1..Len(a) /\ Len(a) \in Nat
    BY LogDomain DEF Fits
  <2>2. \A i \in DOMAIN a : a[i].rev # n
    BY <1>1
  <2> QED BY <1>2, <2>1, <2>2 DEF Agree
<1>5. ASSUME NEW a \in B, NEW b \in B PROVE Agree(Append(a, r), Append(b, r))
  <2>1. CASE a = b
    BY <2>1 DEF Agree
  <2>2. CASE Len(a) # Len(b)
    <3>1. Agree(a, b)
      BY DEF Fits
    <3>2. \A i \in DOMAIN a : a[i].rev # n
      BY <1>1
    <3>3. \A i \in DOMAIN b : b[i].rev # n
      BY <1>1
    <3>4. SUFFICES ASSUME NEW i \in DOMAIN Append(a, r) \cap DOMAIN Append(b, r),
                          Append(a, r)[i].rev = Append(b, r)[i].rev, NEW j \in 1..i
                   PROVE  Append(a, r)[j] = Append(b, r)[j]
      BY DEF Agree
    <3>5. i \in 1..Len(a) /\ i \in 1..Len(b)
      BY <2>2, <1>2, <3>2, <3>3, <3>4
    <3>6. a[i].rev = b[i].rev
      BY <1>2, <3>4, <3>5
    <3>7. a[j] = b[j] /\ j \in 1..Len(a) /\ j \in 1..Len(b)
      BY <1>2, <3>1, <3>5, <3>6 DEF Agree
    <3> QED BY <1>2, <3>7
  <2> QED BY <2>1, <2>2
<1>6. \A c \in C : Ordered(c, n + 1)
  BY <1>1, <1>3
<1>7. \A c, d \in C : Agree(c, d)
  <2>1. \A a, b \in A : Agree(a, b)
    BY DEF Fits
  <2> QED BY <2>1, <1>4, <1>5
<1> QED BY <1>6, <1>7 DEF Fits

(* Lists that agree on one revision at one position have that prefix. *)
LEMMA AgreeIsPrefix ==
  ASSUME NEW a \in Seq(Record), NEW b \in Seq(Record), Agree(a, b), Len(a) <= Len(b),
         Len(a) # 0 => b[Len(a)].rev = a[Len(a)].rev
  PROVE  a = SubSeq(b, 1, Len(a))
<1>1. Len(a) \in Nat /\ Len(b) \in Nat /\ DOMAIN a = 1..Len(a) /\ DOMAIN b = 1..Len(b)
  BY LogDomain
<1>2. \A i \in 1..Len(a) : a[i] = b[i]
  <2>1. CASE Len(a) = 0
    BY <2>1, <1>1
  <2>2. CASE Len(a) # 0
    <3>1. Len(a) \in DOMAIN a \cap DOMAIN b
      BY <1>1, <2>2
    <3> QED BY <3>1, <2>2 DEF Agree
  <2> QED BY <2>1, <2>2
<1>3. SubSeq(b, 1, Len(a)) \in Seq(Record) /\ Len(SubSeq(b, 1, Len(a))) = Len(a)
      /\ \A i \in 1..Len(a) : SubSeq(b, 1, Len(a))[i] = b[i]
  BY <1>1, PrefixIsLog
<1> QED BY <1>1, <1>2, <1>3, SeqEqual

(* The length of an ordered list is bounded like its ids. *)
LEMMA OrderedIsShort ==
  ASSUME NEW log \in Seq(Record), NEW n \in Nat \ {0}, Ordered(log, n)
  PROVE  Len(log) < n
<1>1. Len(log) \in Nat /\ DOMAIN log = 1..Len(log)
  BY LogDomain
<1>2. CASE Len(log) = 0
  BY <1>2
<1>3. CASE Len(log) # 0
  <2>1. Len(log) <= log[Len(log)].rev /\ log[Len(log)].rev < n
    BY <1>1, <1>3 DEF Ordered
  <2>2. log[Len(log)].rev \in Nat
    BY <1>1, <1>3, RevsAreIds
  <2> QED BY <1>1, <2>1, <2>2
<1> QED BY <1>2, <1>3

(* The head of every document after one more record. *)
LEMMA AppendHeadAt ==
  ASSUME NEW log \in Seq(Record), NEW r \in Record, NEW d
  PROVE  HeadAt(Append(log, r), d) = IF d = r.doc THEN Len(log) + 1 ELSE HeadAt(log, d)
<1> DEFINE long == Append(log, r)
<1> DEFINE S == {i \in DOMAIN long : long[i].doc = d}
<1> DEFINE T == {i \in DOMAIN log : log[i].doc = d}
<1>1. Len(log) \in Nat /\ DOMAIN log = 1..Len(log)
  BY LogDomain
<1>2. /\ long \in Seq(Record) /\ Len(long) = Len(log) + 1
      /\ long[Len(log) + 1] = r
      /\ \A i \in 1..Len(log) : long[i] = log[i]
  BY AppendIsLog
<1>3. DOMAIN long = 1..(Len(log) + 1)
  BY <1>2, LogDomain
<1>4. S = T \cup IF d = r.doc THEN {Len(log) + 1} ELSE {}
  BY <1>1, <1>2, <1>3
<1>5. CASE d # r.doc
  BY <1>4, <1>5 DEF HeadAt
<1>6. CASE d = r.doc
  <2>1. S \in SUBSET (1..(Len(log) + 1)) /\ Len(log) + 1 \in S /\ Len(log) + 1 \in Nat
    BY <1>1, <1>3, <1>4, <1>6
  <2>2. Last(S) \in S /\ \A j \in S : j <= Last(S)
    BY <2>1, LastIsGreatest
  <2>3. Last(S) = Len(log) + 1
    <3>1. Last(S) \in 1..(Len(log) + 1) /\ Len(log) + 1 <= Last(S)
      BY <2>1, <2>2
    <3> HIDE DEF S
    <3> QED BY <3>1, <1>1
  <2> QED BY <2>3, <1>6 DEF HeadAt
<1> QED BY <1>5, <1>6

-------------------------------------------------------------------------------
(* Tables.                                                                 *)

LEMMA ApplyFields ==
  ASSUME NEW t \in Index, NEW r \in Record, NEW seq \in 0..MaxRevs
  PROVE  /\ ApplyRecord(t, r, seq) \in Index
         /\ ApplyRecord(t, r, seq).stage = t.stage
         /\ ApplyRecord(t, r, seq).ours = t.ours
         /\ ApplyRecord(t, r, seq).applied = seq
         /\ ApplyRecord(t, r, seq).last = r.rev
         /\ ApplyRecord(t, r, seq).revisions = Append(t.revisions, r)
         /\ ApplyRecord(t, r, seq).docs =
              [t.docs EXCEPT ![r.doc] = [path |-> r.path, head |-> r.rev, body |-> r.object]]
<1>1. r.doc \in RevId /\ r.rev \in RevId /\ [path |-> r.path, head |-> r.rev, body |-> r.object] \in Row
  BY DEF Record, Row
<1>2. Append(t.revisions, r) \in Seq(Record)
  BY AppendIsLog DEF Index
<1>3. [t.docs EXCEPT ![r.doc] = [path |-> r.path, head |-> r.rev, body |-> r.object]]
        \in [RevId -> Row \cup {None}]
  BY <1>1 DEF Index
<1> QED BY <1>1, <1>2, <1>3 DEF Index, ApplyRecord

(* A record applied to faithful tables leaves faithful tables. *)
LEMMA ApplyFaithful ==
  ASSUME NEW t \in Index, NEW log \in Seq(Record), NEW r \in Record, Faithful(t, log),
         Len(log) + 1 \in 0..MaxRevs
  PROVE  Faithful(ApplyRecord(t, r, Len(log) + 1), Append(log, r))
<1> DEFINE u == ApplyRecord(t, r, Len(log) + 1)
<1> DEFINE long == Append(log, r)
<1>1. /\ u.applied = Len(log) + 1 /\ u.last = r.rev /\ u.revisions = Append(t.revisions, r)
      /\ u.docs = [t.docs EXCEPT ![r.doc] = [path |-> r.path, head |-> r.rev, body |-> r.object]]
  BY ApplyFields
<1>2. /\ long \in Seq(Record) /\ Len(long) = Len(log) + 1 /\ Len(log) \in Nat
      /\ long[Len(log) + 1] = r
      /\ \A i \in 1..Len(log) : long[i] = log[i]
  BY AppendIsLog, LogDomain
<1>3. ASSUME NEW d \in RevId PROVE u.docs[d] = RowOf(long, d)
  <2>1. t.docs = [e \in RevId |-> RowOf(log, e)]
    BY DEF Faithful
  <2>2. HeadAt(long, d) = IF d = r.doc THEN Len(log) + 1 ELSE HeadAt(log, d)
    BY AppendHeadAt
  <2>3. CASE d = r.doc
    BY <1>1, <1>2, <2>1, <2>2, <2>3 DEF RowOf
  <2>4. CASE d # r.doc
    <3>1. u.docs[d] = RowOf(log, d)
      BY <1>1, <2>1, <2>4
    <3>2. HeadAt(log, d) = 0 \/ HeadAt(log, d) \in 1..Len(log)
      BY LogTypes
    <3> QED BY <3>1, <3>2, <2>2, <2>4, <1>2 DEF RowOf
  <2> QED BY <2>3, <2>4
<1>4. u.docs = [d \in RevId |-> RowOf(long, d)]
  <2>1. t.docs = [e \in RevId |-> RowOf(log, e)]
    BY DEF Faithful
  <2>2. u.docs = [d \in RevId |-> u.docs[d]]
    BY <1>1, <2>1
  <2> QED BY <1>3, <2>2
<1>5. u.revisions = long /\ long # <<>> /\ u.applied = Len(long) /\ u.last = long[Len(long)].rev
  BY <1>1, <1>2, LenProperties DEF Faithful
<1> QED BY <1>4, <1>5 DEF Faithful

LEMMA NothingApplied ==
  ASSUME NEW t, t.revisions = <<>>, t.applied = 0, t.last = NoRev,
         t.docs = [d \in RevId |-> None]
  PROVE  Faithful(t, <<>>)
<1>1. \A d : HeadAt(<<>>, d) = 0
  BY DEF HeadAt, Last
<1>2. [d \in RevId |-> RowOf(<<>>, d)] = [d \in RevId |-> None]
  BY <1>1 DEF RowOf
<1> QED BY <1>2 DEF Faithful

(* The head of a document that has one is a record of it. *)
LEMMA HeadIsOfDoc ==
  ASSUME NEW log \in Seq(Record), NEW d, HeadAt(log, d) # 0
  PROVE  HeadAt(log, d) \in 1..Len(log) /\ log[HeadAt(log, d)].doc = d
<1> DEFINE H == {i \in DOMAIN log : log[i].doc = d}
<1>1. Len(log) \in Nat /\ H \in SUBSET (1..Len(log))
  BY LogDomain
<1>2. H # {} /\ Last(H) \in H
  BY <1>1, LastInRange DEF HeadAt
<1> QED BY <1>1, <1>2 DEF HeadAt

(* A UNIQUE constraint fails over nothing but two documents at one path. *)
LEMMA ConflictIsClash ==
  ASSUME NEW log \in Seq(Record), NEW t \in Index, NEW k \in 0..Len(log), k < Len(log),
         NEW n, Ordered(log, n), t.applied = k,
         Faithful(t, SubSeq(log, 1, k)), Conflict(t, log[k + 1], k + 1)
  PROVE  PathClash(log)
<1> DEFINE a == SubSeq(log, 1, k)
<1> DEFINE r == log[k + 1]
<1>1. /\ a \in Seq(Record) /\ Len(a) = k /\ DOMAIN a = 1..k
      /\ \A i \in 1..k : a[i] = log[i] /\ i \in DOMAIN log
      /\ k + 1 \in DOMAIN log
  BY PrefixIsLog, LogDomain
<1>2. t.revisions = a /\ t.docs = [d \in RevId |-> RowOf(a, d)]
  BY DEF Faithful
<1>3. r.rev \notin RevsOf(a)
  BY <1>1 DEF RevsOf, Ordered
<1>4. PICK d \in RevId \ {r.doc} : t.docs[d] # None /\ t.docs[d].path = r.path
  BY <1>1, <1>2, <1>3 DEF Conflict
<1>5. HeadAt(a, d) # 0 /\ a[HeadAt(a, d)].path = r.path
  <2>1. t.docs[d] = RowOf(a, d)
    BY <1>2, <1>4
  <2> HIDE DEF a, r
  <2> QED BY <2>1, <1>4 DEF RowOf
<1>6. HeadAt(a, d) \in 1..k /\ a[HeadAt(a, d)].doc = d
  BY <1>1, <1>5, HeadIsOfDoc
<1> QED BY <1>1, <1>4, <1>5, <1>6 DEF PathClash

-------------------------------------------------------------------------------
(* The lists of records from one state to the next.                        *)

Cut(c) == \E a \in Logs : \E k \in 0..Len(a) : c = SubSeq(a, 1, k)

LEMMA CutsOfLogs ==
  ASSUME DTypeOK
  PROVE  /\ Logs \in SUBSET Seq(Record) /\ nextRev \in Nat \ {0}
         /\ Cut(<<>>) /\ Cut(journal) /\ Cut(known)
         /\ file.ours => Cut(file.revisions)
         /\ settled.ours => Cut(settled.revisions)
         /\ \A n \in 0..Len(journal) : Cut(SubSeq(journal, 1, n))
         /\ \A n \in 0..Len(known) : Cut(SubSeq(known, 1, n))
<1>1. Logs \in SUBSET Seq(Record) /\ nextRev \in Nat \ {0}
  BY DEF DTypeOK, Index, Logs
<1>2. \A a \in Logs : Len(a) \in Nat /\ a = SubSeq(a, 1, Len(a)) /\ Len(a) \in 0..Len(a)
  BY <1>1, PrefixOfPrefix, LenProperties
<1>3. journal \in Logs /\ known \in Logs
  BY DEF Logs
<1>4. <<>> = SubSeq(journal, 1, 0) /\ 0 \in 0..Len(journal)
  <2>1. Len(journal) \in Nat
    BY <1>2, <1>3
  <2>2. SubSeq(journal, 1, 0) \in Seq(Record) /\ Len(SubSeq(journal, 1, 0)) = 0
    BY <2>1, PrefixIsLog DEF DTypeOK
  <2> QED BY <2>1, <2>2, EmptySeq
<1>5. \A a \in Logs : Cut(a)
  BY <1>2 DEF Cut
<1>6. /\ file.ours => file.revisions \in Logs
      /\ settled.ours => settled.revisions \in Logs
  BY DEF Logs
<1> QED BY <1>1, <1>3, <1>4, <1>5, <1>6 DEF Cut

LEMMA KeptFits ==
  ASSUME DTypeOK, Fits(Logs, nextRev), nextRev' \in Nat, nextRev <= nextRev',
         Cut(journal'), Cut(known'),
         file'.ours => Cut(file'.revisions),
         settled'.ours => Cut(settled'.revisions)
  PROVE  Fits(Logs, nextRev)'
<1>1. \A c \in Logs' : Cut(c)
  BY DEF Logs
<1>2. nextRev \in Nat /\ Logs \in SUBSET Seq(Record)
  BY CutsOfLogs
<1>3. Fits(Logs', nextRev')
  BY <1>1, <1>2, PrefixesFit DEF Cut
<1> QED BY <1>3 DEF Fits, Ordered, Agree, Logs

(* The index files and the empty ones. *)
LEMMA EmptyFiles ==
  /\ Emptied \in Index /\ Faithful(Emptied, <<>>)
  /\ Emptied.stage = "ready" /\ Emptied.ours /\ Emptied.applied = 0 /\ Emptied.revisions = <<>>
  /\ \A t \in {Fresh, Absent, [Fresh EXCEPT !.stage = "bare"], [Fresh EXCEPT !.stage = "alien"]} :
       t \in Index /\ ~t.ours /\ t.revisions = <<>> /\ Faithful(t, t.revisions)
<1>1. <<>> \in Seq(Record) /\ 0 \in 0..MaxRevs
  BY MaxRevsAssumption
<1>2. Emptied \in Index
  BY <1>1 DEF Emptied, Index
<1>3. /\ Emptied.stage = "ready" /\ Emptied.ours /\ Emptied.applied = 0 /\ Emptied.revisions = <<>>
      /\ Emptied.last = NoRev /\ Emptied.docs = [d \in RevId |-> None]
  BY DEF Emptied
<1>4. \A t \in {Fresh, Absent, [Fresh EXCEPT !.stage = "bare"], [Fresh EXCEPT !.stage = "alien"]} :
        /\ t \in Index /\ ~t.ours /\ t.revisions = <<>>
        /\ t.applied = 0 /\ t.last = NoRev /\ t.docs = [d \in RevId |-> None]
  BY <1>2 DEF Emptied, Fresh, Absent, Index
<1> QED BY <1>2, <1>3, <1>4, NothingApplied

(* The records the saves make. *)
LEMMA SavedRecord ==
  ASSUME DTypeOK, nextRev <= MaxRevs, NEW p \in Paths, NEW c \in Contents
  PROVE  NewRecord(p, c) \in Record /\ NewRecord(p, c).rev = nextRev
<1>1. nextRev \in RevId
  BY DEF DTypeOK, RevId
<1>2. DocFor(p) \in RevId
  BY <1>1, LogTypes DEF DocFor, DTypeOK, NoDoc
<1>3. HeadRev(known, DocFor(p)) \in RevId \cup {NoRev}
  BY LogTypes DEF DTypeOK
<1> QED BY <1>1, <1>2, <1>3 DEF NewRecord, Record

-------------------------------------------------------------------------------
(* Steps.                                                                  *)

(* A save, or one cut short, appends its record to the journal, to what the *)
(* process knows, or to both.                                              *)
LEMMA SaveFits ==
  ASSUME DInv, NEW r \in Record, r.rev = nextRev, nextRev' = nextRev + 1,
         UNCHANGED <<file, settled>>,
         journal' = IF torn THEN journal ELSE Append(journal, r),
         known' \in {<<>>, known, Append(known, r)}
  PROVE  Fits(Logs, nextRev)'
<1> DEFINE A == Logs \cup {<<>>}
<1> DEFINE B == IF torn THEN {known} ELSE {journal, known}
<1> DEFINE C == {journal', known'} \cup {t.revisions : t \in {u \in {file, settled} : u.ours}}
<1>1. A \in SUBSET Seq(Record) /\ nextRev \in Nat
  <2>1. <<>> \in Seq(Record)
    BY EmptySeq
  <2> QED BY <2>1, CutsOfLogs DEF DInv
<1>2. B \in SUBSET A
  BY DEF Logs
<1>3. \A a, b \in B : a = b \/ Len(a) # Len(b)
  <2>1. Len(journal) \in Nat /\ Len(known) \in Nat
    BY LenProperties DEF DInv, DTypeOK
  <2> QED BY <2>1 DEF DInv, Ahead
<1>4. C \in SUBSET (A \cup {Append(b, r) : b \in B})
  BY DEF Logs
<1>5. Fits(A, nextRev)
  <2>1. DOMAIN <<>> = {}
    OBVIOUS
  <2> QED BY <2>1 DEF DInv, Fits, Ordered, Agree
<1>6. Fits(C, nextRev + 1)
  <2> HIDE DEF A, B, C
  <2> QED BY <1>1, <1>2, <1>3, <1>4, <1>5, AppendFits
<1> QED BY <1>6 DEF Fits, Ordered, Agree, Logs

LEMMA SaveStep ==
  ASSUME DInv, NEW p \in Paths, NEW c \in Contents, Save(p, c)
  PROVE  DInv'
<1> DEFINE r == NewRecord(p, c)
<1>1. r \in Record /\ r.rev = nextRev
  BY SavedRecord DEF DInv, Save
<1> HIDE DEF r
<1>2. /\ pc = "idle" /\ nextRev <= MaxRevs /\ WriteLine(r) /\ synced' = Len(journal')
      /\ known' = Append(known, r) /\ StartFeed(r) /\ nextRev' = nextRev + 1
      /\ UNCHANGED <<torn, file, settled, derived, tx, struck, faults>>
  BY DEF Save, r
<1>3. /\ journal \in Seq(Record) /\ known \in Seq(Record) /\ Len(journal) \in Nat /\ Len(known) \in Nat
      /\ Append(journal, r) \in Seq(Record) /\ Len(Append(journal, r)) = Len(journal) + 1
      /\ Append(known, r) \in Seq(Record) /\ Len(Append(known, r)) = Len(known) + 1
      /\ \A i \in 1..Len(known) : Append(known, r)[i] = known[i]
      /\ DOMAIN known = 1..Len(known) /\ DOMAIN Append(known, r) = 1..(Len(known) + 1)
  BY <1>1, AppendIsLog, LogDomain DEF DInv, DTypeOK
<1>4. DTypeOK'
  <2>1. Len(journal') \in Nat /\ journal' \in Seq(Record)
    BY <1>2, <1>3 DEF WriteLine
  <2>2. nextRev' \in 1..(MaxRevs + 1)
    BY <1>2, MaxRevsAssumption DEF DInv, DTypeOK
  <2>3. synced' \in 0..Len(journal')
    BY <1>2, <2>1
  <2>4. pc' \in {"feed", "idle"} /\ job' \in Record \cup {None} /\ (pc' = "feed" => job' # None)
    BY <1>1, <1>2, NoneAssumption DEF DInv, DTypeOK, StartFeed
  <2>5. known' \in Seq(Record)
    BY <1>2, <1>3
  <2> QED BY <1>2, <2>1, <2>2, <2>3, <2>4, <2>5 DEF DInv, DTypeOK
<1>5. Fits(Logs, nextRev)'
  BY <1>1, <1>2, SaveFits DEF WriteLine
<1>6. Ahead'
  BY <1>2, <1>3 DEF DInv, Ahead, WriteLine
<1>7. FilesFaithful'
  BY <1>2 DEF DInv, FilesFaithful, Faithful, RowOf
<1>8. Progress'
  BY <1>2 DEF DInv, Progress, StartFeed
<1>9. IndexReturns'
  <2>1. CASE derived
    BY <2>1, <1>2 DEF IndexReturns
  <2>2. CASE ~derived
    <3>1. PathClash(known) => PathClash(known')
      BY <1>2, <1>3 DEF PathClash
    <3> QED BY <2>2, <3>1, <1>2 DEF DInv, IndexReturns
  <2> QED BY <2>1, <2>2
<1> QED BY <1>4, <1>5, <1>6, <1>7, <1>8, <1>9 DEF DInv

(* The list an index was fed with, and the next record. *)
LEMMA FeedFacts ==
  ASSUME DInv, pc = "feed"
  PROVE  /\ job \in Record /\ file \in Index /\ file.revisions \in Seq(Record)
         /\ file.ours /\ derived
         /\ known = Append(file.revisions, job)
         /\ file.applied = Len(file.revisions) /\ file.applied \in 0..Len(known)
         /\ file.applied < Len(known) /\ Len(known) = file.applied + 1
         /\ known[file.applied + 1] = job
         /\ SubSeq(known, 1, file.applied) = file.revisions
         /\ file.applied + 1 \in 0..MaxRevs
         /\ Faithful(file, file.revisions)
         /\ Ordered(known, nextRev)
<1>1. job \in Record /\ file \in Index /\ file.revisions \in Seq(Record)
  BY DEF DInv, DTypeOK, Index
<1>2. file.ours /\ derived /\ known = Append(file.revisions, job)
  BY DEF DInv, Progress
<1>3. Faithful(file, file.revisions) /\ file.applied = Len(file.revisions)
  BY DEF DInv, FilesFaithful, Faithful
<1>4. /\ Len(file.revisions) \in Nat /\ Len(known) = Len(file.revisions) + 1
      /\ known[Len(file.revisions) + 1] = job
      /\ SubSeq(known, 1, Len(file.revisions)) = SubSeq(file.revisions, 1, Len(file.revisions))
  BY <1>1, <1>2, AppendIsLog, LogDomain
<1>5. SubSeq(file.revisions, 1, Len(file.revisions)) = file.revisions
  BY <1>1, <1>4, PrefixOfPrefix
<1>6. Ordered(known, nextRev) /\ nextRev \in Nat \ {0} /\ nextRev <= MaxRevs + 1
  BY CutsOfLogs DEF DInv, Fits, Logs, DTypeOK
<1>7. Len(known) < nextRev
  BY <1>6, OrderedIsShort DEF DInv, DTypeOK
<1> QED BY <1>1, <1>2, <1>3, <1>4, <1>5, <1>6, <1>7, MaxRevsAssumption

LEMMA FeedStep ==
  ASSUME DInv, Feed, ~Conflict(file, job, file.applied + 1)
  PROVE  DInv'
<1>1. /\ job \in Record /\ file \in Index /\ file.revisions \in Seq(Record)
      /\ file.ours /\ derived
      /\ known = Append(file.revisions, job)
      /\ file.applied = Len(file.revisions)
      /\ file.applied + 1 \in 0..MaxRevs
      /\ Faithful(file, file.revisions)
  BY FeedFacts DEF Feed
<1> DEFINE fed == ApplyRecord(file, job, file.applied + 1)
<1>2. file' \in Index /\ file'.ours /\ file'.revisions = known
  <2>1. fed \in Index /\ fed.ours = file.ours /\ fed.revisions = Append(file.revisions, job)
    BY <1>1, ApplyFields
  <2>2. file' = fed
    BY DEF Feed
  <2> HIDE DEF fed
  <2> QED BY <1>1, <2>1, <2>2
<1>3. Faithful(file', file'.revisions)
  BY <1>1, <1>2, ApplyFaithful DEF Feed
<1>4. /\ pc' = "idle" /\ job' = None
      /\ UNCHANGED <<journal, torn, synced, settled, known, derived, tx, struck, nextRev, faults>>
  BY DEF Feed
<1>5. DTypeOK'
  BY <1>2, <1>4 DEF DInv, DTypeOK
<1>6. Fits(Logs, nextRev)'
  BY <1>2, <1>4, CutsOfLogs, KeptFits DEF DInv, DTypeOK
<1>7. FilesFaithful'
  BY <1>3, <1>4 DEF DInv, FilesFaithful, Faithful, RowOf
<1> QED BY <1>1, <1>2, <1>4, <1>5, <1>6, <1>7 DEF DInv, Ahead, Progress, IndexReturns

LEMMA FeedFailsStep ==
  ASSUME DInv, Feed, Conflict(file, job, file.applied + 1)
  PROVE  DInv'
<1>1. /\ pc' = "idle" /\ derived' = FALSE /\ job' = None
      /\ UNCHANGED <<journal, torn, synced, file, settled, known, tx, struck, nextRev, faults>>
  BY DEF Feed, GiveUp
<1>2. PathClash(known)
  <2>1. Conflict(file, job, file.applied + 1) /\ pc = "feed"
    BY DEF Feed
  <2> QED BY <2>1, FeedFacts, ConflictIsClash DEF DInv, DTypeOK
<1>3. DTypeOK'
  BY <1>1 DEF DInv, DTypeOK
<1>4. Fits(Logs, nextRev)'
  BY <1>1, CutsOfLogs, KeptFits DEF DInv, DTypeOK
<1>5. IndexReturns'
  BY <1>1, <1>2 DEF IndexReturns, PathClash
<1> QED BY <1>1, <1>3, <1>4, <1>5 DEF DInv, Ahead, FilesFaithful, Faithful, RowOf, Progress

LEMMA OpenStep ==
  ASSUME DInv, Open
  PROVE  DInv'
<1>1. /\ torn' = FALSE /\ synced' = (IF torn THEN Len(journal) ELSE synced) /\ known' = journal
      /\ struck' = FALSE /\ pc' = "attach"
      /\ UNCHANGED <<journal, file, settled, derived, tx, job, nextRev, faults>>
  BY DEF Open
<1>2. DTypeOK'
  <2>1. Len(journal) \in Nat
    BY LenProperties DEF DInv, DTypeOK
  <2>2. synced' \in 0..Len(journal')
    BY <1>1, <2>1 DEF DInv, DTypeOK
  <2> QED BY <1>1, <2>2 DEF DInv, DTypeOK
<1>3. Fits(Logs, nextRev)'
  BY <1>1, CutsOfLogs, KeptFits DEF DInv, DTypeOK
<1> QED BY <1>1, <1>2, <1>3 DEF DInv, Ahead, FilesFaithful, Faithful, RowOf, Progress, IndexReturns

(* A step of attach replaces the file by one that holds nothing or the same. *)
LEMMA AttachStep ==
  ASSUME DInv, NEW t \in Index, NEW next \in {"stamp", "again", "restamp", "begin"}, Attached(t, next),
         t.ours => file.ours /\ t.revisions = file.revisions,
         Faithful(t, t.revisions),
         next = "begin" => t.stage = "ready"
  PROVE  DInv'
<1>1. /\ file' = t /\ pc' = next
      /\ UNCHANGED <<journal, torn, synced, settled, known, derived, tx, job, struck, nextRev, faults>>
  BY DEF Attached
<1>2. DTypeOK'
  BY <1>1 DEF DInv, DTypeOK
<1>3. Fits(Logs, nextRev)'
  BY <1>1, CutsOfLogs, KeptFits DEF DInv, DTypeOK
<1>4. FilesFaithful'
  BY <1>1 DEF DInv, FilesFaithful, Faithful, RowOf
<1> QED BY <1>1, <1>2, <1>3, <1>4 DEF DInv, Ahead, Progress, IndexReturns

LEMMA AttachSteps ==
  ASSUME DInv, CreateTables \/ StampVersion \/ AttachReady \/ Destroy
  PROVE  DInv'
<1>1. file \in Index /\ Faithful(file, file.revisions)
  BY DEF DInv, DTypeOK, FilesFaithful
<1>2. CASE CreateTables
  <2> DEFINE t == [Fresh EXCEPT !.stage = "bare"]
  <2>1. t \in Index /\ ~t.ours /\ Faithful(t, t.revisions)
    BY EmptyFiles
  <2>2. PICK next \in {"stamp", "restamp"} : Attached(t, next)
    BY <1>2 DEF CreateTables
  <2> HIDE DEF t
  <2> QED BY <2>1, <2>2, AttachStep
<1>3. CASE StampVersion
  <2> DEFINE t == [file EXCEPT !.stage = "ready"]
  <2>1. t \in Index /\ t.stage = "ready" /\ t.ours = file.ours /\ t.revisions = file.revisions
        /\ t.applied = file.applied /\ t.last = file.last /\ t.docs = file.docs
    BY <1>1 DEF Index
  <2>2. Attached(t, "begin")
    BY <1>3 DEF StampVersion
  <2> HIDE DEF t
  <2>3. Faithful(t, t.revisions)
    BY <1>1, <2>1 DEF Faithful
  <2> QED BY <2>1, <2>2, <2>3, AttachStep
<1>4. CASE AttachReady
  BY <1>1, <1>4, AttachStep DEF AttachReady
<1>5. CASE Destroy
  <2>1. Absent \in Index /\ ~Absent.ours /\ Faithful(Absent, Absent.revisions)
    BY EmptyFiles
  <2> QED BY <1>5, <2>1, AttachStep DEF Destroy
<1> QED BY <1>2, <1>3, <1>4, <1>5

(* The test of sync finds only prefixes. *)
LEMMA PrefixOkIsPrefix ==
  ASSUME NEW t \in Index, NEW log \in Seq(Record), PrefixOk(t, log), Faithful(t, t.revisions),
         Agree(t.revisions, log)
  PROVE  /\ t.revisions = SubSeq(log, 1, t.applied)
         /\ t.applied \in 0..Len(log)
         /\ t.ours
<1>1. /\ t.revisions \in Seq(Record) /\ t.applied = Len(t.revisions) /\ Len(t.revisions) \in Nat
      /\ t.revisions # <<>> => t.last = t.revisions[Len(t.revisions)].rev
  BY LenProperties DEF Index, Faithful
<1>2. t.ours /\ t.applied <= Len(log) /\ (t.applied = 0 \/ log[t.applied].rev = t.last)
  BY DEF PrefixOk
<1>3. Len(t.revisions) # 0 => log[Len(t.revisions)].rev = t.revisions[Len(t.revisions)].rev
  <2>1. Len(t.revisions) # 0 => t.revisions # <<>>
    BY EmptySeq
  <2> QED BY <1>1, <1>2, <2>1
<1>4. Len(log) \in Nat
  BY LenProperties
<1>5. t.revisions = SubSeq(log, 1, Len(t.revisions))
  BY <1>1, <1>2, <1>3, AgreeIsPrefix
<1> QED BY <1>1, <1>2, <1>4, <1>5

LEMMA BeginSyncStep ==
  ASSUME DInv, BeginSync
  PROVE  DInv'
<1>1. /\ pc = "begin" /\ pc' = "sync"
      /\ tx' = IF PrefixOk(file, known) THEN file ELSE Emptied
      /\ UNCHANGED <<journal, torn, synced, file, settled, known, derived, job, struck, nextRev, faults>>
  BY DEF BeginSync, disk
<1>2. file \in Index /\ known \in Seq(Record) /\ Len(known) \in Nat
  BY LenProperties DEF DInv, DTypeOK
<1>3. DTypeOK'
  BY <1>1, EmptyFiles DEF DInv, DTypeOK
<1>4. Fits(Logs, nextRev)'
  BY <1>1, CutsOfLogs, KeptFits DEF DInv, DTypeOK
<1>5. /\ tx'.stage = "ready" /\ tx'.ours /\ tx'.applied \in 0..Len(known)
      /\ Faithful(tx', SubSeq(known, 1, tx'.applied))
  <2>1. CASE PrefixOk(file, known)
    <3>1. file.stage = "ready" /\ Faithful(file, file.revisions)
      BY <1>1 DEF DInv, FilesFaithful, Progress
    <3>2. Agree(file.revisions, known)
      BY <2>1 DEF DInv, Fits, Logs, PrefixOk
    <3>3. /\ file.revisions = SubSeq(known, 1, file.applied)
          /\ file.applied \in 0..Len(known) /\ file.ours
      BY <1>2, <2>1, <3>1, <3>2, PrefixOkIsPrefix
    <3>4. tx' = file
      BY <1>1, <2>1
    <3> QED BY <3>1, <3>3, <3>4
  <2>2. CASE ~PrefixOk(file, known)
    <3>1. SubSeq(known, 1, 0) = <<>>
      <4>1. SubSeq(known, 1, 0) \in Seq(Record) /\ Len(SubSeq(known, 1, 0)) = 0
        BY <1>2, PrefixIsLog
      <4> QED BY <4>1, EmptySeq
    <3>2. tx' = Emptied
      BY <1>1, <2>2
    <3>3. 0 \in 0..Len(known)
      BY <1>2
    <3> QED BY <3>1, <3>2, <3>3, EmptyFiles
  <2> QED BY <2>1, <2>2
<1>6. Progress'
  <2>1. Faithful(tx', SubSeq(known', 1, tx'.applied)) /\ tx'.applied \in 0..Len(known')
    BY <1>1, <1>5
  <2> QED BY <1>1, <1>5, <2>1 DEF Progress
<1> QED BY <1>1, <1>3, <1>4, <1>6 DEF DInv, Ahead, FilesFaithful, Faithful, RowOf, IndexReturns

(* The transaction of sync and the records it has left to apply. *)
LEMMA SyncFacts ==
  ASSUME DInv, pc = "sync"
  PROVE  /\ tx \in Index /\ known \in Seq(Record) /\ Len(known) \in 0..MaxRevs
         /\ tx.stage = "ready" /\ tx.ours
         /\ tx.applied \in 0..Len(known) /\ Faithful(tx, SubSeq(known, 1, tx.applied))
         /\ SubSeq(known, 1, tx.applied) \in Seq(Record)
         /\ Len(SubSeq(known, 1, tx.applied)) = tx.applied
         /\ Ordered(known, nextRev)
<1>1. tx \in Index /\ known \in Seq(Record) /\ Len(known) \in Nat
  BY LenProperties DEF DInv, DTypeOK
<1>2. tx.stage = "ready" /\ tx.ours /\ tx.applied \in 0..Len(known)
      /\ Faithful(tx, SubSeq(known, 1, tx.applied))
  BY DEF DInv, Progress
<1>3. Ordered(known, nextRev) /\ nextRev \in Nat \ {0} /\ nextRev <= MaxRevs + 1
  BY CutsOfLogs DEF DInv, Fits, Logs, DTypeOK
<1>4. Len(known) \in 0..MaxRevs
  BY <1>1, <1>3, OrderedIsShort, MaxRevsAssumption
<1> QED BY <1>1, <1>2, <1>3, <1>4, PrefixIsLog

LEMMA SyncRecordStep ==
  ASSUME DInv, SyncRecord
  PROVE  DInv'
<1> DEFINE k == tx.applied
<1> DEFINE a == SubSeq(known, 1, k)
<1> DEFINE r == known[k + 1]
<1> DEFINE u == ApplyRecord(tx, r, k + 1)
<1>1. /\ pc = "sync" /\ k < Len(known) /\ tx' = u
      /\ UNCHANGED <<journal, torn, synced, file, settled, pc, known, derived, job, struck, nextRev, faults>>
  BY DEF SyncRecord, NextRecord, disk
<1>2. /\ tx \in Index /\ known \in Seq(Record) /\ Len(known) \in 0..MaxRevs
      /\ tx.stage = "ready" /\ tx.ours /\ k \in 0..Len(known) /\ Faithful(tx, a)
      /\ a \in Seq(Record) /\ Len(a) = k
  BY <1>1, SyncFacts
<1>3. r \in Record /\ k + 1 \in 0..MaxRevs /\ k + 1 \in 0..Len(known)
  <2>1. k + 1 \in 1..Len(known) /\ k + 1 \in 0..MaxRevs
    BY <1>1, <1>2, MaxRevsAssumption
  <2> QED BY <1>2, <2>1, LogDomain
<1>4. /\ u \in Index /\ u.stage = "ready" /\ u.ours /\ u.applied = k + 1
  BY <1>2, <1>3, ApplyFields
<1>5. Faithful(u, Append(a, r))
  BY <1>2, <1>3, ApplyFaithful
<1>6. Append(a, r) = SubSeq(known, 1, k + 1)
  <2>1. /\ Append(a, r) \in Seq(Record) /\ Len(Append(a, r)) = k + 1
        /\ Append(a, r)[k + 1] = r /\ \A i \in 1..k : Append(a, r)[i] = a[i]
    BY <1>2, <1>3, AppendIsLog
  <2>2. \A i \in 1..k : a[i] = known[i]
    BY <1>2, PrefixIsLog
  <2>3. /\ SubSeq(known, 1, k + 1) \in Seq(Record) /\ Len(SubSeq(known, 1, k + 1)) = k + 1
        /\ \A i \in 1..(k + 1) : SubSeq(known, 1, k + 1)[i] = known[i]
    BY <1>2, <1>3, PrefixIsLog
  <2>4. r = known[k + 1]
    OBVIOUS
  <2> HIDE DEF a, r, k
  <2>5. \A i \in 1..(k + 1) : Append(a, r)[i] = SubSeq(known, 1, k + 1)[i]
    <3>1. \A i \in 1..(k + 1) : i = k + 1 \/ i \in 1..k
      BY <1>2
    <3> QED BY <2>1, <2>2, <2>3, <2>4, <3>1
  <2> QED BY <1>3, <2>1, <2>3, <2>5, SeqEqual
<1> HIDE DEF u, r
<1>7. DTypeOK'
  BY <1>1, <1>4 DEF DInv, DTypeOK
<1>8. Fits(Logs, nextRev)'
  BY <1>1, CutsOfLogs, KeptFits DEF DInv, DTypeOK
<1>9. Progress'
  <2>1. Faithful(tx', SubSeq(known', 1, tx'.applied)) /\ tx'.applied \in 0..Len(known')
    BY <1>1, <1>3, <1>4, <1>5, <1>6
  <2> QED BY <1>1, <1>4, <2>1 DEF Progress
<1> QED BY <1>1, <1>7, <1>8, <1>9 DEF DInv, Ahead, FilesFaithful, Faithful, RowOf, IndexReturns

LEMMA SyncCommitsStep ==
  ASSUME DInv, SyncCommits
  PROVE  DInv'
<1>1. /\ pc = "sync" /\ tx.applied = Len(known) /\ file' = tx /\ derived' = TRUE /\ pc' = "idle"
      /\ UNCHANGED <<journal, torn, synced, settled, known, tx, job, struck, nextRev, faults>>
  BY DEF SyncCommits
<1>2. tx \in Index /\ tx.ours /\ tx.revisions = known /\ Faithful(tx, tx.revisions)
  <2>1. known = SubSeq(known, 1, tx.applied)
    BY <1>1, PrefixOfPrefix, SyncFacts
  <2>2. Faithful(tx, known)
    BY <1>1, <2>1, SyncFacts
  <2>3. tx.revisions = known
    BY <2>2 DEF Faithful
  <2> QED BY <1>1, <2>2, <2>3, SyncFacts
<1>3. DTypeOK'
  BY <1>1 DEF DInv, DTypeOK
<1>4. Fits(Logs, nextRev)'
  BY <1>1, <1>2, CutsOfLogs, KeptFits DEF DInv, DTypeOK
<1>5. FilesFaithful'
  BY <1>1, <1>2 DEF DInv, FilesFaithful, Faithful, RowOf
<1> QED BY <1>1, <1>2, <1>3, <1>4, <1>5 DEF DInv, Ahead, Progress, IndexReturns

LEMMA SyncFailsStep ==
  ASSUME DInv, SyncFails
  PROVE  DInv'
<1>1. /\ pc = "sync" /\ tx.applied < Len(known) /\ Conflict(tx, known[tx.applied + 1], tx.applied + 1)
      /\ pc' = "idle" /\ derived' = FALSE /\ job' = None
      /\ UNCHANGED <<journal, torn, synced, file, settled, known, tx, struck, nextRev, faults>>
  BY DEF SyncFails, GiveUp, disk, NextRecord
<1>2. PathClash(known)
  BY <1>1, SyncFacts, ConflictIsClash
<1>3. DTypeOK'
  BY <1>1 DEF DInv, DTypeOK
<1>4. Fits(Logs, nextRev)'
  BY <1>1, CutsOfLogs, KeptFits DEF DInv, DTypeOK
<1>5. IndexReturns'
  BY <1>1, <1>2 DEF IndexReturns, PathClash
<1> QED BY <1>1, <1>3, <1>4, <1>5 DEF DInv, Ahead, FilesFaithful, Faithful, RowOf, Progress

LEMMA CheckpointStep ==
  ASSUME DInv, Checkpoint
  PROVE  DInv'
<1>1. settled' = file
      /\ UNCHANGED <<journal, torn, synced, file, pc, known, derived, tx, job, struck, nextRev, faults>>
  BY DEF Checkpoint, process
<1>2. DTypeOK'
  BY <1>1 DEF DInv, DTypeOK
<1>3. Fits(Logs, nextRev)'
  BY <1>1, CutsOfLogs, KeptFits DEF DInv, DTypeOK
<1>4. FilesFaithful'
  BY <1>1 DEF DInv, FilesFaithful, Faithful, RowOf
<1>5. Progress'
  <2>1. tx' = tx /\ known' = known /\ pc' = pc /\ file' = file /\ derived' = derived /\ job' = job
    BY <1>1
  <2>2. pc = "sync" => Faithful(tx', SubSeq(known', 1, tx'.applied))
    BY <2>1 DEF DInv, Progress
  <2>3. pc' = "sync" => tx'.stage = "ready" /\ tx'.ours /\ tx'.applied \in 0..Len(known')
    BY <2>1 DEF DInv, Progress
  <2> QED BY <2>1, <2>2, <2>3 DEF DInv, Progress
<1> QED BY <1>1, <1>2, <1>3, <1>4, <1>5 DEF DInv, Ahead, IndexReturns, PathClash

(* A process that is gone has nothing to be wrong about. *)
LEMMA DownStep ==
  ASSUME Down, DTypeOK', Fits(Logs, nextRev)', FilesFaithful'
  PROVE  DInv'
<1>1. pc' = "down" /\ known' = <<>>
  BY DEF Down
<1>2. Ahead'
  <2>1. journal' = <<>> \/ Len(journal') > 0
    BY LenProperties, EmptySeq DEF DTypeOK
  <2>2. Len(<<>>) = 0
    OBVIOUS
  <2> QED BY <1>1, <2>1, <2>2 DEF Ahead
<1> QED BY <1>1, <1>2 DEF DInv, Progress, IndexReturns

LEMMA DownTypes ==
  ASSUME Down
  PROVE  /\ pc' = "down" /\ known' = <<>> /\ known' \in Seq(Record) /\ derived' = FALSE
         /\ tx' \in Index /\ job' = None /\ struck' = FALSE
BY EmptyFiles DEF Down

LEMMA CloseStep ==
  ASSUME DInv, Close
  PROVE  DInv'
<1>1. Down /\ UNCHANGED <<journal, torn, synced, file, settled, nextRev, faults>>
  BY DEF Close, disk
<1>2. DTypeOK'
  BY <1>1, DownTypes DEF DInv, DTypeOK
<1>3. Fits(Logs, nextRev)'
  BY <1>1, DownTypes, CutsOfLogs, KeptFits DEF DInv, DTypeOK
<1>4. FilesFaithful'
  BY <1>1 DEF DInv, FilesFaithful, Faithful, RowOf
<1> QED BY <1>1, <1>2, <1>3, <1>4, DownStep

(* A save cut short. *)
LEMMA HalfSavedFits ==
  ASSUME DInv, HalfSaved, UNCHANGED <<synced, file, settled>>, known' \in {<<>>, known}
  PROVE  /\ Fits(Logs, nextRev)'
         /\ journal' \in Seq(Record) /\ Len(journal) <= Len(journal') /\ Len(journal') \in Nat
         /\ torn' \in BOOLEAN /\ nextRev' \in 1..(MaxRevs + 1)
         /\ torn' \/ (~torn /\ (journal' = journal \/ Len(journal') = Len(journal) + 1))
<1>1. nextRev <= MaxRevs /\ nextRev' = nextRev + 1 /\ nextRev' \in 1..(MaxRevs + 1) /\ nextRev \in Nat
  BY MaxRevsAssumption DEF HalfSaved, DInv, DTypeOK
<1>2. journal \in Seq(Record) /\ Len(journal) \in Nat /\ torn \in BOOLEAN
  BY LenProperties DEF DInv, DTypeOK
<1>3. CASE (\E p \in Paths, c \in Contents : WriteLine(NewRecord(p, c))) /\ UNCHANGED torn
  <2>1. PICK p \in Paths, c \in Contents : WriteLine(NewRecord(p, c))
    BY <1>3
  <2> DEFINE r == NewRecord(p, c)
  <2>2. r \in Record /\ r.rev = nextRev
    BY <1>1, SavedRecord DEF DInv
  <2>3. journal' = IF torn THEN journal ELSE Append(journal, r)
    BY <2>1 DEF WriteLine
  <2> HIDE DEF r
  <2>4. Fits(Logs, nextRev)'
    BY <1>1, <2>2, <2>3, SaveFits
  <2>5. Append(journal, r) \in Seq(Record) /\ Len(Append(journal, r)) = Len(journal) + 1
    BY <1>2, <2>2, AppendIsLog
  <2> QED BY <1>1, <1>2, <1>3, <2>3, <2>4, <2>5
<1>4. CASE torn' = TRUE /\ UNCHANGED journal
  <2>1. Fits(Logs, nextRev)'
    BY <1>1, <1>4, CutsOfLogs, KeptFits DEF DInv
  <2> QED BY <1>1, <1>2, <1>4, <2>1
<1> QED BY <1>3, <1>4 DEF HalfSaved

LEMMA FaultCounted ==
  ASSUME DInv, NEW kind, Fault(kind)
  PROVE  faults' \in 0..MaxFaults
BY DerivedAssumption DEF Fault, DInv, DTypeOK

LEMMA KillStep ==
  ASSUME DInv, Kill
  PROVE  DInv'
<1>1. Down /\ Fault("kill") /\ UNCHANGED <<synced, file, settled>>
  BY DEF Kill
<1>2. /\ Fits(Logs, nextRev)'
      /\ journal' \in Seq(Record) /\ Len(journal) <= Len(journal') /\ Len(journal') \in Nat
      /\ Len(journal) \in Nat
      /\ torn' \in BOOLEAN /\ nextRev' \in 1..(MaxRevs + 1)
  <2>1. Len(journal) \in Nat /\ journal \in Seq(Record)
    BY LenProperties DEF DInv, DTypeOK
  <2>2. CASE HalfSaved
    BY <1>1, <2>1, <2>2, DownTypes, HalfSavedFits
  <2>3. CASE UNCHANGED <<journal, torn, nextRev>>
    <3>1. Fits(Logs, nextRev)'
      BY <1>1, <2>3, DownTypes, CutsOfLogs, KeptFits DEF DInv, DTypeOK
    <3> QED BY <2>1, <2>3, <3>1 DEF DInv, DTypeOK
  <2> QED BY <2>2, <2>3 DEF Kill
<1>3. DTypeOK'
  <2>1. synced' \in 0..Len(journal')
    BY <1>1, <1>2 DEF DInv, DTypeOK
  <2> QED BY <1>1, <1>2, <2>1, DownTypes, FaultCounted DEF DInv, DTypeOK
<1>4. FilesFaithful'
  BY <1>1 DEF DInv, FilesFaithful, Faithful, RowOf
<1> QED BY <1>1, <1>2, <1>3, <1>4, DownStep

LEMMA PowerLossStep ==
  ASSUME DInv, PowerLoss
  PROVE  DInv'
<1>1. /\ Down /\ Fault("power") /\ file' \in {file, settled} /\ settled' = file'
      /\ nextRev' = nextRev
  BY DEF PowerLoss
<1>2. PICK n \in synced..Len(journal) :
        /\ journal' = SubSeq(journal, 1, n) /\ synced' = n /\ torn' \in {torn, n < Len(journal)}
  BY DEF PowerLoss
<1>3. journal \in Seq(Record) /\ Len(journal) \in Nat /\ n \in 0..Len(journal)
  <2>1. journal \in Seq(Record) /\ Len(journal) \in Nat /\ synced \in 0..Len(journal)
    BY LenProperties DEF DInv, DTypeOK
  <2> QED BY <1>2, <2>1
<1>4. journal' \in Seq(Record) /\ Len(journal') = n
  BY <1>2, <1>3, PrefixIsLog
<1>5. DTypeOK'
  <2>1. torn \in BOOLEAN
    BY DEF DInv, DTypeOK
  <2>2. synced' \in 0..Len(journal')
    BY <1>2, <1>3, <1>4
  <2>3. torn' \in BOOLEAN
    <3>1. (n < Len(journal)) \in BOOLEAN
      OBVIOUS
    <3> QED BY <1>2, <2>1, <3>1, Zenon
  <2> QED BY <1>1, <1>4, <2>2, <2>3, DownTypes, FaultCounted DEF DInv, DTypeOK
<1>6. Fits(Logs, nextRev)'
  <2>1. Cut(journal') /\ Cut(known')
    BY <1>1, <1>2, <1>3, CutsOfLogs, DownTypes DEF DInv
  <2> QED BY <1>1, <2>1, CutsOfLogs, KeptFits DEF DInv
<1>7. FilesFaithful'
  <2>1. Faithful(file', file'.revisions)
    BY <1>1 DEF DInv, FilesFaithful
  <2> QED BY <1>1, <2>1 DEF FilesFaithful
<1> QED BY <1>1, <1>5, <1>6, <1>7, DownStep

LEMMA SaveFailsStep ==
  ASSUME DInv, SaveFails
  PROVE  DInv'
<1>1. /\ HalfSaved /\ Fault("io") /\ pc = "idle"
      /\ UNCHANGED <<synced, file, settled, pc, known, derived, tx, job, struck>>
  BY DEF SaveFails, process, HalfSaved
<1>2. /\ Fits(Logs, nextRev)'
      /\ journal' \in Seq(Record) /\ Len(journal) <= Len(journal') /\ Len(journal') \in Nat
      /\ torn' \in BOOLEAN /\ nextRev' \in 1..(MaxRevs + 1)
      /\ torn' \/ (~torn /\ (journal' = journal \/ Len(journal') = Len(journal) + 1))
  BY <1>1, HalfSavedFits
<1>3. Len(journal) \in Nat /\ Len(known) \in Nat
  BY LenProperties DEF DInv, DTypeOK
<1>4. DTypeOK'
  <2>1. synced' \in 0..Len(journal')
    BY <1>1, <1>2, <1>3 DEF DInv, DTypeOK
  <2> QED BY <1>1, <1>2, <2>1, FaultCounted DEF DInv, DTypeOK
<1>5. Ahead'
  BY <1>1, <1>2, <1>3 DEF DInv, Ahead
<1> QED BY <1>1, <1>2, <1>4, <1>5
        DEF DInv, FilesFaithful, Faithful, RowOf, Progress, IndexReturns, PathClash

LEMMA IndexFailsStep ==
  ASSUME DInv, IndexFails
  PROVE  DInv'
<1>1. /\ Fault("io") /\ pc' = "idle" /\ derived' = FALSE /\ job' = None /\ struck' = TRUE
      /\ UNCHANGED <<journal, torn, synced, file, settled, known, tx, nextRev>>
  BY DEF IndexFails, GiveUp, disk
<1>2. DTypeOK'
  BY <1>1, FaultCounted DEF DInv, DTypeOK
<1>3. Fits(Logs, nextRev)'
  BY <1>1, CutsOfLogs, KeptFits DEF DInv, DTypeOK
<1> QED BY <1>1, <1>2, <1>3 DEF DInv, Ahead, FilesFaithful, Faithful, RowOf, Progress, IndexReturns

LEMMA AttachFailsStep ==
  ASSUME DInv, AttachFails
  PROVE  DInv'
<1>1. /\ Fault("io") /\ pc' = "again" /\ file' = Absent /\ struck' = TRUE
      /\ UNCHANGED <<journal, torn, synced, settled, known, derived, tx, job, nextRev>>
  BY DEF AttachFails
<1>2. Absent \in Index /\ ~Absent.ours /\ Faithful(Absent, Absent.revisions)
  BY EmptyFiles
<1>3. DTypeOK'
  BY <1>1, <1>2, FaultCounted DEF DInv, DTypeOK
<1>4. Fits(Logs, nextRev)'
  BY <1>1, <1>2, CutsOfLogs, KeptFits DEF DInv, DTypeOK
<1>5. FilesFaithful'
  BY <1>1, <1>2 DEF DInv, FilesFaithful, Faithful, RowOf
<1> QED BY <1>1, <1>3, <1>4, <1>5 DEF DInv, Ahead, Progress, IndexReturns

(* The index of another vault. *)
LEMMA FirstApplied ==
  ASSUME NEW t \in Index, NEW r \in Record, MaxRevs >= 1,
         t.revisions = <<>>, ~t.ours, Faithful(t, <<>>)
  PROVE  LET u == ApplyRecord(t, r, 1)
         IN  u \in Index /\ ~u.ours /\ Faithful(u, u.revisions)
<1> DEFINE u == ApplyRecord(t, r, 1)
<1>1. 1 \in 0..MaxRevs /\ <<>> \in Seq(Record) /\ Len(<<>>) + 1 = 1 /\ Len(<<>>) + 1 \in 0..MaxRevs
  BY MaxRevsAssumption
<1>2. u \in Index
  BY <1>1, ApplyFields
<1>3. ~u.ours /\ u.revisions = Append(<<>>, r)
  BY DEF ApplyRecord, Index
<1>4. Faithful(ApplyRecord(t, r, Len(<<>>) + 1), Append(<<>>, r))
  BY <1>1, ApplyFaithful, Zenon
<1>5. Faithful(u, Append(<<>>, r))
  BY <1>1, <1>4
<1> QED BY <1>2, <1>3, <1>5

LEMMA SwapStep ==
  ASSUME DInv, Swap
  PROVE  DInv'
<1>1. /\ pc = "down" /\ Fault("swap") /\ settled' = file'
      /\ UNCHANGED <<journal, torn, synced, pc, known, derived, tx, job, struck, nextRev>>
  BY DEF Swap, process
<1>2. file' \in Index /\ ~file'.ours /\ Faithful(file', file'.revisions)
  <2>1. CASE file' \in {Absent, [Fresh EXCEPT !.stage = "alien"]}
    BY <2>1, EmptyFiles
  <2>2. CASE \E d \in RevId, p \in Paths, c \in Contents :
               file' = ApplyRecord(Fresh, [doc |-> d, rev |-> d, parent |-> NoRev,
                                           object |-> c, path |-> p], 1)
    <3>1. PICK d \in RevId, p \in Paths, c \in Contents :
            file' = ApplyRecord(Fresh, [doc |-> d, rev |-> d, parent |-> NoRev,
                                        object |-> c, path |-> p], 1)
      BY <2>2
    <3>2. [doc |-> d, rev |-> d, parent |-> NoRev, object |-> c, path |-> p] \in Record
      BY DEF Record
    <3>3. MaxRevs >= 1
      BY MaxRevsAssumption DEF RevId
    <3> QED BY <3>1, <3>2, <3>3, FirstApplied, EmptyFiles
  <2> QED BY <2>1, <2>2 DEF Swap
<1>3. DTypeOK'
  BY <1>1, <1>2, FaultCounted DEF DInv, DTypeOK
<1>4. Fits(Logs, nextRev)'
  BY <1>1, <1>2, CutsOfLogs, KeptFits DEF DInv, DTypeOK
<1>5. FilesFaithful'
  BY <1>1, <1>2 DEF FilesFaithful
<1> QED BY <1>1, <1>3, <1>4, <1>5 DEF DInv, Ahead, Progress, IndexReturns

-------------------------------------------------------------------------------
(* Theorems.                                                               *)

LEMMA InitDerived ==
  ASSUME Init
  PROVE  DInv
<1>1. /\ journal = <<>> /\ torn = FALSE /\ synced = 0
      /\ file = Emptied /\ settled = Absent /\ tx = Emptied
      /\ pc = "idle" /\ known = <<>> /\ derived = TRUE /\ job = None
      /\ struck = FALSE /\ nextRev = 1 /\ faults = 0
  BY DEF Init
<1>2. /\ <<>> \in Seq(Record) /\ Len(<<>>) = 0 /\ DOMAIN <<>> = {}
      /\ nextRev \in 1..(MaxRevs + 1) /\ faults \in 0..MaxFaults
  BY <1>1, MaxRevsAssumption, DerivedAssumption
<1>3. /\ Emptied \in Index /\ Emptied.ours /\ Emptied.revisions = <<>> /\ Faithful(Emptied, <<>>)
      /\ Absent \in Index /\ ~Absent.ours /\ Faithful(Absent, Absent.revisions)
  BY EmptyFiles
<1>4. DTypeOK
  <2>1. journal \in Seq(Record) /\ known \in Seq(Record) /\ synced \in 0..Len(journal)
    BY <1>1, <1>2
  <2>2. file \in Index /\ settled \in Index /\ tx \in Index
    BY <1>1, <1>3
  <2>3. torn \in BOOLEAN /\ derived \in BOOLEAN /\ struck \in BOOLEAN
    BY <1>1
  <2> QED BY <1>1, <1>2, <2>1, <2>2, <2>3 DEF DTypeOK
<1>5. Fits(Logs, nextRev)
  <2>1. \A a \in Logs : a = <<>>
    BY <1>1, <1>3 DEF Logs
  <2> QED BY <2>1, <1>2 DEF Fits, Ordered, Agree
<1>6. FilesFaithful /\ Progress
  BY <1>1, <1>3 DEF FilesFaithful, Progress
<1> QED BY <1>1, <1>4, <1>5, <1>6 DEF DInv, Ahead, IndexReturns

LEMMA NextDerived ==
  ASSUME DInv, [Next]_vars
  PROVE  DInv'
<1>1. CASE \E p \in Paths, c \in Contents : Save(p, c)
  BY <1>1, SaveStep
<1>2. CASE CreateTables \/ StampVersion \/ AttachReady \/ Destroy
  BY <1>2, AttachSteps
<1>3. CASE OpenCorrupt \/ UNCHANGED vars
  <2>1. /\ UNCHANGED <<journal, torn, synced, file, settled>>
        /\ UNCHANGED <<pc, known, derived, tx, job, struck, nextRev, faults>>
    BY <1>3 DEF OpenCorrupt, vars, disk, process
  <2>2. DTypeOK'
    BY <2>1 DEF DInv, DTypeOK
  <2>3. Fits(Logs, nextRev)'
    BY <2>1, CutsOfLogs, KeptFits DEF DInv, DTypeOK
  <2>4. Progress'
    <3>1. pc = "sync" => Faithful(tx', SubSeq(known', 1, tx'.applied))
      BY <2>1 DEF DInv, Progress
    <3>2. pc = "sync" => tx'.stage = "ready" /\ tx'.ours /\ tx'.applied \in 0..Len(known')
      BY <2>1 DEF DInv, Progress
    <3> QED BY <2>1, <3>1, <3>2 DEF DInv, Progress
  <2> QED BY <2>1, <2>2, <2>3, <2>4
          DEF DInv, Ahead, FilesFaithful, Faithful, RowOf, IndexReturns, PathClash
<1> QED
  BY <1>1, <1>2, <1>3, FeedStep, FeedFailsStep, OpenStep, BeginSyncStep, SyncRecordStep,
     SyncCommitsStep, SyncFailsStep, CheckpointStep, CloseStep, KillStep, PowerLossStep,
     SaveFailsStep, IndexFailsStep, AttachFailsStep, SwapStep
     DEF Next

(* The invariant everything below follows from: the lists of records agree *)
(* on their common past, and every index file is faithful to one of them.  *)
THEOREM DerivedInvariant == Spec => []DInv
<1>1. Init => DInv
  BY InitDerived
<1>2. DInv /\ [Next]_vars => DInv'
  BY NextDerived
<1> QED BY <1>1, <1>2, PTL DEF Spec

(* Every variable of the index and of its vault keeps its type.            *)
THEOREM DerivedTypes == Spec => []DTypeOK
<1>1. DInv => DTypeOK
  BY DEF DInv
<1> QED BY <1>1, DerivedInvariant, PTL

(* Readers of the file always find documents, revisions and counters that  *)
(* agree, whatever was killed, lost or replaced (apply_one, sync: one      *)
(* transaction each).                                                      *)
THEOREM ConsistentAlways == Spec => []Consistent
<1>1. DInv => Consistent
  BY DEF DInv, FilesFaithful, Consistent
<1> QED BY <1>1, DerivedInvariant, PTL

(* Length and last revision decide whether an index is a prefix of the     *)
(* journal (the test of sync).                                             *)
THEOREM PrefixSoundAlways == Spec => []PrefixSound
<1>1. ASSUME DInv PROVE PrefixSound
  <2> SUFFICES ASSUME file.stage = "ready", PrefixOk(file, journal)
               PROVE  file.revisions = SubSeq(journal, 1, file.applied)
    BY DEF PrefixSound
  <2>1. file \in Index /\ journal \in Seq(Record) /\ Faithful(file, file.revisions)
    BY <1>1 DEF DInv, DTypeOK, FilesFaithful
  <2>2. Agree(file.revisions, journal)
    BY <1>1 DEF DInv, Fits, Logs, PrefixOk
  <2> QED BY <2>1, <2>2, PrefixOkIsPrefix
<1> QED BY <1>1, DerivedInvariant, PTL

(* A vault that has its index searches the heads it goes by (Vault::search). *)
THEOREM IndexCurrentAlways == Spec => []IndexCurrent
<1>1. ASSUME DInv PROVE IndexCurrent
  BY <1>1 DEF DInv, IndexCurrent, Progress, FilesFaithful
<1> QED BY <1>1, DerivedInvariant, PTL

(* An open whose calls on the index succeed ends with an index, unless two *)
(* documents of the journal share a path (open_write, attach, sync).       *)
THEOREM IndexReturnsAlways == Spec => []IndexReturns
<1>1. DInv => IndexReturns
  BY DEF DInv
<1> QED BY <1>1, DerivedInvariant, PTL
================================================================================
