-------------------------- MODULE Revisions_proofs ---------------------------
(***************************************************************************)
(* Facts about logs of revision records, of any length.                    *)
(***************************************************************************)
EXTENDS Revisions, SequenceTheorems, WellFoundedInduction, TLAPS

(* A prefix of a log is a log. *)
LEMMA PrefixIsLog ==
  ASSUME NEW S, NEW log \in Seq(S), NEW n \in 0..Len(log)
  PROVE  /\ SubSeq(log, 1, n) \in Seq(S)
         /\ Len(SubSeq(log, 1, n)) = n
         /\ \A i \in 1..n : SubSeq(log, 1, n)[i] = log[i]
<1>1. Len(log) \in Nat
  BY LenProperties
<1>2. \A i \in 1..n : log[i] \in S
  BY <1>1, ElementOfSeq
<1>. QED
  BY <1>1, <1>2, SubSeqProperties

(* A set of positions of a log that is not empty has a greatest element. *)
LEMMA LastIsGreatest ==
  ASSUME NEW n \in Nat, NEW S \in SUBSET (1..n), S # {}
  PROVE  Last(S) \in S /\ \A j \in S : j <= Last(S)
<1> DEFINE T == {n - i : i \in S}
<1>1. T \in SUBSET Nat /\ T # {}
  <2>1. \A i \in S : n - i \in Nat
    OBVIOUS
  <2>. QED
    BY <2>1
<1>2. IsWellFoundedOn(OpToRel(<, Nat), Nat)
  BY NatLessThanWellFounded
<1>3. PICK m \in T : \A k \in T : <<k, m>> \notin OpToRel(<, Nat)
  BY <1>1, <1>2, WFMin
<1>4. \A k \in T : ~(k < m)
  BY <1>1, <1>3 DEF OpToRel
<1>5. PICK i \in S : m = n - i
  OBVIOUS
<1>6. \A j \in S : j <= i
  BY <1>4, <1>5
<1>. QED
  BY <1>6 DEF Last

LEMMA LastInRange ==
  ASSUME NEW n \in Nat, NEW S \in SUBSET (1..n)
  PROVE  /\ Last(S) \in 0..n
         /\ S = {} => Last(S) = 0
         /\ S # {} => Last(S) \in S
<1>1. CASE S = {}
  <2>1. Last(S) = 0
    BY <1>1 DEF Last
  <2>. QED
    BY <2>1, <1>1
<1>2. CASE S # {}
  <2>1. Last(S) \in S
    BY <1>2, LastIsGreatest
  <2>2. \A i \in S : i \in 0..n
    OBVIOUS
  <2>. QED
    BY <2>1, <2>2, <1>2
<1>. QED
  BY <1>1, <1>2

(* The index derived from a log has the types of the records' fields. *)
LEMMA LogTypes ==
  ASSUME NEW log \in Seq(Record), NEW x
  PROVE  /\ HeadAt(log, x) \in 0..Len(log)
         /\ x \in DocsOf(log) => HeadAt(log, x) \in 1..Len(log)
         /\ HeadRev(log, x) \in RevId \cup {NoRev}
         /\ HeadAt(log, x) # 0 => log[HeadAt(log, x)] \in Record
         /\ DocAt(log, x) \in RevId \cup {NoDoc}
         /\ RevsOf(log) \subseteq RevId
         /\ DocsOf(log) \subseteq RevId
<1>1. Len(log) \in Nat /\ DOMAIN log = 1..Len(log)
  BY LenProperties
<1>2. \A i \in 1..Len(log) : log[i] \in Record
  BY <1>1, ElementOfSeq
<1>3. \A i \in 1..Len(log) :
         /\ log[i].doc \in RevId /\ log[i].rev \in RevId
         /\ log[i].object \in Contents
  BY <1>2 DEF Record
<1> DEFINE H == {i \in DOMAIN log : log[i].doc = x}
           P == {i \in DOMAIN log : log[i].path = x}
<1>4. HeadAt(log, x) \in 0..Len(log) /\ (H # {} => HeadAt(log, x) \in H)
  <2>1. H \in SUBSET (1..Len(log))
    BY <1>1
  <2>. QED
    BY <1>1, <2>1, LastInRange DEF HeadAt
<1>5. RecordAt(log, x) \in 0..Len(log)
  <2>1. P \in SUBSET (1..Len(log))
    BY <1>1
  <2>. QED
    BY <1>1, <2>1, LastInRange DEF RecordAt
<1>6. x \in DocsOf(log) => HeadAt(log, x) \in 1..Len(log)
  BY <1>1, <1>4 DEF DocsOf
<1>7. HeadRev(log, x) \in RevId \cup {NoRev}
  BY <1>1, <1>3, <1>4 DEF HeadRev
<1>8. HeadAt(log, x) # 0 => log[HeadAt(log, x)] \in Record
  BY <1>1, <1>2, <1>4
<1>9. DocAt(log, x) \in RevId \cup {NoDoc}
  BY <1>1, <1>3, <1>5 DEF DocAt
<1>10. RevsOf(log) \subseteq RevId /\ DocsOf(log) \subseteq RevId
  BY <1>1, <1>3 DEF RevsOf, DocsOf
<1>. QED
  BY <1>4, <1>6, <1>7, <1>8, <1>9, <1>10

(* Appending a record keeps the log below it. *)
LEMMA AppendIsLog ==
  ASSUME NEW S, NEW log \in Seq(S), NEW r \in S
  PROVE  /\ Append(log, r) \in Seq(S)
         /\ Len(Append(log, r)) = Len(log) + 1
         /\ Append(log, r)[Len(log) + 1] = r
         /\ \A i \in 1..Len(log) : Append(log, r)[i] = log[i]
         /\ \A n \in 0..Len(log) : SubSeq(Append(log, r), 1, n) = SubSeq(log, 1, n)
<1>1. Len(log) \in Nat
  BY LenProperties
<1>2. /\ Append(log, r) \in Seq(S)
      /\ Len(Append(log, r)) = Len(log) + 1
      /\ Append(log, r)[Len(log) + 1] = r
      /\ \A i \in 1..Len(log) : Append(log, r)[i] = log[i]
  BY <1>1, AppendProperties
<1>3. ASSUME NEW n \in 0..Len(log)
      PROVE  SubSeq(Append(log, r), 1, n) = SubSeq(log, 1, n)
  <2>1. n \in 0..Len(Append(log, r))
    BY <1>1, <1>2
  <2>2. /\ SubSeq(log, 1, n) \in Seq(S) /\ Len(SubSeq(log, 1, n)) = n
        /\ \A i \in 1..n : SubSeq(log, 1, n)[i] = log[i]
    BY PrefixIsLog
  <2>3. /\ SubSeq(Append(log, r), 1, n) \in Seq(S) /\ Len(SubSeq(Append(log, r), 1, n)) = n
        /\ \A i \in 1..n : SubSeq(Append(log, r), 1, n)[i] = Append(log, r)[i]
    BY <1>2, <2>1, PrefixIsLog
  <2>. QED
    BY <1>1, <1>2, <2>2, <2>3, SeqEqual
<1>. QED
  BY <1>2, <1>3

(* The whole of a log, and a prefix of a prefix. *)
LEMMA PrefixOfPrefix ==
  ASSUME NEW S, NEW log \in Seq(S), NEW n \in 0..Len(log), NEW m \in 0..n
  PROVE  /\ SubSeq(SubSeq(log, 1, n), 1, m) = SubSeq(log, 1, m)
         /\ SubSeq(log, 1, Len(log)) = log
<1>1. Len(log) \in Nat
  BY LenProperties
<1>2. m \in 0..Len(log) /\ Len(log) \in 0..Len(log)
  BY <1>1
<1>3. /\ SubSeq(log, 1, n) \in Seq(S) /\ Len(SubSeq(log, 1, n)) = n
      /\ \A i \in 1..n : SubSeq(log, 1, n)[i] = log[i]
  BY PrefixIsLog
<1>4. /\ SubSeq(log, 1, m) \in Seq(S) /\ Len(SubSeq(log, 1, m)) = m
      /\ \A i \in 1..m : SubSeq(log, 1, m)[i] = log[i]
  BY <1>2, PrefixIsLog
<1>5. m \in 0..Len(SubSeq(log, 1, n))
  BY <1>3
<1>6. /\ SubSeq(SubSeq(log, 1, n), 1, m) \in Seq(S)
      /\ Len(SubSeq(SubSeq(log, 1, n), 1, m)) = m
      /\ \A i \in 1..m : SubSeq(SubSeq(log, 1, n), 1, m)[i] = SubSeq(log, 1, n)[i]
  BY <1>3, <1>5, PrefixIsLog
<1>7. \A i \in 1..m : i \in 1..n
  BY <1>1
<1>8. SubSeq(SubSeq(log, 1, n), 1, m) = SubSeq(log, 1, m)
  BY <1>3, <1>4, <1>6, <1>7, SeqEqual
<1>9. /\ SubSeq(log, 1, Len(log)) \in Seq(S) /\ Len(SubSeq(log, 1, Len(log))) = Len(log)
      /\ \A i \in 1..Len(log) : SubSeq(log, 1, Len(log))[i] = log[i]
  BY <1>2, PrefixIsLog
<1>10. SubSeq(log, 1, Len(log)) = log
  BY <1>9, SeqEqual
<1>. QED
  BY <1>8, <1>10

(* A prefix of a chained log is chained. *)
LEMMA PrefixChained ==
  ASSUME NEW log \in Seq(Record), NEW n \in 0..Len(log), Chained(log)
  PROVE  Chained(SubSeq(log, 1, n))
<1> DEFINE short == SubSeq(log, 1, n)
<1>1. Len(log) \in Nat /\ DOMAIN log = 1..Len(log)
  BY LenProperties
<1>2. short \in Seq(Record) /\ Len(short) = n /\ \A i \in 1..n : short[i] = log[i]
  BY PrefixIsLog
<1>3. DOMAIN short = 1..n
  BY <1>2, LenProperties
<1>4. SUFFICES ASSUME NEW i \in 1..n
               PROVE  short[i].parent = HeadRev(SubSeq(short, 1, i - 1), short[i].doc)
  BY <1>3 DEF Chained
<1>5. i \in DOMAIN log /\ i - 1 \in 0..n
  BY <1>1
<1>6. SubSeq(short, 1, i - 1) = SubSeq(log, 1, i - 1)
  BY <1>5, PrefixOfPrefix
<1>7. log[i].parent = HeadRev(SubSeq(log, 1, i - 1), log[i].doc)
  BY <1>5 DEF Chained
<1>. QED
  BY <1>2, <1>6, <1>7

(* A chained log stays chained when its next record names the head. *)
LEMMA AppendChained ==
  ASSUME NEW log \in Seq(Record), NEW r \in Record, Chained(log),
         r.parent = HeadRev(log, r.doc)
  PROVE  Chained(Append(log, r))
<1> DEFINE long == Append(log, r)
<1>1. Len(log) \in Nat /\ DOMAIN log = 1..Len(log)
  BY LenProperties
<1>2. /\ long \in Seq(Record)
      /\ Len(long) = Len(log) + 1
      /\ long[Len(log) + 1] = r
      /\ \A i \in 1..Len(log) : long[i] = log[i]
      /\ \A n \in 0..Len(log) : SubSeq(long, 1, n) = SubSeq(log, 1, n)
  BY AppendIsLog
<1>3. DOMAIN long = 1..(Len(log) + 1)
  BY <1>2, LenProperties
<1>4. SUFFICES ASSUME NEW i \in 1..(Len(log) + 1)
               PROVE  long[i].parent = HeadRev(SubSeq(long, 1, i - 1), long[i].doc)
  BY <1>3 DEF Chained
<1>5. i - 1 \in 0..Len(log)
  BY <1>1
<1>6. SubSeq(long, 1, i - 1) = SubSeq(log, 1, i - 1)
  BY <1>2, <1>5
<1>7. CASE i = Len(log) + 1
  <2>1. SubSeq(log, 1, i - 1) = log
    BY <1>1, <1>5, <1>7, PrefixOfPrefix
  <2>. QED
    BY <1>2, <1>6, <1>7, <2>1
<1>8. CASE i \in 1..Len(log)
  <2>1. log[i].parent = HeadRev(SubSeq(log, 1, i - 1), log[i].doc)
    BY <1>1, <1>8 DEF Chained
  <2>. QED
    BY <1>2, <1>6, <1>8, <2>1
<1>. QED
  BY <1>1, <1>7, <1>8

(* The revisions of a prefix of a log are revisions of the log. *)
LEMMA PrefixRevs ==
  ASSUME NEW log \in Seq(Record), NEW n \in 0..Len(log)
  PROVE  RevsOf(SubSeq(log, 1, n)) \subseteq RevsOf(log)
<1>1. Len(log) \in Nat /\ DOMAIN log = 1..Len(log)
  BY LenProperties
<1>2. /\ SubSeq(log, 1, n) \in Seq(Record)
      /\ Len(SubSeq(log, 1, n)) = n
      /\ \A i \in 1..n : SubSeq(log, 1, n)[i] = log[i]
  BY PrefixIsLog
<1>3. DOMAIN SubSeq(log, 1, n) = 1..n
  BY <1>2, LenProperties
<1>4. \A i \in 1..n : i \in 1..Len(log)
  BY <1>1
<1>. QED
  BY <1>1, <1>2, <1>3, <1>4 DEF RevsOf

(* Appending a record adds its revision to those of the log. *)
LEMMA AppendRevs ==
  ASSUME NEW log \in Seq(Record), NEW r \in Record
  PROVE  RevsOf(Append(log, r)) = RevsOf(log) \cup {r.rev}
<1>1. Len(log) \in Nat /\ DOMAIN log = 1..Len(log)
  BY LenProperties
<1>2. /\ Append(log, r) \in Seq(Record)
      /\ Len(Append(log, r)) = Len(log) + 1
      /\ Append(log, r)[Len(log) + 1] = r
      /\ \A i \in 1..Len(log) : Append(log, r)[i] = log[i]
  BY AppendIsLog
<1>3. DOMAIN Append(log, r) = 1..(Len(log) + 1)
  BY <1>2, LenProperties
<1>4. RevsOf(Append(log, r)) \subseteq RevsOf(log) \cup {r.rev}
  <2>1. \A i \in 1..(Len(log) + 1) : i \in 1..Len(log) \/ i = Len(log) + 1
    BY <1>1
  <2>. QED
    BY <1>1, <1>2, <1>3, <2>1 DEF RevsOf
<1>5. RevsOf(log) \cup {r.rev} \subseteq RevsOf(Append(log, r))
  <2>1. Len(log) + 1 \in 1..(Len(log) + 1) /\ \A i \in 1..Len(log) : i \in 1..(Len(log) + 1)
    BY <1>1
  <2>. QED
    BY <1>1, <1>2, <1>3, <2>1 DEF RevsOf
<1>. QED
  BY <1>4, <1>5

(* The greatest element of a set of positions is its last one. *)
LEMMA LastIs ==
  ASSUME NEW n \in Nat, NEW S \in SUBSET (1..n), NEW m \in S, \A j \in S : j <= m
  PROVE  Last(S) = m
<1>1. Last(S) \in S /\ \A j \in S : j <= Last(S)
  BY LastIsGreatest
<1>2. Last(S) \in Nat /\ m \in Nat /\ Last(S) <= m /\ m <= Last(S)
  <2>1. \A j \in S : j \in Nat
    OBVIOUS
  <2>. QED
    BY <1>1, <2>1
<1>. QED
  BY <1>2

(* Where the head of a document and the last record of a path are. *)
LEMMA LastRecord ==
  ASSUME NEW log \in Seq(Record), NEW x
  PROVE  /\ HeadAt(log, x) \in 0..Len(log)
         /\ HeadAt(log, x) # 0 => log[HeadAt(log, x)].doc = x
         /\ HeadAt(log, x) = 0 => \A i \in DOMAIN log : log[i].doc # x
         /\ RecordAt(log, x) \in 0..Len(log)
         /\ RecordAt(log, x) # 0 => log[RecordAt(log, x)].path = x
         /\ RecordAt(log, x) = 0 => \A i \in DOMAIN log : log[i].path # x
<1>1. Len(log) \in Nat /\ DOMAIN log = 1..Len(log)
  BY LenProperties
<1>. DEFINE H == {i \in DOMAIN log : log[i].doc = x}
            P == {i \in DOMAIN log : log[i].path = x}
<1>2. H \in SUBSET (1..Len(log)) /\ P \in SUBSET (1..Len(log))
  BY <1>1
<1>3. /\ Last(H) \in 0..Len(log) /\ (H = {} => Last(H) = 0) /\ (H # {} => Last(H) \in H)
      /\ Last(P) \in 0..Len(log) /\ (P = {} => Last(P) = 0) /\ (P # {} => Last(P) \in P)
  BY <1>1, <1>2, LastInRange
<1>4. HeadAt(log, x) = Last(H) /\ RecordAt(log, x) = Last(P)
  BY DEF HeadAt, RecordAt
<1>5. \A i \in H \cup P : i # 0
  BY <1>1
<1>. QED
  BY <1>1, <1>3, <1>4, <1>5

(* A record that is appended becomes the head of its document and the last *)
(* record of its path, and changes no other.                               *)
LEMMA AppendLast ==
  ASSUME NEW log \in Seq(Record), NEW r \in Record, NEW x
  PROVE  /\ HeadAt(Append(log, r), x) = IF x = r.doc THEN Len(log) + 1 ELSE HeadAt(log, x)
         /\ RecordAt(Append(log, r), x) = IF x = r.path THEN Len(log) + 1 ELSE RecordAt(log, x)
<1>. DEFINE long == Append(log, r)
            n    == Len(log) + 1
<1>1. Len(log) \in Nat /\ DOMAIN log = 1..Len(log) /\ n \in Nat
  BY LenProperties
<1>2. /\ long \in Seq(Record) /\ Len(long) = n /\ long[n] = r
      /\ \A i \in 1..Len(log) : long[i] = log[i]
  BY AppendIsLog
<1>3. DOMAIN long = 1..n /\ \A i \in 1..n : i \in 1..Len(log) \/ i = n
  BY <1>1, <1>2, LenProperties
<1>. HIDE DEF long
<1>4. n \in 1..n /\ \A i \in 1..n : i <= n
  BY <1>1
<1>5. HeadAt(long, x) = IF x = r.doc THEN n ELSE HeadAt(log, x)
  <2>. DEFINE S == {i \in DOMAIN long : long[i].doc = x}
  <2>1. CASE x = r.doc
    <3>1. S \in SUBSET (1..n) /\ n \in S /\ \A j \in S : j <= n
      BY <1>2, <1>3, <1>4, <2>1
    <3>2. Last(S) = n
      BY <1>1, <3>1, LastIs
    <3>. QED
      BY <2>1, <3>2 DEF HeadAt
  <2>2. CASE x # r.doc
    <3>1. S = {i \in DOMAIN log : log[i].doc = x}
      BY <1>1, <1>2, <1>3, <2>2
    <3>. QED
      BY <2>2, <3>1 DEF HeadAt
  <2>. QED
    BY <2>1, <2>2
<1>6. RecordAt(long, x) = IF x = r.path THEN n ELSE RecordAt(log, x)
  <2>. DEFINE S == {i \in DOMAIN long : long[i].path = x}
  <2>1. CASE x = r.path
    <3>1. S \in SUBSET (1..n) /\ n \in S /\ \A j \in S : j <= n
      BY <1>2, <1>3, <1>4, <2>1
    <3>2. Last(S) = n
      BY <1>1, <3>1, LastIs
    <3>. QED
      BY <2>1, <3>2 DEF RecordAt
  <2>2. CASE x # r.path
    <3>1. S = {i \in DOMAIN log : log[i].path = x}
      BY <1>1, <1>2, <1>3, <2>2
    <3>. QED
      BY <2>2, <3>1 DEF RecordAt
  <2>. QED
    BY <2>1, <2>2
<1>. QED
  BY <1>5, <1>6 DEF long

(* What the index derives from a log that has grown by a record. *)
LEMMA AppendIndex ==
  ASSUME NEW log \in Seq(Record), NEW r \in Record, NEW x
  PROVE  /\ HeadRev(Append(log, r), x) = IF x = r.doc THEN r.rev ELSE HeadRev(log, x)
         /\ DocAt(Append(log, r), x) = IF x = r.path THEN r.doc ELSE DocAt(log, x)
<1>1. Len(log) \in Nat
  BY LenProperties
<1>2. /\ Append(log, r)[Len(log) + 1] = r
      /\ \A i \in 1..Len(log) : Append(log, r)[i] = log[i]
  BY AppendIsLog
<1>3. HeadAt(log, x) \in 0..Len(log) /\ RecordAt(log, x) \in 0..Len(log)
  BY LastRecord
<1>4. \A i \in 0..Len(log) : i # 0 => i \in 1..Len(log)
  BY <1>1
<1>5. Len(log) + 1 # 0
  BY <1>1
<1>6. /\ HeadAt(Append(log, r), x) = IF x = r.doc THEN Len(log) + 1 ELSE HeadAt(log, x)
      /\ RecordAt(Append(log, r), x) = IF x = r.path THEN Len(log) + 1 ELSE RecordAt(log, x)
  BY AppendLast
<1>7. HeadRev(Append(log, r), x) = IF x = r.doc THEN r.rev ELSE HeadRev(log, x)
  BY <1>2, <1>3, <1>4, <1>5, <1>6 DEF HeadRev
<1>8. DocAt(Append(log, r), x) = IF x = r.path THEN r.doc ELSE DocAt(log, x)
  BY <1>2, <1>3, <1>4, <1>5, <1>6 DEF DocAt
<1>. QED
  BY <1>7, <1>8

(* Each revision is in a log once. *)
OneEach(log) == \A i, j \in DOMAIN log : log[i].rev = log[j].rev => i = j

(* No two revisions of a document follow the same one: there is no fork,   *)
(* and no lost update, in what the log records.                            *)
Unforked(log) ==
  \A i, j \in DOMAIN log : log[i].doc = log[j].doc /\ log[i].parent = log[j].parent => i = j

LEMMA PrefixOneEach ==
  ASSUME NEW log \in Seq(Record), NEW n \in 0..Len(log), OneEach(log)
  PROVE  OneEach(SubSeq(log, 1, n))
<1>1. Len(log) \in Nat /\ DOMAIN log = 1..Len(log)
  BY LenProperties
<1>2. /\ SubSeq(log, 1, n) \in Seq(Record) /\ Len(SubSeq(log, 1, n)) = n
      /\ \A i \in 1..n : SubSeq(log, 1, n)[i] = log[i]
  BY PrefixIsLog
<1>3. DOMAIN SubSeq(log, 1, n) = 1..n /\ 1..n \subseteq DOMAIN log
  BY <1>1, <1>2, LenProperties
<1>. QED
  BY <1>2, <1>3 DEF OneEach

LEMMA AppendOneEach ==
  ASSUME NEW log \in Seq(Record), NEW r \in Record, OneEach(log), r.rev \notin RevsOf(log)
  PROVE  OneEach(Append(log, r))
<1>1. Len(log) \in Nat /\ DOMAIN log = 1..Len(log)
  BY LenProperties
<1>2. /\ Append(log, r) \in Seq(Record) /\ Len(Append(log, r)) = Len(log) + 1
      /\ Append(log, r)[Len(log) + 1] = r
      /\ \A i \in 1..Len(log) : Append(log, r)[i] = log[i]
  BY AppendIsLog
<1>3. DOMAIN Append(log, r) = 1..(Len(log) + 1)
  BY <1>2, LenProperties
<1>4. \A i \in DOMAIN Append(log, r) : i \in DOMAIN log \/ i = Len(log) + 1
  BY <1>1, <1>3
<1>5. \A i \in DOMAIN log : log[i].rev # r.rev
  BY DEF RevsOf
<1>. QED
  BY <1>1, <1>2, <1>4, <1>5 DEF OneEach

(* What the parent of a record says of the records before it: there is     *)
(* none of its document, or the parent is the last of them.                *)
LEMMA ParentIsBefore ==
  ASSUME NEW log \in Seq(Record), Chained(log), NEW i \in DOMAIN log
  PROVE  \/ /\ log[i].parent = NoRev
            /\ \A j \in DOMAIN log : j < i => log[j].doc # log[i].doc
         \/ \E k \in DOMAIN log :
              /\ k < i /\ log[k].rev = log[i].parent
              /\ \A j \in DOMAIN log : j < i /\ log[j].doc = log[i].doc => j <= k
<1>. DEFINE before == SubSeq(log, 1, i - 1)
            d      == log[i].doc
            H      == {j \in DOMAIN before : before[j].doc = d}
<1>1. Len(log) \in Nat /\ DOMAIN log = 1..Len(log) /\ i - 1 \in 0..Len(log)
  BY LenProperties
<1>2. /\ before \in Seq(Record) /\ Len(before) = i - 1
      /\ \A j \in 1..(i - 1) : before[j] = log[j]
  BY <1>1, PrefixIsLog
<1>3. DOMAIN before = 1..(i - 1)
  BY <1>2, LenProperties
<1>4. log[i].parent = HeadRev(before, d)
  BY DEF Chained
<1>5. HeadAt(before, d) = Last(H)
  BY DEF HeadAt
<1>6. H \in SUBSET (1..(i - 1))
  BY <1>3
<1>7. \A j \in DOMAIN log : j < i => j \in 1..(i - 1)
  BY <1>1
<1>8. CASE H = {}
  <2>1. HeadAt(before, d) = 0
    BY <1>1, <1>5, <1>6, <1>8, LastInRange
  <2>2. log[i].parent = NoRev
    BY <1>4, <2>1 DEF HeadRev
  <2>3. \A j \in DOMAIN log : j < i => log[j].doc # d
    BY <1>2, <1>3, <1>7, <1>8
  <2>. QED
    BY <2>2, <2>3
<1>9. CASE H # {}
  <2>. HIDE DEF H
  <2>0. i - 1 \in Nat
    BY <1>1
  <2>1. Last(H) \in H /\ \A j \in H : j <= Last(H)
    BY <1>6, <1>9, <2>0, LastIsGreatest
  <2>2. Last(H) \in 1..(i - 1)
    BY <1>6, <2>1
  <2>3. Last(H) \in DOMAIN log /\ Last(H) < i /\ Last(H) # 0
    BY <1>1, <2>2
  <2>4. before[Last(H)] = log[Last(H)]
    BY <1>2, <2>2
  <2>5. log[Last(H)].rev = log[i].parent
    BY <1>4, <1>5, <2>3, <2>4 DEF HeadRev
  <2>6. \A j \in DOMAIN log : j < i /\ log[j].doc = d => j \in H
    BY <1>2, <1>3, <1>7 DEF H
  <2>. QED
    BY <2>1, <2>3, <2>5, <2>6
<1>. QED
  BY <1>8, <1>9

(* A chained log in which each revision is once has no forks. *)
LEMMA ChainsDoNotFork ==
  ASSUME NEW log \in Seq(Record), Chained(log), OneEach(log)
  PROVE  Unforked(log)
<1>1. Len(log) \in Nat /\ DOMAIN log = 1..Len(log)
  BY LenProperties
<1>2. \A k \in DOMAIN log : log[k].rev # NoRev
  <2>1. \A k \in DOMAIN log : log[k] \in Record
    BY <1>1, ElementOfSeq
  <2>. QED
    BY <2>1, MaxRevsAssumption DEF Record, RevId, NoRev
<1>3. ASSUME NEW i \in DOMAIN log, NEW j \in DOMAIN log, i < j,
             log[i].doc = log[j].doc, log[i].parent = log[j].parent
      PROVE  FALSE
  <2>1. PICK k \in DOMAIN log :
          /\ k < j /\ log[k].rev = log[j].parent
          /\ \A m \in DOMAIN log : m < j /\ log[m].doc = log[j].doc => m <= k
    BY <1>3, ParentIsBefore
  <2>2. i <= k
    BY <1>3, <2>1
  <2>3. PICK m \in DOMAIN log : m < i /\ log[m].rev = log[i].parent
    BY <1>2, <1>3, <2>1, ParentIsBefore
  <2>4. m = k
    BY <1>3, <2>1, <2>3 DEF OneEach
  <2>. QED
    BY <1>1, <2>2, <2>3, <2>4
<1>4. \A i, j \in DOMAIN log : i = j \/ i < j \/ j < i
  BY <1>1
<1>. QED
  BY <1>3, <1>4 DEF Unforked
==============================================================================
