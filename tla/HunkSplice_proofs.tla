-------------------------- MODULE HunkSplice_proofs --------------------------
(***************************************************************************)
(* HunkSplice for bases, hunk lists and selections of any length.          *)
(*                                                                         *)
(* Two facts carry the argument.  The check of neighbours at creation puts *)
(* every hunk behind all earlier ones (FollowsAll).  And the loop keeps    *)
(* what it has written complete up to the cursor, in place, and behind the *)
(* cursor all hunks it has dealt with (Written).                           *)
(***************************************************************************)
EXTENDS HunkSplice, SequenceTheorems, WellFoundedInduction, TLAPS

Handled == {sel[i] : i \in 1..(k - 1)}

Written ==
  /\ Members(out) = {<<l, Base>> : l \in {m \in 0..(cursor - 1) : \A i \in Handled : ~Deletes(hunks[i], m)}}
                    \cup {<<hunks[i].start, i>> : i \in {j \in Handled : hunks[j].ins}}
  /\ InPlace(out)
  /\ cursor \in 0..lines
  /\ \A i \in Handled : hunks[i].start + hunks[i].del <= cursor
  /\ k = 1 => cursor = 0
  /\ k > 1 => cursor = hunks[sel[k - 1]].start + hunks[sel[k - 1]].del

HInv ==
  /\ HTypeOK /\ NeverPanics /\ SpliceCorrect
  /\ pc \in {"idle", "open"} => sel = <<>> /\ k = 1 /\ cursor = 0 /\ out = <<>>
  /\ pc # "idle" => Valid(hunks, lines)
  /\ pc = "splice" => Increasing(sel) /\ Written

-------------------------------------------------------------------------------
(* Lists.                                                                  *)

LEMMA ListDomain ==
  ASSUME NEW S, NEW s \in Seq(S)
  PROVE  Len(s) \in Nat /\ DOMAIN s = 1..Len(s) /\ \A i \in 1..Len(s) : s[i] \in S
BY LenProperties, ElementOfSeq

LEMMA ListsAreSeqs ==
  ASSUME NEW S, NEW n \in Nat, NEW s \in Lists(S, n)
  PROVE  s \in Seq(S) /\ Len(s) <= n
<1>1. PICK m \in 0..n : s \in [1..m -> S]
  BY DEF Lists
<1>2. m \in Nat
  OBVIOUS
<1>3. s \in Seq(S)
  BY <1>1, <1>2, SeqDef
<1>4. Len(s) \in Nat /\ DOMAIN s = 1..Len(s) /\ DOMAIN s = 1..m
  BY <1>1, <1>3, LenProperties
<1> QED BY <1>2, <1>3, <1>4

(* Of two lists in place, one behind the other. *)
LEMMA ConcatInPlace ==
  ASSUME NEW a \in Seq(Piece), NEW b \in Seq(Piece), InPlace(a), InPlace(b),
         \A x \in Members(a), y \in Members(b) : Before(x, y)
  PROVE  a \o b \in Seq(Piece) /\ InPlace(a \o b) /\ Members(a \o b) = Members(a) \cup Members(b)
<1> DEFINE c == a \o b
<1>1. /\ Len(a) \in Nat /\ Len(b) \in Nat /\ DOMAIN a = 1..Len(a) /\ DOMAIN b = 1..Len(b)
      /\ c \in Seq(Piece) /\ DOMAIN c = 1..(Len(a) + Len(b))
      /\ \A i \in 1..(Len(a) + Len(b)) : c[i] = IF i <= Len(a) THEN a[i] ELSE b[i - Len(a)]
  BY ConcatProperties, LenProperties
<1> HIDE DEF c
<1>2. \A i \in DOMAIN c : (i \in DOMAIN a /\ c[i] = a[i]) \/ (i - Len(a) \in DOMAIN b /\ c[i] = b[i - Len(a)] /\ i > Len(a))
  BY <1>1
<1>3. InPlace(c)
  <2> SUFFICES ASSUME NEW i \in DOMAIN c, NEW j \in DOMAIN c, i < j PROVE Before(c[i], c[j])
    BY DEF InPlace
  <2>1. i \in Int /\ j \in Int
    BY <1>1
  <2>2. CASE i \in DOMAIN a /\ j \in DOMAIN a
    BY <1>1, <2>2 DEF InPlace
  <2>3. CASE i \in DOMAIN a /\ j \notin DOMAIN a
    BY <1>2, <1>1, <2>3 DEF Members
  <2>4. CASE i \notin DOMAIN a
    <3>1. /\ i - Len(a) \in DOMAIN b /\ c[i] = b[i - Len(a)]
          /\ j - Len(a) \in DOMAIN b /\ c[j] = b[j - Len(a)]
          /\ i - Len(a) < j - Len(a)
      BY <1>1, <1>2, <2>1, <2>4
    <3> QED BY <3>1 DEF InPlace
  <2> QED BY <2>2, <2>3, <2>4
<1>4. Members(c) = Members(a) \cup Members(b)
  <2>1. Members(c) \subseteq Members(a) \cup Members(b)
    BY <1>2 DEF Members
  <2>2. \A i \in DOMAIN a : i \in DOMAIN c /\ c[i] = a[i]
    BY <1>1
  <2>3. \A i \in DOMAIN b : Len(a) + i \in DOMAIN c /\ c[Len(a) + i] = b[i]
    BY <1>1
  <2>4. Members(a) \subseteq Members(c)
    BY <2>2 DEF Members
  <2>5. Members(b) \subseteq Members(c)
    BY <2>3 DEF Members
  <2> QED BY <2>1, <2>4, <2>5
<1> QED BY <1>1, <1>3, <1>4 DEF c

(* A slice of the base. *)
LEMMA LinesInPlace ==
  ASSUME NEW from \in Nat, NEW to \in Nat, from <= to, to <= MaxLines
  PROVE  /\ Lines(from, to) \in Seq(Piece) /\ InPlace(Lines(from, to))
         /\ Members(Lines(from, to)) = {<<l, Base>> : l \in from..(to - 1)}
<1> DEFINE s == Lines(from, to)
<1>1. to - from \in Nat /\ DOMAIN s = 1..(to - from)
      /\ \A i \in 1..(to - from) : s[i] = <<from + i - 1, Base>> /\ from + i - 1 \in from..(to - 1)
  BY DEF Lines
<1>2. \A l \in from..(to - 1) : <<l, Base>> \in Piece
  BY HunkAssumption DEF Piece, Base
<1>3. s \in [1..(to - from) -> Piece]
  BY <1>1, <1>2 DEF Lines
<1>4. s \in Seq(Piece)
  BY <1>1, <1>3, SeqDef
<1>5. InPlace(s)
  BY <1>1 DEF InPlace, Before
<1>6. Members(s) = {<<l, Base>> : l \in from..(to - 1)}
  <2>1. \A l \in from..(to - 1) : l - from + 1 \in DOMAIN s /\ s[l - from + 1] = <<l, Base>>
    BY <1>1
  <2> HIDE DEF s
  <2> QED BY <1>1, <2>1 DEF Members
<1> QED BY <1>4, <1>5, <1>6

(* Every hunk of a list that was let in lies behind all before it. *)
LEMMA FollowsAll ==
  ASSUME NEW hs \in Seq(Hunk), NEW n \in 0..MaxLines, Valid(hs, n)
  PROVE  /\ \A i \in DOMAIN hs : /\ hs[i].start \in Nat /\ hs[i].del \in Nat
                                 /\ hs[i].start + hs[i].del <= n
         /\ \A i, j \in DOMAIN hs : i < j => hs[i].start + hs[i].del <= hs[j].start
<1>1. Len(hs) \in Nat /\ DOMAIN hs = 1..Len(hs)
      /\ \A i \in 1..Len(hs) : hs[i].start \in Nat /\ hs[i].del \in Nat
  <2>1. \A h \in Hunk : h.start \in Nat /\ h.del \in Nat
    BY HunkAssumption DEF Hunk
  <2> QED BY <2>1, ListDomain
<1>2. \A i \in DOMAIN hs : End(hs[i]) = hs[i].start + hs[i].del /\ hs[i].start + hs[i].del <= n
  BY <1>1, HunkAssumption DEF Valid, End
<1> DEFINE Bad == {j \in DOMAIN hs : \E i \in DOMAIN hs : i < j /\ ~(hs[i].start + hs[i].del <= hs[j].start)}
<1>3. Bad = {}
  <2> SUFFICES ASSUME Bad # {} PROVE FALSE
    OBVIOUS
  <2>1. Bad \in SUBSET Nat
    BY <1>1
  <2>2. IsWellFoundedOn(OpToRel(<, Nat), Nat)
    BY NatLessThanWellFounded
  <2>3. PICK j \in Bad : \A m \in Bad : <<m, j>> \notin OpToRel(<, Nat)
    BY <2>1, <2>2, WFMin
  <2>4. \A m \in Bad : ~(m < j)
    BY <2>1, <2>3 DEF OpToRel
  <2>5. PICK i \in DOMAIN hs : i < j /\ ~(hs[i].start + hs[i].del <= hs[j].start)
    OBVIOUS
  <2>6. j \in DOMAIN hs
    OBVIOUS
  <2>7. j \in 2..Len(hs) /\ j - 1 \in DOMAIN hs /\ i \in 1..(j - 1) /\ j \in DOMAIN hs \ {1}
    <3>1. i \in 1..Len(hs) /\ j \in 1..Len(hs) /\ i < j
      BY <1>1, <2>5, <2>6
    <3> HIDE DEF Bad
    <3> QED BY <1>1, <3>1
  <2>8. hs[j - 1].start + hs[j - 1].del <= hs[j].start
    <3>1. hs[j].start >= End(hs[j - 1])
      BY <2>7 DEF Valid, Follows
    <3>2. End(hs[j - 1]) = hs[j - 1].start + hs[j - 1].del
      BY <1>2, <2>7
    <3> QED BY <1>1, <2>7, <3>1, <3>2
  <2>9. CASE i = j - 1
    BY <2>5, <2>8, <2>9
  <2>10. CASE i # j - 1
    <3>1. j - 1 \notin Bad
      BY <2>4, <2>7
    <3>2. hs[i].start + hs[i].del <= hs[j - 1].start
      BY <3>1, <2>7, <2>10
    <3>3. /\ hs[i].start \in Nat /\ hs[i].del \in Nat /\ hs[j].start \in Nat
          /\ hs[j - 1].start \in Nat /\ hs[j - 1].del \in Nat
      BY <1>1, <2>7
    <3>4. hs[i].start + hs[i].del <= hs[j].start
      <4> HIDE DEF Bad
      <4> QED BY <2>7, <2>8, <3>2, <3>3
    <3> QED BY <2>5, <3>4
  <2> QED BY <2>9, <2>10
<1> QED BY <1>1, <1>2, <1>3

-------------------------------------------------------------------------------
(* Steps.                                                                  *)

LEMMA InitHunks ==
  ASSUME Init
  PROVE  HInv
<1>1. <<>> \in Seq(Hunk) /\ <<>> \in Seq(1..Len(hunks)) /\ <<>> \in Seq(Piece) /\ Len(<<>>) = 0
  OBVIOUS
<1>2. HTypeOK
  BY <1>1, HunkAssumption DEF Init, HTypeOK
<1> QED BY <1>2 DEF Init, HInv, NeverPanics, SpliceCorrect

LEMMA ProposeStep ==
  ASSUME HInv, Propose
  PROVE  HInv'
<1>1. PICK n \in 0..MaxLines, hs \in Lists(Hunk, MaxHunks) :
        Valid(hs, n) /\ lines' = n /\ hunks' = hs
  BY DEF Propose
<1>2. pc = "idle" /\ pc' = "open" /\ UNCHANGED <<sel, k, cursor, out>>
  BY DEF Propose
<1>3. hs \in Seq(Hunk) /\ Len(hs) <= MaxHunks
  BY HunkAssumption, ListsAreSeqs
<1>4. sel = <<>> /\ k = 1 /\ cursor = 0 /\ out = <<>>
  BY <1>2 DEF HInv
<1>5. HTypeOK'
  <2>1. <<>> \in Seq(1..Len(hs)) /\ Len(<<>>) = 0
    OBVIOUS
  <2>2. hunks' \in Seq(Hunk) /\ Len(hunks') <= MaxHunks /\ sel' \in Seq(1..Len(hunks'))
    BY <1>1, <1>2, <1>3, <1>4, <2>1
  <2>3. k' \in 1..(Len(sel') + 1)
    BY <1>2, <1>4, <2>1
  <2> QED BY <1>1, <1>2, <2>2, <2>3 DEF HInv, HTypeOK
<1>6. Valid(hunks, lines)'
  BY <1>1 DEF Valid, Follows, End
<1> QED BY <1>2, <1>4, <1>5, <1>6 DEF HInv, NeverPanics, SpliceCorrect

LEMMA AcceptStep ==
  ASSUME HInv, Accept
  PROVE  HInv'
<1>1. PICK asked \in Lists(1..(MaxHunks + 1), MaxHunks) :
        /\ InRange(asked)
        /\ \E s \in Lists(Members(asked), Len(asked)) : Arranged(s, asked) /\ sel' = s
  BY DEF Accept
<1>2. PICK s \in Lists(Members(asked), Len(asked)) : Arranged(s, asked) /\ sel' = s
  BY <1>1
<1>3. pc = "open" /\ pc' = "splice" /\ UNCHANGED <<lines, hunks, k, cursor, out>>
  BY DEF Accept
<1>4. asked \in Seq(1..(MaxHunks + 1)) /\ Len(asked) \in Nat
  BY HunkAssumption, ListsAreSeqs, ListDomain
<1>5. s \in Seq(Members(asked))
  BY <1>4, ListsAreSeqs
<1>6. Members(asked) \subseteq 1..Len(hunks)
  <2>1. DOMAIN asked = 1..Len(asked) /\ \A i \in 1..Len(asked) : asked[i] \in 1..(MaxHunks + 1)
    BY <1>4, ListDomain
  <2>2. Len(hunks) \in Nat
    BY LenProperties DEF HInv, HTypeOK
  <2> QED BY <1>1, <2>1, <2>2, HunkAssumption DEF Members, InRange
<1>7. s \in Seq(1..Len(hunks)) /\ Len(s) \in Nat
  BY <1>5, <1>6, ListDomain, SeqDef
<1>8. k = 1 /\ cursor = 0 /\ out = <<>>
  BY <1>3 DEF HInv
<1>9. HTypeOK'
  BY <1>2, <1>3, <1>7, <1>8 DEF HInv, HTypeOK
<1>10. Handled' = {}
  BY <1>3, <1>8 DEF Handled
<1>11. Written'
  <2>1. Members(out') = {} /\ InPlace(out')
    BY <1>3, <1>8 DEF Members, InPlace
  <2>2. lines \in Nat
    BY HunkAssumption DEF HInv, HTypeOK
  <2>3. {<<l, Base>> : l \in {m \in 0..(cursor' - 1) : \A i \in Handled' : ~Deletes(hunks'[i], m)}} = {}
    BY <1>3, <1>8
  <2>4. {<<hunks'[i].start, i>> : i \in {j \in Handled' : hunks'[j].ins}} = {}
    BY <1>10
  <2> QED BY <1>3, <1>8, <1>10, <2>1, <2>2, <2>3, <2>4 DEF Written, InPlace
<1>12. Valid(hunks, lines)' /\ Increasing(sel)'
  BY <1>2, <1>3 DEF HInv, Valid, Follows, End, Arranged, Increasing
<1> QED BY <1>3, <1>9, <1>11, <1>12 DEF HInv, NeverPanics, SpliceCorrect

(* Where the loop stands: the next hunk is behind all it has dealt with.   *)
LEMMA LoopFacts ==
  ASSUME HInv, pc = "splice"
  PROVE  /\ lines \in 0..MaxLines /\ lines \in Nat /\ lines <= MaxLines /\ cursor \in Nat
         /\ hunks \in Seq(Hunk) /\ DOMAIN hunks = 1..Len(hunks)
         /\ Len(hunks) \in Nat /\ Len(hunks) <= MaxHunks
         /\ sel \in Seq(1..Len(hunks)) /\ Len(sel) \in Nat /\ DOMAIN sel = 1..Len(sel)
         /\ \A i \in 1..Len(sel) : sel[i] \in 1..Len(hunks)
         /\ k \in 1..(Len(sel) + 1) /\ out \in Seq(Piece)
         /\ Valid(hunks, lines) /\ Written
         /\ Handled \subseteq 1..Len(hunks)
         /\ \A i \in 1..Len(hunks) : /\ hunks[i].start \in Nat /\ hunks[i].del \in Nat
                                     /\ hunks[i].start + hunks[i].del <= lines
         /\ k <= Len(sel) =>
              /\ sel[k] \in 1..Len(hunks)
              /\ \A i \in Handled : i < sel[k]
              /\ cursor <= hunks[sel[k]].start
<1>1. /\ lines \in 0..MaxLines /\ hunks \in Seq(Hunk) /\ Len(hunks) <= MaxHunks
      /\ sel \in Seq(1..Len(hunks)) /\ k \in 1..(Len(sel) + 1) /\ out \in Seq(Piece)
      /\ Valid(hunks, lines) /\ Written /\ Increasing(sel)
  BY DEF HInv, HTypeOK
<1>2. /\ DOMAIN hunks = 1..Len(hunks) /\ Len(hunks) \in Nat
      /\ Len(sel) \in Nat /\ DOMAIN sel = 1..Len(sel)
      /\ \A i \in 1..Len(sel) : sel[i] \in 1..Len(hunks)
  BY <1>1, ListDomain
<1>3. Handled \subseteq 1..Len(hunks)
  BY <1>1, <1>2 DEF Handled
<1>4. /\ \A i \in 1..Len(hunks) : /\ hunks[i].start \in Nat /\ hunks[i].del \in Nat
                                  /\ hunks[i].start + hunks[i].del <= lines
      /\ \A i, j \in 1..Len(hunks) : i < j => hunks[i].start + hunks[i].del <= hunks[j].start
  BY <1>1, <1>2, FollowsAll
<1>5. ASSUME k <= Len(sel)
      PROVE  /\ sel[k] \in 1..Len(hunks)
             /\ \A i \in Handled : i < sel[k]
             /\ cursor <= hunks[sel[k]].start
  <2>1. k \in 1..Len(sel) /\ sel[k] \in 1..Len(hunks)
    BY <1>1, <1>2, <1>5
  <2>2. \A i \in 1..(k - 1) : sel[i] < sel[k]
    <3>1. \A i \in 1..(k - 1) : i \in 1..Len(sel) /\ i < k
      BY <1>2, <2>1
    <3> QED BY <1>1, <1>2, <2>1, <3>1 DEF Increasing
  <2>3. CASE k = 1
    BY <1>1, <1>4, <2>1, <2>2, <2>3 DEF Written, Handled
  <2>4. CASE k > 1
    <3>1. k - 1 \in 1..Len(sel) /\ sel[k - 1] < sel[k] /\ sel[k - 1] \in 1..Len(hunks)
      BY <1>2, <2>1, <2>2, <2>4
    <3>2. hunks[sel[k - 1]].start + hunks[sel[k - 1]].del <= hunks[sel[k]].start
      BY <1>4, <2>1, <3>1
    <3> QED BY <1>1, <2>1, <2>2, <2>4, <3>2 DEF Written, Handled
  <2> QED BY <2>1, <2>3, <2>4
<1>6. lines \in Nat /\ lines <= MaxLines /\ cursor \in Nat
  <2>1. lines \in Nat /\ lines <= MaxLines
    BY <1>1, HunkAssumption
  <2> QED BY <1>1, <2>1 DEF Written
<1> QED BY <1>1, <1>2, <1>3, <1>4, <1>5, <1>6

(* What has been written lies before the rest of the base. *)
LEMMA WrittenIsBehind ==
  ASSUME HInv, pc = "splice"
  PROVE  \A x \in Members(out) :
           \/ x[1] \in Nat /\ x[1] < cursor
           \/ x[1] = cursor /\ x[2] \in Handled /\ x[2] < Base
<1>1. /\ Handled \subseteq 1..Len(hunks) /\ Len(hunks) \in Nat /\ Len(hunks) <= MaxHunks
      /\ \A i \in 1..Len(hunks) : hunks[i].start \in Nat /\ hunks[i].del \in Nat
      /\ Written /\ cursor \in Nat
  BY LoopFacts
<1>2. ASSUME NEW i \in Handled
      PROVE  i \in Nat /\ i < Base /\ hunks[i].start \in Nat /\ hunks[i].start <= cursor
  <2>1. i \in 1..Len(hunks) /\ hunks[i].start + hunks[i].del <= cursor
    BY <1>1 DEF Written
  <2> QED BY <1>1, <2>1, HunkAssumption DEF Base
<1>3. ASSUME NEW x \in Members(out)
      PROVE  \/ x[1] \in Nat /\ x[1] < cursor
             \/ x[1] = cursor /\ x[2] \in Handled /\ x[2] < Base
  <2>1. CASE x \in {<<l, Base>> : l \in {m \in 0..(cursor - 1) : \A i \in Handled : ~Deletes(hunks[i], m)}}
    BY <1>1, <2>1
  <2>2. CASE x \in {<<hunks[i].start, i>> : i \in {j \in Handled : hunks[j].ins}}
    <3>1. PICK i \in Handled : x = <<hunks[i].start, i>>
      BY <2>2
    <3> QED BY <1>1, <1>2, <3>1
  <2> QED BY <1>1, <2>1, <2>2 DEF Written
<1> QED BY <1>3

LEMMA SpliceStep ==
  ASSUME HInv, Splice
  PROVE  HInv'
<1> DEFINE i == sel[k]
<1> DEFINE h == hunks[i]
<1> DEFINE a == out \o Lines(cursor, h.start)
<1>1. pc = "splice" /\ k <= Len(sel) /\ k \in 1..Len(sel)
  BY LoopFacts DEF Splice
<1>2. /\ lines \in Nat /\ lines <= MaxLines /\ MaxLines \in Nat /\ MaxHunks \in Nat
      /\ cursor \in Nat /\ Len(hunks) \in Nat /\ Len(hunks) <= MaxHunks
      /\ Len(sel) \in Nat /\ k \in 1..(Len(sel) + 1) /\ out \in Seq(Piece)
      /\ Written /\ Handled \subseteq 1..Len(hunks)
      /\ i \in 1..Len(hunks) /\ (\A j \in Handled : j < i) /\ cursor <= h.start
      /\ h.start \in Nat /\ h.del \in Nat /\ h.start + h.del <= lines
      /\ cursor \in 0..lines
  BY <1>1, LoopFacts, HunkAssumption DEF Written
<1>3. Sliceable(cursor, h.start)
  BY <1>2 DEF Sliceable
<1>4. /\ out' = a \o Text(i) /\ cursor' = h.start + h.del /\ k' = k + 1
      /\ UNCHANGED <<pc, lines, hunks, sel>>
  BY <1>3 DEF Splice, Past
<1> HIDE DEF i, h
<1>5. /\ Lines(cursor, h.start) \in Seq(Piece) /\ InPlace(Lines(cursor, h.start))
      /\ Members(Lines(cursor, h.start)) = {<<l, Base>> : l \in cursor..(h.start - 1)}
  <2>1. h.start <= MaxLines
    BY <1>2
  <2>2. ASSUME NEW to \in Nat, cursor <= to, to <= MaxLines
        PROVE  /\ Lines(cursor, to) \in Seq(Piece) /\ InPlace(Lines(cursor, to))
               /\ Members(Lines(cursor, to)) = {<<l, Base>> : l \in cursor..(to - 1)}
    BY <1>2, <2>2, LinesInPlace
  <2> QED BY <1>2, <2>1, <2>2
<1>6. /\ a \in Seq(Piece) /\ InPlace(a)
      /\ Members(a) = Members(out) \cup {<<l, Base>> : l \in cursor..(h.start - 1)}
  <2>1. \A x \in Members(out), y \in Members(Lines(cursor, h.start)) : Before(x, y)
    <3> SUFFICES ASSUME NEW x \in Members(out), NEW y \in Members(Lines(cursor, h.start))
                 PROVE  Before(x, y)
      OBVIOUS
    <3>1. PICK l \in cursor..(h.start - 1) : y = <<l, Base>>
      BY <1>5
    <3>2. l \in Nat /\ cursor <= l /\ y[1] = l /\ y[2] = Base
      BY <1>2, <3>1
    <3>3. \/ x[1] \in Nat /\ x[1] < cursor
          \/ x[1] = cursor /\ x[2] < Base
      BY <1>1, WrittenIsBehind
    <3> QED BY <1>2, <3>2, <3>3 DEF Before
  <2> QED BY <1>2, <1>5, <2>1, ConcatInPlace DEF Written
<1>7. /\ Text(i) \in Seq(Piece) /\ InPlace(Text(i))
      /\ Members(Text(i)) = IF h.ins THEN {<<h.start, i>>} ELSE {}
  <2>1. <<h.start, i>> \in Piece
    BY <1>2, HunkAssumption DEF Piece, Base
  <2>2. Text(i) = IF h.ins THEN << <<h.start, i>> >> ELSE <<>>
    BY DEF Text, h
  <2> QED BY <2>1, <2>2 DEF InPlace, Members
<1>8. /\ out' \in Seq(Piece) /\ InPlace(out')
      /\ Members(out') = Members(a) \cup Members(Text(i))
  <2>1. \A x \in Members(out) : Before(x, <<h.start, i>>)
    <3> SUFFICES ASSUME NEW x \in Members(out) PROVE Before(x, <<h.start, i>>)
      OBVIOUS
    <3>1. \/ x[1] \in Nat /\ x[1] < cursor
          \/ x[1] = cursor /\ x[2] \in Handled
      BY <1>1, WrittenIsBehind
    <3>2. x[2] \in Handled => x[2] < i
      BY <1>2
    <3>3. cursor \in Nat /\ h.start \in Nat /\ cursor <= h.start
      BY <1>2
    <3>4. x[1] < h.start \/ (x[1] = h.start /\ x[2] < i)
      BY <3>1, <3>2, <3>3
    <3> QED BY <3>4 DEF Before
  <2>2. \A l \in cursor..(h.start - 1) : Before(<<l, Base>>, <<h.start, i>>)
    BY <1>2 DEF Before
  <2>3. \A x \in Members(a), y \in Members(Text(i)) : Before(x, y)
    BY <1>6, <1>7, <2>1, <2>2
  <2> HIDE DEF a
  <2> QED BY <1>4, <1>6, <1>7, <2>3, ConcatInPlace
<1>9. Handled' = Handled \cup {i}
  <2>1. 1..(k' - 1) = 1..(k - 1) \cup {k}
    BY <1>2, <1>4
  <2> QED BY <1>4, <2>1 DEF Handled, i
<1>10. Written'
  <2>1. {m \in 0..(cursor' - 1) : \A j \in Handled' : ~Deletes(hunks[j], m)}
          = {m \in 0..(cursor - 1) : \A j \in Handled : ~Deletes(hunks[j], m)} \cup cursor..(h.start - 1)
    <3>1. \A j \in Handled : /\ hunks[j].start \in Nat /\ hunks[j].del \in Nat
                            /\ hunks[j].start + hunks[j].del <= cursor
      BY <1>1, LoopFacts DEF Written
    <3>2. \A m \in Nat : Deletes(hunks[i], m) <=> h.start <= m /\ m < h.start + h.del
      BY DEF Deletes, h
    <3>3. \A j \in Handled, m \in Nat : m >= cursor => ~Deletes(hunks[j], m)
      BY <1>2, <3>1 DEF Deletes
    <3>4. \A m \in 0..(cursor' - 1) : m \in Nat /\ (m \in 0..(cursor - 1) \/ m \in cursor..(h.start - 1)
                                               \/ (h.start <= m /\ m < h.start + h.del))
      BY <1>2, <1>4
    <3>5. \A m \in (0..(cursor - 1)) \cup (cursor..(h.start - 1)) :
            m \in Nat /\ m \in 0..(cursor' - 1) /\ ~Deletes(hunks[i], m)
      <4>1. \A m \in (0..(cursor - 1)) \cup (cursor..(h.start - 1)) : m \in Nat /\ m < h.start
        BY <1>2
      <4>2. \A m \in Nat : m < h.start => m \in 0..(cursor' - 1)
        BY <1>2, <1>4
      <4> QED BY <1>2, <3>2, <4>1, <4>2
    <3>6. \A m \in cursor..(h.start - 1) : \A j \in Handled : ~Deletes(hunks[j], m)
      BY <1>2, <3>3
    <3> QED BY <1>9, <3>2, <3>4, <3>5, <3>6
  <2>2. {<<hunks[j].start, j>> : j \in {m \in Handled' : hunks[m].ins}}
          = {<<hunks[j].start, j>> : j \in {m \in Handled : hunks[m].ins}} \cup Members(Text(i))
    BY <1>7, <1>9 DEF h
  <2>3. Members(out') = {<<l, Base>> : l \in {m \in 0..(cursor' - 1) : \A j \in Handled' : ~Deletes(hunks[j], m)}}
                          \cup {<<hunks[j].start, j>> : j \in {m \in Handled' : hunks[m].ins}}
    BY <1>2, <1>6, <1>8, <2>1, <2>2 DEF Written
  <2>4. cursor' \in 0..lines /\ \A j \in Handled' : hunks[j].start + hunks[j].del <= cursor'
    <3>1. \A j \in Handled : /\ hunks[j].start \in Nat /\ hunks[j].del \in Nat
                            /\ hunks[j].start + hunks[j].del <= cursor
      BY <1>1, LoopFacts DEF Written
    <3>2. \A j \in Handled : hunks[j].start + hunks[j].del <= h.start + h.del
      <4>1. cursor <= h.start + h.del
        BY <1>2
      <4>2. cursor \in Nat /\ h.start + h.del \in Nat
        BY <1>2
      <4> QED BY <3>1, <4>1, <4>2
    <3>3. hunks[i].start + hunks[i].del <= h.start + h.del
      BY <1>2 DEF h
    <3>4. h.start + h.del \in 0..lines
      BY <1>2
    <3> QED BY <1>4, <1>9, <3>2, <3>3, <3>4
  <2>5. k' > 1 /\ k' - 1 = k /\ cursor' = hunks[sel[k' - 1]].start + hunks[sel[k' - 1]].del
    <3>1. k \in Nat /\ k >= 1
      BY <1>2
    <3>2. k' > 1 /\ k' - 1 = k
      BY <1>4, <3>1
    <3>3. cursor' = hunks[sel[k]].start + hunks[sel[k]].del
      BY <1>4 DEF h, i
    <3> QED BY <3>2, <3>3
  <2>6. k' # 1
    BY <1>2, <1>4
  <2>7. InPlace(out)'
    BY <1>8 DEF InPlace, Before
  <2>8. hunks' = hunks /\ lines' = lines /\ sel' = sel
    BY <1>4
  <2> QED BY <2>3, <2>4, <2>5, <2>6, <2>7, <2>8 DEF Written, Deletes
<1>11. HTypeOK'
  <2>1. k' \in 1..(Len(sel) + 1) /\ cursor' \in Nat
    BY <1>1, <1>2, <1>4
  <2> QED BY <1>4, <1>8, <2>1 DEF HInv, HTypeOK
<1>12. Valid(hunks, lines)' /\ Increasing(sel)'
  BY <1>1, <1>4 DEF HInv, Valid, Follows, End, Increasing
<1> QED BY <1>1, <1>4, <1>10, <1>11, <1>12 DEF HInv, NeverPanics, SpliceCorrect

LEMMA FinishStep ==
  ASSUME HInv, Finish
  PROVE  HInv'
<1>1. pc = "splice" /\ k = Len(sel) + 1
  BY LoopFacts DEF Finish
<1>2. /\ lines \in Nat /\ lines <= MaxLines /\ cursor \in Nat /\ cursor \in 0..lines
      /\ out \in Seq(Piece) /\ Written /\ DOMAIN sel = 1..Len(sel) /\ Len(sel) \in Nat
      /\ Handled \subseteq 1..Len(hunks)
  BY <1>1, LoopFacts DEF Written
<1>3. Sliceable(cursor, lines)
  BY <1>2 DEF Sliceable
<1>4. /\ out' = out \o Lines(cursor, lines) /\ pc' = "done"
      /\ UNCHANGED <<lines, hunks, sel, k, cursor>>
  BY <1>3 DEF Finish
<1>5. /\ Lines(cursor, lines) \in Seq(Piece) /\ InPlace(Lines(cursor, lines))
      /\ Members(Lines(cursor, lines)) = {<<l, Base>> : l \in cursor..(lines - 1)}
  BY <1>2, LinesInPlace
<1>6. \A x \in Members(out), y \in Members(Lines(cursor, lines)) : Before(x, y)
  <2> SUFFICES ASSUME NEW x \in Members(out), NEW y \in Members(Lines(cursor, lines))
               PROVE  Before(x, y)
    OBVIOUS
  <2>1. PICK l \in cursor..(lines - 1) : y = <<l, Base>>
    BY <1>5
  <2>2. l \in Nat /\ cursor <= l /\ y[1] = l /\ y[2] = Base
    BY <1>2, <2>1
  <2>3. \/ x[1] \in Nat /\ x[1] < cursor
        \/ x[1] = cursor /\ x[2] < Base
    BY <1>1, WrittenIsBehind
  <2> QED BY <1>2, <2>2, <2>3 DEF Before
<1>7. /\ out' \in Seq(Piece) /\ InPlace(out')
      /\ Members(out') = Members(out) \cup Members(Lines(cursor, lines))
  BY <1>2, <1>4, <1>5, <1>6, ConcatInPlace DEF Written
<1>8. Handled = Members(sel)
  <2>1. k - 1 = Len(sel)
    BY <1>1, <1>2
  <2> QED BY <1>2, <2>1 DEF Handled, Members
<1>9. Members(out') = Merged(Handled)
  <2>1. {m \in 0..(lines - 1) : \A j \in Handled : ~Deletes(hunks[j], m)}
          = {m \in 0..(cursor - 1) : \A j \in Handled : ~Deletes(hunks[j], m)} \cup cursor..(lines - 1)
    <3>1. \A j \in Handled : /\ hunks[j].start \in Nat /\ hunks[j].del \in Nat
                            /\ hunks[j].start + hunks[j].del <= cursor
      BY <1>1, LoopFacts DEF Written
    <3>2. \A j \in Handled, m \in Nat : m >= cursor => ~Deletes(hunks[j], m)
      BY <1>2, <3>1 DEF Deletes
    <3>3. /\ \A m \in 0..(lines - 1) : m \in 0..(cursor - 1) \/ m \in cursor..(lines - 1)
          /\ \A m \in cursor..(lines - 1) : m \in Nat /\ m >= cursor /\ m \in 0..(lines - 1)
          /\ \A m \in 0..(cursor - 1) : m \in 0..(lines - 1)
      BY <1>2
    <3> QED BY <3>2, <3>3
  <2> QED BY <1>2, <1>5, <1>7, <2>1 DEF Written, Merged
<1>10. SpliceCorrect'
  <2>1. Members(out') = Merged(Members(sel))
    BY <1>8, <1>9
  <2>2. InPlace(out)'
    BY <1>7 DEF InPlace, Before
  <2> QED BY <1>4, <2>1, <2>2 DEF SpliceCorrect, Merged, Deletes, Members
<1>11. HTypeOK'
  BY <1>4, <1>7 DEF HInv, HTypeOK
<1>12. Valid(hunks, lines)'
  BY <1>1, <1>4 DEF HInv, Valid, Follows, End
<1> QED BY <1>4, <1>10, <1>11, <1>12 DEF HInv, NeverPanics

-------------------------------------------------------------------------------
(* Theorems.                                                               *)

(* What a proposal and the loop of apply_hunks keep true: see the top.     *)
THEOREM SpliceInvariant == Spec => []HInv
<1>1. Init => HInv
  BY InitHunks
<1>2. HInv /\ [Next]_vars => HInv'
  <2> SUFFICES ASSUME HInv, [Next]_vars PROVE HInv'
    OBVIOUS
  <2>1. CASE UNCHANGED vars
    <3>1. UNCHANGED <<pc, lines, hunks, sel, k, cursor, out>>
      BY <2>1 DEF vars
    <3>2. HTypeOK' /\ NeverPanics'
      BY <3>1 DEF HInv, HTypeOK, NeverPanics
    <3>3. SpliceCorrect'
      BY <3>1 DEF HInv, SpliceCorrect, Merged, Deletes, Members, InPlace, Before
    <3>4. Valid(hunks, lines) => Valid(hunks, lines)'
      BY <3>1 DEF Valid, Follows, End
    <3>5. Increasing(sel) => Increasing(sel)'
      BY <3>1 DEF Increasing
    <3>6. Written => Written'
      BY <3>1 DEF Written, Handled, Members, InPlace, Before, Deletes
    <3> QED BY <3>1, <3>2, <3>3, <3>4, <3>5, <3>6 DEF HInv
  <2> QED BY <2>1, ProposeStep, AcceptStep, SpliceStep, FinishStep DEF Next
<1> QED BY <1>1, <1>2, PTL DEF Spec

(* The variables of the splice keep their types.                           *)
THEOREM SpliceTypes == Spec => []HTypeOK
<1>1. HInv => HTypeOK
  BY DEF HInv
<1> QED BY <1>1, SpliceInvariant, PTL

(* validate_hunks at creation is enough for apply_hunks never to slice out *)
(* of range, for bases and hunk lists of any length.                       *)
THEOREM NeverPanicsAlways == Spec => []NeverPanics
<1>1. HInv => NeverPanics
  BY DEF HInv
<1> QED BY <1>1, SpliceInvariant, PTL

(* apply_hunks writes the lines the selected hunks leave and their texts,  *)
(* each once and in its place.                                             *)
THEOREM SpliceCorrectAlways == Spec => []SpliceCorrect
<1>1. HInv => SpliceCorrect
  BY DEF HInv
<1> QED BY <1>1, SpliceInvariant, PTL
================================================================================
