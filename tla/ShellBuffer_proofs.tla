-------------------------- MODULE ShellBuffer_proofs ---------------------------
(***************************************************************************)
(* Proofs about ShellBuffer, for every set of documents and every bound on *)
(* edits, saves, openings and faults.                                      *)
(***************************************************************************)
EXTENDS ShellBuffer, SequenceTheorems, FiniteSetTheorems, WellFoundedInduction, TLAPS

-------------------------------------------------------------------------------
(* Facts about sequences.                                                  *)

LEMMA HeadAndTail ==
  ASSUME NEW S, NEW s \in Seq(S), s # <<>>
  PROVE  /\ Head(s) \in S /\ Head(s) = s[1] /\ 1 \in DOMAIN s
         /\ Tail(s) \in Seq(S)
         /\ \A i \in DOMAIN Tail(s) :
              i \in Nat \ {0} /\ i + 1 \in DOMAIN s /\ Tail(s)[i] = s[i + 1]
         /\ \A i \in DOMAIN s :
              i = 1 \/ (i \in Nat /\ i > 1 /\ i - 1 \in DOMAIN Tail(s) /\ Tail(s)[i - 1] = s[i])
<1>1. /\ Head(s) \in S /\ Tail(s) \in Seq(S) /\ Len(Tail(s)) = Len(s) - 1
      /\ \A i \in 1..Len(Tail(s)) : Tail(s)[i] = s[i + 1]
  BY HeadTailProperties
<1>2. /\ DOMAIN s = 1..Len(s) /\ DOMAIN Tail(s) = 1..Len(Tail(s))
      /\ Len(s) \in Nat /\ Len(s) >= 1
  BY <1>1, LenProperties, EmptySeq
<1>3. Head(s) = s[1]
  OBVIOUS
<1>. QED
  BY <1>1, <1>2, <1>3

LEMMA Appended ==
  ASSUME NEW S, NEW s \in Seq(S), NEW e \in S
  PROVE  /\ Append(s, e) \in Seq(S)
         /\ \A i \in DOMAIN Append(s, e) :
              \/ i \in DOMAIN s /\ Append(s, e)[i] = s[i]
              \/ i = Len(s) + 1 /\ Append(s, e)[i] = e
         /\ \A i \in DOMAIN s : i \in Nat /\ i <= Len(s) /\ i \in DOMAIN Append(s, e)
                                /\ Append(s, e)[i] = s[i]
         /\ Len(s) \in Nat /\ Len(s) + 1 \in DOMAIN Append(s, e)
         /\ Append(s, e)[Len(s) + 1] = e
<1>1. /\ Append(s, e) \in Seq(S) /\ Len(Append(s, e)) = Len(s) + 1
      /\ \A i \in 1..Len(s) : Append(s, e)[i] = s[i]
      /\ Append(s, e)[Len(s) + 1] = e
  BY AppendProperties
<1>2. /\ DOMAIN s = 1..Len(s) /\ Len(s) \in Nat
      /\ DOMAIN Append(s, e) = 1..(Len(s) + 1)
  BY <1>1, LenProperties
<1>. QED
  BY <1>1, <1>2

LEMMA Concatenated ==
  ASSUME NEW S, NEW s \in Seq(S), NEW u \in Seq(S)
  PROVE  /\ s \o u \in Seq(S)
         /\ \A i \in DOMAIN (s \o u) :
              \/ i \in DOMAIN s /\ (s \o u)[i] = s[i]
              \/ i - Len(s) \in DOMAIN u /\ (s \o u)[i] = u[i - Len(s)]
         /\ \A i \in DOMAIN s : i \in DOMAIN (s \o u) /\ (s \o u)[i] = s[i]
         /\ \A i \in DOMAIN u : Len(s) + i \in DOMAIN (s \o u) /\ (s \o u)[Len(s) + i] = u[i]
<1>1. /\ s \o u \in Seq(S) /\ Len(s \o u) = Len(s) + Len(u)
      /\ \A i \in 1..Len(s \o u) : (s \o u)[i] = IF i <= Len(s) THEN s[i] ELSE u[i - Len(s)]
  BY ConcatProperties
<1>2. /\ DOMAIN s = 1..Len(s) /\ Len(s) \in Nat /\ DOMAIN u = 1..Len(u) /\ Len(u) \in Nat
      /\ DOMAIN (s \o u) = 1..(Len(s) + Len(u))
  BY <1>1, LenProperties
<1>. QED
  BY <1>1, <1>2

LEMMA Elements ==
  ASSUME NEW S, NEW s \in Seq(S)
  PROVE  /\ DOMAIN s = 1..Len(s) /\ Len(s) \in Nat
         /\ \A i \in DOMAIN s : i \in Nat /\ i >= 1 /\ i <= Len(s) /\ s[i] \in S
<1>. QED
  BY LenProperties, ElementOfSeq

(* A set of positions that is not empty has a greatest one. *)
LEMMA GreatestPosition ==
  ASSUME NEW n \in Nat, NEW S \in SUBSET (1..n), S # {}
  PROVE  Max(S) \in S /\ \A j \in S : Max(S) >= j
<1>. DEFINE T == {n - i : i \in S}
<1>1. T \in SUBSET Nat /\ T # {}
  <2>1. \A i \in S : n - i \in Nat
    OBVIOUS
  <2>. QED
    BY <2>1
<1>2. IsWellFoundedOn(OpToRel(<, Nat), Nat)
  BY NatLessThanWellFounded
<1>3. PICK m \in T : \A k \in T : <<k, m>> \notin OpToRel(<, Nat)
  BY <1>1, <1>2, WFMin
<1>4. \A k \in T : ~(k < m)
  BY <1>1, <1>3 DEF OpToRel
<1>5. PICK i \in S : m = n - i
  OBVIOUS
<1>6. \A j \in S : i >= j
  BY <1>4, <1>5
<1>. QED
  BY <1>6 DEF Max

-------------------------------------------------------------------------------
(* Requests, answers and texts.                                            *)

LEMMA Bounded == MaxEdits \in Nat /\ MaxSaves \in Nat /\ MaxOpens \in Nat /\ MaxFaults \in Nat
<1>. QED
  BY ShellAssumption

LEMMA RequestByKind ==
  ASSUME NEW r \in Request
  PROVE  /\ r.kind \in {"save", "read", "list"}
         /\ r.kind = "save" => r.path \in Docs /\ r.text \in Text /\ r.base \in Rev
         /\ r.kind = "read" => r.path \in Docs /\ r.why \in {"open", "refresh", "reread"}
<1>. QED
  BY DEF Request

LEMMA RequestsMade ==
  /\ \A d \in Docs, t \in Text, b \in Rev :
       [kind |-> "save", path |-> d, text |-> t, base |-> b] \in Request
  /\ \A d \in Docs, w \in {"open", "refresh", "reread"} :
       [kind |-> "read", path |-> d, why |-> w] \in Request
  /\ [kind |-> "list"] \in Request
<1>. QED
  BY DEF Request

LEMMA AnswerByKind ==
  ASSUME NEW a \in Answer
  PROVE  /\ a.kind \in {"saved", "event", "stale", "refused", "listed", "loaded", "missing"}
         /\ a.kind \in {"saved", "event", "loaded"} => a.path \in Docs /\ a.rev \in Rev
         /\ a.kind = "loaded" => a.text \in Text
         /\ a.kind \in {"loaded", "missing"} => a.why \in {"open", "refresh", "reread"}
<1>. QED
  BY DEF Answer

LEMMA AnswersMade ==
  /\ \A d \in Docs, r \in Rev : [kind |-> "saved", path |-> d, rev |-> r] \in Answer
  /\ \A d \in Docs, r \in Rev : [kind |-> "event", path |-> d, rev |-> r] \in Answer
  /\ [kind |-> "stale"] \in Answer /\ [kind |-> "refused"] \in Answer
  /\ [kind |-> "listed"] \in Answer
  /\ \A w \in {"open", "refresh", "reread"} : [kind |-> "missing", why |-> w] \in Answer
  /\ \A w \in {"open", "refresh", "reread"}, d \in Docs, r \in Rev, t \in Text :
       [kind |-> "loaded", why |-> w, path |-> d, rev |-> r, text |-> t] \in Answer
<1>. QED
  BY DEF Answer

(* A buffer, a save and a commit are none of the models' empty value. *)
LEMMA NotNothing ==
  /\ \A b \in Buffer : b # Nothing
  /\ \A s \in Saving : s # Nothing
  /\ \A c \in Commit : c # Nothing
<1>. QED
  BY NothingAssumption

(* What the store holds. *)
Revision == [text: Text, by: {"shell", "others", "silent"}]

LEMMA StoreTypes ==
  ASSUME STypeOK, NEW d \in Docs
  PROVE  /\ store[d] \in Seq(Revision) /\ Head_(d) \in Nat
         /\ DOMAIN store[d] = 1..Head_(d)
         /\ \A i \in DOMAIN store[d] : store[d][i] \in Revision
         /\ \A i \in 0..Head_(d) : TextOf(d, i) \in Text
         /\ HeadText(d) = TextOf(d, Head_(d)) /\ HeadText(d) \in Text
<1>1. store[d] \in Seq(Revision)
  BY DEF STypeOK, Revision
<1>2. /\ Head_(d) \in Nat /\ DOMAIN store[d] = 1..Head_(d)
      /\ \A i \in DOMAIN store[d] : store[d][i] \in Revision
  BY <1>1, Elements DEF Head_
<1>3. \A i \in 0..Head_(d) : TextOf(d, i) \in Text
  <2>1. {} \in Text
    BY DEF Text
  <2>2. \A i \in 0..Head_(d) : i # 0 => i \in DOMAIN store[d]
    BY <1>2
  <2>. QED
    BY <1>2, <2>1, <2>2 DEF TextOf, Revision, NullRev
<1>4. HeadText(d) = TextOf(d, Head_(d))
  <2>1. store[d] = <<>> <=> Head_(d) = 0
    BY <1>1, EmptySeq DEF Head_
  <2>. QED
    BY <2>1 DEF HeadText, TextOf, NullRev, Last, Head_
<1>. QED
  BY <1>1, <1>2, <1>3, <1>4

(* What a commit does to the store. *)
LEMMA AddsEffect ==
  ASSUME STypeOK, NEW d \in Docs, NEW text \in Text, NEW by \in {"shell", "others", "silent"},
         Adds(d, text, by)
  PROVE  /\ store' \in [Docs -> Seq(Revision)]
         /\ \A x \in Docs : x # d => store'[x] = store[x]
         /\ Len(store'[d]) = Head_(d) + 1 /\ DOMAIN store'[d] = 1..(Head_(d) + 1)
         /\ \A i \in DOMAIN store[d] : store'[d][i] = store[d][i]
         /\ store'[d][Head_(d) + 1] = [text |-> text, by |-> by]
<1>. DEFINE r == [text |-> text, by |-> by]
<1>1. r \in Revision /\ store[d] \in Seq(Revision) /\ Head_(d) \in Nat
  BY StoreTypes DEF Revision
<1>2. store' = [store EXCEPT ![d] = Append(@, r)] /\ store \in [Docs -> Seq(Revision)]
  BY DEF Adds, STypeOK, Revision
<1>3. /\ Append(store[d], r) \in Seq(Revision)
      /\ Len(Append(store[d], r)) = Head_(d) + 1
      /\ \A i \in 1..Head_(d) : Append(store[d], r)[i] = store[d][i]
      /\ Append(store[d], r)[Head_(d) + 1] = r
      /\ DOMAIN Append(store[d], r) = 1..(Head_(d) + 1)
  BY <1>1, AppendProperties, LenProperties DEF Head_
<1>4. store'[d] = Append(store[d], r) /\ \A x \in Docs : x # d => store'[x] = store[x]
  BY <1>2
<1>5. store' \in [Docs -> Seq(Revision)]
  BY <1>2, <1>3
<1>. QED
  BY <1>1, <1>3, <1>4, <1>5, StoreTypes

(* Revisions keep their texts. *)
LEMMA TextsStay ==
  ASSUME STypeOK, NEW d \in Docs, NEW text \in Text, NEW by \in {"shell", "others", "silent"},
         Adds(d, text, by)
  PROVE  /\ \A x \in Docs : Head_(x)' = IF x = d THEN Head_(x) + 1 ELSE Head_(x)
         /\ \A x \in Docs : \A i \in 0..Head_(x) : TextOf(x, i)' = TextOf(x, i)
         /\ \A n : n = Head_(d) + 1 => TextOf(d, n)' = text
<1>1. /\ \A x \in Docs : x # d => store'[x] = store[x]
      /\ Len(store'[d]) = Head_(d) + 1
      /\ \A i \in DOMAIN store[d] : store'[d][i] = store[d][i]
      /\ store'[d][Head_(d) + 1] = [text |-> text, by |-> by]
  BY AddsEffect
<1>2. \A x \in Docs : Head_(x) \in Nat /\ DOMAIN store[x] = 1..Head_(x)
  BY StoreTypes
<1>3. \A x \in Docs : Head_(x)' = IF x = d THEN Head_(x) + 1 ELSE Head_(x)
  BY <1>1 DEF Head_
<1>4. ASSUME NEW x \in Docs, NEW i \in 0..Head_(x)
      PROVE  TextOf(x, i)' = TextOf(x, i)
  <2>1. i # 0 => i \in DOMAIN store[x]
    BY <1>2
  <2>. QED
    BY <1>1, <2>1 DEF TextOf, NullRev
<1>5. ASSUME NEW n, n = Head_(d) + 1
      PROVE  TextOf(d, n)' = text
  <2>1. n # 0
    BY <1>2, <1>5
  <2>. QED
    BY <1>1, <1>5, <2>1 DEF TextOf, NullRev
<1>. QED
  BY <1>3, <1>4, <1>5

-------------------------------------------------------------------------------
(* The steps of a queue.                                                   *)

LEMMA Taken ==
  ASSUME STypeOK, NEW kind, Take(kind)
  PROVE  /\ requests # <<>> /\ requests' = Tail(requests) /\ requests' \in Seq(Request)
         /\ Head(requests) \in Request /\ Head(requests).kind = kind
         /\ Head(requests) = requests[1] /\ 1 \in DOMAIN requests
         /\ \A i \in DOMAIN requests' : i + 1 \in DOMAIN requests /\ requests'[i] = requests[i + 1]
         /\ link = "up" /\ serving = Nothing
<1>. QED
  BY HeadAndTail DEF Take, Idle, STypeOK

LEMMA Replied ==
  ASSUME STypeOK, NEW a \in Answer, Reply(a)
  PROVE  /\ answers' = Append(answers, a) /\ answers' \in Seq(Answer)
         /\ \A i \in DOMAIN answers' :
              \/ i \in DOMAIN answers /\ answers'[i] = answers[i]
              \/ i = Len(answers) + 1 /\ answers'[i] = a
         /\ \A i \in DOMAIN answers : i \in Nat /\ i <= Len(answers)
                                      /\ i \in DOMAIN answers' /\ answers'[i] = answers[i]
         /\ Len(answers) \in Nat /\ Len(answers) + 1 \in DOMAIN answers'
         /\ answers'[Len(answers) + 1] = a
<1>. QED
  BY Appended DEF Reply, STypeOK

LEMMA Asked ==
  ASSUME STypeOK, NEW r \in Request, Ask(r)
  PROVE  /\ requests' = Append(requests, r) /\ requests' \in Seq(Request)
         /\ \A i \in DOMAIN requests' :
              \/ i \in DOMAIN requests /\ requests'[i] = requests[i]
              \/ i = Len(requests) + 1 /\ requests'[i] = r
         /\ \A i \in DOMAIN requests : i \in DOMAIN requests' /\ requests'[i] = requests[i]
         /\ Len(requests) + 1 \in DOMAIN requests' /\ requests'[Len(requests) + 1] = r
<1>. QED
  BY Appended DEF Ask, STypeOK

LEMMA Received ==
  ASSUME STypeOK, NEW kind, Receive(kind)
  PROVE  /\ answers # <<>> /\ answers' = Tail(answers) /\ answers' \in Seq(Answer)
         /\ Head(answers) \in Answer /\ Head(answers).kind = kind
         /\ Head(answers) = answers[1] /\ 1 \in DOMAIN answers
         /\ \A i \in DOMAIN answers' :
              i \in Nat \ {0} /\ i + 1 \in DOMAIN answers /\ answers'[i] = answers[i + 1]
         /\ \A i \in DOMAIN answers :
              i = 1 \/ (i \in Nat /\ i > 1 /\ i - 1 \in DOMAIN answers' /\ answers'[i - 1] = answers[i])
         /\ link = "up"
<1>. QED
  BY HeadAndTail DEF Receive, STypeOK

(* What an event does to a buffer, and the reloads it asks for. *)
LEMMA NewsTypes ==
  ASSUME NEW b \in Buffer, NEW commits \in Seq(Commit)
  PROVE  /\ News(b, commits) \in SUBSET (1..Len(commits)) /\ Len(commits) \in Nat
         /\ DOMAIN commits = 1..Len(commits)
         /\ IsFiniteSet(News(b, commits)) /\ Cardinality(News(b, commits)) \in Nat
         /\ News(b, commits) # {} => Cardinality(News(b, commits)) # 0
         /\ \A k \in DOMAIN commits : commits[k] \in Commit
<1>1. /\ News(b, commits) \in SUBSET (1..Len(commits)) /\ Len(commits) \in Nat
      /\ DOMAIN commits = 1..Len(commits) /\ \A k \in DOMAIN commits : commits[k] \in Commit
  BY Elements DEF News
<1>2. IsFiniteSet(News(b, commits))
  <2>1. IsFiniteSet(1..Len(commits))
    BY <1>1, FS_Interval
  <2>. QED
    BY <1>1, <2>1, FS_Subset
<1>. QED
  BY <1>1, <1>2, FS_CardinalityType, FS_EmptySet

LEMMA FlaggedFacts ==
  ASSUME NEW b \in Buffer, NEW commits \in Seq(Commit)
  PROVE  LET f == Flagged(b, commits)
         IN  /\ f \in Buffer
             /\ f.path = b.path /\ f.key = b.key /\ f.base = b.base /\ f.text = b.text
             /\ f.dirty = b.dirty
             /\ f.conflict = b.conflict \/ \E k \in DOMAIN commits : f.conflict = commits[k].rev
             /\ b.dirty /\ (\E k \in DOMAIN commits : Matters(b, commits[k])) =>
                  \E k \in DOMAIN commits : f.conflict = commits[k].rev
<1>. DEFINE news == News(b, commits)
            m == Max(news)
<1>1. CASE b.dirty /\ news # {}
  <2>1. m \in DOMAIN commits /\ commits[m].rev \in Rev
    BY <1>1, NewsTypes, GreatestPosition DEF Commit
  <2>2. Flagged(b, commits) = [b EXCEPT !.conflict = commits[m].rev]
    BY <1>1 DEF Flagged
  <2>. HIDE DEF m
  <2>. QED
    BY <2>1, <2>2 DEF Buffer
<1>2. CASE ~ (b.dirty /\ news # {})
  <2>1. Flagged(b, commits) = b
    BY <1>2 DEF Flagged
  <2>2. b.dirty => ~ \E k \in DOMAIN commits : Matters(b, commits[k])
    BY <1>2 DEF News
  <2>. QED
    BY <2>1, <2>2
<1>. QED
  BY <1>1, <1>2

LEMMA RefreshesFacts ==
  ASSUME NEW b \in Buffer, NEW commits \in Seq(Commit)
  PROVE  LET s == Refreshes(b, commits)
         IN  /\ s \in Seq(Request)
             /\ \A i \in DOMAIN s : s[i] = [kind |-> "read", path |-> b.path, why |-> "refresh"]
             /\ ~ b.dirty /\ (\E k \in DOMAIN commits : Matters(b, commits[k])) => 1 \in DOMAIN s
<1>. DEFINE n == Cardinality(News(b, commits))
            r == [kind |-> "read", path |-> b.path, why |-> "refresh"]
<1>1. n \in Nat /\ (News(b, commits) # {} => n # 0) /\ r \in Request
  BY NewsTypes, RequestsMade DEF Buffer
<1>2. CASE b.dirty
  BY <1>2 DEF Refreshes
<1>3. CASE ~ b.dirty
  <2>1. Refreshes(b, commits) = [i \in 1..n |-> r]
    BY <1>3 DEF Refreshes
  <2>2. (\E k \in DOMAIN commits : Matters(b, commits[k])) => News(b, commits) # {}
    BY DEF News
  <2>. HIDE DEF n, r
  <2>3. [i \in 1..n |-> r] \in Seq(Request)
    BY <1>1, IsASeq
  <2>. QED
    BY <1>1, <2>1, <2>2, <2>3 DEF r
<1>. QED
  BY <1>2, <1>3

-------------------------------------------------------------------------------
(* Where a save is: the part of the invariant about one save at a time.    *)

(* Requests that a save sends, and their answers. *)
ForSave(m) ==
  \/ m.kind \in {"save", "list", "saved", "stale", "refused", "listed"}
  \/ m.kind \in {"read", "loaded", "missing"} /\ m.why = "reread"

NoneForSave(queue) == \A i \in DOMAIN queue : ~ ForSave(queue[i])
OneForSave(queue) ==
  \E i \in DOMAIN queue : /\ ForSave(queue[i])
                          /\ \A j \in DOMAIN queue : ForSave(queue[j]) => j = i

PhaseOf(m) ==
  IF m.kind \in {"save", "saved", "stale", "refused"} THEN "sent"
  ELSE IF m.kind \in {"list", "listed"} THEN "list" ELSE "reread"

(* A message of the save belongs to the save that the shell remembers. *)
OfThisSave(m, s) ==
  /\ s # Nothing /\ s.phase = PhaseOf(m)
  /\ m.kind \in {"save", "saved", "read", "loaded"} => m.path = s.path
  /\ m.kind = "save" => m.text = s.text

(* A save in flight is in one place: a request, the daemon, or an answer.  *)
SaveInFlight ==
  /\ saving = Nothing => NoneForSave(requests) /\ NoneForSave(answers) /\ serving = Nothing
  /\ saving # Nothing /\ link = "up" =>
       \/ NoneForSave(requests) /\ NoneForSave(answers) /\ serving # Nothing
       \/ OneForSave(requests) /\ NoneForSave(answers) /\ serving = Nothing
       \/ NoneForSave(requests) /\ OneForSave(answers) /\ serving = Nothing
  /\ \A i \in DOMAIN requests : ForSave(requests[i]) => OfThisSave(requests[i], saving)
  /\ \A i \in DOMAIN answers : ForSave(answers[i]) => OfThisSave(answers[i], saving)
  /\ serving # Nothing => saving # Nothing /\ saving.phase = "sent" /\ serving.path = saving.path
  /\ saving # Nothing => buffer # Nothing /\ saves >= 1
  /\ link # "up" => requests = <<>> /\ answers = <<>> /\ events = <<>> /\ serving = Nothing /\ missed
  /\ link = "lost" => saving = Nothing

(* Revisions and edits are counted: there are no more than were made. *)
Counted ==
  /\ \A d \in Docs : Head_(d) <= edits + saves
  /\ (\E i \in DOMAIN requests : requests[i].kind = "save") =>
       \A d \in Docs : Head_(d) < edits + saves
  /\ \A d \in Docs : \A i \in DOMAIN store[d] : store[d][i].text \subseteq 1..edits
  /\ buffer # Nothing => buffer.text \subseteq 1..edits
  /\ saving # Nothing => saving.text \subseteq 1..edits

(* Commits and dated answers are about revisions, which count from one. *)
Numbered ==
  /\ \A c \in unsent : c.rev >= 1
  /\ \A i \in DOMAIN events : events[i].rev >= 1
  /\ \A i \in DOMAIN deferred : deferred[i].rev >= 1
  /\ serving # Nothing => serving.rev >= 1
  /\ \A i \in DOMAIN answers : answers[i].kind \in {"event", "loaded", "saved"} => answers[i].rev >= 1

CoreInv == STypeOK /\ SaveInFlight /\ Counted /\ Numbered

LEMMA NoneTaken ==
  ASSUME NEW S, NEW s \in Seq(S), s # <<>>
  PROVE  /\ NoneForSave(s) => NoneForSave(Tail(s)) /\ ~ ForSave(Head(s))
         /\ OneForSave(s) /\ ForSave(Head(s)) => NoneForSave(Tail(s))
         /\ OneForSave(s) /\ ~ ForSave(Head(s)) => OneForSave(Tail(s))
<1>. DEFINE t == Tail(s)
<1>1. /\ Head(s) = s[1] /\ 1 \in DOMAIN s
      /\ \A i \in DOMAIN t : i \in Nat \ {0} /\ i + 1 \in DOMAIN s /\ t[i] = s[i + 1]
      /\ \A i \in DOMAIN s : i = 1 \/ (i \in Nat /\ i > 1 /\ i - 1 \in DOMAIN t /\ t[i - 1] = s[i])
  BY HeadAndTail
<1>. HIDE DEF t
<1>2. NoneForSave(s) => NoneForSave(t) /\ ~ ForSave(Head(s))
  BY <1>1 DEF NoneForSave
<1>3. ASSUME OneForSave(s)
      PROVE  /\ ForSave(Head(s)) => NoneForSave(t)
             /\ ~ ForSave(Head(s)) => OneForSave(t)
  <2>1. PICK i \in DOMAIN s : ForSave(s[i]) /\ \A j \in DOMAIN s : ForSave(s[j]) => j = i
    BY <1>3 DEF OneForSave
  <2>2. ASSUME ForSave(Head(s)), NEW j \in DOMAIN t, ForSave(t[j])
        PROVE  FALSE
    <3>1. i = 1 /\ j + 1 = i /\ j \in Nat \ {0}
      BY <1>1, <2>1, <2>2
    <3>. QED
      BY <3>1
  <2>3. ASSUME ~ ForSave(Head(s))
        PROVE  OneForSave(t)
    <3>1. i - 1 \in DOMAIN t /\ ForSave(t[i - 1]) /\ i \in Nat
      BY <1>1, <2>1, <2>3
    <3>2. ASSUME NEW j \in DOMAIN t, ForSave(t[j])
          PROVE  j = i - 1
      <4>1. j + 1 = i /\ j \in Nat
        BY <1>1, <2>1, <3>2
      <4>. QED
        BY <4>1, <3>1
    <3>. QED
      BY <3>1, <3>2 DEF OneForSave
  <2>. QED
    BY <2>2, <2>3 DEF NoneForSave
<1>. QED
  BY <1>2, <1>3 DEF t

LEMMA NoneAppended ==
  ASSUME NEW S, NEW s \in Seq(S), NEW e \in S
  PROVE  /\ NoneForSave(s) /\ ~ ForSave(e) => NoneForSave(Append(s, e))
         /\ NoneForSave(s) /\ ForSave(e) => OneForSave(Append(s, e))
         /\ OneForSave(s) /\ ~ ForSave(e) => OneForSave(Append(s, e))
<1>. DEFINE t == Append(s, e)
            n == Len(s) + 1
<1>1. /\ \A i \in DOMAIN t : \/ i \in DOMAIN s /\ t[i] = s[i]
                             \/ i = n /\ t[i] = e
      /\ \A i \in DOMAIN s : i \in DOMAIN t /\ t[i] = s[i]
      /\ n \in DOMAIN t /\ t[n] = e
  BY Appended
<1>. HIDE DEF t, n
<1>2. NoneForSave(s) /\ ~ ForSave(e) => NoneForSave(t)
  BY <1>1 DEF NoneForSave
<1>3. NoneForSave(s) /\ ForSave(e) => OneForSave(t)
  BY <1>1 DEF NoneForSave, OneForSave
<1>4. ASSUME OneForSave(s), ~ ForSave(e)
      PROVE  OneForSave(t)
  <2>1. PICK i \in DOMAIN s : ForSave(s[i]) /\ \A j \in DOMAIN s : ForSave(s[j]) => j = i
    BY <1>4 DEF OneForSave
  <2>. QED
    BY <1>1, <1>4, <2>1 DEF OneForSave
<1>. QED
  BY <1>2, <1>3, <1>4 DEF t

LEMMA NoneConcatenated ==
  ASSUME NEW S, NEW s \in Seq(S), NEW u \in Seq(S), NoneForSave(u)
  PROVE  /\ NoneForSave(s) => NoneForSave(s \o u)
         /\ OneForSave(s) => OneForSave(s \o u)
<1>. DEFINE t == s \o u
<1>1. /\ \A i \in DOMAIN t : \/ i \in DOMAIN s /\ t[i] = s[i]
                             \/ i - Len(s) \in DOMAIN u /\ t[i] = u[i - Len(s)]
      /\ \A i \in DOMAIN s : i \in DOMAIN t /\ t[i] = s[i]
  BY Concatenated
<1>. HIDE DEF t
<1>2. NoneForSave(s) => NoneForSave(t)
  BY <1>1 DEF NoneForSave
<1>3. ASSUME OneForSave(s)
      PROVE  OneForSave(t)
  <2>1. PICK i \in DOMAIN s : ForSave(s[i]) /\ \A j \in DOMAIN s : ForSave(s[j]) => j = i
    BY <1>3 DEF OneForSave
  <2>2. \A j \in DOMAIN t : ForSave(t[j]) => j \in DOMAIN s /\ ForSave(s[j])
    BY <1>1 DEF NoneForSave
  <2>. QED
    BY <1>1, <2>1, <2>2 DEF OneForSave
<1>. QED
  BY <1>2, <1>3 DEF t

-------------------------------------------------------------------------------
(* The core of the invariant is kept by the daemon and by everybody else.  *)

LEMMA CoreInit == Init => CoreInv
<1>. SUFFICES ASSUME Init PROVE CoreInv
  OBVIOUS
<1>1. STypeOK
  <2>1. store \in [Docs -> Seq([text: Text, by: {"shell", "others", "silent"}])]
    BY DEF Init
  <2>2. /\ events \in Seq(Commit) /\ requests \in Seq(Request) /\ answers \in Seq(Answer)
        /\ deferred \in Seq(Commit)
    BY DEF Init
  <2>3. /\ edits \in 0..MaxEdits /\ saves \in 0..MaxSaves
        /\ opens \in 0..MaxOpens /\ faults \in 0..MaxFaults
    BY Bounded DEF Init
  <2>4. /\ unsent \subseteq Commit /\ serving = Nothing /\ buffer = Nothing /\ saving = Nothing
        /\ link \in {"up", "lost", "left"} /\ missed \in BOOLEAN /\ deferred = <<>>
    BY DEF Init
  <2>. QED
    BY <2>1, <2>2, <2>3, <2>4 DEF STypeOK
<1>2. SaveInFlight
  BY DEF Init, SaveInFlight, NoneForSave
<1>3. Counted /\ Numbered
  BY DEF Init, Counted, Numbered, Head_
<1>. QED
  BY <1>1, <1>2, <1>3 DEF CoreInv

(* A commit counted by an edit or by a save. *)
LEMMA CommitCounted ==
  ASSUME STypeOK, NEW d \in Docs, NEW text \in Text, NEW by \in {"shell", "others", "silent"},
         Adds(d, text, by), Head_(d) + 1 \in Rev
  PROVE  /\ store' \in [Docs -> Seq([text: Text, by: {"shell", "others", "silent"}])]
         /\ [path |-> d, rev |-> Head_(d) + 1] \in Commit /\ Head_(d) + 1 >= 1
<1>1. store' \in [Docs -> Seq(Revision)]
  BY AddsEffect
<1>2. Head_(d) \in Nat
  BY StoreTypes
<1>3. [path |-> d, rev |-> Head_(d) + 1] \in Commit
  BY DEF Commit
<1>4. Head_(d) + 1 >= 1
  BY <1>2
<1>. QED
  BY <1>1, <1>3, <1>4 DEF Revision

LEMMA CommitTexts ==
  ASSUME STypeOK, Counted, NEW d \in Docs, NEW text \in Text,
         NEW by \in {"shell", "others", "silent"},
         Adds(d, text, by), text \subseteq 1..edits', edits' >= edits, edits' \in Nat
  PROVE  \A x \in Docs : \A i \in DOMAIN store'[x] : store'[x][i].text \subseteq 1..edits'
<1>1. 1..edits \subseteq 1..edits'
  BY DEF STypeOK
<1>3. /\ \A x \in Docs : x # d => store'[x] = store[x]
      /\ DOMAIN store'[d] = 1..(Head_(d) + 1)
      /\ \A i \in DOMAIN store[d] : store'[d][i] = store[d][i]
      /\ store'[d][Head_(d) + 1] = [text |-> text, by |-> by]
  BY AddsEffect
<1>4. Head_(d) \in Nat /\ DOMAIN store[d] = 1..Head_(d)
  BY StoreTypes
<1>2. ASSUME NEW x \in Docs, NEW i \in DOMAIN store'[x]
      PROVE  store'[x][i].text \subseteq 1..edits'
  <2>1. CASE i \in DOMAIN store[x]
    <3>1. store'[x][i] = store[x][i]
      BY <1>3, <2>1
    <3>2. store[x][i].text \subseteq 1..edits
      BY <2>1 DEF Counted
    <3>. QED
      BY <1>1, <3>1, <3>2
  <2>2. CASE i \notin DOMAIN store[x]
    <3>1. x = d /\ i = Head_(d) + 1
      BY <1>3, <1>4, <2>2
    <3>2. store'[x][i].text = text
      BY <1>3, <3>1
    <3>. QED
      BY <3>2
  <2>. QED
    BY <2>1, <2>2
<1>. QED
  BY <1>2

(* Somebody else's edit. *)
LEMMA OthersEdit ==
  ASSUME STypeOK, Counted, NEW d \in Docs, edits < MaxEdits, edits' = edits + 1,
         NEW by \in {"others", "silent"}, Adds(d, HeadText(d) \cup {edits'}, by), UNCHANGED saves
  PROVE  /\ HeadText(d) \cup {edits'} \in Text /\ HeadText(d) \subseteq 1..edits
         /\ Head_(d) + 1 \in Rev
         /\ edits' \in 0..MaxEdits /\ edits' \in Nat /\ edits \in Nat
         /\ \A x \in Docs : Head_(x)' <= edits' + saves'
         /\ \A x \in Docs : Head_(x) < edits + saves => Head_(x)' < edits' + saves'
         /\ \A x \in Docs : \A i \in DOMAIN store'[x] : store'[x][i].text \subseteq 1..edits'
         /\ 1..edits \subseteq 1..edits'
<1>1. /\ edits \in Nat /\ saves \in Nat /\ edits' \in Nat /\ edits' \in 1..MaxEdits
      /\ saves <= MaxSaves /\ MaxEdits \in Nat /\ MaxSaves \in Nat
  BY Bounded DEF STypeOK
<1>2. /\ HeadText(d) \cup {edits'} \in Text
      /\ HeadText(d) \subseteq 1..edits
  <2>1. HeadText(d) \subseteq 1..edits
    BY StoreTypes DEF Counted, TextOf, NullRev
  <2>2. HeadText(d) \in Text
    BY StoreTypes
  <2>. QED
    BY <1>1, <2>1, <2>2 DEF Text
<1>3. \A x \in Docs : Head_(x) \in Nat /\ Head_(x) <= edits + saves
  BY StoreTypes DEF Counted
<1>4. Head_(d) + 1 \in Rev
  BY <1>1, <1>3 DEF Rev
<1>5. \A x \in Docs : Head_(x)' = IF x = d THEN Head_(x) + 1 ELSE Head_(x)
  BY <1>2, TextsStay
<1>6. \A x \in Docs : Head_(x)' <= edits' + saves'
  BY <1>1, <1>3, <1>5
<1>7. \A x \in Docs : Head_(x) < edits + saves => Head_(x)' < edits' + saves'
  BY <1>1, <1>3, <1>5
<1>8. 1..edits \subseteq 1..edits' /\ HeadText(d) \cup {edits'} \subseteq 1..edits'
  BY <1>1, <1>2
<1>9. \A x \in Docs : \A i \in DOMAIN store'[x] : store'[x][i].text \subseteq 1..edits'
  BY <1>1, <1>2, <1>8, CommitTexts
<1>. QED
  BY <1>1, <1>2, <1>4, <1>6, <1>7, <1>8, <1>9

LEMMA CoreOthersCommit ==
  ASSUME CoreInv, NEW d \in Docs, OthersCommit(d)
  PROVE  CoreInv'
<1>. USE DEF CoreInv
<1>1. /\ edits < MaxEdits /\ edits' = edits + 1
      /\ Adds(d, HeadText(d) \cup {edits'}, "others")
      /\ unsent' = unsent \cup {[path |-> d, rev |-> Head_(d) + 1]}
      /\ UNCHANGED <<events, serving, requests, answers, buffer, saving, deferred, link,
                     missed, saves, opens, faults>>
  BY DEF OthersCommit, shell
<1>2. /\ HeadText(d) \cup {edits'} \in Text /\ Head_(d) + 1 \in Rev
      /\ edits' \in 0..MaxEdits /\ 1..edits \subseteq 1..edits'
      /\ \A x \in Docs : Head_(x)' <= edits' + saves'
      /\ \A x \in Docs : Head_(x) < edits + saves => Head_(x)' < edits' + saves'
      /\ \A x \in Docs : \A i \in DOMAIN store'[x] : store'[x][i].text \subseteq 1..edits'
  BY <1>1, OthersEdit
<1>3. /\ store' \in [Docs -> Seq([text: Text, by: {"shell", "others", "silent"}])]
      /\ [path |-> d, rev |-> Head_(d) + 1] \in Commit /\ Head_(d) + 1 >= 1
  BY <1>1, <1>2, CommitCounted
<1>4. STypeOK'
  BY <1>1, <1>2, <1>3 DEF STypeOK
<1>5. SaveInFlight'
  BY <1>1 DEF SaveInFlight
<1>6. Counted'
  BY <1>1, <1>2 DEF Counted
<1>7. Numbered'
  BY <1>1, <1>3 DEF Numbered
<1>. QED
  BY <1>4, <1>5, <1>6, <1>7

LEMMA CoreCommitSilently ==
  ASSUME CoreInv, NEW d \in Docs, CommitSilently(d)
  PROVE  CoreInv'
<1>. USE DEF CoreInv
<1>1. /\ edits < MaxEdits /\ edits' = edits + 1
      /\ Adds(d, HeadText(d) \cup {edits'}, "silent")
      /\ UNCHANGED <<unsent, events, serving, requests, answers, buffer, saving, deferred, link,
                     missed, saves, opens, faults>>
  BY DEF CommitSilently, shell
<1>2. /\ HeadText(d) \cup {edits'} \in Text /\ Head_(d) + 1 \in Rev
      /\ edits' \in 0..MaxEdits /\ 1..edits \subseteq 1..edits'
      /\ \A x \in Docs : Head_(x)' <= edits' + saves'
      /\ \A x \in Docs : Head_(x) < edits + saves => Head_(x)' < edits' + saves'
      /\ \A x \in Docs : \A i \in DOMAIN store'[x] : store'[x][i].text \subseteq 1..edits'
  BY <1>1, OthersEdit
<1>3. store' \in [Docs -> Seq([text: Text, by: {"shell", "others", "silent"}])]
  BY <1>1, <1>2, CommitCounted
<1>4. STypeOK'
  BY <1>1, <1>2, <1>3 DEF STypeOK
<1>5. SaveInFlight'
  BY <1>1 DEF SaveInFlight
<1>6. Counted'
  BY <1>1, <1>2 DEF Counted
<1>7. Numbered'
  BY <1>1 DEF Numbered
<1>. QED
  BY <1>4, <1>5, <1>6, <1>7

LEMMA CorePublish ==
  ASSUME CoreInv, NEW c \in unsent, Publish(c)
  PROVE  CoreInv'
<1>. USE DEF CoreInv
<1>1. /\ unsent' = unsent \ {c} /\ c \in Commit /\ c.rev >= 1
      /\ events' = IF link = "up" THEN Append(events, c) ELSE events
      /\ UNCHANGED <<store, serving, requests, answers, buffer, saving, deferred, link,
                     missed, edits, saves, opens, faults>>
  BY DEF Publish, shell, counters, STypeOK, Numbered
<1>2. events' \in Seq(Commit) /\ \A i \in DOMAIN events' : events'[i].rev >= 1
  <2>1. events \in Seq(Commit) /\ \A i \in DOMAIN events : events[i].rev >= 1
    BY DEF STypeOK, Numbered
  <2>2. CASE link = "up"
    BY <1>1, <2>1, <2>2, Appended
  <2>3. CASE link # "up"
    BY <1>1, <2>1, <2>3
  <2>. QED
    BY <2>2, <2>3
<1>3. STypeOK'
  BY <1>1, <1>2 DEF STypeOK
<1>4. SaveInFlight'
  BY <1>1 DEF SaveInFlight
<1>5. Counted' /\ Numbered'
  BY <1>1, <1>2 DEF Counted, Numbered, Head_
<1>. QED
  BY <1>3, <1>4, <1>5

(* The save whose request is at hand is the only message of a save. *)
LEMMA SaveTaken ==
  ASSUME STypeOK, SaveInFlight, NEW kind, Take(kind), ForSave(Head(requests))
  PROVE  /\ NoneForSave(requests') /\ NoneForSave(answers) /\ saving # Nothing
         /\ OfThisSave(Head(requests), saving)
<1>1. 1 \in DOMAIN requests /\ Head(requests) = requests[1] /\ link = "up" /\ serving = Nothing
  BY Taken
<1>2. ~ NoneForSave(requests) /\ OfThisSave(Head(requests), saving)
  BY <1>1 DEF NoneForSave, SaveInFlight
<1>3. saving # Nothing /\ OneForSave(requests) /\ NoneForSave(answers)
  BY <1>1, <1>2 DEF SaveInFlight
<1>4. NoneForSave(requests')
  BY <1>3, Taken, NoneTaken DEF STypeOK
<1>. QED
  BY <1>2, <1>3, <1>4

(* The request of a save was taken, and its answer is on the way. *)
LEMMA SaveAnswered ==
  ASSUME STypeOK, SaveInFlight, NEW kind, Take(kind), ForSave(Head(requests)),
         NEW a \in Answer, Reply(a), ForSave(a), OfThisSave(a, saving),
         UNCHANGED <<serving, buffer, saving, link, missed, saves, events>>
  PROVE  SaveInFlight'
<1>1. /\ NoneForSave(requests') /\ NoneForSave(answers) /\ saving # Nothing
  BY SaveTaken
<1>2. OneForSave(answers')
  BY <1>1, NoneAppended DEF STypeOK, Reply
<1>3. link = "up" /\ serving = Nothing
  BY Taken
<1>4. \A i \in DOMAIN answers' : ForSave(answers'[i]) => OfThisSave(answers'[i], saving)
  BY <1>1, Replied DEF NoneForSave
<1>5. \A i \in DOMAIN requests' : ~ ForSave(requests'[i])
  BY <1>1 DEF NoneForSave
<1>. QED
  BY <1>1, <1>2, <1>3, <1>4, <1>5 DEF SaveInFlight

(* A request that is not a save's was answered. *)
LEMMA OtherAnswered ==
  ASSUME STypeOK, SaveInFlight, NEW kind, Take(kind), ~ ForSave(Head(requests)),
         NEW a \in Answer, Reply(a), ~ ForSave(a),
         UNCHANGED <<serving, buffer, saving, link, missed, saves, events>>
  PROVE  SaveInFlight'
<1>1. /\ NoneForSave(requests) => NoneForSave(requests')
      /\ OneForSave(requests) => OneForSave(requests')
  BY Taken, NoneTaken DEF STypeOK
<1>2. /\ NoneForSave(answers) => NoneForSave(answers')
      /\ OneForSave(answers) => OneForSave(answers')
  BY NoneAppended DEF STypeOK, Reply
<1>3. link = "up" /\ serving = Nothing
  BY Taken
<1>4. \A i \in DOMAIN answers' : ForSave(answers'[i]) => OfThisSave(answers'[i], saving)
  BY Replied DEF SaveInFlight
<1>5. \A i \in DOMAIN requests' : ForSave(requests'[i]) => OfThisSave(requests'[i], saving)
  BY Taken DEF SaveInFlight
<1>. QED
  BY <1>1, <1>2, <1>3, <1>4, <1>5 DEF SaveInFlight

(* A request was taken: what is counted stays so. *)
LEMMA CountedTaken ==
  ASSUME STypeOK, Counted, NEW kind, Take(kind),
         UNCHANGED <<store, buffer, saving, edits, saves>>
  PROVE  Counted'
<1>1. (\E i \in DOMAIN requests' : requests'[i].kind = "save") =>
        \E i \in DOMAIN requests : requests[i].kind = "save"
  BY Taken
<1>. QED
  BY <1>1 DEF Counted, Head_

LEMMA NumberedReplied ==
  ASSUME STypeOK, Numbered, NEW a \in Answer, Reply(a),
         a.kind \in {"event", "loaded", "saved"} => a.rev >= 1,
         unsent' = unsent, deferred' = deferred,
         \A i \in DOMAIN events' : \E j \in DOMAIN events : events'[i] = events[j],
         serving' # Nothing => serving'.rev >= 1
  PROVE  Numbered'
<1>1. \A i \in DOMAIN answers' :
        answers'[i].kind \in {"event", "loaded", "saved"} => answers'[i].rev >= 1
  BY Replied DEF Numbered
<1>. QED
  BY <1>1 DEF Numbered

LEMMA CoreServeSave ==
  ASSUME CoreInv, ServeSave
  PROVE  CoreInv'
<1>. USE DEF CoreInv
<1>. DEFINE r == Head(requests)
            d == r.path
            n == Head_(d) + 1
            c == [path |-> d, rev |-> n]
<1>1. /\ Take("save") /\ Adds(d, r.text, "shell") /\ serving' = c
      /\ UNCHANGED <<unsent, events, answers, buffer, saving, deferred, link, missed, edits,
                     saves, opens, faults>>
  BY DEF ServeSave, shell, counters
<1>2. /\ r \in Request /\ r.kind = "save" /\ requests' \in Seq(Request) /\ r = requests[1]
      /\ 1 \in DOMAIN requests /\ link = "up" /\ serving = Nothing
  BY <1>1, Taken
<1>3. ForSave(r) /\ d \in Docs /\ r.text \in Text
  BY <1>2, RequestByKind DEF ForSave
<1>4. /\ NoneForSave(requests') /\ NoneForSave(answers) /\ saving # Nothing
      /\ saving.phase = "sent" /\ d = saving.path /\ r.text = saving.text
  BY <1>1, <1>2, <1>3, SaveTaken DEF OfThisSave, PhaseOf
<1>5. /\ \A x \in Docs : Head_(x) \in Nat /\ Head_(x) < edits + saves
      /\ edits \in 0..MaxEdits /\ saves \in 0..MaxSaves /\ MaxEdits \in Nat /\ MaxSaves \in Nat
  BY <1>2, StoreTypes, Bounded DEF Counted, STypeOK
<1>6. n \in Rev
  BY <1>3, <1>5 DEF Rev
<1>7. /\ store' \in [Docs -> Seq([text: Text, by: {"shell", "others", "silent"}])]
      /\ c \in Commit /\ n >= 1
  BY <1>1, <1>3, <1>6, CommitCounted
<1>8. c # Nothing
  BY <1>7, NotNothing
<1>9. STypeOK'
  BY <1>1, <1>2, <1>7 DEF STypeOK
<1>10. SaveInFlight'
  <2>1. serving' # Nothing /\ serving'.path = saving.path
    BY <1>1, <1>4, <1>8
  <2>. QED
    BY <1>1, <1>2, <1>4, <2>1 DEF SaveInFlight, NoneForSave
<1>11. Counted'
  <2>1. r.text \subseteq 1..edits
    BY <1>4 DEF Counted
  <2>2. \A x \in Docs : \A i \in DOMAIN store'[x] : store'[x][i].text \subseteq 1..edits'
    BY <1>1, <1>3, <1>5, <2>1, CommitTexts
  <2>3. \A x \in Docs : Head_(x)' = IF x = d THEN Head_(x) + 1 ELSE Head_(x)
    BY <1>1, <1>3, TextsStay
  <2>4. \A x \in Docs : Head_(x)' <= edits + saves
    BY <1>5, <2>3
  <2>5. \A i \in DOMAIN requests' : requests'[i].kind # "save"
    BY <1>4 DEF NoneForSave, ForSave
  <2>. QED
    BY <1>1, <2>2, <2>4, <2>5 DEF Counted
<1>12. Numbered'
  BY <1>1, <1>7 DEF Numbered
<1>. QED
  BY <1>9, <1>10, <1>11, <1>12

LEMMA CoreFinishSave ==
  ASSUME CoreInv, FinishSave
  PROVE  CoreInv'
<1>. USE DEF CoreInv
<1>. DEFINE a == [kind |-> "saved", path |-> serving.path, rev |-> serving.rev]
<1>1. /\ link = "up" /\ serving # Nothing /\ events' = Append(events, serving) /\ Reply(a)
      /\ serving' = Nothing
      /\ UNCHANGED <<store, unsent, requests, buffer, saving, deferred, link, missed, edits,
                     saves, opens, faults>>
  BY DEF FinishSave, shell, counters
<1>2. /\ serving \in Commit /\ serving.rev >= 1 /\ a \in Answer /\ ForSave(a)
  BY <1>1, AnswersMade DEF STypeOK, Numbered, Commit, ForSave
<1>3. /\ saving # Nothing /\ OfThisSave(a, saving)
      /\ NoneForSave(requests) /\ NoneForSave(answers)
  BY <1>1 DEF SaveInFlight, OfThisSave, PhaseOf
<1>4. events' \in Seq(Commit) /\ \A i \in DOMAIN events' : events'[i].rev >= 1
  BY <1>1, <1>2, Appended DEF STypeOK, Numbered
<1>5. answers' \in Seq(Answer) /\ OneForSave(answers')
  <2>1. answers \in Seq(Answer) /\ answers' = Append(answers, a)
    BY <1>1 DEF Reply, STypeOK
  <2>. HIDE DEF a
  <2>2. OneForSave(answers')
    BY <1>2, <1>3, <2>1, NoneAppended
  <2>3. answers' \in Seq(Answer)
    BY <1>2, <2>1, Appended
  <2>. QED
    BY <2>2, <2>3
<1>6. STypeOK'
  BY <1>1, <1>4, <1>5 DEF STypeOK
<1>7. SaveInFlight'
  <2>1. \A i \in DOMAIN answers' : ForSave(answers'[i]) => OfThisSave(answers'[i], saving)
    BY <1>1, <1>2, <1>3, Replied DEF NoneForSave
  <2>. QED
    BY <1>1, <1>3, <1>5, <2>1 DEF SaveInFlight, NoneForSave
<1>8. Counted'
  BY <1>1 DEF Counted, Head_
<1>9. Numbered'
  <2>1. \A i \in DOMAIN answers' :
          answers'[i].kind \in {"event", "loaded", "saved"} => answers'[i].rev >= 1
    BY <1>1, <1>2, Replied DEF Numbered
  <2>. QED
    BY <1>1, <1>4, <2>1 DEF Numbered
<1>. QED
  BY <1>6, <1>7, <1>8, <1>9

LEMMA CoreServeStale ==
  ASSUME CoreInv, ServeStale
  PROVE  CoreInv'
<1>. USE DEF CoreInv
<1>. DEFINE r == Head(requests)
            d == r.path
            a == [kind |-> "stale"]
<1>1. /\ Take("save") /\ Reply(a)
      /\ UNCHANGED <<unsent, events, serving, buffer, saving, deferred, link, missed, saves,
                     opens, faults>>
  BY DEF ServeStale, shell
<1>2. /\ r \in Request /\ r.kind = "save" /\ requests' \in Seq(Request) /\ r = requests[1]
      /\ 1 \in DOMAIN requests
  BY <1>1, Taken
<1>3. ForSave(r) /\ d \in Docs /\ a \in Answer /\ ForSave(a)
  BY <1>2, RequestByKind, AnswersMade DEF ForSave
<1>4. NoneForSave(requests') /\ OfThisSave(r, saving)
  BY <1>1, <1>2, <1>3, SaveTaken
<1>5. OfThisSave(a, saving)
  BY <1>2, <1>4 DEF OfThisSave, PhaseOf
<1>6. SaveInFlight'
  BY <1>1, <1>3, <1>5, SaveAnswered
<1>7. answers' \in Seq(Answer)
  BY <1>1, <1>3, Replied
<1>8. Numbered'
  BY <1>1, <1>3, NumberedReplied DEF Numbered
<1>9. CASE UNCHANGED <<store, edits>>
  <2>1. STypeOK'
    BY <1>1, <1>2, <1>7, <1>9 DEF STypeOK
  <2>2. Counted'
    BY <1>1, <1>9, CountedTaken
  <2>. QED
    BY <1>6, <1>8, <2>1, <2>2
<1>10. CASE /\ edits < MaxEdits /\ edits' = edits + 1
            /\ Adds(d, HeadText(d) \cup {edits'}, "others")
  <2>1. /\ HeadText(d) \cup {edits'} \in Text /\ Head_(d) + 1 \in Rev
        /\ edits' \in 0..MaxEdits /\ 1..edits \subseteq 1..edits'
        /\ \A x \in Docs : Head_(x)' <= edits' + saves'
        /\ \A x \in Docs : \A i \in DOMAIN store'[x] : store'[x][i].text \subseteq 1..edits'
    BY <1>1, <1>3, <1>10, OthersEdit
  <2>2. store' \in [Docs -> Seq([text: Text, by: {"shell", "others", "silent"}])]
    BY <1>3, <1>10, <2>1, CommitCounted
  <2>3. STypeOK'
    BY <1>1, <1>2, <1>7, <2>1, <2>2 DEF STypeOK
  <2>4. \A i \in DOMAIN requests' : requests'[i].kind # "save"
    BY <1>4 DEF NoneForSave, ForSave
  <2>5. Counted'
    BY <1>1, <2>1, <2>4 DEF Counted
  <2>. QED
    BY <1>6, <1>8, <2>3, <2>5
<1>. QED
  BY <1>9, <1>10 DEF ServeStale

LEMMA CoreServeRefused ==
  ASSUME CoreInv, ServeRefused
  PROVE  CoreInv'
<1>. USE DEF CoreInv
<1>. DEFINE r == Head(requests)
            a == [kind |-> "refused"]
<1>1. /\ Take("save") /\ Reply(a)
      /\ UNCHANGED <<store, unsent, events, serving, buffer, saving, deferred, link, missed,
                     edits, saves, opens, faults>>
  BY DEF ServeRefused, server, shell, counters
<1>2. r \in Request /\ r.kind = "save" /\ requests' \in Seq(Request)
  BY <1>1, Taken
<1>3. ForSave(r) /\ a \in Answer /\ ForSave(a)
  BY <1>2, AnswersMade DEF ForSave
<1>4. OfThisSave(a, saving)
  BY <1>1, <1>2, <1>3, SaveTaken DEF OfThisSave, PhaseOf
<1>5. SaveInFlight'
  BY <1>1, <1>3, <1>4, SaveAnswered
<1>6. answers' \in Seq(Answer)
  BY <1>1, <1>3, Replied
<1>7. Counted' /\ Numbered'
  BY <1>1, <1>3, CountedTaken, NumberedReplied DEF Numbered
<1>8. STypeOK'
  BY <1>1, <1>2, <1>6 DEF STypeOK
<1>. QED
  BY <1>5, <1>7, <1>8

(* The answer to a read, by the head of the document. *)
ReadAnswer(r) ==
  IF store[r.path] = <<>> THEN [kind |-> "missing", why |-> r.why]
  ELSE [kind |-> "loaded", why |-> r.why, path |-> r.path, rev |-> Head_(r.path),
        text |-> HeadText(r.path)]

LEMMA ReadAnswered ==
  ASSUME STypeOK, Counted, NEW r \in Request, r.kind = "read"
  PROVE  /\ ReadAnswer(r) \in Answer /\ ReadAnswer(r).kind \in {"loaded", "missing"}
         /\ ReadAnswer(r).why = r.why
         /\ ReadAnswer(r).kind = "loaded" => 
              /\ ReadAnswer(r).path = r.path /\ ReadAnswer(r).rev = Head_(r.path)
              /\ ReadAnswer(r).text = HeadText(r.path) /\ ReadAnswer(r).rev >= 1
         /\ Head_(r.path) # 0 => ReadAnswer(r).kind = "loaded"
<1>1. r.path \in Docs /\ r.why \in {"open", "refresh", "reread"}
  BY RequestByKind
<1>2. /\ store[r.path] \in Seq(Revision) /\ Head_(r.path) \in Nat /\ HeadText(r.path) \in Text
      /\ Head_(r.path) <= edits + saves
  BY <1>1, StoreTypes DEF Counted
<1>3. Head_(r.path) \in Rev
  BY <1>2, Bounded DEF Rev, STypeOK
<1>4. store[r.path] = <<>> <=> Head_(r.path) = 0
  BY <1>2, EmptySeq DEF Head_
<1>5. CASE store[r.path] = <<>>
  BY <1>1, <1>4, <1>5, AnswersMade DEF ReadAnswer
<1>6. CASE store[r.path] # <<>>
  BY <1>1, <1>2, <1>3, <1>4, <1>6, AnswersMade DEF ReadAnswer
<1>. QED
  BY <1>5, <1>6

LEMMA CoreServeRead ==
  ASSUME CoreInv, ServeRead
  PROVE  CoreInv'
<1>. USE DEF CoreInv
<1>. DEFINE r == Head(requests)
            a == ReadAnswer(r)
<1>1. /\ Take("read") /\ Reply(a)
      /\ UNCHANGED <<store, unsent, events, serving, buffer, saving, deferred, link, missed,
                     edits, saves, opens, faults>>
  BY DEF ServeRead, ReadAnswer, server, shell, counters
<1>2. r \in Request /\ r.kind = "read" /\ requests' \in Seq(Request)
  BY <1>1, Taken
<1>3. /\ a \in Answer /\ a.kind \in {"loaded", "missing"} /\ a.why = r.why
      /\ a.kind = "loaded" => a.path = r.path /\ a.rev >= 1
  BY <1>2, ReadAnswered
<1>. HIDE DEF a
<1>4. SaveInFlight'
  <2>1. CASE r.why = "reread"
    <3>1. ForSave(r) /\ ForSave(a)
      BY <1>2, <1>3, <2>1 DEF ForSave
    <3>2. OfThisSave(a, saving)
      BY <1>1, <1>2, <1>3, <3>1, SaveTaken DEF OfThisSave, PhaseOf
    <3>. QED
      BY <1>1, <1>3, <3>1, <3>2, SaveAnswered
  <2>2. CASE r.why # "reread"
    <3>1. ~ ForSave(r) /\ ~ ForSave(a)
      BY <1>2, <1>3, <2>2 DEF ForSave
    <3>. QED
      BY <1>1, <1>3, <3>1, OtherAnswered
  <2>. QED
    BY <2>1, <2>2
<1>5. answers' \in Seq(Answer)
  BY <1>1, <1>3, Replied
<1>6. Counted' /\ Numbered'
  BY <1>1, <1>3, CountedTaken, NumberedReplied DEF Numbered
<1>7. STypeOK'
  BY <1>1, <1>2, <1>5 DEF STypeOK
<1>. QED
  BY <1>4, <1>6, <1>7

LEMMA CoreServeList ==
  ASSUME CoreInv, ServeList
  PROVE  CoreInv'
<1>. USE DEF CoreInv
<1>. DEFINE r == Head(requests)
            a == [kind |-> "listed"]
<1>1. /\ Take("list") /\ Reply(a)
      /\ UNCHANGED <<store, unsent, events, serving, buffer, saving, deferred, link, missed,
                     edits, saves, opens, faults>>
  BY DEF ServeList, server, shell, counters
<1>2. r \in Request /\ r.kind = "list" /\ requests' \in Seq(Request)
  BY <1>1, Taken
<1>3. ForSave(r) /\ a \in Answer /\ ForSave(a)
  BY <1>2, AnswersMade DEF ForSave
<1>4. OfThisSave(a, saving)
  BY <1>1, <1>2, <1>3, SaveTaken DEF OfThisSave, PhaseOf
<1>5. SaveInFlight'
  BY <1>1, <1>3, <1>4, SaveAnswered
<1>6. answers' \in Seq(Answer)
  BY <1>1, <1>3, Replied
<1>7. Counted' /\ Numbered'
  BY <1>1, <1>3, CountedTaken, NumberedReplied DEF Numbered
<1>8. STypeOK'
  BY <1>1, <1>2, <1>6 DEF STypeOK
<1>. QED
  BY <1>5, <1>7, <1>8

LEMMA CoreForward ==
  ASSUME CoreInv, Forward
  PROVE  CoreInv'
<1>. USE DEF CoreInv
<1>. DEFINE e == Head(events)
            a == [kind |-> "event", path |-> e.path, rev |-> e.rev]
<1>1. /\ link = "up" /\ serving = Nothing /\ events # <<>> /\ Reply(a) /\ events' = Tail(events)
      /\ UNCHANGED <<store, unsent, serving, requests, buffer, saving, deferred, link, missed,
                     edits, saves, opens, faults>>
  BY DEF Forward, Idle, shell, counters
<1>2. /\ e \in Commit /\ e = events[1] /\ 1 \in DOMAIN events /\ events' \in Seq(Commit)
      /\ \A i \in DOMAIN events' : \E j \in DOMAIN events : events'[i] = events[j]
  BY <1>1, HeadAndTail DEF STypeOK
<1>3. a \in Answer /\ a.rev >= 1 /\ ~ ForSave(a)
  BY <1>2, AnswersMade DEF Commit, Numbered, ForSave
<1>4. answers' \in Seq(Answer)
  BY <1>1, <1>3, Replied
<1>5. STypeOK'
  BY <1>1, <1>2, <1>4 DEF STypeOK
<1>6. SaveInFlight'
  <2>1. /\ NoneForSave(answers) => NoneForSave(answers')
        /\ OneForSave(answers) => OneForSave(answers')
    BY <1>1, <1>3, NoneAppended DEF STypeOK, Reply
  <2>2. \A i \in DOMAIN answers' : ForSave(answers'[i]) => OfThisSave(answers'[i], saving)
    BY <1>1, <1>3, Replied DEF SaveInFlight
  <2>. QED
    BY <1>1, <2>1, <2>2 DEF SaveInFlight
<1>7. Counted'
  BY <1>1 DEF Counted, Head_
<1>8. Numbered'
  BY <1>1, <1>2, <1>3, NumberedReplied DEF Numbered
<1>. QED
  BY <1>5, <1>6, <1>7, <1>8

-------------------------------------------------------------------------------
(* The core of the invariant is kept by the shell.                         *)

(* What is counted, when nothing is committed. *)
LEMMA CountedKept ==
  ASSUME Counted, UNCHANGED <<store, edits, saves>>,
         \A i \in DOMAIN requests' :
           requests'[i].kind = "save" => \E j \in DOMAIN requests : requests[j].kind = "save",
         buffer' # Nothing => buffer'.text \subseteq 1..edits,
         saving' # Nothing => saving'.text \subseteq 1..edits
  PROVE  Counted'
<1>. QED
  BY DEF Counted, Head_

LEMMA NumberedReceived ==
  ASSUME STypeOK, Numbered, NEW kind, Receive(kind), UNCHANGED <<unsent, events, serving>>,
         \A i \in DOMAIN deferred' : deferred'[i].rev >= 1
  PROVE  Numbered'
<1>1. \A i \in DOMAIN answers' :
        answers'[i].kind \in {"event", "loaded", "saved"} => answers'[i].rev >= 1
  BY Received DEF Numbered
<1>. QED
  BY <1>1 DEF Numbered

(* The shell asks for something that is not a save's. *)
LEMMA OthersAsked ==
  ASSUME STypeOK, NEW u \in Seq(Request), requests' = requests \o u,
         \A i \in DOMAIN u : ~ ForSave(u[i])
  PROVE  /\ requests' \in Seq(Request)
         /\ NoneForSave(requests) => NoneForSave(requests')
         /\ OneForSave(requests) => OneForSave(requests')
         /\ \A i \in DOMAIN requests' :
              ForSave(requests'[i]) => i \in DOMAIN requests /\ requests'[i] = requests[i]
         /\ \A i \in DOMAIN requests' :
              requests'[i].kind = "save" => \E j \in DOMAIN requests : requests[j].kind = "save"
<1>1. requests \in Seq(Request)
  BY DEF STypeOK
<1>2. /\ requests' \in Seq(Request)
      /\ \A i \in DOMAIN requests' :
           \/ i \in DOMAIN requests /\ requests'[i] = requests[i]
           \/ i - Len(requests) \in DOMAIN u /\ requests'[i] = u[i - Len(requests)]
  BY <1>1, Concatenated
<1>3. NoneForSave(u)
  BY DEF NoneForSave
<1>4. /\ NoneForSave(requests) => NoneForSave(requests')
      /\ OneForSave(requests) => OneForSave(requests')
  BY <1>1, <1>3, NoneConcatenated
<1>5. \A i \in DOMAIN requests' :
        ForSave(requests'[i]) => i \in DOMAIN requests /\ requests'[i] = requests[i]
  BY <1>2
<1>6. \A i \in DOMAIN requests' :
        requests'[i].kind = "save" => i \in DOMAIN requests /\ requests'[i] = requests[i]
  BY <1>5 DEF ForSave
<1>. QED
  BY <1>2, <1>4, <1>5, <1>6

(* The answer of a save is the only message of a save. *)
LEMMA SaveReceived ==
  ASSUME STypeOK, SaveInFlight, NEW kind, Receive(kind), ForSave(Head(answers))
  PROVE  /\ NoneForSave(answers') /\ NoneForSave(requests) /\ serving = Nothing
         /\ saving # Nothing /\ OfThisSave(Head(answers), saving) /\ buffer # Nothing
<1>1. 1 \in DOMAIN answers /\ Head(answers) = answers[1] /\ link = "up"
  BY Received
<1>2. ~ NoneForSave(answers) /\ OfThisSave(Head(answers), saving)
  BY <1>1 DEF NoneForSave, SaveInFlight
<1>3. /\ saving # Nothing /\ OneForSave(answers) /\ NoneForSave(requests) /\ serving = Nothing
      /\ buffer # Nothing
  BY <1>1, <1>2 DEF SaveInFlight
<1>4. NoneForSave(answers')
  BY <1>3, NoneTaken DEF STypeOK, Receive
<1>. QED
  BY <1>2, <1>3, <1>4

(* An answer that is not a save's was received. *)
LEMMA OtherReceived ==
  ASSUME STypeOK, SaveInFlight, NEW kind, Receive(kind), ~ ForSave(Head(answers)),
         NEW u \in Seq(Request), requests' = requests \o u,
         \A i \in DOMAIN u : ~ ForSave(u[i]),
         buffer # Nothing => buffer' # Nothing,
         UNCHANGED <<serving, saving, link, missed, saves, events>>
  PROVE  SaveInFlight'
<1>1. /\ NoneForSave(requests) => NoneForSave(requests')
      /\ OneForSave(requests) => OneForSave(requests')
      /\ \A i \in DOMAIN requests' :
           ForSave(requests'[i]) => i \in DOMAIN requests /\ requests'[i] = requests[i]
  BY OthersAsked
<1>2. /\ NoneForSave(answers) => NoneForSave(answers')
      /\ OneForSave(answers) => OneForSave(answers')
  BY NoneTaken DEF STypeOK, Receive
<1>3. link = "up" /\ \A i \in DOMAIN answers' : i + 1 \in DOMAIN answers /\ answers'[i] = answers[i + 1]
  BY Received
<1>4. \A i \in DOMAIN answers' : ForSave(answers'[i]) => OfThisSave(answers'[i], saving)
  BY <1>3 DEF SaveInFlight
<1>5. \A i \in DOMAIN requests' : ForSave(requests'[i]) => OfThisSave(requests'[i], saving)
  BY <1>1 DEF SaveInFlight
<1>. QED
  BY <1>1, <1>2, <1>3, <1>4, <1>5 DEF SaveInFlight

(* Asking for nothing is a special case. *)
LEMMA NothingAsked ==
  ASSUME STypeOK
  PROVE  <<>> \in Seq(Request) /\ requests = requests \o <<>> /\ \A i \in DOMAIN <<>> : FALSE
<1>. QED
  BY ConcatEmptySeq DEF STypeOK

LEMMA CoreType ==
  ASSUME CoreInv, Type
  PROVE  CoreInv'
<1>. USE DEF CoreInv
<1>1. /\ link # "lost" /\ buffer # Nothing /\ edits < MaxEdits /\ edits' = edits + 1
      /\ buffer' = [buffer EXCEPT !.text = @ \cup {edits'}, !.dirty = TRUE]
      /\ UNCHANGED <<store, unsent, events, serving, requests, answers, saving, deferred, link,
                     missed, saves, opens, faults>>
  BY DEF Type, server
<1>2. /\ edits \in Nat /\ edits' \in 1..MaxEdits /\ 1..edits \subseteq 1..edits' /\ saves \in Nat
      /\ edits' \in 0..MaxEdits
  BY <1>1, Bounded DEF STypeOK
<1>3. buffer \in Buffer /\ buffer.text \subseteq 1..edits
  BY <1>1 DEF STypeOK, Counted
<1>4. buffer' \in Buffer /\ buffer'.text \subseteq 1..edits'
  <2>. DEFINE t == buffer.text \cup {edits'}
  <2>1. t \in Text /\ t \subseteq 1..edits'
    BY <1>2, <1>3 DEF Buffer, Text
  <2>2. buffer' = [buffer EXCEPT !.text = t, !.dirty = TRUE]
    BY <1>1
  <2>. HIDE DEF t
  <2>. QED
    BY <1>3, <2>1, <2>2 DEF Buffer
<1>5. STypeOK'
  BY <1>1, <1>2, <1>4 DEF STypeOK
<1>6. SaveInFlight'
  <2>1. buffer' # Nothing
    BY <1>4, NotNothing
  <2>. QED
    BY <1>1, <2>1 DEF SaveInFlight
<1>7. Counted'
  <2>1. \A d \in Docs : Head_(d) \in Nat /\ Head_(d)' = Head_(d)
    BY <1>1, StoreTypes DEF Head_
  <2>2. /\ \A d \in Docs : Head_(d)' <= edits' + saves'
        /\ (\E i \in DOMAIN requests' : requests'[i].kind = "save") =>
             \A d \in Docs : Head_(d)' < edits' + saves'
    BY <1>1, <1>2, <2>1 DEF Counted
  <2>. QED
    BY <1>1, <1>2, <1>4, <2>2 DEF Counted
<1>8. Numbered'
  BY <1>1 DEF Numbered
<1>. QED
  BY <1>5, <1>6, <1>7, <1>8

LEMMA CoreOpenDoc ==
  ASSUME CoreInv, NEW d \in Docs, OpenDoc(d)
  PROVE  CoreInv'
<1>. USE DEF CoreInv
<1>. DEFINE r == [kind |-> "read", path |-> d, why |-> "open"]
<1>1. /\ link = "up" /\ opens < MaxOpens /\ opens' = opens + 1 /\ Ask(r)
      /\ UNCHANGED <<store, unsent, events, serving, answers, buffer, saving, deferred, link,
                     missed, edits, saves, faults>>
  BY DEF OpenDoc, server, shell
<1>2. r \in Request /\ ~ ForSave(r) /\ r.kind # "save"
  BY RequestsMade DEF ForSave
<1>. HIDE DEF r
<1>3. /\ requests' \in Seq(Request)
      /\ \A i \in DOMAIN requests' :
           \/ i \in DOMAIN requests /\ requests'[i] = requests[i]
           \/ requests'[i] = r
  BY <1>1, <1>2, Asked
<1>4. opens' \in 0..MaxOpens
  BY <1>1, Bounded DEF STypeOK
<1>5. STypeOK'
  BY <1>1, <1>3, <1>4 DEF STypeOK
<1>6. SaveInFlight'
  <2>1. /\ NoneForSave(requests) => NoneForSave(requests')
        /\ OneForSave(requests) => OneForSave(requests')
    BY <1>1, <1>2, NoneAppended DEF Ask, STypeOK
  <2>2. \A i \in DOMAIN requests' : ForSave(requests'[i]) => OfThisSave(requests'[i], saving)
    BY <1>2, <1>3 DEF SaveInFlight
  <2>. QED
    BY <1>1, <2>1, <2>2 DEF SaveInFlight
<1>7. Counted'
  BY <1>1, <1>2, <1>3, CountedKept DEF Counted
<1>8. Numbered'
  BY <1>1 DEF Numbered
<1>. QED
  BY <1>5, <1>6, <1>7, <1>8

LEMMA CoreNewDoc ==
  ASSUME CoreInv, NEW d \in Docs, NewDoc(d)
  PROVE  CoreInv'
<1>. USE DEF CoreInv
<1>1. /\ link # "lost" /\ opens < MaxOpens /\ opens' = opens + 1
      /\ buffer' = [path |-> d, key |-> NullRev, base |-> NullRev, text |-> {},
                    dirty |-> TRUE, conflict |-> NullRev]
      /\ UNCHANGED <<store, unsent, events, serving, requests, answers, saving, deferred, link,
                     missed, edits, saves, faults>>
  BY DEF NewDoc, server
<1>2. buffer' \in Buffer /\ buffer'.text \subseteq 1..edits
  <2>1. NullRev \in Rev /\ {} \in Text
    BY Bounded DEF NullRev, Rev, Text
  <2>. QED
    BY <1>1, <2>1 DEF Buffer
<1>3. opens' \in 0..MaxOpens
  BY <1>1, Bounded DEF STypeOK
<1>4. STypeOK'
  BY <1>1, <1>2, <1>3 DEF STypeOK
<1>5. SaveInFlight'
  <2>1. buffer' # Nothing
    BY <1>2, NotNothing
  <2>. QED
    BY <1>1, <2>1 DEF SaveInFlight
<1>6. Counted'
  BY <1>1, <1>2, CountedKept DEF Counted
<1>7. Numbered'
  BY <1>1 DEF Numbered
<1>. QED
  BY <1>4, <1>5, <1>6, <1>7

LEMMA CoreSave ==
  ASSUME CoreInv, Save
  PROVE  CoreInv'
<1>. USE DEF CoreInv
<1>. DEFINE r == [kind |-> "save", path |-> buffer.path, text |-> buffer.text, base |-> buffer.base]
            s == [path |-> buffer.path, text |-> buffer.text, phase |-> "sent"]
<1>1. /\ link = "up" /\ buffer # Nothing /\ saving = Nothing /\ saves < MaxSaves
      /\ saves' = saves + 1 /\ saving' = s /\ Ask(r)
      /\ UNCHANGED <<store, unsent, events, serving, answers, buffer, deferred, link, missed,
                     edits, opens, faults>>
  BY DEF Save, server
<1>2. buffer \in Buffer /\ buffer.text \subseteq 1..edits
  BY <1>1 DEF STypeOK, Counted
<1>3. r \in Request /\ s \in Saving /\ ForSave(r) /\ OfThisSave(r, s)
  <2>1. r \in Request /\ s \in Saving /\ ForSave(r)
    BY <1>2, RequestsMade DEF Buffer, Saving, ForSave
  <2>2. s # Nothing
    BY <2>1, NotNothing
  <2>. QED
    BY <2>1, <2>2 DEF OfThisSave, PhaseOf
<1>4. s # Nothing
  BY <1>3, NotNothing
<1>5. s.text \subseteq 1..edits /\ s.phase = "sent"
  BY <1>2
<1>. HIDE DEF r, s
<1>6. /\ requests' \in Seq(Request)
      /\ \A i \in DOMAIN requests' :
           \/ i \in DOMAIN requests /\ requests'[i] = requests[i]
           \/ requests'[i] = r
  BY <1>1, <1>3, Asked
<1>7. saves \in Nat /\ saves' \in 0..MaxSaves /\ edits \in Nat
  BY <1>1, Bounded DEF STypeOK
<1>8. STypeOK'
  BY <1>1, <1>3, <1>4, <1>6, <1>7 DEF STypeOK
<1>9. SaveInFlight'
  <2>1. NoneForSave(requests) /\ NoneForSave(answers) /\ serving = Nothing
    BY <1>1 DEF SaveInFlight
  <2>2. OneForSave(requests')
    BY <1>1, <1>3, <2>1, NoneAppended DEF Ask, STypeOK
  <2>3. \A i \in DOMAIN requests' : ForSave(requests'[i]) => OfThisSave(requests'[i], saving')
    BY <1>1, <1>3, <1>6, <2>1 DEF NoneForSave
  <2>4. \A i \in DOMAIN answers' : ~ ForSave(answers'[i])
    BY <1>1, <2>1 DEF NoneForSave
  <2>5. saves' >= 1
    BY <1>1, <1>7
  <2>. QED
    BY <1>1, <1>4, <2>1, <2>2, <2>3, <2>4, <2>5 DEF SaveInFlight
<1>10. Counted'
  <2>1. \A d \in Docs : Head_(d) \in Nat /\ Head_(d)' = Head_(d) /\ Head_(d) <= edits + saves
    BY <1>1, StoreTypes DEF Head_, Counted
  <2>2. \A d \in Docs : Head_(d)' < edits' + saves' /\ Head_(d)' <= edits' + saves'
    BY <1>1, <1>7, <2>1
  <2>. QED
    BY <1>1, <1>5, <2>2 DEF Counted
<1>11. Numbered'
  BY <1>1 DEF Numbered
<1>. QED
  BY <1>8, <1>9, <1>10, <1>11

(* A save goes on with a request of its own. *)
LEMMA SaveGoesOn ==
  ASSUME STypeOK, SaveInFlight, NEW kind, Receive(kind), ForSave(Head(answers)),
         NEW r \in Request, Ask(r), ForSave(r), OfThisSave(r, saving'), saving' \in Saving,
         saving'.phase # "sent",
         buffer' # Nothing, UNCHANGED <<serving, link, missed, saves, events>>
  PROVE  SaveInFlight'
<1>1. /\ NoneForSave(answers') /\ NoneForSave(requests) /\ serving = Nothing
      /\ saving # Nothing /\ buffer # Nothing
  BY SaveReceived
<1>2. OneForSave(requests')
  BY <1>1, NoneAppended DEF Ask, STypeOK
<1>3. \A i \in DOMAIN requests' : ForSave(requests'[i]) => OfThisSave(requests'[i], saving')
  BY <1>1, Asked DEF NoneForSave
<1>4. link = "up" /\ saving' # Nothing
  BY Received, NotNothing
<1>5. saves >= 1
  BY <1>1 DEF SaveInFlight
<1>6. \A i \in DOMAIN answers' : ~ ForSave(answers'[i])
  BY <1>1 DEF NoneForSave
<1>. QED
  BY <1>1, <1>2, <1>3, <1>4, <1>5, <1>6 DEF SaveInFlight

LEMMA CoreReceiveSaved ==
  ASSUME CoreInv, ReceiveSaved
  PROVE  CoreInv'
<1>. USE DEF CoreInv
<1>. DEFINE r == [kind |-> "list"]
            a == Head(answers)
<1>1. /\ Receive("saved") /\ Ask(r) /\ saving' = [saving EXCEPT !.phase = "list"]
      /\ buffer' = IF SavedHere
                   THEN [buffer EXCEPT !.base = a.rev, !.dirty = buffer.text # saving.text,
                                       !.conflict = NullRev]
                   ELSE buffer
      /\ UNCHANGED <<store, unsent, events, serving, deferred, link, missed, edits, saves,
                     opens, faults>>
  BY DEF ReceiveSaved, server, counters
<1>2. /\ a \in Answer /\ a.kind = "saved" /\ answers' \in Seq(Answer)
  BY <1>1, Received
<1>3. ForSave(a) /\ a.rev \in Rev /\ r \in Request /\ ForSave(r)
  BY <1>2, AnswerByKind, RequestsMade DEF ForSave
<1>4. saving # Nothing /\ buffer # Nothing
  BY <1>1, <1>3, SaveReceived
<1>5. saving \in Saving /\ buffer \in Buffer
  BY <1>4 DEF STypeOK
<1>6. /\ saving' \in Saving /\ saving'.phase = "list" /\ saving'.text = saving.text
      /\ saving'.path = saving.path
  BY <1>1, <1>5 DEF Saving
<1>7. buffer' \in Buffer /\ buffer'.text = buffer.text
  <2>1. CASE SavedHere
    <3>1. NullRev \in Rev /\ (buffer.text # saving.text) \in BOOLEAN
      BY Bounded DEF NullRev, Rev
    <3>. QED
      BY <1>1, <1>3, <1>5, <2>1, <3>1 DEF Buffer
  <2>2. CASE ~ SavedHere
    BY <1>1, <1>5, <2>2
  <2>. QED
    BY <2>1, <2>2
<1>8. saving' # Nothing /\ buffer' # Nothing
  BY <1>6, <1>7, NotNothing
<1>9. requests' \in Seq(Request)
  BY <1>1, <1>3, Asked
<1>10. STypeOK'
  BY <1>1, <1>2, <1>6, <1>7, <1>8, <1>9 DEF STypeOK
<1>11. SaveInFlight'
  <2>1. OfThisSave(r, saving')
    BY <1>6, <1>8 DEF OfThisSave, PhaseOf
  <2>. QED
    BY <1>1, <1>3, <1>6, <1>8, <2>1, SaveGoesOn
<1>12. Counted'
  <2>1. \A i \in DOMAIN requests' :
          requests'[i].kind = "save" => \E j \in DOMAIN requests : requests[j].kind = "save"
    BY <1>1, <1>3, Asked
  <2>. QED
    BY <1>1, <1>4, <1>6, <1>7, <2>1, CountedKept DEF Counted
<1>13. Numbered'
  BY <1>1, NumberedReceived DEF Numbered
<1>. QED
  BY <1>10, <1>11, <1>12, <1>13

LEMMA CoreReceiveStale ==
  ASSUME CoreInv, ReceiveStale
  PROVE  CoreInv'
<1>. USE DEF CoreInv
<1>. DEFINE r == [kind |-> "read", path |-> saving.path, why |-> "reread"]
            a == Head(answers)
<1>1. /\ Receive("stale") /\ Ask(r) /\ saving' = [saving EXCEPT !.phase = "reread"]
      /\ UNCHANGED <<store, unsent, events, serving, buffer, deferred, link, missed, edits,
                     saves, opens, faults>>
  BY DEF ReceiveStale, server, counters
<1>2. /\ a \in Answer /\ a.kind = "stale" /\ answers' \in Seq(Answer)
  BY <1>1, Received
<1>3. ForSave(a)
  BY <1>2 DEF ForSave
<1>4. saving # Nothing /\ buffer # Nothing
  BY <1>1, <1>3, SaveReceived
<1>5. saving \in Saving
  BY <1>4 DEF STypeOK
<1>6. r \in Request /\ ForSave(r)
  BY <1>5, RequestsMade DEF ForSave, Saving
<1>7. /\ saving' \in Saving /\ saving'.phase = "reread" /\ saving'.text = saving.text
      /\ saving'.path = saving.path
  BY <1>1, <1>5 DEF Saving
<1>8. saving' # Nothing
  BY <1>7, NotNothing
<1>9. requests' \in Seq(Request)
  BY <1>1, <1>6, Asked
<1>10. STypeOK'
  BY <1>1, <1>2, <1>7, <1>8, <1>9 DEF STypeOK
<1>11. SaveInFlight'
  <2>1. OfThisSave(r, saving')
    BY <1>7, <1>8 DEF OfThisSave, PhaseOf
  <2>. QED
    BY <1>1, <1>3, <1>4, <1>6, <1>7, <2>1, SaveGoesOn
<1>12. Counted'
  <2>1. \A i \in DOMAIN requests' :
          requests'[i].kind = "save" => \E j \in DOMAIN requests : requests[j].kind = "save"
    BY <1>1, <1>6, Asked
  <2>. QED
    BY <1>1, <1>4, <1>7, <2>1, CountedKept DEF Counted
<1>13. Numbered'
  BY <1>1, NumberedReceived DEF Numbered
<1>. QED
  BY <1>10, <1>11, <1>12, <1>13

(* A save settles with the last of its answers. *)
LEMMA CoreSettles ==
  ASSUME CoreInv, NEW kind, Receive(kind), ForSave(Head(answers)),
         NEW b \in Buffer, b.text = buffer.text, Settle(b),
         UNCHANGED <<server, link, missed, counters>>
  PROVE  CoreInv'
<1>. USE DEF CoreInv
<1>. DEFINE u == Refreshes(b, deferred)
<1>1. /\ saving' = Nothing /\ deferred' = <<>> /\ buffer' = Flagged(b, deferred)
      /\ requests' = requests \o u
      /\ UNCHANGED <<store, unsent, events, serving, link, missed, edits, saves, opens, faults>>
  BY DEF Settle, server, counters
<1>2. /\ NoneForSave(answers') /\ NoneForSave(requests) /\ serving = Nothing
      /\ saving # Nothing /\ buffer # Nothing /\ link = "up" /\ answers' \in Seq(Answer)
  BY SaveReceived, Received
<1>3. deferred \in Seq(Commit)
  BY DEF STypeOK
<1>4. buffer' \in Buffer /\ buffer'.text = buffer.text
  BY <1>1, <1>3, FlaggedFacts
<1>5. u \in Seq(Request) /\ \A i \in DOMAIN u : ~ ForSave(u[i])
  BY <1>3, RefreshesFacts DEF ForSave
<1>. HIDE DEF u
<1>6. /\ requests' \in Seq(Request) /\ NoneForSave(requests')
      /\ \A i \in DOMAIN requests' :
           requests'[i].kind = "save" => \E j \in DOMAIN requests : requests[j].kind = "save"
  BY <1>1, <1>2, <1>5, OthersAsked
<1>7. <<>> \in Seq(Commit)
  OBVIOUS
<1>8. STypeOK'
  BY <1>1, <1>2, <1>4, <1>6, <1>7 DEF STypeOK
<1>9. SaveInFlight'
  BY <1>1, <1>2, <1>6 DEF SaveInFlight, NoneForSave
<1>10. Counted'
  BY <1>1, <1>2, <1>4, <1>6, CountedKept DEF Counted
<1>11. Numbered'
  <2>1. \A i \in DOMAIN deferred' : deferred'[i].rev >= 1
    BY <1>1
  <2>. QED
    BY <1>1, <2>1, NumberedReceived
<1>. QED
  BY <1>8, <1>9, <1>10, <1>11

LEMMA CoreSaveEnds ==
  ASSUME CoreInv, SaveEnds
  PROVE  CoreInv'
<1>. USE DEF CoreInv
<1>1. PICK kind \in {"listed", "refused"} : Receive(kind)
  BY DEF SaveEnds
<1>2. ForSave(Head(answers))
  BY <1>1, Received DEF ForSave
<1>3. buffer \in Buffer
  BY <1>1, <1>2, SaveReceived DEF STypeOK
<1>4. Settle(buffer) /\ UNCHANGED <<server, link, missed, counters>>
  BY DEF SaveEnds
<1>. QED
  BY <1>1, <1>2, <1>3, <1>4, CoreSettles

(* The buffer that a refused save leaves behind. *)
Refused ==
  IF SavedHere
  THEN [buffer EXCEPT !.conflict =
          IF Head(answers).kind = "loaded" THEN Head(answers).rev ELSE Unknown]
  ELSE buffer

LEMMA RefusedTypes ==
  ASSUME CoreInv, ReceiveReread
  PROVE  /\ \E kind \in {"loaded", "missing"} : Receive(kind)
         /\ ForSave(Head(answers)) /\ saving # Nothing /\ buffer # Nothing /\ buffer \in Buffer
         /\ Refused \in Buffer /\ Refused.path = buffer.path /\ Refused.base = buffer.base
         /\ Refused.text = buffer.text /\ Refused.dirty = buffer.dirty
         /\ Refused.conflict # buffer.conflict => Refused.conflict # NullRev
         /\ SavedHere => Refused.conflict # NullRev
         /\ Settle(Refused) /\ UNCHANGED <<server, link, missed, counters>>
<1>. USE DEF CoreInv
<1>1. PICK kind \in {"loaded", "missing"} : Receive(kind)
  BY DEF ReceiveReread
<1>2. Head(answers).kind = kind /\ Head(answers).why = "reread" /\ Head(answers) = answers[1]
      /\ 1 \in DOMAIN answers /\ Head(answers) \in Answer
  BY <1>1, Received DEF ReceiveReread
<1>3. ForSave(Head(answers))
  BY <1>2 DEF ForSave
<1>4. buffer \in Buffer /\ saving # Nothing /\ buffer # Nothing /\ saves >= 1
  BY <1>1, <1>3, SaveReceived DEF STypeOK, SaveInFlight
<1>5. kind = "loaded" => Head(answers).rev \in Rev /\ Head(answers).rev # NullRev
  <2>1. kind = "loaded" => Head(answers).rev \in Rev /\ Head(answers).rev >= 1
    BY <1>2, AnswerByKind DEF Numbered
  <2>. QED
    BY <2>1 DEF NullRev, Rev
<1>6. Unknown \in Rev /\ Unknown # NullRev
  BY <1>4, Bounded DEF Unknown, Rev, NullRev, STypeOK
<1>7. Settle(Refused) /\ UNCHANGED <<server, link, missed, counters>>
  BY DEF ReceiveReread, Refused
<1>8. CASE SavedHere
  <2>. DEFINE x == IF Head(answers).kind = "loaded" THEN Head(answers).rev ELSE Unknown
  <2>1. x \in Rev /\ x # NullRev
    BY <1>2, <1>5, <1>6
  <2>2. Refused = [buffer EXCEPT !.conflict = x]
    BY <1>8 DEF Refused
  <2>. HIDE DEF x
  <2>3. /\ Refused \in Buffer /\ Refused.path = buffer.path /\ Refused.base = buffer.base
        /\ Refused.text = buffer.text /\ Refused.dirty = buffer.dirty /\ Refused.conflict = x
    BY <1>4, <2>1, <2>2 DEF Buffer
  <2>. QED
    BY <1>1, <1>3, <1>4, <1>7, <2>1, <2>3
<1>9. CASE ~ SavedHere
  <2>1. Refused = buffer
    BY <1>9 DEF Refused
  <2>. QED
    BY <1>1, <1>3, <1>4, <1>7, <1>9, <2>1
<1>. QED
  BY <1>8, <1>9

LEMMA CoreReceiveReread ==
  ASSUME CoreInv, ReceiveReread
  PROVE  CoreInv'
<1>1. PICK kind : Receive(kind) /\ ForSave(Head(answers))
  BY RefusedTypes
<1>2. /\ Refused \in Buffer /\ Refused.text = buffer.text /\ Settle(Refused)
      /\ UNCHANGED <<server, link, missed, counters>>
  BY RefusedTypes
<1>. QED
  BY <1>1, <1>2, CoreSettles

(* The document that an answer to a read puts into the buffer. *)
LEMMA LoadedTypes ==
  ASSUME CoreInv, ReceiveLoaded
  PROVE  LET a == Head(answers)
         IN  /\ Receive("loaded") /\ a.why # "reread" /\ a.kind = "loaded" /\ ~ ForSave(a)
             /\ a.rev \in Rev /\ a.rev # NullRev
             /\ a \in Answer /\ a.path \in Docs
             /\ buffer' \in Buffer /\ buffer'.path = a.path /\ buffer'.base = a.rev
             /\ buffer'.text = a.text /\ a.text \in Text /\ buffer'.conflict = NullRev
             /\ UNCHANGED <<store, unsent, events, serving, requests, saving, deferred, link,
                            missed, edits, saves, opens, faults>>
<1>. USE DEF CoreInv
<1>. DEFINE a == Head(answers)
            kept == buffer # Nothing /\ buffer.path = a.path /\ buffer.key = a.rev
<1>1. /\ Receive("loaded") /\ a.why # "reread"
      /\ buffer' = [path |-> a.path, key |-> a.rev, base |-> a.rev, text |-> a.text,
                    dirty |-> kept /\ buffer.text # a.text, conflict |-> NullRev]
      /\ UNCHANGED <<store, unsent, events, serving, requests, saving, deferred, link, missed,
                     edits, saves, opens, faults>>
  BY DEF ReceiveLoaded, server, counters
<1>2. a \in Answer /\ a.kind = "loaded" /\ a = answers[1] /\ 1 \in DOMAIN answers
  BY <1>1, Received
<1>3. a.path \in Docs /\ a.rev \in Rev /\ a.text \in Text /\ a.rev >= 1
  BY <1>2, AnswerByKind DEF Numbered
<1>4. NullRev \in Rev /\ a.rev # NullRev
  BY <1>3, Bounded DEF NullRev, Rev
<1>5. ~ ForSave(a)
  BY <1>1, <1>2 DEF ForSave
<1>. DEFINE dirt == kept /\ buffer.text # a.text
<1>6. dirt \in BOOLEAN
  OBVIOUS
<1>. HIDE DEF dirt, a
<1>7. buffer' = [path |-> a.path, key |-> a.rev, base |-> a.rev, text |-> a.text,
                 dirty |-> dirt, conflict |-> NullRev]
  BY <1>1 DEF dirt
<1>8. /\ buffer' \in Buffer /\ buffer'.path = a.path /\ buffer'.base = a.rev
      /\ buffer'.text = a.text /\ buffer'.conflict = NullRev
  BY <1>3, <1>4, <1>6, <1>7 DEF Buffer
<1>. QED
  BY <1>1, <1>2, <1>3, <1>4, <1>5, <1>8 DEF a

(* TextOf and OthersEdits, of a given store. *)
TextIn(s, d, rev) == IF rev = NullRev THEN {} ELSE s[d][rev].text
OthersIn(s, d) ==
  UNION {TextIn(s, d, i) \ TextIn(s, d, i - 1) :
           i \in {j \in DOMAIN s[d] : s[d][j].by # "shell"}}

(* What the shell holds of the daemon's revisions is what they say. *)
Reflects ==
  /\ \A i \in DOMAIN answers :
       /\ answers[i].kind = "loaded" =>
            /\ answers[i].rev <= Head_(answers[i].path)
            /\ answers[i].text = TextIn(store, answers[i].path, answers[i].rev)
       /\ answers[i].kind = "saved" =>
            /\ answers[i].rev <= Head_(answers[i].path)
            /\ saving.text = TextIn(store, answers[i].path, answers[i].rev)
  /\ serving # Nothing =>
       /\ serving.rev <= Head_(serving.path)
       /\ saving.text = TextIn(store, serving.path, serving.rev)
  /\ buffer # Nothing =>
       /\ buffer.base <= Head_(buffer.path)
       /\ ~ buffer.dirty =>
            buffer.base # NullRev /\ buffer.text = TextIn(store, buffer.path, buffer.base)

LEMMA TextsCounted ==
  ASSUME CoreInv, NEW d \in Docs, NEW i \in 0..Head_(d)
  PROVE  TextIn(store, d, i) \subseteq 1..edits
<1>1. DOMAIN store[d] = 1..Head_(d) /\ Head_(d) \in Nat
  BY StoreTypes DEF CoreInv
<1>2. i # 0 => i \in DOMAIN store[d]
  BY <1>1
<1>. QED
  BY <1>2 DEF TextIn, NullRev, CoreInv, Counted

LEMMA CoreReceiveLoaded ==
  ASSUME CoreInv, Reflects, ReceiveLoaded
  PROVE  CoreInv'
<1>. DEFINE a == Head(answers)
<1>1. /\ Receive("loaded") /\ a.kind = "loaded" /\ ~ ForSave(a) /\ a.rev \in Rev /\ a.path \in Docs
      /\ buffer' \in Buffer /\ buffer'.text = a.text
      /\ UNCHANGED <<store, unsent, events, serving, requests, saving, deferred, link, missed,
                     edits, saves, opens, faults>>
  BY LoadedTypes
<1>. USE DEF CoreInv
<1>2. a = answers[1] /\ 1 \in DOMAIN answers /\ answers' \in Seq(Answer)
  BY <1>1, Received
<1>3. a.text \subseteq 1..edits
  <2>1. a.rev <= Head_(a.path) /\ a.text = TextIn(store, a.path, a.rev)
    BY <1>1, <1>2 DEF Reflects
  <2>2. a.rev \in 0..Head_(a.path)
    BY <1>1, <2>1, StoreTypes DEF Rev
  <2>. QED
    BY <1>1, <2>1, <2>2, TextsCounted
<1>. HIDE DEF a
<1>4. STypeOK'
  BY <1>1, <1>2 DEF STypeOK
<1>5. SaveInFlight'
  <2>1. /\ requests' = requests \o <<>> /\ <<>> \in Seq(Request)
        /\ \A i \in DOMAIN <<>> : ~ ForSave(<<>>[i])
    BY <1>1, NothingAsked
  <2>2. buffer' # Nothing
    BY <1>1, NotNothing
  <2>. QED
    BY <1>1, <2>1, <2>2, OtherReceived DEF a
<1>6. Counted'
  BY <1>1, <1>3, CountedKept DEF Counted
<1>7. Numbered'
  BY <1>1, NumberedReceived DEF Numbered
<1>. QED
  BY <1>4, <1>5, <1>6, <1>7

LEMMA CoreReceiveMissing ==
  ASSUME CoreInv, ReceiveMissing
  PROVE  CoreInv'
<1>. USE DEF CoreInv
<1>1. /\ Receive("missing") /\ Head(answers).why # "reread"
      /\ UNCHANGED <<store, unsent, events, serving, requests, buffer, saving, deferred, link,
                     missed, edits, saves, opens, faults>>
  BY DEF ReceiveMissing, server, shell, counters
<1>2. answers' \in Seq(Answer) /\ ~ ForSave(Head(answers))
  BY <1>1, Received DEF ForSave
<1>3. STypeOK'
  BY <1>1, <1>2 DEF STypeOK
<1>4. SaveInFlight'
  <2>1. /\ requests' = requests \o <<>> /\ <<>> \in Seq(Request)
        /\ \A i \in DOMAIN <<>> : ~ ForSave(<<>>[i])
    BY <1>1, NothingAsked
  <2>. QED
    BY <1>1, <1>2, <2>1, OtherReceived
<1>5. Counted'
  BY <1>1, CountedKept DEF Counted
<1>6. Numbered'
  BY <1>1, NumberedReceived DEF Numbered
<1>. QED
  BY <1>3, <1>4, <1>5, <1>6

(* A commit event: what it is about, and what the shell makes of it. *)
Told == [path |-> Head(answers).path, rev |-> Head(answers).rev]

LEMMA EventReceived ==
  ASSUME CoreInv, ReceiveEvent
  PROVE  LET mine == buffer # Nothing /\ Told.path = buffer.path
             u == IF mine /\ saving = Nothing THEN Refreshes(buffer, <<Told>>) ELSE <<>>
         IN  /\ Receive("event") /\ ~ ForSave(Head(answers))
             /\ Told \in Commit /\ Told.rev >= 1 /\ <<Told>> \in Seq(Commit)
             /\ deferred' = IF mine /\ saving # Nothing THEN Append(deferred, Told) ELSE deferred
             /\ buffer' = IF mine /\ saving = Nothing THEN Flagged(buffer, <<Told>>) ELSE buffer
             /\ requests' = requests \o u /\ u \in Seq(Request)
             /\ \A i \in DOMAIN u : ~ ForSave(u[i]) /\ u[i].kind = "read" /\ u[i].path = buffer.path
             /\ UNCHANGED <<store, unsent, events, serving, saving, link, missed, edits, saves,
                            opens, faults>>
<1>. USE DEF CoreInv
<1>. DEFINE mine == buffer # Nothing /\ Told.path = buffer.path
            u == IF mine /\ saving = Nothing THEN Refreshes(buffer, <<Told>>) ELSE <<>>
<1>1. /\ Receive("event")
      /\ UNCHANGED <<store, unsent, events, serving, saving, link, missed, edits, saves,
                     opens, faults>>
      /\ deferred' = IF mine /\ saving # Nothing THEN Append(deferred, Told) ELSE deferred
      /\ buffer' = IF mine /\ saving = Nothing THEN Flagged(buffer, <<Told>>) ELSE buffer
      /\ requests' = IF mine /\ saving = Nothing
                     THEN requests \o Refreshes(buffer, <<Told>>) ELSE requests
  BY DEF ReceiveEvent, server, counters, Told
<1>2. /\ Head(answers) \in Answer /\ Head(answers).kind = "event" /\ Head(answers) = answers[1]
      /\ 1 \in DOMAIN answers
  BY <1>1, Received
<1>3. Told \in Commit /\ Told.rev >= 1
  BY <1>2, AnswerByKind DEF Told, Commit, Numbered
<1>4. <<Told>> \in Seq(Commit)
  BY <1>3
<1>5. ~ ForSave(Head(answers))
  BY <1>2 DEF ForSave
<1>. HIDE DEF mine
<1>6. /\ requests' = requests \o u /\ u \in Seq(Request)
      /\ \A i \in DOMAIN u : ~ ForSave(u[i]) /\ u[i].kind = "read" /\ u[i].path = buffer.path
  <2>1. CASE mine /\ saving = Nothing
    <3>1. buffer \in Buffer
      BY <2>1 DEF mine, STypeOK
    <3>2. /\ u = Refreshes(buffer, <<Told>>) /\ u \in Seq(Request)
          /\ \A i \in DOMAIN u : u[i] = [kind |-> "read", path |-> buffer.path, why |-> "refresh"]
      BY <1>4, <2>1, <3>1, RefreshesFacts
    <3>3. \A i \in DOMAIN u : ~ ForSave(u[i]) /\ u[i].kind = "read" /\ u[i].path = buffer.path
      BY <3>2 DEF ForSave
    <3>. QED
      BY <1>1, <2>1, <3>2, <3>3
  <2>2. CASE ~ (mine /\ saving = Nothing)
    BY <1>1, <2>2, NothingAsked
  <2>. QED
    BY <2>1, <2>2
<1>. QED
  BY <1>1, <1>3, <1>4, <1>5, <1>6 DEF mine

LEMMA CoreReceiveEvent ==
  ASSUME CoreInv, ReceiveEvent
  PROVE  CoreInv'
<1>. DEFINE mine == buffer # Nothing /\ Told.path = buffer.path
            u == IF mine /\ saving = Nothing THEN Refreshes(buffer, <<Told>>) ELSE <<>>
<1>1. /\ Receive("event") /\ ~ ForSave(Head(answers))
      /\ Told \in Commit /\ Told.rev >= 1 /\ <<Told>> \in Seq(Commit)
      /\ deferred' = IF mine /\ saving # Nothing THEN Append(deferred, Told) ELSE deferred
      /\ buffer' = IF mine /\ saving = Nothing THEN Flagged(buffer, <<Told>>) ELSE buffer
      /\ requests' = requests \o u /\ u \in Seq(Request)
      /\ \A i \in DOMAIN u : ~ ForSave(u[i])
      /\ UNCHANGED <<store, unsent, events, serving, saving, link, missed, edits, saves,
                     opens, faults>>
  BY EventReceived
<1>. USE DEF CoreInv
<1>. HIDE DEF u
<1>2. /\ requests' \in Seq(Request)
      /\ \A i \in DOMAIN requests' :
           requests'[i].kind = "save" => \E j \in DOMAIN requests : requests[j].kind = "save"
  BY <1>1, OthersAsked
<1>3. /\ buffer # Nothing => buffer' \in Buffer /\ buffer' # Nothing
      /\ buffer # Nothing => buffer'.text = buffer.text
      /\ buffer = Nothing => buffer' = Nothing
  <2>1. CASE mine /\ saving = Nothing
    <3>1. buffer \in Buffer
      BY <2>1 DEF STypeOK
    <3>. QED
      BY <1>1, <2>1, <3>1, FlaggedFacts, NotNothing
  <2>2. CASE ~ (mine /\ saving = Nothing)
    BY <1>1, <2>2 DEF STypeOK
  <2>. QED
    BY <2>1, <2>2
<1>4. /\ deferred' \in Seq(Commit) /\ \A i \in DOMAIN deferred' : deferred'[i].rev >= 1
      /\ saving = Nothing => deferred' = <<>>
  <2>1. deferred \in Seq(Commit) /\ \A i \in DOMAIN deferred : deferred[i].rev >= 1
    BY DEF STypeOK, Numbered
  <2>2. CASE mine /\ saving # Nothing
    <3>1. deferred' = Append(deferred, Told)
      BY <1>1, <2>2
    <3>. QED
      BY <1>1, <2>1, <2>2, <3>1, Appended
  <2>3. CASE ~ (mine /\ saving # Nothing)
    BY <1>1, <2>1, <2>3 DEF STypeOK
  <2>. QED
    BY <2>2, <2>3
<1>5. answers' \in Seq(Answer)
  BY <1>1, Received
<1>. HIDE DEF mine
<1>6. STypeOK'
  BY <1>1, <1>2, <1>3, <1>4, <1>5 DEF STypeOK
<1>7. SaveInFlight'
  BY <1>1, <1>3, OtherReceived
<1>8. Counted'
  BY <1>1, <1>2, <1>3, CountedKept DEF Counted
<1>9. Numbered'
  BY <1>1, <1>4, NumberedReceived
<1>. QED
  BY <1>6, <1>7, <1>8, <1>9

LEMMA CoreLag ==
  ASSUME CoreInv, Lag
  PROVE  CoreInv'
<1>. USE DEF CoreInv
<1>1. /\ link = "up" /\ events # <<>> /\ events' = Tail(events) /\ missed' = TRUE
      /\ faults < MaxFaults /\ faults' = faults + 1
      /\ UNCHANGED <<store, unsent, serving, requests, answers, buffer, saving, deferred, link,
                     edits, saves, opens>>
  BY DEF Lag, Fault
<1>2. events' \in Seq(Commit) /\ \A i \in DOMAIN events' : \E j \in DOMAIN events : events'[i] = events[j]
  BY <1>1, HeadAndTail DEF STypeOK
<1>3. faults' \in 0..MaxFaults
  BY <1>1, Bounded DEF STypeOK
<1>4. STypeOK'
  BY <1>1, <1>2, <1>3 DEF STypeOK
<1>5. SaveInFlight'
  BY <1>1 DEF SaveInFlight
<1>6. Counted'
  BY <1>1 DEF Counted, Head_
<1>7. Numbered'
  BY <1>1, <1>2 DEF Numbered
<1>. QED
  BY <1>4, <1>5, <1>6, <1>7

(* The shell is told that the connection is gone; the buffer stays. *)
LEMMA ClosedBuffer ==
  ASSUME CoreInv, Close
  PROVE  /\ buffer # Nothing => /\ buffer' \in Buffer /\ buffer'.path = buffer.path
                                /\ buffer'.base = buffer.base /\ buffer'.text = buffer.text
                                /\ buffer'.dirty = buffer.dirty
         /\ buffer = Nothing => buffer' = Nothing
<1>. USE DEF CoreInv
<1>. DEFINE b == IF SavedHere /\ saving.phase = "reread"
                 THEN [buffer EXCEPT !.conflict = Unknown] ELSE buffer
<1>1. buffer' = IF b = Nothing THEN b ELSE Flagged(b, deferred)
  BY DEF Close
<1>2. CASE buffer = Nothing
  BY <1>1, <1>2 DEF SavedHere
<1>3. CASE buffer # Nothing
  <2>1. buffer \in Buffer /\ Unknown \in Rev /\ deferred \in Seq(Commit)
    BY <1>3, Bounded DEF STypeOK, Unknown, Rev
  <2>2. /\ b \in Buffer /\ b.path = buffer.path /\ b.base = buffer.base /\ b.text = buffer.text
        /\ b.dirty = buffer.dirty
    <3>1. CASE SavedHere /\ saving.phase = "reread"
      BY <2>1, <3>1 DEF Buffer
    <3>2. CASE ~ (SavedHere /\ saving.phase = "reread")
      BY <2>1, <3>2
    <3>. QED
      BY <3>1, <3>2
  <2>. HIDE DEF b
  <2>3. b # Nothing
    BY <2>2, NotNothing
  <2>. QED
    BY <1>1, <1>3, <2>1, <2>2, <2>3, FlaggedFacts
<1>. QED
  BY <1>2, <1>3

LEMMA CoreClose ==
  ASSUME CoreInv, Close
  PROVE  CoreInv'
<1>1. /\ buffer # Nothing => buffer' \in Buffer /\ buffer'.text = buffer.text
      /\ buffer = Nothing => buffer' = Nothing
  BY ClosedBuffer
<1>. USE DEF CoreInv
<1>2. /\ events' = <<>> /\ serving' = Nothing /\ requests' = <<>> /\ answers' = <<>>
      /\ link' = "lost" /\ saving' = Nothing /\ deferred' = <<>> /\ missed' = TRUE
      /\ faults < MaxFaults /\ faults' = faults + 1
      /\ UNCHANGED <<store, unsent, edits, saves, opens>>
  BY DEF Close, Hangup, Fault
<1>3. faults' \in 0..MaxFaults
  BY <1>2, Bounded DEF STypeOK
<1>4. STypeOK'
  <2>1. events' \in Seq(Commit) /\ requests' \in Seq(Request) /\ answers' \in Seq(Answer)
        /\ deferred' \in Seq(Commit)
    BY <1>2
  <2>. QED
    BY <1>1, <1>2, <1>3, <2>1 DEF STypeOK
<1>5. SaveInFlight'
  BY <1>2 DEF SaveInFlight, NoneForSave
<1>6. Counted'
  BY <1>1, <1>2, CountedKept DEF Counted
<1>7. Numbered'
  BY <1>2 DEF Numbered
<1>. QED
  BY <1>4, <1>5, <1>6, <1>7

LEMMA CoreDisconnect ==
  ASSUME CoreInv, Disconnect
  PROVE  CoreInv'
<1>. USE DEF CoreInv
<1>1. /\ events' = <<>> /\ serving' = Nothing /\ requests' = <<>> /\ answers' = <<>>
      /\ link' = "left" /\ missed' = TRUE /\ faults < MaxFaults /\ faults' = faults + 1
      /\ UNCHANGED <<store, unsent, edits, saves, opens, buffer, saving, deferred>>
  BY DEF Disconnect, Hangup, Fault
<1>2. faults' \in 0..MaxFaults
  BY <1>1, Bounded DEF STypeOK
<1>3. STypeOK'
  <2>1. events' \in Seq(Commit) /\ requests' \in Seq(Request) /\ answers' \in Seq(Answer)
    BY <1>1
  <2>. QED
    BY <1>1, <1>2, <2>1 DEF STypeOK
<1>4. SaveInFlight'
  BY <1>1 DEF SaveInFlight, NoneForSave
<1>5. Counted'
  BY <1>1, CountedKept DEF Counted
<1>6. Numbered'
  BY <1>1 DEF Numbered
<1>. QED
  BY <1>3, <1>4, <1>5, <1>6

LEMMA CoreReconnect ==
  ASSUME CoreInv, Reconnect
  PROVE  CoreInv'
<1>. USE DEF CoreInv
<1>1. /\ link = "lost" /\ link' = "up"
      /\ UNCHANGED <<store, unsent, events, serving, requests, answers, buffer, saving, deferred,
                     missed, edits, saves, opens, faults>>
  BY DEF Reconnect, server, counters
<1>2. STypeOK'
  BY <1>1 DEF STypeOK
<1>3. SaveInFlight'
  BY <1>1 DEF SaveInFlight
<1>4. Counted' /\ Numbered'
  BY <1>1 DEF Counted, Numbered, Head_
<1>. QED
  BY <1>2, <1>3, <1>4

LEMMA CoreStutter ==
  ASSUME CoreInv, UNCHANGED vars
  PROVE  CoreInv'
<1>. USE DEF CoreInv
<1>1. UNCHANGED <<store, unsent, events, serving, requests, answers, buffer, saving, deferred,
                  link, missed, edits, saves, opens, faults>>
  BY DEF vars, server, shell, counters
<1>2. STypeOK'
  BY <1>1 DEF STypeOK
<1>3. SaveInFlight'
  BY <1>1 DEF SaveInFlight
<1>4. Counted' /\ Numbered'
  BY <1>1 DEF Counted, Numbered, Head_
<1>. QED
  BY <1>2, <1>3, <1>4

(* The steps, one by one. *)
LEMMA Steps ==
  ASSUME [Next]_vars
  PROVE  \/ \E d \in Docs : OthersCommit(d) \/ CommitSilently(d) \/ OpenDoc(d) \/ NewDoc(d)
         \/ \E c \in unsent : Publish(c)
         \/ ServeSave \/ FinishSave \/ ServeStale \/ ServeRefused \/ ServeRead \/ ServeList
         \/ Forward \/ Type \/ Save
         \/ ReceiveSaved \/ ReceiveStale \/ SaveEnds \/ ReceiveReread \/ ReceiveLoaded
         \/ ReceiveMissing \/ ReceiveEvent
         \/ Lag \/ Close \/ Disconnect \/ Reconnect \/ UNCHANGED vars
<1>. QED
  BY DEF Next, Serve, Handle, Wait

LEMMA CoreNext ==
  ASSUME CoreInv, Reflects, [Next]_vars
  PROVE  CoreInv'
<1>. QED
  BY Steps, CoreOthersCommit, CoreCommitSilently, CoreOpenDoc, CoreNewDoc, CorePublish,
     CoreServeSave, CoreFinishSave, CoreServeStale, CoreServeRefused, CoreServeRead, CoreServeList, CoreForward, CoreType,
     CoreSave, CoreReceiveSaved, CoreReceiveStale, CoreSaveEnds, CoreReceiveReread,
     CoreReceiveLoaded, CoreReceiveMissing, CoreReceiveEvent, CoreLag, CoreClose, CoreDisconnect,
     CoreReconnect, CoreStutter

-------------------------------------------------------------------------------
(* Texts, while the store grows.                                           *)

LEMMA TextsIn ==
  /\ \A d, rev : TextOf(d, rev) = TextIn(store, d, rev)
  /\ \A d : OthersEdits(d) = OthersIn(store, d)
<1>. QED
  BY DEF TextOf, TextIn, OthersEdits, OthersIn

(* The store grew, of which s are the old and t the new revisions: it kept *)
(* its texts, and what others put into it is new if it was added now.      *)
Grown(s, t, n) ==
  \A d \in Docs :
    /\ Len(s[d]) \in Nat /\ Len(t[d]) \in Nat /\ Len(s[d]) <= Len(t[d])
    /\ \A i \in 0..Len(s[d]) : TextIn(t, d, i) = TextIn(s, d, i)
    /\ \A x \in SUBSET (1..n) : x \cap OthersIn(t, d) = x \cap OthersIn(s, d)

LEMMA OthersBounded ==
  ASSUME CoreInv, NEW d \in Docs
  PROVE  OthersIn(store, d) \subseteq 1..edits
<1>1. DOMAIN store[d] = 1..Head_(d) /\ Head_(d) \in Nat
  BY StoreTypes DEF CoreInv
<1>2. \A i \in 0..Head_(d) : TextIn(store, d, i) \subseteq 1..edits
  BY TextsCounted
<1>3. \A i \in DOMAIN store[d] : TextIn(store, d, i) \subseteq 1..edits
  BY <1>1, <1>2
<1>. QED
  BY <1>3 DEF OthersIn

LEMMA GrownSame ==
  ASSUME CoreInv, store' = store
  PROVE  Grown(store, store', edits)
<1>1. \A d \in Docs : Len(store[d]) \in Nat
  BY StoreTypes DEF CoreInv, Head_
<1>. QED
  BY <1>1 DEF Grown

(* A revision is added: by the shell, or by others with one new edit. *)
LEMMA GrownAdds ==
  ASSUME CoreInv, NEW d \in Docs, NEW text \in Text, NEW by \in {"shell", "others", "silent"},
         Adds(d, text, by),
         by # "shell" => text \cap 1..edits = HeadText(d) \cap 1..edits
  PROVE  /\ Grown(store, store', edits)
         /\ by = "shell" => OthersIn(store', d) = OthersIn(store, d)
<1>. USE DEF CoreInv
<1>. DEFINE n == Len(store[d])
<1>1. /\ \A x \in Docs : x # d => store'[x] = store[x]
      /\ Len(store'[d]) = n + 1 /\ DOMAIN store'[d] = 1..(n + 1)
      /\ \A i \in DOMAIN store[d] : store'[d][i] = store[d][i]
      /\ store'[d][n + 1] = [text |-> text, by |-> by]
  BY AddsEffect DEF Head_
<1>2. \A x \in Docs : Len(store[x]) \in Nat /\ DOMAIN store[x] = 1..Len(store[x])
  BY StoreTypes DEF Head_
<1>3. HeadText(d) = TextIn(store, d, n)
  BY StoreTypes, TextsIn DEF Head_
<1>. HIDE DEF n
<1>4. n \in Nat /\ n = Len(store[d])
  BY <1>2 DEF n
<1>5. \A i \in 0..n : TextIn(store', d, i) = TextIn(store, d, i)
  BY <1>1, <1>2, <1>4 DEF TextIn, NullRev
<1>6. TextIn(store', d, n + 1) = text
  BY <1>1, <1>4 DEF TextIn, NullRev
<1>7. \A x \in Docs : x # d =>
        /\ OthersIn(store', x) = OthersIn(store, x)
        /\ \A i : TextIn(store', x, i) = TextIn(store, x, i)
  BY <1>1 DEF OthersIn, TextIn
<1>8. OthersIn(store', d) =
        OthersIn(store, d) \cup (IF by # "shell" THEN text \ TextIn(store, d, n) ELSE {})
  <2>1. \A e : e \in OthersIn(store, d) <=>
          \E i \in 1..n : /\ store[d][i].by # "shell"
                          /\ e \in TextIn(store, d, i) /\ e \notin TextIn(store, d, i - 1)
    BY <1>2, <1>4 DEF OthersIn
  <2>2. \A e : e \in OthersIn(store', d) <=>
          \E i \in 1..(n + 1) : /\ store'[d][i].by # "shell"
                                /\ e \in TextIn(store', d, i) /\ e \notin TextIn(store', d, i - 1)
    BY <1>1 DEF OthersIn
  <2>3. \A i \in 1..n : /\ store'[d][i].by = store[d][i].by
                        /\ TextIn(store', d, i) = TextIn(store, d, i)
                        /\ TextIn(store', d, i - 1) = TextIn(store, d, i - 1)
    BY <1>1, <1>2, <1>4, <1>5
  <2>4. /\ store'[d][n + 1].by = by /\ TextIn(store', d, n + 1) = text
        /\ TextIn(store', d, (n + 1) - 1) = TextIn(store, d, n)
    BY <1>1, <1>4, <1>5, <1>6
  <2>5. 1..(n + 1) = 1..n \cup {n + 1}
    BY <1>4
  <2>6. ASSUME NEW e
        PROVE  e \in OthersIn(store', d) <=>
                 \/ e \in OthersIn(store, d)
                 \/ by # "shell" /\ e \in text /\ e \notin TextIn(store, d, n)
    BY <2>1, <2>2, <2>3, <2>4, <2>5
  <2>. QED
    BY <2>6
<1>9. \A x \in SUBSET (1..edits) : x \cap OthersIn(store', d) = x \cap OthersIn(store, d)
  BY <1>3, <1>8
<1>. QED
  BY <1>1, <1>2, <1>4, <1>5, <1>7, <1>8, <1>9 DEF Grown

(* What a save's request adds. *)
LEMMA SaveServed ==
  ASSUME CoreInv, ServeSave
  PROVE  LET r == Head(requests)
         IN  /\ r \in Request /\ r.kind = "save" /\ r = requests[1] /\ 1 \in DOMAIN requests
             /\ r.path \in Docs /\ r.text \in Text /\ r.base = Head_(r.path)
             /\ saving # Nothing /\ r.path = saving.path /\ r.text = saving.text
             /\ Adds(r.path, r.text, "shell")
             /\ serving' = [path |-> r.path, rev |-> Head_(r.path) + 1] /\ serving' # Nothing
             /\ NoneForSave(answers) /\ NoneForSave(requests') /\ serving = Nothing /\ link = "up"
             /\ requests' = Tail(requests)
             /\ UNCHANGED <<unsent, events, answers, buffer, saving, deferred, link, missed,
                            edits, saves, opens, faults>>
<1>. USE DEF CoreInv
<1>. DEFINE r == Head(requests)
<1>1. /\ Take("save") /\ Adds(r.path, r.text, "shell") /\ r.base = Head_(r.path)
      /\ serving' = [path |-> r.path, rev |-> Head_(r.path) + 1]
      /\ UNCHANGED <<unsent, events, answers, buffer, saving, deferred, link, missed, edits,
                     saves, opens, faults>>
  BY DEF ServeSave, shell, counters
<1>2. /\ r \in Request /\ r.kind = "save" /\ r = requests[1] /\ 1 \in DOMAIN requests
      /\ link = "up" /\ serving = Nothing /\ requests' = Tail(requests)
  BY <1>1, Taken
<1>3. ForSave(r) /\ r.path \in Docs /\ r.text \in Text
  BY <1>2, RequestByKind DEF ForSave
<1>4. /\ NoneForSave(requests') /\ NoneForSave(answers) /\ saving # Nothing
      /\ OfThisSave(r, saving)
  BY <1>1, <1>3, SaveTaken
<1>5. r.path = saving.path /\ r.text = saving.text
  BY <1>2, <1>4 DEF OfThisSave
<1>6. serving' # Nothing
  <2>1. CoreInv'
    BY CoreServeSave
  <2>2. Head_(r.path) \in Nat /\ Head_(r.path) < edits + saves
    BY <1>2, <1>3, StoreTypes DEF Counted
  <2>3. Head_(r.path) + 1 \in Rev
    BY <2>2, Bounded DEF Rev, STypeOK
  <2>4. serving' \in Commit
    BY <1>1, <1>3, <2>3 DEF Commit
  <2>. QED
    BY <2>4, NotNothing
<1>. QED
  BY <1>1, <1>2, <1>3, <1>4, <1>5, <1>6

LEMMA StaleServed ==
  ASSUME CoreInv, ServeStale
  PROVE  LET r == Head(requests)
         IN  /\ r \in Request /\ r.kind = "save" /\ Reply([kind |-> "stale"])
             /\ r.path \in Docs /\ saving # Nothing /\ r.path = saving.path
             /\ \/ UNCHANGED <<store, edits>>
                \/ /\ edits' = edits + 1 /\ edits < MaxEdits
                   /\ Adds(r.path, HeadText(r.path) \cup {edits'}, "others")
             /\ requests' = Tail(requests) /\ requests # <<>> /\ link = "up"
             /\ UNCHANGED <<unsent, events, serving, buffer, saving, deferred, link, missed,
                            saves, opens, faults>>
<1>. USE DEF CoreInv
<1>. DEFINE r == Head(requests)
<1>1. /\ Take("save") /\ Reply([kind |-> "stale"])
      /\ \/ UNCHANGED <<store, edits>>
         \/ /\ edits' = edits + 1 /\ edits < MaxEdits
            /\ Adds(r.path, HeadText(r.path) \cup {edits'}, "others")
      /\ UNCHANGED <<unsent, events, serving, buffer, saving, deferred, link, missed,
                     saves, opens, faults>>
  BY DEF ServeStale, shell
<1>2. /\ r \in Request /\ r.kind = "save" /\ requests' = Tail(requests) /\ requests # <<>>
      /\ link = "up"
  BY <1>1, Taken
<1>3. ForSave(r) /\ r.path \in Docs
  BY <1>2, RequestByKind DEF ForSave
<1>4. saving # Nothing /\ OfThisSave(r, saving)
  BY <1>1, <1>3, SaveTaken
<1>5. r.path = saving.path
  BY <1>2, <1>4 DEF OfThisSave
<1>. QED
  BY <1>1, <1>2, <1>3, <1>4, <1>5

LEMMA GrownByOthers ==
  ASSUME CoreInv, NEW d \in Docs, edits < MaxEdits, edits' = edits + 1, UNCHANGED saves,
         NEW by \in {"others", "silent"}, Adds(d, HeadText(d) \cup {edits'}, by)
  PROVE  Grown(store, store', edits)
<1>1. HeadText(d) \cup {edits'} \in Text /\ edits \in Nat
  BY OthersEdit DEF CoreInv
<1>2. (HeadText(d) \cup {edits'}) \cap 1..edits = HeadText(d) \cap 1..edits
  BY <1>1
<1>. QED
  BY <1>1, <1>2, GrownAdds

LEMMA GrownNext ==
  ASSUME CoreInv, [Next]_vars
  PROVE  Grown(store, store', edits)
<1>1. CASE store' = store
  BY <1>1, GrownSame
<1>2. CASE ServeSave
  BY <1>2, SaveServed, GrownAdds
<1>3. CASE ServeStale
  <2>1. Head(requests).path \in Docs /\ UNCHANGED saves
    BY <1>3, StaleServed
  <2>2. CASE UNCHANGED <<store, edits>>
    BY <2>2, GrownSame
  <2>3. CASE /\ edits' = edits + 1 /\ edits < MaxEdits
             /\ Adds(Head(requests).path, HeadText(Head(requests).path) \cup {edits'}, "others")
    BY <2>1, <2>3, GrownByOthers
  <2>. QED
    BY <1>3, <2>2, <2>3, StaleServed
<1>4. ASSUME NEW d \in Docs, OthersCommit(d) \/ CommitSilently(d)
      PROVE  Grown(store, store', edits)
  BY <1>4, GrownByOthers DEF OthersCommit, CommitSilently
<1>5. store' = store \/ ServeSave \/ ServeStale
      \/ \E d \in Docs : OthersCommit(d) \/ CommitSilently(d)
  BY Steps DEF OpenDoc, NewDoc, Publish, FinishSave, ServeRefused, ServeRead, ServeList, Forward,
     Type, Save, ReceiveSaved, ReceiveStale, SaveEnds, ReceiveReread, ReceiveLoaded,
     ReceiveMissing, ReceiveEvent, Lag, Close, Disconnect, Hangup, Reconnect, server, vars
<1>. QED
  BY <1>1, <1>2, <1>3, <1>4, <1>5

-------------------------------------------------------------------------------
(* Most steps leave alone what the shell holds and awaits of revisions.    *)

(* Answers that bring a revision into the buffer. *)
Dated(a) == a.kind \in {"loaded", "saved"}

(* No such answer is new. *)
Carried ==
  \E s \in {0, 1} : \A i \in DOMAIN answers' :
    /\ i \in Nat
    /\ Dated(answers'[i]) => i + s \in DOMAIN answers /\ answers'[i] = answers[i + s]

(* The text of a committed save is still the one that is saved. *)
SaveKept ==
  serving' # Nothing \/ (\E i \in DOMAIN answers' : answers'[i].kind = "saved") =>
    saving' # Nothing /\ saving'.text = saving.text

(* The buffer is about the same revision, and lost no change. *)
BufferKept ==
  buffer' # Nothing =>
    /\ buffer # Nothing /\ buffer'.path = buffer.path /\ buffer'.base = buffer.base
    /\ \/ buffer'.text = buffer.text /\ buffer'.dirty = buffer.dirty
       \/ buffer'.text = buffer.text \cup {edits + 1} /\ buffer'.dirty /\ store' = store

Ordinary == Carried /\ SaveKept /\ BufferKept /\ serving' \in {serving, Nothing}

LEMMA CarriedSame ==
  ASSUME STypeOK, answers' = answers
  PROVE  Carried
<1>1. \A i \in DOMAIN answers : i \in Nat /\ i + 0 = i
  BY Elements DEF STypeOK
<1>. QED
  BY <1>1 DEF Carried

LEMMA CarriedReply ==
  ASSUME STypeOK, NEW a \in Answer, Reply(a), ~ Dated(a)
  PROVE  Carried
<1>1. \A i \in DOMAIN answers' :
        \/ i \in DOMAIN answers /\ answers'[i] = answers[i]
        \/ i = Len(answers) + 1 /\ answers'[i] = a
  BY Replied
<1>2. Len(answers) \in Nat /\ \A i \in DOMAIN answers : i \in Nat /\ i + 0 = i
  BY Elements DEF STypeOK
<1>. QED
  BY <1>1, <1>2 DEF Carried

LEMMA CarriedReceived ==
  ASSUME STypeOK, NEW kind, Receive(kind)
  PROVE  Carried
<1>. QED
  BY Received DEF Carried

LEMMA SaveKeptSame ==
  ASSUME CoreInv, saving' = saving, serving' = serving,
         \A i \in DOMAIN answers' :
           answers'[i].kind = "saved" => \E j \in DOMAIN answers : answers[j].kind = "saved"
  PROVE  SaveKept
<1>1. serving # Nothing => saving # Nothing
  BY DEF CoreInv, SaveInFlight
<1>2. \A j \in DOMAIN answers : answers[j].kind = "saved" => saving # Nothing
  BY DEF CoreInv, SaveInFlight, ForSave, OfThisSave
<1>. QED
  BY <1>1, <1>2 DEF SaveKept

LEMMA BufferKeptSame ==
  ASSUME buffer' = buffer
  PROVE  BufferKept
<1>. QED
  BY DEF BufferKept

LEMMA OrdinarySame ==
  ASSUME CoreInv, UNCHANGED <<answers, serving, buffer, saving>>
  PROVE  Ordinary
<1>. QED
  BY CarriedSame, SaveKeptSame, BufferKeptSame DEF Ordinary, CoreInv

LEMMA OrdinaryReply ==
  ASSUME CoreInv, NEW a \in Answer, Reply(a), ~ Dated(a), UNCHANGED <<serving, buffer, saving>>
  PROVE  Ordinary
<1>1. \A i \in DOMAIN answers' :
        answers'[i].kind = "saved" => \E j \in DOMAIN answers : answers[j].kind = "saved"
  BY Replied DEF CoreInv, Dated
<1>. QED
  BY <1>1, CarriedReply, SaveKeptSame, BufferKeptSame DEF Ordinary, CoreInv

LEMMA OrdinaryReceived ==
  ASSUME CoreInv, NEW kind, Receive(kind), saving' = saving, serving' = serving, BufferKept
  PROVE  Ordinary
<1>1. \A i \in DOMAIN answers' :
        answers'[i].kind = "saved" => \E j \in DOMAIN answers : answers[j].kind = "saved"
  BY Received DEF CoreInv
<1>. QED
  BY <1>1, CarriedReceived, SaveKeptSame DEF Ordinary, CoreInv

(* The daemon is silent about revisions. *)
LEMMA OrdinaryServed ==
  ASSUME CoreInv, ServeStale \/ ServeRefused \/ ServeList \/ Forward
  PROVE  Ordinary
<1>1. CASE ServeStale
  BY <1>1, OrdinaryReply, AnswersMade DEF ServeStale, shell, Dated
<1>2. CASE ServeRefused
  BY <1>2, OrdinaryReply, AnswersMade DEF ServeRefused, server, shell, Dated
<1>3. CASE ServeList
  BY <1>3, OrdinaryReply, AnswersMade DEF ServeList, server, shell, Dated
<1>4. CASE Forward
  <2>. DEFINE a == [kind |-> "event", path |-> Head(events).path, rev |-> Head(events).rev]
  <2>1. Head(events) \in Commit
    BY <1>4, HeadAndTail DEF Forward, CoreInv, STypeOK
  <2>2. a \in Answer /\ ~ Dated(a)
    BY <2>1, AnswersMade DEF Commit, Dated
  <2>3. Reply(a) /\ UNCHANGED <<serving, buffer, saving>>
    BY <1>4 DEF Forward, shell
  <2>. HIDE DEF a
  <2>. QED
    BY <2>2, <2>3, OrdinaryReply
<1>. QED
  BY <1>1, <1>2, <1>3, <1>4

LEMMA OrdinaryType ==
  ASSUME CoreInv, Type
  PROVE  Ordinary
<1>1. /\ buffer # Nothing /\ edits' = edits + 1
      /\ buffer' = [buffer EXCEPT !.text = @ \cup {edits'}, !.dirty = TRUE]
      /\ UNCHANGED <<store, answers, serving, saving>>
  BY DEF Type, server
<1>2. buffer \in Buffer
  BY <1>1 DEF CoreInv, STypeOK
<1>3. BufferKept
  BY <1>1, <1>2 DEF BufferKept, Buffer
<1>. QED
  BY <1>1, <1>3, CarriedSame, SaveKeptSame DEF Ordinary, CoreInv

LEMMA OrdinarySave ==
  ASSUME CoreInv, Save
  PROVE  Ordinary
<1>1. saving = Nothing /\ UNCHANGED <<answers, serving, buffer>>
  BY DEF Save, server
<1>2. serving = Nothing /\ \A i \in DOMAIN answers : answers[i].kind # "saved"
  BY <1>1 DEF CoreInv, SaveInFlight, NoneForSave, ForSave
<1>3. SaveKept
  BY <1>1, <1>2 DEF SaveKept
<1>. QED
  BY <1>1, <1>3, CarriedSame, BufferKeptSame DEF Ordinary, CoreInv

LEMMA OrdinarySettles ==
  ASSUME CoreInv, NEW kind, Receive(kind), ForSave(Head(answers)),
         NEW b \in Buffer, b.text = buffer.text, b.path = buffer.path, b.base = buffer.base,
         b.dirty = buffer.dirty, Settle(b), serving' = serving
  PROVE  Ordinary
<1>1. NoneForSave(answers') /\ serving = Nothing /\ buffer # Nothing
  BY SaveReceived DEF CoreInv
<1>2. \A i \in DOMAIN answers' : answers'[i].kind # "saved"
  BY <1>1 DEF NoneForSave, ForSave
<1>3. SaveKept
  BY <1>1, <1>2 DEF SaveKept
<1>4. BufferKept
  BY <1>1, FlaggedFacts DEF Settle, BufferKept, CoreInv, STypeOK
<1>. QED
  BY <1>3, <1>4, CarriedReceived DEF Ordinary, CoreInv

LEMMA SaveEndsTypes ==
  ASSUME CoreInv, SaveEnds
  PROVE  /\ \E kind \in {"listed", "refused"} : Receive(kind)
         /\ ForSave(Head(answers)) /\ saving # Nothing /\ buffer # Nothing /\ buffer \in Buffer
         /\ Settle(buffer) /\ UNCHANGED <<server, link, missed, counters>>
<1>1. PICK kind \in {"listed", "refused"} : Receive(kind)
  BY DEF SaveEnds
<1>2. ForSave(Head(answers))
  BY <1>1, Received DEF ForSave, CoreInv
<1>3. saving # Nothing /\ buffer # Nothing /\ buffer \in Buffer
  BY <1>1, <1>2, SaveReceived DEF CoreInv, STypeOK
<1>. QED
  BY <1>1, <1>2, <1>3 DEF SaveEnds

LEMMA OrdinaryHandled ==
  ASSUME CoreInv, ReceiveStale \/ SaveEnds \/ ReceiveReread \/ ReceiveMissing \/ ReceiveEvent
  PROVE  Ordinary
<1>1. CASE ReceiveStale
  <2>1. /\ Receive("stale") /\ saving' = [saving EXCEPT !.phase = "reread"]
        /\ UNCHANGED <<serving, buffer>>
    BY <1>1 DEF ReceiveStale, server
  <2>2. ForSave(Head(answers))
    BY <2>1, Received DEF ForSave, CoreInv
  <2>3. NoneForSave(answers') /\ serving = Nothing
    BY <2>1, <2>2, SaveReceived DEF CoreInv
  <2>4. \A i \in DOMAIN answers' : answers'[i].kind # "saved"
    BY <2>3 DEF NoneForSave, ForSave
  <2>5. SaveKept
    BY <2>1, <2>3, <2>4 DEF SaveKept
  <2>. QED
    BY <2>1, <2>5, CarriedReceived, BufferKeptSame DEF Ordinary, CoreInv
<1>2. CASE SaveEnds
  BY <1>2, SaveEndsTypes, OrdinarySettles DEF server
<1>3. CASE ReceiveReread
  <2>1. PICK kind \in {"loaded", "missing"} : Receive(kind)
    BY <1>3, RefusedTypes
  <2>2. /\ ForSave(Head(answers)) /\ Refused \in Buffer /\ Refused.path = buffer.path
        /\ Refused.base = buffer.base /\ Refused.text = buffer.text
        /\ Refused.dirty = buffer.dirty /\ Settle(Refused) /\ serving' = serving
    BY <1>3, RefusedTypes DEF server
  <2>. QED
    BY <2>1, <2>2, OrdinarySettles
<1>4. CASE ReceiveMissing
  BY <1>4, OrdinaryReceived, BufferKeptSame DEF ReceiveMissing, server, shell
<1>5. CASE ReceiveEvent
  <2>. DEFINE mine == buffer # Nothing /\ Told.path = buffer.path
  <2>1. /\ Receive("event") /\ <<Told>> \in Seq(Commit) /\ UNCHANGED <<serving, saving>>
        /\ buffer' = IF mine /\ saving = Nothing THEN Flagged(buffer, <<Told>>) ELSE buffer
    BY <1>5, EventReceived
  <2>2. BufferKept
    <3>1. CASE mine /\ saving = Nothing
      <4>1. buffer \in Buffer /\ buffer' = Flagged(buffer, <<Told>>)
        BY <2>1, <3>1 DEF CoreInv, STypeOK
      <4>2. LET f == Flagged(buffer, <<Told>>)
            IN  /\ f.path = buffer.path /\ f.base = buffer.base /\ f.text = buffer.text
                /\ f.dirty = buffer.dirty
        BY <2>1, <4>1, FlaggedFacts
      <4>. QED
        BY <3>1, <4>1, <4>2 DEF BufferKept
    <3>2. CASE ~ (mine /\ saving = Nothing)
      BY <2>1, <3>2, BufferKeptSame
    <3>. QED
      BY <3>1, <3>2
  <2>. QED
    BY <2>1, <2>2, OrdinaryReceived
<1>. QED
  BY <1>1, <1>2, <1>3, <1>4, <1>5

LEMMA OrdinaryFault ==
  ASSUME CoreInv, Close \/ Disconnect
  PROVE  Ordinary
<1>1. answers' = <<>> /\ serving' = Nothing
  BY DEF Close, Disconnect, Hangup
<1>2. Carried /\ SaveKept
  BY <1>1 DEF Carried, SaveKept
<1>3. BufferKept
  BY ClosedBuffer DEF BufferKept, Disconnect
<1>. QED
  BY <1>1, <1>2, <1>3 DEF Ordinary

LEMMA OrdinaryNext ==
  ASSUME CoreInv, [Next]_vars
  PROVE  \/ Ordinary
         \/ ServeSave \/ FinishSave \/ ServeRead
         \/ \E d \in Docs : NewDoc(d)
         \/ ReceiveSaved \/ ReceiveLoaded
<1>1. UNCHANGED <<answers, serving, buffer, saving>> \/ ServeSave \/ FinishSave \/ ServeRead
      \/ (\E d \in Docs : NewDoc(d)) \/ ReceiveSaved \/ ReceiveLoaded
      \/ ServeStale \/ ServeRefused \/ ServeList \/ Forward \/ Type \/ Save
      \/ ReceiveStale \/ SaveEnds \/ ReceiveReread \/ ReceiveMissing \/ ReceiveEvent
      \/ Close \/ Disconnect
  BY Steps DEF OthersCommit, CommitSilently, OpenDoc, Publish, Lag, Reconnect, server, shell, vars
<1>. QED
  BY <1>1, OrdinarySame, OrdinaryServed, OrdinaryType, OrdinarySave, OrdinaryHandled,
     OrdinaryFault

-------------------------------------------------------------------------------
(* What the shell holds of revisions stays true of them.                   *)

LEMMA HeadInRange ==
  ASSUME STypeOK
  PROVE  /\ \A d \in Docs : Len(store[d]) \in Nat
         /\ \A r \in Rev : r \in Nat
<1>. QED
  BY StoreTypes, Bounded DEF Rev, Head_

LEMMA AnswerTypes ==
  ASSUME STypeOK
  PROVE  \A i \in DOMAIN answers :
           /\ i \in Nat /\ i >= 1 /\ i <= Len(answers) /\ answers[i] \in Answer
           /\ answers[i].kind \in {"loaded", "saved", "event"} =>
                answers[i].path \in Docs /\ answers[i].rev \in Rev /\ answers[i].rev \in Nat
           /\ answers[i].kind = "loaded" => answers[i].text \in Text
<1>1. \A i \in DOMAIN answers : i \in Nat /\ i >= 1 /\ i <= Len(answers) /\ answers[i] \in Answer
  BY Elements DEF STypeOK
<1>2. \A r \in Rev : r \in Nat
  BY HeadInRange
<1>. QED
  BY <1>1, <1>2, AnswerByKind

LEMMA ReflectsInit == Init => Reflects
<1>. QED
  BY DEF Init, Reflects

LEMMA ReflectsOrdinary ==
  ASSUME CoreInv, CoreInv', Reflects, Grown(store, store', edits), Ordinary
  PROVE  Reflects'
<1>. USE DEF CoreInv
<1>1. \A d \in Docs : /\ Len(store[d]) \in Nat /\ Len(store'[d]) \in Nat
                      /\ Len(store[d]) <= Len(store'[d])
                      /\ \A i \in 0..Len(store[d]) : TextIn(store', d, i) = TextIn(store, d, i)
  BY DEF Grown
<1>2. ASSUME NEW i \in DOMAIN answers', Dated(answers'[i])
      PROVE  /\ answers'[i].rev <= Len(store'[answers'[i].path])
             /\ answers'[i].kind = "loaded" =>
                  answers'[i].text = TextIn(store', answers'[i].path, answers'[i].rev)
             /\ answers'[i].kind = "saved" =>
                  saving'.text = TextIn(store', answers'[i].path, answers'[i].rev)
  <2>1. PICK k \in DOMAIN answers : answers'[i] = answers[k]
    BY <1>2 DEF Ordinary, Carried
  <2>. DEFINE a == answers[k]
  <2>2. /\ a.path \in Docs /\ a.rev \in Nat /\ Dated(a)
    BY <1>2, <2>1, AnswerTypes DEF Dated
  <2>3. /\ a.rev <= Len(store[a.path])
        /\ a.kind = "loaded" => a.text = TextIn(store, a.path, a.rev)
        /\ a.kind = "saved" => saving.text = TextIn(store, a.path, a.rev)
    BY <2>1, <2>2 DEF Reflects, Dated, Head_
  <2>4. a.kind = "saved" => saving'.text = saving.text
    BY <2>1 DEF Ordinary, SaveKept
  <2>. HIDE DEF a
  <2>5. answers'[i] = a
    BY <2>1 DEF a
  <2>6. a.rev \in 0..Len(store[a.path])
    BY <1>1, <2>2, <2>3
  <2>7. TextIn(store', a.path, a.rev) = TextIn(store, a.path, a.rev) /\ a.rev <= Len(store'[a.path])
    BY <1>1, <2>2, <2>3, <2>6
  <2>. QED
    BY <2>3, <2>4, <2>5, <2>7
<1>3. ASSUME serving' # Nothing
      PROVE  /\ serving'.rev <= Len(store'[serving'.path])
             /\ saving'.text = TextIn(store', serving'.path, serving'.rev)
  <2>1. serving' = serving /\ serving # Nothing /\ saving'.text = saving.text
    BY <1>3 DEF Ordinary, SaveKept
  <2>2. serving.path \in Docs /\ serving.rev \in Nat
    BY <2>1, HeadInRange DEF STypeOK, Commit
  <2>3. /\ serving.rev <= Len(store[serving.path])
        /\ saving.text = TextIn(store, serving.path, serving.rev)
    BY <2>1 DEF Reflects, Head_
  <2>4. serving.rev \in 0..Len(store[serving.path])
    BY <1>1, <2>2, <2>3
  <2>5. /\ TextIn(store', serving.path, serving.rev) = TextIn(store, serving.path, serving.rev)
        /\ serving.rev <= Len(store'[serving.path])
    BY <1>1, <2>2, <2>3, <2>4
  <2>. QED
    BY <2>1, <2>3, <2>5
<1>4. ASSUME buffer' # Nothing
      PROVE  /\ buffer'.base <= Len(store'[buffer'.path])
             /\ ~ buffer'.dirty => /\ buffer'.base # NullRev
                                   /\ buffer'.text = TextIn(store', buffer'.path, buffer'.base)
  <2>1. /\ buffer # Nothing /\ buffer'.path = buffer.path /\ buffer'.base = buffer.base
        /\ ~ buffer'.dirty => buffer'.text = buffer.text /\ ~ buffer.dirty
    BY <1>4 DEF Ordinary, BufferKept
  <2>2. buffer.path \in Docs /\ buffer.base \in Nat
    BY <2>1, HeadInRange DEF STypeOK, Buffer
  <2>3. /\ buffer.base <= Len(store[buffer.path])
        /\ ~ buffer.dirty => /\ buffer.base # NullRev
                             /\ buffer.text = TextIn(store, buffer.path, buffer.base)
    BY <2>1 DEF Reflects, Head_
  <2>4. buffer.base \in 0..Len(store[buffer.path])
    BY <1>1, <2>2, <2>3
  <2>5. /\ TextIn(store', buffer.path, buffer.base) = TextIn(store, buffer.path, buffer.base)
        /\ buffer.base <= Len(store'[buffer.path])
    BY <1>1, <2>2, <2>3, <2>4
  <2>. QED
    BY <2>1, <2>3, <2>5
<1>. QED
  BY <1>2, <1>3, <1>4 DEF Reflects, Head_, Dated

LEMMA ReflectsServeSave ==
  ASSUME CoreInv, Reflects, Grown(store, store', edits), ServeSave
  PROVE  Reflects'
<1>. USE DEF CoreInv
<1>. DEFINE r == Head(requests)
            d == r.path
<1>1. /\ d \in Docs /\ r.text \in Text /\ r.text = saving.text /\ Adds(d, r.text, "shell")
      /\ serving' = [path |-> d, rev |-> Head_(d) + 1]
      /\ NoneForSave(answers) /\ UNCHANGED <<answers, buffer, saving>>
  BY SaveServed
<1>. HIDE DEF d
<1>2. \A x \in Docs : /\ Len(store[x]) \in Nat /\ Len(store'[x]) \in Nat
                      /\ Len(store[x]) <= Len(store'[x])
                      /\ \A i \in 0..Len(store[x]) : TextIn(store', x, i) = TextIn(store, x, i)
  BY DEF Grown
<1>3. /\ Len(store'[d]) = Len(store[d]) + 1
      /\ store'[d][Len(store[d]) + 1] = [text |-> r.text, by |-> "shell"]
  BY <1>1, AddsEffect DEF Head_
<1>4. TextIn(store', d, Len(store[d]) + 1) = saving.text
  <2>1. Len(store[d]) + 1 # 0
    BY <1>1, <1>2
  <2>. QED
    BY <1>1, <1>3, <2>1 DEF TextIn, NullRev
<1>5. ASSUME NEW i \in DOMAIN answers, answers[i].kind = "loaded"
      PROVE  /\ answers[i].rev <= Len(store'[answers[i].path])
             /\ answers[i].text = TextIn(store', answers[i].path, answers[i].rev)
  <2>1. answers[i].path \in Docs /\ answers[i].rev \in Nat
    BY <1>5, AnswerTypes
  <2>2. /\ answers[i].rev <= Len(store[answers[i].path])
        /\ answers[i].text = TextIn(store, answers[i].path, answers[i].rev)
    BY <1>5 DEF Reflects, Head_
  <2>3. answers[i].rev \in 0..Len(store[answers[i].path])
    BY <1>2, <2>1, <2>2
  <2>. QED
    BY <1>2, <2>1, <2>2, <2>3
<1>6. \A i \in DOMAIN answers : answers[i].kind # "saved"
  BY <1>1 DEF NoneForSave, ForSave
<1>7. ASSUME buffer # Nothing
      PROVE  /\ buffer.base <= Len(store'[buffer.path])
             /\ ~ buffer.dirty => /\ buffer.base # NullRev
                                  /\ buffer.text = TextIn(store', buffer.path, buffer.base)
  <2>1. buffer.path \in Docs /\ buffer.base \in Nat
    BY <1>7, HeadInRange DEF STypeOK, Buffer
  <2>2. /\ buffer.base <= Len(store[buffer.path])
        /\ ~ buffer.dirty => /\ buffer.base # NullRev
                             /\ buffer.text = TextIn(store, buffer.path, buffer.base)
    BY <1>7 DEF Reflects, Head_
  <2>3. buffer.base \in 0..Len(store[buffer.path])
    BY <1>2, <2>1, <2>2
  <2>. QED
    BY <1>2, <2>1, <2>2, <2>3
<1>8. /\ serving'.path = d /\ serving'.rev = Len(store[d]) + 1
      /\ Len(store[d]) + 1 <= Len(store'[d])
  BY <1>1, <1>2, <1>3 DEF Head_
<1>. QED
  BY <1>1, <1>4, <1>5, <1>6, <1>7, <1>8 DEF Reflects, Head_

LEMMA SaveFinished ==
  ASSUME CoreInv, FinishSave
  PROVE  LET a == [kind |-> "saved", path |-> serving.path, rev |-> serving.rev]
         IN  /\ serving # Nothing /\ serving \in Commit /\ saving # Nothing
             /\ a \in Answer /\ Reply(a)
             /\ NoneForSave(answers) /\ NoneForSave(requests)
             /\ serving' = Nothing /\ events' = Append(events, serving) /\ link = "up"
             /\ UNCHANGED <<store, unsent, requests, buffer, saving, deferred, link, missed,
                            edits, saves, opens, faults>>
<1>. DEFINE a == [kind |-> "saved", path |-> serving.path, rev |-> serving.rev]
<1>1. /\ link = "up" /\ serving # Nothing /\ events' = Append(events, serving) /\ Reply(a)
      /\ serving' = Nothing
      /\ UNCHANGED <<store, unsent, requests, buffer, saving, deferred, link, missed, edits,
                     saves, opens, faults>>
  BY DEF FinishSave, shell, counters
<1>2. serving \in Commit /\ a \in Answer
  BY <1>1, AnswersMade DEF CoreInv, STypeOK, Commit
<1>3. saving # Nothing /\ NoneForSave(requests) /\ NoneForSave(answers)
  BY <1>1 DEF CoreInv, SaveInFlight
<1>. QED
  BY <1>1, <1>2, <1>3

LEMMA ReflectsFinishSave ==
  ASSUME CoreInv, Reflects, FinishSave
  PROVE  Reflects'
<1>. DEFINE a == [kind |-> "saved", path |-> serving.path, rev |-> serving.rev]
<1>1. /\ a \in Answer /\ Reply(a) /\ serving # Nothing /\ serving' = Nothing
      /\ UNCHANGED <<store, buffer, saving>>
  BY SaveFinished
<1>2. \A i \in DOMAIN answers' : \/ i \in DOMAIN answers /\ answers'[i] = answers[i]
                                 \/ answers'[i] = a
  BY <1>1, Replied DEF CoreInv
<1>3. /\ a.rev <= Len(store[a.path]) /\ saving.text = TextIn(store, a.path, a.rev)
      /\ a.kind = "saved"
  BY <1>1 DEF Reflects, Head_
<1>. HIDE DEF a
<1>. QED
  BY <1>1, <1>2, <1>3 DEF Reflects, Head_

LEMMA ReadServed ==
  ASSUME CoreInv, ServeRead
  PROVE  LET r == Head(requests)
             a == ReadAnswer(r)
         IN  /\ r \in Request /\ r.kind = "read" /\ requests' = Tail(requests) /\ requests # <<>>
             /\ a \in Answer /\ Reply(a) /\ r.path \in Docs /\ serving = Nothing /\ link = "up"
             /\ a.kind \in {"loaded", "missing"}
             /\ a.kind = "loaded" => /\ a.path = r.path /\ a.rev = Len(store[r.path])
                                     /\ a.text = TextIn(store, r.path, Len(store[r.path]))
             /\ Len(store[r.path]) # 0 => a.kind = "loaded"
             /\ UNCHANGED <<store, unsent, events, serving, buffer, saving, deferred, link,
                            missed, edits, saves, opens, faults>>
<1>. DEFINE r == Head(requests)
            a == ReadAnswer(r)
<1>1. /\ Take("read") /\ Reply(a)
      /\ UNCHANGED <<store, unsent, events, serving, buffer, saving, deferred, link, missed,
                     edits, saves, opens, faults>>
  BY DEF ServeRead, ReadAnswer, server, shell, counters
<1>2. /\ r \in Request /\ r.kind = "read" /\ requests' = Tail(requests) /\ requests # <<>>
      /\ serving = Nothing /\ link = "up"
  BY <1>1, Taken DEF CoreInv
<1>3. r.path \in Docs
  BY <1>2, RequestByKind
<1>4. /\ a \in Answer /\ a.kind \in {"loaded", "missing"}
      /\ a.kind = "loaded" => a.path = r.path /\ a.rev = Head_(r.path) /\ a.text = HeadText(r.path)
      /\ Head_(r.path) # 0 => a.kind = "loaded"
  BY <1>2, ReadAnswered DEF CoreInv
<1>5. HeadText(r.path) = TextIn(store, r.path, Head_(r.path))
  BY <1>3, StoreTypes, TextsIn DEF CoreInv
<1>. HIDE DEF a, r
<1>. QED
  BY <1>1, <1>2, <1>3, <1>4, <1>5 DEF Head_, a, r

LEMMA ReflectsServeRead ==
  ASSUME CoreInv, Reflects, ServeRead
  PROVE  Reflects'
<1>. DEFINE r == Head(requests)
            a == ReadAnswer(r)
<1>1. /\ a \in Answer /\ Reply(a) /\ r.path \in Docs /\ a.kind \in {"loaded", "missing"}
      /\ a.kind = "loaded" => /\ a.path = r.path /\ a.rev = Len(store[r.path])
                              /\ a.text = TextIn(store, r.path, Len(store[r.path]))
      /\ UNCHANGED <<store, serving, buffer, saving>>
  BY ReadServed
<1>. HIDE DEF a, r
<1>2. \A i \in DOMAIN answers' : \/ i \in DOMAIN answers /\ answers'[i] = answers[i]
                                 \/ answers'[i] = a
  BY <1>1, Replied DEF CoreInv
<1>3. Len(store[r.path]) \in Nat
  BY <1>1, HeadInRange DEF CoreInv
<1>4. a.kind = "loaded" => a.rev <= Len(store[a.path]) /\ a.text = TextIn(store, a.path, a.rev)
  BY <1>1, <1>3
<1>. QED
  BY <1>1, <1>2, <1>4 DEF Reflects, Head_

LEMMA ReflectsNewDoc ==
  ASSUME CoreInv, Reflects, NEW d \in Docs, NewDoc(d)
  PROVE  Reflects'
<1>1. /\ buffer'.path = d /\ buffer'.base = 0 /\ buffer'.dirty
      /\ UNCHANGED <<store, answers, serving, saving>>
  BY DEF NewDoc, NullRev, server
<1>2. 0 <= Len(store[d])
  BY HeadInRange DEF CoreInv
<1>. QED
  BY <1>1, <1>2 DEF Reflects, Head_

(* The answer to a save, and the buffer it leaves. *)
LEMMA SavedReceived ==
  ASSUME CoreInv, ReceiveSaved
  PROVE  LET a == Head(answers)
         IN  /\ Receive("saved") /\ ForSave(a) /\ a.kind = "saved" /\ a = answers[1]
             /\ 1 \in DOMAIN answers /\ a.path \in Docs /\ a.rev \in Nat /\ a.rev \in Rev
             /\ a.rev >= 1 /\ a.path = saving.path /\ saving # Nothing /\ buffer # Nothing
             /\ buffer \in Buffer
             /\ NoneForSave(answers') /\ NoneForSave(requests) /\ serving = Nothing
             /\ Ask([kind |-> "list"]) /\ saving'.path = saving.path
             /\ saving' # Nothing
             /\ buffer.path = a.path =>
                  /\ buffer'.path = buffer.path /\ buffer'.base = a.rev /\ buffer'.text = buffer.text
                  /\ buffer'.dirty = (buffer.text # saving.text)
                  /\ buffer'.conflict = NullRev
             /\ buffer.path # a.path => buffer' = buffer
             /\ UNCHANGED <<store, unsent, events, serving, deferred, link, missed, edits, saves,
                            opens, faults>>
<1>. USE DEF CoreInv
<1>. DEFINE a == Head(answers)
<1>1. /\ Receive("saved") /\ Ask([kind |-> "list"]) /\ saving' = [saving EXCEPT !.phase = "list"]
      /\ buffer' = IF SavedHere
                   THEN [buffer EXCEPT !.base = a.rev, !.dirty = buffer.text # saving.text,
                                       !.conflict = NullRev]
                   ELSE buffer
      /\ UNCHANGED <<store, unsent, events, serving, deferred, link, missed, edits, saves,
                     opens, faults>>
  BY DEF ReceiveSaved, server, counters
<1>2. /\ a \in Answer /\ a.kind = "saved" /\ a = answers[1] /\ 1 \in DOMAIN answers
  BY <1>1, Received
<1>3. ForSave(a)
  BY <1>2 DEF ForSave
<1>4. a.path \in Docs /\ a.rev \in Rev /\ a.rev \in Nat /\ a.rev >= 1
  BY <1>2, AnswerTypes DEF Numbered
<1>5. /\ NoneForSave(answers') /\ NoneForSave(requests) /\ serving = Nothing
      /\ saving # Nothing /\ OfThisSave(a, saving) /\ buffer # Nothing
  BY <1>1, <1>3, SaveReceived
<1>6. a.path = saving.path
  BY <1>2, <1>5 DEF OfThisSave
<1>7. saving \in Saving /\ buffer \in Buffer
  BY <1>5 DEF STypeOK
<1>8. saving' \in Saving /\ saving'.path = saving.path
  BY <1>1, <1>7 DEF Saving
<1>9. saving' # Nothing
  BY <1>8, NotNothing
<1>10. SavedHere <=> buffer.path = a.path
  BY <1>5, <1>6 DEF SavedHere
<1>11. buffer.path = a.path =>
        /\ buffer'.path = buffer.path /\ buffer'.base = a.rev /\ buffer'.text = buffer.text
        /\ buffer'.dirty = (buffer.text # saving.text) /\ buffer'.conflict = NullRev
  BY <1>1, <1>7, <1>10 DEF Buffer
<1>. QED
  BY <1>1, <1>2, <1>3, <1>4, <1>5, <1>6, <1>7, <1>8, <1>9, <1>10, <1>11

LEMMA ReflectsReceiveSaved ==
  ASSUME CoreInv, Reflects, ReceiveSaved
  PROVE  Reflects'
<1>. DEFINE a == Head(answers)
<1>1. /\ Receive("saved") /\ a.kind = "saved" /\ a = answers[1] /\ 1 \in DOMAIN answers
      /\ a.rev >= 1 /\ a.rev \in Nat
      /\ buffer # Nothing /\ NoneForSave(answers') /\ serving = Nothing
      /\ buffer.path = a.path =>
           /\ buffer'.path = buffer.path /\ buffer'.base = a.rev /\ buffer'.text = buffer.text
           /\ buffer'.dirty = (buffer.text # saving.text)
      /\ buffer.path # a.path => buffer' = buffer
      /\ UNCHANGED <<store, serving>>
  BY SavedReceived
<1>. HIDE DEF a
<1>2. a.rev <= Len(store[a.path]) /\ saving.text = TextIn(store, a.path, a.rev)
  BY <1>1 DEF Reflects, Head_
<1>3. \A i \in DOMAIN answers' : i + 1 \in DOMAIN answers /\ answers'[i] = answers[i + 1]
  BY <1>1, Received DEF CoreInv
<1>4. \A i \in DOMAIN answers' : answers'[i].kind # "saved"
  BY <1>1 DEF NoneForSave, ForSave
<1>5. /\ buffer'.base <= Len(store[buffer'.path])
      /\ ~ buffer'.dirty => /\ buffer'.base # NullRev
                            /\ buffer'.text = TextIn(store, buffer'.path, buffer'.base)
  <2>1. CASE buffer.path = a.path
    <3>1. /\ buffer'.path = a.path /\ buffer'.base = a.rev /\ buffer'.text = buffer.text
          /\ ~ buffer'.dirty => buffer.text = saving.text
      BY <1>1, <2>1
    <3>2. a.rev # NullRev
      BY <1>1 DEF NullRev
    <3>. QED
      BY <1>2, <3>1, <3>2
  <2>2. CASE buffer.path # a.path
    BY <1>1, <2>2 DEF Reflects, Head_
  <2>. QED
    BY <2>1, <2>2
<1>. QED
  BY <1>1, <1>3, <1>4, <1>5 DEF Reflects, Head_

LEMMA ReflectsReceiveLoaded ==
  ASSUME CoreInv, Reflects, ReceiveLoaded
  PROVE  Reflects'
<1>. DEFINE a == Head(answers)
<1>1. /\ Receive("loaded") /\ a.kind = "loaded" /\ a.rev # NullRev
      /\ buffer'.path = a.path /\ buffer'.base = a.rev /\ buffer'.text = a.text
      /\ UNCHANGED <<store, serving, saving>>
  BY LoadedTypes
<1>2. /\ a = answers[1] /\ 1 \in DOMAIN answers
      /\ \A i \in DOMAIN answers' : i + 1 \in DOMAIN answers /\ answers'[i] = answers[i + 1]
  BY <1>1, Received DEF CoreInv
<1>. HIDE DEF a
<1>3. a.rev <= Len(store[a.path]) /\ a.text = TextIn(store, a.path, a.rev)
  BY <1>1, <1>2 DEF Reflects, Head_
<1>. QED
  BY <1>1, <1>2, <1>3 DEF Reflects, Head_

LEMMA ReflectsNext ==
  ASSUME CoreInv, CoreInv', Reflects, [Next]_vars
  PROVE  Reflects'
<1>1. Grown(store, store', edits)
  BY GrownNext
<1>. QED
  BY <1>1, OrdinaryNext, ReflectsOrdinary, ReflectsServeSave, ReflectsFinishSave,
     ReflectsServeRead, ReflectsNewDoc, ReflectsReceiveSaved, ReflectsReceiveLoaded

(* The buffer, the save in flight and the queues between shell and daemon  *)
(* are well formed in every reachable state, and an idle shell has no      *)
(* commit put off.                                                         *)
THEOREM STypeCorrect == Spec => []STypeOK
<1>1. Init => CoreInv /\ Reflects
  BY CoreInit, ReflectsInit
<1>2. CoreInv /\ Reflects /\ [Next]_vars => (CoreInv /\ Reflects)'
  BY CoreNext, ReflectsNext
<1>3. CoreInv /\ Reflects => STypeOK
  BY DEF CoreInv
<1>. QED
  BY <1>1, <1>2, <1>3, PTL DEF Spec

-------------------------------------------------------------------------------
(* Revisions reach the shell in order.                                     *)

Ordered ==
  /\ \A i, j \in DOMAIN answers :
       i < j /\ Dated(answers[i]) /\ Dated(answers[j]) /\ answers[i].path = answers[j].path =>
         answers[i].rev <= answers[j].rev
  /\ buffer # Nothing =>
       \A i \in DOMAIN answers :
         Dated(answers[i]) /\ answers[i].path = buffer.path => buffer.base <= answers[i].rev
  /\ serving # Nothing =>
       /\ \A i \in DOMAIN answers :
            Dated(answers[i]) /\ answers[i].path = serving.path => answers[i].rev <= serving.rev
       /\ buffer # Nothing /\ buffer.path = serving.path => buffer.base <= serving.rev

LEMMA OrderedInit == Init => Ordered
<1>. QED
  BY DEF Init, Ordered

LEMMA OrderedOrdinary ==
  ASSUME CoreInv, Ordered, Ordinary
  PROVE  Ordered'
<1>1. PICK s \in {0, 1} : \A i \in DOMAIN answers' :
        i \in Nat /\ (Dated(answers'[i]) => i + s \in DOMAIN answers /\ answers'[i] = answers[i + s])
  BY DEF Ordinary, Carried
<1>2. ASSUME NEW i \in DOMAIN answers', NEW j \in DOMAIN answers', i < j,
             Dated(answers'[i]), Dated(answers'[j]), answers'[i].path = answers'[j].path
      PROVE  answers'[i].rev <= answers'[j].rev
  <2>1. i + s < j + s
    BY <1>1, <1>2
  <2>. QED
    BY <1>1, <1>2, <2>1 DEF Ordered
<1>3. buffer' # Nothing =>
        \A i \in DOMAIN answers' :
          Dated(answers'[i]) /\ answers'[i].path = buffer'.path => buffer'.base <= answers'[i].rev
  BY <1>1 DEF Ordered, Ordinary, BufferKept
<1>4. serving' # Nothing =>
        /\ \A i \in DOMAIN answers' :
             Dated(answers'[i]) /\ answers'[i].path = serving'.path => answers'[i].rev <= serving'.rev
        /\ buffer' # Nothing /\ buffer'.path = serving'.path => buffer'.base <= serving'.rev
  BY <1>1 DEF Ordered, Ordinary, BufferKept
<1>. QED
  BY <1>2, <1>3, <1>4 DEF Ordered, Dated

(* A revision that is the head is not before any that was seen. *)
LEMMA HeadIsLast ==
  ASSUME CoreInv, Reflects, NEW d \in Docs
  PROVE  /\ \A i \in DOMAIN answers :
              Dated(answers[i]) /\ answers[i].path = d =>
                answers[i].rev \in Nat /\ answers[i].rev <= Len(store[d])
         /\ buffer # Nothing /\ buffer.path = d => buffer.base \in Nat /\ buffer.base <= Len(store[d])
         /\ Len(store[d]) \in Nat
<1>1. \A i \in DOMAIN answers :
        Dated(answers[i]) /\ answers[i].path = d =>
          answers[i].rev \in Nat /\ answers[i].rev <= Len(store[d])
  BY AnswerTypes DEF Reflects, Head_, CoreInv, Dated
<1>2. buffer # Nothing /\ buffer.path = d => buffer.base \in Nat /\ buffer.base <= Len(store[d])
  BY HeadInRange DEF Reflects, Head_, CoreInv, STypeOK, Buffer
<1>. QED
  BY <1>1, <1>2, HeadInRange DEF CoreInv

LEMMA OrderedServeSave ==
  ASSUME CoreInv, Reflects, Ordered, ServeSave
  PROVE  Ordered'
<1>. DEFINE d == Head(requests).path
<1>1. /\ d \in Docs /\ serving' = [path |-> d, rev |-> Head_(d) + 1]
      /\ UNCHANGED <<answers, buffer>>
  BY SaveServed
<1>. HIDE DEF d
<1>2. /\ \A i \in DOMAIN answers :
           Dated(answers[i]) /\ answers[i].path = d =>
             answers[i].rev \in Nat /\ answers[i].rev <= Len(store[d])
      /\ buffer # Nothing /\ buffer.path = d => buffer.base \in Nat /\ buffer.base <= Len(store[d])
      /\ Len(store[d]) \in Nat
  BY <1>1, HeadIsLast
<1>3. serving'.path = d /\ serving'.rev = Len(store[d]) + 1
  BY <1>1 DEF Head_
<1>4. \A n \in Nat : n <= Len(store[d]) => n <= Len(store[d]) + 1
  BY <1>2
<1>. QED
  BY <1>1, <1>2, <1>3, <1>4 DEF Ordered, Dated

(* A dated answer that is not before any other was appended. *)
LEMMA OrderedAppended ==
  ASSUME CoreInv, Ordered, NEW a \in Answer, Reply(a), UNCHANGED buffer, serving' = Nothing,
         Dated(a) =>
           /\ \A i \in DOMAIN answers :
                Dated(answers[i]) /\ answers[i].path = a.path => answers[i].rev <= a.rev
           /\ buffer # Nothing /\ buffer.path = a.path => buffer.base <= a.rev
  PROVE  Ordered'
<1>1. /\ \A i \in DOMAIN answers' :
           \/ i \in DOMAIN answers /\ answers'[i] = answers[i]
           \/ i = Len(answers) + 1 /\ answers'[i] = a
      /\ Len(answers) \in Nat
      /\ \A i \in DOMAIN answers : i \in Nat /\ i <= Len(answers)
  BY Replied DEF CoreInv
<1>2. ASSUME NEW i \in DOMAIN answers', NEW j \in DOMAIN answers', i < j,
             Dated(answers'[i]), Dated(answers'[j]), answers'[i].path = answers'[j].path
      PROVE  answers'[i].rev <= answers'[j].rev
  <2>1. i \in DOMAIN answers /\ answers'[i] = answers[i]
    BY <1>1, <1>2
  <2>2. CASE j \in DOMAIN answers /\ answers'[j] = answers[j]
    BY <1>2, <2>1, <2>2 DEF Ordered
  <2>3. CASE answers'[j] = a
    BY <1>2, <2>1, <2>3
  <2>. QED
    BY <1>1, <2>2, <2>3
<1>3. buffer # Nothing =>
        \A i \in DOMAIN answers' :
          Dated(answers'[i]) /\ answers'[i].path = buffer.path => buffer.base <= answers'[i].rev
  BY <1>1 DEF Ordered
<1>. QED
  BY <1>2, <1>3 DEF Ordered, Dated

LEMMA OrderedFinishSave ==
  ASSUME CoreInv, Ordered, FinishSave
  PROVE  Ordered'
<1>. DEFINE a == [kind |-> "saved", path |-> serving.path, rev |-> serving.rev]
<1>1. /\ a \in Answer /\ Reply(a) /\ serving # Nothing /\ serving' = Nothing /\ buffer' = buffer
  BY SaveFinished
<1>2. a.path = serving.path /\ a.rev = serving.rev
  OBVIOUS
<1>. HIDE DEF a
<1>3. /\ \A i \in DOMAIN answers :
           Dated(answers[i]) /\ answers[i].path = a.path => answers[i].rev <= a.rev
      /\ buffer # Nothing /\ buffer.path = a.path => buffer.base <= a.rev
  BY <1>1, <1>2 DEF Ordered
<1>. QED
  BY <1>1, <1>3, OrderedAppended

LEMMA OrderedServeRead ==
  ASSUME CoreInv, Reflects, Ordered, ServeRead
  PROVE  Ordered'
<1>. DEFINE r == Head(requests)
            a == ReadAnswer(r)
<1>1. /\ a \in Answer /\ Reply(a) /\ r.path \in Docs /\ a.kind \in {"loaded", "missing"}
      /\ a.kind = "loaded" => a.path = r.path /\ a.rev = Len(store[r.path])
      /\ serving = Nothing /\ UNCHANGED <<serving, buffer>>
  BY ReadServed
<1>. HIDE DEF a, r
<1>2. Dated(a) =>
           /\ \A i \in DOMAIN answers :
                Dated(answers[i]) /\ answers[i].path = a.path => answers[i].rev <= a.rev
           /\ buffer # Nothing /\ buffer.path = a.path => buffer.base <= a.rev
  BY <1>1, HeadIsLast DEF Dated
<1>. QED
  BY <1>1, <1>2, OrderedAppended

LEMMA OrderedNewDoc ==
  ASSUME CoreInv, Ordered, NEW d \in Docs, NewDoc(d)
  PROVE  Ordered'
<1>1. /\ buffer'.path = d /\ buffer'.base = 0 /\ UNCHANGED <<answers, serving>>
  BY DEF NewDoc, NullRev, server
<1>2. /\ \A i \in DOMAIN answers : Dated(answers[i]) => 0 <= answers[i].rev
      /\ serving # Nothing => 0 <= serving.rev
  <2>1. serving # Nothing => serving.rev \in Nat
    BY HeadInRange DEF CoreInv, STypeOK, Commit
  <2>2. \A i \in DOMAIN answers : Dated(answers[i]) => answers[i].rev \in Nat
    BY AnswerTypes DEF CoreInv, Dated
  <2>. QED
    BY <2>1, <2>2
<1>. QED
  BY <1>1, <1>2 DEF Ordered, Dated

LEMMA OrderedReceiveSaved ==
  ASSUME CoreInv, Ordered, ReceiveSaved
  PROVE  Ordered'
<1>. DEFINE a == Head(answers)
<1>1. /\ Receive("saved") /\ a.kind = "saved" /\ a = answers[1] /\ 1 \in DOMAIN answers
      /\ buffer # Nothing /\ serving = Nothing /\ serving' = serving
      /\ buffer.path = a.path => buffer'.path = buffer.path /\ buffer'.base = a.rev
      /\ buffer.path # a.path => buffer' = buffer
  BY SavedReceived
<1>. HIDE DEF a
<1>2. \A i \in DOMAIN answers' : /\ i \in Nat \ {0} /\ i + 1 \in DOMAIN answers
                                 /\ answers'[i] = answers[i + 1]
  BY <1>1, Received DEF CoreInv
<1>3. \A i, j \in DOMAIN answers' : i < j => i + 1 < j + 1
  BY <1>2
<1>4. \A i \in DOMAIN answers' : 1 < i + 1
  BY <1>2
<1>5. \A i \in DOMAIN answers' :
        Dated(answers'[i]) /\ answers'[i].path = a.path => a.rev <= answers'[i].rev
  BY <1>1, <1>2, <1>4 DEF Ordered, Dated
<1>6. \A i \in DOMAIN answers' :
        Dated(answers'[i]) /\ answers'[i].path = buffer'.path => buffer'.base <= answers'[i].rev
  <2>1. CASE buffer.path = a.path
    BY <1>1, <1>5, <2>1
  <2>2. CASE buffer.path # a.path
    BY <1>1, <1>2, <2>2 DEF Ordered
  <2>. QED
    BY <2>1, <2>2
<1>7. \A i, j \in DOMAIN answers' :
        i < j /\ Dated(answers'[i]) /\ Dated(answers'[j]) /\ answers'[i].path = answers'[j].path =>
          answers'[i].rev <= answers'[j].rev
  BY <1>2, <1>3 DEF Ordered
<1>. QED
  BY <1>1, <1>6, <1>7 DEF Ordered, Dated

LEMMA OrderedReceiveLoaded ==
  ASSUME CoreInv, Ordered, ReceiveLoaded
  PROVE  Ordered'
<1>. DEFINE a == Head(answers)
<1>1. /\ Receive("loaded") /\ a.kind = "loaded" /\ serving' = serving
      /\ buffer'.path = a.path /\ buffer'.base = a.rev
  BY LoadedTypes
<1>2. /\ a = answers[1] /\ 1 \in DOMAIN answers
      /\ \A i \in DOMAIN answers' : /\ i \in Nat \ {0} /\ i + 1 \in DOMAIN answers
                                    /\ answers'[i] = answers[i + 1]
  BY <1>1, Received DEF CoreInv
<1>. HIDE DEF a
<1>3. \A i, j \in DOMAIN answers' : i < j => i + 1 < j + 1
  BY <1>2
<1>4. \A i \in DOMAIN answers' : 1 < i + 1
  BY <1>2
<1>5. \A i \in DOMAIN answers' :
        Dated(answers'[i]) /\ answers'[i].path = a.path => a.rev <= answers'[i].rev
  BY <1>1, <1>2, <1>4 DEF Ordered, Dated
<1>6. \A i, j \in DOMAIN answers' :
        i < j /\ Dated(answers'[i]) /\ Dated(answers'[j]) /\ answers'[i].path = answers'[j].path =>
          answers'[i].rev <= answers'[j].rev
  BY <1>2, <1>3 DEF Ordered
<1>7. serving # Nothing =>
        /\ \A i \in DOMAIN answers' :
             Dated(answers'[i]) /\ answers'[i].path = serving.path => answers'[i].rev <= serving.rev
        /\ a.path = serving.path => a.rev <= serving.rev
  BY <1>1, <1>2 DEF Ordered, Dated
<1>. QED
  BY <1>1, <1>5, <1>6, <1>7 DEF Ordered, Dated

LEMMA OrderedNext ==
  ASSUME CoreInv, Reflects, Ordered, [Next]_vars
  PROVE  Ordered'
<1>. QED
  BY OrdinaryNext, OrderedOrdinary, OrderedServeSave, OrderedFinishSave, OrderedServeRead,
     OrderedNewDoc, OrderedReceiveSaved, OrderedReceiveLoaded

-------------------------------------------------------------------------------
(* What others wrote is not lost by a save.                                *)

(* A text and a revision contain the same edits of others. *)
FaithfulIn(s, d, rev, text) == text \cap OthersIn(s, d) = TextIn(s, d, rev) \cap OthersIn(s, d)

KeptStore ==
  \A d \in Docs : \A i \in DOMAIN store[d] :
    store[d][i].by = "shell" =>
      TextIn(store, d, i - 1) \cap OthersIn(store, d) \subseteq store[d][i].text

KeptBuffer == buffer # Nothing => FaithfulIn(store, buffer.path, buffer.base, buffer.text)

(* The base of a save is not after anything that can replace the buffer    *)
(* before the save is answered.                                            *)
KeptRequest ==
  \A i \in DOMAIN requests : requests[i].kind = "save" =>
    /\ FaithfulIn(store, requests[i].path, requests[i].base, requests[i].text)
    /\ requests[i].base <= Len(store[requests[i].path])
    /\ buffer # Nothing /\ buffer.path = requests[i].path => requests[i].base <= buffer.base
    /\ \A j \in DOMAIN answers :
         answers[j].kind = "loaded" /\ answers[j].path = requests[i].path =>
           requests[i].base <= answers[j].rev

(* Until a save is answered, the buffer, and what may replace it by then,  *)
(* agrees with the saved revision on the edits of others.                  *)
KeptServing ==
  serving # Nothing =>
    /\ buffer # Nothing /\ buffer.path = serving.path =>
         FaithfulIn(store, serving.path, serving.rev, buffer.text)
    /\ \A j \in DOMAIN answers :
         answers[j].kind = "loaded" /\ answers[j].path = serving.path =>
           FaithfulIn(store, serving.path, serving.rev, answers[j].text)

KeptSaved ==
  \A i \in DOMAIN answers : answers[i].kind = "saved" =>
    /\ buffer # Nothing /\ buffer.path = answers[i].path =>
         FaithfulIn(store, answers[i].path, answers[i].rev, buffer.text)
    /\ \A j \in DOMAIN answers :
         j < i /\ answers[j].kind = "loaded" /\ answers[j].path = answers[i].path =>
           FaithfulIn(store, answers[i].path, answers[i].rev, answers[j].text)

Kept == KeptStore /\ KeptBuffer /\ KeptRequest /\ KeptServing /\ KeptSaved

LEMMA KeptInit == Init => Kept
<1>. QED
  BY DEF Init, Kept, KeptStore, KeptBuffer, KeptRequest, KeptServing, KeptSaved

(* What the shell holds, in terms of the store. *)
LEMMA Held ==
  ASSUME CoreInv, Reflects
  PROVE  /\ buffer # Nothing =>
              /\ buffer.path \in Docs /\ buffer.base \in 0..Len(store[buffer.path])
              /\ buffer.text \in SUBSET (1..edits)
         /\ \A i \in DOMAIN answers : answers[i].kind = "loaded" =>
              /\ answers[i].path \in Docs /\ answers[i].rev \in 0..Len(store[answers[i].path])
              /\ answers[i].text = TextIn(store, answers[i].path, answers[i].rev)
              /\ answers[i].text \in SUBSET (1..edits)
         /\ \A i \in DOMAIN answers : answers[i].kind = "saved" =>
              answers[i].path \in Docs /\ answers[i].rev \in 0..Len(store[answers[i].path])
         /\ serving # Nothing =>
              serving.path \in Docs /\ serving.rev \in 0..Len(store[serving.path])
         /\ \A i \in DOMAIN requests : requests[i].kind = "save" =>
              /\ requests[i].path \in Docs /\ requests[i].base \in Nat
              /\ requests[i].text \in SUBSET (1..edits) /\ saving # Nothing
              /\ requests[i].path = saving.path
<1>. USE DEF CoreInv
<1>1. /\ \A d \in Docs : Len(store[d]) \in Nat
      /\ \A r \in Rev : r \in Nat
  BY HeadInRange
<1>2. ASSUME buffer # Nothing
      PROVE  /\ buffer.path \in Docs /\ buffer.base \in 0..Len(store[buffer.path])
             /\ buffer.text \in SUBSET (1..edits)
  <2>1. buffer.path \in Docs /\ buffer.base \in Rev
    BY <1>2 DEF STypeOK, Buffer
  <2>2. buffer.base <= Len(store[buffer.path])
    BY <1>2 DEF Reflects, Head_
  <2>. QED
    BY <1>1, <1>2, <2>1, <2>2 DEF Counted
<1>3. ASSUME NEW i \in DOMAIN answers, Dated(answers[i])
      PROVE  answers[i].path \in Docs /\ answers[i].rev \in 0..Len(store[answers[i].path])
  <2>1. answers[i].path \in Docs /\ answers[i].rev \in Nat
    BY <1>3, AnswerTypes DEF Dated
  <2>2. answers[i].rev <= Len(store[answers[i].path])
    BY <1>3 DEF Reflects, Head_, Dated
  <2>. QED
    BY <1>1, <2>1, <2>2
<1>4. ASSUME NEW i \in DOMAIN answers, answers[i].kind = "loaded"
      PROVE  /\ answers[i].text = TextIn(store, answers[i].path, answers[i].rev)
             /\ answers[i].text \in SUBSET (1..edits)
  <2>1. answers[i].text = TextIn(store, answers[i].path, answers[i].rev)
    BY <1>4 DEF Reflects
  <2>2. answers[i].path \in Docs /\ answers[i].rev \in 0..Head_(answers[i].path)
    BY <1>3, <1>4 DEF Dated, Head_
  <2>. QED
    BY <2>1, <2>2, TextsCounted
<1>5. ASSUME serving # Nothing
      PROVE  serving.path \in Docs /\ serving.rev \in 0..Len(store[serving.path])
  <2>1. serving.path \in Docs /\ serving.rev \in Rev
    BY <1>5 DEF STypeOK, Commit
  <2>2. serving.rev <= Len(store[serving.path])
    BY <1>5 DEF Reflects, Head_
  <2>. QED
    BY <1>1, <2>1, <2>2
<1>6. ASSUME NEW i \in DOMAIN requests, requests[i].kind = "save"
      PROVE  /\ requests[i].path \in Docs /\ requests[i].base \in Nat
             /\ requests[i].text \in SUBSET (1..edits) /\ saving # Nothing
             /\ requests[i].path = saving.path
  <2>1. requests[i] \in Request
    BY Elements DEF STypeOK
  <2>2. requests[i].path \in Docs /\ requests[i].base \in Rev
    BY <1>6, <2>1, RequestByKind
  <2>3. OfThisSave(requests[i], saving)
    BY <1>6 DEF SaveInFlight, ForSave
  <2>4. saving # Nothing /\ requests[i].text = saving.text /\ requests[i].path = saving.path
    BY <1>6, <2>3 DEF OfThisSave
  <2>. QED
    BY <1>1, <2>2, <2>4 DEF Counted
<1>. QED
  BY <1>2, <1>3, <1>4, <1>5, <1>6 DEF Dated

(* Old texts stay faithful, and so does the buffer when the user types. *)
LEMMA FaithfulStays ==
  ASSUME CoreInv, Grown(store, store', edits), NEW d \in Docs, NEW rev \in 0..Len(store[d]),
         NEW text \in SUBSET (1..edits), FaithfulIn(store, d, rev, text)
  PROVE  FaithfulIn(store', d, rev, text)
<1>1. TextIn(store, d, rev) \in SUBSET (1..edits)
  BY TextsCounted DEF Head_
<1>2. /\ TextIn(store', d, rev) = TextIn(store, d, rev)
      /\ text \cap OthersIn(store', d) = text \cap OthersIn(store, d)
      /\ TextIn(store, d, rev) \cap OthersIn(store', d) = TextIn(store, d, rev) \cap OthersIn(store, d)
  BY <1>1 DEF Grown
<1>. QED
  BY <1>2 DEF FaithfulIn

LEMMA FaithfulTyped ==
  ASSUME CoreInv, NEW d \in Docs, NEW rev, NEW text, FaithfulIn(store, d, rev, text)
  PROVE  FaithfulIn(store, d, rev, text \cup {edits + 1})
<1>1. OthersIn(store, d) \subseteq 1..edits
  BY OthersBounded
<1>2. edits + 1 \notin 1..edits
  BY DEF CoreInv, STypeOK
<1>. QED
  BY <1>1, <1>2 DEF FaithfulIn

LEMMA FaithfulBuffer ==
  ASSUME CoreInv, Reflects, Grown(store, store', edits), BufferKept, buffer' # Nothing,
         NEW d \in Docs, NEW rev \in 0..Len(store[d]), FaithfulIn(store, d, rev, buffer.text)
  PROVE  FaithfulIn(store', d, rev, buffer'.text)
<1>1. buffer # Nothing /\ buffer.text \in SUBSET (1..edits)
  BY Held DEF BufferKept
<1>2. CASE buffer'.text = buffer.text
  BY <1>1, <1>2, FaithfulStays
<1>3. CASE buffer'.text = buffer.text \cup {edits + 1} /\ store' = store
  BY <1>3, FaithfulTyped
<1>. QED
  BY <1>2, <1>3 DEF BufferKept

(* The requests of saves are old, unless the user saves. *)
SaveRequestsOld ==
  \A i \in DOMAIN requests' : requests'[i].kind = "save" =>
    \E j \in DOMAIN requests : requests'[i] = requests[j]

LEMMA RequestsNext ==
  ASSUME CoreInv, [Next]_vars
  PROVE  SaveRequestsOld \/ Save
<1>. USE DEF CoreInv
<1>1. CASE requests' = requests
  BY <1>1 DEF SaveRequestsOld
<1>2. ASSUME NEW kind, Take(kind)
      PROVE  SaveRequestsOld
  BY <1>2, Taken DEF SaveRequestsOld
<1>3. ASSUME NEW r \in Request, Ask(r), r.kind # "save"
      PROVE  SaveRequestsOld
  BY <1>3, Asked DEF SaveRequestsOld
<1>4. ASSUME NEW u \in Seq(Request), requests' = requests \o u, \A i \in DOMAIN u : ~ ForSave(u[i])
      PROVE  SaveRequestsOld
  BY <1>4, OthersAsked DEF SaveRequestsOld, ForSave
<1>5. CASE requests' = <<>>
  BY <1>5 DEF SaveRequestsOld
<1>6. CASE \E d \in Docs : OpenDoc(d)
  BY <1>3, <1>6, RequestsMade DEF OpenDoc
<1>7. CASE ReceiveSaved
  BY <1>3, <1>7, RequestsMade DEF ReceiveSaved
<1>8. CASE ReceiveStale
  <2>1. saving # Nothing
    <3>1. Receive("stale")
      BY <1>8 DEF ReceiveStale
    <3>2. ForSave(Head(answers))
      BY <3>1, Received DEF ForSave
    <3>. QED
      BY <3>1, <3>2, SaveReceived
  <2>2. [kind |-> "read", path |-> saving.path, why |-> "reread"] \in Request
    BY <2>1, RequestsMade DEF STypeOK, Saving
  <2>. QED
    BY <1>3, <1>8, <2>2 DEF ReceiveStale
<1>9. ASSUME NEW b \in Buffer, Settle(b)
      PROVE  SaveRequestsOld
  <2>1. /\ Refreshes(b, deferred) \in Seq(Request)
        /\ \A i \in DOMAIN Refreshes(b, deferred) : ~ ForSave(Refreshes(b, deferred)[i])
    BY RefreshesFacts DEF STypeOK, ForSave
  <2>. QED
    BY <1>4, <1>9, <2>1 DEF Settle
<1>10. CASE SaveEnds
  BY <1>9, <1>10, SaveEndsTypes
<1>11. CASE ReceiveReread
  BY <1>9, <1>11, RefusedTypes
<1>12. CASE ReceiveEvent
  BY <1>4, <1>12, EventReceived
<1>13. requests' = requests \/ requests' = <<>> \/ (\E kind : Take(kind)) \/ Save
       \/ (\E d \in Docs : OpenDoc(d)) \/ ReceiveSaved \/ ReceiveStale \/ SaveEnds
       \/ ReceiveReread \/ ReceiveEvent
  BY Steps DEF OthersCommit, CommitSilently, NewDoc, Publish, ServeSave, FinishSave, ServeStale,
     ServeRefused, ServeRead, ServeList, Forward, Type, ReceiveLoaded, ReceiveMissing, Lag, Close, Disconnect,
     Hangup, Reconnect, vars
<1>. QED
  BY <1>1, <1>2, <1>5, <1>6, <1>7, <1>8, <1>10, <1>11, <1>12, <1>13

LEMMA KeptOld ==
  ASSUME CoreInv, KeptStore, Grown(store, store', edits),
         NEW d \in Docs, NEW i \in DOMAIN store[d], store'[d][i] = store[d][i],
         store'[d][i].by = "shell"
  PROVE  TextIn(store', d, i - 1) \cap OthersIn(store', d) \subseteq store'[d][i].text
<1>1. DOMAIN store[d] = 1..Len(store[d]) /\ Len(store[d]) \in Nat
  BY StoreTypes DEF CoreInv, Head_
<1>2. i - 1 \in 0..Len(store[d])
  BY <1>1
<1>3. TextIn(store, d, i - 1) \in SUBSET (1..edits)
  BY <1>2, TextsCounted DEF Head_
<1>4. /\ TextIn(store', d, i - 1) = TextIn(store, d, i - 1)
      /\ TextIn(store, d, i - 1) \cap OthersIn(store', d)
           = TextIn(store, d, i - 1) \cap OthersIn(store, d)
  BY <1>2, <1>3 DEF Grown
<1>5. TextIn(store, d, i - 1) \cap OthersIn(store, d) \subseteq store[d][i].text
  BY DEF KeptStore
<1>. QED
  BY <1>4, <1>5

LEMMA KeptStoreOthers ==
  ASSUME CoreInv, KeptStore, Grown(store, store', edits), NEW d \in Docs, NEW text \in Text,
         NEW by \in {"others", "silent"}, Adds(d, text, by)
  PROVE  KeptStore'
<1>1. /\ \A x \in Docs : x # d => store'[x] = store[x]
      /\ DOMAIN store'[d] = 1..(Head_(d) + 1)
      /\ \A i \in DOMAIN store[d] : store'[d][i] = store[d][i]
      /\ store'[d][Head_(d) + 1].by # "shell"
  <2>1. store'[d][Head_(d) + 1] = [text |-> text, by |-> by]
    BY AddsEffect DEF CoreInv
  <2>2. /\ \A x \in Docs : x # d => store'[x] = store[x]
        /\ DOMAIN store'[d] = 1..(Head_(d) + 1)
        /\ \A i \in DOMAIN store[d] : store'[d][i] = store[d][i]
    BY AddsEffect DEF CoreInv
  <2>. QED
    BY <2>1, <2>2
<1>2. DOMAIN store[d] = 1..Head_(d) /\ Head_(d) \in Nat
  BY StoreTypes DEF CoreInv
<1>3. ASSUME NEW x \in Docs, NEW i \in DOMAIN store'[x], store'[x][i].by = "shell"
      PROVE  TextIn(store', x, i - 1) \cap OthersIn(store', x) \subseteq store'[x][i].text
  <2>1. i \in DOMAIN store[x] /\ store'[x][i] = store[x][i]
    <3>1. CASE x = d
      <4>1. i # Head_(d) + 1
        BY <1>1, <1>3, <3>1
      <4>. QED
        BY <1>1, <1>2, <3>1, <4>1
    <3>2. CASE x # d
      BY <1>1, <3>2
    <3>. QED
      BY <3>1, <3>2
  <2>. QED
    BY <1>3, <2>1, KeptOld
<1>. QED
  BY <1>3 DEF KeptStore

LEMMA KeptStoreServeSave ==
  ASSUME CoreInv, Kept, Grown(store, store', edits), ServeSave
  PROVE  KeptStore'
<1>. DEFINE r == Head(requests)
            d == r.path
<1>1. /\ r.kind = "save" /\ r = requests[1] /\ 1 \in DOMAIN requests
      /\ d \in Docs /\ r.text \in Text /\ r.base = Head_(d) /\ Adds(d, r.text, "shell")
  BY SaveServed
<1>2. FaithfulIn(store, d, Head_(d), r.text)
  BY <1>1 DEF Kept, KeptRequest
<1>. HIDE DEF d, r
<1>3. /\ \A x \in Docs : x # d => store'[x] = store[x]
      /\ DOMAIN store'[d] = 1..(Head_(d) + 1)
      /\ \A i \in DOMAIN store[d] : store'[d][i] = store[d][i]
      /\ store'[d][Head_(d) + 1] = [text |-> r.text, by |-> "shell"]
  BY <1>1, AddsEffect DEF CoreInv
<1>4. DOMAIN store[d] = 1..Head_(d) /\ Head_(d) \in Nat /\ Head_(d) = Len(store[d])
  BY <1>1, StoreTypes DEF CoreInv, Head_
<1>5. OthersIn(store', d) = OthersIn(store, d)
  BY <1>1, GrownAdds
<1>6. TextIn(store', d, Head_(d)) = TextIn(store, d, Head_(d))
  BY <1>1, <1>4 DEF Grown
<1>7. ASSUME NEW x \in Docs, NEW i \in DOMAIN store'[x], store'[x][i].by = "shell"
      PROVE  TextIn(store', x, i - 1) \cap OthersIn(store', x) \subseteq store'[x][i].text
  <2>1. CASE x = d /\ i = Head_(d) + 1
    <3>1. i - 1 = Head_(d) /\ store'[x][i].text = r.text
      BY <1>3, <1>4, <2>1
    <3>. QED
      BY <1>2, <1>5, <1>6, <2>1, <3>1 DEF FaithfulIn
  <2>2. CASE ~ (x = d /\ i = Head_(d) + 1)
    <3>1. i \in DOMAIN store[x] /\ store'[x][i] = store[x][i]
      BY <1>3, <1>4, <2>2
    <3>. QED
      BY <1>7, <3>1, KeptOld DEF Kept
  <2>. QED
    BY <2>1, <2>2
<1>. QED
  BY <1>7 DEF KeptStore

LEMMA KeptStoreNext ==
  ASSUME CoreInv, Kept, [Next]_vars
  PROVE  KeptStore'
<1>1. Grown(store, store', edits)
  BY GrownNext
<1>2. CASE store' = store
  BY <1>2 DEF Kept, KeptStore
<1>3. CASE ServeSave
  BY <1>1, <1>3, KeptStoreServeSave
<1>4. ASSUME NEW d \in Docs, edits < MaxEdits, edits' = edits + 1, UNCHANGED saves,
             NEW by \in {"others", "silent"}, Adds(d, HeadText(d) \cup {edits'}, by)
      PROVE  KeptStore'
  <2>1. HeadText(d) \cup {edits'} \in Text
    BY <1>4, OthersEdit DEF CoreInv
  <2>. QED
    BY <1>1, <1>4, <2>1, KeptStoreOthers DEF Kept
<1>5. CASE ServeStale
  <2>1. Head(requests).path \in Docs /\ UNCHANGED saves
    BY <1>5, StaleServed
  <2>. QED
    BY <1>2, <1>4, <1>5, <2>1, StaleServed
<1>6. CASE \E d \in Docs : OthersCommit(d) \/ CommitSilently(d)
  BY <1>4, <1>6 DEF OthersCommit, CommitSilently
<1>7. store' = store \/ ServeSave \/ ServeStale
      \/ \E d \in Docs : OthersCommit(d) \/ CommitSilently(d)
  BY Steps DEF OpenDoc, NewDoc, Publish, FinishSave, ServeRefused, ServeRead, ServeList, Forward,
     Type, Save, ReceiveSaved, ReceiveStale, SaveEnds, ReceiveReread, ReceiveLoaded,
     ReceiveMissing, ReceiveEvent, Lag, Close, Disconnect, Hangup, Reconnect, server, vars
<1>. QED
  BY <1>2, <1>3, <1>5, <1>6, <1>7

(* An old loaded answer, in the queue as it is now. *)
LEMMA LoadedCarried ==
  ASSUME Carried
  PROVE  \E s \in {0, 1} : \A i \in DOMAIN answers' :
           /\ i \in Nat
           /\ answers'[i].kind \in {"loaded", "saved"} =>
                i + s \in DOMAIN answers /\ answers'[i] = answers[i + s]
<1>. QED
  BY DEF Carried, Dated

LEMMA KeptBufferOrdinary ==
  ASSUME CoreInv, Reflects, Kept, Grown(store, store', edits), BufferKept
  PROVE  KeptBuffer'
<1>1. SUFFICES ASSUME buffer' # Nothing
               PROVE  FaithfulIn(store', buffer'.path, buffer'.base, buffer'.text)
  BY DEF KeptBuffer
<1>2. buffer # Nothing /\ buffer'.path = buffer.path /\ buffer'.base = buffer.base
  BY <1>1 DEF BufferKept
<1>3. /\ buffer.path \in Docs /\ buffer.base \in 0..Len(store[buffer.path])
      /\ FaithfulIn(store, buffer.path, buffer.base, buffer.text)
  BY <1>2, Held DEF Kept, KeptBuffer
<1>. QED
  BY <1>1, <1>2, <1>3, FaithfulBuffer

LEMMA KeptServingOrdinary ==
  ASSUME CoreInv, Reflects, Kept, Grown(store, store', edits), BufferKept, Carried,
         serving' \in {serving, Nothing}
  PROVE  KeptServing'
<1>1. SUFFICES ASSUME serving' # Nothing
               PROVE  /\ buffer' # Nothing /\ buffer'.path = serving'.path =>
                           FaithfulIn(store', serving'.path, serving'.rev, buffer'.text)
                      /\ \A j \in DOMAIN answers' :
                           answers'[j].kind = "loaded" /\ answers'[j].path = serving'.path =>
                             FaithfulIn(store', serving'.path, serving'.rev, answers'[j].text)
  BY DEF KeptServing
<1>2. /\ serving' = serving /\ serving # Nothing
      /\ serving.path \in Docs /\ serving.rev \in 0..Len(store[serving.path])
  BY <1>1, Held
<1>3. ASSUME buffer' # Nothing, buffer'.path = serving.path
      PROVE  FaithfulIn(store', serving.path, serving.rev, buffer'.text)
  <2>1. buffer # Nothing /\ buffer.path = serving.path
    BY <1>3 DEF BufferKept
  <2>2. FaithfulIn(store, serving.path, serving.rev, buffer.text)
    BY <1>2, <2>1 DEF Kept, KeptServing
  <2>. QED
    BY <1>2, <1>3, <2>2, FaithfulBuffer
<1>4. ASSUME NEW j \in DOMAIN answers', answers'[j].kind = "loaded",
             answers'[j].path = serving.path
      PROVE  FaithfulIn(store', serving.path, serving.rev, answers'[j].text)
  <2>1. PICK k \in DOMAIN answers : answers'[j] = answers[k]
    BY <1>4, LoadedCarried
  <2>2. answers[k].kind = "loaded" /\ answers[k].path = serving.path
    BY <1>4, <2>1
  <2>3. FaithfulIn(store, serving.path, serving.rev, answers[k].text)
    BY <1>2, <2>2 DEF Kept, KeptServing
  <2>4. answers[k].text \in SUBSET (1..edits)
    BY <2>2, Held
  <2>5. FaithfulIn(store', serving.path, serving.rev, answers[k].text)
    BY <1>2, <2>3, <2>4, FaithfulStays
  <2>. QED
    BY <2>1, <2>5
<1>. QED
  BY <1>2, <1>3, <1>4

LEMMA KeptSavedOrdinary ==
  ASSUME CoreInv, Reflects, Kept, Grown(store, store', edits), BufferKept, Carried
  PROVE  KeptSaved'
<1>1. PICK s \in {0, 1} : \A i \in DOMAIN answers' :
        /\ i \in Nat
        /\ answers'[i].kind \in {"loaded", "saved"} =>
             i + s \in DOMAIN answers /\ answers'[i] = answers[i + s]
  BY LoadedCarried
<1>2. ASSUME NEW i \in DOMAIN answers', answers'[i].kind = "saved"
      PROVE  /\ buffer' # Nothing /\ buffer'.path = answers'[i].path =>
                  FaithfulIn(store', answers'[i].path, answers'[i].rev, buffer'.text)
             /\ \A j \in DOMAIN answers' :
                  j < i /\ answers'[j].kind = "loaded" /\ answers'[j].path = answers'[i].path =>
                    FaithfulIn(store', answers'[i].path, answers'[i].rev, answers'[j].text)
  <2>1. i + s \in DOMAIN answers /\ answers'[i] = answers[i + s]
    BY <1>1, <1>2
  <2>. DEFINE a == answers[i + s]
  <2>2. a.path \in Docs /\ a.rev \in 0..Len(store[a.path]) /\ a.kind = "saved"
    BY <1>2, <2>1, Held
  <2>3. ASSUME buffer' # Nothing, buffer'.path = a.path
        PROVE  FaithfulIn(store', a.path, a.rev, buffer'.text)
    <3>1. buffer # Nothing /\ buffer.path = a.path
      BY <2>3 DEF BufferKept
    <3>2. FaithfulIn(store, a.path, a.rev, buffer.text)
      BY <2>1, <2>2, <3>1 DEF Kept, KeptSaved
    <3>. QED
      BY <2>2, <2>3, <3>2, FaithfulBuffer
  <2>4. ASSUME NEW j \in DOMAIN answers', j < i, answers'[j].kind = "loaded",
               answers'[j].path = a.path
        PROVE  FaithfulIn(store', a.path, a.rev, answers'[j].text)
    <3>1. j + s \in DOMAIN answers /\ answers'[j] = answers[j + s] /\ j + s < i + s
      BY <1>1, <2>4
    <3>2. answers[j + s].kind = "loaded" /\ answers[j + s].path = a.path
      BY <2>4, <3>1
    <3>3. FaithfulIn(store, a.path, a.rev, answers[j + s].text)
      BY <2>1, <2>2, <3>1, <3>2 DEF Kept, KeptSaved
    <3>4. answers[j + s].text \in SUBSET (1..edits)
      BY <3>1, <3>2, Held
    <3>5. FaithfulIn(store', a.path, a.rev, answers[j + s].text)
      BY <2>2, <3>3, <3>4, FaithfulStays
    <3>. QED
      BY <3>1, <3>5
  <2>5. answers'[i] = a
    BY <2>1
  <2>. HIDE DEF a
  <2>. QED
    BY <2>3, <2>4, <2>5
<1>. QED
  BY <1>2 DEF KeptSaved

(* Old save requests: what can change is the buffer and the answers. *)
LEMMA KeptRequestOld ==
  ASSUME CoreInv, Reflects, Kept, Grown(store, store', edits), SaveRequestsOld,
         \A i \in DOMAIN requests : requests[i].kind = "save" =>
           /\ buffer' # Nothing /\ buffer'.path = requests[i].path => requests[i].base <= buffer'.base
           /\ \A j \in DOMAIN answers' :
                answers'[j].kind = "loaded" /\ answers'[j].path = requests[i].path =>
                  requests[i].base <= answers'[j].rev
  PROVE  KeptRequest'
<1>1. ASSUME NEW i \in DOMAIN requests', requests'[i].kind = "save"
      PROVE  /\ FaithfulIn(store', requests'[i].path, requests'[i].base, requests'[i].text)
             /\ requests'[i].base <= Len(store'[requests'[i].path])
             /\ buffer' # Nothing /\ buffer'.path = requests'[i].path =>
                  requests'[i].base <= buffer'.base
             /\ \A j \in DOMAIN answers' :
                  answers'[j].kind = "loaded" /\ answers'[j].path = requests'[i].path =>
                    requests'[i].base <= answers'[j].rev
  <2>1. PICK k \in DOMAIN requests : requests'[i] = requests[k]
    BY <1>1 DEF SaveRequestsOld
  <2>. DEFINE r == requests[k]
  <2>2. r.kind = "save" /\ r.path \in Docs /\ r.base \in Nat /\ r.text \in SUBSET (1..edits)
    BY <1>1, <2>1, Held
  <2>3. FaithfulIn(store, r.path, r.base, r.text) /\ r.base <= Len(store[r.path])
    BY <2>2 DEF Kept, KeptRequest
  <2>4. Len(store[r.path]) \in Nat /\ Len(store'[r.path]) \in Nat
        /\ Len(store[r.path]) <= Len(store'[r.path])
    BY <2>2 DEF Grown
  <2>5. r.base \in 0..Len(store[r.path]) /\ r.base <= Len(store'[r.path])
    BY <2>2, <2>3, <2>4
  <2>6. FaithfulIn(store', r.path, r.base, r.text)
    BY <2>2, <2>3, <2>5, FaithfulStays
  <2>7. /\ buffer' # Nothing /\ buffer'.path = r.path => r.base <= buffer'.base
        /\ \A j \in DOMAIN answers' :
             answers'[j].kind = "loaded" /\ answers'[j].path = r.path => r.base <= answers'[j].rev
    BY <2>2
  <2>8. requests'[i] = r
    BY <2>1
  <2>. HIDE DEF r
  <2>. QED
    BY <2>5, <2>6, <2>7, <2>8
<1>. QED
  BY <1>1 DEF KeptRequest

LEMMA KeptRequestOrdinary ==
  ASSUME CoreInv, Reflects, Kept, Grown(store, store', edits), BufferKept, Carried,
         SaveRequestsOld
  PROVE  KeptRequest'
<1>1. ASSUME NEW i \in DOMAIN requests, requests[i].kind = "save"
      PROVE  /\ buffer' # Nothing /\ buffer'.path = requests[i].path =>
                  requests[i].base <= buffer'.base
             /\ \A j \in DOMAIN answers' :
                  answers'[j].kind = "loaded" /\ answers'[j].path = requests[i].path =>
                    requests[i].base <= answers'[j].rev
  <2>1. buffer' # Nothing /\ buffer'.path = requests[i].path => requests[i].base <= buffer'.base
    BY <1>1 DEF BufferKept, Kept, KeptRequest
  <2>2. ASSUME NEW j \in DOMAIN answers', answers'[j].kind = "loaded",
               answers'[j].path = requests[i].path
        PROVE  requests[i].base <= answers'[j].rev
    <3>1. PICK k \in DOMAIN answers : answers'[j] = answers[k]
      BY <2>2, LoadedCarried
    <3>. QED
      BY <1>1, <2>2, <3>1 DEF Kept, KeptRequest
  <2>. QED
    BY <2>1, <2>2
<1>. QED
  BY <1>1, KeptRequestOld

LEMMA KeptSave ==
  ASSUME CoreInv, Reflects, Ordered, Kept, Save
  PROVE  KeptRequest'
<1>. DEFINE r == [kind |-> "save", path |-> buffer.path, text |-> buffer.text, base |-> buffer.base]
<1>1. /\ buffer # Nothing /\ saving = Nothing /\ Ask(r) /\ UNCHANGED <<store, answers, buffer>>
  BY DEF Save, server
<1>2. buffer \in Buffer
  BY <1>1 DEF CoreInv, STypeOK
<1>3. r \in Request /\ r.path = buffer.path /\ r.base = buffer.base /\ r.text = buffer.text
  BY <1>2, RequestsMade DEF Buffer
<1>. HIDE DEF r
<1>4. \A i \in DOMAIN requests' : \/ i \in DOMAIN requests /\ requests'[i] = requests[i]
                                  \/ requests'[i] = r
  BY <1>1, <1>3, Asked DEF CoreInv
<1>5. \A i \in DOMAIN requests : requests[i].kind # "save"
  BY <1>1 DEF CoreInv, SaveInFlight, NoneForSave, ForSave
<1>6. /\ FaithfulIn(store, r.path, r.base, r.text) /\ r.base <= Len(store[r.path])
      /\ r.base \in Nat /\ r.base <= r.base
  <2>1. buffer.base \in 0..Len(store[buffer.path]) /\ buffer.path \in Docs
    BY <1>1, Held
  <2>2. Len(store[buffer.path]) \in Nat
    BY <2>1, HeadInRange DEF CoreInv
  <2>. QED
    BY <1>1, <1>3, <2>1, <2>2 DEF Kept, KeptBuffer
<1>7. \A j \in DOMAIN answers :
        answers[j].kind = "loaded" /\ answers[j].path = r.path => r.base <= answers[j].rev
  BY <1>1, <1>3 DEF Ordered, Dated
<1>. QED
  BY <1>1, <1>3, <1>4, <1>5, <1>6, <1>7 DEF KeptRequest

LEMMA KeptOrdinary ==
  ASSUME CoreInv, Reflects, Ordered, Kept, KeptStore', Grown(store, store', edits), Ordinary,
         SaveRequestsOld \/ Save
  PROVE  Kept'
<1>1. KeptBuffer' /\ KeptServing' /\ KeptSaved'
  BY KeptBufferOrdinary, KeptServingOrdinary, KeptSavedOrdinary DEF Ordinary
<1>2. KeptRequest'
  BY KeptRequestOrdinary, KeptSave DEF Ordinary
<1>. QED
  BY <1>1, <1>2 DEF Kept

(* A base that is the head: what replaces the buffer from now on is as     *)
(* faithful to the head as the save is.                                    *)
LEMMA KeptServeSave ==
  ASSUME CoreInv, Reflects, Kept, KeptStore', Grown(store, store', edits), ServeSave
  PROVE  Kept'
<1>. DEFINE r == Head(requests)
            d == r.path
            n == Len(store[d])
<1>1. /\ r.kind = "save" /\ r = requests[1] /\ 1 \in DOMAIN requests
      /\ d \in Docs /\ r.text \in Text /\ r.base = n /\ Adds(d, r.text, "shell")
      /\ serving' = [path |-> d, rev |-> n + 1]
      /\ NoneForSave(answers) /\ NoneForSave(requests') /\ UNCHANGED <<answers, buffer>>
  BY SaveServed DEF Head_
<1>2. /\ FaithfulIn(store, d, n, r.text)
      /\ buffer # Nothing /\ buffer.path = d => n <= buffer.base
      /\ \A j \in DOMAIN answers :
           answers[j].kind = "loaded" /\ answers[j].path = d => n <= answers[j].rev
  BY <1>1 DEF Kept, KeptRequest
<1>. HIDE DEF d, r
<1>3. n \in Nat
  BY <1>1, HeadInRange DEF CoreInv
<1>4. OthersIn(store', d) = OthersIn(store, d)
  BY <1>1, GrownAdds
<1>5. TextIn(store', d, n + 1) = r.text
  <2>1. store'[d][Len(store[d]) + 1] = [text |-> r.text, by |-> "shell"]
    BY <1>1, AddsEffect DEF Head_, CoreInv
  <2>2. n + 1 # 0
    BY <1>3
  <2>. QED
    BY <2>1, <2>2 DEF TextIn, NullRev
<1>6. \A text : FaithfulIn(store, d, n, text) => FaithfulIn(store', d, n + 1, text)
  BY <1>2, <1>4, <1>5 DEF FaithfulIn
<1>7. ASSUME buffer # Nothing, buffer.path = d
      PROVE  FaithfulIn(store', d, n + 1, buffer.text)
  <2>1. buffer.base \in 0..n
    BY <1>7, Held
  <2>2. buffer.base = n
    BY <1>2, <1>3, <1>7, <2>1
  <2>3. FaithfulIn(store, d, n, buffer.text)
    BY <1>7, <2>2 DEF Kept, KeptBuffer
  <2>. QED
    BY <1>6, <2>3
<1>8. ASSUME NEW j \in DOMAIN answers, answers[j].kind = "loaded", answers[j].path = d
      PROVE  FaithfulIn(store', d, n + 1, answers[j].text)
  <2>1. answers[j].rev \in 0..n /\ answers[j].text = TextIn(store, d, answers[j].rev)
    BY <1>8, Held
  <2>2. answers[j].rev = n
    BY <1>2, <1>3, <1>8, <2>1
  <2>3. FaithfulIn(store, d, n, answers[j].text)
    BY <2>1, <2>2 DEF FaithfulIn
  <2>. QED
    BY <1>6, <2>3
<1>9. KeptServing'
  <2>1. serving'.path = d /\ serving'.rev = n + 1
    BY <1>1
  <2>. HIDE DEF n
  <2>. QED
    BY <1>1, <1>7, <1>8, <2>1 DEF KeptServing
<1>10. KeptBuffer'
  BY <1>1, KeptBufferOrdinary, BufferKeptSame
<1>11. KeptRequest' /\ KeptSaved'
  BY <1>1 DEF KeptRequest, KeptSaved, NoneForSave, ForSave
<1>. QED
  BY <1>9, <1>10, <1>11 DEF Kept

LEMMA KeptFinishSave ==
  ASSUME CoreInv, Reflects, Kept, KeptStore', FinishSave
  PROVE  Kept'
<1>. DEFINE a == [kind |-> "saved", path |-> serving.path, rev |-> serving.rev]
<1>1. /\ a \in Answer /\ Reply(a) /\ serving # Nothing /\ serving' = Nothing
      /\ NoneForSave(answers) /\ NoneForSave(requests) /\ UNCHANGED <<store, buffer, requests>>
  BY SaveFinished
<1>2. a.kind = "saved" /\ a.path = serving.path /\ a.rev = serving.rev
  OBVIOUS
<1>. HIDE DEF a
<1>3. /\ \A i \in DOMAIN answers' :
           \/ i \in DOMAIN answers /\ answers'[i] = answers[i]
           \/ i = Len(answers) + 1 /\ answers'[i] = a
      /\ \A i \in DOMAIN answers : answers[i].kind # "saved"
  BY <1>1, Replied DEF CoreInv, NoneForSave, ForSave
<1>4. /\ buffer # Nothing /\ buffer.path = a.path => FaithfulIn(store, a.path, a.rev, buffer.text)
      /\ \A j \in DOMAIN answers :
           answers[j].kind = "loaded" /\ answers[j].path = a.path =>
             FaithfulIn(store, a.path, a.rev, answers[j].text)
  BY <1>1, <1>2 DEF Kept, KeptServing
<1>5. ASSUME NEW i \in DOMAIN answers', answers'[i].kind = "saved"
      PROVE  /\ buffer # Nothing /\ buffer.path = answers'[i].path =>
                  FaithfulIn(store, answers'[i].path, answers'[i].rev, buffer.text)
             /\ \A j \in DOMAIN answers' :
                  j < i /\ answers'[j].kind = "loaded" /\ answers'[j].path = answers'[i].path =>
                    FaithfulIn(store, answers'[i].path, answers'[i].rev, answers'[j].text)
  <2>1. answers'[i] = a
    BY <1>3, <1>5
  <2>2. ASSUME NEW j \in DOMAIN answers', answers'[j].kind = "loaded", answers'[j].path = a.path
        PROVE  FaithfulIn(store, a.path, a.rev, answers'[j].text)
    <3>1. j \in DOMAIN answers /\ answers'[j] = answers[j]
      BY <1>2, <1>3, <2>2
    <3>. QED
      BY <1>4, <2>2, <3>1
  <2>. QED
    BY <1>4, <2>1, <2>2
<1>6. KeptSaved'
  BY <1>1, <1>5 DEF KeptSaved
<1>7. KeptBuffer'
  BY <1>1 DEF Kept, KeptBuffer
<1>8. KeptRequest' /\ KeptServing'
  BY <1>1 DEF KeptRequest, KeptServing, NoneForSave, ForSave
<1>. QED
  BY <1>6, <1>7, <1>8 DEF Kept

LEMMA KeptServeRead ==
  ASSUME CoreInv, Reflects, Kept, KeptStore', Grown(store, store', edits), SaveRequestsOld,
         ServeRead
  PROVE  Kept'
<1>. DEFINE r == Head(requests)
            a == ReadAnswer(r)
<1>1. /\ a \in Answer /\ Reply(a) /\ r.path \in Docs /\ a.kind \in {"loaded", "missing"}
      /\ a.kind = "loaded" => a.path = r.path /\ a.rev = Len(store[r.path])
      /\ serving = Nothing /\ UNCHANGED <<store, serving, buffer>>
  BY ReadServed
<1>. HIDE DEF a, r
<1>2. /\ \A i \in DOMAIN answers' :
           \/ i \in DOMAIN answers /\ answers'[i] = answers[i]
           \/ i = Len(answers) + 1 /\ answers'[i] = a
      /\ Len(answers) \in Nat
      /\ \A i \in DOMAIN answers : i \in Nat /\ i <= Len(answers)
  BY <1>1, Replied DEF CoreInv
<1>3. ASSUME NEW i \in DOMAIN requests, requests[i].kind = "save"
      PROVE  /\ buffer' # Nothing /\ buffer'.path = requests[i].path =>
                  requests[i].base <= buffer'.base
             /\ \A j \in DOMAIN answers' :
                  answers'[j].kind = "loaded" /\ answers'[j].path = requests[i].path =>
                    requests[i].base <= answers'[j].rev
  <2>1. ASSUME NEW j \in DOMAIN answers', answers'[j].kind = "loaded",
               answers'[j].path = requests[i].path
        PROVE  requests[i].base <= answers'[j].rev
    <3>1. CASE j \in DOMAIN answers /\ answers'[j] = answers[j]
      BY <1>3, <2>1, <3>1 DEF Kept, KeptRequest
    <3>2. CASE answers'[j] = a
      BY <1>1, <1>3, <2>1, <3>2 DEF Kept, KeptRequest
    <3>. QED
      BY <1>2, <3>1, <3>2
  <2>. QED
    BY <1>1, <1>3, <2>1 DEF Kept, KeptRequest
<1>4. KeptRequest'
  BY <1>3, KeptRequestOld
<1>5. ASSUME NEW i \in DOMAIN answers', answers'[i].kind = "saved"
      PROVE  /\ buffer # Nothing /\ buffer.path = answers'[i].path =>
                  FaithfulIn(store, answers'[i].path, answers'[i].rev, buffer.text)
             /\ \A j \in DOMAIN answers' :
                  j < i /\ answers'[j].kind = "loaded" /\ answers'[j].path = answers'[i].path =>
                    FaithfulIn(store, answers'[i].path, answers'[i].rev, answers'[j].text)
  <2>1. i \in DOMAIN answers /\ answers'[i] = answers[i]
    BY <1>1, <1>2, <1>5
  <2>2. \A j \in DOMAIN answers' : j < i => j \in DOMAIN answers /\ answers'[j] = answers[j]
    BY <1>2, <2>1
  <2>. QED
    BY <1>5, <2>1, <2>2 DEF Kept, KeptSaved
<1>6. KeptSaved'
  BY <1>1, <1>5 DEF KeptSaved
<1>7. KeptBuffer' /\ KeptServing'
  BY <1>1 DEF Kept, KeptBuffer, KeptServing
<1>. QED
  BY <1>4, <1>6, <1>7 DEF Kept

(* A new document has another path than the save, if names differ. *)
LEMMA KeptNewDoc ==
  ASSUME CoreInv, Reflects, Kept, KeptStore', "samename" \notin Faults, NEW d \in Docs, NewDoc(d)
  PROVE  Kept'
<1>1. /\ saving # Nothing => saving.path # d
      /\ buffer'.path = d /\ buffer'.base = NullRev /\ buffer'.text = {}
      /\ UNCHANGED <<store, requests, answers, serving>>
  BY DEF NewDoc, server
<1>2. /\ \A i \in DOMAIN requests : requests[i].kind = "save" => requests[i].path # d
      /\ serving # Nothing => serving.path # d
  BY <1>1, Held DEF CoreInv, SaveInFlight
<1>3. \A i \in DOMAIN answers : answers[i].kind = "saved" => answers[i].path # d
  <2>1. ASSUME NEW i \in DOMAIN answers, answers[i].kind = "saved"
        PROVE  answers[i].path # d
    <3>1. OfThisSave(answers[i], saving)
      BY <2>1 DEF CoreInv, SaveInFlight, ForSave
    <3>. QED
      BY <1>1, <2>1, <3>1 DEF OfThisSave
  <2>. QED
    BY <2>1
<1>4. KeptBuffer'
  BY <1>1 DEF KeptBuffer, FaithfulIn, TextIn, NullRev
<1>5. KeptRequest'
  BY <1>1, <1>2 DEF Kept, KeptRequest
<1>6. KeptServing'
  BY <1>1, <1>2 DEF Kept, KeptServing
<1>7. KeptSaved'
  BY <1>1, <1>3 DEF Kept, KeptSaved
<1>. QED
  BY <1>4, <1>5, <1>6, <1>7 DEF Kept

LEMMA KeptReceiveSaved ==
  ASSUME CoreInv, Reflects, Kept, KeptStore', ReceiveSaved
  PROVE  Kept'
<1>. DEFINE a == Head(answers)
<1>1. /\ a.kind = "saved" /\ a = answers[1] /\ 1 \in DOMAIN answers
      /\ NoneForSave(answers') /\ NoneForSave(requests) /\ serving = Nothing /\ buffer # Nothing
      /\ Ask([kind |-> "list"]) /\ UNCHANGED <<store, serving>>
      /\ buffer.path = a.path =>
           buffer'.path = buffer.path /\ buffer'.base = a.rev /\ buffer'.text = buffer.text
      /\ buffer.path # a.path => buffer' = buffer
  BY SavedReceived
<1>. HIDE DEF a
<1>2. KeptBuffer'
  <2>1. CASE buffer.path = a.path
    <3>1. FaithfulIn(store, a.path, a.rev, buffer.text)
      BY <1>1, <2>1 DEF Kept, KeptSaved
    <3>. QED
      BY <1>1, <2>1, <3>1 DEF KeptBuffer
  <2>2. CASE buffer.path # a.path
    BY <1>1, <2>2 DEF Kept, KeptBuffer
  <2>. QED
    BY <2>1, <2>2
<1>3. KeptRequest'
  <2>1. \A i \in DOMAIN requests' : \/ i \in DOMAIN requests /\ requests'[i] = requests[i]
                                    \/ requests'[i] = [kind |-> "list"]
    BY <1>1, Asked, RequestsMade DEF CoreInv
  <2>2. \A i \in DOMAIN requests' : requests'[i].kind # "save"
    BY <1>1, <2>1 DEF NoneForSave, ForSave
  <2>. QED
    BY <2>2 DEF KeptRequest
<1>4. KeptServing' /\ KeptSaved'
  BY <1>1 DEF KeptServing, KeptSaved, NoneForSave, ForSave
<1>. QED
  BY <1>2, <1>3, <1>4 DEF Kept

LEMMA KeptReceiveLoaded ==
  ASSUME CoreInv, Reflects, Kept, KeptStore', ReceiveLoaded
  PROVE  Kept'
<1>. DEFINE a == Head(answers)
<1>1. /\ Receive("loaded") /\ a.kind = "loaded" /\ UNCHANGED <<store, serving, requests>>
      /\ buffer'.path = a.path /\ buffer'.base = a.rev /\ buffer'.text = a.text
  BY LoadedTypes
<1>2. /\ a = answers[1] /\ 1 \in DOMAIN answers
      /\ \A i \in DOMAIN answers' : /\ i \in Nat \ {0} /\ i + 1 \in DOMAIN answers
                                    /\ answers'[i] = answers[i + 1]
  BY <1>1, Received DEF CoreInv
<1>3. a.text = TextIn(store, a.path, a.rev)
  BY <1>1, <1>2, Held
<1>. HIDE DEF a
<1>4. KeptBuffer'
  BY <1>1, <1>3 DEF KeptBuffer, FaithfulIn
<1>5. KeptRequest'
  BY <1>1, <1>2 DEF Kept, KeptRequest
<1>6. KeptServing'
  BY <1>1, <1>2 DEF Kept, KeptServing
<1>7. ASSUME NEW i \in DOMAIN answers', answers'[i].kind = "saved"
      PROVE  /\ a.path = answers'[i].path =>
                  FaithfulIn(store, answers'[i].path, answers'[i].rev, a.text)
             /\ \A j \in DOMAIN answers' :
                  j < i /\ answers'[j].kind = "loaded" /\ answers'[j].path = answers'[i].path =>
                    FaithfulIn(store, answers'[i].path, answers'[i].rev, answers'[j].text)
  <2>1. i + 1 \in DOMAIN answers /\ answers'[i] = answers[i + 1] /\ 1 < i + 1
    BY <1>2
  <2>2. \A j \in DOMAIN answers' : j < i => /\ j + 1 < i + 1 /\ j + 1 \in DOMAIN answers
                                            /\ answers'[j] = answers[j + 1]
    BY <1>2
  <2>. QED
    BY <1>1, <1>2, <1>7, <2>1, <2>2 DEF Kept, KeptSaved
<1>8. KeptSaved'
  BY <1>1, <1>7 DEF KeptSaved
<1>. QED
  BY <1>4, <1>5, <1>6, <1>8 DEF Kept

LEMMA KeptNext ==
  ASSUME CoreInv, Reflects, Ordered, Kept, "samename" \notin Faults, [Next]_vars
  PROVE  Kept'
<1>1. KeptStore' /\ Grown(store, store', edits)
  BY KeptStoreNext, GrownNext
<1>2. SaveRequestsOld \/ Save
  BY RequestsNext
<1>3. CASE ServeRead
  <2>1. SaveRequestsOld
    BY <1>3, Taken DEF ServeRead, SaveRequestsOld, CoreInv
  <2>. QED
    BY <1>1, <1>3, <2>1, KeptServeRead
<1>. QED
  BY <1>1, <1>2, <1>3, OrdinaryNext, KeptOrdinary, KeptServeSave, KeptFinishSave, KeptNewDoc,
     KeptReceiveSaved, KeptReceiveLoaded

LEMMA KeptMeans == Kept => OthersKept
<1>. QED
  BY TextsIn DEF Kept, KeptStore, OthersKept

(* No save of the shell takes out an edit of somebody else that the user   *)
(* never saw, if no new document gets the path of the one being saved.     *)
THEOREM OthersKeptHolds ==
  ASSUME "samename" \notin Faults
  PROVE  Spec => []OthersKept
<1>. DEFINE Inv == CoreInv /\ Reflects /\ Ordered /\ Kept
<1>1. Init => Inv
  BY CoreInit, ReflectsInit, OrderedInit, KeptInit
<1>2. Inv /\ [Next]_vars => Inv'
  <2>1. SUFFICES ASSUME Inv, [Next]_vars PROVE Inv'
    OBVIOUS
  <2>2. CoreInv' /\ Reflects' /\ Ordered' /\ Kept'
    BY <2>1, CoreNext, ReflectsNext, OrderedNext, KeptNext
  <2>. QED
    BY <2>2
<1>3. Inv => OthersKept
  BY KeptMeans
<1>. QED
  BY <1>1, <1>2, <1>3, PTL DEF Spec

-------------------------------------------------------------------------------
(* The shell is told of every revision that it does not hold, but for the  *)
(* silent ones.                                                            *)

(* The last revision of a document that is not silent. *)
ToldIn(s, p) == {i \in DOMAIN s[p] : s[p][i].by # "silent"}
LastTold(s, p) == IF ToldIn(s, p) = {} THEN 0 ELSE Max(ToldIn(s, p))

LEMMA LastToldFacts ==
  ASSUME NEW s \in [Docs -> Seq(Revision)], NEW p \in Docs
  PROVE  /\ LastTold(s, p) \in Nat /\ LastTold(s, p) <= Len(s[p])
         /\ \A i \in DOMAIN s[p] : s[p][i].by # "silent" => i <= LastTold(s, p)
<1>1. DOMAIN s[p] = 1..Len(s[p]) /\ Len(s[p]) \in Nat
  BY Elements
<1>2. ToldIn(s, p) \in SUBSET (1..Len(s[p]))
  BY <1>1 DEF ToldIn
<1>3. CASE ToldIn(s, p) = {}
  BY <1>1, <1>3 DEF LastTold, ToldIn
<1>4. CASE ToldIn(s, p) # {}
  <2>. DEFINE T == ToldIn(s, p)
  <2>1. T \in SUBSET (1..Len(s[p])) /\ T # {}
    BY <1>2, <1>4
  <2>2. \A i \in DOMAIN s[p] : s[p][i].by # "silent" => i \in T
    BY DEF ToldIn
  <2>. HIDE DEF T
  <2>3. Max(T) \in T /\ \A i \in T : Max(T) >= i
    BY <1>1, <2>1, GreatestPosition
  <2>4. Max(T) \in 1..Len(s[p])
    <3>1. \A m \in T : m \in 1..Len(s[p])
      BY <2>1
    <3>. QED
      BY <2>3, <3>1
  <2>5. LastTold(s, p) = Max(T)
    BY <1>4 DEF LastTold, T
  <2>. QED
    BY <1>1, <2>2, <2>3, <2>4, <2>5
<1>. QED
  BY <1>3, <1>4

LEMMA LastToldNow ==
  ASSUME CoreInv, NEW p \in Docs
  PROVE  /\ LastTold(store, p) \in Nat /\ LastTold(store, p) <= Len(store[p])
         /\ Len(store[p]) \in Nat
         /\ \A i \in DOMAIN store[p] : store[p][i].by # "silent" => i <= LastTold(store, p)
<1>1. store \in [Docs -> Seq(Revision)]
  BY DEF CoreInv, STypeOK, Revision
<1>2. Len(store[p]) \in Nat
  BY StoreTypes DEF CoreInv, Head_
<1>. QED
  BY <1>1, <1>2, LastToldFacts

(* A silent commit is not told, any other one is the last one told. *)
LEMMA LastToldAdds ==
  ASSUME CoreInv, NEW d \in Docs, NEW text \in Text, NEW by \in {"shell", "others", "silent"},
         Adds(d, text, by)
  PROVE  /\ \A x \in Docs : x # d => LastTold(store', x) = LastTold(store, x)
         /\ LastTold(store', d) = IF by = "silent" THEN LastTold(store, d) ELSE Head_(d) + 1
<1>1. /\ store' \in [Docs -> Seq(Revision)]
      /\ \A x \in Docs : x # d => store'[x] = store[x]
      /\ Len(store'[d]) = Head_(d) + 1 /\ DOMAIN store'[d] = 1..(Head_(d) + 1)
      /\ \A i \in DOMAIN store[d] : store'[d][i] = store[d][i]
      /\ store'[d][Head_(d) + 1] = [text |-> text, by |-> by]
  BY AddsEffect DEF CoreInv
<1>2. DOMAIN store[d] = 1..Head_(d) /\ Head_(d) \in Nat
  BY StoreTypes DEF CoreInv
<1>3. \A x \in Docs : x # d => LastTold(store', x) = LastTold(store, x)
  BY <1>1 DEF LastTold, ToldIn
<1>4. store'[d][Head_(d) + 1].by = by
  BY <1>1
<1>5. CASE by = "silent"
  <2>1. \A i : i \in DOMAIN store'[d] <=> i \in DOMAIN store[d] \/ i = Head_(d) + 1
    BY <1>1, <1>2
  <2>2. ToldIn(store', d) = ToldIn(store, d)
    BY <1>1, <1>4, <1>5, <2>1 DEF ToldIn
  <2>. QED
    BY <1>3, <1>5, <2>2 DEF LastTold
<1>6. CASE by # "silent"
  <2>1. Head_(d) + 1 \in DOMAIN store'[d] /\ store'[d][Head_(d) + 1].by # "silent"
    BY <1>1, <1>2, <1>4, <1>6
  <2>2. /\ LastTold(store', d) \in Nat /\ LastTold(store', d) <= Head_(d) + 1
        /\ Head_(d) + 1 <= LastTold(store', d)
    BY <1>1, <2>1, LastToldFacts
  <2>. QED
    BY <1>2, <1>3, <1>6, <2>2
<1>. QED
  BY <1>5, <1>6

(* Its commit, and answers that say there is one. *)
LastCommit(s, p) == [path |-> p, rev |-> LastTold(s, p)]

Tells(s, sv, a, p) ==
  \/ a.kind = "event" /\ a.path = p /\ a.rev = LastTold(s, p)
  \/ a.kind = "loaded" /\ a.path = p
  \/ a.kind = "stale" /\ sv # Nothing /\ sv.path = p

(* The shell is not told yet: the event or a read is before the daemon. *)
Waiting(p) ==
  \/ LastCommit(store, p) \in unsent
  \/ \E k \in DOMAIN events : events[k] = LastCommit(store, p)
  \/ serving = LastCommit(store, p)
  \/ \E k \in DOMAIN requests : requests[k].kind = "read" /\ requests[k].path = p

(* The shell will be told after the first i answers. *)
Coming(p, i) ==
  Waiting(p) \/ \E j \in DOMAIN answers : j > i /\ Tells(store, saving, answers[j], p)

InformedBuffer ==
  buffer # Nothing /\ buffer.base # NullRev /\ buffer.base < LastTold(store, buffer.path) =>
    \/ buffer.conflict # NullRev
    \/ \E k \in DOMAIN deferred : deferred[k] = LastCommit(store, buffer.path)
    \/ Coming(buffer.path, 0)

InformedAnswers ==
  \A i \in DOMAIN answers :
    Dated(answers[i]) /\ answers[i].rev < LastTold(store, answers[i].path) =>
      Coming(answers[i].path, i)

InformedServing ==
  serving # Nothing /\ serving.rev < LastTold(store, serving.path) =>
    Coming(serving.path, Len(answers))

Informed == ~ missed => InformedBuffer /\ InformedAnswers /\ InformedServing

LEMMA InformedInit == Init => Informed
<1>. QED
  BY DEF Init, Informed, InformedBuffer, InformedAnswers, InformedServing

LEMMA Connected ==
  ASSUME CoreInv, ~ missed
  PROVE  link = "up"
<1>. QED
  BY DEF CoreInv, SaveInFlight

(* An answer that says so was added. *)
ToldNow(p) ==
  \E j \in DOMAIN answers' : j > Len(answers) /\ Tells(store', saving', answers'[j], p)

(* A step that takes no answer leaves what is coming, and if it makes a    *)
(* revision, the shell will be told.                                       *)
WaitingStays ==
  \A p \in Docs :
    LastTold(store', p) # 0 /\ (LastTold(store', p) # LastTold(store, p) \/ Waiting(p)) =>
      Waiting(p)' \/ ToldNow(p)

ComingStays ==
  \A p \in Docs : \A i \in 0..Len(answers) :
    LastTold(store', p) # 0 /\ (LastTold(store', p) # LastTold(store, p) \/ Coming(p, i)) =>
      Coming(p, i)'

LEMMA ComingKept ==
  ASSUME CoreInv, CoreInv', WaitingStays,
         \A i \in DOMAIN answers : i \in DOMAIN answers' /\ answers'[i] = answers[i],
         \A i \in DOMAIN answers : answers[i].kind = "stale" => saving' = saving
  PROVE  ComingStays
<1>1. Len(answers) \in Nat /\ \A j \in DOMAIN answers' : j \in Nat
  <2>1. answers \in Seq(Answer) /\ answers' \in Seq(Answer)
    BY DEF CoreInv, STypeOK
  <2>. QED
    BY <2>1, Elements
<1>2. ASSUME NEW p \in Docs, NEW i \in 0..Len(answers), LastTold(store', p) # 0,
             LastTold(store', p) # LastTold(store, p) \/ Coming(p, i)
      PROVE  Coming(p, i)'
  <2>1. CASE Waiting(p)'
    BY <2>1 DEF Coming
  <2>2. CASE ToldNow(p)
    <3>1. PICK j \in DOMAIN answers' : j > Len(answers) /\ Tells(store', saving', answers'[j], p)
      BY <2>2 DEF ToldNow
    <3>2. j > i
      BY <1>1, <3>1
    <3>. QED
      BY <3>1, <3>2 DEF Coming
  <2>3. CASE ~ (LastTold(store', p) # LastTold(store, p) \/ Waiting(p))
    <3>1. PICK j \in DOMAIN answers : j > i /\ Tells(store, saving, answers[j], p)
      BY <1>2, <2>3 DEF Coming
    <3>2. Tells(store', saving', answers[j], p)
      BY <2>3, <3>1 DEF Tells
    <3>3. j \in DOMAIN answers' /\ answers'[j] = answers[j]
      OBVIOUS
    <3>. QED
      BY <3>1, <3>2, <3>3 DEF Coming
  <2>. QED
    BY <1>2, <2>1, <2>2, <2>3 DEF WaitingStays
<1>. QED
  BY <1>2 DEF ComingStays

(* What is held of documents. *)
LEMMA HeldHeads ==
  ASSUME CoreInv, Reflects
  PROVE  /\ buffer # Nothing => buffer.path \in Docs /\ buffer.base \in Nat
         /\ \A i \in DOMAIN answers : Dated(answers[i]) =>
              answers[i].path \in Docs /\ answers[i].rev \in Nat /\ i \in 0..Len(answers)
         /\ serving # Nothing => serving.path \in Docs /\ serving.rev \in Nat
         /\ 0 \in 0..Len(answers) /\ Len(answers) \in 0..Len(answers)
<1>. USE DEF CoreInv
<1>1. (\A d \in Docs : Len(store[d]) \in Nat) /\ Len(answers) \in Nat
  BY Elements DEF STypeOK
<1>2. ASSUME buffer # Nothing
      PROVE  buffer.path \in Docs /\ buffer.base \in Nat
  <2>1. buffer.path \in Docs /\ buffer.base \in 0..Len(store[buffer.path])
    BY <1>2, Held
  <2>. QED
    BY <1>1, <2>1
<1>3. ASSUME NEW i \in DOMAIN answers, Dated(answers[i])
      PROVE  answers[i].path \in Docs /\ answers[i].rev \in Nat /\ i \in 0..Len(answers)
  <2>1. answers[i].path \in Docs /\ answers[i].rev \in 0..Len(store[answers[i].path])
    BY <1>3, Held DEF Dated
  <2>2. i \in Nat /\ i <= Len(answers)
    BY AnswerTypes
  <2>. QED
    BY <1>1, <2>1, <2>2
<1>4. ASSUME serving # Nothing
      PROVE  serving.path \in Docs /\ serving.rev \in Nat
  <2>1. serving.path \in Docs /\ serving.rev \in 0..Len(store[serving.path])
    BY <1>4, Held
  <2>. QED
    BY <1>1, <2>1
<1>. QED
  BY <1>1, <1>2, <1>3, <1>4

(* The buffer, while no answer is taken. *)
LEMMA InformedBufferKept ==
  ASSUME CoreInv, Reflects, InformedBuffer, Grown(store, store', edits), ComingStays,
         deferred' = deferred,
         buffer' # Nothing =>
           \/ buffer'.base = NullRev
           \/ /\ buffer # Nothing /\ buffer'.path = buffer.path /\ buffer'.base = buffer.base
              /\ buffer'.conflict = buffer.conflict
  PROVE  InformedBuffer'
<1>1. SUFFICES ASSUME buffer' # Nothing, buffer'.base # NullRev,
                      buffer'.base < LastTold(store', buffer'.path)
               PROVE  \/ buffer'.conflict # NullRev
                      \/ \E k \in DOMAIN deferred' : deferred'[k] = LastCommit(store', buffer'.path)
                      \/ Coming(buffer.path, 0)'
  BY DEF InformedBuffer
<1>2. /\ buffer # Nothing /\ buffer'.path = buffer.path /\ buffer'.base = buffer.base
      /\ buffer'.conflict = buffer.conflict
  BY <1>1
<1>. DEFINE p == buffer.path
<1>3. p \in Docs /\ 0 \in 0..Len(answers) /\ LastTold(store', p) # 0
  <2>1. p \in Docs /\ buffer.base \in Nat /\ 0 \in 0..Len(answers)
    BY <1>2, HeldHeads
  <2>2. buffer.base < LastTold(store', p)
    BY <1>1, <1>2
  <2>. QED
    BY <2>1, <2>2
<1>4. CASE LastTold(store', p) # LastTold(store, p)
  <2>1. \A x : x = p => Coming(x, 0)'
    BY <1>3, <1>4 DEF ComingStays
  <2>. QED
    BY <1>2, <2>1
<1>5. CASE LastTold(store', p) = LastTold(store, p)
  <2>1. \/ buffer.conflict # NullRev
        \/ \E k \in DOMAIN deferred : deferred[k] = LastCommit(store, p)
        \/ Coming(p, 0)
    BY <1>1, <1>2, <1>5 DEF InformedBuffer
  <2>2. Coming(p, 0) => \A x : x = p => Coming(x, 0)'
    BY <1>3, <1>5 DEF ComingStays
  <2>3. LastCommit(store', p) = LastCommit(store, p)
    BY <1>5 DEF LastCommit
  <2>. QED
    BY <1>2, <2>1, <2>2, <2>3
<1>. QED
  BY <1>4, <1>5

(* Answers that are in the queue, while none is taken. *)
LEMMA ComingForAnswer ==
  ASSUME CoreInv, Reflects, InformedAnswers, Grown(store, store', edits), ComingStays,
         NEW i \in DOMAIN answers, Dated(answers[i]),
         answers[i].rev < LastTold(store', answers[i].path)
  PROVE  \A x : x = answers[i].path => Coming(x, i)'
<1>1. answers[i].path \in Docs /\ i \in 0..Len(answers) /\ LastTold(store', answers[i].path) # 0
  <2>1. answers[i].path \in Docs /\ i \in 0..Len(answers) /\ answers[i].rev \in Nat
    BY HeldHeads
  <2>. QED
    BY <2>1
<1>2. CASE LastTold(store', answers[i].path) # LastTold(store, answers[i].path)
  BY <1>1, <1>2 DEF ComingStays
<1>3. CASE LastTold(store', answers[i].path) = LastTold(store, answers[i].path)
  <2>1. Coming(answers[i].path, i)
    BY <1>3 DEF InformedAnswers
  <2>. QED
    BY <1>1, <2>1 DEF ComingStays
<1>. QED
  BY <1>2, <1>3

LEMMA InformedAnswersKept ==
  ASSUME CoreInv, Reflects, InformedAnswers, Grown(store, store', edits), ComingStays,
         \A i \in DOMAIN answers' :
           \/ i \in DOMAIN answers /\ answers'[i] = answers[i]
           \/ ~ Dated(answers'[i])
           \/ ~ (answers'[i].rev < LastTold(store', answers'[i].path))
           \/ \A x : x = answers'[i].path => Coming(x, i)'
  PROVE  InformedAnswers'
<1>1. ASSUME NEW i \in DOMAIN answers', Dated(answers'[i]),
             answers'[i].rev < LastTold(store', answers'[i].path)
      PROVE  \A x : x = answers'[i].path => Coming(x, i)'
  <2>1. CASE i \in DOMAIN answers /\ answers'[i] = answers[i]
    BY <1>1, <2>1, ComingForAnswer
  <2>. QED
    BY <1>1, <2>1
<1>. QED
  BY <1>1 DEF InformedAnswers, Dated

LEMMA InformedServingKept ==
  ASSUME CoreInv, Reflects, InformedServing, Grown(store, store', edits), ComingStays,
         \/ serving' = Nothing
         \/ serving' = serving /\ answers' = answers
         \/ ~ (serving'.rev < LastTold(store', serving'.path))
  PROVE  InformedServing'
<1>1. CASE serving' = serving /\ answers' = answers
  <2>1. SUFFICES ASSUME serving # Nothing, serving.rev < LastTold(store', serving.path)
                 PROVE  \A x, n : x = serving.path /\ n = Len(answers) => Coming(x, n)'
    BY <1>1 DEF InformedServing
  <2>2. serving.path \in Docs /\ LastTold(store', serving.path) # 0
        /\ Len(answers) \in 0..Len(answers)
    <3>1. serving.path \in Docs /\ serving.rev \in Nat /\ Len(answers) \in 0..Len(answers)
      BY <2>1, HeldHeads
    <3>. QED
      BY <2>1, <3>1
  <2>3. CASE LastTold(store', serving.path) # LastTold(store, serving.path)
    BY <2>2, <2>3 DEF ComingStays
  <2>4. CASE LastTold(store', serving.path) = LastTold(store, serving.path)
    <3>1. Coming(serving.path, Len(answers))
      BY <2>1, <2>4 DEF InformedServing
    <3>. QED
      BY <2>2, <3>1 DEF ComingStays
  <2>. QED
    BY <2>3, <2>4
<1>2. CASE serving' = Nothing
  BY <1>2 DEF InformedServing
<1>3. CASE ~ (serving'.rev < LastTold(store', serving'.path))
  BY <1>3 DEF InformedServing
<1>. QED
  BY <1>1, <1>2, <1>3

LEMMA InformedAppended ==
  ASSUME CoreInv, CoreInv', Reflects, Informed, Grown(store, store', edits), ~ missed,
         WaitingStays, deferred' = deferred,
         \A i \in DOMAIN answers : i \in DOMAIN answers' /\ answers'[i] = answers[i],
         \A i \in DOMAIN answers : answers[i].kind = "stale" => saving' = saving,
         buffer' # Nothing =>
           \/ buffer'.base = NullRev
           \/ /\ buffer # Nothing /\ buffer'.path = buffer.path /\ buffer'.base = buffer.base
              /\ buffer'.conflict = buffer.conflict,
         \A i \in DOMAIN answers' :
           \/ i \in DOMAIN answers /\ answers'[i] = answers[i]
           \/ ~ Dated(answers'[i])
           \/ ~ (answers'[i].rev < LastTold(store', answers'[i].path))
           \/ \A x : x = answers'[i].path => Coming(x, i)',
         \/ serving' = Nothing
         \/ serving' = serving /\ answers' = answers
         \/ ~ (serving'.rev < LastTold(store', serving'.path))
  PROVE  Informed'
<1>1. ComingStays
  BY ComingKept
<1>2. InformedBuffer /\ InformedAnswers /\ InformedServing
  BY DEF Informed
<1>3. InformedBuffer'
  BY <1>1, <1>2, InformedBufferKept
<1>4. InformedAnswers'
  BY <1>1, <1>2, InformedAnswersKept
<1>5. InformedServing'
  BY <1>1, <1>2, InformedServingKept
<1>. QED
  BY <1>3, <1>4, <1>5 DEF Informed

LEMMA LastCommitTyped ==
  ASSUME CoreInv, NEW p \in Docs
  PROVE  LastCommit(store, p) \in Commit /\ LastCommit(store, p) # Nothing
<1>1. LastTold(store, p) \in Nat /\ LastTold(store, p) <= edits + saves
  <2>1. Len(store[p]) <= edits + saves
    BY HeadInRange DEF CoreInv, Counted, Head_
  <2>2. LastTold(store, p) \in Nat /\ LastTold(store, p) <= Len(store[p]) /\ Len(store[p]) \in Nat
    BY LastToldNow
  <2>3. edits \in Nat /\ saves \in Nat
    BY DEF CoreInv, STypeOK
  <2>. QED
    BY <2>1, <2>2, <2>3
<1>2. LastTold(store, p) \in Rev
  BY <1>1, Bounded DEF Rev, CoreInv, STypeOK
<1>3. LastCommit(store, p) \in Commit
  BY <1>2 DEF LastCommit, Commit
<1>. QED
  BY <1>3, NotNothing

ReadsStay ==
  \A k \in DOMAIN requests : requests[k].kind = "read" =>
    \E m \in DOMAIN requests' : requests'[m] = requests[k]

LEMMA WaitingSame ==
  ASSUME UNCHANGED <<store, unsent, events, serving>>, ReadsStay
  PROVE  WaitingStays
<1>. QED
  BY DEF WaitingStays, Waiting, ReadsStay

LEMMA RequestTaken ==
  ASSUME CoreInv, NEW kind, Take(kind)
  PROVE  /\ \A k \in DOMAIN requests :
              requests[k] = Head(requests) \/ \E m \in DOMAIN requests' : requests'[m] = requests[k]
         /\ Head(requests).kind # "read" => ReadsStay
<1>1. requests \in Seq(Request) /\ requests # <<>> /\ requests' = Tail(requests)
  BY Taken DEF CoreInv, STypeOK
<1>2. \A k \in DOMAIN requests :
        requests[k] = Head(requests) \/ \E m \in DOMAIN requests' : requests'[m] = requests[k]
  <2>1. Head(requests) = requests[1]
    BY <1>1, HeadAndTail
  <2>2. \A k \in DOMAIN requests :
          k = 1 \/ (k - 1 \in DOMAIN Tail(requests) /\ Tail(requests)[k - 1] = requests[k])
    BY <1>1, HeadAndTail
  <2>. QED
    BY <1>1, <2>1, <2>2
<1>. QED
  BY <1>2 DEF ReadsStay

(* Nothing but the user's own doing, and requests. *)
LEMMA InformedByUser ==
  ASSUME CoreInv, CoreInv', Reflects, Informed, Grown(store, store', edits), ~ missed,
         UNCHANGED <<store, unsent, events, serving, answers, deferred>>, ReadsStay,
         \A i \in DOMAIN answers : answers[i].kind = "stale" => saving' = saving,
         buffer' # Nothing =>
           \/ buffer'.base = NullRev
           \/ /\ buffer # Nothing /\ buffer'.path = buffer.path /\ buffer'.base = buffer.base
              /\ buffer'.conflict = buffer.conflict
  PROVE  Informed'
<1>. QED
  BY WaitingSame, InformedAppended

LEMMA InformedUser ==
  ASSUME CoreInv, CoreInv', Reflects, Informed, Grown(store, store', edits), ~ missed,
         Type \/ Save \/ (\E d \in Docs : OpenDoc(d) \/ NewDoc(d)) \/ UNCHANGED vars
  PROVE  Informed'
<1>1. requests' = requests => ReadsStay
  BY DEF ReadsStay
<1>2. ASSUME NEW r \in Request, Ask(r)
      PROVE  ReadsStay
  BY <1>2, Asked DEF ReadsStay, CoreInv
<1>3. CASE Type
  <2>1. /\ buffer # Nothing
        /\ buffer' = [buffer EXCEPT !.text = @ \cup {edits'}, !.dirty = TRUE]
        /\ UNCHANGED <<store, unsent, events, serving, requests, answers, saving, deferred>>
    BY <1>3 DEF Type, server
  <2>2. /\ buffer'.path = buffer.path /\ buffer'.base = buffer.base
        /\ buffer'.conflict = buffer.conflict
    BY <2>1 DEF CoreInv, STypeOK, Buffer
  <2>. QED
    BY <1>1, <2>1, <2>2, InformedByUser
<1>4. CASE Save
  <2>. DEFINE r == [kind |-> "save", path |-> buffer.path, text |-> buffer.text,
                    base |-> buffer.base]
  <2>1. /\ buffer # Nothing /\ saving = Nothing /\ Ask(r)
        /\ UNCHANGED <<store, unsent, events, serving, answers, buffer, deferred>>
    BY <1>4 DEF Save, server
  <2>2. r \in Request
    BY <2>1, RequestsMade DEF CoreInv, STypeOK, Buffer
  <2>3. \A i \in DOMAIN answers : answers[i].kind # "stale"
    BY <2>1 DEF CoreInv, SaveInFlight, NoneForSave, ForSave
  <2>. HIDE DEF r
  <2>. QED
    BY <1>2, <2>1, <2>2, <2>3, InformedByUser
<1>5. ASSUME NEW d \in Docs, OpenDoc(d)
      PROVE  Informed'
  <2>1. /\ Ask([kind |-> "read", path |-> d, why |-> "open"])
        /\ UNCHANGED <<store, unsent, events, serving, answers, buffer, saving, deferred>>
    BY <1>5 DEF OpenDoc, server, shell
  <2>2. ReadsStay
    BY <1>2, <2>1, RequestsMade
  <2>. QED
    BY <2>1, <2>2, InformedByUser
<1>6. ASSUME NEW d \in Docs, NewDoc(d)
      PROVE  Informed'
  <2>1. /\ buffer'.base = NullRev
        /\ UNCHANGED <<store, unsent, events, serving, requests, answers, saving, deferred>>
    BY <1>6 DEF NewDoc, server
  <2>. QED
    BY <1>1, <2>1, InformedByUser
<1>7. CASE UNCHANGED vars
  <2>1. UNCHANGED <<store, unsent, events, serving, requests, answers, buffer, saving, deferred>>
    BY <1>7 DEF vars, server, shell
  <2>. QED
    BY <1>1, <2>1, InformedByUser
<1>. QED
  BY <1>3, <1>4, <1>5, <1>6, <1>7

LEMMA InformedOthersCommit ==
  ASSUME CoreInv, CoreInv', Reflects, Informed, Grown(store, store', edits), ~ missed,
         NEW d \in Docs, OthersCommit(d)
  PROVE  Informed'
<1>1. /\ Adds(d, HeadText(d) \cup {edits'}, "others") /\ edits < MaxEdits /\ edits' = edits + 1
      /\ unsent' = unsent \cup {[path |-> d, rev |-> Head_(d) + 1]}
      /\ UNCHANGED <<events, serving, requests, answers, buffer, saving, deferred, saves>>
  BY DEF OthersCommit, shell
<1>2. HeadText(d) \cup {edits'} \in Text
  BY <1>1, OthersEdit DEF CoreInv
<1>3. /\ \A x \in Docs : x # d => LastTold(store', x) = LastTold(store, x)
      /\ LastTold(store', d) = Head_(d) + 1
  BY <1>1, <1>2, LastToldAdds
<1>4. WaitingStays
  <2>1. LastCommit(store', d) \in unsent'
    BY <1>1, <1>3 DEF LastCommit
  <2>2. \A p \in Docs : p # d => LastCommit(store', p) = LastCommit(store, p)
    BY <1>3 DEF LastCommit
  <2>. QED
    BY <1>1, <1>3, <2>1, <2>2 DEF WaitingStays, Waiting
<1>. QED
  BY <1>1, <1>4, InformedAppended

LEMMA InformedCommitSilently ==
  ASSUME CoreInv, CoreInv', Reflects, Informed, Grown(store, store', edits), ~ missed,
         NEW d \in Docs, CommitSilently(d)
  PROVE  Informed'
<1>1. /\ Adds(d, HeadText(d) \cup {edits'}, "silent") /\ edits < MaxEdits /\ edits' = edits + 1
      /\ UNCHANGED <<unsent, events, serving, requests, answers, buffer, saving, deferred, saves>>
  BY DEF CommitSilently, shell
<1>2. HeadText(d) \cup {edits'} \in Text
  BY <1>1, OthersEdit DEF CoreInv
<1>3. \A x \in Docs : LastTold(store', x) = LastTold(store, x)
  BY <1>1, <1>2, LastToldAdds
<1>4. WaitingStays
  BY <1>1, <1>3 DEF WaitingStays, Waiting, LastCommit
<1>. QED
  BY <1>1, <1>4, InformedAppended

LEMMA InformedPublish ==
  ASSUME CoreInv, CoreInv', Reflects, Informed, Grown(store, store', edits), ~ missed,
         NEW c \in unsent, Publish(c)
  PROVE  Informed'
<1>1. /\ unsent' = unsent \ {c} /\ events' = Append(events, c) /\ c \in Commit
      /\ UNCHANGED <<store, serving, requests, answers, buffer, saving, deferred>>
  BY Connected DEF Publish, shell, CoreInv, STypeOK
<1>2. /\ \A k \in DOMAIN events : k \in DOMAIN events' /\ events'[k] = events[k]
      /\ Len(events) + 1 \in DOMAIN events' /\ events'[Len(events) + 1] = c
  BY <1>1, Appended DEF CoreInv, STypeOK
<1>3. WaitingStays
  <2>1. ASSUME NEW p \in Docs, Waiting(p)
        PROVE  Waiting(p)'
    <3>1. CASE LastCommit(store, p) = c
      BY <1>1, <1>2, <3>1 DEF Waiting
    <3>2. CASE LastCommit(store, p) # c
      BY <1>1, <1>2, <2>1, <3>2 DEF Waiting
    <3>. QED
      BY <3>1, <3>2
  <2>. QED
    BY <1>1, <2>1 DEF WaitingStays
<1>. QED
  BY <1>1, <1>3, InformedAppended

LEMMA InformedServeSave ==
  ASSUME CoreInv, CoreInv', Reflects, Informed, Grown(store, store', edits), ~ missed, ServeSave
  PROVE  Informed'
<1>. DEFINE r == Head(requests)
            d == r.path
<1>1. /\ r.kind = "save" /\ d \in Docs /\ r.text \in Text /\ Adds(d, r.text, "shell")
      /\ serving' = [path |-> d, rev |-> Head_(d) + 1] /\ serving = Nothing
      /\ UNCHANGED <<unsent, events, answers, buffer, saving, deferred>>
  BY SaveServed
<1>2. ReadsStay
  BY <1>1, RequestTaken DEF ServeSave
<1>. HIDE DEF d, r
<1>3. /\ \A x \in Docs : x # d => LastTold(store', x) = LastTold(store, x)
      /\ LastTold(store', d) = Head_(d) + 1 /\ Head_(d) \in Nat
  BY <1>1, LastToldAdds, StoreTypes DEF CoreInv
<1>4. WaitingStays
  <2>1. serving' = LastCommit(store', d)
    BY <1>1, <1>3 DEF LastCommit
  <2>2. \A p \in Docs : p # d => LastCommit(store', p) = LastCommit(store, p)
    BY <1>3 DEF LastCommit
  <2>3. \A p \in Docs : serving # LastCommit(store, p)
    BY <1>1, LastCommitTyped
  <2>. QED
    BY <1>1, <1>2, <1>3, <2>1, <2>2, <2>3 DEF WaitingStays, Waiting, ReadsStay
<1>5. ~ (serving'.rev < LastTold(store', serving'.path))
  BY <1>1, <1>3
<1>. QED
  BY <1>1, <1>4, <1>5, InformedAppended

LEMMA InformedFinishSave ==
  ASSUME CoreInv, CoreInv', Reflects, Informed, Grown(store, store', edits), ~ missed, FinishSave
  PROVE  Informed'
<1>. DEFINE a == [kind |-> "saved", path |-> serving.path, rev |-> serving.rev]
<1>1. /\ serving # Nothing /\ serving \in Commit /\ a \in Answer /\ Reply(a)
      /\ serving' = Nothing /\ events' = Append(events, serving)
      /\ UNCHANGED <<store, unsent, requests, buffer, saving, deferred>>
  BY SaveFinished
<1>2. a.path = serving.path /\ a.rev = serving.rev
  OBVIOUS
<1>. HIDE DEF a
<1>3. /\ \A k \in DOMAIN events : k \in DOMAIN events' /\ events'[k] = events[k]
      /\ Len(events) + 1 \in DOMAIN events' /\ events'[Len(events) + 1] = serving
  BY <1>1, Appended DEF CoreInv, STypeOK
<1>4. /\ \A i \in DOMAIN answers' :
           \/ i \in DOMAIN answers /\ answers'[i] = answers[i]
           \/ i = Len(answers) + 1 /\ answers'[i] = a
      /\ \A i \in DOMAIN answers : /\ i \in Nat /\ i <= Len(answers) /\ i \in DOMAIN answers'
                                   /\ answers'[i] = answers[i]
      /\ Len(answers) \in Nat
  BY <1>1, Replied DEF CoreInv
<1>5. \A p \in Docs : Waiting(p) => Waiting(p)'
  BY <1>1, <1>3 DEF Waiting
<1>6. WaitingStays
  BY <1>1, <1>5 DEF WaitingStays
<1>7. a.rev < LastTold(store, a.path) => \A x, n : x = a.path => Coming(x, n)'
  <2>1. SUFFICES ASSUME serving.rev < LastTold(store, serving.path)
                 PROVE  \A x, n : x = serving.path => Coming(x, n)'
    BY <1>2
  <2>2. Coming(serving.path, Len(answers))
    BY <1>1, <2>1 DEF Informed, InformedServing
  <2>3. Waiting(serving.path)
    <3>1. \A j \in DOMAIN answers : ~ (j > Len(answers))
      BY <1>4
    <3>. QED
      BY <2>2, <3>1 DEF Coming
  <2>4. serving.path \in Docs
    BY <1>1 DEF Commit
  <2>. QED
    BY <1>5, <2>3, <2>4 DEF Coming
<1>8. \A i \in DOMAIN answers' :
        \/ i \in DOMAIN answers /\ answers'[i] = answers[i]
        \/ ~ (answers'[i].rev < LastTold(store', answers'[i].path))
        \/ \A x : x = answers'[i].path => Coming(x, i)'
  BY <1>1, <1>4, <1>7
<1>. QED
  BY <1>1, <1>4, <1>6, <1>8, InformedAppended

(* An answer without a revision to hold. *)
LEMMA InformedReply ==
  ASSUME CoreInv, CoreInv', Reflects, Informed, Grown(store, store', edits), ~ missed,
         NEW a \in Answer, Reply(a),
         Dated(a) => ~ (a.rev < LastTold(store', a.path)),
         WaitingStays, UNCHANGED <<serving, buffer, saving, deferred>>, serving = Nothing
  PROVE  Informed'
<1>1. /\ \A i \in DOMAIN answers' :
           \/ i \in DOMAIN answers /\ answers'[i] = answers[i]
           \/ answers'[i] = a
      /\ \A i \in DOMAIN answers : i \in DOMAIN answers' /\ answers'[i] = answers[i]
  BY Replied DEF CoreInv
<1>2. \A i \in DOMAIN answers' :
        \/ i \in DOMAIN answers /\ answers'[i] = answers[i]
        \/ ~ Dated(answers'[i])
        \/ ~ (answers'[i].rev < LastTold(store', answers'[i].path))
  BY <1>1
<1>. QED
  BY <1>1, <1>2, InformedAppended

(* The new answer tells of p. *)
LEMMA TellingReply ==
  ASSUME CoreInv, NEW a \in Answer, Reply(a), NEW p, Tells(store', saving', a, p)
  PROVE  ToldNow(p)
<1>1. /\ Len(answers) \in Nat /\ Len(answers) + 1 \in DOMAIN answers'
      /\ answers'[Len(answers) + 1] = a
  BY Replied DEF CoreInv
<1>2. Len(answers) + 1 > Len(answers)
  BY <1>1
<1>. QED
  BY <1>1, <1>2 DEF ToldNow

LEMMA InformedServeStale ==
  ASSUME CoreInv, CoreInv', Reflects, Informed, Grown(store, store', edits), ~ missed, ServeStale
  PROVE  Informed'
<1>. DEFINE r == Head(requests)
            d == r.path
            a == [kind |-> "stale"]
<1>1. /\ r.kind = "save" /\ Reply(a) /\ d \in Docs /\ saving # Nothing /\ d = saving.path
      /\ \/ UNCHANGED <<store, edits>>
         \/ /\ edits' = edits + 1 /\ edits < MaxEdits
            /\ Adds(d, HeadText(d) \cup {edits'}, "others")
      /\ UNCHANGED <<unsent, events, serving, buffer, saving, deferred, saves>>
  BY StaleServed
<1>2. ReadsStay /\ serving = Nothing
  BY <1>1, RequestTaken, Taken DEF ServeStale, CoreInv
<1>3. a \in Answer /\ ~ Dated(a) /\ a.kind = "stale"
  BY AnswersMade DEF Dated
<1>. HIDE DEF d, r, a
<1>4. \A x \in Docs : x # d => LastTold(store', x) = LastTold(store, x)
  <2>1. CASE store' = store
    BY <2>1
  <2>2. CASE /\ edits' = edits + 1 /\ edits < MaxEdits
             /\ Adds(d, HeadText(d) \cup {edits'}, "others")
    <3>1. HeadText(d) \cup {edits'} \in Text
      BY <1>1, <2>2, OthersEdit DEF CoreInv
    <3>. QED
      BY <1>1, <2>2, <3>1, LastToldAdds
  <2>. QED
    BY <1>1, <2>1, <2>2
<1>5. ToldNow(d)
  <2>1. Tells(store', saving', a, d)
    BY <1>1, <1>3 DEF Tells
  <2>. QED
    BY <1>1, <1>3, <2>1, TellingReply
<1>6. WaitingStays
  <2>1. \A p \in Docs : p # d => LastCommit(store', p) = LastCommit(store, p)
    BY <1>4 DEF LastCommit
  <2>. QED
    BY <1>1, <1>2, <1>4, <1>5, <2>1 DEF WaitingStays, Waiting, ReadsStay
<1>. QED
  BY <1>1, <1>2, <1>3, <1>6, InformedReply

LEMMA InformedServed ==
  ASSUME CoreInv, CoreInv', Reflects, Informed, Grown(store, store', edits), ~ missed,
         ServeRefused \/ ServeList
  PROVE  Informed'
<1>1. PICK a \in {[kind |-> "refused"], [kind |-> "listed"]}, kind \in {"save", "list"} :
        Take(kind) /\ Reply(a)
  BY DEF ServeRefused, ServeList
<1>2. a \in Answer /\ ~ Dated(a)
  BY <1>1, AnswersMade DEF Dated
<1>3. ReadsStay /\ serving = Nothing
  BY <1>1, RequestTaken, Taken DEF CoreInv
<1>4. UNCHANGED <<store, unsent, events, serving, buffer, saving, deferred>>
  BY DEF ServeRefused, ServeList, server, shell
<1>. QED
  BY <1>1, <1>2, <1>3, <1>4, WaitingSame, InformedReply

LEMMA InformedServeRead ==
  ASSUME CoreInv, CoreInv', Reflects, Informed, Grown(store, store', edits), ~ missed, ServeRead
  PROVE  Informed'
<1>. DEFINE r == Head(requests)
            a == ReadAnswer(r)
<1>1. /\ a \in Answer /\ Reply(a) /\ r.path \in Docs /\ serving = Nothing
      /\ a.kind \in {"loaded", "missing"}
      /\ a.kind = "loaded" => a.path = r.path /\ a.rev = Len(store[r.path])
      /\ Len(store[r.path]) # 0 => a.kind = "loaded"
      /\ UNCHANGED <<store, unsent, events, serving, buffer, saving, deferred>>
  BY ReadServed
<1>2. \A k \in DOMAIN requests :
        requests[k] = r \/ \E m \in DOMAIN requests' : requests'[m] = requests[k]
  BY RequestTaken DEF ServeRead
<1>. HIDE DEF a, r
<1>3. LastTold(store, r.path) # 0 => ToldNow(r.path)
  <2>1. LastTold(store, r.path) # 0 => Len(store[r.path]) # 0
    BY <1>1, LastToldNow
  <2>2. LastTold(store, r.path) # 0 => Tells(store', saving', a, r.path)
    BY <1>1, <2>1 DEF Tells
  <2>. QED
    BY <1>1, <2>2, TellingReply
<1>4. WaitingStays
  <2>1. ASSUME NEW p \in Docs, LastTold(store, p) # 0, Waiting(p)
        PROVE  Waiting(p)' \/ ToldNow(p)
    <3>1. CASE p = r.path
      BY <1>3, <2>1, <3>1
    <3>2. CASE p # r.path
      BY <1>1, <1>2, <2>1, <3>2 DEF Waiting
    <3>. QED
      BY <3>1, <3>2
  <2>. QED
    BY <1>1, <2>1 DEF WaitingStays
<1>5. Dated(a) => ~ (a.rev < LastTold(store', a.path))
  <2>1. ~ (Len(store[r.path]) < LastTold(store, r.path))
    BY <1>1, LastToldNow
  <2>. QED
    BY <1>1, <2>1 DEF Dated
<1>. QED
  BY <1>1, <1>4, <1>5, InformedReply

LEMMA InformedForward ==
  ASSUME CoreInv, CoreInv', Reflects, Informed, Grown(store, store', edits), ~ missed, Forward
  PROVE  Informed'
<1>. DEFINE e == Head(events)
            a == [kind |-> "event", path |-> e.path, rev |-> e.rev]
<1>1. /\ serving = Nothing /\ events # <<>> /\ Reply(a) /\ events' = Tail(events)
      /\ UNCHANGED <<store, unsent, serving, requests, buffer, saving, deferred>>
  BY DEF Forward, Idle, shell
<1>2. /\ e \in Commit /\ e = events[1]
      /\ \A k \in DOMAIN events :
           k = 1 \/ (k - 1 \in DOMAIN events' /\ events'[k - 1] = events[k])
  BY <1>1, HeadAndTail DEF CoreInv, STypeOK
<1>3. a \in Answer /\ ~ Dated(a) /\ a.kind = "event" /\ a.path = e.path /\ a.rev = e.rev
  BY <1>2, AnswersMade DEF Commit, Dated
<1>. HIDE DEF a, e
<1>4. WaitingStays
  <2>1. ASSUME NEW p \in Docs, Waiting(p)
        PROVE  Waiting(p)' \/ ToldNow(p)
    <3>1. CASE e = LastCommit(store, p)
      <4>1. Tells(store', saving', a, p)
        BY <1>1, <1>3, <3>1 DEF Tells, LastCommit
      <4>. QED
        BY <1>1, <1>3, <4>1, TellingReply
    <3>2. CASE e # LastCommit(store, p)
      BY <1>1, <1>2, <2>1, <3>2 DEF Waiting
    <3>. QED
      BY <3>1, <3>2
  <2>. QED
    BY <1>1, <2>1 DEF WaitingStays
<1>. QED
  BY <1>1, <1>3, <1>4, InformedReply

(* An answer is taken: those behind it move up by one. *)
LEMMA WaitingGoesOn ==
  ASSUME UNCHANGED <<store, unsent, events, serving>>, ReadsStay, NEW p, Waiting(p)
  PROVE  Waiting(p)'
<1>. QED
  BY DEF Waiting, ReadsStay

LEMMA Shifted ==
  ASSUME CoreInv, NEW kind, Receive(kind), UNCHANGED <<store, unsent, events, serving>>, ReadsStay,
         \A i \in DOMAIN answers' : answers'[i].kind = "stale" => saving' = saving
  PROVE  /\ \A p : \A i \in Nat : Coming(p, i + 1) => Coming(p, i)'
         /\ \A p : Coming(p, 0) => Coming(p, 0)' \/ Tells(store, saving, answers[1], p)
<1>1. \A j \in DOMAIN answers :
        j = 1 \/ (j \in Nat /\ j > 1 /\ j - 1 \in DOMAIN answers' /\ answers'[j - 1] = answers[j])
  BY Received DEF CoreInv
<1>2. ASSUME NEW p, NEW j \in DOMAIN answers, j # 1, Tells(store, saving, answers[j], p)
      PROVE  /\ j - 1 \in DOMAIN answers' /\ j \in Nat
             /\ Tells(store', saving', answers'[j - 1], p)
  BY <1>1, <1>2 DEF Tells
<1>3. ASSUME NEW p, NEW i \in Nat, Coming(p, i + 1)
      PROVE  Coming(p, i)'
  <2>1. CASE Waiting(p)
    BY <2>1, WaitingGoesOn DEF Coming
  <2>2. CASE ~ Waiting(p)
    <3>1. PICK j \in DOMAIN answers : j > i + 1 /\ Tells(store, saving, answers[j], p)
      BY <1>3, <2>2 DEF Coming
    <3>2. j \in Nat /\ j # 1
      BY <1>1, <3>1
    <3>3. j - 1 > i
      BY <3>1, <3>2
    <3>. QED
      BY <1>2, <3>1, <3>2, <3>3 DEF Coming
  <2>. QED
    BY <2>1, <2>2
<1>4. ASSUME NEW p, Coming(p, 0), ~ Tells(store, saving, answers[1], p)
      PROVE  Coming(p, 0)'
  <2>1. CASE Waiting(p)
    BY <2>1, WaitingGoesOn DEF Coming
  <2>2. CASE ~ Waiting(p)
    <3>1. PICK j \in DOMAIN answers : j > 0 /\ Tells(store, saving, answers[j], p)
      BY <1>4, <2>2 DEF Coming
    <3>2. j # 1
      BY <1>4, <3>1
    <3>3. j \in Nat /\ j - 1 > 0
      BY <1>1, <3>1, <3>2
    <3>. QED
      BY <1>2, <3>1, <3>2, <3>3 DEF Coming
  <2>. QED
    BY <2>1, <2>2
<1>. QED
  BY <1>3, <1>4

(* What the answers in the queue promise is not disturbed. *)
LEMMA InformedReceived ==
  ASSUME CoreInv, Informed, ~ missed, NEW kind, Receive(kind),
         UNCHANGED <<store, unsent, events, serving>>, ReadsStay,
         \A i \in DOMAIN answers' : answers'[i].kind = "stale" => saving' = saving,
         InformedBuffer'
  PROVE  Informed'
<1>1. InformedAnswers /\ InformedServing
  BY DEF Informed
<1>2. InformedAnswers'
  <2>1. ASSUME NEW i \in DOMAIN answers', Dated(answers'[i]),
               answers'[i].rev < LastTold(store', answers'[i].path)
        PROVE  \A x : x = answers'[i].path => Coming(x, i)'
    <3>1. i \in Nat /\ i + 1 \in DOMAIN answers /\ answers'[i] = answers[i + 1]
      BY Received DEF CoreInv
    <3>2. Coming(answers[i + 1].path, i + 1)
      BY <1>1, <2>1, <3>1 DEF InformedAnswers
    <3>. QED
      BY <3>1, <3>2, Shifted
  <2>. QED
    BY <2>1 DEF InformedAnswers, Dated
<1>3. InformedServing'
  <2>1. SUFFICES ASSUME serving # Nothing, serving.rev < LastTold(store, serving.path)
                 PROVE  \A x, n : x = serving.path => Coming(x, n)'
    BY DEF InformedServing
  <2>2. Coming(serving.path, Len(answers))
    BY <1>1, <2>1 DEF InformedServing
  <2>3. \A j \in DOMAIN answers : ~ (j > Len(answers))
    <3>1. \A j \in DOMAIN answers : j \in Nat /\ j <= Len(answers)
      BY AnswerTypes DEF CoreInv
    <3>2. Len(answers) \in Nat
      BY Elements DEF CoreInv, STypeOK
    <3>. QED
      BY <3>1, <3>2
  <2>4. Waiting(serving.path)
    BY <2>2, <2>3 DEF Coming
  <2>5. \A x : x = serving.path => Waiting(x)'
    BY <2>4, WaitingGoesOn
  <2>. QED
    BY <2>5 DEF Coming
<1>. QED
  BY <1>2, <1>3 DEF Informed

(* The buffer is behind the last revision told; the shell has noticed. *)
BehindTold ==
  buffer # Nothing /\ buffer.base # NullRev /\ buffer.base < LastTold(store, buffer.path)
Noted ==
  \/ buffer.conflict # NullRev
  \/ \E k \in DOMAIN deferred : deferred[k] = LastCommit(store, buffer.path)

LEMMA BufferShifted ==
  ASSUME CoreInv, Informed, ~ missed, NEW kind, Receive(kind),
         UNCHANGED <<store, unsent, events, serving>>, ReadsStay,
         \A i \in DOMAIN answers' : answers'[i].kind = "stale" => saving' = saving,
         buffer' # Nothing =>
           buffer # Nothing /\ buffer'.path = buffer.path /\ buffer'.base = buffer.base,
         BehindTold /\ (Noted \/ Tells(store, saving, answers[1], buffer.path)) =>
           Noted' \/ \A x : x = buffer.path => Waiting(x)'
  PROVE  Informed'
<1>1. InformedBuffer
  BY DEF Informed
<1>2. InformedBuffer'
  <2>1. SUFFICES ASSUME buffer' # Nothing, buffer'.base # NullRev,
                        buffer'.base < LastTold(store', buffer'.path)
                 PROVE  Noted' \/ \A x : x = buffer.path => Coming(x, 0)'
    <3>1. buffer' # Nothing => buffer'.path = buffer.path
      OBVIOUS
    <3>. QED
      BY <3>1 DEF InformedBuffer, Noted
  <2>2. /\ buffer # Nothing /\ buffer'.path = buffer.path /\ buffer'.base = buffer.base
        /\ store' = store
    BY <2>1
  <2>3. BehindTold
    BY <2>1, <2>2 DEF BehindTold
  <2>4. Noted \/ Coming(buffer.path, 0)
    BY <1>1, <2>3 DEF InformedBuffer, Noted, BehindTold
  <2>5. \/ Noted \/ Tells(store, saving, answers[1], buffer.path)
        \/ \A x : x = buffer.path => Coming(x, 0)'
    BY <2>4, Shifted
  <2>6. (\A x : x = buffer.path => Waiting(x)') => \A x : x = buffer.path => Coming(x, 0)'
    BY DEF Coming
  <2>. QED
    BY <2>3, <2>5, <2>6
<1>. QED
  BY <1>2, InformedReceived

(* The commit last told, judged against a buffer behind it. *)
LEMMA Judged ==
  ASSUME CoreInv, NEW b \in Buffer, NEW commits \in Seq(Commit),
         \A k \in DOMAIN commits : commits[k].rev >= 1,
         buffer' = Flagged(b, commits), requests' = requests \o Refreshes(b, commits),
         b.base < LastTold(store, b.path),
         b.conflict # NullRev \/ \E k \in DOMAIN commits : commits[k] = LastCommit(store, b.path)
  PROVE  buffer'.conflict # NullRev \/ \A x : x = b.path => Waiting(x)'
<1>1. \A k \in DOMAIN commits : commits[k].rev # NullRev
  BY DEF NullRev
<1>2. LET f == Flagged(b, commits)
      IN  /\ f.conflict = b.conflict \/ \E k \in DOMAIN commits : f.conflict = commits[k].rev
          /\ b.dirty /\ (\E k \in DOMAIN commits : Matters(b, commits[k])) =>
               \E k \in DOMAIN commits : f.conflict = commits[k].rev
  BY FlaggedFacts
<1>3. CASE b.conflict # NullRev
  BY <1>1, <1>2, <1>3
<1>4. CASE \E k \in DOMAIN commits : commits[k] = LastCommit(store, b.path)
  <2>1. \E k \in DOMAIN commits : Matters(b, commits[k])
    <3>1. b.base \in Nat /\ b.path \in Docs
      BY DEF Buffer, Rev
    <3>2. LastTold(store, b.path) \in Nat
      BY <3>1, LastToldNow
    <3>3. b.base # LastTold(store, b.path)
      BY <3>1, <3>2
    <3>. QED
      BY <1>4, <3>3 DEF Matters, LastCommit
  <2>2. CASE b.dirty
    BY <1>1, <1>2, <2>1, <2>2
  <2>3. CASE ~ b.dirty
    <3>. DEFINE u == Refreshes(b, commits)
    <3>1. u \in Seq(Request) /\ 1 \in DOMAIN u /\ u[1].kind = "read" /\ u[1].path = b.path
      <4>1. LET s == Refreshes(b, commits)
            IN  /\ s \in Seq(Request) /\ 1 \in DOMAIN s
                /\ s[1] = [kind |-> "read", path |-> b.path, why |-> "refresh"]
        BY <2>1, <2>3, RefreshesFacts
      <4>. QED
        BY <4>1
    <3>2. requests \in Seq(Request) /\ requests' = requests \o u
      BY DEF CoreInv, STypeOK
    <3>. HIDE DEF u
    <3>3. Len(requests) + 1 \in DOMAIN requests' /\ requests'[Len(requests) + 1] = u[1]
      BY <3>1, <3>2, Concatenated
    <3>. QED
      BY <3>1, <3>3 DEF Waiting
  <2>. QED
    BY <2>2, <2>3
<1>. QED
  BY <1>3, <1>4

LEMMA MoreRequests ==
  ASSUME CoreInv, NEW u \in Seq(Request), requests' = requests \o u
  PROVE  ReadsStay
<1>1. \A k \in DOMAIN requests : k \in DOMAIN requests' /\ requests'[k] = requests[k]
  BY Concatenated DEF CoreInv, STypeOK
<1>. QED
  BY <1>1 DEF ReadsStay

(* A save ends: the commits that waited for it are judged. *)
LEMMA InformedSettles ==
  ASSUME CoreInv, Informed, ~ missed, NEW kind, Receive(kind), ForSave(Head(answers)),
         NEW b \in Buffer, b.path = buffer.path, b.base = buffer.base, Settle(b),
         buffer.conflict # NullRev => b.conflict # NullRev,
         Tells(store, saving, answers[1], buffer.path) => b.conflict # NullRev,
         UNCHANGED <<store, unsent, events, serving>>
  PROVE  Informed'
<1>1. /\ saving' = Nothing /\ deferred' = <<>> /\ buffer' = Flagged(b, deferred)
      /\ requests' = requests \o Refreshes(b, deferred)
  BY DEF Settle
<1>2. deferred \in Seq(Commit) /\ \A k \in DOMAIN deferred : deferred[k].rev >= 1
  BY DEF CoreInv, STypeOK, Numbered
<1>3. Refreshes(b, deferred) \in Seq(Request)
  BY <1>2, RefreshesFacts
<1>4. ReadsStay
  BY <1>1, <1>3, MoreRequests
<1>5. NoneForSave(answers') /\ buffer # Nothing
  BY SaveReceived DEF CoreInv
<1>6. \A i \in DOMAIN answers' : answers'[i].kind # "stale"
  BY <1>5 DEF NoneForSave, ForSave
<1>7. buffer'.path = buffer.path /\ buffer'.base = buffer.base
  <2>1. LET f == Flagged(b, deferred) IN f.path = b.path /\ f.base = b.base
    BY <1>2, FlaggedFacts
  <2>. QED
    BY <1>1, <2>1
<1>8. ASSUME BehindTold, Noted \/ Tells(store, saving, answers[1], buffer.path)
      PROVE  Noted' \/ \A x : x = buffer.path => Waiting(x)'
  <2>1. b.base < LastTold(store, b.path)
    BY <1>8 DEF BehindTold
  <2>2. b.conflict # NullRev \/ \E k \in DOMAIN deferred : deferred[k] = LastCommit(store, b.path)
    BY <1>8 DEF Noted
  <2>3. buffer'.conflict # NullRev \/ \A x : x = b.path => Waiting(x)'
    BY <1>1, <1>2, <2>1, <2>2, Judged
  <2>. QED
    BY <2>3 DEF Noted
<1>. QED
  BY <1>4, <1>5, <1>6, <1>7, <1>8, BufferShifted

LEMMA InformedSaveEnds ==
  ASSUME CoreInv, Informed, ~ missed, SaveEnds
  PROVE  Informed'
<1>1. PICK kind \in {"listed", "refused"} : Receive(kind)
  BY SaveEndsTypes
<1>2. /\ ForSave(Head(answers)) /\ buffer \in Buffer /\ Settle(buffer)
      /\ UNCHANGED <<store, unsent, events, serving>>
  BY SaveEndsTypes DEF server
<1>3. ~ Tells(store, saving, answers[1], buffer.path)
  BY <1>1, Received DEF Tells, CoreInv
<1>. QED
  BY <1>1, <1>2, <1>3, InformedSettles

LEMMA InformedReceiveReread ==
  ASSUME CoreInv, Informed, ~ missed, ReceiveReread
  PROVE  Informed'
<1>1. PICK kind \in {"loaded", "missing"} : Receive(kind)
  BY RefusedTypes
<1>2. /\ ForSave(Head(answers)) /\ saving # Nothing /\ buffer # Nothing /\ buffer \in Buffer
      /\ Refused \in Buffer /\ Refused.path = buffer.path /\ Refused.base = buffer.base
      /\ Refused.conflict # buffer.conflict => Refused.conflict # NullRev
      /\ SavedHere => Refused.conflict # NullRev
      /\ Settle(Refused) /\ UNCHANGED <<store, unsent, events, serving>>
  BY RefusedTypes DEF server
<1>3. Tells(store, saving, answers[1], buffer.path) => Refused.conflict # NullRev
  <2>1. Head(answers) = answers[1] /\ answers[1].kind = kind /\ 1 \in DOMAIN answers
    BY <1>1, Received DEF CoreInv
  <2>2. OfThisSave(answers[1], saving)
    BY <1>2, <2>1 DEF CoreInv, SaveInFlight
  <2>3. Tells(store, saving, answers[1], buffer.path) => buffer.path = saving.path
    BY <1>1, <2>1, <2>2 DEF Tells, OfThisSave
  <2>. QED
    BY <1>2, <2>3 DEF SavedHere
<1>. QED
  BY <1>1, <1>2, <1>3, InformedSettles

LEMMA InformedReceiveSaved ==
  ASSUME CoreInv, Informed, ~ missed, ReceiveSaved
  PROVE  Informed'
<1>. DEFINE a == Head(answers)
<1>1. /\ Receive("saved") /\ a.kind = "saved" /\ a = answers[1] /\ 1 \in DOMAIN answers
      /\ NoneForSave(answers') /\ Ask([kind |-> "list"])
      /\ a.path \in Docs /\ buffer # Nothing
      /\ buffer.path = a.path =>
           buffer'.path = buffer.path /\ buffer'.base = a.rev /\ buffer'.conflict = NullRev
      /\ buffer.path # a.path => buffer' = buffer
      /\ UNCHANGED <<store, unsent, events, serving, deferred>>
  BY SavedReceived
<1>. HIDE DEF a
<1>2. ReadsStay
  BY <1>1, Asked, RequestsMade DEF ReadsStay, CoreInv
<1>3. \A i \in DOMAIN answers' : answers'[i].kind # "stale"
  BY <1>1 DEF NoneForSave, ForSave
<1>4. CASE buffer.path # a.path
  <2>1. ~ Tells(store, saving, answers[1], buffer.path)
    BY <1>1 DEF Tells
  <2>2. Noted => Noted'
    BY <1>1, <1>4 DEF Noted
  <2>. QED
    BY <1>1, <1>2, <1>3, <1>4, <2>1, <2>2, BufferShifted
<1>5. CASE buffer.path = a.path
  <2>1. a.rev < LastTold(store, a.path) => Coming(a.path, 1)
    BY <1>1 DEF Informed, InformedAnswers, Dated
  <2>2. a.rev < LastTold(store, a.path) => \A x : x = a.path => Coming(x, 0)'
    BY <1>1, <1>2, <1>3, <2>1, Shifted
  <2>3. InformedBuffer'
    BY <1>1, <1>5, <2>2 DEF InformedBuffer
  <2>. QED
    BY <1>1, <1>2, <1>3, <2>3, InformedReceived
<1>. QED
  BY <1>4, <1>5

LEMMA InformedReceiveStale ==
  ASSUME CoreInv, Informed, ~ missed, ReceiveStale
  PROVE  Informed'
<1>. DEFINE r == [kind |-> "read", path |-> saving.path, why |-> "reread"]
<1>1. Receive("stale") /\ Ask(r) /\ UNCHANGED <<store, unsent, events, serving, buffer, deferred>>
  BY DEF ReceiveStale, server
<1>2. /\ Head(answers) = answers[1] /\ answers[1].kind = "stale" /\ ForSave(Head(answers))
  BY <1>1, Received DEF CoreInv, ForSave
<1>3. NoneForSave(answers') /\ saving # Nothing
  BY <1>1, <1>2, SaveReceived DEF CoreInv
<1>4. r \in Request /\ r.kind = "read" /\ r.path = saving.path
  BY <1>3, RequestsMade DEF CoreInv, STypeOK, Saving
<1>. HIDE DEF r
<1>5. /\ ReadsStay
      /\ Len(requests) + 1 \in DOMAIN requests' /\ requests'[Len(requests) + 1] = r
  BY <1>1, <1>4, Asked DEF ReadsStay, CoreInv
<1>6. \A i \in DOMAIN answers' : answers'[i].kind # "stale"
  BY <1>3 DEF NoneForSave, ForSave
<1>7. Tells(store, saving, answers[1], buffer.path) => \A x : x = buffer.path => Waiting(x)'
  <2>1. Tells(store, saving, answers[1], buffer.path) => buffer.path = saving.path
    BY <1>2 DEF Tells
  <2>. QED
    BY <1>4, <1>5, <2>1 DEF Waiting
<1>8. Noted => Noted'
  BY <1>1 DEF Noted
<1>. QED
  BY <1>1, <1>5, <1>6, <1>7, <1>8, BufferShifted

LEMMA InformedReceiveLoaded ==
  ASSUME CoreInv, Informed, ~ missed, ReceiveLoaded
  PROVE  Informed'
<1>. DEFINE a == Head(answers)
<1>1. /\ Receive("loaded") /\ a.kind = "loaded" /\ a.path \in Docs
      /\ buffer'.path = a.path /\ buffer'.base = a.rev
      /\ UNCHANGED <<store, unsent, events, serving, requests, saving, deferred>>
  BY LoadedTypes
<1>2. a = answers[1] /\ 1 \in DOMAIN answers
  BY <1>1, Received DEF CoreInv
<1>. HIDE DEF a
<1>3. ReadsStay
  BY <1>1 DEF ReadsStay
<1>4. a.rev < LastTold(store, a.path) => Coming(a.path, 1)
  BY <1>1, <1>2 DEF Informed, InformedAnswers, Dated
<1>5. a.rev < LastTold(store, a.path) => \A x : x = a.path => Coming(x, 0)'
  BY <1>1, <1>3, <1>4, Shifted
<1>6. InformedBuffer'
  BY <1>1, <1>5 DEF InformedBuffer
<1>. QED
  BY <1>1, <1>3, <1>6, InformedReceived

LEMMA InformedReceiveMissing ==
  ASSUME CoreInv, Informed, ~ missed, ReceiveMissing
  PROVE  Informed'
<1>1. Receive("missing") /\ UNCHANGED <<store, unsent, events, serving, requests, buffer, saving, deferred>>
  BY DEF ReceiveMissing, server, shell
<1>2. ReadsStay
  BY <1>1 DEF ReadsStay
<1>3. ~ Tells(store, saving, answers[1], buffer.path)
  BY <1>1, Received DEF Tells, CoreInv
<1>4. Noted => Noted'
  BY <1>1 DEF Noted
<1>. QED
  BY <1>1, <1>2, <1>3, <1>4, BufferShifted

LEMMA InformedReceiveEvent ==
  ASSUME CoreInv, Informed, ~ missed, ReceiveEvent
  PROVE  Informed'
<1>. DEFINE mine == buffer # Nothing /\ Told.path = buffer.path
            u == IF mine /\ saving = Nothing THEN Refreshes(buffer, <<Told>>) ELSE <<>>
<1>1. /\ Receive("event") /\ Told \in Commit /\ Told.rev >= 1 /\ <<Told>> \in Seq(Commit)
      /\ deferred' = IF mine /\ saving # Nothing THEN Append(deferred, Told) ELSE deferred
      /\ buffer' = IF mine /\ saving = Nothing THEN Flagged(buffer, <<Told>>) ELSE buffer
      /\ requests' = requests \o u /\ u \in Seq(Request)
      /\ UNCHANGED <<store, unsent, events, serving, saving>>
  BY EventReceived
<1>. HIDE DEF mine, u
<1>2. ReadsStay
  BY <1>1, MoreRequests
<1>3. Tells(store, saving, answers[1], buffer.path) => Told = LastCommit(store, buffer.path)
  <2>1. Head(answers) = answers[1] /\ answers[1].kind = "event"
    BY <1>1, Received DEF CoreInv
  <2>. QED
    BY <2>1 DEF Tells, Told, LastCommit
<1>4. CASE mine /\ saving = Nothing
  <2>1. buffer # Nothing /\ buffer \in Buffer /\ buffer' = Flagged(buffer, <<Told>>)
        /\ requests' = requests \o Refreshes(buffer, <<Told>>)
    BY <1>1, <1>4 DEF mine, u, CoreInv, STypeOK
  <2>2. LET f == Flagged(buffer, <<Told>>) IN f.path = buffer.path /\ f.base = buffer.base
    BY <1>1, <2>1, FlaggedFacts
  <2>3. ASSUME BehindTold, Noted \/ Tells(store, saving, answers[1], buffer.path)
        PROVE  Noted' \/ \A x : x = buffer.path => Waiting(x)'
    <3>1. deferred = <<>>
      BY <1>4 DEF CoreInv, STypeOK
    <3>2. buffer.conflict # NullRev \/ Told = LastCommit(store, buffer.path)
      BY <1>3, <2>3, <3>1 DEF Noted
    <3>3. \A k \in DOMAIN <<Told>> : <<Told>>[k] = Told
      OBVIOUS
    <3>4. \A k \in DOMAIN <<Told>> : <<Told>>[k].rev >= 1
      BY <1>1, <3>3
    <3>5. 1 \in DOMAIN <<Told>>
      OBVIOUS
    <3>6. buffer.conflict # NullRev
            \/ \E k \in DOMAIN <<Told>> : <<Told>>[k] = LastCommit(store, buffer.path)
      BY <3>2, <3>3, <3>5
    <3>7. buffer'.conflict # NullRev \/ \A x : x = buffer.path => Waiting(x)'
      BY <1>1, <2>1, <2>3, <3>4, <3>6, Judged DEF BehindTold
    <3>. QED
      BY <3>7 DEF Noted
  <2>. QED
    BY <1>1, <1>2, <2>1, <2>2, <2>3, BufferShifted
<1>5. CASE mine /\ saving # Nothing
  <2>1. deferred' = Append(deferred, Told) /\ buffer' = buffer
    BY <1>1, <1>5
  <2>2. /\ \A k \in DOMAIN deferred : k \in DOMAIN deferred' /\ deferred'[k] = deferred[k]
        /\ Len(deferred) + 1 \in DOMAIN deferred' /\ deferred'[Len(deferred) + 1] = Told
    BY <1>1, <2>1, Appended DEF CoreInv, STypeOK
  <2>3. Noted \/ Tells(store, saving, answers[1], buffer.path) => Noted'
    BY <1>1, <1>3, <2>1, <2>2 DEF Noted
  <2>. QED
    BY <1>1, <1>2, <2>1, <2>3, BufferShifted
<1>6. CASE ~ mine
  <2>1. deferred' = deferred /\ buffer' = buffer
    BY <1>1, <1>6
  <2>2. BehindTold => ~ Tells(store, saving, answers[1], buffer.path)
    BY <1>3, <1>6 DEF mine, LastCommit, BehindTold
  <2>3. Noted => Noted'
    BY <1>1, <2>1 DEF Noted
  <2>. QED
    BY <1>1, <1>2, <2>1, <2>2, <2>3, BufferShifted
<1>. QED
  BY <1>4, <1>5, <1>6

LEMMA InformedNext ==
  ASSUME CoreInv, CoreInv', Reflects, Informed, [Next]_vars
  PROVE  Informed'
<1>1. CASE missed'
  BY <1>1 DEF Informed
<1>2. CASE ~ missed' /\ missed
  <2>1. missed' = missed \/ missed'
    BY Steps DEF OthersCommit, CommitSilently, OpenDoc, NewDoc, Publish, ServeSave, FinishSave,
       ServeStale, ServeRefused, ServeRead, ServeList, Forward, Type, Save, ReceiveSaved, ReceiveStale,
       SaveEnds, ReceiveReread, ReceiveLoaded, ReceiveMissing, ReceiveEvent, Lag, Close,
       Disconnect, Fault, Reconnect, shell, vars
  <2>. QED
    BY <1>2, <2>1
<1>3. CASE ~ missed' /\ ~ missed
  <2>1. ~ (Lag \/ Close \/ Disconnect \/ Reconnect)
    BY <1>3, Connected DEF Lag, Close, Disconnect, Fault, Reconnect
  <2>2. Grown(store, store', edits)
    BY GrownNext
  <2>. QED
    BY <1>3, <2>1, <2>2, Steps, InformedUser, InformedOthersCommit, InformedCommitSilently,
       InformedPublish,
       InformedServeSave, InformedFinishSave, InformedServeStale, InformedServed,
       InformedServeRead, InformedForward, InformedReceiveSaved, InformedReceiveStale,
       InformedSaveEnds, InformedReceiveReread, InformedReceiveLoaded, InformedReceiveMissing,
       InformedReceiveEvent
<1>. QED
  BY <1>1, <1>2, <1>3

(* Nothing is on its way: a buffer behind a revision told has been marked. *)
LEMMA QuietShell ==
  ASSUME CoreInv, Reflects, Informed, Quiet, buffer # Nothing, buffer.base # NullRev,
         Behind(buffer)
  PROVE  buffer.conflict # NullRev
<1>1. /\ link = "up" /\ ~ missed /\ requests = <<>> /\ answers = <<>> /\ events = <<>>
      /\ unsent = {} /\ serving = Nothing
  BY DEF Quiet
<1>2. saving = Nothing
  BY <1>1 DEF CoreInv, SaveInFlight, OneForSave
<1>3. deferred = <<>>
  BY <1>2 DEF CoreInv, STypeOK
<1>4. buffer.path \in Docs /\ buffer.base \in Nat
  BY HeldHeads
<1>5. ~ Coming(buffer.path, 0)
  BY <1>1, <1>4, LastCommitTyped DEF Coming, Waiting
<1>6. buffer.base < LastTold(store, buffer.path)
  <2>1. PICK r \in DOMAIN store[buffer.path] :
          r > buffer.base /\ store[buffer.path][r].by # "silent"
    BY DEF Behind
  <2>2. r <= LastTold(store, buffer.path) /\ LastTold(store, buffer.path) \in Nat
    BY <1>4, <2>1, LastToldNow
  <2>3. r \in Nat
    BY <1>4, <2>1, StoreTypes DEF CoreInv
  <2>. QED
    BY <1>4, <2>1, <2>2, <2>3
<1>. QED
  BY <1>1, <1>3, <1>5, <1>6 DEF Informed, InformedBuffer

LEMMA QuietMeans ==
  ASSUME CoreInv, Reflects, Informed
  PROVE  CleanShowsHead /\ ConflictShown
<1>1. CleanShowsHead
  <2>1. SUFFICES ASSUME Quiet, buffer # Nothing, ~ buffer.dirty, buffer.conflict = NullRev
                 PROVE  /\ ~ Behind(buffer)
                        /\ buffer.base \in DOMAIN store[buffer.path]
                        /\ buffer.text = TextOf(buffer.path, buffer.base)
    BY DEF CleanShowsHead
  <2>2. buffer.base # NullRev /\ buffer.text = TextIn(store, buffer.path, buffer.base)
    BY <2>1 DEF Reflects
  <2>3. ~ Behind(buffer)
    BY <2>1, <2>2, QuietShell
  <2>4. /\ buffer \in Buffer /\ store[buffer.path] \in Seq([text: Text, by: {"shell", "others", "silent"}])
        /\ buffer.base <= Len(store[buffer.path])
    BY <2>1 DEF CoreInv, STypeOK, Buffer, Reflects, Head_
  <2>5. buffer.base \in DOMAIN store[buffer.path]
    BY <2>2, <2>4, ShellAssumption DEF Buffer, Rev, NullRev
  <2>. QED
    BY <2>2, <2>3, <2>5, TextsIn
<1>2. ConflictShown
  BY QuietShell DEF ConflictShown
<1>. QED
  BY <1>1, <1>2

LEMMA InformedAlways == Spec => [](CoreInv /\ Reflects /\ Informed)
<1>. DEFINE Inv == CoreInv /\ Reflects /\ Informed
<1>1. Init => Inv
  BY CoreInit, ReflectsInit, InformedInit
<1>2. Inv /\ [Next]_vars => Inv'
  <2>1. SUFFICES ASSUME Inv, [Next]_vars PROVE Inv'
    OBVIOUS
  <2>2. CoreInv'
    BY <2>1, CoreNext
  <2>3. Reflects' /\ Informed'
    BY <2>1, <2>2, ReflectsNext, InformedNext
  <2>. QED
    BY <2>2, <2>3
<1>. QED
  BY <1>1, <1>2, PTL DEF Spec

(* When everything has arrived, a buffer that is shown as saved, without   *)
(* a banner, is a revision of its document that only commits nobody        *)
(* announced came after.                                                   *)
THEOREM CleanShowsHeadHolds == Spec => []CleanShowsHead
<1>1. CoreInv /\ Reflects /\ Informed => CleanShowsHead
  BY QuietMeans
<1>. QED
  BY <1>1, InformedAlways, PTL

(* When everything has arrived, unsaved changes to an old revision carry   *)
(* the banner that says so, unless nobody announced what came after it.    *)
THEOREM ConflictShownHolds == Spec => []ConflictShown
<1>1. CoreInv /\ Reflects /\ Informed => ConflictShown
  BY QuietMeans
<1>. QED
  BY <1>1, InformedAlways, PTL

================================================================================
