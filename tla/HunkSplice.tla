------------------------------ MODULE HunkSplice ------------------------------
(***************************************************************************)
(* What a proposal's hunks do to a document: the check made when the       *)
(* proposal is created (proposal.rs, validate_hunks), what becomes of a    *)
(* reviewer's selection (vault.rs, accept_proposal) and the splice         *)
(* (apply_hunks), one action per iteration of its loop.                    *)
(*                                                                         *)
(* A base is the number of its lines, numbered from 0 like the code's.     *)
(* What comes out is a list of pieces, a line of the base or the text of a *)
(* hunk, each named by where it belongs; hunks are numbered from 1.  That  *)
(* the base is still the head is Proposals' part: nothing else can change  *)
(* a base, which is an object named by its hash.                           *)
(***************************************************************************)
EXTENDS Integers, Sequences

CONSTANTS
  MaxLines,  \* bound: lines of a base
  MaxHunks,  \* bound: hunks of a proposal, and indexes of a selection
  Largest    \* u64::MAX, the greatest number a hunk can give

ASSUME HunkAssumption ==
  MaxLines \in Nat /\ MaxHunks \in Nat /\ Largest \in Nat /\ Largest > MaxLines

VARIABLES
  pc,      \* "idle", "open", "splice", "done", or "panicked" at a slice index
  lines,   \* lines of the base
  hunks,   \* of the proposal
  sel,     \* sorted and deduplicated selection
  k,       \* next position of sel
  cursor,  \* first line of the base not yet dealt with
  out      \* what has been written

vars == <<pc, lines, hunks, sel, k, cursor, out>>

Lists(S, n) == UNION {[1..m -> S] : m \in 0..n}

Hunk == [start: 0..Largest, del: 0..Largest, ins: BOOLEAN]  \* ins: there is text

(* The lines of the base, and the text of hunk i before line at: a line    *)
(* comes after everything put before it.                                   *)
Base == MaxHunks + 1
Piece == (0..MaxLines) \X (1..Base)
Before(a, b) == a[1] < b[1] \/ (a[1] = b[1] /\ a[2] < b[2])

HTypeOK ==
  /\ pc \in {"idle", "open", "splice", "done", "panicked"}
  /\ lines \in 0..MaxLines
  /\ hunks \in Seq(Hunk) /\ Len(hunks) <= MaxHunks
  /\ sel \in Seq(1..Len(hunks))
  /\ k \in 1..(Len(sel) + 1)
  /\ cursor \in Nat
  /\ out \in Seq(Piece)

Init ==
  /\ pc = "idle" /\ lines = 0 /\ hunks = <<>> /\ sel = <<>>
  /\ k = 1 /\ cursor = 0 /\ out = <<>>

-------------------------------------------------------------------------------
(* validate_hunks.                                                         *)

(* Faulty variant: the addition wraps around. *)
End_Wraps(h) == (h.start + h.del) % (Largest + 1)

End(h) == IF h.start + h.del > Largest THEN Largest ELSE h.start + h.del

Follows(h, prev) == h.start >= End(prev)

Valid(hs, n) ==
  /\ hs # <<>>
  /\ \A i \in DOMAIN hs : End(hs[i]) <= n /\ (hs[i].del # 0 \/ hs[i].ins)
  /\ \A i \in DOMAIN hs \ {1} : Follows(hs[i], hs[i - 1])

(* create_proposal on a document of n lines.                               *)
Propose ==
  /\ pc = "idle"
  /\ \E n \in 0..MaxLines, hs \in Lists(Hunk, MaxHunks) :
       Valid(hs, n) /\ lines' = n /\ hunks' = hs
  /\ pc' = "open"
  /\ UNCHANGED <<sel, k, cursor, out>>

-------------------------------------------------------------------------------
(* accept_proposal: the selection.                                         *)

Increasing(s) == \A i, j \in DOMAIN s : i < j => s[i] < s[j]
Members(s) == {s[i] : i \in DOMAIN s}

(* sort_unstable, then dedup. *)
Arranged(s, asked) == Members(s) = Members(asked) /\ Increasing(s)

InRange(asked) == asked # <<>> /\ \A i \in DOMAIN asked : asked[i] <= Len(hunks)

Accept ==
  /\ pc = "open"
  /\ \E asked \in Lists(1..(MaxHunks + 1), MaxHunks) :
       /\ InRange(asked)
       /\ \E s \in Lists(Members(asked), Len(asked)) : Arranged(s, asked) /\ sel' = s
  /\ pc' = "splice"
  /\ UNCHANGED <<lines, hunks, k, cursor, out>>

-------------------------------------------------------------------------------
(* apply_hunks.                                                            *)

Lines(from, to) == [i \in 1..(to - from) |-> <<from + i - 1, Base>>]
Text(i) == IF hunks[i].ins THEN << <<hunks[i].start, i>> >> ELSE <<>>

(* The slice lines[from..to]: out of order or out of range, it panics.     *)
Sliceable(from, to) == from <= to /\ to <= lines

Panic == pc' = "panicked" /\ UNCHANGED <<lines, hunks, sel, k, cursor, out>>

(* Faulty variant: the lines of the last hunk are not stepped over. *)
Past_KeepsLines(h) == h.start

Past(h) == h.start + h.del

Splice ==
  /\ pc = "splice" /\ k <= Len(sel)
  /\ LET h == hunks[sel[k]]
     IN  IF Sliceable(cursor, h.start)
         THEN /\ out' = out \o Lines(cursor, h.start) \o Text(sel[k])
              /\ cursor' = Past(h)
              /\ k' = k + 1
              /\ UNCHANGED <<pc, lines, hunks, sel>>
         ELSE Panic

Finish ==
  /\ pc = "splice" /\ k > Len(sel)
  /\ IF Sliceable(cursor, lines)
     THEN /\ out' = out \o Lines(cursor, lines)
          /\ pc' = "done"
          /\ UNCHANGED <<lines, hunks, sel, k, cursor>>
     ELSE Panic

Next == Propose \/ Accept \/ Splice \/ Finish

Spec == Init /\ [][Next]_vars

-------------------------------------------------------------------------------
(* Properties.                                                             *)

(* A hunk list that was let in at creation never stops the writer in the   *)
(* middle of an acceptance, whatever the reviewer selects: every slice     *)
(* apply_hunks takes is in range and in order.                             *)
NeverPanics == pc # "panicked"

(* What an acceptance of these hunks should leave of a base, told hunk by  *)
(* hunk and line by line: the lines no selected hunk deletes and the texts *)
(* of the selected hunks.                                                  *)
Deletes(h, l) == h.start <= l /\ l < h.start + h.del
Merged(S) ==
  {<<l, Base>> : l \in {m \in 0..(lines - 1) : \A i \in S : ~Deletes(hunks[i], m)}}
  \cup {<<hunks[i].start, i>> : i \in {j \in S : hunks[j].ins}}

InPlace(s) == \A i, j \in DOMAIN s : i < j => Before(s[i], s[j])

(* The reviewer gets exactly what was selected, whatever the order or the  *)
(* repetitions of the selection: each piece once and in its place, texts   *)
(* at one line in the order of their hunks, and no line of a hunk that was *)
(* not selected touched.                                                   *)
SpliceCorrect ==
  pc = "done" =>
    /\ Members(out) = Merged(Members(sel))
    /\ InPlace(out)
================================================================================
