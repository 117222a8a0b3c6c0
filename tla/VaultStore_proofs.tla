-------------------------- MODULE VaultStore_proofs --------------------------
(***************************************************************************)
(* Proofs about VaultStore, for every set of paths and contents, every     *)
(* bound, every placement of the editor's writes and, where the statement  *)
(* does not say otherwise, every combination of faults.                    *)
(***************************************************************************)
EXTENDS VaultStore, Revisions_proofs

-------------------------------------------------------------------------------
(* Type correctness.                                                       *)

(* What the index says has the right types. *)
LEMMA IndexTypes ==
  ASSUME NEW log \in Seq(Record), NEW x
  PROVE  /\ HeadRev(log, x) \in RevId \cup {NoRev}
         /\ HeadObject(log, x) \in Contents \cup {None}
         /\ DocAt(log, x) \in RevId \cup {NoDoc}
         /\ x \in DocsOf(log) => log[HeadAt(log, x)] \in Record
<1>1. HeadAt(log, x) # 0 => log[HeadAt(log, x)] \in Record
  BY LogTypes
<1>2. HeadObject(log, x) \in Contents \cup {None}
  BY <1>1 DEF HeadObject, Record
<1>3. x \in DocsOf(log) => HeadAt(log, x) # 0
  <2>1. Len(log) \in Nat
    BY LenProperties
  <2>. QED
    BY <2>1, LogTypes
<1>. QED
  BY <1>1, <1>2, <1>3, LogTypes

(* The types, and two facts they rest on: a save that is admitted has a    *)
(* revision to spend, and only a recovery has intents to visit.            *)
TypeInv ==
  /\ TypeOK
  /\ pc = "guard" => nextRev <= MaxRevs
  /\ pc \notin {"recover", "drop"} => todo = {}

LEMMA TypeInit == Init => TypeInv
<1> SUFFICES ASSUME Init PROVE TypeInv
  OBVIOUS
<1>1. <<>> \in Seq(Record) /\ Len(<<>>) = 0
  BY EmptySeq
<1>2. 1 \in 1..(MaxRevs + 1) /\ 0 \in 0..MaxFaults /\ 0 \in 0..MaxEdits
  BY MaxRevsAssumption, StoreAssumption
<1>3. [p \in Paths |-> None] \in [Paths -> Contents \cup {None}]
  OBVIOUS
<1>4. journal = <<>> /\ index = <<>> /\ synced = 0
  BY DEF Init
<1>5. journal \in Seq(Record) /\ index \in Seq(Record) /\ synced \in 0..Len(journal)
  BY <1>1, <1>4
<1>. QED
  BY <1>2, <1>3, <1>5 DEF Init, TypeInv, TypeOK, Steps, CommitSteps

LEMMA TypeNext == TypeInv /\ [Next]_vars => TypeInv'
<1> SUFFICES ASSUME TypeInv, [Next]_vars PROVE TypeInv'
  OBVIOUS
<1> USE MaxRevsAssumption, StoreAssumption
<1>1. /\ journal \in Seq(Record) /\ Len(journal) \in Nat
      /\ index \in Seq(Record) /\ Len(index) \in Nat
  BY LenProperties DEF TypeInv, TypeOK
<1>2. \A x : /\ HeadRev(index, x) \in RevId \cup {NoRev}
             /\ HeadObject(index, x) \in Contents \cup {None}
             /\ DocAt(index, x) \in RevId \cup {NoDoc}
             /\ x \in DocsOf(index) => index[HeadAt(index, x)] \in Record
  BY <1>1, IndexTypes
<1>3. RevsOf(index) \subseteq RevId /\ DocsOf(index) \subseteq RevId
  BY <1>1, LogTypes
<1>4. ASSUME NEW r \in Record
      PROVE  /\ Append(journal, r) \in Seq(Record)
             /\ Len(Append(journal, r)) = Len(journal) + 1
             /\ Append(index, r) \in Seq(Record)
  BY <1>1, AppendIsLog
<1>5. ASSUME NEW p \in Paths, NEW base \in {NoRev} \cup RevsOf(index), NEW c \in Contents,
             SaveByPath(p, base, c)
      PROVE  TypeInv'
  <2>1. nextRev <= MaxRevs /\ nextRev \in RevId
    BY <1>5 DEF SaveByPath, Serve, TypeInv, TypeOK, RevId
  <2>2. Resolve(p) \in RevId
    BY <1>2, <2>1 DEF Resolve
  <2>3. op' \in Operation
    BY <1>3, <1>5, <2>2 DEF SaveByPath, Serve, Operation
  <2>4. op' # None
    BY <2>3
  <2>. QED
    BY <1>5, <2>1, <2>3, <2>4
    DEF SaveByPath, Serve, TypeInv, TypeOK, Steps, CommitSteps, disk, counters
<1>6. ASSUME NEW d \in DocsOf(index), NEW base \in {NoRev} \cup RevsOf(index), NEW c \in Contents,
             SaveById(d, base, c)
      PROVE  TypeInv'
  <2>1. index[HeadAt(index, d)].path \in Paths /\ d \in RevId
    BY <1>2, <1>3 DEF Record
  <2>2. op' \in Operation
    BY <1>3, <1>6, <2>1 DEF SaveById, Serve, Operation
  <2>3. op' # None
    BY <2>2
  <2>. QED
    BY <1>6, <2>2, <2>3
    DEF SaveById, Serve, TypeInv, TypeOK, Steps, CommitSteps, disk, counters
<1>7. CASE ScanBegin
  <2>1. \A q \in Paths : Changed(q) => visible[q] \in Contents
    BY DEF Changed, TypeInv, TypeOK
  <2>2. pending' \subseteq [path: Paths, content: Contents]
    BY <1>7, <2>1 DEF ScanBegin
  <2>. QED
    BY <1>7, <2>2 DEF ScanBegin, TypeInv, TypeOK, Steps, CommitSteps, disk, counters
<1>8. ASSUME NEW f \in pending, ScanSave(f)
      PROVE  TypeInv'
  <2>1. nextRev <= MaxRevs /\ nextRev \in RevId
    BY <1>8 DEF ScanSave, Serve, TypeInv, TypeOK, RevId
  <2>2. f \in [path: Paths, content: Contents]
    BY DEF TypeInv, TypeOK
  <2>3. Resolve(f.path) \in RevId
    BY <1>2, <2>1 DEF Resolve
  <2>4. HeadRev(index, DocAt(index, f.path)) \in RevId \cup {NoRev}
    BY <1>2
  <2>5. op' \in Operation
    BY <1>8, <2>2, <2>3, <2>4 DEF ScanSave, Serve, Operation
  <2>6. op' # None
    BY <2>5
  <2>. QED
    BY <1>8, <2>1, <2>5, <2>6
    DEF ScanSave, Serve, TypeInv, TypeOK, Steps, CommitSteps, disk, counters
<1>9. CASE ScanDone
  BY <1>9 DEF ScanDone, Goto, TypeInv, TypeOK, Steps, CommitSteps, disk, counters
<1>10. ASSUME NEW c \in Contents, op # None, nextRev <= MaxRevs, pc \in {"guard", "check"},
              StartCommit(c)
       PROVE  TypeInv'
  <2>1. op \in Operation /\ nextRev \in RevId
    BY <1>10 DEF TypeInv, TypeOK, RevId
  <2>2. HeadRev(index, op.doc) \in RevId \cup {NoRev}
    BY <1>2
  <2>3. cur' \in Record
    BY <1>10, <2>1, <2>2 DEF StartCommit, Record, Operation
  <2>4. cur' # None
    BY <2>3
  <2>. QED
    BY <1>10, <2>3, <2>4 DEF StartCommit, TypeInv, TypeOK, Steps, CommitSteps, disk, counters
<1>11. CASE ConvertExternal
  <2>1. op \in Operation /\ op # None /\ nextRev <= MaxRevs /\ pc = "guard"
    BY <1>11 DEF ConvertExternal, TypeInv, TypeOK
  <2>2. visible[op.path] \in Contents
    BY <1>11, <2>1 DEF ConvertExternal, EditedOutOfBand, Operation, TypeInv, TypeOK
  <2>. QED
    BY <1>10, <1>11, <2>1, <2>2 DEF ConvertExternal
<1>12. CASE PassGuard
  BY <1>12 DEF PassGuard, TypeInv, TypeOK, Steps, CommitSteps, disk, counters
<1>13. CASE RefuseStaleBase \/ RefuseLeaseHeld
  BY <1>13 DEF RefuseStaleBase, RefuseLeaseHeld, Reply, TypeInv, TypeOK, Steps, CommitSteps,
               disk, counters
<1>14. CASE BeginCommit
  <2>1. op.content \in Contents /\ op # None /\ nextRev <= MaxRevs /\ pc = "check"
    BY <1>14 DEF BeginCommit, Operation, TypeInv, TypeOK
  <2>. QED
    BY <1>10, <1>14, <2>1 DEF BeginCommit
<1>15. pc \in CommitSteps \cup {"drop"} => cur \in Record
  BY DEF TypeInv, TypeOK
<1>16. CASE PutObject
  <2>1. cur.object \in Contents
    BY <1>15, <1>16 DEF PutObject, CommitSteps, Record
  <2>. QED
    BY <1>16, <2>1 DEF PutObject, Goto, TypeInv, TypeOK, Steps, CommitSteps, disk, counters
<1>17. CASE SyncObject
  BY <1>17 DEF SyncObject, Goto, TypeInv, TypeOK, Steps, CommitSteps, disk, counters
<1>18. CASE RegisterIntent
  <2>1. cur \in Record
    BY <1>15, <1>18 DEF RegisterIntent, CommitSteps
  <2>. QED
    BY <1>18, <2>1 DEF RegisterIntent, Goto, TypeInv, TypeOK, Steps, CommitSteps, disk, counters
<1>19. ASSUME NEW p \in Paths, NEW c \in Contents \cup {None}, SetVisible(p, c)
       PROVE  visible' \in [Paths -> Contents \cup {None}] /\ touched' \subseteq Paths
  BY <1>19 DEF SetVisible, TypeInv, TypeOK
<1>20. CASE ReplaceVisible
  <2>1. cur.path \in Paths /\ cur.object \in Contents
    BY <1>15, <1>20 DEF ReplaceVisible, CommitSteps, Record
  <2>2. visible' \in [Paths -> Contents \cup {None}] /\ touched' \subseteq Paths
    BY <1>19, <1>20, <2>1 DEF ReplaceVisible
  <2>. QED
    BY <1>20, <2>2 DEF ReplaceVisible, Goto, TypeInv, TypeOK, Steps, CommitSteps, disk, counters
<1>21. ASSUME pc = "append", WriteLine
       PROVE  journal' \in Seq(Record) /\ Len(journal') \in Nat /\ synced \in 0..Len(journal')
  <2>1. cur \in Record /\ synced \in 0..Len(journal)
    BY <1>15, <1>21 DEF CommitSteps, TypeInv, TypeOK
  <2>2. /\ Append(journal, cur) \in Seq(Record)
        /\ Len(Append(journal, cur)) = Len(journal) + 1
    BY <1>4, <2>1
  <2>. QED
    BY <1>1, <1>21, <2>1, <2>2 DEF WriteLine
<1>22. CASE AppendRecord
  <2>1. cur \in Record /\ cur.rev \in RevId /\ pc = "append"
    BY <1>15, <1>22 DEF AppendRecord, CommitSteps, Record
  <2>2. journal' \in Seq(Record) /\ Len(journal') \in Nat
    BY <1>21, <1>22 DEF AppendRecord
  <2>3. synced' \in 0..Len(journal')
    BY <1>22, <2>2 DEF AppendRecord
  <2>. QED
    BY <1>22, <2>1, <2>2, <2>3
    DEF AppendRecord, Goto, TypeInv, TypeOK, Steps, CommitSteps, disk, counters
<1>23. ASSUME pc = "clear", FinishCommit
       PROVE  /\ index' \in Seq(Record)
              /\ pc' \in {"check", "scan", "idle"}
              /\ cur' = None
              /\ op' \in Operation \cup {None}
              /\ pc' = "check" => op' # None
              /\ pending' \subseteq pending
              /\ todo' = todo
  <2>1. cur \in Record
    BY <1>15, <1>23 DEF CommitSteps
  <2>2. index' \in Seq(Record)
    BY <1>4, <1>23, <2>1 DEF FinishCommit
  <2>3. op \in Operation \cup {None} /\ op # None
    BY <1>23 DEF TypeInv, TypeOK, CommitSteps
  <2>. QED
    BY <1>23, <2>2, <2>3 DEF FinishCommit, Reply
<1>24. CASE ClearIntent
  <2>1. cur \in Record /\ pc = "clear" /\ FinishCommit
    BY <1>15, <1>24 DEF ClearIntent, CommitSteps
  <2>. QED
    BY <1>23, <1>24, <2>1 DEF ClearIntent, TypeInv, TypeOK, Steps, CommitSteps, disk, counters
<1>25. CASE FailClear
  <2>1. pc = "clear" /\ FinishCommit
    BY <1>25 DEF FailClear
  <2>. QED
    BY <1>23, <1>25, <2>1
    DEF FailClear, Fault, TypeInv, TypeOK, Steps, CommitSteps, disk, counters
<1>26. ASSUME NEW k, Fault(k)
       PROVE  faults' \in 0..MaxFaults /\ UNCHANGED <<acked, nextRev, edits>>
  BY <1>26 DEF Fault, TypeInv, TypeOK
<1>27. CASE Kill
  <2>1. /\ faults' \in 0..MaxFaults /\ UNCHANGED <<acked, nextRev, edits>>
        /\ pc # "down" /\ Down
        /\ UNCHANGED <<synced, objects, loose, ghosts, visible, touched>>
    BY <1>26, <1>27 DEF Kill
  <2>2. /\ journal' \in Seq(Record) /\ synced' \in 0..Len(journal')
        /\ damaged' \in BOOLEAN /\ intents' \subseteq Record
    <3>1. CASE UNCHANGED <<journal, damaged, intents>>
      BY <2>1, <3>1 DEF TypeInv, TypeOK
    <3>2. CASE pc = "intent" /\ intents' = intents \cup {cur} /\ UNCHANGED <<journal, damaged>>
      BY <1>15, <2>1, <3>2 DEF CommitSteps, TypeInv, TypeOK
    <3>3. CASE pc = "append" /\ WriteLine /\ UNCHANGED <<damaged, intents>>
      BY <1>21, <2>1, <3>3 DEF TypeInv, TypeOK
    <3>4. CASE pc = "append" /\ damaged' = TRUE /\ UNCHANGED <<journal, intents>>
      BY <2>1, <3>4 DEF TypeInv, TypeOK
    <3>. QED
      BY <1>27, <3>1, <3>2, <3>3, <3>4 DEF Kill
  <2>. QED
    BY <2>1, <2>2, EmptySeq DEF Down, TypeInv, TypeOK, Steps, CommitSteps
<1>28. CASE PowerLoss
  <2>1. /\ faults' \in 0..MaxFaults /\ UNCHANGED <<acked, nextRev, edits>> /\ Down
        /\ loose' = {} /\ ghosts' = {} /\ UNCHANGED <<visible, touched>>
    BY <1>26, <1>28 DEF PowerLoss
  <2>2. PICK log \in {journal} \cup IF pc = "append" /\ ~damaged THEN {Append(journal, cur)} ELSE {} :
          \E n \in synced..Len(log) :
            /\ journal' = SubSeq(log, 1, n)
            /\ synced' = n
            /\ damaged' \in {damaged, pc = "append" \/ n < Len(log)}
    BY <1>28 DEF PowerLoss
  <2>3. log \in Seq(Record) /\ Len(log) \in Nat
    BY <1>1, <1>4, <1>15, <2>2 DEF CommitSteps
  <2>4. PICK n \in synced..Len(log) :
          /\ journal' = SubSeq(log, 1, n)
          /\ synced' = n
          /\ damaged' \in {damaged, pc = "append" \/ n < Len(log)}
    BY <2>2
  <2>5. synced \in Nat /\ n \in 0..Len(log)
    BY <1>1, <2>3, <2>4 DEF TypeInv, TypeOK
  <2>6. journal' \in Seq(Record) /\ synced' \in 0..Len(journal')
    BY <2>3, <2>4, <2>5, PrefixIsLog
  <2>7. damaged' \in BOOLEAN
    BY <2>4 DEF TypeInv, TypeOK
  <2>8. objects' \subseteq Contents
    BY <1>28 DEF PowerLoss, TypeInv, TypeOK
  <2>9. intents' \subseteq Record
    BY <1>15, <1>28 DEF PowerLoss, TypeInv, TypeOK, CommitSteps
  <2>. QED
    BY <2>1, <2>6, <2>7, <2>8, <2>9, EmptySeq DEF Down, TypeInv, TypeOK, Steps, CommitSteps
<1>29. CASE FailIo
  <2>1. /\ faults' \in 0..MaxFaults /\ UNCHANGED <<acked, nextRev, edits>>
        /\ pc \in CommitSteps \ {"clear"} /\ Reply(FALSE)
        /\ UNCHANGED <<synced, objects, loose, ghosts, index>>
    BY <1>26, <1>29 DEF FailIo
  <2>2. cur \in Record /\ cur.path \in Paths /\ cur.object \in Contents
    BY <1>15, <2>1 DEF Record
  <2>3. /\ journal' \in Seq(Record) /\ synced' \in 0..Len(journal')
        /\ damaged' \in BOOLEAN /\ intents' \subseteq Record /\ intents \subseteq intents'
        /\ visible' \in [Paths -> Contents \cup {None}] /\ touched' \subseteq Paths
    <3>1. CASE UNCHANGED <<journal, damaged, intents, visible, touched>>
      BY <2>1, <3>1 DEF TypeInv, TypeOK
    <3>2. CASE /\ pc = "intent" /\ intents' = intents \cup {cur}
               /\ UNCHANGED <<journal, damaged, visible, touched>>
      BY <2>1, <2>2, <3>2 DEF TypeInv, TypeOK
    <3>3. CASE /\ pc = "replace" /\ SetVisible(cur.path, cur.object)
               /\ UNCHANGED <<journal, damaged, intents>>
      BY <1>19, <2>1, <2>2, <3>3 DEF TypeInv, TypeOK
    <3>4. CASE pc = "append" /\ WriteLine /\ UNCHANGED <<damaged, intents, visible, touched>>
      BY <1>21, <2>1, <3>4 DEF TypeInv, TypeOK
    <3>5. CASE pc = "append" /\ damaged' = TRUE /\ UNCHANGED <<journal, intents, visible, touched>>
      BY <2>1, <3>5 DEF TypeInv, TypeOK
    <3>. QED
      BY <1>29, <3>1, <3>2, <3>3, <3>4, <3>5 DEF FailIo
  <2>. QED
    BY <2>1, <2>3 DEF Reply, TypeInv, TypeOK, Steps, CommitSteps
<1>30. CASE Open
  <2>1. synced' \in 0..Len(journal')
    BY <1>1, <1>30 DEF Open, TypeInv, TypeOK
  <2>. QED
    BY <1>30, <2>1 DEF Open, TypeInv, TypeOK, Steps, CommitSteps, counters
<1>31. ASSUME NEW i \in todo, Reconcile(i)
       PROVE  TypeInv'
  <2>1. i \in Record /\ i.path \in Paths
    BY DEF TypeInv, TypeOK, Record
  <2>2. visible[i.path] \in Contents \cup {None}
    BY <2>1 DEF TypeInv, TypeOK
  <2>3. Repaired(i) \in Contents \cup {None}
    BY <1>2, <2>2 DEF Repaired, ParentObject
  <2>4. visible' \in [Paths -> Contents \cup {None}] /\ touched' \subseteq Paths
    BY <1>19, <1>31, <2>1, <2>3 DEF Reconcile
  <2>5. cur' \in Record /\ cur' # None
    BY <1>31, <2>1 DEF Reconcile
  <2>. QED
    BY <1>31, <2>4, <2>5 DEF Reconcile, TypeInv, TypeOK, Steps, CommitSteps, disk, counters
<1>32. CASE DropIntent
  <2>1. cur \in Record
    BY <1>15, <1>32 DEF DropIntent
  <2>. QED
    BY <1>32, <2>1 DEF DropIntent, TypeInv, TypeOK, Steps, CommitSteps, counters
<1>33. CASE Ready
  BY <1>33 DEF Ready, Goto, TypeInv, TypeOK, Steps, CommitSteps, disk, counters
<1>34. CASE OpenFails
  <2>1. /\ faults' \in 0..MaxFaults /\ UNCHANGED <<acked, nextRev, edits>>
        /\ Down /\ UNCHANGED <<disk, visible, touched>>
    BY <1>26, <1>34 DEF OpenFails, counters, TypeInv, TypeOK
  <2>. QED
    BY <2>1, EmptySeq DEF Down, TypeInv, TypeOK, Steps, CommitSteps, disk
<1>35. ASSUME NEW p \in Paths, NEW c \in Contents \cup {None}, Edit(p, c)
       PROVE  TypeInv'
  <2>1. visible' \in [Paths -> Contents \cup {None}] /\ touched' \subseteq Paths
    BY <1>35 DEF Edit, TypeInv, TypeOK
  <2>2. edits' \in 0..MaxEdits
    BY <1>35 DEF Edit, TypeInv, TypeOK
  <2>. QED
    BY <1>35, <2>1, <2>2 DEF Edit, TypeInv, TypeOK, disk, process
<1>36. CASE UNCHANGED vars
  BY <1>36 DEF vars, disk, process, counters, TypeInv, TypeOK
<1>37. CASE Wait \/ OpenCorrupt
  BY <1>36, <1>37 DEF Wait, OpenCorrupt
<1>38. CASE Request
  BY <1>5, <1>6, <1>7, <1>38 DEF Request
<1>39. CASE Save
  BY <1>11, <1>12, <1>13, <1>14, <1>16, <1>17, <1>18, <1>20, <1>22, <1>24, <1>39 DEF Save, Commit
<1>40. CASE Scan \/ Recover
  BY <1>8, <1>9, <1>30, <1>31, <1>32, <1>33, <1>34, <1>40 DEF Scan, Recover
<1>. QED
  BY <1>25, <1>27, <1>28, <1>29, <1>35, <1>36, <1>37, <1>38, <1>39, <1>40 DEF Next

(* Every variable keeps its type in every behaviour of the store. *)
THEOREM TypeCorrect == Spec => []TypeOK
<1>1. TypeInv => TypeOK
  BY DEF TypeInv
<1>. QED
  BY <1>1, TypeInit, TypeNext, PTL DEF Spec

-------------------------------------------------------------------------------
(* Durability and history.                                                 *)

(* The steps that change the journal, and what they do to it. *)
LEMMA JournalSteps ==
  ASSUME TypeInv, [Next]_vars
  PROVE  \/ UNCHANGED <<journal, synced>>
         \/ AppendRecord \/ Kill \/ PowerLoss \/ FailIo \/ Open
<1>1. CASE Request
  BY <1>1 DEF Request, SaveByPath, SaveById, ScanBegin, Serve, disk
<1>2. CASE Save
  BY <1>2 DEF Save, ConvertExternal, PassGuard, RefuseStaleBase, RefuseLeaseHeld, BeginCommit,
              StartCommit, Commit, PutObject, SyncObject, RegisterIntent, ReplaceVisible,
              ClearIntent, disk
<1>3. CASE Scan
  BY <1>3 DEF Scan, ScanSave, ScanDone, Serve, disk
<1>4. CASE Recover
  BY <1>4 DEF Recover, DropIntent, Ready, OpenFails, Reconcile, disk
<1>5. CASE FailClear \/ OpenCorrupt \/ Wait \/ UNCHANGED vars
  BY <1>5 DEF FailClear, OpenCorrupt, Wait, vars, disk
<1>6. CASE \E p \in Paths, c \in Contents \cup {None} : Edit(p, c)
  BY <1>6 DEF Edit, disk
<1>. QED
  BY <1>1, <1>2, <1>3, <1>4, <1>5, <1>6 DEF Next

LEMMA DurablePrefixStep ==
  ASSUME TypeInv, [Next]_vars
  PROVE  synced <= synced' /\ SubSeq(journal', 1, synced) = SubSeq(journal, 1, synced)
<1>1. journal \in Seq(Record) /\ Len(journal) \in Nat /\ synced \in 0..Len(journal)
  BY LenProperties DEF TypeInv, TypeOK
<1>2. pc = "append" => cur \in Record
  BY DEF TypeInv, TypeOK, CommitSteps
<1>3. ASSUME pc = "append"
      PROVE  /\ Append(journal, cur) \in Seq(Record)
             /\ Len(Append(journal, cur)) = Len(journal) + 1
             /\ SubSeq(Append(journal, cur), 1, synced) = SubSeq(journal, 1, synced)
  BY <1>1, <1>2, <1>3, AppendIsLog
<1>4. CASE UNCHANGED <<journal, synced>>
  BY <1>1, <1>4
<1>5. CASE AppendRecord
  BY <1>1, <1>3, <1>5 DEF AppendRecord, WriteLine
<1>6. CASE Kill
  BY <1>1, <1>3, <1>6 DEF Kill, WriteLine
<1>7. CASE FailIo
  BY <1>1, <1>3, <1>7 DEF FailIo, WriteLine
<1>8. CASE PowerLoss
  <2>1. PICK log \in {journal} \cup IF pc = "append" /\ ~damaged THEN {Append(journal, cur)} ELSE {} :
          \E n \in synced..Len(log) : journal' = SubSeq(log, 1, n) /\ synced' = n
    BY <1>8 DEF PowerLoss
  <2>2. PICK n \in synced..Len(log) : journal' = SubSeq(log, 1, n) /\ synced' = n
    BY <2>1
  <2>3. /\ log \in Seq(Record) /\ Len(log) \in Nat
        /\ SubSeq(log, 1, synced) = SubSeq(journal, 1, synced)
    <3>1. CASE log = journal
      BY <1>1, <3>1
    <3>2. CASE pc = "append" /\ log = Append(journal, cur)
      <4>1. Len(journal) + 1 \in Nat
        BY <1>1
      <4>. QED
        BY <1>3, <3>2, <4>1
    <3>. QED
      BY <2>1, <3>1, <3>2
  <2>4. n \in 0..Len(log) /\ synced \in 0..n
    BY <1>1, <2>2, <2>3
  <2>5. SubSeq(journal', 1, synced) = SubSeq(log, 1, synced)
    BY <2>2, <2>3, <2>4, PrefixOfPrefix
  <2>. QED
    BY <2>2, <2>3, <2>4, <2>5
<1>9. CASE Open
  BY <1>1, <1>9 DEF Open
<1>. QED
  BY <1>4, <1>5, <1>6, <1>7, <1>8, <1>9, JournalSteps

(* Records that were fsynced stay at their place whatever fails: no        *)
(* append, torn line, tail repair, power loss or I/O error touches them.   *)
THEOREM DurablePrefixHolds == Spec => DurablePrefix
<1>1. TypeInv /\ [Next]_vars
        => [synced <= synced' /\ SubSeq(journal', 1, synced) = SubSeq(journal, 1, synced)]_vars
  BY DurablePrefixStep
<1>. QED
  BY <1>1, TypeInit, TypeNext, PTL DEF Spec, DurablePrefix

(* Where no system call fails: a torn line is only ever there while the    *)
(* process is down, the index of an open vault is the journal, and a       *)
(* record on its way to the journal names the head of its document and a   *)
(* revision of its own.                                                    *)
HistoryInv ==
  /\ damaged => pc = "down"
  /\ acked \subseteq RevsOf(SubSeq(journal, 1, synced))
  /\ Chained(journal)
  /\ RevsOf(journal) \subseteq 1..(nextRev - 1)
  /\ pc \notin {"down", "clear"} => index = journal
  /\ pc = "clear" => journal = Append(index, cur)
  /\ pc \in CommitSteps \ {"clear"} =>
       /\ cur.parent = HeadRev(index, cur.doc)
       /\ cur.rev \in 1..(nextRev - 1)
       /\ cur.rev \notin RevsOf(journal)

LEMMA HistoryInit == Init => HistoryInv
<1> SUFFICES ASSUME Init PROVE HistoryInv
  OBVIOUS
<1>1. journal = <<>> /\ index = <<>> /\ DOMAIN journal = {} /\ pc = "idle" /\ acked = {} /\ ~damaged
  BY DEF Init
<1>2. Chained(journal) /\ RevsOf(journal) = {}
  BY <1>1 DEF Chained, RevsOf
<1>. QED
  BY <1>1, <1>2 DEF HistoryInv, CommitSteps

LEMMA HistoryNext ==
  ASSUME "io" \notin Faults, TypeInv, HistoryInv, [Next]_vars
  PROVE  HistoryInv'
<1>1. /\ journal \in Seq(Record) /\ Len(journal) \in Nat /\ synced \in 0..Len(journal)
      /\ nextRev \in Nat
  BY MaxRevsAssumption, LenProperties DEF TypeInv, TypeOK
<1>2. pc \in CommitSteps => cur \in Record /\ cur.rev \in RevId
  BY DEF TypeInv, TypeOK, CommitSteps, Record
<1>3. ASSUME pc = "append"
      PROVE  /\ Chained(Append(journal, cur))
             /\ RevsOf(Append(journal, cur)) = RevsOf(journal) \cup {cur.rev}
             /\ RevsOf(Append(journal, cur)) \subseteq 1..(nextRev - 1)
             /\ ~damaged
             /\ journal = index
  <2>1. /\ cur \in Record /\ journal = index /\ ~damaged
        /\ cur.parent = HeadRev(journal, cur.doc)
        /\ cur.rev \in 1..(nextRev - 1)
    BY <1>2, <1>3 DEF HistoryInv, CommitSteps
  <2>. QED
    BY <1>1, <2>1, AppendChained, AppendRevs DEF HistoryInv
(* What was acknowledged stays durable in every step that acknowledges nothing. *)
<1>4. acked \subseteq RevsOf(SubSeq(journal', 1, synced'))
  <2>1. journal' \in Seq(Record) /\ synced' \in 0..Len(journal') /\ Len(journal') \in Nat
    BY TypeNext, LenProperties DEF TypeInv, TypeOK
  <2>2. synced \in 0..synced' /\ SubSeq(journal', 1, synced) = SubSeq(journal, 1, synced)
    BY <1>1, <2>1, DurablePrefixStep
  <2>3. SubSeq(SubSeq(journal', 1, synced'), 1, synced) = SubSeq(journal', 1, synced)
    BY <2>1, <2>2, PrefixOfPrefix
  <2>4. /\ SubSeq(journal', 1, synced') \in Seq(Record)
        /\ Len(SubSeq(journal', 1, synced')) = synced'
    BY <2>1, PrefixIsLog
  <2>5. RevsOf(SubSeq(SubSeq(journal', 1, synced'), 1, synced))
          \subseteq RevsOf(SubSeq(journal', 1, synced'))
    BY <2>2, <2>4, PrefixRevs
  <2>. QED
    BY <2>2, <2>3, <2>5 DEF HistoryInv
<1>5. ASSUME UNCHANGED <<journal, damaged, acked>>, nextRev' \in {nextRev, nextRev + 1},
             damaged => pc' = "down"
      PROVE  /\ damaged' => pc' = "down"
             /\ acked' \subseteq RevsOf(SubSeq(journal', 1, synced'))
             /\ Chained(journal')
             /\ RevsOf(journal') \subseteq 1..(nextRev' - 1)
  BY <1>1, <1>4, <1>5 DEF HistoryInv
(* The steps between commits. *)
<1>6. ASSUME pc \notin {"down", "clear"}, pc' \notin {"down"} \cup CommitSteps,
             UNCHANGED <<journal, damaged, acked, index, nextRev>>
      PROVE  HistoryInv'
  BY <1>5, <1>6 DEF HistoryInv, CommitSteps
<1>7. CASE Request
  BY <1>6, <1>7 DEF Request, SaveByPath, SaveById, ScanBegin, Serve, disk, CommitSteps
<1>8. CASE Scan
  BY <1>6, <1>8 DEF Scan, ScanSave, ScanDone, Serve, Goto, disk, CommitSteps
<1>9. CASE PassGuard \/ RefuseStaleBase \/ RefuseLeaseHeld
  BY <1>6, <1>9
  DEF PassGuard, RefuseStaleBase, RefuseLeaseHeld, Reply, disk, CommitSteps
<1>10. ASSUME NEW i \in todo, Reconcile(i)
       PROVE  HistoryInv'
  BY <1>6, <1>10 DEF Reconcile, disk, CommitSteps
<1>11. CASE DropIntent \/ Ready
  BY <1>6, <1>11 DEF DropIntent, Ready, Goto, disk, CommitSteps
(* A commit. *)
<1>12. ASSUME NEW c, pc \in {"guard", "check"}, StartCommit(c)
       PROVE  HistoryInv'
  <2>1. /\ UNCHANGED <<journal, damaged, acked, index>> /\ pc' = "put" /\ nextRev' = nextRev + 1
        /\ cur'.rev = nextRev /\ cur'.doc = op.doc /\ cur'.parent = HeadRev(index, op.doc)
        /\ index = journal /\ ~damaged
    BY <1>12 DEF StartCommit, disk, HistoryInv
  <2>2. nextRev \in 1..(nextRev' - 1) /\ nextRev \notin RevsOf(journal)
    BY <1>1, <2>1, MaxRevsAssumption DEF HistoryInv, TypeInv, TypeOK
  <2>. QED
    BY <1>5, <2>1, <2>2 DEF HistoryInv, CommitSteps
<1>13. CASE ConvertExternal \/ BeginCommit
  BY <1>12, <1>13 DEF ConvertExternal, BeginCommit
<1>14. CASE PutObject \/ SyncObject \/ RegisterIntent \/ ReplaceVisible
  <2>1. /\ UNCHANGED <<journal, damaged, acked, index, cur, nextRev>>
        /\ pc \in CommitSteps \ {"clear"} /\ pc' \in CommitSteps \ {"clear"}
    BY <1>14 DEF PutObject, SyncObject, RegisterIntent, ReplaceVisible, Goto, disk, CommitSteps
  <2>2. index = journal /\ ~damaged
    BY <2>1 DEF HistoryInv, CommitSteps
  <2>. QED
    BY <1>5, <2>1, <2>2 DEF HistoryInv, CommitSteps
<1>15. CASE AppendRecord
  <2>1. /\ pc = "append" /\ pc' = "clear" /\ synced' = Len(journal')
        /\ UNCHANGED <<damaged, index, cur, nextRev>>
        /\ acked' = acked \cup {cur.rev} /\ journal' = Append(journal, cur)
    BY <1>3, <1>15 DEF AppendRecord, WriteLine, Goto
  <2>2. cur \in Record /\ journal' \in Seq(Record)
    BY <1>1, <1>2, <2>1, AppendIsLog DEF CommitSteps
  <2>3. SubSeq(journal', 1, synced') = journal'
    <3>1. Len(journal') \in Nat
      BY <2>2, LenProperties
    <3>2. Len(journal') \in 0..Len(journal')
      BY <3>1
    <3>. QED
      BY <2>1, <2>2, <3>1, <3>2, PrefixOfPrefix
  <2>4. acked' \subseteq RevsOf(SubSeq(journal', 1, synced'))
    BY <1>3, <1>4, <2>1, <2>3
  <2>. QED
    BY <1>3, <2>1, <2>4 DEF HistoryInv, CommitSteps
<1>16. CASE ClearIntent
  <2>1. /\ pc = "clear" /\ UNCHANGED <<journal, damaged, acked, nextRev>>
        /\ index' = Append(index, cur) /\ pc' \in {"check", "scan", "idle"}
    BY <1>16 DEF ClearIntent, FinishCommit, Reply
  <2>2. index' = journal' /\ ~damaged
    BY <2>1 DEF HistoryInv
  <2>. QED
    BY <1>5, <2>1, <2>2 DEF HistoryInv, CommitSteps
(* Crashes and the reopening. *)
<1>17. ASSUME pc' = "down", acked' = acked, nextRev' = nextRev,
              Chained(journal'), RevsOf(journal') \subseteq 1..(nextRev - 1)
       PROVE  HistoryInv'
  BY <1>4, <1>17 DEF HistoryInv, CommitSteps
<1>18. CASE Kill
  <2>1. pc' = "down" /\ acked' = acked /\ nextRev' = nextRev
    BY <1>18 DEF Kill, Down, Fault
  <2>2. journal' = journal \/ (pc = "append" /\ journal' = Append(journal, cur))
    BY <1>18 DEF Kill, WriteLine
  <2>. QED
    BY <1>3, <1>17, <2>1, <2>2 DEF HistoryInv
<1>19. CASE PowerLoss
  <2>1. pc' = "down" /\ acked' = acked /\ nextRev' = nextRev
    BY <1>19 DEF PowerLoss, Down, Fault
  <2>2. PICK log \in {journal} \cup IF pc = "append" /\ ~damaged THEN {Append(journal, cur)} ELSE {} :
          \E n \in synced..Len(log) : journal' = SubSeq(log, 1, n) /\ synced' = n
    BY <1>19 DEF PowerLoss
  <2>3. PICK n \in synced..Len(log) : journal' = SubSeq(log, 1, n) /\ synced' = n
    BY <2>2
  <2>4. log = journal \/ (pc = "append" /\ log = Append(journal, cur))
    BY <2>2
  <2>5. Chained(log) /\ RevsOf(log) \subseteq 1..(nextRev - 1)
    BY <1>3, <2>4 DEF HistoryInv
  <2>6. log \in Seq(Record) /\ Len(log) \in Nat
    BY <1>1, <1>2, <2>4, AppendIsLog, LenProperties DEF CommitSteps
  <2>7. n \in 0..Len(log)
    BY <1>1, <2>6
  <2>8. Chained(journal') /\ RevsOf(journal') \subseteq RevsOf(log)
    BY <2>3, <2>5, <2>6, <2>7, PrefixChained, PrefixRevs
  <2>. QED
    BY <1>17, <2>1, <2>5, <2>8
<1>20. CASE OpenFails
  <2>1. pc' = "down" /\ UNCHANGED <<journal, acked, nextRev>>
    BY <1>20 DEF OpenFails, Down, disk, Fault
  <2>. QED
    BY <1>17, <2>1 DEF HistoryInv
<1>21. CASE FailIo \/ FailClear
  BY <1>21 DEF FailIo, FailClear, Fault
<1>22. CASE Open
  BY <1>4, <1>22 DEF Open, HistoryInv, CommitSteps
<1>23. CASE Wait \/ OpenCorrupt \/ UNCHANGED vars
  BY <1>23 DEF Wait, OpenCorrupt, vars, disk, process, HistoryInv
<1>24. ASSUME NEW p \in Paths, NEW c \in Contents \cup {None}, Edit(p, c)
       PROVE  HistoryInv'
  BY <1>24 DEF Edit, disk, process, HistoryInv
<1>25. CASE Save \/ Recover
  BY <1>9, <1>10, <1>11, <1>13, <1>14, <1>15, <1>16, <1>20, <1>22, <1>25
  DEF Save, Commit, Recover
<1>. QED
  BY <1>7, <1>8, <1>18, <1>19, <1>21, <1>23, <1>24, <1>25 DEF Next

(* As long as no system call of a commit fails, the journal that a crash   *)
(* leaves behind can always be opened again: every document is one chain.  *)
THEOREM LinearHistoryHolds ==
  ASSUME "io" \notin Faults
  PROVE  Spec => []LinearHistory
<1>1. TypeInv /\ HistoryInv /\ [Next]_vars => HistoryInv'
  BY HistoryNext
<1>2. HistoryInv => LinearHistory
  BY DEF HistoryInv, LinearHistory
<1>. QED
  BY <1>1, <1>2, TypeInit, TypeNext, HistoryInit, PTL DEF Spec

(* As long as no system call of a commit fails, no kill and no power loss  *)
(* takes an acknowledged revision back.                                    *)
THEOREM AckedDurableHolds ==
  ASSUME "io" \notin Faults
  PROVE  Spec => []AckedDurable
<1>1. TypeInv /\ HistoryInv /\ [Next]_vars => HistoryInv'
  BY HistoryNext
<1>2. HistoryInv => AckedDurable
  BY DEF HistoryInv, AckedDurable
<1>. QED
  BY <1>1, <1>2, TypeInit, TypeNext, HistoryInit, PTL DEF Spec

-------------------------------------------------------------------------------
(* Refinement.                                                             *)

(* Only these steps change what the history shows. *)
LEMMA HistorySteps ==
  ASSUME TypeInv, [Next]_vars
  PROVE  UNCHANGED <<journal, acked>> \/ AppendRecord \/ Kill \/ PowerLoss \/ FailIo
<1>1. CASE Request
  BY <1>1 DEF Request, SaveByPath, SaveById, ScanBegin, Serve, disk
<1>2. CASE Save
  BY <1>2 DEF Save, ConvertExternal, PassGuard, RefuseStaleBase, RefuseLeaseHeld, BeginCommit,
              StartCommit, Commit, PutObject, SyncObject, RegisterIntent, ReplaceVisible,
              ClearIntent, disk
<1>3. CASE Scan
  BY <1>3 DEF Scan, ScanSave, ScanDone, Serve, disk
<1>4. CASE Recover
  BY <1>4 DEF Recover, Open, DropIntent, Ready, OpenFails, Reconcile, Fault, disk
<1>5. CASE FailClear \/ OpenCorrupt \/ Wait \/ UNCHANGED vars
  BY <1>5 DEF FailClear, Fault, OpenCorrupt, Wait, vars, disk
<1>6. CASE \E p \in Paths, c \in Contents \cup {None} : Edit(p, c)
  BY <1>6 DEF Edit, disk
<1>. QED
  BY <1>1, <1>2, <1>3, <1>4, <1>5, <1>6 DEF Next

LEMMA RefinementStep ==
  ASSUME "io" \notin Faults, TypeInv, HistoryInv, [Next]_vars
  PROVE  [History!HNext]_(History!hvars)
(* VaultHistory reads a log the way VaultStore does. *)
<1>0. /\ History!Record = Record
      /\ \A log : History!RevsOf(log) = RevsOf(log)
      /\ \A log, d : History!HeadRev(log, d) = HeadRev(log, d)
  BY DEF History!Record, Record, History!RevId, RevId, History!NoRev, NoRev,
         History!RevsOf, RevsOf, History!HeadRev, HeadRev, History!HeadAt, HeadAt,
         History!Last, Last
<1>1. journal \in Seq(Record) /\ Len(journal) \in Nat /\ synced \in 0..Len(journal)
  BY LenProperties DEF TypeInv, TypeOK
<1>2. ASSUME pc = "append", journal' = Append(journal, cur),
             acked' \in {acked, acked \cup {cur.rev}}
      PROVE  History!HNext
  <2>1. /\ cur \in Record
        /\ cur.rev \notin RevsOf(journal)
        /\ cur.parent = HeadRev(journal, cur.doc)
    BY <1>2 DEF TypeInv, TypeOK, HistoryInv, CommitSteps
  <2>2. History!Commit(cur)
    BY <1>0, <1>2, <2>1 DEF History!Commit
  <2>. QED
    BY <1>0, <2>1, <2>2 DEF History!HNext
<1>3. CASE UNCHANGED <<journal, acked>>
  BY <1>3 DEF History!hvars
<1>4. CASE AppendRecord
  <2>1. pc = "append" /\ ~damaged
    BY <1>4 DEF AppendRecord, HistoryInv
  <2>. QED
    BY <1>2, <1>4, <2>1 DEF AppendRecord, WriteLine
<1>5. CASE Kill
  <2>1. acked' = acked
    BY <1>5 DEF Kill, Fault
  <2>2. journal' = journal \/ (pc = "append" /\ journal' = Append(journal, cur))
    BY <1>5 DEF Kill, WriteLine
  <2>. QED
    BY <1>2, <1>3, <2>1, <2>2
<1>6. CASE FailIo
  BY <1>6 DEF FailIo, Fault
<1>7. CASE PowerLoss
  <2>1. acked' = acked
    BY <1>7 DEF PowerLoss, Fault
  <2>2. PICK log \in {journal} \cup IF pc = "append" /\ ~damaged THEN {Append(journal, cur)} ELSE {} :
          \E n \in synced..Len(log) : journal' = SubSeq(log, 1, n) /\ synced' = n
    BY <1>7 DEF PowerLoss
  <2>3. PICK n \in synced..Len(log) : journal' = SubSeq(log, 1, n)
    BY <2>2
  <2>4. log = journal \/ (pc = "append" /\ log = Append(journal, cur))
    BY <2>2
  <2>5. pc = "append" => /\ Append(journal, cur) \in Seq(Record)
                         /\ Len(Append(journal, cur)) = Len(journal) + 1
                         /\ \A m \in 0..Len(journal) :
                              SubSeq(Append(journal, cur), 1, m) = SubSeq(journal, 1, m)
    BY <1>1, AppendIsLog DEF TypeInv, TypeOK, CommitSteps
  <2>6. CASE n \in 0..Len(journal)
    <3>1. journal' = SubSeq(journal, 1, n)
      BY <2>3, <2>4, <2>5, <2>6
    <3>2. SubSeq(SubSeq(journal, 1, n), 1, synced) = SubSeq(journal, 1, synced)
      <4>1. synced \in 0..n
        BY <1>1, <2>3, <2>6
      <4>. QED
        BY <1>1, <2>6, <4>1, PrefixOfPrefix
    <3>3. acked \subseteq RevsOf(SubSeq(journal, 1, n))
      <4>1. SubSeq(journal, 1, n) \in Seq(Record) /\ Len(SubSeq(journal, 1, n)) = n
        BY <1>1, <2>6, PrefixIsLog
      <4>2. synced \in 0..n
        BY <1>1, <2>3, <2>6
      <4>3. RevsOf(SubSeq(journal, 1, synced)) \subseteq RevsOf(SubSeq(journal, 1, n))
        BY <3>2, <4>1, <4>2, PrefixRevs
      <4>. QED
        BY <4>3 DEF HistoryInv
    <3>4. History!Lose(n)
      BY <1>0, <2>1, <3>1, <3>3 DEF History!Lose
    <3>. QED
      BY <2>6, <3>4 DEF History!HNext
  <2>7. CASE n \notin 0..Len(journal)
    <3>1. pc = "append" /\ log = Append(journal, cur) /\ n = Len(log)
      BY <1>1, <2>3, <2>4, <2>5, <2>7
    <3>2. journal' = Append(journal, cur)
      <4>1. n \in 0..Len(log)
        BY <1>1, <2>5, <3>1
      <4>2. SubSeq(log, 1, Len(log)) = log
        BY <2>5, <3>1, <4>1, PrefixOfPrefix
      <4>. QED
        BY <2>3, <3>1, <4>2
    <3>. QED
      BY <1>2, <2>1, <3>1, <3>2
  <2>. QED
    BY <2>6, <2>7
<1>. QED
  BY <1>3, <1>4, <1>5, <1>6, <1>7, HistorySteps

(* As long as no system call of a commit fails, the vault implements       *)
(* VaultHistory: each commit is one atomic step on top of the head of its  *)
(* document, and a crash drops nothing but unacknowledged commits.         *)
THEOREM ImplementsHistory ==
  ASSUME "io" \notin Faults
  PROVE  Spec => Implements
<1>1. TypeInv /\ HistoryInv /\ [Next]_vars => HistoryInv'
  BY HistoryNext
<1>2. TypeInv /\ HistoryInv /\ [Next]_vars => [History!HNext]_(History!hvars)
  BY RefinementStep
<1>3. Init => History!HInit
  BY DEF Init, History!HInit
<1>. QED
  BY <1>1, <1>2, <1>3, TypeInit, TypeNext, HistoryInit, PTL DEF Spec, Implements, History!HSpec

-------------------------------------------------------------------------------
(* Power losses alone.                                                     *)

(* Where the process is never killed and no call fails, no record waits    *)
(* for an fsync between two steps, and an object only between its rename   *)
(* and the fsync of its shard; a record on its way to the journal has its  *)
(* object on disk for good.                                                *)
SettledInv ==
  /\ synced = Len(journal)
  /\ \A i \in DOMAIN journal : journal[i].object \in objects \ loose
  /\ pc \in {"sync_object", "intent", "replace", "append"} => cur.object \in objects
  /\ loose \subseteq IF pc = "sync_object" THEN {cur.object} ELSE {}

LEMMA SettledInit == Init => SettledInv
<1> SUFFICES ASSUME Init PROVE SettledInv
  OBVIOUS
<1>1. Len(<<>>) = 0 /\ DOMAIN <<>> = {}
  OBVIOUS
<1>. QED
  BY <1>1 DEF Init, SettledInv

(* The log in the journal after a line was written, and after a crash.     *)
LEMMA SettledLog ==
  ASSUME TypeInv, SettledInv,
         NEW log \in {journal} \cup (IF pc = "append" THEN {Append(journal, cur)} ELSE {}),
         NEW n \in 0..Len(log)
  PROVE  /\ log \in Seq(Record) /\ Len(log) \in Nat
         /\ Len(SubSeq(log, 1, n)) = n
         /\ SubSeq(log, 1, Len(log)) = log
         /\ \A i \in DOMAIN SubSeq(log, 1, n) :
              SubSeq(log, 1, n)[i].object \in objects \ loose
<1>1. journal \in Seq(Record) /\ Len(journal) \in Nat /\ DOMAIN journal = 1..Len(journal)
  BY LenProperties DEF TypeInv, TypeOK
<1>2. log \in Seq(Record) /\ \A i \in 1..Len(log) : log[i].object \in objects \ loose
  <2>1. CASE log = journal
    BY <1>1, <2>1 DEF SettledInv
  <2>2. CASE pc = "append" /\ log = Append(journal, cur)
    <3>1. cur \in Record
      BY <2>2 DEF TypeInv, TypeOK, CommitSteps
    <3>2. /\ log \in Seq(Record) /\ Len(log) = Len(journal) + 1
          /\ log[Len(journal) + 1] = cur
          /\ \A i \in 1..Len(journal) : log[i] = journal[i]
      BY <1>1, <2>2, <3>1, AppendIsLog
    <3>3. \A i \in 1..(Len(journal) + 1) : i \in 1..Len(journal) \/ i = Len(journal) + 1
      BY <1>1
    <3>. QED
      BY <1>1, <2>2, <3>2, <3>3 DEF SettledInv
  <2>. QED
    BY <2>1, <2>2
<1>3. Len(log) \in Nat
  BY <1>2, LenProperties
<1>4. /\ SubSeq(log, 1, n) \in Seq(Record) /\ Len(SubSeq(log, 1, n)) = n
      /\ \A i \in 1..n : SubSeq(log, 1, n)[i] = log[i]
  BY <1>2, PrefixIsLog
<1>5. DOMAIN SubSeq(log, 1, n) = 1..n /\ \A i \in 1..n : i \in 1..Len(log)
  BY <1>3, <1>4, LenProperties
<1>6. SubSeq(log, 1, Len(log)) = log
  <2>1. Len(log) \in 0..Len(log)
    BY <1>3
  <2>. QED
    BY <1>2, <2>1, PrefixOfPrefix
<1>. QED
  BY <1>2, <1>3, <1>4, <1>5, <1>6

LEMMA SettledNext ==
  ASSUME Faults \subseteq {"power"}, TypeInv, HistoryInv, SettledInv, [Next]_vars
  PROVE  SettledInv'
<1>1. ASSUME UNCHANGED <<journal, objects, loose>>, synced' \in {synced, Len(journal)},
             pc # "sync_object", pc' \notin {"sync_object", "intent", "replace", "append"}
      PROVE  SettledInv'
  BY <1>1 DEF SettledInv
<1>2. CASE Request
  BY <1>1, <1>2 DEF Request, SaveByPath, SaveById, ScanBegin, Serve, disk
<1>3. CASE Scan
  BY <1>1, <1>3 DEF Scan, ScanSave, ScanDone, Serve, Goto, disk
<1>4. CASE ConvertExternal \/ PassGuard \/ RefuseStaleBase \/ RefuseLeaseHeld \/ BeginCommit
  BY <1>1, <1>4 DEF ConvertExternal, PassGuard, RefuseStaleBase, RefuseLeaseHeld, BeginCommit,
                    StartCommit, Reply, disk
<1>5. CASE PutObject
  <2>1. /\ loose = {} /\ synced = Len(journal)
        /\ \A i \in DOMAIN journal : journal[i].object \in objects
    BY <1>5 DEF SettledInv, PutObject
  <2>2. UNCHANGED <<journal, synced, cur>>
    BY <1>5 DEF PutObject, Goto
  <2>3. CASE cur.object \in objects
    BY <1>5, <2>1, <2>2, <2>3 DEF PutObject, Goto, SettledInv
  <2>4. CASE cur.object \notin objects
    <3>1. /\ objects' = objects \cup {cur.object} /\ loose' = {cur.object}
          /\ pc' = "sync_object"
      BY <1>5, <2>1, <2>4 DEF PutObject, Goto
    <3>2. \A i \in DOMAIN journal : journal[i].object \in objects' \ loose'
      BY <2>1, <2>4, <3>1
    <3>. QED
      BY <2>1, <2>2, <3>1, <3>2 DEF SettledInv
  <2>. QED
    BY <2>3, <2>4
<1>6. CASE SyncObject
  <2>1. cur.object \in objects
    BY <1>6 DEF SettledInv, SyncObject
  <2>2. pc = "sync_object" /\ pc' = "intent" /\ UNCHANGED <<journal, synced, objects, cur>>
        /\ loose' = loose \ {cur.object}
    BY <1>6 DEF SyncObject, Goto
  <2>3. loose' = {}
    BY <2>2 DEF SettledInv
  <2>. QED
    BY <2>1, <2>2, <2>3 DEF SettledInv
<1>7. CASE RegisterIntent \/ ReplaceVisible
  BY <1>7 DEF RegisterIntent, ReplaceVisible, Goto, SettledInv, disk
<1>8. CASE AppendRecord
  <2>1. /\ pc = "append" /\ pc' = "clear" /\ synced' = Len(journal')
        /\ UNCHANGED <<objects, loose>> /\ journal' = Append(journal, cur)
    BY <1>8 DEF AppendRecord, WriteLine, Goto, HistoryInv
  <2>2. PICK log \in {journal} \cup (IF pc = "append" THEN {Append(journal, cur)} ELSE {}) :
          log = Append(journal, cur)
    BY <2>1
  <2>3. Len(log) \in 0..Len(log)
    <3>1. journal \in Seq(Record) /\ cur \in Record
      BY <2>1 DEF TypeInv, TypeOK, CommitSteps
    <3>2. log \in Seq(Record)
      BY <2>2, <3>1, AppendIsLog
    <3>3. Len(log) \in Nat
      BY <3>2, LenProperties
    <3>. QED
      BY <3>3
  <2>4. \A i \in DOMAIN journal' : journal'[i].object \in objects \ loose
    BY <2>1, <2>2, <2>3, SettledLog
  <2>. QED
    BY <2>1, <2>4 DEF SettledInv
<1>9. CASE ClearIntent
  BY <1>1, <1>9 DEF ClearIntent, FinishCommit, Reply
<1>10. CASE Open \/ DropIntent \/ Ready \/ OpenFails
  BY <1>1, <1>10 DEF Open, DropIntent, Ready, OpenFails, Goto, Down, disk
<1>11. ASSUME NEW i \in todo, Reconcile(i)
       PROVE  SettledInv'
  BY <1>1, <1>11 DEF Reconcile, disk
<1>12. CASE PowerLoss
  <2>1. /\ pc' = "down" /\ loose' = {} /\ \E lost \in SUBSET loose : objects' = objects \ lost
    BY <1>12 DEF PowerLoss, Down
  <2>2. PICK log \in {journal} \cup IF pc = "append" /\ ~damaged THEN {Append(journal, cur)} ELSE {} :
          \E n \in synced..Len(log) : journal' = SubSeq(log, 1, n) /\ synced' = n
    BY <1>12 DEF PowerLoss
  <2>3. PICK n \in synced..Len(log) : journal' = SubSeq(log, 1, n) /\ synced' = n
    BY <2>2
  <2>4. log \in {journal} \cup (IF pc = "append" THEN {Append(journal, cur)} ELSE {})
    BY <2>2
  <2>5. n \in 0..Len(log)
    <3>1. synced \in Nat /\ Len(log) \in Nat
      <4>1. journal \in Seq(Record) /\ Len(journal) \in Nat /\ synced \in 0..Len(journal)
        BY LenProperties DEF TypeInv, TypeOK
      <4>2. pc = "append" => Append(journal, cur) \in Seq(Record)
        BY <4>1, AppendIsLog DEF TypeInv, TypeOK, CommitSteps
      <4>3. log \in Seq(Record)
        BY <2>4, <4>1, <4>2
      <4>. QED
        BY <4>1, <4>3, LenProperties
    <3>. QED
      BY <2>3, <3>1
  <2>6. Len(journal') = n /\ \A i \in DOMAIN journal' : journal'[i].object \in objects \ loose
    BY <2>3, <2>4, <2>5, SettledLog
  <2>. QED
    BY <2>1, <2>3, <2>6 DEF SettledInv
<1>13. CASE Kill \/ FailIo \/ FailClear
  BY <1>13 DEF Kill, FailIo, FailClear, Fault
<1>14. CASE Wait \/ OpenCorrupt \/ UNCHANGED vars
  BY <1>14 DEF Wait, OpenCorrupt, vars, disk, process, SettledInv
<1>15. ASSUME NEW p \in Paths, NEW c \in Contents \cup {None}, Edit(p, c)
       PROVE  SettledInv'
  BY <1>15 DEF Edit, disk, process, SettledInv
<1>16. CASE Save \/ Recover
  BY <1>4, <1>5, <1>6, <1>7, <1>8, <1>9, <1>10, <1>11, <1>16 DEF Save, Commit, Recover
<1>. QED
  BY <1>2, <1>3, <1>12, <1>13, <1>14, <1>15, <1>16 DEF Next

(* Through power losses at any step, the content of every durable revision *)
(* stays durably in the object store (put fsyncs before the append).       *)
THEOREM DurableReadableHolds ==
  ASSUME Faults \subseteq {"power"}
  PROVE  Spec => []DurableReadable
<1>1. TypeInv /\ HistoryInv /\ [Next]_vars => HistoryInv'
  BY HistoryNext
<1>2. TypeInv /\ HistoryInv /\ SettledInv /\ [Next]_vars => SettledInv'
  BY SettledNext
<1>3. TypeInv /\ SettledInv => DurableReadable
  BY LenProperties DEF TypeInv, TypeOK, SettledInv, DurableReadable
<1>. QED
  BY <1>1, <1>2, <1>3, TypeInit, TypeNext, HistoryInit, SettledInit, PTL DEF Spec

(* Through power losses at any step, what the index of an open vault says  *)
(* is on disk for good (it advances after the append's fsync).             *)
THEOREM IndexDurableHolds ==
  ASSUME Faults \subseteq {"power"}
  PROVE  Spec => []IndexDurable
<1>1. TypeInv /\ HistoryInv /\ [Next]_vars => HistoryInv'
  BY HistoryNext
<1>2. TypeInv /\ HistoryInv /\ SettledInv /\ [Next]_vars => SettledInv'
  BY SettledNext
<1>3. ASSUME TypeInv, HistoryInv, SettledInv PROVE IndexDurable
  <2>1. /\ journal \in Seq(Record) /\ Len(journal) \in Nat /\ synced = Len(journal)
        /\ index \in Seq(Record) /\ Len(index) \in Nat
    BY <1>3, LenProperties DEF TypeInv, TypeOK, SettledInv
  <2>2. CASE pc \notin {"down", "clear"}
    <3>1. Len(journal) \in 0..synced /\ Len(journal) \in 0..Len(journal)
      BY <2>1
    <3>2. index = journal /\ SubSeq(journal, 1, Len(journal)) = journal
      BY <1>3, <2>1, <2>2, <3>1, PrefixOfPrefix DEF HistoryInv
    <3>. QED
      BY <3>1, <3>2 DEF IndexDurable
  <2>3. CASE pc = "clear"
    <3>1. cur \in Record /\ journal = Append(index, cur)
      BY <1>3, <2>3 DEF TypeInv, TypeOK, CommitSteps, HistoryInv
    <3>2. Len(index) \in 0..Len(index)
      BY <2>1
    <3>3. SubSeq(journal, 1, Len(index)) = SubSeq(index, 1, Len(index))
          /\ Len(journal) = Len(index) + 1
      BY <2>1, <3>1, <3>2, AppendIsLog
    <3>4. SubSeq(index, 1, Len(index)) = index
      BY <2>1, <3>2, PrefixOfPrefix
    <3>5. Len(index) \in 0..synced
      BY <2>1, <3>3
    <3>. QED
      BY <3>3, <3>4, <3>5 DEF IndexDurable
  <2>. QED
    BY <2>2, <2>3 DEF IndexDurable
<1>. QED
  BY <1>1, <1>2, <1>3, TypeInit, TypeNext, HistoryInit, SettledInit, PTL DEF Spec

-------------------------------------------------------------------------------
(* Where the records point.                                                *)

(* The object of a document after a record was appended. *)
LEMMA AppendHead ==
  ASSUME NEW log \in Seq(Record), NEW r \in Record, NEW x
  PROVE  HeadObject(Append(log, r), x) = IF x = r.doc THEN r.object ELSE HeadObject(log, x)
<1>1. Len(log) \in Nat
  BY LenProperties
<1>2. /\ Append(log, r)[Len(log) + 1] = r
      /\ \A i \in 1..Len(log) : Append(log, r)[i] = log[i]
  BY AppendIsLog
<1>3. HeadAt(log, x) \in 0..Len(log)
  BY LastRecord
<1>4. HeadAt(log, x) # 0 => HeadAt(log, x) \in 1..Len(log)
  BY <1>1, <1>3
<1>5. Len(log) + 1 # 0
  BY <1>1
<1>6. HeadAt(Append(log, r), x) = IF x = r.doc THEN Len(log) + 1 ELSE HeadAt(log, x)
  BY AppendLast
<1>. QED
  BY <1>2, <1>4, <1>5, <1>6 DEF HeadObject

(* The document found at a path has a record with that path. *)
LEMMA DocOfPath ==
  ASSUME NEW log \in Seq(Record), NEW p
  PROVE  /\ DocAt(log, p) = NoDoc => \A i \in DOMAIN log : log[i].path # p
         /\ DocAt(log, p) # NoDoc =>
              \E i \in DOMAIN log : log[i].path = p /\ log[i].doc = DocAt(log, p)
<1>1. Len(log) \in Nat /\ DOMAIN log = 1..Len(log)
  BY LenProperties
<1>2. \A i \in 1..Len(log) : log[i].doc \in RevId
  <2>1. \A i \in 1..Len(log) : log[i] \in Record
    BY <1>1, ElementOfSeq
  <2>. QED
    BY <2>1 DEF Record
<1>3. \A i \in 1..Len(log) : log[i].doc # NoDoc
  BY <1>2, MaxRevsAssumption DEF RevId, NoDoc
<1>4. /\ RecordAt(log, p) \in 0..Len(log)
      /\ RecordAt(log, p) # 0 => log[RecordAt(log, p)].path = p
      /\ RecordAt(log, p) = 0 => \A i \in DOMAIN log : log[i].path # p
  BY LastRecord
<1>5. RecordAt(log, p) # 0 => RecordAt(log, p) \in DOMAIN log
  BY <1>1, <1>4
<1>. QED
  BY <1>1, <1>3, <1>4, <1>5 DEF DocAt

(* A record with the document of another one has its path. *)
KeepsPath(log, r) == \A i \in DOMAIN log : log[i].doc = r.doc => log[i].path = r.path

(* Nothing but the file at its own path changes its head by an append.     *)
LEMMA AppendObject ==
  ASSUME NEW log \in Seq(Record), NEW r \in Record, NEW p, KeepsPath(log, r)
  PROVE  ObjectAt(Append(log, r), p) = IF p = r.path THEN r.object ELSE ObjectAt(log, p)
<1>1. DocAt(Append(log, r), p) = IF p = r.path THEN r.doc ELSE DocAt(log, p)
  BY AppendIndex
<1>2. \A x : HeadObject(Append(log, r), x) = IF x = r.doc THEN r.object ELSE HeadObject(log, x)
  BY AppendHead
<1>3. ASSUME p # r.path
      PROVE  DocAt(log, p) # r.doc
  <2>1. r.doc # NoDoc
    BY MaxRevsAssumption DEF Record, RevId, NoDoc
  <2>2. DocAt(log, p) # NoDoc =>
          \E i \in DOMAIN log : log[i].path = p /\ log[i].doc = DocAt(log, p)
    BY DocOfPath
  <2>. QED
    BY <1>3, <2>1, <2>2 DEF KeepsPath
<1>. QED
  BY <1>1, <1>2, <1>3 DEF ObjectAt

(* The head of a document is what its path's file should hold. *)
LEMMA HeadAtItsPath ==
  ASSUME NEW log \in Seq(Record), NEW d \in RevId, NEW p,
         \A i \in DOMAIN log : log[i].doc = d <=> log[i].path = p
  PROVE  HeadObject(log, d) = ObjectAt(log, p)
<1>1. /\ DocAt(log, p) = NoDoc => \A i \in DOMAIN log : log[i].path # p
      /\ DocAt(log, p) # NoDoc =>
           \E i \in DOMAIN log : log[i].path = p /\ log[i].doc = DocAt(log, p)
  BY DocOfPath
<1>2. CASE DocAt(log, p) = NoDoc
  <2>1. \A i \in DOMAIN log : log[i].doc # d
    BY <1>1, <1>2
  <2>2. \A i \in DOMAIN log : log[i].doc # NoDoc
    <3>1. \A i \in DOMAIN log : log[i] \in Record
      BY LenProperties, ElementOfSeq
    <3>. QED
      BY <3>1, MaxRevsAssumption DEF Record, RevId, NoDoc
  <2>3. ASSUME NEW x, \A i \in DOMAIN log : log[i].doc # x
        PROVE  HeadObject(log, x) = None
    <3>1. HeadAt(log, x) \in 0..Len(log) /\ (HeadAt(log, x) # 0 => log[HeadAt(log, x)].doc = x)
      BY LastRecord
    <3>2. HeadAt(log, x) # 0 => HeadAt(log, x) \in DOMAIN log
      BY <3>1, LenProperties
    <3>. QED
      BY <2>3, <3>1, <3>2 DEF HeadObject
  <2>. QED
    BY <1>2, <2>1, <2>2, <2>3 DEF ObjectAt
<1>3. CASE DocAt(log, p) # NoDoc
  <2>1. DocAt(log, p) = d
    BY <1>1, <1>3
  <2>. QED
    BY <2>1 DEF ObjectAt
<1>. QED
  BY <1>2, <1>3

(* The head a document has, read as a revision and as an object. *)
LEMMA HeadPair ==
  ASSUME NEW log \in Seq(Record), NEW d
  PROVE  /\ HeadRev(log, d) = NoRev => HeadObject(log, d) = None
         /\ HeadRev(log, d) # NoRev =>
              \E i \in DOMAIN log : /\ log[i].rev = HeadRev(log, d)
                                    /\ log[i].object = HeadObject(log, d)
<1>1. Len(log) \in Nat /\ DOMAIN log = 1..Len(log)
  BY LenProperties
<1>2. HeadAt(log, d) \in 0..Len(log)
  BY LastRecord
<1>3. HeadAt(log, d) # 0 => HeadAt(log, d) \in DOMAIN log /\ log[HeadAt(log, d)] \in Record
  BY <1>1, <1>2, ElementOfSeq
<1>4. \A r \in Record : r.rev # NoRev
  BY MaxRevsAssumption DEF Record, RevId, NoRev
<1>. QED
  BY <1>3, <1>4 DEF HeadRev, HeadObject

(* The saves in flight, from their admission to their reply. *)
InSave == {"guard", "check"} \cup CommitSteps

(* Every record that is in the journal or that the index has applied. *)
Written == {journal[i] : i \in DOMAIN journal} \cup {index[i] : i \in DOMAIN index}

(* A document keeps the path of its first revision, and the document of a  *)
(* save is an old one with that path, or one nobody has written yet.       *)
PlaceInv ==
  /\ \A r, s \in Written : r.doc = s.doc => r.path = s.path
  /\ \A r \in Written : r.doc < nextRev
  /\ pc \in InSave =>
       /\ op.doc <= nextRev
       /\ \A r \in Written : r.doc = op.doc => r.path = op.path
  /\ pc \in CommitSteps =>
       cur.doc = op.doc /\ cur.path = op.path /\ cur.doc < nextRev

LEMMA PlaceInit == Init => PlaceInv
<1> SUFFICES ASSUME Init PROVE PlaceInv
  OBVIOUS
<1>1. Written = {}
  BY DEF Init, Written
<1>. QED
  BY <1>1 DEF Init, PlaceInv, InSave, CommitSteps

(* The records of a log that has grown by one, and of a prefix. *)
LEMMA RecordsOf ==
  ASSUME NEW log \in Seq(Record)
  PROVE  /\ \A i \in DOMAIN log : log[i] \in Record
         /\ \A r \in Record :
              /\ {Append(log, r)[i] : i \in DOMAIN Append(log, r)} =
                   {log[i] : i \in DOMAIN log} \cup {r}
         /\ \A n \in 0..Len(log) :
              {SubSeq(log, 1, n)[i] : i \in DOMAIN SubSeq(log, 1, n)} \subseteq
                {log[i] : i \in DOMAIN log}
<1>1. Len(log) \in Nat /\ DOMAIN log = 1..Len(log)
  BY LenProperties
<1>2. \A i \in DOMAIN log : log[i] \in Record
  BY <1>1, ElementOfSeq
<1>3. ASSUME NEW r \in Record
      PROVE  {Append(log, r)[i] : i \in DOMAIN Append(log, r)} = {log[i] : i \in DOMAIN log} \cup {r}
  <2>. DEFINE long == Append(log, r)
  <2>1. /\ long \in Seq(Record) /\ Len(long) = Len(log) + 1 /\ long[Len(log) + 1] = r
        /\ \A i \in 1..Len(log) : long[i] = log[i]
    BY AppendIsLog
  <2>2. DOMAIN long = 1..(Len(log) + 1)
    BY <2>1, LenProperties
  <2>3. DOMAIN long = DOMAIN log \cup {Len(log) + 1}
    BY <1>1, <2>2
  <2>. HIDE DEF long
  <2>4. {long[i] : i \in DOMAIN long} = {log[i] : i \in DOMAIN log} \cup {r}
    BY <1>1, <2>1, <2>3
  <2>. QED
    BY <2>4 DEF long
<1>4. ASSUME NEW n \in 0..Len(log)
      PROVE  {SubSeq(log, 1, n)[i] : i \in DOMAIN SubSeq(log, 1, n)} \subseteq
               {log[i] : i \in DOMAIN log}
  <2>. DEFINE short == SubSeq(log, 1, n)
  <2>1. short \in Seq(Record) /\ Len(short) = n /\ \A i \in 1..n : short[i] = log[i]
    BY PrefixIsLog
  <2>2. DOMAIN short = 1..n /\ \A i \in 1..n : i \in DOMAIN log
    BY <1>1, <2>1, LenProperties
  <2>. HIDE DEF short
  <2>3. {short[i] : i \in DOMAIN short} \subseteq {log[i] : i \in DOMAIN log}
    BY <2>1, <2>2
  <2>. QED
    BY <2>3 DEF short
<1>. QED
  BY <1>2, <1>3, <1>4

(* Only a commit that reaches its append writes a record, its own. *)
LEMMA WrittenSteps ==
  ASSUME TypeInv, [Next]_vars
  PROVE  /\ Written \subseteq Record
         /\ Written' \subseteq Written \cup (IF pc \in {"append", "clear"} THEN {cur} ELSE {})
<1>. DEFINE Of(log) == {log[i] : i \in DOMAIN log}
<1>1. journal \in Seq(Record) /\ index \in Seq(Record)
  BY DEF TypeInv, TypeOK
<1>2. Len(journal) \in Nat /\ synced \in 0..Len(journal)
  BY <1>1, LenProperties DEF TypeInv, TypeOK
<1>3. pc \in CommitSteps => cur \in Record
  BY DEF TypeInv, TypeOK
<1>4. pc \in {"append", "clear"} => /\ Of(Append(journal, cur)) = Of(journal) \cup {cur}
                                    /\ Of(Append(index, cur)) = Of(index) \cup {cur}
  BY <1>1, <1>3, RecordsOf DEF CommitSteps
<1>5. \A n \in 0..Len(journal) : Of(SubSeq(journal, 1, n)) \subseteq Of(journal)
  BY <1>1, RecordsOf
<1>6. pc = "append" =>
        /\ Append(journal, cur) \in Seq(Record)
        /\ Len(Append(journal, cur)) = Len(journal) + 1
        /\ \A n \in 0..(Len(journal) + 1) :
             Of(SubSeq(Append(journal, cur), 1, n)) \subseteq Of(journal) \cup {cur}
  <2>1. pc = "append" => /\ Append(journal, cur) \in Seq(Record)
                         /\ Len(Append(journal, cur)) = Len(journal) + 1
    BY <1>1, <1>3, AppendIsLog DEF CommitSteps
  <2>2. pc = "append" => \A n \in 0..Len(Append(journal, cur)) :
             Of(SubSeq(Append(journal, cur), 1, n)) \subseteq Of(Append(journal, cur))
    BY <2>1, RecordsOf
  <2>. QED
    BY <1>4, <2>1, <2>2
<1>7. Written = Of(journal) \cup Of(index) /\ Written' = Of(journal') \cup Of(index')
  BY DEF Written
<1>8. Of(journal) \subseteq Record /\ Of(index) \subseteq Record
  BY <1>1, RecordsOf
<1>. HIDE DEF Of
<1>. SUFFICES Written' \subseteq Written \cup (IF pc \in {"append", "clear"} THEN {cur} ELSE {})
  BY <1>7, <1>8
<1>9. ASSUME UNCHANGED <<journal, index>> PROVE Written' = Written
  BY <1>9 DEF Written
<1>10. Of(<<>>) = {}
  BY DEF Of
<1>11. CASE Request
  BY <1>9, <1>11 DEF Request, SaveByPath, SaveById, ScanBegin, Serve, disk
<1>12. CASE ConvertExternal \/ PassGuard \/ RefuseStaleBase \/ RefuseLeaseHeld \/ BeginCommit
  BY <1>9, <1>12
  DEF ConvertExternal, PassGuard, RefuseStaleBase, RefuseLeaseHeld, BeginCommit, StartCommit, disk
<1>13. CASE PutObject \/ SyncObject \/ RegisterIntent \/ ReplaceVisible
  BY <1>9, <1>13 DEF PutObject, SyncObject, RegisterIntent, ReplaceVisible, Goto, disk
<1>14. CASE AppendRecord
  <2>1. pc = "append" /\ index' = index /\ journal' \in {journal, Append(journal, cur)}
    BY <1>14 DEF AppendRecord, Goto, WriteLine
  <2>. QED
    BY <1>4, <1>7, <2>1
<1>15. CASE ClearIntent \/ FailClear
  <2>1. pc = "clear" /\ journal' = journal /\ index' = Append(index, cur)
    BY <1>15 DEF ClearIntent, FailClear, FinishCommit, disk
  <2>. QED
    BY <1>4, <1>7, <2>1
<1>16. CASE Scan
  BY <1>9, <1>16 DEF Scan, ScanSave, ScanDone, Serve, Goto, disk
<1>17. CASE Open
  BY <1>7, <1>17 DEF Open
<1>18. CASE DropIntent \/ Ready
  BY <1>9, <1>18 DEF DropIntent, Ready, Goto, disk
<1>19. ASSUME NEW i \in todo, Reconcile(i)
       PROVE  Written' = Written
  BY <1>9, <1>19 DEF Reconcile, disk
<1>20. CASE OpenFails
  <2>1. journal' = journal /\ index' = <<>>
    BY <1>20 DEF OpenFails, Down, disk
  <2>. QED
    BY <1>7, <1>10, <2>1
<1>21. CASE Kill
  <2>1. index' = <<>>
    BY <1>21 DEF Kill, Down
  <2>2. journal' = journal \/ (pc = "append" /\ journal' = Append(journal, cur))
    BY <1>21 DEF Kill, WriteLine
  <2>. QED
    BY <1>4, <1>7, <1>10, <2>1, <2>2
<1>22. CASE FailIo
  <2>1. index' = index
    BY <1>22 DEF FailIo
  <2>2. journal' = journal \/ (pc = "append" /\ journal' = Append(journal, cur))
    BY <1>22 DEF FailIo, WriteLine
  <2>. QED
    BY <1>4, <1>7, <2>1, <2>2
<1>23. CASE PowerLoss
  <2>1. index' = <<>>
    BY <1>23 DEF PowerLoss, Down
  <2>2. PICK log \in {journal} \cup IF pc = "append" /\ ~damaged THEN {Append(journal, cur)} ELSE {} :
          \E n \in synced..Len(log) : journal' = SubSeq(log, 1, n)
    BY <1>23 DEF PowerLoss
  <2>3. PICK n \in synced..Len(log) : journal' = SubSeq(log, 1, n)
    BY <2>2
  <2>4. CASE log = journal
    <3>1. n \in 0..Len(journal)
      BY <1>2, <2>3, <2>4
    <3>. QED
      BY <1>5, <1>7, <1>10, <2>1, <2>3, <2>4, <3>1
  <2>5. CASE pc = "append" /\ log = Append(journal, cur)
    <3>1. n \in 0..(Len(journal) + 1)
      BY <1>2, <1>6, <2>3, <2>5
    <3>. QED
      BY <1>6, <1>7, <1>10, <2>1, <2>3, <2>5, <3>1
  <2>. QED
    BY <2>2, <2>4, <2>5
<1>24. CASE Wait \/ OpenCorrupt \/ UNCHANGED vars
  BY <1>9, <1>24 DEF Wait, OpenCorrupt, vars, disk, process
<1>25. ASSUME NEW p \in Paths, NEW c \in Contents \cup {None}, Edit(p, c)
       PROVE  Written' = Written
  BY <1>9, <1>25 DEF Edit, disk, process
<1>26. CASE Save \/ Recover
  BY <1>12, <1>13, <1>14, <1>15, <1>17, <1>18, <1>19, <1>20, <1>26 DEF Save, Commit, Recover
<1>. QED
  BY <1>11, <1>15, <1>16, <1>21, <1>22, <1>23, <1>24, <1>25, <1>26 DEF Next

LEMMA PlaceNext ==
  ASSUME TypeInv, PlaceInv, [Next]_vars
  PROVE  PlaceInv'
<1>. DEFINE W == Written \cup (IF pc \in {"append", "clear"} THEN {cur} ELSE {})
<1>1. Written' \subseteq W /\ W \subseteq Record /\ Written \subseteq Record
  <2>1. pc \in {"append", "clear"} => cur \in Record
    BY DEF TypeInv, TypeOK, CommitSteps
  <2>. QED
    BY <2>1, WrittenSteps
<1>2. \A r \in Record : r.doc \in Nat /\ r.doc # NoDoc /\ r.path \in Paths
  BY MaxRevsAssumption DEF Record, RevId, NoDoc
<1>3. nextRev \in Nat /\ (pc \in InSave => op.doc \in Nat)
  BY MaxRevsAssumption DEF TypeInv, TypeOK, InSave, Operation, RevId
<1>4. /\ \A r, s \in W : r.doc = s.doc => r.path = s.path
      /\ \A r \in W : r.doc < nextRev
      /\ pc \in InSave => \A r \in W : r.doc = op.doc => r.path = op.path
  BY DEF PlaceInv, InSave, CommitSteps
<1>. HIDE DEF W
<1>5. ASSUME nextRev' \in {nextRev, nextRev + 1}
      PROVE  /\ \A r, s \in Written' : r.doc = s.doc => r.path = s.path
             /\ \A r \in Written' : r.doc < nextRev'
  <2>1. \A r \in Written' : r.doc \in Nat /\ r.doc < nextRev
    BY <1>1, <1>2, <1>4
  <2>2. \A r \in Written' : r.doc < nextRev'
    BY <1>3, <1>5, <2>1
  <2>. QED
    BY <1>1, <1>4, <2>2
(* A step that leaves the save where it is, or ends it. *)
<1>6. ASSUME nextRev' = nextRev,
             pc' \in InSave => pc \in InSave /\ op' = op,
             pc' \in CommitSteps => pc \in CommitSteps /\ cur' = cur
      PROVE  PlaceInv'
  <2>1. nextRev' \in {nextRev, nextRev + 1}
    BY <1>6
  <2>2. pc' \in InSave => /\ op'.doc <= nextRev'
                          /\ \A r \in Written' : r.doc = op'.doc => r.path = op'.path
    BY <1>1, <1>4, <1>6 DEF PlaceInv
  <2>3. pc' \in CommitSteps => cur'.doc = op'.doc /\ cur'.path = op'.path /\ cur'.doc < nextRev'
    BY <1>6 DEF PlaceInv, InSave
  <2>. QED
    BY <1>5, <2>1, <2>2, <2>3 DEF PlaceInv
(* The admission of a save. *)
<1>7. ASSUME NEW d \in Nat, NEW p, NEW base, NEW c, NEW scan, Serve(d, p, base, c, scan),
             d <= nextRev, \A r \in Written : r.doc = d => r.path = p
      PROVE  PlaceInv'
  <2>1. /\ nextRev' = nextRev /\ pc' = "guard" /\ op'.doc = d /\ op'.path = p
        /\ journal' = journal /\ index' = index
    BY <1>7 DEF Serve, disk
  <2>2. Written' = Written
    BY <2>1 DEF Written
  <2>3. nextRev' \in {nextRev, nextRev + 1} /\ pc' \notin CommitSteps
    BY <2>1 DEF CommitSteps
  <2>4. op'.doc <= nextRev' /\ \A r \in Written' : r.doc = op'.doc => r.path = op'.path
    BY <1>7, <2>1, <2>2
  <2>. QED
    BY <1>5, <2>3, <2>4 DEF PlaceInv
<1>8. ASSUME NEW p
      PROVE  /\ Resolve(p) \in Nat /\ Resolve(p) <= nextRev
             /\ \A r \in Written : r.doc = Resolve(p) => r.path = p
  <2>1. index \in Seq(Record)
    BY DEF TypeInv, TypeOK
  <2>2. CASE DocAt(index, p) = NoDoc
    <3>1. Resolve(p) = nextRev
      BY <2>2 DEF Resolve
    <3>2. \A r \in Written : r.doc # nextRev
      BY <1>1, <1>2, <1>3 DEF PlaceInv
    <3>. QED
      BY <1>3, <3>1, <3>2
  <2>3. CASE DocAt(index, p) # NoDoc
    <3>1. PICK i \in DOMAIN index : index[i].path = p /\ index[i].doc = DocAt(index, p)
      BY <2>1, <2>3, DocOfPath
    <3>2. index[i] \in Written /\ Resolve(p) = index[i].doc
      BY <2>3, <3>1 DEF Written, Resolve
    <3>3. \A r \in Written : r.doc = Resolve(p) => r.path = p
      BY <3>1, <3>2 DEF PlaceInv
    <3>4. Resolve(p) \in Nat /\ Resolve(p) < nextRev
      BY <1>1, <1>2, <3>2 DEF PlaceInv
    <3>. QED
      BY <1>3, <3>3, <3>4
  <2>. QED
    BY <2>2, <2>3
<1>9. ASSUME NEW p \in Paths, NEW base \in {NoRev} \cup RevsOf(index), NEW c \in Contents,
             SaveByPath(p, base, c)
      PROVE  PlaceInv'
  <2>1. Serve(Resolve(p), p, base, c, FALSE)
    BY <1>9 DEF SaveByPath
  <2>2. /\ Resolve(p) \in Nat /\ Resolve(p) <= nextRev
        /\ \A r \in Written : r.doc = Resolve(p) => r.path = p
    BY <1>8
  <2>. QED
    BY <1>7, <2>1, <2>2
<1>10. ASSUME NEW d \in DocsOf(index), NEW base \in {NoRev} \cup RevsOf(index), NEW c \in Contents,
              SaveById(d, base, c)
       PROVE  PlaceInv'
  <2>1. index \in Seq(Record) /\ Serve(d, index[HeadAt(index, d)].path, base, c, FALSE)
    BY <1>10 DEF SaveById, TypeInv, TypeOK
  <2>2. HeadAt(index, d) \in DOMAIN index /\ index[HeadAt(index, d)].doc = d
    <3>1. /\ HeadAt(index, d) \in 0..Len(index)
          /\ HeadAt(index, d) = 0 => \A i \in DOMAIN index : index[i].doc # d
          /\ HeadAt(index, d) # 0 => index[HeadAt(index, d)].doc = d
      BY <2>1, LastRecord
    <3>2. HeadAt(index, d) # 0
      BY <3>1 DEF DocsOf
    <3>. QED
      BY <2>1, <3>1, <3>2, LenProperties
  <2>3. PICK r \in Written : r = index[HeadAt(index, d)]
    BY <2>2 DEF Written
  <2>4. d \in Nat /\ d <= nextRev /\ \A s \in Written : s.doc = d => s.path = r.path
    <3>1. r.doc = d /\ r.doc \in Nat /\ r.doc < nextRev
      BY <1>1, <1>2, <2>2, <2>3 DEF PlaceInv
    <3>2. \A s \in Written : s.doc = d => s.path = r.path
      BY <3>1 DEF PlaceInv
    <3>. QED
      BY <1>3, <3>1, <3>2
  <2>. QED
    BY <1>7, <2>1, <2>3, <2>4
<1>11. ASSUME NEW f \in pending, ScanSave(f)
       PROVE  PlaceInv'
  <2>1. Serve(Resolve(f.path), f.path, HeadRev(index, DocAt(index, f.path)), f.content, TRUE)
    BY <1>11 DEF ScanSave
  <2>2. /\ Resolve(f.path) \in Nat /\ Resolve(f.path) <= nextRev
        /\ \A r \in Written : r.doc = Resolve(f.path) => r.path = f.path
    BY <1>8
  <2>. QED
    BY <1>7, <2>1, <2>2
<1>12. CASE ScanBegin \/ ScanDone
  BY <1>6, <1>12 DEF ScanBegin, ScanDone, Goto, InSave, CommitSteps
(* The commit. *)
<1>13. ASSUME NEW c, pc \in {"guard", "check"}, StartCommit(c)
       PROVE  PlaceInv'
  <2>1. /\ pc \in InSave /\ pc' = "put" /\ nextRev' = nextRev + 1 /\ op' = op
        /\ cur'.doc = op.doc /\ cur'.path = op.path
    BY <1>13 DEF StartCommit, InSave
  <2>2. op.doc <= nextRev /\ op.doc \in Nat
    BY <1>3, <2>1 DEF PlaceInv
  <2>3. op'.doc <= nextRev' /\ cur'.doc < nextRev'
    BY <1>3, <2>1, <2>2
  <2>4. \A r \in Written' : r.doc = op'.doc => r.path = op'.path
    BY <1>1, <1>4, <2>1
  <2>. QED
    BY <1>5, <2>1, <2>3, <2>4 DEF PlaceInv
<1>14. CASE ConvertExternal \/ BeginCommit
  BY <1>13, <1>14 DEF ConvertExternal, BeginCommit
<1>15. CASE PassGuard \/ RefuseStaleBase \/ RefuseLeaseHeld
  BY <1>6, <1>15 DEF PassGuard, RefuseStaleBase, RefuseLeaseHeld, Reply, InSave, CommitSteps
<1>16. CASE PutObject \/ SyncObject \/ RegisterIntent \/ ReplaceVisible \/ AppendRecord
  BY <1>6, <1>16
  DEF PutObject, SyncObject, RegisterIntent, ReplaceVisible, AppendRecord, Goto, InSave, CommitSteps
<1>17. CASE ClearIntent \/ FailClear
  BY <1>6, <1>17 DEF ClearIntent, FailClear, Fault, FinishCommit, Reply, InSave, CommitSteps
(* The rest. *)
<1>18. CASE Kill \/ PowerLoss
  BY <1>6, <1>18 DEF Kill, PowerLoss, Fault, Down, InSave, CommitSteps
<1>19. CASE FailIo
  BY <1>6, <1>19 DEF FailIo, Fault, Reply, InSave, CommitSteps
<1>20. CASE Open \/ DropIntent \/ Ready
  BY <1>6, <1>20 DEF Open, DropIntent, Ready, Goto, InSave, CommitSteps
<1>21. CASE OpenFails
  BY <1>6, <1>21 DEF OpenFails, Fault, Down, InSave, CommitSteps
<1>22. ASSUME NEW i \in todo, Reconcile(i)
       PROVE  PlaceInv'
  BY <1>6, <1>22 DEF Reconcile, InSave, CommitSteps
<1>23. CASE Wait \/ OpenCorrupt \/ UNCHANGED vars
  BY <1>6, <1>23 DEF Wait, OpenCorrupt, vars, process
<1>24. ASSUME NEW p \in Paths, NEW c \in Contents \cup {None}, Edit(p, c)
       PROVE  PlaceInv'
  BY <1>6, <1>24 DEF Edit, process
<1>25. CASE Request
  BY <1>9, <1>10, <1>12, <1>25 DEF Request
<1>26. CASE Save \/ Scan \/ Recover
  BY <1>11, <1>12, <1>14, <1>15, <1>16, <1>17, <1>20, <1>21, <1>22, <1>26
  DEF Save, Commit, Scan, Recover
<1>. QED
  BY <1>17, <1>18, <1>19, <1>23, <1>24, <1>25, <1>26 DEF Next

-------------------------------------------------------------------------------
(* A scan and the bytes at rest.                                           *)

(* In a record of the log, the document alone determines the path. *)
LEMMA CurKeepsPath ==
  ASSUME TypeInv, PlaceInv, pc \in CommitSteps
  PROVE  KeepsPath(index, cur) /\ KeepsPath(journal, cur)
<1>1. \A r \in Written : r.doc = cur.doc => r.path = cur.path
  BY DEF PlaceInv, InSave
<1>. QED
  BY <1>1 DEF KeepsPath, Written

(* While a scan runs, every file holds its document's head, or has a save  *)
(* of its own that is still to come or is being made; and what a commit    *)
(* has put into its file is still there when it is recorded.               *)
Seen(p) ==
  visible[p] \in {None, ObjectAt(index, p)} \/ \E f \in pending : f.path = p

ScanInv ==
  /\ pc = "scan" => \A p \in Paths : Seen(p)
  /\ pc \in InSave => (op.scan => \A p \in Paths : p = op.path \/ Seen(p))
  /\ pc \in {"append", "clear"} => visible[cur.path] = cur.object

LEMMA ScanInvInit == Init => ScanInv
  BY DEF Init, ScanInv, InSave, CommitSteps

LEMMA ScanInvNext ==
  ASSUME EditAt \cap ({"scan"} \cup InSave) = {}, TypeInv, PlaceInv, ScanInv, [Next]_vars
  PROVE  ScanInv'
<1>. DEFINE SeenIn(log, v, q, p) == v[p] \in {None, ObjectAt(log, p)} \/ \E f \in q : f.path = p
<1>1. /\ \A p : Seen(p) <=> SeenIn(index, visible, pending, p)
      /\ \A p : Seen(p)' <=> SeenIn(index', visible', pending', p)
  BY DEF Seen
<1>2. pc \in CommitSteps => cur \in Record
  BY DEF TypeInv, TypeOK
<1>3. index \in Seq(Record)
  BY DEF TypeInv, TypeOK
<1>. HIDE DEF SeenIn
(* A step that leaves the save and the files where they are, or ends both. *)
<1>4. ASSUME UNCHANGED <<index, visible>>,
             pc' = "scan" => pc = "scan" /\ pending' = pending,
             pc' \in InSave => pc \in InSave /\ op' = op /\ pending' = pending,
             pc' \in {"append", "clear"} => pc \in {"append", "clear"} /\ cur' = cur
      PROVE  ScanInv'
  <2>1. pending' = pending => \A p : Seen(p)' <=> Seen(p)
    BY <1>1, <1>4
  <2>2. pc' = "scan" => \A p \in Paths : Seen(p)'
    BY <1>4, <2>1 DEF ScanInv
  <2>3. pc' \in InSave => (op'.scan => \A p \in Paths : p = op'.path \/ Seen(p)')
    BY <1>4, <2>1 DEF ScanInv
  <2>4. pc' \in {"append", "clear"} => visible'[cur'.path] = cur'.object
    BY <1>4 DEF ScanInv
  <2>. QED
    BY <2>2, <2>3, <2>4 DEF ScanInv
<1>5. ASSUME pc' \notin {"scan"} \cup InSave PROVE ScanInv'
  BY <1>5 DEF ScanInv, InSave, CommitSteps
<1>6. ASSUME pc' = "guard", op'.scan = FALSE PROVE ScanInv'
  BY <1>6 DEF ScanInv
<1>7. ASSUME NEW d, NEW p, NEW base, NEW c, Serve(d, p, base, c, FALSE)
      PROVE  ScanInv'
  <2>1. pc' = "guard" /\ op'.scan = FALSE
    BY <1>7 DEF Serve
  <2>. QED
    BY <1>6, <2>1
<1>8. CASE ScanBegin
  <2>1. /\ pc' = "scan" /\ UNCHANGED <<index, visible>>
        /\ pending' = {[path |-> p, content |-> visible[p]] : p \in {q \in Paths : Changed(q)}}
    BY <1>8 DEF ScanBegin
  <2>2. ASSUME NEW p \in Paths PROVE SeenIn(index, visible, pending', p)
    <3>1. CASE Changed(p)
      <4>1. [path |-> p, content |-> visible[p]] \in pending'
        BY <2>1, <3>1
      <4>2. \E f \in pending' : f.path = p
        BY <4>1
      <4>. QED
        BY <4>2 DEF SeenIn
    <3>2. CASE ~Changed(p)
      BY <3>2 DEF Changed, SeenIn
    <3>. QED
      BY <3>1, <3>2
  <2>3. \A p \in Paths : Seen(p)'
    BY <1>1, <2>1, <2>2
  <2>. QED
    BY <2>1, <2>3 DEF ScanInv, InSave, CommitSteps
<1>9. ASSUME NEW f \in pending, ScanSave(f)
      PROVE  ScanInv'
  <2>1. /\ pc = "scan" /\ pc' = "guard" /\ UNCHANGED <<index, visible>>
        /\ pending' = pending \ {f} /\ op'.path = f.path
    BY <1>9 DEF ScanSave, Serve
  <2>2. ASSUME NEW p \in Paths, p # f.path PROVE SeenIn(index, visible, pending', p)
    <3>1. SeenIn(index, visible, pending, p)
      BY <1>1, <2>1 DEF ScanInv
    <3>. QED
      BY <2>1, <2>2, <3>1 DEF SeenIn
  <2>3. \A p \in Paths : p = op'.path \/ Seen(p)'
    BY <1>1, <2>1, <2>2
  <2>. QED
    BY <2>1, <2>3 DEF ScanInv
<1>10. CASE ConvertExternal \/ BeginCommit
  BY <1>4, <1>10 DEF ConvertExternal, BeginCommit, StartCommit, InSave, CommitSteps
<1>11. CASE PassGuard \/ RefuseStaleBase \/ RefuseLeaseHeld
  BY <1>4, <1>5, <1>11
  DEF PassGuard, RefuseStaleBase, RefuseLeaseHeld, Reply, InSave, CommitSteps
<1>12. CASE PutObject \/ SyncObject \/ RegisterIntent
  BY <1>4, <1>12 DEF PutObject, SyncObject, RegisterIntent, Goto, InSave, CommitSteps
<1>13. CASE ReplaceVisible
  <2>1. /\ pc = "replace" /\ pc' = "append" /\ UNCHANGED <<index, pending, op, cur>>
        /\ visible' = [visible EXCEPT ![cur.path] = cur.object]
    BY <1>13 DEF ReplaceVisible, Goto, SetVisible
  <2>2. cur.path = op.path /\ cur.path \in Paths /\ visible \in [Paths -> Contents \cup {None}]
    BY <1>2, <2>1 DEF PlaceInv, CommitSteps, Record, TypeInv, TypeOK
  <2>3. /\ visible'[cur.path] = cur.object
        /\ \A p \in Paths : p # cur.path => visible'[p] = visible[p]
    BY <2>1, <2>2
  <2>4. \A p \in Paths : p # op.path => (Seen(p)' <=> Seen(p))
    BY <1>1, <2>1, <2>2, <2>3 DEF SeenIn
  <2>5. op.scan => \A p \in Paths : p = op.path \/ Seen(p)
    BY <2>1 DEF ScanInv, InSave, CommitSteps
  <2>6. op'.scan => \A p \in Paths : p = op'.path \/ Seen(p)'
    BY <2>1, <2>4, <2>5
  <2>. QED
    BY <2>1, <2>3, <2>6 DEF ScanInv
<1>14. CASE AppendRecord
  <2>1. /\ pc = "append" /\ pc' = "clear" /\ UNCHANGED <<index, pending, op, cur, visible>>
    BY <1>14 DEF AppendRecord, Goto
  <2>2. \A p : Seen(p)' <=> Seen(p)
    BY <1>1, <2>1
  <2>3. op.scan => \A p \in Paths : p = op.path \/ Seen(p)
    BY <2>1 DEF ScanInv, InSave, CommitSteps
  <2>4. op'.scan => \A p \in Paths : p = op'.path \/ Seen(p)'
    BY <2>1, <2>2, <2>3
  <2>5. visible[cur.path] = cur.object
    BY <2>1 DEF ScanInv
  <2>6. visible'[cur'.path] = cur'.object
    BY <2>1, <2>5
  <2>. QED
    BY <2>1, <2>4, <2>6 DEF ScanInv
<1>15. CASE ClearIntent \/ FailClear
  <2>1. pc = "clear" /\ visible' = visible /\ FinishCommit
    BY <1>15 DEF ClearIntent, FailClear
  <2>2. /\ index' = Append(index, cur) /\ cur \in Record
        /\ cur.path = op.path /\ visible[cur.path] = cur.object
    BY <1>2, <2>1 DEF FinishCommit, PlaceInv, ScanInv, CommitSteps
  <2>3. \A p : ObjectAt(index', p) = IF p = cur.path THEN cur.object ELSE ObjectAt(index, p)
    <3>1. KeepsPath(index, cur)
      BY <2>1, CurKeepsPath DEF CommitSteps
    <3>. QED
      BY <1>3, <2>2, <3>1, AppendObject
  <2>4. op.scan => \A p \in Paths : p = op.path \/ SeenIn(index, visible, pending, p)
    BY <1>1, <2>1 DEF ScanInv, InSave, CommitSteps
  <2>5. ASSUME NEW p \in Paths, p = op.path \/ SeenIn(index, visible, pending, p)
        PROVE  SeenIn(index', visible, pending, p)
    <3>1. CASE p = op.path
      <4>1. visible[p] = ObjectAt(index', p)
        BY <2>2, <2>3, <3>1
      <4>. QED
        BY <4>1 DEF SeenIn
    <3>2. CASE p # op.path
      <4>1. ObjectAt(index', p) = ObjectAt(index, p)
        BY <2>2, <2>3, <3>2
      <4>. QED
        BY <2>5, <3>2, <4>1 DEF SeenIn
    <3>. QED
      BY <3>1, <3>2
  <2>6. CASE pc' \in {"check", "scan"} /\ pending' = pending /\ op.scan /\ (pc' = "check" => op' = op)
    <3>1. \A p \in Paths : SeenIn(index', visible, pending, p)
      BY <2>4, <2>5, <2>6
    <3>2. \A p \in Paths : Seen(p)'
      BY <1>1, <2>1, <2>6, <3>1
    <3>. QED
      BY <2>6, <3>2 DEF ScanInv
  <2>7. CASE pc' = "check" /\ op' = op /\ ~op.scan
    BY <2>7 DEF ScanInv
  <2>8. CASE pc' = "idle"
    BY <1>5, <2>8 DEF InSave, CommitSteps
  <2>. QED
    BY <2>1, <2>6, <2>7, <2>8 DEF FinishCommit, Reply
<1>16. CASE ScanDone
  BY <1>5, <1>16 DEF ScanDone, Goto, InSave, CommitSteps
<1>17. CASE Kill \/ PowerLoss \/ OpenFails
  BY <1>5, <1>17 DEF Kill, PowerLoss, OpenFails, Down, InSave, CommitSteps
<1>18. CASE FailIo
  BY <1>5, <1>18 DEF FailIo, Reply, InSave, CommitSteps
<1>19. CASE Open \/ DropIntent \/ Ready
  BY <1>5, <1>19 DEF Open, DropIntent, Ready, Goto, InSave, CommitSteps
<1>20. ASSUME NEW i \in todo, Reconcile(i)
       PROVE  ScanInv'
  BY <1>5, <1>20 DEF Reconcile, InSave, CommitSteps
<1>21. CASE Wait \/ OpenCorrupt \/ UNCHANGED vars
  BY <1>4, <1>21 DEF Wait, OpenCorrupt, vars, process
<1>22. ASSUME NEW p \in Paths, NEW c \in Contents \cup {None}, Edit(p, c)
       PROVE  ScanInv'
  BY <1>5, <1>22 DEF Edit, process
<1>23. CASE Request
  BY <1>7, <1>8, <1>23 DEF Request, SaveByPath, SaveById
<1>. QED
  BY <1>9, <1>10, <1>11, <1>12, <1>13, <1>14, <1>15, <1>16, <1>17, <1>18, <1>19,
     <1>20, <1>21, <1>22, <1>23
  DEF Next, Save, Commit, Scan, Recover

(* Whatever fails, a scan that succeeds has made every file it found       *)
(* changed the head of a document (scan_external), as long as nobody       *)
(* writes the files while the scan or one of its saves runs.               *)
THEOREM ScanCapturesHolds ==
  ASSUME EditAt \cap ({"scan"} \cup InSave) = {}
  PROVE  Spec => ScanCaptures
<1>1. TypeInv /\ PlaceInv /\ [Next]_vars => PlaceInv'
  BY PlaceNext
<1>2. TypeInv /\ PlaceInv /\ ScanInv /\ [Next]_vars => ScanInv'
  BY ScanInvNext
<1>3. ScanInv =>
        [ScanDone => \A p \in Paths : visible[p] \in {None, ObjectAt(index, p)}]_vars
  BY DEF ScanInv, ScanDone, Seen
<1>. QED
  BY <1>1, <1>2, <1>3, TypeInit, TypeNext, PlaceInit, ScanInvInit, PTL DEF Spec, ScanCaptures

-------------------------------------------------------------------------------
(* A save and the bytes it replaces.                                       *)

(* Once the guard has passed, the file holds nothing but the head's bytes  *)
(* or those that are being committed; a commit of the caller's own bytes   *)
(* is based on the head.                                                   *)
GuardInv ==
  /\ pc = "check" => visible[op.path] \in {None, HeadObject(index, op.doc), op.content}
  /\ pc \in {"put", "sync_object", "intent", "replace"} =>
       /\ visible[op.path] \in {None, HeadObject(index, op.doc), cur.object}
       /\ ~Converting => op.base = HeadRev(index, op.doc)
  /\ pc \in {"append", "clear"} => visible[cur.path] = cur.object

LEMMA GuardInit == Init => GuardInv
  BY DEF Init, GuardInv

LEMMA GuardNext ==
  ASSUME EditAt \cap ({"check"} \cup CommitSteps) = {}, TypeInv, PlaceInv, GuardInv, [Next]_vars
  PROVE  GuardInv'
<1>1. pc \in CommitSteps => cur \in Record /\ cur.doc = op.doc /\ cur.path = op.path
  BY DEF TypeInv, TypeOK, PlaceInv
<1>2. ASSUME pc' \notin {"check"} \cup CommitSteps PROVE GuardInv'
  BY <1>2 DEF GuardInv, CommitSteps
<1>3. CASE UNCHANGED <<index, visible, op, cur, pc>>
  BY <1>3 DEF GuardInv, Converting
<1>4. CASE Request
  BY <1>2, <1>4 DEF Request, SaveByPath, SaveById, ScanBegin, Serve, CommitSteps
<1>5. CASE Scan
  BY <1>2, <1>5 DEF Scan, ScanSave, ScanDone, Serve, Goto, CommitSteps
<1>6. CASE PassGuard
  <2>1. /\ pc' = "check" /\ UNCHANGED <<visible, index, op>>
        /\ visible[op.path] \in {None, HeadObject(index, op.doc), op.content}
    BY <1>6 DEF PassGuard, EditedOutOfBand
  <2>. QED
    BY <2>1 DEF GuardInv
<1>7. CASE RefuseStaleBase \/ RefuseLeaseHeld
  BY <1>2, <1>7 DEF RefuseStaleBase, RefuseLeaseHeld, Reply, CommitSteps
<1>8. CASE ConvertExternal
  <2>1. /\ pc' = "put" /\ UNCHANGED <<visible, index, op>> /\ cur'.object = visible[op.path]
        /\ visible[op.path] # op.content
    BY <1>8 DEF ConvertExternal, StartCommit, EditedOutOfBand
  <2>. QED
    BY <2>1 DEF GuardInv, Converting
<1>9. CASE BeginCommit
  <2>1. /\ pc' = "put" /\ UNCHANGED <<visible, index, op>> /\ cur'.object = op.content
        /\ pc = "check" /\ op.base = HeadRev(index, op.doc)
    BY <1>9 DEF BeginCommit, StartCommit, BaseIsHead
  <2>. QED
    BY <2>1 DEF GuardInv
<1>10. CASE PutObject \/ SyncObject \/ RegisterIntent
  <2>1. /\ pc \in {"put", "sync_object", "intent"} /\ pc' \in {"sync_object", "intent", "replace"}
        /\ UNCHANGED <<visible, index, op, cur>>
    BY <1>10 DEF PutObject, SyncObject, RegisterIntent, Goto
  <2>. QED
    BY <2>1 DEF GuardInv, Converting
<1>11. CASE ReplaceVisible
  <2>1. /\ pc = "replace" /\ pc' = "append" /\ cur' = cur
        /\ visible' = [visible EXCEPT ![cur.path] = cur.object]
    BY <1>11 DEF ReplaceVisible, SetVisible, Goto
  <2>2. cur.path \in DOMAIN visible
    BY <1>1, <2>1 DEF TypeInv, TypeOK, CommitSteps, Record
  <2>. QED
    BY <2>1, <2>2 DEF GuardInv
<1>12. CASE AppendRecord
  <2>1. pc = "append" /\ pc' = "clear" /\ UNCHANGED <<cur, visible>>
    BY <1>12 DEF AppendRecord, Goto
  <2>. QED
    BY <2>1 DEF GuardInv
<1>13. CASE ClearIntent \/ FailClear
  <2>1. pc = "clear" /\ visible' = visible /\ FinishCommit
    BY <1>13 DEF ClearIntent, FailClear
  <2>2. CASE Converting
    <3>1. pc' = "check" /\ op' = op /\ index' = Append(index, cur)
      BY <2>1, <2>2 DEF FinishCommit
    <3>2. HeadObject(index', op.doc) = cur.object
      BY <1>1, <2>1, <3>1, AppendHead DEF TypeInv, TypeOK, CommitSteps
    <3>3. visible[op.path] = cur.object
      BY <1>1, <2>1 DEF GuardInv, CommitSteps
    <3>. QED
      BY <2>1, <3>1, <3>2, <3>3 DEF GuardInv
  <2>3. CASE ~Converting
    BY <1>2, <2>1, <2>3 DEF FinishCommit, Reply, CommitSteps
  <2>. QED
    BY <2>2, <2>3
<1>14. CASE Kill \/ PowerLoss \/ OpenFails
  BY <1>2, <1>14 DEF Kill, PowerLoss, OpenFails, Down, CommitSteps
<1>15. CASE FailIo
  BY <1>2, <1>15 DEF FailIo, Reply, CommitSteps
<1>16. CASE Open \/ DropIntent \/ Ready
  BY <1>2, <1>16 DEF Open, DropIntent, Ready, Goto, CommitSteps
<1>17. ASSUME NEW i \in todo, Reconcile(i)
       PROVE  GuardInv'
  BY <1>2, <1>17 DEF Reconcile, CommitSteps
<1>18. CASE Wait \/ OpenCorrupt \/ UNCHANGED vars
  BY <1>3, <1>18 DEF Wait, OpenCorrupt, vars, process
<1>19. ASSUME NEW p \in Paths, NEW c \in Contents \cup {None}, Edit(p, c)
       PROVE  GuardInv'
  BY <1>2, <1>19 DEF Edit, process
<1>. QED
  BY <1>4, <1>5, <1>6, <1>7, <1>8, <1>9, <1>10, <1>11, <1>12, <1>13, <1>14, <1>15, <1>16,
     <1>17, <1>18, <1>19
  DEF Next, Save, Commit, Recover

(* As long as no system call of a commit fails, and nobody writes the      *)
(* files between the guard's look at one and the end of its commit, a save *)
(* replaces no bytes but those of the revision it was based on, or its     *)
(* own, through every kill, power loss, conversion and refused save.       *)
THEOREM OverwritesOnlyItsBaseHolds ==
  ASSUME "io" \notin Faults, EditAt \cap ({"check"} \cup CommitSteps) = {}
  PROVE  Spec => OverwritesOnlyItsBase
<1>1. TypeInv /\ HistoryInv /\ [Next]_vars => HistoryInv'
  BY HistoryNext
<1>2. TypeInv /\ PlaceInv /\ [Next]_vars => PlaceInv'
  BY PlaceNext
<1>3. TypeInv /\ PlaceInv /\ GuardInv /\ [Next]_vars => GuardInv'
  BY GuardNext
<1>4. ASSUME TypeInv, HistoryInv, GuardInv, ReplaceVisible, ~Converting
      PROVE  visible[op.path] \in {None, op.content} \cup BytesOf(op.base)
  <2>1. /\ visible[op.path] \in {None, HeadObject(index, op.doc), cur.object}
        /\ op.base = HeadRev(index, op.doc) /\ cur.object = op.content /\ index = journal
    BY <1>4 DEF ReplaceVisible, GuardInv, HistoryInv, Converting
  <2>2. /\ HeadRev(journal, op.doc) = NoRev => HeadObject(journal, op.doc) = None
        /\ HeadRev(journal, op.doc) # NoRev =>
             \E i \in DOMAIN journal : /\ journal[i].rev = HeadRev(journal, op.doc)
                                       /\ journal[i].object = HeadObject(journal, op.doc)
    BY <1>4, HeadPair DEF TypeInv, TypeOK
  <2>. QED
    BY <2>1, <2>2 DEF BytesOf
<1>5. TypeInv /\ HistoryInv /\ GuardInv =>
        [ReplaceVisible /\ ~Converting
           => visible[op.path] \in {None, op.content} \cup BytesOf(op.base)]_vars
  BY <1>4
<1>. QED
  BY <1>1, <1>2, <1>3, <1>5, TypeInit, TypeNext, HistoryInit, PlaceInit, GuardInit, PTL
  DEF Spec, OverwritesOnlyItsBase

-------------------------------------------------------------------------------
(* Intents, and the files after a crash.                                   *)

(* Where no system call fails, a path has one document too. *)
FiledInv ==
  /\ \A r, s \in Written : r.path = s.path => r.doc = s.doc
  /\ pc \in InSave => \A r \in Written : r.path = op.path => r.doc = op.doc

LEMMA FiledInit == Init => FiledInv
<1> SUFFICES ASSUME Init PROVE FiledInv
  OBVIOUS
<1>1. Written = {}
  BY DEF Init, Written
<1>. QED
  BY <1>1 DEF Init, FiledInv, InSave, CommitSteps

LEMMA FiledNext ==
  ASSUME "io" \notin Faults, TypeInv, HistoryInv, PlaceInv, FiledInv, [Next]_vars
  PROVE  FiledInv'
<1>. DEFINE W == Written \cup (IF pc \in {"append", "clear"} THEN {cur} ELSE {})
<1>1. Written' \subseteq W
  BY WrittenSteps
<1>2. /\ \A r, s \in W : r.path = s.path => r.doc = s.doc
      /\ pc \in InSave => \A r \in W : r.path = op.path => r.doc = op.doc
  BY DEF FiledInv, PlaceInv, InSave, CommitSteps
<1>. HIDE DEF W
<1>3. \A r, s \in Written' : r.path = s.path => r.doc = s.doc
  BY <1>1, <1>2
<1>4. ASSUME pc' \in InSave => pc \in InSave /\ op' = op
      PROVE  FiledInv'
  <2>1. pc' \in InSave => \A r \in Written' : r.path = op'.path => r.doc = op'.doc
    BY <1>1, <1>2, <1>4
  <2>. QED
    BY <1>3, <2>1 DEF FiledInv
(* The admission of a save. *)
<1>5. ASSUME NEW d, NEW p, NEW base, NEW c, NEW scan, Serve(d, p, base, c, scan),
             \A r \in Written : r.path = p => r.doc = d
      PROVE  FiledInv'
  <2>1. op'.doc = d /\ op'.path = p /\ journal' = journal /\ index' = index
    BY <1>5 DEF Serve, disk
  <2>2. Written' = Written
    BY <2>1 DEF Written
  <2>3. \A r \in Written' : r.path = op'.path => r.doc = op'.doc
    BY <1>5, <2>1, <2>2
  <2>. QED
    BY <1>3, <2>3 DEF FiledInv
<1>6. ASSUME NEW p, pc \in {"idle", "scan"}
      PROVE  \A r \in Written : r.path = p => r.doc = Resolve(p)
  <2>1. index \in Seq(Record) /\ Written = {index[i] : i \in DOMAIN index}
    BY <1>6 DEF TypeInv, TypeOK, HistoryInv, Written
  <2>2. CASE DocAt(index, p) = NoDoc
    <3>1. \A i \in DOMAIN index : index[i].path # p
      BY <2>1, <2>2, DocOfPath
    <3>. QED
      BY <2>1, <3>1
  <2>3. CASE DocAt(index, p) # NoDoc
    <3>1. PICK i \in DOMAIN index : index[i].path = p /\ index[i].doc = DocAt(index, p)
      BY <2>1, <2>3, DocOfPath
    <3>2. index[i] \in Written /\ Resolve(p) = index[i].doc
      BY <2>1, <2>3, <3>1 DEF Resolve
    <3>. QED
      BY <3>1, <3>2 DEF FiledInv
  <2>. QED
    BY <2>2, <2>3
<1>7. ASSUME NEW p \in Paths, NEW base \in {NoRev} \cup RevsOf(index), NEW c \in Contents,
             SaveByPath(p, base, c)
      PROVE  FiledInv'
  <2>1. Serve(Resolve(p), p, base, c, FALSE) /\ pc = "idle"
    BY <1>7 DEF SaveByPath
  <2>2. \A r \in Written : r.path = p => r.doc = Resolve(p)
    BY <1>6, <2>1
  <2>. QED
    BY <1>5, <2>1, <2>2
<1>8. ASSUME NEW d \in DocsOf(index), NEW base \in {NoRev} \cup RevsOf(index), NEW c \in Contents,
              SaveById(d, base, c)
       PROVE  FiledInv'
  <2>1. index \in Seq(Record) /\ Serve(d, index[HeadAt(index, d)].path, base, c, FALSE)
    BY <1>8 DEF SaveById, TypeInv, TypeOK
  <2>2. HeadAt(index, d) \in DOMAIN index /\ index[HeadAt(index, d)].doc = d
    <3>1. /\ HeadAt(index, d) \in 0..Len(index)
          /\ HeadAt(index, d) = 0 => \A i \in DOMAIN index : index[i].doc # d
          /\ HeadAt(index, d) # 0 => index[HeadAt(index, d)].doc = d
      BY <2>1, LastRecord
    <3>2. HeadAt(index, d) # 0
      BY <3>1 DEF DocsOf
    <3>. QED
      BY <2>1, <3>1, <3>2, LenProperties
  <2>3. PICK r \in Written : r = index[HeadAt(index, d)]
    BY <2>2 DEF Written
  <2>4. \A s \in Written : s.path = r.path => s.doc = d
    BY <2>2, <2>3 DEF FiledInv
  <2>. QED
    BY <1>5, <2>1, <2>3, <2>4
<1>9. ASSUME NEW f \in pending, ScanSave(f)
      PROVE  FiledInv'
  <2>1. Serve(Resolve(f.path), f.path, HeadRev(index, DocAt(index, f.path)), f.content, TRUE)
        /\ pc = "scan"
    BY <1>9 DEF ScanSave
  <2>2. \A r \in Written : r.path = f.path => r.doc = Resolve(f.path)
    BY <1>6, <2>1
  <2>. QED
    BY <1>5, <2>1, <2>2
<1>10. CASE ScanBegin \/ ScanDone
  BY <1>4, <1>10 DEF ScanBegin, ScanDone, Goto, InSave, CommitSteps
<1>11. CASE ConvertExternal \/ BeginCommit \/ PassGuard \/ RefuseStaleBase \/ RefuseLeaseHeld
  BY <1>4, <1>11
  DEF ConvertExternal, BeginCommit, StartCommit, PassGuard, RefuseStaleBase, RefuseLeaseHeld,
      Reply, InSave, CommitSteps
<1>12. CASE PutObject \/ SyncObject \/ RegisterIntent \/ ReplaceVisible \/ AppendRecord
  BY <1>4, <1>12
  DEF PutObject, SyncObject, RegisterIntent, ReplaceVisible, AppendRecord, Goto, InSave, CommitSteps
<1>13. CASE ClearIntent \/ FailClear
  BY <1>4, <1>13 DEF ClearIntent, FailClear, FinishCommit, Reply, InSave, CommitSteps
<1>14. CASE Kill \/ PowerLoss \/ OpenFails
  BY <1>4, <1>14 DEF Kill, PowerLoss, OpenFails, Down, InSave, CommitSteps
<1>15. CASE FailIo
  BY <1>4, <1>15 DEF FailIo, Reply, InSave, CommitSteps
<1>16. CASE Open \/ DropIntent \/ Ready
  BY <1>4, <1>16 DEF Open, DropIntent, Ready, Goto, InSave, CommitSteps
<1>17. ASSUME NEW i \in todo, Reconcile(i)
       PROVE  FiledInv'
  BY <1>4, <1>17 DEF Reconcile, InSave, CommitSteps
<1>18. CASE Wait \/ OpenCorrupt \/ UNCHANGED vars
  BY <1>4, <1>18 DEF Wait, OpenCorrupt, vars, process
<1>19. ASSUME NEW p \in Paths, NEW c \in Contents \cup {None}, Edit(p, c)
       PROVE  FiledInv'
  BY <1>4, <1>19 DEF Edit, process
<1>. QED
  BY <1>7, <1>8, <1>9, <1>10, <1>11, <1>12, <1>13, <1>14, <1>15, <1>16, <1>17, <1>18, <1>19
  DEF Next, Request, Save, Commit, Scan, Recover

(* Crashes of one kind: the process may be killed, or the power may fail,  *)
(* but not both, and no system call fails.  (A line a kill leaves unsynced *)
(* is put into the index by the next open and lost in a power loss.)       *)
OneKindOfCrash == "io" \notin Faults /\ ~({"kill", "power"} \subseteq Faults)

(* What no crash can take out of the object store. *)
Kept == IF "power" \in Faults THEN objects \ loose ELSE objects

(* The store keeps what the journal names, and has what a commit is about  *)
(* to name.                                                                *)
StoredInv ==
  /\ \A i \in DOMAIN journal : journal[i].object \in Kept
  /\ pc \in {"sync_object", "intent", "replace", "append"} => cur.object \in objects
  /\ "power" \in Faults => SettledInv

LEMMA StoredInit == Init => StoredInv
<1> SUFFICES ASSUME Init PROVE StoredInv
  OBVIOUS
<1>1. DOMAIN journal = {} /\ pc = "idle"
  BY DEF Init
<1>. QED
  BY <1>1, SettledInit DEF StoredInv

LEMMA StoredNext ==
  ASSUME OneKindOfCrash, TypeInv, HistoryInv, StoredInv, [Next]_vars
  PROVE  StoredInv'
<1>1. CASE "power" \in Faults
  <2>1. Faults \subseteq {"power"}
    BY <1>1, StoreAssumption DEF OneKindOfCrash
  <2>2. SettledInv'
    BY <1>1, <2>1, SettledNext DEF StoredInv
  <2>. QED
    BY <1>1, <2>2 DEF StoredInv, SettledInv, Kept
<1>2. CASE "power" \notin Faults
  <2>1. /\ \A i \in DOMAIN journal : journal[i].object \in objects
        /\ pc \in {"sync_object", "intent", "replace", "append"} => cur.object \in objects
    BY <1>2 DEF StoredInv, Kept
  <2>2. SUFFICES /\ \A i \in DOMAIN journal' : journal'[i].object \in objects'
                 /\ pc' \in {"sync_object", "intent", "replace", "append"} => cur'.object \in objects'
    BY <1>2 DEF StoredInv, Kept
  <2>3. journal \in Seq(Record) /\ (pc = "append" => cur \in Record)
    BY DEF TypeInv, TypeOK, CommitSteps
  <2>4. pc = "append" =>
          \A i \in DOMAIN Append(journal, cur) : Append(journal, cur)[i].object \in objects
    <3>1. pc = "append" => \A i \in DOMAIN Append(journal, cur) :
            Append(journal, cur)[i] \in {journal[j] : j \in DOMAIN journal} \cup {cur}
      BY <2>3, RecordsOf
    <3>. QED
      BY <2>1, <3>1
  <2>5. CASE Request \/ Scan \/ ConvertExternal \/ BeginCommit \/ PassGuard
    BY <2>1, <2>5
    DEF Request, SaveByPath, SaveById, ScanBegin, Serve, Scan, ScanSave, ScanDone, Goto,
        ConvertExternal, BeginCommit, StartCommit, PassGuard, disk
  <2>6. CASE RefuseStaleBase \/ RefuseLeaseHeld
    BY <2>1, <2>6 DEF RefuseStaleBase, RefuseLeaseHeld, Reply, disk
  <2>7. CASE PutObject \/ SyncObject \/ RegisterIntent \/ ReplaceVisible
    BY <2>1, <2>7 DEF PutObject, SyncObject, RegisterIntent, ReplaceVisible, Goto, disk
  <2>8. CASE AppendRecord
    BY <2>1, <2>4, <2>8 DEF AppendRecord, WriteLine, Goto
  <2>9. CASE ClearIntent
    BY <2>1, <2>9 DEF ClearIntent, FinishCommit, Reply
  <2>10. CASE Open \/ DropIntent \/ Ready \/ OpenFails
    BY <2>1, <2>10 DEF Open, DropIntent, Ready, OpenFails, Goto, Down, disk
  <2>11. ASSUME NEW i \in todo, Reconcile(i)
         PROVE  /\ \A j \in DOMAIN journal' : journal'[j].object \in objects'
                /\ pc' \notin {"sync_object", "intent", "replace", "append"}
    BY <2>1, <2>11 DEF Reconcile, disk
  <2>12. CASE Kill
    BY <2>1, <2>4, <2>12 DEF Kill, Down, WriteLine
  <2>13. CASE PowerLoss \/ FailIo \/ FailClear
    BY <1>2, <2>13 DEF PowerLoss, FailIo, FailClear, Fault, OneKindOfCrash
  <2>14. CASE Wait \/ OpenCorrupt \/ UNCHANGED vars
    BY <2>1, <2>14 DEF Wait, OpenCorrupt, vars, disk, process
  <2>15. CASE \E p \in Paths, c \in Contents \cup {None} : Edit(p, c)
    BY <2>1, <2>15 DEF Edit, disk, process
  <2>. QED
    BY <2>5, <2>6, <2>7, <2>8, <2>9, <2>10, <2>11, <2>12, <2>13, <2>14, <2>15
    DEF Next, Save, Commit, Recover
<1>. QED
  BY <1>1, <1>2

(* What recovery needs of an intent: its document and its path belong      *)
(* together, and if the journal does not have it, nothing was committed    *)
(* on top of the head it was to replace.                                   *)
Undoable(log, g) ==
  /\ \A i \in DOMAIN log : log[i].doc = g.doc <=> log[i].path = g.path
  /\ g.rev \notin RevsOf(log) => g.parent = HeadRev(log, g.doc)

(* Where crashes are of one kind: a commit has the one intent there is,    *)
(* and the fsync that registers it has settled the removal of the older    *)
(* ones; recovery visits them all.                                         *)
IntentInv ==
  /\ pc \in {"replace", "append", "clear"} => intents = {cur} /\ ghosts = {}
  /\ pc \in {"recover", "drop"} => todo = intents
  /\ pc = "drop" => cur \in intents
  /\ pc \notin {"down", "recover", "drop", "replace", "append", "clear"} => intents = {}
  /\ \A g \in intents \cup ghosts : g.object \in Kept /\ Undoable(journal, g)

LEMMA IntentInit == Init => IntentInv
  BY DEF Init, IntentInv

(* The record being committed can be undone until it is in the journal,    *)
(* and needs no undoing from then on.                                      *)
LEMMA CurUndoable ==
  ASSUME TypeInv, HistoryInv, PlaceInv, FiledInv, pc \in CommitSteps \ {"clear"}
  PROVE  /\ Undoable(journal, cur)
         /\ Undoable(Append(journal, cur), cur)
<1>1. journal \in Seq(Record) /\ cur \in Record
  BY DEF TypeInv, TypeOK
<1>2. cur.doc = op.doc /\ cur.path = op.path /\ pc \in InSave
  BY DEF PlaceInv, InSave
<1>3. \A r \in Written : r.doc = cur.doc <=> r.path = cur.path
  BY <1>2 DEF PlaceInv, FiledInv
<1>4. \A r \in {journal[i] : i \in DOMAIN journal} \cup {cur} : r.doc = cur.doc <=> r.path = cur.path
  BY <1>3 DEF Written
<1>5. Undoable(journal, cur)
  <2>1. cur.parent = HeadRev(journal, cur.doc)
    BY DEF HistoryInv, CommitSteps
  <2>. QED
    BY <1>4, <2>1 DEF Undoable
<1>6. Undoable(Append(journal, cur), cur)
  <2>1. {Append(journal, cur)[i] : i \in DOMAIN Append(journal, cur)} =
          {journal[i] : i \in DOMAIN journal} \cup {cur}
    BY <1>1, RecordsOf
  <2>2. cur.rev \in RevsOf(Append(journal, cur))
    BY <1>1, AppendRevs
  <2>3. \A i \in DOMAIN Append(journal, cur) :
          Append(journal, cur)[i] \in {journal[j] : j \in DOMAIN journal} \cup {cur}
    BY <2>1
  <2>4. \A i \in DOMAIN Append(journal, cur) :
          Append(journal, cur)[i].doc = cur.doc <=> Append(journal, cur)[i].path = cur.path
    BY <1>4, <2>3
  <2>. QED
    BY <2>2, <2>4 DEF Undoable
<1>. QED
  BY <1>5, <1>6

(* What a crash leaves. *)
LEMMA CrashLeaves ==
  ASSUME OneKindOfCrash, TypeInv, HistoryInv, StoredInv, Kill \/ PowerLoss
  PROVE  /\ journal' = journal \/ (pc = "append" /\ journal' = Append(journal, cur))
         /\ pc' = "down"
         /\ UNCHANGED <<visible, touched>>
         /\ intents \subseteq intents'
         /\ intents' \cup ghosts' \subseteq intents \cup ghosts \cup (IF pc = "intent" THEN {cur} ELSE {})
         /\ Kept \subseteq Kept'
<1>1. CASE Kill
  <2>1. pc' = "down" /\ UNCHANGED <<visible, touched, objects, loose, ghosts>>
    BY <1>1 DEF Kill, Down
  <2>2. Kept' = Kept
    BY <2>1 DEF Kept
  <2>3. /\ journal' = journal \/ (pc = "append" /\ journal' = Append(journal, cur))
        /\ intents' = intents \/ (pc = "intent" /\ intents' = intents \cup {cur})
    BY <1>1 DEF Kill, WriteLine
  <2>. QED
    BY <2>1, <2>2, <2>3
<1>2. CASE PowerLoss
  <2>1. /\ pc' = "down" /\ UNCHANGED <<visible, touched>> /\ ghosts' = {} /\ loose' = {}
        /\ \E lost \in SUBSET loose : objects' = objects \ lost
        /\ \E back \in SUBSET (ghosts \cup IF pc = "intent" THEN {cur} ELSE {}) :
             intents' = intents \cup back
        /\ "power" \in Faults
    BY <1>2 DEF PowerLoss, Down, Fault
  <2>2. Kept \subseteq Kept'
    BY <2>1 DEF Kept
  <2>3. PICK log \in {journal} \cup IF pc = "append" /\ ~damaged THEN {Append(journal, cur)} ELSE {} :
          \E n \in synced..Len(log) : journal' = SubSeq(log, 1, n)
    BY <1>2 DEF PowerLoss
  <2>4. PICK n \in synced..Len(log) : journal' = SubSeq(log, 1, n)
    BY <2>3
  <2>5. journal \in Seq(Record) /\ Len(journal) \in Nat /\ synced = Len(journal)
    BY <2>1, LenProperties DEF TypeInv, TypeOK, StoredInv, SettledInv
  <2>6. Len(journal) \in 0..Len(journal)
    BY <2>5
  <2>7. SubSeq(journal, 1, Len(journal)) = journal
    BY <2>5, <2>6, PrefixOfPrefix
  <2>8. CASE log = journal
    <3>1. n = Len(journal)
      BY <2>4, <2>5, <2>8
    <3>. QED
      BY <2>1, <2>2, <2>4, <2>7, <2>8, <3>1
  <2>9. CASE pc = "append" /\ log = Append(journal, cur)
    <3>1. cur \in Record
      BY <2>9 DEF TypeInv, TypeOK, CommitSteps
    <3>2. /\ log \in Seq(Record) /\ Len(log) = Len(journal) + 1
          /\ SubSeq(log, 1, Len(journal)) = SubSeq(journal, 1, Len(journal))
      BY <2>5, <2>6, <2>9, <3>1, AppendIsLog
    <3>3. SubSeq(log, 1, Len(log)) = log
      <4>1. Len(log) \in 0..Len(log)
        BY <2>5, <3>2
      <4>. QED
        BY <3>2, <4>1, PrefixOfPrefix
    <3>4. n = Len(journal) \/ n = Len(log)
      BY <2>4, <2>5, <3>2
    <3>5. journal' = journal \/ journal' = Append(journal, cur)
      BY <2>4, <2>7, <2>9, <3>2, <3>3, <3>4
    <3>. QED
      BY <2>1, <2>2, <2>9, <3>5
  <2>. QED
    BY <2>3, <2>8, <2>9
<1>. QED
  BY <1>1, <1>2

LEMMA IntentNext ==
  ASSUME OneKindOfCrash, TypeInv, HistoryInv, StoredInv, PlaceInv, FiledInv,
         IntentInv, [Next]_vars
  PROVE  IntentInv'
<1>1. ASSUME intents' \cup ghosts' \subseteq intents \cup ghosts, journal' = journal,
             Kept \subseteq Kept'
      PROVE  \A g \in intents' \cup ghosts' : g.object \in Kept' /\ Undoable(journal', g)
  BY <1>1 DEF IntentInv
<1>0. UNCHANGED <<objects, loose>> => Kept' = Kept
  BY DEF Kept
(* Steps away from a commit and from recovery. *)
<1>2. ASSUME UNCHANGED <<intents, ghosts, journal>>, Kept \subseteq Kept',
             intents = {}, pc' \notin {"recover", "drop", "replace", "append", "clear"}
      PROVE  IntentInv'
  BY <1>1, <1>2 DEF IntentInv
<1>3. CASE Request
  BY <1>0, <1>2, <1>3 DEF Request, SaveByPath, SaveById, ScanBegin, Serve, disk, IntentInv
<1>4. CASE Scan
  BY <1>0, <1>2, <1>4 DEF Scan, ScanSave, ScanDone, Serve, Goto, disk, IntentInv
<1>5. CASE ConvertExternal \/ PassGuard \/ RefuseStaleBase \/ RefuseLeaseHeld \/ BeginCommit
  BY <1>0, <1>2, <1>5
  DEF ConvertExternal, PassGuard, RefuseStaleBase, RefuseLeaseHeld, BeginCommit, StartCommit,
      Reply, disk, IntentInv
<1>6. CASE PutObject \/ SyncObject
  <2>1. Kept \subseteq Kept'
    BY <1>6 DEF PutObject, SyncObject, Kept
  <2>. QED
    BY <1>2, <1>6, <2>1 DEF PutObject, SyncObject, Goto, IntentInv
<1>7. CASE RegisterIntent
  <2>1. /\ pc = "intent" /\ pc' = "replace" /\ intents = {} /\ intents' = {cur} /\ ghosts' = {}
        /\ UNCHANGED <<journal, objects, loose, cur>>
    BY <1>7 DEF RegisterIntent, Goto, IntentInv
  <2>2. cur.object \in Kept
    BY <2>1 DEF StoredInv, SettledInv, Kept
  <2>3. Undoable(journal, cur)
    BY <2>1, CurUndoable DEF CommitSteps
  <2>. QED
    BY <1>0, <2>1, <2>2, <2>3 DEF IntentInv
<1>8. CASE ReplaceVisible
  BY <1>0, <1>1, <1>8 DEF ReplaceVisible, Goto, disk, IntentInv
<1>9. CASE AppendRecord
  <2>1. /\ pc = "append" /\ pc' = "clear" /\ intents = {cur} /\ ghosts = {}
        /\ UNCHANGED <<intents, ghosts, objects, loose, cur>>
        /\ journal' = Append(journal, cur)
    BY <1>9 DEF AppendRecord, WriteLine, Goto, IntentInv, HistoryInv
  <2>2. Undoable(journal', cur) /\ cur.object \in Kept
    BY <2>1, CurUndoable DEF CommitSteps, IntentInv
  <2>. QED
    BY <1>0, <2>1, <2>2 DEF IntentInv
<1>10. CASE ClearIntent
  <2>1. /\ pc = "clear" /\ pc' \in {"check", "scan", "idle"} /\ intents' = {} /\ ghosts' = {cur}
        /\ intents = {cur} /\ UNCHANGED <<journal, objects, loose>>
    BY <1>10 DEF ClearIntent, FinishCommit, Reply, IntentInv
  <2>. QED
    BY <1>0, <1>1, <2>1 DEF IntentInv
<1>11. CASE Open
  BY <1>0, <1>1, <1>11 DEF Open, IntentInv
<1>12. ASSUME NEW i \in todo, Reconcile(i)
       PROVE  IntentInv'
  BY <1>0, <1>1, <1>12 DEF Reconcile, disk, IntentInv
<1>13. CASE DropIntent
  BY <1>0, <1>1, <1>13 DEF DropIntent, IntentInv
<1>14. CASE Ready
  BY <1>0, <1>1, <1>14 DEF Ready, Goto, disk, IntentInv
<1>15. CASE OpenFails
  BY <1>0, <1>1, <1>15 DEF OpenFails, Down, disk, IntentInv
<1>16. CASE Kill \/ PowerLoss
  <2>1. /\ journal' = journal \/ (pc = "append" /\ journal' = Append(journal, cur))
        /\ pc' = "down"
        /\ intents' \cup ghosts' \subseteq intents \cup ghosts \cup (IF pc = "intent" THEN {cur} ELSE {})
        /\ Kept \subseteq Kept'
    BY <1>16, CrashLeaves
  <2>2. ASSUME NEW g \in intents' \cup ghosts' PROVE g.object \in Kept /\ Undoable(journal', g)
    <3>1. CASE pc = "intent" /\ g = cur
      <4>1. cur.object \in Kept
        BY <3>1 DEF StoredInv, SettledInv, Kept
      <4>. QED
        BY <2>1, <3>1, <4>1, CurUndoable DEF CommitSteps
    <3>2. CASE g \in intents \cup ghosts /\ journal' = journal
      BY <3>2 DEF IntentInv
    <3>3. CASE g \in intents \cup ghosts /\ pc = "append" /\ journal' = Append(journal, cur)
      <4>1. g = cur /\ g.object \in Kept
        BY <3>3 DEF IntentInv
      <4>. QED
        BY <3>3, <4>1, CurUndoable DEF CommitSteps
    <3>. QED
      BY <2>1, <3>1, <3>2, <3>3
  <2>3. \A g \in intents' \cup ghosts' : g.object \in Kept' /\ Undoable(journal', g)
    BY <2>1, <2>2
  <2>. QED
    BY <2>1, <2>3 DEF IntentInv
<1>17. CASE FailIo \/ FailClear
  BY <1>17 DEF FailIo, FailClear, Fault, OneKindOfCrash
<1>18. CASE Wait \/ OpenCorrupt \/ UNCHANGED vars
  BY <1>0, <1>18 DEF Wait, OpenCorrupt, vars, disk, process, IntentInv
<1>19. ASSUME NEW p \in Paths, NEW c \in Contents \cup {None}, Edit(p, c)
       PROVE  IntentInv'
  BY <1>0, <1>19 DEF Edit, disk, process, IntentInv
<1>. QED
  BY <1>3, <1>4, <1>5, <1>6, <1>7, <1>8, <1>9, <1>10, <1>11, <1>12, <1>13, <1>14, <1>15, <1>16,
     <1>17, <1>18, <1>19
  DEF Next, Save, Commit, Recover

(* A file nobody else touched holds its document's head, or the bytes of a *)
(* commit between its replacement and its append; after a crash, what it   *)
(* holds instead is the object of an uncommitted intent that recovery has  *)
(* still to visit.                                                         *)
Covered(p, left) ==
  \/ visible[p] = ObjectAt(journal, p)
  \/ \E i \in left : i.path = p /\ i.object = visible[p] /\ i.rev \notin RevsOf(journal)

CoverInv ==
  \A p \in Paths \ touched :
    /\ pc \in {"down", "recover"} => Covered(p, intents)
    /\ pc = "drop" => Covered(p, intents \ {cur})
    /\ pc \notin {"down", "recover", "drop"} =>
         visible[p] = IF pc = "append" /\ p = cur.path THEN cur.object ELSE ObjectAt(journal, p)

LEMMA CoverInit == Init => CoverInv
<1> SUFFICES ASSUME Init PROVE CoverInv
  OBVIOUS
<1>1. journal = <<>> /\ DOMAIN journal = {} /\ pc = "idle"
  BY DEF Init
<1>2. \A x : HeadAt(journal, x) = 0
  BY <1>1 DEF HeadAt, Last
<1>3. \A p \in Paths : ObjectAt(journal, p) = None /\ visible[p] = None
  BY <1>2 DEF Init, ObjectAt, HeadObject
<1>. QED
  BY <1>1, <1>3 DEF CoverInv

(* Visiting an intent leaves its file covered by the others. *)
LEMMA ReconcileCovers ==
  ASSUME OneKindOfCrash, TypeInv, HistoryInv, IntentInv, CoverInv,
         NEW i \in todo, Reconcile(i)
  PROVE  CoverInv'
<1>1. /\ pc = "recover" /\ pc' = "drop" /\ cur' = i /\ i \in intents /\ i \in Record
      /\ UNCHANGED <<journal, index, intents>> /\ SetVisible(i.path, Repaired(i))
  BY DEF Reconcile, disk, IntentInv, TypeInv, TypeOK
<1>2. index = journal /\ journal \in Seq(Record)
  BY <1>1 DEF HistoryInv, TypeInv, TypeOK
<1>3. Undoable(journal, i)
  BY <1>1 DEF IntentInv
<1>4. i.path \in Paths /\ i.doc \in RevId /\ visible \in [Paths -> Contents \cup {None}]
  BY <1>1 DEF Record, TypeInv, TypeOK
<1>5. HeadObject(index, i.doc) = ObjectAt(journal, i.path)
  BY <1>2, <1>3, <1>4, HeadAtItsPath DEF Undoable
<1>6. ~Committed(i) => ParentObject(i) = ObjectAt(journal, i.path)
  <2>1. ~Committed(i) => i.parent = HeadRev(index, i.doc)
    BY <1>2, <1>3 DEF Committed, Undoable
  <2>2. HeadRev(index, i.doc) = NoRev => HeadObject(index, i.doc) = None
    BY <1>2, HeadPair
  <2>. QED
    BY <1>5, <2>1, <2>2 DEF ParentObject
<1>7. /\ \A p \in Paths : visible'[p] = IF p = i.path THEN Repaired(i) ELSE visible[p]
      /\ touched' = IF visible[i.path] = Repaired(i) THEN touched ELSE touched \ {i.path}
  BY <1>1, <1>4 DEF SetVisible
<1>8. ASSUME NEW p \in Paths \ touched'
      PROVE  visible'[p] = ObjectAt(journal, p) \/
               \E g \in intents \ {i} : g.path = p /\ g.object = visible'[p] /\ g.rev \notin RevsOf(journal)
  <2>1. CASE p # i.path
    <3>1. Covered(p, intents) /\ visible'[p] = visible[p]
      BY <1>1, <1>7, <1>8, <2>1 DEF CoverInv
    <3>. QED
      BY <2>1, <3>1 DEF Covered
  <2>2. CASE p = i.path /\ (Restores(i) \/ RollsBack(i))
    <3>1. Repaired(i) = ObjectAt(journal, p)
      BY <1>5, <1>6, <2>2 DEF Repaired, RollsBack, Restores
    <3>. QED
      BY <1>7, <2>2, <3>1
  <2>3. CASE p = i.path /\ ~Restores(i) /\ ~RollsBack(i)
    <3>1. visible'[p] = visible[p] /\ p \notin touched
      BY <1>7, <1>8, <2>3 DEF Repaired
    <3>2. Covered(p, intents)
      BY <1>1, <3>1 DEF CoverInv
    <3>3. CASE Committed(i)
      BY <1>2, <3>1, <3>2, <3>3 DEF Covered, Committed
    <3>4. CASE ~Committed(i) /\ visible[p] # i.object
      BY <3>1, <3>2, <3>4 DEF Covered
    <3>5. CASE ~Committed(i) /\ visible[p] = i.object
      BY <1>6, <2>3, <3>1, <3>5 DEF RollsBack
    <3>. QED
      BY <3>3, <3>4, <3>5
  <2>. QED
    BY <2>1, <2>2, <2>3
<1>. QED
  BY <1>1, <1>8 DEF CoverInv, Covered

LEMMA CoverNext ==
  ASSUME OneKindOfCrash, TypeInv, HistoryInv, StoredInv, PlaceInv, FiledInv,
         IntentInv, CoverInv, [Next]_vars
  PROVE  CoverInv'
<1>1. pc \in CommitSteps => cur \in Record
  BY DEF TypeInv, TypeOK
<1>2. visible \in [Paths -> Contents \cup {None}] /\ journal \in Seq(Record)
  BY DEF TypeInv, TypeOK
(* Steps that change neither the files nor the journal. *)
<1>3. ASSUME UNCHANGED <<visible, touched, journal>>,
             pc \notin {"down", "recover", "drop", "append"},
             pc' \notin {"down", "recover", "drop", "append"}
      PROVE  CoverInv'
  BY <1>3 DEF CoverInv
<1>4. CASE Request
  BY <1>3, <1>4 DEF Request, SaveByPath, SaveById, ScanBegin, Serve, disk
<1>5. CASE Scan
  BY <1>3, <1>5 DEF Scan, ScanSave, ScanDone, Serve, Goto, disk
<1>6. CASE ConvertExternal \/ PassGuard \/ RefuseStaleBase \/ RefuseLeaseHeld \/ BeginCommit
  BY <1>3, <1>6
  DEF ConvertExternal, PassGuard, RefuseStaleBase, RefuseLeaseHeld, BeginCommit, StartCommit,
      Reply, disk
<1>7. CASE PutObject \/ SyncObject \/ RegisterIntent
  BY <1>3, <1>7 DEF PutObject, SyncObject, RegisterIntent, Goto
<1>8. CASE ReplaceVisible
  <2>1. /\ pc = "replace" /\ pc' = "append" /\ cur' = cur /\ journal' = journal
        /\ SetVisible(cur.path, cur.object) /\ cur.path \in Paths
    BY <1>1, <1>8 DEF ReplaceVisible, Goto, disk, CommitSteps, Record
  <2>2. \A p \in Paths : visible'[p] = IF p = cur.path THEN cur.object ELSE visible[p]
    BY <1>2, <2>1 DEF SetVisible
  <2>3. \A p \in Paths \ touched' : p # cur.path => p \in Paths \ touched
    BY <2>1 DEF SetVisible
  <2>. QED
    BY <2>1, <2>2, <2>3 DEF CoverInv
<1>9. CASE AppendRecord
  <2>1. /\ pc = "append" /\ pc' = "clear" /\ visible' = visible
        /\ journal' = Append(journal, cur)
        /\ touched' = IF visible[cur.path] = cur.object THEN touched \ {cur.path} ELSE touched
    BY <1>9 DEF AppendRecord, WriteLine, Goto, HistoryInv
  <2>2. \A p : ObjectAt(journal', p) = IF p = cur.path THEN cur.object ELSE ObjectAt(journal, p)
    BY <1>1, <1>2, <2>1, CurKeepsPath, AppendObject DEF CommitSteps
  <2>3. ASSUME NEW p \in Paths \ touched' PROVE visible'[p] = ObjectAt(journal', p)
    <3>1. CASE p \notin touched
      BY <2>1, <2>2, <2>3, <3>1 DEF CoverInv
    <3>2. CASE p \in touched
      <4>1. p = cur.path /\ visible[p] = cur.object
        BY <2>1, <2>3, <3>2
      <4>. QED
        BY <2>1, <2>2, <4>1
    <3>. QED
      BY <3>1, <3>2
  <2>. QED
    BY <2>1, <2>3 DEF CoverInv
<1>10. CASE ClearIntent
  BY <1>3, <1>10 DEF ClearIntent, FinishCommit, Reply
<1>11. CASE Open
  <2>1. pc = "down" /\ pc' = "recover" /\ UNCHANGED <<visible, touched, journal, intents>>
    BY <1>11 DEF Open
  <2>. QED
    BY <2>1 DEF CoverInv, Covered
<1>12. ASSUME NEW i \in todo, Reconcile(i)
       PROVE  CoverInv'
  BY <1>12, ReconcileCovers
<1>13. CASE DropIntent
  <2>1. /\ pc = "drop" /\ pc' = "recover" /\ UNCHANGED <<visible, touched, journal>>
        /\ intents' = intents \ {cur}
    BY <1>13 DEF DropIntent
  <2>. QED
    BY <2>1 DEF CoverInv, Covered
<1>14. CASE Ready
  <2>1. /\ pc = "recover" /\ pc' = "idle" /\ UNCHANGED <<visible, touched, journal>> /\ intents = {}
    BY <1>14 DEF Ready, Goto, disk, IntentInv
  <2>. QED
    BY <2>1 DEF CoverInv, Covered
<1>15. CASE OpenFails
  <2>1. pc = "recover" /\ pc' = "down" /\ UNCHANGED <<visible, touched, journal, intents>>
    BY <1>15 DEF OpenFails, Fault, Down, disk, OneKindOfCrash
  <2>. QED
    BY <2>1 DEF CoverInv, Covered
<1>16. CASE Kill \/ PowerLoss
  <2>1. /\ journal' = journal \/ (pc = "append" /\ journal' = Append(journal, cur))
        /\ pc' = "down" /\ UNCHANGED <<visible, touched>> /\ intents \subseteq intents'
    BY <1>16, CrashLeaves
  <2>2. ASSUME NEW p \in Paths \ touched
        PROVE  \/ visible[p] = ObjectAt(journal', p)
               \/ \E i \in intents' : /\ i.path = p /\ i.object = visible[p]
                                      /\ i.rev \notin RevsOf(journal')
    <3>1. CASE pc \in {"down", "recover", "drop"}
      <4>1. journal' = journal /\ Covered(p, intents)
        BY <2>1, <2>2, <3>1 DEF CoverInv, Covered
      <4>. QED
        BY <2>1, <4>1 DEF Covered
    <3>2. CASE pc \notin {"down", "recover", "drop", "append"}
      <4>1. journal' = journal
        BY <2>1, <3>2
      <4>2. visible[p] = ObjectAt(journal, p)
        BY <2>2, <3>2 DEF CoverInv
      <4>. QED
        BY <4>1, <4>2
    <3>3. CASE pc = "append"
      <4>1. visible[p] = IF p = cur.path THEN cur.object ELSE ObjectAt(journal, p)
        BY <2>2, <3>3 DEF CoverInv
      <4>2. CASE journal' = Append(journal, cur)
        <5>1. ObjectAt(Append(journal, cur), p) = IF p = cur.path THEN cur.object ELSE ObjectAt(journal, p)
          BY <1>1, <1>2, <3>3, CurKeepsPath, AppendObject DEF CommitSteps
        <5>. QED
          BY <4>1, <4>2, <5>1
      <4>3. CASE journal' = journal /\ p # cur.path
        BY <4>1, <4>3
      <4>4. CASE journal' = journal /\ p = cur.path
        <5>1. cur \in intents' /\ cur.rev \notin RevsOf(journal)
          BY <2>1, <3>3 DEF IntentInv, HistoryInv, CommitSteps
        <5>. QED
          BY <4>1, <4>4, <5>1
      <4>. QED
        BY <2>1, <4>2, <4>3, <4>4
    <3>. QED
      BY <3>1, <3>2, <3>3
  <2>. QED
    BY <2>1, <2>2 DEF CoverInv, Covered
<1>17. CASE FailIo \/ FailClear
  BY <1>17 DEF FailIo, FailClear, Fault, OneKindOfCrash
<1>18. CASE Wait \/ OpenCorrupt \/ UNCHANGED vars
  BY <1>18 DEF Wait, OpenCorrupt, vars, disk, process, CoverInv, Covered
<1>19. ASSUME NEW q \in Paths, NEW c \in Contents \cup {None}, Edit(q, c)
       PROVE  CoverInv'
  <2>1. /\ UNCHANGED <<journal, intents, cur, pc>> /\ touched' = touched \cup {q}
        /\ \A p \in Paths : p # q => visible'[p] = visible[p]
    BY <1>2, <1>19 DEF Edit, disk, process
  <2>2. ASSUME NEW p \in Paths \ touched'
        PROVE  p \in Paths \ touched /\ visible'[p] = visible[p]
    BY <2>1, <2>2
  <2>. QED
    BY <2>1, <2>2 DEF CoverInv, Covered
<1>. QED
  BY <1>4, <1>5, <1>6, <1>7, <1>8, <1>9, <1>10, <1>11, <1>12, <1>13, <1>14, <1>15, <1>16,
     <1>17, <1>18, <1>19
  DEF Next, Save, Commit, Recover

(* The invariants of a vault whose crashes are of one kind. *)
CrashInv == TypeInv /\ HistoryInv /\ StoredInv /\ PlaceInv /\ FiledInv /\ IntentInv /\ CoverInv

LEMMA CrashInvHolds ==
  ASSUME OneKindOfCrash
  PROVE  Spec => []CrashInv
<1>1. Init => CrashInv
  BY TypeInit, HistoryInit, StoredInit, PlaceInit, FiledInit, IntentInit, CoverInit DEF CrashInv
<1>2. ASSUME CrashInv, [Next]_vars
      PROVE  CrashInv'
  <2>1. TypeInv' /\ HistoryInv' /\ StoredInv'
    BY <1>2, TypeNext, HistoryNext, StoredNext DEF CrashInv, OneKindOfCrash
  <2>2. PlaceInv' /\ FiledInv'
    BY <1>2, PlaceNext, FiledNext DEF CrashInv, OneKindOfCrash
  <2>3. IntentInv' /\ CoverInv'
    BY <1>2, IntentNext, CoverNext DEF CrashInv
  <2>. QED
    BY <2>1, <2>2, <2>3 DEF CrashInv
<1>. QED
  BY <1>1, <1>2, PTL DEF Spec

(* Through kills alone, or power losses alone, at any step, with an editor *)
(* that writes whenever it likes: bytes the engine put into a file that    *)
(* are not the head's are those of a registered intent at its path.        *)
THEOREM IntentCoversHolds ==
  ASSUME OneKindOfCrash
  PROVE  Spec => []IntentCovers
<1>1. ASSUME IntentInv, CoverInv
      PROVE  IntentCovers
  <2>1. SUFFICES ASSUME NEW p \in Paths \ touched
                 PROVE  \/ visible[p] = ObjectAt(journal, p)
                        \/ \E i \in intents : i.path = p /\ i.object = visible[p]
    BY DEF IntentCovers
  <2>2. CASE pc \in {"down", "recover", "drop"}
    BY <1>1, <2>2 DEF CoverInv, Covered
  <2>3. CASE pc = "append" /\ p = cur.path
    BY <1>1, <2>3 DEF CoverInv, IntentInv
  <2>4. CASE pc \notin {"down", "recover", "drop"} /\ ~(pc = "append" /\ p = cur.path)
    BY <1>1, <2>4 DEF CoverInv
  <2>. QED
    BY <2>2, <2>3, <2>4
<1>. QED
  BY <1>1, CrashInvHolds, PTL DEF CrashInv

(* Through kills alone, or power losses alone, at any step and the         *)
(* recoveries after them: when the vault is at rest, every file that       *)
(* nobody changed after the engine holds the head of its document          *)
(* (reconcile's W4, W5 and W6).                                            *)
THEOREM RestFaithfulHolds ==
  ASSUME OneKindOfCrash
  PROVE  Spec => []RestFaithful
<1>1. ASSUME HistoryInv, CoverInv
      PROVE  RestFaithful
  <2>1. pc = "idle" => index = journal
    BY <1>1 DEF HistoryInv
  <2>2. pc = "idle" => \A p \in Paths \ touched : visible[p] = ObjectAt(journal, p)
    BY <1>1 DEF CoverInv
  <2>. QED
    BY <2>1, <2>2 DEF RestFaithful
<1>. QED
  BY <1>1, CrashInvHolds, PTL DEF CrashInv

(* Through kills alone, or power losses alone, the vault can always be     *)
(* opened: its journal is one the index accepts, and every object that     *)
(* recovery wants to put into a file is in the store, so that neither      *)
(* JournalCorrupt nor ObjectMissing ever locks the user out.               *)
THEOREM AlwaysOpens ==
  ASSUME OneKindOfCrash
  PROVE  Spec => [](Chained(journal) /\ (pc = "recover" => \A i \in todo : Readable(i)))
<1>1. ASSUME CrashInv, pc = "recover", NEW i \in todo
      PROVE  Readable(i)
  <2>1. index = journal /\ journal \in Seq(Record)
    BY <1>1 DEF CrashInv, HistoryInv, TypeInv, TypeOK
  <2>2. HeadObject(journal, i.doc) \in objects \cup {None}
    <3>1. CASE HeadRev(journal, i.doc) = NoRev
      BY <2>1, <3>1, HeadPair
    <3>2. CASE HeadRev(journal, i.doc) # NoRev
      <4>1. PICK k \in DOMAIN journal : journal[k].object = HeadObject(journal, i.doc)
        BY <2>1, <3>2, HeadPair
      <4>. QED
        BY <1>1, <4>1 DEF CrashInv, StoredInv, Kept
    <3>. QED
      BY <3>1, <3>2
  <2>3. Repaired(i) \in {HeadObject(journal, i.doc), None, visible[i.path]}
    BY <2>1 DEF Repaired, ParentObject
  <2>. QED
    BY <2>2, <2>3 DEF Readable
<1>2. CrashInv => Chained(journal) /\ (pc = "recover" => \A i \in todo : Readable(i))
  BY <1>1 DEF CrashInv, HistoryInv
<1>. QED
  BY <1>2, CrashInvHolds, PTL

(* The steps that change a visible file. *)
LEMMA VisibleSteps ==
  ASSUME TypeInv, [Next]_vars
  PROVE  \/ visible' = visible
         \/ ReplaceVisible
         \/ FailIo
         \/ \E i \in todo : Reconcile(i)
         \/ \E p \in Paths, c \in Contents \cup {None} : Edit(p, c)
<1>1. CASE Request
  BY <1>1 DEF Request, SaveByPath, SaveById, ScanBegin, Serve
<1>2. CASE Save
  BY <1>2 DEF Save, ConvertExternal, PassGuard, RefuseStaleBase, RefuseLeaseHeld, BeginCommit,
              StartCommit, Commit, PutObject, SyncObject, RegisterIntent, AppendRecord, ClearIntent
<1>3. CASE Scan
  BY <1>3 DEF Scan, ScanSave, ScanDone, Serve
<1>4. CASE Recover
  BY <1>4 DEF Recover, Open, DropIntent, Ready, OpenFails
<1>5. CASE Kill \/ PowerLoss \/ FailClear \/ OpenCorrupt \/ Wait \/ UNCHANGED vars
  BY <1>5 DEF Kill, PowerLoss, FailClear, OpenCorrupt, Wait, vars
<1>. QED
  BY <1>1, <1>2, <1>3, <1>4, <1>5 DEF Next

LEMMA BytesStayStep ==
  ASSUME OneKindOfCrash, CrashInv, GuardInv, [Next]_vars,
         NEW p \in Paths, p \notin touched', visible[p] \notin {None, visible'[p]}
  PROVE  visible[p] \in objects
<1>1. visible \in [Paths -> Contents \cup {None}] /\ TypeInv
  BY DEF CrashInv, TypeInv, TypeOK
<1>2. CASE ReplaceVisible
  <2>1. /\ pc = "replace" /\ visible' = [visible EXCEPT ![cur.path] = cur.object]
        /\ cur.path = op.path
    BY <1>2 DEF ReplaceVisible, SetVisible, CrashInv, PlaceInv, CommitSteps
  <2>2. p = cur.path /\ visible[p] = HeadObject(index, op.doc)
    BY <1>1, <2>1 DEF GuardInv
  <2>3. index = journal /\ journal \in Seq(Record)
    BY <2>1 DEF CrashInv, HistoryInv, TypeInv, TypeOK
  <2>4. \E i \in DOMAIN journal : journal[i].object = HeadObject(journal, op.doc)
    BY <2>2, <2>3, HeadPair
  <2>. QED
    BY <2>2, <2>3, <2>4 DEF CrashInv, StoredInv, Kept
<1>3. ASSUME NEW i \in todo, Reconcile(i)
      PROVE  visible[p] \in objects
  <2>1. pc = "recover" /\ visible' = [visible EXCEPT ![i.path] = Repaired(i)] /\ i \in intents
    BY <1>3 DEF Reconcile, SetVisible, CrashInv, IntentInv
  <2>2. p = i.path /\ Repaired(i) # visible[p]
    BY <1>1, <2>1
  <2>3. visible[p] = i.object
    BY <2>2 DEF Repaired, Restores, RollsBack
  <2>. QED
    BY <2>1, <2>3 DEF CrashInv, IntentInv, Kept
<1>4. ASSUME NEW q \in Paths, NEW c \in Contents \cup {None}, Edit(q, c)
      PROVE  visible[p] \in objects
  <2>1. touched' = touched \cup {q} /\ visible' = [visible EXCEPT ![q] = c]
    BY <1>4 DEF Edit
  <2>2. p # q
    BY <2>1
  <2>3. visible'[p] = visible[p]
    BY <1>1, <2>1, <2>2
  <2>. QED
    BY <2>3
<1>5. ~FailIo
  BY DEF FailIo, Fault, OneKindOfCrash
<1>6. visible' # visible
  OBVIOUS
<1>. QED
  BY <1>1, <1>2, <1>3, <1>4, <1>5, <1>6, VisibleSteps

(* Through kills alone, or power losses alone, at any step, the engine     *)
(* replaces or removes no bytes the object store does not have, as long as *)
(* nobody writes the files between the guard's look at one and the end of  *)
(* its commit.                                                             *)
THEOREM BytesStayInStoreHolds ==
  ASSUME OneKindOfCrash, EditAt \cap ({"check"} \cup CommitSteps) = {}
  PROVE  Spec => BytesStayInStore
<1>1. CrashInv => TypeInv /\ PlaceInv
  BY DEF CrashInv
<1>2. TypeInv /\ PlaceInv /\ GuardInv /\ [Next]_vars => GuardInv'
  BY GuardNext
<1>3. CrashInv /\ GuardInv /\ [Next]_vars =>
        [\A p \in Paths :
           p \notin touched' /\ visible[p] \notin {None, visible'[p]} => visible[p] \in objects]_vars
  BY BytesStayStep
<1>. QED
  BY <1>1, <1>2, <1>3, CrashInvHolds, GuardInit, PTL DEF Spec, BytesStayInStore

-------------------------------------------------------------------------------
(* No forks.                                                               *)

(* A step of VaultHistory adds a revision that is not there, or drops some. *)
LEMMA OneEachNext ==
  ASSUME "io" \notin Faults, TypeInv, HistoryInv, OneEach(journal), [Next]_vars
  PROVE  OneEach(journal')
<1>1. /\ History!Record = Record
      /\ \A log : History!RevsOf(log) = RevsOf(log)
  BY DEF History!Record, Record, History!RevId, RevId, History!NoRev, NoRev,
         History!RevsOf, RevsOf
<1>2. journal \in Seq(Record)
  BY DEF TypeInv, TypeOK
<1>3. [History!HNext]_(History!hvars)
  BY RefinementStep
<1>4. ASSUME NEW r \in Record, History!Commit(r)
      PROVE  OneEach(journal')
  <2>1. journal' = Append(journal, r) /\ r.rev \notin RevsOf(journal)
    BY <1>1, <1>4 DEF History!Commit
  <2>. QED
    BY <1>2, <2>1, AppendOneEach
<1>5. ASSUME NEW n \in 0..Len(journal), History!Lose(n)
      PROVE  OneEach(journal')
  <2>1. journal' = SubSeq(journal, 1, n)
    BY <1>5 DEF History!Lose
  <2>. QED
    BY <1>2, <2>1, PrefixOneEach
<1>6. CASE UNCHANGED journal
  BY <1>6
<1>. QED
  BY <1>1, <1>3, <1>4, <1>5, <1>6 DEF History!HNext, History!hvars

(* Through any kills and power losses, no two revisions of a document are  *)
(* committed on top of the same one: the base check and the parent taken   *)
(* from the index admit no lost update, and no crash lets a retry become a *)
(* second child.                                                           *)
THEOREM NeverForks ==
  ASSUME "io" \notin Faults
  PROVE  Spec => []Unforked(journal)
<1>1. TypeInv /\ HistoryInv /\ [Next]_vars => HistoryInv'
  BY HistoryNext
<1>2. TypeInv /\ HistoryInv /\ OneEach(journal) /\ [Next]_vars => OneEach(journal)'
  BY OneEachNext DEF OneEach
<1>3. Init => OneEach(journal)
  <2>1. DOMAIN <<>> = {}
    OBVIOUS
  <2>. QED
    BY <2>1 DEF Init, OneEach
<1>4. TypeInv /\ HistoryInv /\ OneEach(journal) => Unforked(journal)
  BY ChainsDoNotFork DEF TypeInv, TypeOK, HistoryInv
<1>. QED
  BY <1>1, <1>2, <1>3, <1>4, TypeInit, TypeNext, HistoryInit, PTL DEF Spec

-------------------------------------------------------------------------------
(* What a user's bytes can be lost to.                                     *)

(* The bytes at a path that recovery takes back are those of an intent     *)
(* whose commit did not reach the journal.                                 *)
TakenBack(p) == pc = "recover" /\ \E i \in todo : i.path = p /\ RollsBack(i)

LEMMA KeepsOrTakesBack ==
  ASSUME "io" \notin Faults, TypeInv, HistoryInv, PlaceInv, GuardInv, [Next]_vars,
         NEW p \in touched \ touched', visible[p] \notin {None, visible'[p]}
  PROVE  Recorded(p, visible[p]) \/ TakenBack(p)
<1>1. visible \in [Paths -> Contents \cup {None}] /\ p \in Paths
  BY DEF TypeInv, TypeOK
<1>2. CASE ReplaceVisible
  <2>1. /\ pc = "replace" /\ visible' = [visible EXCEPT ![cur.path] = cur.object]
        /\ cur.path = op.path /\ pc \in InSave
    BY <1>2 DEF ReplaceVisible, SetVisible, PlaceInv, CommitSteps, InSave
  <2>2. p = op.path /\ visible[p] = HeadObject(index, op.doc)
    BY <1>1, <2>1 DEF GuardInv
  <2>3. index = journal /\ journal \in Seq(Record)
    BY <2>1 DEF HistoryInv, TypeInv, TypeOK
  <2>4. HeadAt(journal, op.doc) # 0 /\ visible[p] = journal[HeadAt(journal, op.doc)].object
    BY <2>2, <2>3 DEF HeadObject
  <2>5. /\ HeadAt(journal, op.doc) \in DOMAIN journal
        /\ journal[HeadAt(journal, op.doc)].doc = op.doc
    BY <2>3, <2>4, LastRecord, LenProperties
  <2>6. journal[HeadAt(journal, op.doc)].path = p
    BY <2>1, <2>2, <2>5 DEF PlaceInv, Written
  <2>. QED
    BY <2>4, <2>5, <2>6 DEF Recorded
<1>3. ASSUME NEW i \in todo, Reconcile(i)
      PROVE  TakenBack(p)
  <2>1. pc = "recover" /\ visible' = [visible EXCEPT ![i.path] = Repaired(i)]
    BY <1>3 DEF Reconcile, SetVisible
  <2>2. p = i.path /\ Repaired(i) # visible[p]
    BY <1>1, <2>1
  <2>3. RollsBack(i)
    BY <2>2 DEF Repaired, Restores
  <2>. QED
    BY <2>1, <2>2, <2>3 DEF TakenBack
<1>4. ~\E q \in Paths, c \in Contents \cup {None} : Edit(q, c)
  BY DEF Edit
<1>5. ~FailIo
  BY DEF FailIo, Fault
<1>6. visible' # visible
  OBVIOUS
<1>. QED
  BY <1>2, <1>3, <1>4, <1>5, <1>6, VisibleSteps

(* Through any kills and power losses, "Never clobber user bytes"          *)
(* (reconcile.rs) is broken by one step alone: a recovery that finds the   *)
(* bytes a user wrote in an intent of the conversion that was to record    *)
(* them, and takes them back.  Every other replacement of a user's bytes   *)
(* comes after they are a revision at their path, if nobody writes a file  *)
(* between the guard's look at it and the end of its commit.               *)
THEOREM OnlyRecoveryClobbers ==
  ASSUME "io" \notin Faults, EditAt \cap ({"check"} \cup CommitSteps) = {}
  PROVE  Spec => [][\A p \in touched \ touched' :
                      visible[p] \notin {None, visible'[p]} =>
                        Recorded(p, visible[p]) \/ TakenBack(p)]_vars
<1>1. TypeInv /\ HistoryInv /\ [Next]_vars => HistoryInv'
  BY HistoryNext
<1>2. TypeInv /\ PlaceInv /\ [Next]_vars => PlaceInv'
  BY PlaceNext
<1>3. TypeInv /\ PlaceInv /\ GuardInv /\ [Next]_vars => GuardInv'
  BY GuardNext
<1>4. TypeInv /\ HistoryInv /\ PlaceInv /\ GuardInv /\ [Next]_vars =>
        [\A p \in touched \ touched' :
           visible[p] \notin {None, visible'[p]} => Recorded(p, visible[p]) \/ TakenBack(p)]_vars
  BY KeepsOrTakesBack
<1>. QED
  BY <1>1, <1>2, <1>3, <1>4, TypeInit, TypeNext, HistoryInit, PlaceInit, GuardInit, PTL DEF Spec
==============================================================================
