---------------------------- MODULE PriceStoreProofs ----------------------------
(***************************************************************************)
(* Theorems about PriceStore, for any keys, writers and searches and any     *)
(* number of edits.                                                        *)
(***************************************************************************)
EXTENDS PriceStore, TLAPS

(* A writer that is not idle knows its key, a day to come, and its search.    *)
WriterKnowsKey ==
  \A w \in Writer : writer[w].at # "idle" =>
    writer[w].key \in Key \ past /\ writer[w].search \in Search

(* Who has upserted a key has its row; whoever has a row has upserted it.    *)
RowIsLocked ==
  /\ \A w \in Writer : HasRow(w) => rowLock[writer[w].key] = w
  /\ \A k \in Key : rowLock[k] \in Writer =>
       writer[rowLock[k]].key = k /\ HasRow(rowLock[k])

(* The foreign key: the group outlives the transactions that refer to it, and *)
(* once its deletion cascades none comes that would insert a price.          *)
RowNeedsGroup ==
  \A w \in Writer : HasRow(w) => exists /\ (editor.at = "cascading" => ~HoldsGroup(w))

Stripping == editor.at \in {"stripping", "unlogging", "emptied", "cascading"}

(* Behind the lock on a row nothing is added to the offers a DELETE has seen,  *)
(* and the editor leaves none of them unlocked.                              *)
SeenIsAll ==
  /\ \A w \in Writer : writer[w].at = "replaced" => results[writer[w].key] \subseteq writer[w].old
  /\ Stripping => \A k \in Key : rowLock[k] = Editor =>
       /\ results[k] \subseteq editor.old[k]
       /\ \/ results[k] = {}
          \/ offerLock[k] = Editor
          \/ editor.at = "stripping" /\ k \in editor.wanted

Inv ==
  /\ WriterKnowsKey
  /\ RowIsLocked
  /\ RowNeedsGroup
  /\ SeenIsAll
  /\ OffersOfCheapest
  /\ NothingOutlivesGroup

(***************************************************************************)
(* Types.                                                                  *)
(***************************************************************************)

LEMMA FreedType ==
  ASSUME NEW S, NEW lock \in [Key -> S], NEW x, Nobody \in S
  PROVE  Freed(lock, x) \in [Key -> S]
BY DEF Freed

LEMMA WriterStepType ==
  ASSUME TypeOK, WriterKnowsKey, NEW w \in Writer, WriterStep(w) \/ Rollback(w)
  PROVE  TypeOK'
<1> USE SearchAssumption DEF TypeOK, committed, locks, run, WriterState, WriterKnowsKey
<1>1. CASE SendUpsert(w)
  BY <1>1 DEF SendUpsert
<1>2. CASE Upsert(w)
  BY <1>2 DEF Upsert
<1>3. CASE Rollback(w)
  BY <1>3, FreedType DEF Rollback, IdleWriter
<1>4. CASE DeleteResults(w)
  BY <1>4 DEF DeleteResults, Replaced, Transaction
<1>5. CASE Commit(w)
  BY <1>5, FreedType DEF Commit, IdleWriter
<1>6. QED
  BY <1>1, <1>2, <1>3, <1>4, <1>5 DEF WriterStep, Refused

LEMMA EditorStepType ==
  ASSUME TypeOK, (\E edit \in Edits : BeginClear(edit)) \/ EditorStep \/ AbandonEdit
  PROVE  TypeOK'
<1> USE EditsAssumption, VersionAssumption DEF TypeOK, committed, locks, run, EditorState
<1>1. ASSUME NEW edit \in Edits, BeginClear(edit)
      PROVE  TypeOK'
  BY <1>1 DEF BeginClear
<1>2. ASSUME NEW k \in Key, ClearRow(k)
      PROVE  TypeOK'
  BY <1>2 DEF ClearRow
<1>3. CASE ClearResults
  BY <1>3 DEF ClearResults
<1>4. ASSUME NEW k \in Key, ClearOffers(k)
      PROVE  TypeOK'
  BY <1>4 DEF ClearOffers, Transaction
<1>5. CASE AllStripped \/ LockGroup
  BY <1>5 DEF AllStripped, LockGroup
<1>6. CASE ClearLogs
  BY <1>6 DEF ClearLogs
<1>7. CASE CommitUpdate
  <2>1. /\ rowLock' \in [Key -> Writer \cup {Nobody, Editor}]
        /\ offerLock' \in [Key -> Transaction \cup {Nobody}]
    BY <1>7, FreedType DEF CommitUpdate
  <2>2. cheapest' \in [Key -> Search \cup {0}] /\ results' \in [Key -> SUBSET Search]
    BY <1>7 DEF CommitUpdate
  <2>3. QED
    BY <1>7, <2>1, <2>2 DEF CommitUpdate, IdleEditor
<1>8. CASE DeleteGroup
  BY <1>8, FreedType DEF DeleteGroup, IdleEditor
<1>9. CASE AbandonEdit
  BY <1>9, FreedType DEF AbandonEdit, IdleEditor
<1>10. QED
  BY <1>1, <1>2, <1>3, <1>4, <1>5, <1>6, <1>7, <1>8, <1>9 DEF EditorStep

LEMMA PurgeStepType ==
  ASSUME TypeOK, (\E k \in Key : Departs(k)) \/ PurgeLogs \/ PurgeStep \/ PurgeFails
  PROVE  TypeOK'
<1> USE PastAssumption DEF TypeOK, committed, locks, run, PurgeState
<1>1. ASSUME NEW k \in Key, Departs(k)
      PROVE  TypeOK'
  BY <1>1 DEF Departs
<1>2. CASE PurgeLogs
  BY <1>2 DEF PurgeLogs
<1>3. CASE BeginPurge
  BY <1>3 DEF BeginPurge
<1>4. ASSUME NEW k \in Key, PurgeRow(k)
      PROVE  TypeOK'
  BY <1>4 DEF PurgeRow, Transaction
<1>5. CASE PurgeCommit
  BY <1>5, FreedType DEF PurgeCommit, IdlePurge
<1>6. CASE PurgeFails
  BY <1>6, FreedType DEF PurgeFails, IdlePurge
<1>7. QED
  BY <1>1, <1>2, <1>3, <1>4, <1>5, <1>6 DEF PurgeStep

LEMMA StepType ==
  ASSUME TypeOK, Inv, [Next]_vars
  PROVE  TypeOK'
<1>1. CASE LoadGroup
  BY <1>1 DEF LoadGroup, TypeOK, committed, locks
<1>2. ASSUME NEW w \in Writer, NEW k \in Key, NEW s \in Search, BeginSearch(w, k, s)
      PROVE  TypeOK'
  BY <1>2 DEF BeginSearch, TypeOK, committed, locks, WriterState
<1>3. ASSUME NEW w \in Writer, WriterStep(w) \/ Rollback(w)
      PROVE  TypeOK'
  BY <1>3, WriterStepType DEF Inv
<1>4. CASE (\E edit \in Edits : BeginClear(edit)) \/ EditorStep \/ AbandonEdit
  BY <1>4, EditorStepType
<1>5. CASE (\E k \in Key : Departs(k)) \/ PurgeLogs \/ PurgeStep \/ PurgeFails
  BY <1>5, PurgeStepType
<1>6. CASE UNCHANGED vars
  BY <1>6 DEF vars, committed, locks, run, TypeOK
<1>7. QED
  BY <1>1, <1>2, <1>3, <1>4, <1>5, <1>6 DEF Next

(***************************************************************************)
(* What it means not to wait.                                              *)
(***************************************************************************)

LEMMA Names == Nobody \notin Transaction /\ Editor \notin Writer /\ Purge \notin Writer
               /\ Editor # Purge /\ Nobody # Editor /\ 0 \notin Search
BY SearchAssumption, WriterAssumption DEF Nobody, Editor, Purge, Transaction

(* What a writer that waits for nobody finds. *)
LEMMA WriterGoesOn ==
  ASSUME TypeOK, Inv, NEW w \in Writer, WaitsFor(w) = {}
  PROVE  /\ writer[w].at = "upserting" => rowLock[writer[w].key] = Nobody
         /\ writer[w].at = "upserting" /\ editor.at = "cascading" => cheapest[writer[w].key] # 0
         /\ writer[w].at = "replaced" => editor.at # "cascading"
<1> DEFINE k == writer[w].key
<1>1. \A y \in Transaction \ {w} : ~WriterWaits(w, y)
  BY DEF WaitsFor
<1>2. ASSUME writer[w].at = "upserting"
      PROVE  rowLock[k] = Nobody
  <2>1. k \in Key /\ rowLock[k] \in Writer \cup {Nobody, Editor} /\ ~HasRow(w)
    BY <1>2 DEF TypeOK, Inv, WriterKnowsKey, HasRow
  <2>2. rowLock[k] # w
    BY <2>1 DEF Inv, RowIsLocked
  <2>3. QED
    BY <1>1, <1>2, <2>1, <2>2, Names DEF WriterWaits, Transaction
<1>3. Editor \in Transaction \ {w}
  BY Names DEF Transaction
<1>4. QED
  BY <1>1, <1>2, <1>3 DEF WriterWaits

(* What a deletion that waits for nobody finds. *)
LEMMA DeletionGoesOn ==
  ASSUME TypeOK, WaitsFor(Editor) = {}
  PROVE  /\ editor.at = "emptied" /\ editor.edit = "delete" => \A w \in Writer : ~HoldsGroup(w)
         /\ editor.at = "cascading" => \A k \in Key : cheapest[k] # 0 => rowLock[k] \notin Writer
<1>1. \A w \in Writer : ~EditorWaits(w)
  BY Names DEF WaitsFor, Transaction
<1>2. QED
  BY <1>1 DEF EditorWaits

(***************************************************************************)
(* The invariant.  It says why the offers of two searches never mix: only    *)
(* one transaction at a time has a key's row, from before it reads the       *)
(* offers to its commit, and the others can only delete.                    *)
(***************************************************************************)

LEMMA InitInv == Init => TypeOK /\ Inv
BY SearchAssumption, WriterAssumption
DEF Init, TypeOK, Inv, WriterKnowsKey, RowIsLocked, RowNeedsGroup, SeenIsAll, OffersOfCheapest,
    NothingOutlivesGroup, HasRow, WriterState, EditorState, PurgeState, IdleWriter, IdleEditor,
    IdlePurge, Nobody, Editor, Purge, Transaction, Stripping

(* The steps of a writer preserve the invariant. *)
LEMMA WriterStepInv ==
  ASSUME TypeOK, Inv, NEW w \in Writer, WriterStep(w) \/ Rollback(w)
  PROVE  Inv'
<1> USE Names
<1> USE DEF TypeOK, committed, locks, run, WriterState, Inv, WriterKnowsKey, HasRow, Transaction
<1>0. writer[w] \in WriterState
  OBVIOUS
<1>1. CASE SendUpsert(w)
  <2>1. writer' = [writer EXCEPT ![w] = [writer[w] EXCEPT !.at = "upserting"]]
    BY <1>1 DEF SendUpsert
  <2>2. QED
    BY <1>0, <1>1, <2>1 DEF SendUpsert, RowIsLocked, RowNeedsGroup, SeenIsAll, OffersOfCheapest,
                            NothingOutlivesGroup, HoldsGroup, Stripping
<1>2. CASE Upsert(w)
  <2> DEFINE k == writer[w].key
  <2>1. /\ writer[w].at = "upserting"
        /\ writer' = [writer EXCEPT ![w] = [writer[w] EXCEPT !.at = "upserted"]]
        /\ rowLock' = [rowLock EXCEPT ![k] = w]
        /\ exists
        /\ UNCHANGED <<exists, cheapest, results, offerLock, editor, past>>
    BY <1>2 DEF Upsert
  <2>2. k \in Key /\ rowLock[k] = Nobody /\ (editor.at = "cascading" => cheapest[k] # 0)
    BY ONLY <1>2, <2>1, TypeOK, Inv, WriterGoesOn DEF Upsert, Inv, WriterKnowsKey
  <2>3. WriterKnowsKey'
    BY <1>0, <2>1
  <2>4. RowNeedsGroup'
    BY <1>0, <2>1, <2>2 DEF RowNeedsGroup, HoldsGroup
  <2>5. RowIsLocked'
    BY <1>0, <2>1, <2>2 DEF RowIsLocked
  <2>6. SeenIsAll'
    BY <1>0, <2>1, <2>2 DEF SeenIsAll, Stripping
  <2>7. QED
    BY <2>1, <2>3, <2>4, <2>5, <2>6 DEF OffersOfCheapest, NothingOutlivesGroup
<1>3. CASE Rollback(w)
  <2>1. /\ rowLock' = Freed(rowLock, w) /\ offerLock' = Freed(offerLock, w)
        /\ writer' = [writer EXCEPT ![w] = IdleWriter]
        /\ UNCHANGED <<exists, cheapest, results, editor, past>>
    BY <1>3 DEF Rollback
  <2>2. WriterKnowsKey' /\ RowNeedsGroup'
    BY <2>1 DEF IdleWriter, RowNeedsGroup, HoldsGroup
  <2>3. RowIsLocked'
    BY <2>1 DEF RowIsLocked, IdleWriter, Freed
  <2>4. SeenIsAll'
    BY <2>1 DEF SeenIsAll, Stripping, IdleWriter, Freed
  <2>5. QED
    BY <2>1, <2>2, <2>3, <2>4 DEF OffersOfCheapest, NothingOutlivesGroup
<1>4. CASE DeleteResults(w)
  <2>1. writer' = [writer EXCEPT ![w] = [writer[w] EXCEPT !.at = "replaced",
                                                         !.old = results[writer[w].key]]]
    BY <1>4 DEF DeleteResults, Replaced
  <2>2. /\ writer[w].at = "upserted"
        /\ offerLock' = [offerLock EXCEPT ![writer[w].key] = w]
        /\ UNCHANGED <<exists, cheapest, results, rowLock, editor, past>>
    BY <1>4 DEF DeleteResults
  <2>3. WriterKnowsKey' /\ RowNeedsGroup'
    BY <1>0, <2>1, <2>2 DEF RowNeedsGroup, HoldsGroup
  <2>4. RowIsLocked'
    BY <1>0, <2>1, <2>2 DEF RowIsLocked
  <2>5. rowLock[writer[w].key] = w
    BY <2>2 DEF RowIsLocked
  <2>6. SeenIsAll'
    BY <1>0, <2>1, <2>2, <2>5 DEF SeenIsAll, Stripping
  <2>7. QED
    BY <2>2, <2>3, <2>4, <2>6 DEF OffersOfCheapest, NothingOutlivesGroup
<1>5. CASE Commit(w)
  <2> DEFINE k == writer[w].key
             s == writer[w].search
  <2>1. k \in Key /\ s \in Search /\ rowLock[k] = w /\ exists /\ results[k] \subseteq writer[w].old
    BY <1>5 DEF Commit, RowIsLocked, RowNeedsGroup, SeenIsAll
  <2>2. /\ cheapest' = [cheapest EXCEPT ![k] = s]
        /\ results' = [results EXCEPT ![k] = {s}]
        /\ rowLock' = Freed(rowLock, w) /\ offerLock' = Freed(offerLock, w)
        /\ writer' = [writer EXCEPT ![w] = IdleWriter]
        /\ UNCHANGED <<exists, editor, past>>
    BY <1>5, <2>1 DEF Commit
  <2>3. \A v \in Writer \ {w} : HasRow(v) => writer[v].key \in Key /\ writer[v].key # k
    BY <2>1 DEF RowIsLocked
  <2>4. WriterKnowsKey' /\ RowNeedsGroup'
    BY <2>1, <2>2, <2>3 DEF IdleWriter, RowNeedsGroup, HoldsGroup
  <2>5. RowIsLocked'
    BY <2>1, <2>2 DEF RowIsLocked, IdleWriter, Freed
  <2>6. SeenIsAll'
    BY <2>1, <2>2, <2>3 DEF SeenIsAll, Stripping, IdleWriter, Freed
  <2>7. OffersOfCheapest' /\ NothingOutlivesGroup'
    BY <2>1, <2>2 DEF OffersOfCheapest, NothingOutlivesGroup
  <2>8. QED
    BY <2>4, <2>5, <2>6, <2>7
<1>6. QED
  BY <1>1, <1>2, <1>3, <1>4, <1>5 DEF WriterStep, Refused

(* What the commit of an update leaves of the offers of a key: all or none,   *)
(* and none where the price goes.                                           *)
LEMMA UpdateLeaves ==
  ASSUME TypeOK, Inv, CommitUpdate, NEW k \in Key
  PROVE  /\ results'[k] \in {results[k], {}}
         /\ cheapest'[k] = IF rowLock[k] = Editor THEN 0 ELSE cheapest[k]
         /\ rowLock[k] = Editor => results'[k] = {}
<1>1. results[k] \subseteq {cheapest[k]}
  BY DEF Inv, OffersOfCheapest
<1>2. results'[k] = IF offerLock[k] = Editor THEN results[k] \ editor.old[k] ELSE results[k]
  BY DEF CommitUpdate
<1>3. rowLock[k] = Editor =>
        results[k] = {} \/ (offerLock[k] = Editor /\ results[k] \subseteq editor.old[k])
  BY DEF Inv, SeenIsAll, Stripping, CommitUpdate
<1>4. QED
  BY <1>1, <1>2, <1>3 DEF CommitUpdate

(* The editor's locks are no writer's. *)
LEMMA RowsStay ==
  ASSUME TypeOK, Inv, UNCHANGED <<writer, past>>,
         \A k \in Key : rowLock'[k] \in Writer \/ rowLock[k] \in Writer => rowLock'[k] = rowLock[k]
  PROVE  WriterKnowsKey' /\ RowIsLocked'
<1> USE DEF Inv, WriterKnowsKey, HasRow, RowIsLocked
<1>1. WriterKnowsKey'
  OBVIOUS
<1>2. ASSUME NEW w \in Writer, HasRow(w)
      PROVE  rowLock'[writer[w].key] = w
  <2>1. writer[w].key \in Key /\ rowLock[writer[w].key] = w
    BY <1>2
  <2>2. QED
    BY <2>1
<1>3. ASSUME NEW k \in Key, rowLock'[k] \in Writer
      PROVE  writer[rowLock'[k]].key = k /\ HasRow(rowLock'[k])
  BY <1>3
<1>4. QED
  BY <1>1, <1>2, <1>3

(* The steps of an editor preserve it: what it could not lock it leaves as it *)
(* is or without offers, what it has locked it empties.                      *)
LEMMA EditorStepInv ==
  ASSUME TypeOK, Inv, (\E edit \in Edits : BeginClear(edit)) \/ EditorStep \/ AbandonEdit
  PROVE  Inv'
<1> USE Names
<1> USE DEF TypeOK, committed, locks, run, EditorState, Inv, WriterKnowsKey, HasRow, RowIsLocked,
            RowNeedsGroup, HoldsGroup, SeenIsAll, Stripping, OffersOfCheapest,
            NothingOutlivesGroup
<1>1. ASSUME NEW edit \in Edits, BeginClear(edit)
      PROVE  Inv'
  BY <1>1 DEF BeginClear
<1>2. ASSUME NEW k \in Key, ClearRow(k)
      PROVE  Inv'
  <2>1. /\ editor.at = "clearing" /\ editor' = [editor EXCEPT !.wanted = @ \ {k}]
        /\ rowLock[k] = Nobody /\ rowLock' = [rowLock EXCEPT ![k] = Editor]
        /\ UNCHANGED <<exists, cheapest, results, writer, past>>
    BY <1>2 DEF ClearRow
  <2>2. WriterKnowsKey' /\ RowIsLocked'
    BY ONLY TypeOK, Inv, Names, <2>1, RowsStay DEF TypeOK, Transaction
  <2>3. QED
    BY <2>1, <2>2
<1>3. CASE ClearResults
  BY <1>3 DEF ClearResults
<1>4. ASSUME NEW k \in Key, ClearOffers(k)
      PROVE  Inv'
  BY <1>4 DEF ClearOffers
<1>5. CASE AllStripped
  BY <1>5 DEF AllStripped
<1>6. CASE ClearLogs
  BY <1>6 DEF ClearLogs
<1>7. CASE CommitUpdate
  <2>1. /\ rowLock' = Freed(rowLock, Editor) /\ editor' = IdleEditor
        /\ UNCHANGED <<exists, writer, past>> /\ editor.at = "emptied"
    BY <1>7 DEF CommitUpdate
  <2>2. /\ \A k \in Key : results'[k] \in {results[k], {}}
        /\ \A k \in Key : cheapest'[k] = IF rowLock[k] = Editor THEN 0 ELSE cheapest[k]
        /\ \A k \in Key : rowLock[k] = Editor => results'[k] = {}
    BY ONLY TypeOK, Inv, <1>7, UpdateLeaves
  <2>3. WriterKnowsKey' /\ RowIsLocked'
    BY ONLY TypeOK, Inv, Names, <2>1, RowsStay DEF Freed, Transaction
  <2>4. RowNeedsGroup' /\ SeenIsAll'
    BY <2>1, <2>2 DEF IdleEditor
  <2>5. OffersOfCheapest' /\ NothingOutlivesGroup'
    BY <2>1, <2>2
  <2>6. QED
    BY <2>3, <2>4, <2>5
<1>8. CASE LockGroup
  BY <1>8, DeletionGoesOn DEF LockGroup
<1>9. CASE DeleteGroup
  <2>1. \A w \in Writer : ~HasRow(w)
    BY <1>9, DeletionGoesOn DEF DeleteGroup
  <2>2. /\ rowLock' = Freed(rowLock, Editor) /\ editor' = IdleEditor
        /\ UNCHANGED <<writer, past>>
        /\ \A k \in Key : cheapest'[k] = 0 /\ results'[k] = {}
    BY <1>9 DEF DeleteGroup
  <2>3. WriterKnowsKey' /\ RowIsLocked'
    BY ONLY TypeOK, Inv, Names, <2>2, RowsStay DEF Freed, Transaction
  <2>4. QED
    BY <2>1, <2>2, <2>3 DEF IdleEditor
<1>10. CASE AbandonEdit
  <2>1. /\ rowLock' = Freed(rowLock, Editor) /\ editor' = IdleEditor
        /\ UNCHANGED <<exists, cheapest, results, writer, past>>
    BY <1>10 DEF AbandonEdit
  <2>2. WriterKnowsKey' /\ RowIsLocked'
    BY ONLY TypeOK, Inv, Names, <2>1, RowsStay DEF Freed, Transaction
  <2>3. QED
    BY <2>1, <2>2 DEF IdleEditor
<1>11. QED
  BY <1>1, <1>2, <1>3, <1>4, <1>5, <1>6, <1>7, <1>8, <1>9, <1>10 DEF EditorStep

(* So do those of a purge, which only removes offers.                        *)
LEMMA PurgeStepInv ==
  ASSUME TypeOK, Inv, (\E k \in Key : Departs(k)) \/ PurgeLogs \/ PurgeStep \/ PurgeFails
  PROVE  Inv'
<1> USE Names
<1> USE DEF TypeOK, committed, locks, run, PurgeState, Inv, WriterKnowsKey, HasRow, RowIsLocked,
            RowNeedsGroup, HoldsGroup, SeenIsAll, Stripping, OffersOfCheapest,
            NothingOutlivesGroup
<1>1. ASSUME NEW k \in Key, Departs(k)
      PROVE  Inv'
  BY <1>1 DEF Departs
<1>2. CASE PurgeLogs
  BY <1>2 DEF PurgeLogs
<1>3. CASE BeginPurge
  BY <1>3 DEF BeginPurge
<1>4. ASSUME NEW k \in Key, PurgeRow(k)
      PROVE  Inv'
  BY <1>4 DEF PurgeRow
<1>5. CASE PurgeCommit
  BY <1>5 DEF PurgeCommit, Freed
<1>6. CASE PurgeFails
  BY <1>6 DEF PurgeFails, Freed
<1>7. QED
  BY <1>1, <1>2, <1>3, <1>4, <1>5, <1>6 DEF PurgeStep

LEMMA StepInv ==
  ASSUME TypeOK, Inv, [Next]_vars
  PROVE  Inv'
<1> USE DEF Inv, WriterKnowsKey, HasRow, RowIsLocked, RowNeedsGroup, HoldsGroup, SeenIsAll,
            Stripping, OffersOfCheapest, NothingOutlivesGroup, committed, locks, run
<1>1. CASE LoadGroup
  BY <1>1 DEF LoadGroup
<1>2. ASSUME NEW w \in Writer, NEW k \in Key, NEW s \in Search, BeginSearch(w, k, s)
      PROVE  Inv'
  BY <1>2 DEF BeginSearch, TypeOK
<1>3. ASSUME NEW w \in Writer, WriterStep(w) \/ Rollback(w)
      PROVE  Inv'
  BY ONLY TypeOK, Inv, <1>3, WriterStepInv
<1>4. CASE (\E edit \in Edits : BeginClear(edit)) \/ EditorStep \/ AbandonEdit
  BY ONLY TypeOK, Inv, <1>4, EditorStepInv
<1>5. CASE (\E k \in Key : Departs(k)) \/ PurgeLogs \/ PurgeStep \/ PurgeFails
  BY ONLY TypeOK, Inv, <1>5, PurgeStepInv
<1>6. CASE UNCHANGED vars
  BY <1>6 DEF vars
<1>7. QED
  BY <1>1, <1>2, <1>3, <1>4, <1>5, <1>6 DEF Next

LEMMA Inductive == Spec => [](TypeOK /\ Inv)
<1>1. Init => TypeOK /\ Inv
  BY InitInv
<1>2. (TypeOK /\ Inv) /\ [Next]_vars => (TypeOK /\ Inv)'
  BY StepType, StepInv
<1>3. QED
  BY <1>1, <1>2, PTL DEF Spec

(* The type invariant, for every value of the constants.                     *)
THEOREM TypeCorrect == Spec => []TypeOK
BY Inductive, PTL

(* A key never shows offers of another search than its price, whatever       *)
(* writers, edits, deletions and purges overlap.                             *)
THEOREM OffersOfCheapestHolds == Spec => []OffersOfCheapest
<1>1. Inv => OffersOfCheapest
  BY DEF Inv
<1>2. QED
  BY <1>1, Inductive, PTL

(* A deleted group leaves no price and no offer behind.                      *)
THEOREM NothingOutlivesGroupHolds == Spec => []NothingOutlivesGroup
<1>1. Inv => NothingOutlivesGroup
  BY DEF Inv
<1>2. QED
  BY <1>1, Inductive, PTL

(***************************************************************************)
(* Waiting.  TLC checks that no transaction waits for ever once PostgreSQL   *)
(* breaks the circles; who may wait in one holds for any number of writers.   *)
(***************************************************************************)

(* Offers are locked by a writer that has just deleted them, by an editor that *)
(* has done with the prices, and by a purge only if their day is long past.   *)
OffersAreLocked ==
  \A k \in Key :
    /\ offerLock[k] \in Writer =>
         writer[offerLock[k]].at = "replaced" /\ writer[offerLock[k]].key = k
    /\ offerLock[k] = Editor => Stripping
    /\ offerLock[k] = Purge => k \in past

PurgeOfPast == purge.wanted \subseteq past

CascadeDeletes == editor.at = "cascading" => editor.edit = "delete"

LockInv == OffersAreLocked /\ PurgeOfPast /\ CascadeDeletes

(* Steps that leave who has offers and where those are as they were.          *)
LEMMA SameOffers ==
  ASSUME OffersAreLocked, past \subseteq past',
         \A k \in Key : offerLock'[k] \in {offerLock[k], Nobody}, Nobody \notin Transaction,
         \A w \in Writer : writer[w].at = "replaced" =>
           w \notin {offerLock'[k] : k \in Key} \/ writer'[w] = writer[w],
         Stripping => Stripping' \/ \A k \in Key : offerLock'[k] # Editor
  PROVE  OffersAreLocked'
<1> USE DEF OffersAreLocked, Transaction
<1>1. SUFFICES ASSUME NEW k \in Key, offerLock'[k] # Nobody
               PROVE  /\ offerLock'[k] \in Writer =>
                           writer'[offerLock'[k]].at = "replaced" /\ writer'[offerLock'[k]].key = k
                      /\ offerLock'[k] = Editor => Stripping'
                      /\ offerLock'[k] = Purge => k \in past'
  OBVIOUS
<1>2. offerLock'[k] = offerLock[k]
  BY <1>1
<1>3. QED
  BY <1>1, <1>2

LEMMA WriterStepLocks ==
  ASSUME TypeOK, Inv, LockInv, NEW w \in Writer, WriterStep(w) \/ Rollback(w)
  PROVE  LockInv'
<1> USE Names DEF committed, locks, run
<1>1. UNCHANGED <<editor, purge, past>>
  BY DEF WriterStep, SendUpsert, Upsert, Refused, Rollback, DeleteResults, Commit
<1>2. PurgeOfPast' /\ CascadeDeletes' /\ (Stripping => Stripping')
  BY <1>1 DEF LockInv, PurgeOfPast, CascadeDeletes, Stripping
<1>3. CASE SendUpsert(w) \/ Upsert(w)
  <2>1. /\ UNCHANGED offerLock
        /\ \A v \in Writer : writer[v].at = "replaced" => writer'[v] = writer[v]
    BY <1>3 DEF SendUpsert, Upsert, TypeOK
  <2>2. OffersAreLocked'
    BY ONLY <1>1, <1>2, <2>1, LockInv, Names, SameOffers DEF LockInv
  <2>3. QED
    BY <1>2, <2>2 DEF LockInv
<1>4. CASE Rollback(w) \/ Commit(w)
  <2>1. /\ offerLock' = Freed(offerLock, w)
        /\ \A v \in Writer \ {w} : writer'[v] = writer[v]
    BY <1>4 DEF Rollback, Commit, TypeOK
  <2>2. /\ \A k \in Key : offerLock'[k] \in {offerLock[k], Nobody}
        /\ w \notin {offerLock'[k] : k \in Key}
    BY <2>1 DEF Freed, Transaction
  <2>3. OffersAreLocked'
    BY ONLY <1>1, <1>2, <2>1, <2>2, LockInv, Names, SameOffers DEF LockInv
  <2>4. QED
    BY <1>2, <2>3 DEF LockInv
<1>5. CASE DeleteResults(w)
  <2> DEFINE k == writer[w].key
  <2>1. k \in Key
    BY <1>5 DEF DeleteResults, Inv, WriterKnowsKey
  <2>2. /\ offerLock' = [offerLock EXCEPT ![k] = w]
        /\ writer'[w].at = "replaced" /\ writer'[w].key = k
        /\ \A v \in Writer \ {w} : writer'[v] = writer[v]
        /\ writer[w].at = "upserted"
    BY <1>5 DEF DeleteResults, TypeOK, WriterState
  <2>3. ASSUME NEW j \in Key
        PROVE  /\ offerLock'[j] \in Writer =>
                    writer'[offerLock'[j]].at = "replaced" /\ writer'[offerLock'[j]].key = j
               /\ offerLock'[j] = Editor => Stripping'
               /\ offerLock'[j] = Purge => j \in past'
    <3>1. CASE j = k
      BY <2>1, <2>2, <3>1 DEF TypeOK
    <3>2. CASE j # k
      <4>1. offerLock'[j] = offerLock[j]
        BY <2>1, <2>2, <3>2 DEF TypeOK
      <4>2. offerLock[j] # w
        BY <2>2 DEF LockInv, OffersAreLocked
      <4>3. QED
        BY <1>1, <1>2, <2>2, <4>1, <4>2 DEF LockInv, OffersAreLocked
    <3>3. QED
      BY <3>1, <3>2
  <2>4. QED
    BY <1>2, <2>3 DEF LockInv, OffersAreLocked
<1>6. QED
  BY <1>3, <1>4, <1>5 DEF WriterStep, Refused

LEMMA EditorStepLocks ==
  ASSUME TypeOK, Inv, LockInv,
         (\E edit \in Edits : BeginClear(edit)) \/ EditorStep \/ AbandonEdit
  PROVE  LockInv'
<1> USE Names DEF committed, locks, run
<1>1. UNCHANGED <<writer, purge, past>>
  BY DEF BeginClear, EditorStep, ClearRow, ClearResults, ClearOffers, AllStripped, ClearLogs,
         CommitUpdate, LockGroup, DeleteGroup, AbandonEdit
<1>2. PurgeOfPast'
  BY <1>1 DEF LockInv, PurgeOfPast
<1>3. ASSUME NEW edit \in Edits, BeginClear(edit)
      PROVE  LockInv'
  BY <1>1, <1>2, <1>3
  DEF BeginClear, LockInv, OffersAreLocked, CascadeDeletes, Stripping, TypeOK, EditorState
<1>4. ASSUME NEW k \in Key, ClearRow(k)
      PROVE  LockInv'
  BY <1>1, <1>2, <1>4
  DEF ClearRow, LockInv, OffersAreLocked, CascadeDeletes, Stripping, TypeOK, EditorState
<1>5. CASE ClearResults \/ AllStripped \/ ClearLogs \/ LockGroup
  BY <1>1, <1>2, <1>5
  DEF ClearResults, AllStripped, ClearLogs, LockGroup, LockInv, OffersAreLocked, CascadeDeletes,
      Stripping, TypeOK, EditorState
<1>6. ASSUME NEW k \in Key, ClearOffers(k)
      PROVE  LockInv'
  <2>1. /\ editor.at = "stripping" /\ editor' = [editor EXCEPT !.wanted = @ \ {k}]
        /\ \A j \in Key : offerLock'[j] \in {offerLock[j], Editor}
    BY <1>6 DEF ClearOffers, TypeOK
  <2>2. Stripping' /\ CascadeDeletes'
    BY <2>1 DEF Stripping, CascadeDeletes, TypeOK, EditorState
  <2>3. OffersAreLocked'
    BY <1>1, <2>1, <2>2 DEF LockInv, OffersAreLocked
  <2>4. QED
    BY <1>2, <2>2, <2>3 DEF LockInv
<1>7. CASE CommitUpdate \/ DeleteGroup \/ AbandonEdit
  <2>1. editor' = IdleEditor /\ offerLock' = Freed(offerLock, Editor)
    BY <1>7 DEF CommitUpdate, DeleteGroup, AbandonEdit
  <2>2. CascadeDeletes'
    BY <2>1 DEF CascadeDeletes, IdleEditor
  <2>3. \A k \in Key : offerLock'[k] \in {offerLock[k], Nobody} /\ offerLock'[k] # Editor
    BY <2>1 DEF Freed
  <2>4. OffersAreLocked'
    BY ONLY <1>1, <2>3, LockInv, Names, SameOffers DEF LockInv
  <2>5. QED
    BY <1>2, <2>2, <2>4 DEF LockInv
<1>8. QED
  BY <1>3, <1>4, <1>5, <1>6, <1>7 DEF EditorStep

LEMMA PurgeStepLocks ==
  ASSUME TypeOK, Inv, LockInv, (\E k \in Key : Departs(k)) \/ PurgeLogs \/ PurgeStep \/ PurgeFails
  PROVE  LockInv'
<1> USE Names DEF committed, locks, run
<1>1. UNCHANGED <<writer, editor>> /\ past \subseteq past'
  BY DEF Departs, PurgeLogs, PurgeStep, BeginPurge, PurgeRow, PurgeCommit, PurgeFails
<1>2. CascadeDeletes' /\ (Stripping => Stripping')
  BY <1>1 DEF LockInv, CascadeDeletes, Stripping
<1>3. PurgeOfPast'
  BY DEF Departs, PurgeLogs, PurgeStep, BeginPurge, PurgeRow, PurgeCommit, PurgeFails,
         LockInv, PurgeOfPast, TypeOK, PurgeState, IdlePurge
<1>4. ASSUME NEW k \in Key, PurgeRow(k)
      PROVE  OffersAreLocked'
  <2>1. \A j \in Key : offerLock'[j] = offerLock[j] \/ (offerLock'[j] = Purge /\ j \in past')
    BY <1>1, <1>4 DEF PurgeRow, TypeOK, LockInv, PurgeOfPast
  <2>2. QED
    BY <1>1, <1>2, <2>1 DEF LockInv, OffersAreLocked
<1>5. ASSUME \A k \in Key : offerLock'[k] \in {offerLock[k], Nobody}
      PROVE  OffersAreLocked'
  BY ONLY <1>1, <1>2, <1>5, LockInv, Names, SameOffers DEF LockInv
<1>6. (\A k \in Key : offerLock'[k] \in {offerLock[k], Nobody}) \/ \E k \in Key : PurgeRow(k)
  BY DEF Departs, PurgeLogs, PurgeStep, BeginPurge, PurgeCommit, PurgeFails, Freed
<1>7. QED
  BY <1>2, <1>3, <1>4, <1>5, <1>6 DEF LockInv

LEMMA LockInductive == Spec => [](TypeOK /\ Inv /\ LockInv)
<1>1. Init => LockInv
  BY Names DEF Init, LockInv, OffersAreLocked, PurgeOfPast, CascadeDeletes, IdlePurge, IdleEditor,
               Transaction
<1>2. TypeOK /\ Inv /\ LockInv /\ [Next]_vars => LockInv'
  <2> SUFFICES ASSUME TypeOK, Inv, LockInv, [Next]_vars
               PROVE  LockInv'
    OBVIOUS
  <2>1. CASE LoadGroup \/ UNCHANGED vars
    BY <2>1 DEF LoadGroup, vars, committed, locks, run, LockInv, OffersAreLocked, PurgeOfPast,
                CascadeDeletes, Stripping
  <2>2. ASSUME NEW w \in Writer, NEW k \in Key, NEW s \in Search, BeginSearch(w, k, s)
        PROVE  LockInv'
    BY <2>2 DEF BeginSearch, committed, locks, LockInv, OffersAreLocked, PurgeOfPast,
                CascadeDeletes, Stripping, TypeOK
  <2>3. ASSUME NEW w \in Writer, WriterStep(w) \/ Rollback(w)
        PROVE  LockInv'
    BY <2>3, WriterStepLocks
  <2>4. CASE (\E edit \in Edits : BeginClear(edit)) \/ EditorStep \/ AbandonEdit
    BY <2>4, EditorStepLocks
  <2>5. CASE (\E k \in Key : Departs(k)) \/ PurgeLogs \/ PurgeStep \/ PurgeFails
    BY <2>5, PurgeStepLocks
  <2>6. QED
    BY <2>1, <2>2, <2>3, <2>4, <2>5 DEF Next
<1>3. QED
  BY <1>1, <1>2, Inductive, PTL DEF Spec

(* Whoever keeps somebody waiting is waiting, if at all, for the editor.      *)
LEMMA BlockersAwaitEditor ==
  ASSUME TypeOK, Inv, LockInv, NEW x \in Transaction, NEW y \in WaitsFor(x) \ {Editor}
  PROVE  WaitsFor(y) \subseteq {Editor}
<1> USE Names
<1>1. \A k \in Key : offerLock[k] = Purge => k \in past
  BY DEF LockInv, OffersAreLocked
<1>2. ASSUME NEW k \in Key, k \in past
      PROVE  offerLock[k] \notin Writer
  BY <1>2 DEF LockInv, OffersAreLocked, Inv, WriterKnowsKey
<1>3. CASE y = Purge
  BY <1>2, <1>3 DEF WaitsFor, PurgeWaits, LockInv, PurgeOfPast, Transaction, TypeOK, PurgeState
<1>4. CASE y \in Writer
  <2>1. HasRow(y)
    <3>1. \A k \in Key : rowLock[k] = y => HasRow(y)
      BY <1>4 DEF Inv, RowIsLocked
    <3>2. \A k \in Key : offerLock[k] = y => HasRow(y)
      BY <1>4 DEF LockInv, OffersAreLocked, HasRow
    <3>3. CASE x \in Writer
      <4>1. WriterWaits(x, y)
        BY <3>3 DEF WaitsFor
      <4>2. writer[x].key \in Key
        BY <3>3, <4>1 DEF WriterWaits, Inv, WriterKnowsKey
      <4>3. QED
        BY <1>4, <3>1, <3>2, <4>1, <4>2 DEF WriterWaits
    <3>4. CASE x = Editor
      <4>1. EditorWaits(y)
        BY <3>4 DEF WaitsFor
      <4>2. editor.wanted \subseteq Key /\ logLock # y
        BY <1>4 DEF TypeOK, EditorState, Transaction
      <4>3. QED
        BY <3>1, <3>2, <4>1, <4>2 DEF EditorWaits, HoldsGroup
    <3>5. CASE x = Purge
      BY <3>2, <3>5 DEF WaitsFor, PurgeWaits, TypeOK, PurgeState
    <3>6. QED
      BY <3>3, <3>4, <3>5 DEF Transaction
  <2>2. SUFFICES ASSUME NEW z \in WaitsFor(y), z # Editor
                 PROVE  FALSE
    OBVIOUS
  <2>3. writer[y].at = "upserted" /\ offerLock[writer[y].key] = z /\ z \in Transaction \ {y}
    BY <1>4, <2>1, <2>2 DEF WaitsFor, WriterWaits, HasRow
  <2>4. writer[y].key \in Key \ past /\ rowLock[writer[y].key] = y
    BY <1>4, <2>1, <2>3 DEF Inv, WriterKnowsKey, RowIsLocked
  <2>5. z \in Writer
    BY <1>1, <2>2, <2>3, <2>4 DEF Transaction
  <2>6. writer[z].key = writer[y].key /\ HasRow(z)
    BY <2>3, <2>4, <2>5 DEF LockInv, OffersAreLocked, HasRow
  <2>7. rowLock[writer[y].key] = z
    BY <2>5, <2>6 DEF Inv, RowIsLocked
  <2>8. QED
    BY <2>3, <2>4, <2>7
<1>5. QED
  BY <1>3, <1>4 DEF Transaction, WaitsFor

(* Transactions that each wait for another of them contain the editor and one  *)
(* that it waits for and that waits for it: to look at pairs is to see every   *)
(* circle, and writers and purges alone never stop each other.               *)
NoOtherCircles ==
  \A S \in SUBSET Transaction :
    S # {} /\ (\A x \in S : WaitsFor(x) \cap S # {})
      => Editor \in S /\ \E y \in S : Circle(Editor, y)

THEOREM NoOtherCirclesHold == Spec => []NoOtherCircles
<1>1. TypeOK /\ Inv /\ LockInv => NoOtherCircles
  <2> SUFFICES ASSUME TypeOK, Inv, LockInv, NEW S \in SUBSET Transaction,
                      S # {}, \A x \in S : WaitsFor(x) \cap S # {}
               PROVE  Editor \in S /\ \E y \in S : Circle(Editor, y)
    BY DEF NoOtherCircles
  <2>1. Editor \in S
    <3>1. PICK x \in S : TRUE
      OBVIOUS
    <3>2. PICK y \in S : y \in WaitsFor(x)
      BY <3>1
    <3>3. CASE y = Editor
      BY <3>3
    <3>4. CASE y # Editor
      <4>1. WaitsFor(y) \subseteq {Editor}
        BY <3>1, <3>2, <3>4, BlockersAwaitEditor
      <4>2. QED
        BY <4>1
    <3>5. QED
      BY <3>3, <3>4
  <2>2. PICK y \in S : y \in WaitsFor(Editor)
    BY <2>1
  <2>3. y # Editor
    BY <2>2 DEF WaitsFor
  <2>4. WaitsFor(y) \subseteq {Editor}
    BY <2>1, <2>2, <2>3, BlockersAwaitEditor
  <2>5. Editor \in WaitsFor(y)
    BY <2>4
  <2>6. QED
    BY <2>1, <2>2, <2>5 DEF Circle
<1>2. QED
  BY <1>1, LockInductive, PTL

(* An update of the group never waits in a circle with a collection: what the   *)
(* writer still needs when it has its row, the offers, the editor takes after   *)
(* the rows; only a deletion comes back for rows at the end.                  *)
THEOREM OnlyDeletionCirclesHolds == Spec => []OnlyDeletionCircles
<1>1. TypeOK /\ Inv /\ LockInv => OnlyDeletionCircles
  <2> SUFFICES ASSUME TypeOK, Inv, LockInv, NEW w \in Writer, Circle(Editor, w)
               PROVE  editor.edit = "delete"
    BY DEF OnlyDeletionCircles
  <2> USE Names
  <2>1. EditorWaits(w) /\ WriterWaits(w, Editor)
    BY DEF Circle, WaitsFor
  <2>2. CASE editor.at = "cascading"
    BY <2>2 DEF LockInv, CascadeDeletes
  <2>3. CASE editor.at # "cascading"
    <3>1. ~(\E k \in Key : offerLock[k] = w) \/ writer[w].at = "replaced"
      BY DEF LockInv, OffersAreLocked
    <3>2. ~(\E k \in Key : rowLock[k] = w) \/ HasRow(w)
      BY DEF Inv, RowIsLocked
    <3>3. writer[w].at # "idle" => writer[w].key \in Key
      BY DEF Inv, WriterKnowsKey
    <3>4. \A k \in Key : offerLock[k] = Editor => Stripping
      BY DEF LockInv, OffersAreLocked
    <3>5. editor.wanted \subseteq Key /\ logLock # w
      BY DEF TypeOK, EditorState, Transaction
    <3>6. (editor.at = "emptied" /\ editor.edit = "delete") \/ HasRow(w)
      BY <2>1, <2>3, <3>1, <3>2, <3>5 DEF EditorWaits, HasRow
    <3>7. HasRow(w)
      BY <2>1, <3>6, <2>3, <3>1, <3>2, <3>5 DEF EditorWaits, HoldsGroup, HasRow
    <3>8. writer[w].at = "upserted" /\ offerLock[writer[w].key] = Editor
      BY <2>1, <2>3, <3>7 DEF WriterWaits, HasRow
    <3>9. Stripping
      BY <3>3, <3>4, <3>8
    <3>10. QED
      BY <2>1, <2>3, <3>1, <3>5, <3>8, <3>9 DEF EditorWaits, Stripping
  <2>4. QED
    BY <2>2, <2>3
<1>2. QED
  BY <1>1, LockInductive, PTL

(***************************************************************************)
(* The refinement of PriceTable.                                           *)
(***************************************************************************)

Shown(k) == [cheapest |-> cheapest[k], offers |-> results[k]]

(* What a clearing may do to a key is one of three things.                   *)
LEMMA ClearStep ==
  ASSUME \A k \in Key : \/ Shown(k)' = Shown(k)
                        \/ cheapest'[k] = cheapest[k] /\ results'[k] = {}
                        \/ cheapest'[k] = 0 /\ results'[k] = {}
  PROVE  Table!Clear
<1> DEFINE fate == [k \in Key |-> IF Shown(k)' = Shown(k) THEN "keep"
                                  ELSE IF cheapest'[k] = cheapest[k] /\ results'[k] = {}
                                    THEN "strip"
                                  ELSE "empty"]
<1>1. fate \in [Key -> {"keep", "strip", "empty"}]
  OBVIOUS
<1>2. ASSUME NEW k \in Key
      PROVE  Shown(k)' = CASE fate[k] = "keep" -> Shown(k)
                           [] fate[k] = "strip" -> Table!Bare(Shown(k))
                           [] fate[k] = "empty" -> Table!Empty
  BY DEF Shown, Table!Bare, Table!Empty
<1>3. QED
  BY <1>1, <1>2 DEF Table!Clear, Shown

(* Commits replace a key as a whole; the clearings and the purge only strip   *)
(* and empty; nothing else is seen.                                         *)
THEOREM PriceStoreImplementsPriceTable == Spec => ImplementsPriceTable
<1>1. Init => Table!Init
  BY DEF Init, Table!Init, Table!Empty
<1>2. TypeOK /\ Inv /\ [Next]_vars => Table!Next \/ UNCHANGED <<cheapest, results>>
  <2> SUFFICES ASSUME TypeOK, Inv, [Next]_vars
               PROVE  Table!Next \/ UNCHANGED <<cheapest, results>>
    OBVIOUS
  <2>1. ASSUME NEW w \in Writer, Commit(w)
        PROVE  Table!Next
    <3> DEFINE k == writer[w].key
               s == writer[w].search
    <3>1. k \in Key /\ s \in Search /\ results[k] \subseteq writer[w].old
      BY <2>1 DEF Commit, Inv, WriterKnowsKey, SeenIsAll
    <3>2. cheapest' = [cheapest EXCEPT ![k] = s] /\ results' = [results EXCEPT ![k] = {s}]
      BY <2>1, <3>1 DEF Commit, TypeOK
    <3>3. Table!Replace(k, s)
      BY <3>1, <3>2 DEF Table!Replace, TypeOK
    <3>4. QED
      BY <3>1, <3>3 DEF Table!Next, Table!Replace
  <2>2. CASE CommitUpdate
    <3>1. ASSUME NEW k \in Key
          PROVE  \/ Shown(k)' = Shown(k)
                 \/ cheapest'[k] = cheapest[k] /\ results'[k] = {}
                 \/ cheapest'[k] = 0 /\ results'[k] = {}
      BY <2>2, UpdateLeaves DEF Shown
    <3>2. QED
      BY <3>1, ClearStep DEF Table!Next
  <2>3. CASE DeleteGroup
    BY <2>3, ClearStep DEF DeleteGroup, Table!Next
  <2>4. CASE PurgeCommit
    BY <2>4, ClearStep DEF PurgeCommit, Shown, TypeOK, Table!Next
  <2>5. ASSUME NEW w \in Writer,
               SendUpsert(w) \/ Upsert(w) \/ Refused(w) \/ DeleteResults(w) \/ Rollback(w)
        PROVE  UNCHANGED <<cheapest, results>>
    BY <2>5 DEF SendUpsert, Upsert, Refused, DeleteResults, Rollback, committed
  <2>6. ASSUME NEW edit \in Edits, BeginClear(edit)
        PROVE  UNCHANGED <<cheapest, results>>
    BY <2>6 DEF BeginClear, committed
  <2>7. CASE \/ \E k \in Key : ClearRow(k) \/ ClearOffers(k)
             \/ ClearResults \/ AllStripped \/ ClearLogs \/ LockGroup \/ AbandonEdit
    BY <2>7 DEF ClearRow, ClearOffers, ClearResults, AllStripped, ClearLogs, LockGroup,
                AbandonEdit, committed
  <2>8. CASE \/ \E k \in Key : Departs(k) \/ PurgeRow(k)
             \/ PurgeLogs \/ BeginPurge \/ PurgeFails
    BY <2>8 DEF Departs, PurgeRow, PurgeLogs, BeginPurge, PurgeFails, committed
  <2>9. CASE LoadGroup \/ \E w \in Writer, k \in Key, s \in Search : BeginSearch(w, k, s)
    BY <2>9 DEF LoadGroup, BeginSearch, committed
  <2>10. CASE UNCHANGED vars
    BY <2>10 DEF vars, committed
  <2>11. QED
    BY <2>1, <2>2, <2>3, <2>4, <2>5, <2>6, <2>7, <2>8, <2>9, <2>10
    DEF Next, WriterStep, EditorStep, PurgeStep
<1>3. Table!Next \/ UNCHANGED <<cheapest, results>> =>
        [Table!Next]_[k \in Key |-> [cheapest |-> cheapest[k], offers |-> results[k]]]
  OBVIOUS
<1>4. QED
  BY <1>1, <1>2, <1>3, Inductive, PTL DEF Spec, ImplementsPriceTable, Table!Spec

================================================================================
