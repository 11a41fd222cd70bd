------------------------------ MODULE PriceStore ------------------------------
(***************************************************************************)
(* The prices of one route group in PostgreSQL: daily_cheapest_prices,        *)
(* all_flight_results and scrape_logs, as written by concurrent               *)
(* collect_single_date calls (services/price_collector.py), cleared by an     *)
(* edit or the deletion of the group (services/route_group_service.py) and    *)
(* purged by cleanup_old_data (tasks/scheduler.py).                          *)
(*                                                                         *)
(* Transactions run under READ COMMITTED: a statement sees what is committed  *)
(* when it begins, waits for the row locks of others, and its changes are     *)
(* seen by others when its transaction commits.  Locked are: the row of a key *)
(* in daily_cheapest_prices, the offers of a key (as one, for they are read   *)
(* in one order), the group's logs (as one), and the group itself, which      *)
(* every inserted row refers to.                                            *)
(***************************************************************************)
EXTENDS Integers

CONSTANTS
  Key,          \* (origin, destination, departure date) of the group
  Writer,       \* concurrent collect_single_date calls
  Search,       \* identities of searches, 1 .. some bound
  MaxVersion,   \* bound on the group's identity versions
  Edits,        \* what users do to the group: "update", "delete"
  Past          \* keys that may get to lie more than a week back

ASSUME WriterAssumption == Writer \cap {"nobody", "editor", "purge"} = {}
ASSUME SearchAssumption == Search \subseteq Nat \ {0}
ASSUME VersionAssumption == MaxVersion \in Nat
ASSUME EditsAssumption == Edits \subseteq {"update", "delete"}
ASSUME PastAssumption == Past \subseteq Key

VARIABLES
  \* committed state
  exists,       \* the group is there
  version,      \* its identity: what _ROUTE_IDENTITY_FIELDS hold
  cheapest,     \* daily_cheapest_prices: the search a key's row comes from, or 0
  results,      \* all_flight_results: the searches a key's rows come from
  \* locks
  rowLock,      \* who has locked a key's row of daily_cheapest_prices
  offerLock,    \* who has locked a key's rows of all_flight_results
  logLock,      \* who has locked rows of scrape_logs
  \* transactions
  writer,       \* state of each collect_single_date call
  editor,       \* state of the request that edits the group
  purge,        \* state of cleanup_old_data
  \* the collection
  past,         \* keys that depart more than a week ago
  loaded,       \* version of the group the current run has in memory
  searchedFor   \* history: version each search was made for, 0 if not made

committed == <<exists, version, cheapest, results>>
locks == <<rowLock, offerLock, logLock>>
run == <<past, loaded, searchedFor>>
vars == <<committed, locks, writer, editor, purge, run>>

Nobody == "nobody"
Editor == "editor"
Purge == "purge"
NoKey == "none"

Transaction == Writer \cup {Editor, Purge}

(* A writer: searches (no statement sent yet), waits to upsert, has upserted, *)
(* has deleted the old rows; "old" are the rows its DELETE has seen.          *)
WriterState ==
  [at : {"idle", "searching", "upserting", "upserted", "replaced"},
   key : Key \cup {NoKey}, search : Search \cup {0}, old : SUBSET Search]

IdleWriter == [at |-> "idle", key |-> NoKey, search |-> 0, old |-> {}]

(* The editor deletes prices ("clearing"), offers ("stripping") and logs      *)
(* ("unlogging"), and for a deletion the group and what refers to it           *)
(* ("cascading").  "wanted" are the keys a DELETE saw and has yet to lock,     *)
(* "old" the offers it saw.                                                 *)
EditorState ==
  [at : {"idle", "clearing", "stripping", "unlogging", "emptied", "cascading"},
   edit : {"update", "delete"}, wanted : SUBSET Key, old : [Key -> SUBSET Search]]

IdleEditor == [at |-> "idle", edit |-> "update", wanted |-> {}, old |-> [k \in Key |-> {}]]

(* The purge has deleted the old logs, then deletes the offers of past keys.  *)
PurgeState == [at : {"idle", "logged", "purging"}, wanted : SUBSET Key]

IdlePurge == [at |-> "idle", wanted |-> {}]

Init ==
  /\ exists = TRUE
  /\ version = 1
  /\ cheapest = [k \in Key |-> 0]
  /\ results = [k \in Key |-> {}]
  /\ rowLock = [k \in Key |-> Nobody]
  /\ offerLock = [k \in Key |-> Nobody]
  /\ logLock = Nobody
  /\ writer = [w \in Writer |-> IdleWriter]
  /\ editor = IdleEditor
  /\ purge = IdlePurge
  /\ past = {}
  /\ loaded = 1
  /\ searchedFor = [s \in Search |-> 0]

(* The locks that are left when x ends. *)
Freed(lock, x) == [k \in Key |-> IF lock[k] = x THEN Nobody ELSE lock[k]]

(***************************************************************************)
(* Who waits for whom.                                                     *)
(***************************************************************************)

HasRow(w) == writer[w].at \in {"upserted", "replaced"}

(* A writer that has inserted a price, which refers to the group, keeps the    *)
(* group from being deleted; updating a price takes no such lock.            *)
HoldsGroup(w) == HasRow(w) /\ cheapest[writer[w].key] = 0

(* The upsert waits for the key's row and, if it inserts, for the group; the   *)
(* DELETE for the offers; the inserts at the commit for the group.           *)
WriterWaits(w, y) ==
  LET k == writer[w].key IN
  \/ writer[w].at = "upserting" /\ rowLock[k] = y
  \/ writer[w].at = "upserting" /\ cheapest[k] = 0 /\ y = Editor /\ editor.at = "cascading"
  \/ writer[w].at = "upserted" /\ offerLock[k] = y
  \/ writer[w].at = "replaced" /\ y = Editor /\ editor.at = "cascading"

(* The deletion of the group waits for those who refer to it; its cascade for  *)
(* the prices and offers that came after the clearing.                       *)
EditorWaits(y) ==
  \/ editor.at = "clearing" /\ \E k \in editor.wanted : rowLock[k] = y
  \/ editor.at = "stripping" /\ \E k \in editor.wanted : offerLock[k] = y
  \/ editor.at = "unlogging" /\ logLock = y
  \/ editor.at = "emptied" /\ editor.edit = "delete" /\ y \in Writer /\ HoldsGroup(y)
  \/ editor.at = "cascading" /\ \E k \in Key :
       (cheapest[k] # 0 /\ rowLock[k] = y) \/ (results[k] # {} /\ offerLock[k] = y)

PurgeWaits(y) == purge.at = "purging" /\ \E k \in purge.wanted : offerLock[k] = y

WaitsFor(x) ==
  {y \in Transaction \ {x} : \/ x \in Writer /\ WriterWaits(x, y)
                             \/ x = Editor /\ EditorWaits(y)
                             \/ x = Purge /\ PurgeWaits(y)}

(* PostgreSQL looks for transactions that wait for each other. *)
Circle(x, y) == y \in WaitsFor(x) /\ x \in WaitsFor(y)

(***************************************************************************)
(* Faulty variants, each of one definition, used by no specification.        *)
(***************************************************************************)

(* the offers are added without deleting the old ones *)
Replaced_Appends(w) == {}

(* the offers are replaced without the lock on the cheapest price *)
Upsert_NoWait(w) ==
  /\ writer[w].at = "upserting"
  /\ exists
  /\ rowLock' = [rowLock EXCEPT ![writer[w].key] = w]
  /\ writer' = [writer EXCEPT ![w].at = "upserted"]
  /\ UNCHANGED <<committed, offerLock, logLock, editor, purge, run>>

(* the offers are labelled once the search is forgotten *)
Commit_Late(w) ==
  LET k == writer[w].key IN
  /\ writer[w].at = "replaced"
  /\ WaitsFor(w) = {}
  /\ writer' = [writer EXCEPT ![w] = IdleWriter]
  /\ cheapest' = [cheapest EXCEPT ![k] = writer[w].search]
  /\ results' = [results EXCEPT ![k] = (@ \ writer[w].old) \cup {writer'[w].search}]
  /\ rowLock' = Freed(rowLock, w)
  /\ offerLock' = Freed(offerLock, w)
  /\ UNCHANGED <<exists, version, logLock, editor, purge, run>>

(* the deletion of the group does not cascade to late rows *)
DeleteGroup_NoCascade ==
  /\ editor.at = "cascading"
  /\ WaitsFor(Editor) = {}
  /\ exists' = FALSE
  /\ cheapest' = [k \in Key |-> IF rowLock[k] = Editor THEN 0 ELSE cheapest[k]]
  /\ results' = [k \in Key |-> IF offerLock[k] = Editor THEN {} ELSE results[k]]
  /\ rowLock' = Freed(rowLock, Editor)
  /\ offerLock' = Freed(offerLock, Editor)
  /\ logLock' = Nobody
  /\ editor' = IdleEditor
  /\ UNCHANGED <<version, writer, purge, run>>

(* the upsert keeps its lock when the transaction is rolled back *)
Rollback_KeepsLock(w) ==
  /\ writer[w].at # "idle"
  /\ offerLock' = Freed(offerLock, w)
  /\ writer' = [writer EXCEPT ![w] = IdleWriter]
  /\ UNCHANGED <<committed, rowLock, logLock, editor, purge, run>>

(* the old offers are deleted before the price is upserted *)
SendUpsert_DeletesFirst(w) ==
  /\ writer[w].at = "searching"
  /\ offerLock[writer[w].key] = Nobody
  /\ offerLock' = [offerLock EXCEPT ![writer[w].key] = w]
  /\ writer' = [writer EXCEPT ![w].at = "upserting"]
  /\ UNCHANGED <<committed, rowLock, logLock, editor, purge, run>>

(***************************************************************************)
(* collect_single_date                                                     *)
(***************************************************************************)

(* A run reads the group when it plans, and keeps it in memory.              *)
LoadGroup ==
  /\ exists
  /\ loaded' = version
  /\ UNCHANGED <<committed, locks, writer, editor, purge, past, searchedFor>>

(* The providers are searched with the group as the run has it in memory, for *)
(* days to come.                                                            *)
BeginSearch(w, k, s) ==
  /\ writer[w].at = "idle"
  /\ k \notin past
  /\ searchedFor[s] = 0
  /\ searchedFor' = [searchedFor EXCEPT ![s] = loaded]
  /\ writer' = [writer EXCEPT ![w] = [at |-> "searching", key |-> k, search |-> s, old |-> {}]]
  /\ UNCHANGED <<committed, locks, editor, purge, past, loaded>>

(* The providers have answered with prices: the upsert is sent.              *)
SendUpsert(w) ==
  /\ writer[w].at = "searching"
  /\ writer' = [writer EXCEPT ![w].at = "upserting"]
  /\ UNCHANGED <<committed, locks, editor, purge, run>>

(* INSERT ... ON CONFLICT DO UPDATE waits for whoever has the row, then has   *)
(* it; without the group the foreign key refuses the row.                    *)
Upsert(w) ==
  /\ writer[w].at = "upserting"
  /\ WaitsFor(w) = {}
  /\ exists
  /\ rowLock' = [rowLock EXCEPT ![writer[w].key] = w]
  /\ writer' = [writer EXCEPT ![w].at = "upserted"]
  /\ UNCHANGED <<committed, offerLock, logLock, editor, purge, run>>

(* The rows that DELETE FROM all_flight_results sees for the key. *)
Replaced(w) == results[writer[w].key]

(* The DELETE waits for whoever is deleting the offers, and locks them. *)
DeleteResults(w) ==
  /\ writer[w].at = "upserted"
  /\ WaitsFor(w) = {}
  /\ offerLock' = [offerLock EXCEPT ![writer[w].key] = w]
  /\ writer' = [writer EXCEPT ![w] = [@ EXCEPT !.at = "replaced", !.old = Replaced(w)]]
  /\ UNCHANGED <<committed, rowLock, logLock, editor, purge, run>>

(* The new offers and the log are inserted and the transaction commits. *)
Commit(w) ==
  LET k == writer[w].key
      s == writer[w].search
  IN
  /\ writer[w].at = "replaced"
  /\ WaitsFor(w) = {}
  /\ cheapest' = [cheapest EXCEPT ![k] = s]
  /\ results' = [results EXCEPT ![k] = (@ \ writer[w].old) \cup {s}]
  /\ rowLock' = Freed(rowLock, w)
  /\ offerLock' = Freed(offerLock, w)
  /\ writer' = [writer EXCEPT ![w] = IdleWriter]
  /\ UNCHANGED <<exists, version, logLock, editor, purge, run>>

(* No prices, an error (a deadlock is one), a stop or a crash: the session is  *)
(* left, rolled back.                                                       *)
Rollback(w) ==
  /\ writer[w].at # "idle"
  /\ rowLock' = Freed(rowLock, w)
  /\ offerLock' = Freed(offerLock, w)
  /\ writer' = [writer EXCEPT ![w] = IdleWriter]
  /\ UNCHANGED <<committed, logLock, editor, purge, run>>

(* The group is gone: the foreign key refuses the row, the call fails.       *)
Refused(w) ==
  /\ writer[w].at = "upserting"
  /\ WaitsFor(w) = {}
  /\ ~exists
  /\ Rollback(w)

(***************************************************************************)
(* update with a changed identity, and delete                              *)
(***************************************************************************)

(* DELETE FROM daily_cheapest_prices begins: it sees the committed rows only. *)
BeginClear(edit) ==
  /\ editor.at = "idle"
  /\ edit \in Edits
  /\ exists
  /\ edit = "update" => version < MaxVersion
  /\ editor' = [editor EXCEPT !.at = "clearing", !.edit = edit,
                              !.wanted = {k \in Key : cheapest[k] # 0}]
  /\ UNCHANGED <<committed, locks, writer, purge, run>>

(* A row that a writer has locked is waited for.                             *)
ClearRow(k) ==
  /\ editor.at = "clearing"
  /\ k \in editor.wanted
  /\ rowLock[k] = Nobody
  /\ rowLock' = [rowLock EXCEPT ![k] = Editor]
  /\ editor' = [editor EXCEPT !.wanted = @ \ {k}]
  /\ UNCHANGED <<committed, offerLock, logLock, writer, purge, run>>

(* DELETE FROM all_flight_results, a new statement with a new view. *)
ClearResults ==
  /\ editor.at = "clearing"
  /\ editor.wanted = {}
  /\ editor' = [editor EXCEPT !.at = "stripping", !.old = results,
                              !.wanted = {k \in Key : results[k] # {}}]
  /\ UNCHANGED <<committed, locks, writer, purge, run>>

(* Offers somebody is deleting are waited for; if they are gone then, there is *)
(* nothing to lock.                                                         *)
ClearOffers(k) ==
  /\ editor.at = "stripping"
  /\ k \in editor.wanted
  /\ offerLock[k] = Nobody
  /\ offerLock' = IF results[k] \cap editor.old[k] # {}
                  THEN [offerLock EXCEPT ![k] = Editor] ELSE offerLock
  /\ editor' = [editor EXCEPT !.wanted = @ \ {k}]
  /\ UNCHANGED <<committed, rowLock, logLock, writer, purge, run>>

AllStripped ==
  /\ editor.at = "stripping"
  /\ editor.wanted = {}
  /\ editor' = [editor EXCEPT !.at = "unlogging"]
  /\ UNCHANGED <<committed, locks, writer, purge, run>>

(* DELETE FROM scrape_logs. *)
ClearLogs ==
  /\ editor.at = "unlogging"
  /\ WaitsFor(Editor) = {}
  /\ logLock' = Editor
  /\ editor' = [editor EXCEPT !.at = "emptied"]
  /\ UNCHANGED <<committed, rowLock, offerLock, writer, purge, run>>

(* The edited group and the cleared tables are committed together. *)
CommitUpdate ==
  /\ editor.at = "emptied" /\ editor.edit = "update"
  /\ version' = version + 1
  /\ cheapest' = [k \in Key |-> IF rowLock[k] = Editor THEN 0 ELSE cheapest[k]]
  /\ results' = [k \in Key |-> IF offerLock[k] = Editor THEN results[k] \ editor.old[k]
                                                        ELSE results[k]]
  /\ rowLock' = Freed(rowLock, Editor)
  /\ offerLock' = Freed(offerLock, Editor)
  /\ logLock' = Nobody
  /\ editor' = IdleEditor
  /\ UNCHANGED <<exists, writer, purge, run>>

(* DELETE FROM route_groups waits for the transactions that refer to the      *)
(* group; from then on nothing can refer to it.                              *)
LockGroup ==
  /\ editor.at = "emptied" /\ editor.edit = "delete"
  /\ WaitsFor(Editor) = {}
  /\ editor' = [editor EXCEPT !.at = "cascading"]
  /\ UNCHANGED <<committed, locks, writer, purge, run>>

(* It cascades to the rows that came after the clearing, and commits. *)
DeleteGroup ==
  /\ editor.at = "cascading"
  /\ WaitsFor(Editor) = {}
  /\ exists' = FALSE
  /\ cheapest' = [k \in Key |-> 0]
  /\ results' = [k \in Key |-> {}]
  /\ rowLock' = Freed(rowLock, Editor)
  /\ offerLock' = Freed(offerLock, Editor)
  /\ logLock' = Nobody
  /\ editor' = IdleEditor
  /\ UNCHANGED <<version, writer, purge, run>>

(* The request fails or its process dies: nothing it did remains. *)
AbandonEdit ==
  /\ editor.at # "idle"
  /\ rowLock' = Freed(rowLock, Editor)
  /\ offerLock' = Freed(offerLock, Editor)
  /\ logLock' = IF logLock = Editor THEN Nobody ELSE logLock
  /\ editor' = IdleEditor
  /\ UNCHANGED <<committed, writer, purge, run>>

(***************************************************************************)
(* cleanup_old_data                                                        *)
(***************************************************************************)

(* More than a week after its day nobody collects a key any more.            *)
Departs(k) ==
  /\ k \in Past \ past
  /\ \A w \in Writer : writer[w].key # k
  /\ past' = past \cup {k}
  /\ UNCHANGED <<committed, locks, writer, editor, purge, loaded, searchedFor>>

(* The logs of more than 30 days are deleted; the group may have none.       *)
PurgeLogs ==
  /\ purge.at = "idle"
  /\ \/ logLock = Nobody /\ logLock' = Purge
     \/ UNCHANGED logLock
  /\ purge' = [purge EXCEPT !.at = "logged"]
  /\ UNCHANGED <<committed, rowLock, offerLock, writer, editor, run>>

(* DELETE FROM all_flight_results WHERE depart_date < current_date - 7.       *)
BeginPurge ==
  /\ purge.at = "logged"
  /\ purge' = [at |-> "purging", wanted |-> {k \in past : results[k] # {}}]
  /\ UNCHANGED <<committed, locks, writer, editor, run>>

PurgeRow(k) ==
  /\ purge.at = "purging"
  /\ k \in purge.wanted
  /\ offerLock[k] = Nobody
  /\ offerLock' = IF results[k] # {} THEN [offerLock EXCEPT ![k] = Purge] ELSE offerLock
  /\ purge' = [purge EXCEPT !.wanted = @ \ {k}]
  /\ UNCHANGED <<committed, rowLock, logLock, writer, editor, run>>

(* The offers of past departures are gone, their price stays.                *)
PurgeCommit ==
  /\ purge.at = "purging"
  /\ purge.wanted = {}
  /\ results' = [k \in Key |-> IF offerLock[k] = Purge THEN {} ELSE results[k]]
  /\ offerLock' = Freed(offerLock, Purge)
  /\ logLock' = IF logLock = Purge THEN Nobody ELSE logLock
  /\ purge' = IdlePurge
  /\ UNCHANGED <<exists, version, cheapest, rowLock, writer, editor, run>>

(* cleanup_failed is logged, or the process dies: nothing is purged.          *)
PurgeFails ==
  /\ purge.at # "idle"
  /\ offerLock' = Freed(offerLock, Purge)
  /\ logLock' = IF logLock = Purge THEN Nobody ELSE logLock
  /\ purge' = IdlePurge
  /\ UNCHANGED <<committed, rowLock, writer, editor, run>>

(***************************************************************************)
(* The specification.                                                      *)
(***************************************************************************)

WriterStep(w) ==
  \/ SendUpsert(w)
  \/ Upsert(w)
  \/ Refused(w)
  \/ DeleteResults(w)
  \/ Commit(w)

EditorStep ==
  \/ \E k \in Key : ClearRow(k) \/ ClearOffers(k)
  \/ ClearResults
  \/ AllStripped
  \/ ClearLogs
  \/ CommitUpdate
  \/ LockGroup
  \/ DeleteGroup

PurgeStep == BeginPurge \/ (\E k \in Key : PurgeRow(k)) \/ PurgeCommit

Next ==
  \/ LoadGroup
  \/ \E w \in Writer, k \in Key, s \in Search : BeginSearch(w, k, s)
  \/ \E w \in Writer : WriterStep(w) \/ Rollback(w)
  \/ \E edit \in Edits : BeginClear(edit)
  \/ EditorStep
  \/ AbandonEdit
  \/ \E k \in Key : Departs(k)
  \/ PurgeLogs
  \/ PurgeStep
  \/ PurgeFails

Spec == Init /\ [][Next]_vars

(* When two transactions wait for each other, PostgreSQL makes one fail.      *)
BreakCircle ==
  \/ \E w \in Writer : Circle(Editor, w) /\ (Rollback(w) \/ AbandonEdit)
  \/ Circle(Editor, Purge) /\ (PurgeFails \/ AbandonEdit)

(* Every statement is answered once its locks are free: PostgreSQL queues the *)
(* waiters of a row, so that none is overtaken for ever.  Nothing has to fail  *)
(* but what waits in a circle.                                              *)
Fairness ==
  /\ \A w \in Writer : SF_vars(WriterStep(w))
  /\ SF_vars(EditorStep)
  /\ SF_vars(PurgeStep)
  /\ WF_vars(BreakCircle)

FairSpec == Spec /\ Fairness

(***************************************************************************)
(* Properties.                                                             *)
(***************************************************************************)

TypeOK ==
  /\ exists \in BOOLEAN
  /\ version \in Nat
  /\ cheapest \in [Key -> Search \cup {0}]
  /\ results \in [Key -> SUBSET Search]
  /\ rowLock \in [Key -> Writer \cup {Nobody, Editor}]
  /\ offerLock \in [Key -> Transaction \cup {Nobody}]
  /\ logLock \in {Nobody, Editor, Purge}
  /\ writer \in [Writer -> WriterState]
  /\ editor \in EditorState
  /\ purge \in PurgeState
  /\ past \subseteq Past
  /\ loaded \in Nat
  /\ searchedFor \in [Search -> Nat]

(* The offers shown for a key are those of the search its cheapest price      *)
(* comes from, never another's: "the table always reflects the most recent   *)
(* collection" (models/all_flight_result.py).  There may be none, when the    *)
(* date is purged or an edit deletes offers whose price it did not see.      *)
OffersOfCheapest ==
  \A k \in Key : results[k] \subseteq {cheapest[k]} \ {0}

(* A deleted group leaves nothing behind, whatever was being collected.      *)
NothingOutlivesGroup ==
  ~exists => \A k \in Key : cheapest[k] = 0 /\ results[k] = {}

(* Readers of the two tables see the offers of a search only with its         *)
(* cheapest price, and a search replaces what a key shows as a whole.         *)
Table == INSTANCE PriceTable WITH
  table <- [k \in Key |-> [cheapest |-> cheapest[k], offers |-> results[k]]]

ImplementsPriceTable == Table!Spec

(* Transactions do wait in circles, but always two of them, the editor and    *)
(* one other, and a collection is in such a circle only with the deletion of  *)
(* the group: an update of the group costs no collected price that way.       *)
OnlyDeletionCircles ==
  \A w \in Writer : Circle(Editor, w) => editor.edit = "delete"

(* Nobody waits for ever: with the circles broken by PostgreSQL, writers,     *)
(* editors and purges end.                                                  *)
TransactionsEnd ==
  /\ \A w \in Writer : writer[w].at = "upserting" ~> writer[w].at = "idle"
  /\ editor.at = "clearing" ~> editor.at = "idle"
  /\ purge.at = "logged" ~> purge.at = "idle"

(* test_update_route_group_clears_stale_collection_data: after an edit the    *)
(* prices of the old identity are gone.                                      *)
NoStalePrices ==
  \A k \in Key : cheapest[k] # 0 => searchedFor[cheapest[k]] = version
================================================================================
