------------------------------- MODULE Scheduler -------------------------------
(***************************************************************************)
(* The collection scheduler of the backend (tasks/scheduler.py), its        *)
(* lifecycle (core/app_factory.py) and its HTTP entry points                *)
(* (api/v1/routes/collection.py), run by several server processes against   *)
(* one PostgreSQL database.                                                 *)
(*                                                                         *)
(* Each process is one asyncio event loop: an action is the code between    *)
(* two awaits, together with the database statement the second await waits  *)
(* for.  A process may run two collection coroutines at a time: the task    *)
(* the API created ("manual") and the interval job ("timer").  What is      *)
(* collected inside a route is modelled by RouteBatch and PriceStore.       *)
(***************************************************************************)
EXTENDS Naturals

CONSTANTS
  Process,        \* server processes sharing the database
  Run,            \* primary keys of collection_runs
  None,           \* no process, no run
  MaxRoutes,      \* bound on the routes one run plans
  LockMayBeLost   \* TRUE: the database may drop an idle lock connection

ASSUME NoneAssumption == None \notin Process /\ None \notin Run
ASSUME MaxRoutesAssumption == MaxRoutes \in Nat
ASSUME LockMayBeLostAssumption == LockMayBeLost \in BOOLEAN

VARIABLES
  life,           \* where each process is between lifespan startup and exit
  task,           \* where each collection coroutine is
  collecting,     \* _is_collecting
  stopRequested,  \* _stop_requested
  conn,           \* _lock_connection
  lock,           \* the session holding advisory lock 987654321, by process
  current,        \* the local "run" of the coroutine inside the body
  left,           \* planned routes not begun yet
  tally,          \* total_success and total_errors: none, only errors, a success
  verdict,        \* the final status being committed
  rows            \* table collection_runs

procVars == <<collecting, stopRequested>>
bodyVars == <<current, left, tally, verdict>>
vars == <<life, task, procVars, conn, lock, bodyVars, rows>>

(* The coroutine of POST /trigger, that of POST /trigger-group, and the      *)
(* interval job.  The first two are tracked in _active_task, one at a time.  *)
Manual == {"cycle", "group"}
Job == Manual \cup {"timer"}

(* life: stop() waits for the manual task ("waiting"), cancels it after 5 s *)
(* ("cancelling"), closes the lock connection ("closing") and returns       *)
(* ("stopped"), or raises ("failed").                                       *)
Life == {"down", "up", "waiting", "cancelling", "closing", "stopped", "failed"}
Serving == {"up", "waiting", "cancelling"}    \* the interval trigger is alive

(* "created" is a task that has not run yet; "locking" has set the flags;   *)
(* InBody holds the lock; "leaving" only has the flags to reset.            *)
InBody == {"opening", "planning", "collecting", "scraping", "committing"}
WithRow == InBody \ {"opening"}
HoldsLock == InBody \cup {"releasing"}
Entered == HoldsLock \cup {"locking", "leaving"}
Phase == Entered \cup {"none", "created"}

FinalStatus == {"completed", "failed", "stopped"}
Status == FinalStatus \cup {"absent", "running"}

(* A row of collection_runs: "finished" is finished_at IS NOT NULL.         *)
Row == [status : Status, finished : BOOLEAN]
NoRow == [status |-> "absent", finished |-> FALSE]

Init ==
  /\ life = [p \in Process |-> "down"]
  /\ task = [p \in Process |-> [j \in Job |-> "none"]]
  /\ collecting = [p \in Process |-> FALSE]
  /\ stopRequested = [p \in Process |-> FALSE]
  /\ conn = [p \in Process |-> "none"]
  /\ lock = None
  /\ current = [p \in Process |-> None]
  /\ left = [p \in Process |-> 0]
  /\ tally = [p \in Process |-> "nothing"]
  /\ verdict = [p \in Process |-> "completed"]
  /\ rows = [r \in Run |-> NoRow]

(***************************************************************************)
(* Small operators.                                                        *)
(***************************************************************************)

Goto(p, j, phase) == task' = [task EXCEPT ![p][j] = phase]

Idle(p, j) == task[p][j] = "none"

NoManualTask(p) == \A j \in Manual : Idle(p, j)

Finish(r, status) ==
  rows' = [rows EXCEPT ![r] = [status |-> status, finished |-> TRUE]]

InFlight(r) == \E p \in Process, j \in Job : task[p][j] \in WithRow /\ current[p] = r

(* The locals of a coroutine that is over. *)
Forget(p) ==
  /\ current' = [current EXCEPT ![p] = None]
  /\ left' = [left EXCEPT ![p] = 0]
  /\ tally' = [tally EXCEPT ![p] = "nothing"]
  /\ verdict' = [verdict EXCEPT ![p] = "completed"]

(* Where a coroutine goes when an exception or a cancellation is raised at   *)
(* its await: through the finally blocks that are still open.               *)
Unwind(phase) ==
  CASE phase \in InBody -> "releasing"
    [] phase \in {"releasing", "locking", "leaving"} -> "leaving"
    [] phase \in {"created", "none"} -> "none"

(***************************************************************************)
(* Faulty variants: each is an action below with one plausible mistake, and   *)
(* a property that must notice it.  No specification uses them.              *)
(***************************************************************************)

(* every row that is not completed is failed *)
Boot_FailsAllRows(p) ==
  /\ life[p] = "down"
  /\ life' = [life EXCEPT ![p] = "up"]
  /\ rows' = [r \in Run |->
                IF rows[r].status \in {"running", "stopped"}
                THEN [status |-> "failed", finished |-> rows[r].finished]
                ELSE rows[r]]
  /\ UNCHANGED <<task, procVars, conn, lock, bodyVars>>

(* the rows are also given a finish time *)
Boot_FinishesRows(p) ==
  /\ life[p] = "down"
  /\ life' = [life EXCEPT ![p] = "up"]
  /\ rows' = [r \in Run |->
                IF rows[r].status = "running"
                THEN [status |-> "failed", finished |-> TRUE]
                ELSE rows[r]]
  /\ UNCHANGED <<task, procVars, conn, lock, bodyVars>>

(* the flags are set before the guard is evaluated *)
Enter_ResetsFirst(p, j) ==
  /\ task[p][j] = "created"
  /\ Goto(p, j, IF collecting[p] THEN "none" ELSE "locking")
  /\ collecting' = [collecting EXCEPT ![p] = TRUE]
  /\ stopRequested' = [stopRequested EXCEPT ![p] = FALSE]
  /\ UNCHANGED <<life, conn, lock, bodyVars, rows>>

(* no guard *)
Enter_Unguarded(p, j) ==
  /\ task[p][j] = "created"
  /\ Goto(p, j, "locking")
  /\ collecting' = [collecting EXCEPT ![p] = TRUE]
  /\ stopRequested' = [stopRequested EXCEPT ![p] = FALSE]
  /\ UNCHANGED <<life, conn, lock, bodyVars, rows>>

(* the result of pg_try_advisory_lock is ignored *)
TakeLock_Unchecked(p, j) ==
  /\ task[p][j] = "locking"
  /\ lock' = p
  /\ conn' = [conn EXCEPT ![p] = "open"]
  /\ Goto(p, j, "opening")
  /\ UNCHANGED <<life, procVars, bodyVars, rows>>

(* one route too many *)
Plan_OneTooMany(p, j, n) ==
  /\ task[p][j] = "planning"
  /\ left' = [left EXCEPT ![p] = n + 1]
  /\ Goto(p, j, "collecting")
  /\ UNCHANGED <<life, procVars, conn, lock, current, tally, verdict, rows>>

(* the connection goes back to the pool without the unlock *)
Release_OnlyCloses(p, j) ==
  /\ task[p][j] = "releasing"
  /\ conn' = [conn EXCEPT ![p] = "none"]
  /\ Goto(p, j, "leaving")
  /\ UNCHANGED <<life, procVars, lock, bodyVars, rows>>

(* _is_collecting is not reset *)
Leave_KeepsFlag(p, j) ==
  /\ task[p][j] = "leaving"
  /\ stopRequested' = [stopRequested EXCEPT ![p] = FALSE]
  /\ Forget(p)
  /\ Goto(p, j, "none")
  /\ UNCHANGED <<life, collecting, conn, lock, rows>>

(* scheduler.shutdown waits for the interval job, which keeps firing *)
StopShutsTimer_Waits(p) ==
  /\ life[p] = "waiting"
  /\ NoManualTask(p)
  /\ Idle(p, "timer")
  /\ life' = [life EXCEPT ![p] = "closing"]
  /\ UNCHANGED <<task, procVars, conn, lock, bodyVars, rows>>

(***************************************************************************)
(* Starting a collection.                                                  *)
(***************************************************************************)

(* lifespan: every "running" row is taken for the leftover of a crash.      *)
Boot(p) ==
  /\ life[p] = "down"
  /\ life' = [life EXCEPT ![p] = "up"]
  /\ rows' = [r \in Run |->
                IF rows[r].status = "running"
                THEN [status |-> "failed", finished |-> rows[r].finished]
                ELSE rows[r]]
  /\ UNCHANGED <<task, procVars, conn, lock, bodyVars>>

(* The interval trigger submits run_collection_cycle; max_instances = 1.    *)
TimerFires(p) ==
  /\ life[p] \in Serving
  /\ Idle(p, "timer")
  /\ Goto(p, "timer", "created")
  /\ UNCHANGED <<life, procVars, conn, lock, bodyVars, rows>>

(* POST /trigger, POST /trigger-group: only the first looks at              *)
(* is_collecting; both are dropped while _active_task is not done.          *)
Trigger(p, j) ==
  /\ life[p] = "up"
  /\ j = "cycle" => ~collecting[p]
  /\ NoManualTask(p)
  /\ Goto(p, j, "created")
  /\ UNCHANGED <<life, procVars, conn, lock, bodyVars, rows>>

(* POST /stop. *)
RequestStop(p) ==
  /\ life[p] = "up"
  /\ collecting[p]
  /\ stopRequested' = [stopRequested EXCEPT ![p] = TRUE]
  /\ UNCHANGED <<life, task, collecting, conn, lock, bodyVars, rows>>

(***************************************************************************)
(* run_collection_cycle and trigger_single_group.                          *)
(***************************************************************************)

(* First step of the coroutine: the guard and the two flags, no await.      *)
Enter(p, j) ==
  /\ task[p][j] = "created"
  /\ IF collecting[p]
     THEN Goto(p, j, "none") /\ UNCHANGED procVars
     ELSE /\ Goto(p, j, "locking")
          /\ collecting' = [collecting EXCEPT ![p] = TRUE]
          /\ stopRequested' = [stopRequested EXCEPT ![p] = FALSE]
  /\ UNCHANGED <<life, conn, lock, bodyVars, rows>>

(* pg_try_advisory_lock on a connection of its own, kept on success. *)
TakeLock(p, j) ==
  /\ task[p][j] = "locking"
  /\ lock = None
  /\ lock' = p
  /\ conn' = [conn EXCEPT ![p] = "open"]
  /\ Goto(p, j, "opening")
  /\ UNCHANGED <<life, procVars, bodyVars, rows>>

(* Another session holds the lock, or the database could not be asked. *)
LockUnavailable(p, j) ==
  /\ task[p][j] = "locking"
  /\ Goto(p, j, "leaving")
  /\ UNCHANGED <<life, procVars, conn, lock, bodyVars, rows>>

(* INSERT of the run row, committed at once. *)
OpenRun(p, j) ==
  /\ task[p][j] = "opening"
  /\ \E r \in Run :
       /\ rows[r] = NoRow
       /\ rows' = [rows EXCEPT ![r] = [status |-> "running", finished |-> FALSE]]
       /\ current' = [current EXCEPT ![p] = r]
  /\ Goto(p, j, "planning")
  /\ UNCHANGED <<life, procVars, conn, lock, left, tally, verdict>>

(* No enabled provider, or the group is gone or inactive: failed at once.   *)
NothingToRun(p, j) ==
  /\ task[p][j] = "planning"
  /\ Finish(current[p], "failed")
  /\ Goto(p, j, "releasing")
  /\ UNCHANGED <<life, procVars, conn, lock, bodyVars>>

(* Rank the groups, drop what is already scraped, commit routes_total.  A   *)
(* stop seen while planning only shortens the plan, so n is any number.     *)
Plan(p, j, n) ==
  /\ task[p][j] = "planning"
  /\ left' = [left EXCEPT ![p] = n]
  /\ Goto(p, j, "collecting")
  /\ UNCHANGED <<life, procVars, conn, lock, current, tally, verdict, rows>>

(* The loop over the planned routes, with its stop check. *)
BeginRoute(p, j) ==
  /\ task[p][j] = "collecting"
  /\ left[p] > 0
  /\ ~stopRequested[p]
  /\ left' = [left EXCEPT ![p] = @ - 1]
  /\ Goto(p, j, "scraping")
  /\ UNCHANGED <<life, procVars, conn, lock, current, tally, verdict, rows>>

(* collect_route_batch returned its stats, or raised in a whole cycle, which *)
(* counts as one error.                                                     *)
EndRoute(p, j) ==
  /\ task[p][j] = "scraping"
  /\ \E outcome \in {"nothing", "errors", "success"} :
       tally' = [tally EXCEPT ![p] =
                   IF "success" \in {@, outcome} THEN "success"
                   ELSE IF "errors" \in {@, outcome} THEN "errors" ELSE "nothing"]
  /\ Goto(p, j, "collecting")
  /\ UNCHANGED <<life, procVars, conn, lock, current, left, verdict, rows>>

(* The final status is chosen before the commit that stores it is awaited. *)
Decide(p, j) ==
  /\ task[p][j] = "collecting"
  /\ left[p] = 0 \/ stopRequested[p]
  /\ verdict' = [verdict EXCEPT ![p] =
                   IF stopRequested[p] THEN "stopped"
                   ELSE IF tally[p] = "errors" THEN "failed" ELSE "completed"]
  /\ Goto(p, j, "committing")
  /\ UNCHANGED <<life, procVars, conn, lock, current, left, tally, rows>>

CommitVerdict(p, j) ==
  /\ task[p][j] = "committing"
  /\ Finish(current[p], verdict[p])
  /\ Goto(p, j, "releasing")
  /\ UNCHANGED <<life, procVars, conn, lock, bodyVars>>

(* An exception escapes the body: a statement fails, or collect_route_batch  *)
(* raises in trigger_single_group, which does not catch it.  The row stays   *)
(* as it is.                                                                *)
Abort(p, j) ==
  /\ task[p][j] \in InBody \ {"collecting", "scraping"}
     \/ (task[p][j] = "scraping" /\ j = "group")
  /\ Goto(p, j, "releasing")
  /\ UNCHANGED <<life, procVars, conn, lock, bodyVars, rows>>

(* _release_global_lock: unlock and close through _lock_connection.  On a    *)
(* dead or missing connection there is nothing to unlock and the error, if   *)
(* any, is swallowed.                                                       *)
Release(p, j) ==
  /\ task[p][j] = "releasing"
  /\ lock' = IF conn[p] = "open" THEN None ELSE lock
  /\ conn' = [conn EXCEPT ![p] = "none"]
  /\ Goto(p, j, "leaving")
  /\ UNCHANGED <<life, procVars, bodyVars, rows>>

(* The session is closed and the outer finally resets the flags. *)
Leave(p, j) ==
  /\ task[p][j] = "leaving"
  /\ collecting' = [collecting EXCEPT ![p] = FALSE]
  /\ stopRequested' = [stopRequested EXCEPT ![p] = FALSE]
  /\ Forget(p)
  /\ Goto(p, j, "none")
  /\ UNCHANGED <<life, conn, lock, rows>>

(***************************************************************************)
(* Shutting down.                                                          *)
(***************************************************************************)

(* A cancelled coroutine unwinds.  If it was waiting for the unlock, the     *)
(* connection is closed all the same, with or without the lock given back.  *)
Cancel(p, j, nextLife) ==
  /\ life' = [life EXCEPT ![p] = nextLife]
  /\ Goto(p, j, Unwind(task[p][j]))
  /\ IF task[p][j] = "releasing"
     THEN /\ conn' = [conn EXCEPT ![p] = "none"]
          /\ lock' \in {lock, IF conn[p] = "open" THEN None ELSE lock}
     ELSE UNCHANGED <<conn, lock>>
  /\ UNCHANGED <<collecting, bodyVars, rows>>

(* stop(): the flag is set before anything is awaited. *)
StopBegins(p) ==
  /\ life[p] = "up"
  /\ life' = [life EXCEPT ![p] = "waiting"]
  /\ stopRequested' = [stopRequested EXCEPT ![p] = TRUE]
  /\ UNCHANGED <<task, collecting, conn, lock, bodyVars, rows>>

(* wait_for gives up after 5 s and cancels the manual task, which by then has  *)
(* long begun.                                                              *)
StopTimesOut(p) ==
  /\ life[p] = "waiting"
  /\ \E j \in Manual : task[p][j] \in Entered /\ Cancel(p, j, "cancelling")
  /\ UNCHANGED stopRequested

(* The task is done, its callback has cleared _active_task, and the handler  *)
(* of the timeout calls cancel() on it: stop() raises, and what follows in   *)
(* it and in the lifespan is skipped.                                       *)
StopRaises(p) ==
  /\ life[p] = "cancelling"
  /\ NoManualTask(p)
  /\ life' = [life EXCEPT ![p] = "failed"]
  /\ UNCHANGED <<task, procVars, conn, lock, bodyVars, rows>>

(* The manual task ended in time: scheduler.shutdown cancels the interval    *)
(* job without waiting for it.                                              *)
StopShutsTimer(p) ==
  /\ life[p] = "waiting"
  /\ NoManualTask(p)
  /\ Cancel(p, "timer", "closing")
  /\ UNCHANGED stopRequested

(* The lock connection, if still there, is closed without an unlock: it goes *)
(* back to the pool and its session keeps the advisory lock.                *)
StopCloses(p) ==
  /\ life[p] = "closing"
  /\ conn' = [conn EXCEPT ![p] = "none"]
  /\ life' = [life EXCEPT ![p] = "stopped"]
  /\ UNCHANGED <<task, procVars, lock, bodyVars, rows>>

(* The end of a process: its memory and its database sessions are gone. *)
Die(p) ==
  /\ life' = [life EXCEPT ![p] = "down"]
  /\ task' = [task EXCEPT ![p] = [j \in Job |-> "none"]]
  /\ collecting' = [collecting EXCEPT ![p] = FALSE]
  /\ stopRequested' = [stopRequested EXCEPT ![p] = FALSE]
  /\ conn' = [conn EXCEPT ![p] = "none"]
  /\ lock' = IF lock = p THEN None ELSE lock
  /\ Forget(p)
  /\ UNCHANGED rows

Exit(p) == life[p] \in {"stopped", "failed"} /\ Die(p)
Crash(p) == life[p] \notin {"down", "stopped", "failed"} /\ Die(p)

(***************************************************************************)
(* The database.                                                           *)
(***************************************************************************)

(* The lock connection sits idle in a transaction for the whole run; the     *)
(* server or a pooler may drop it, which frees the lock.                    *)
LoseLockSession(p) ==
  /\ LockMayBeLost
  /\ conn[p] = "open"
  /\ conn' = [conn EXCEPT ![p] = "dead"]
  /\ lock' = None
  /\ UNCHANGED <<life, task, procVars, bodyVars, rows>>

(* cleanup_old_data deletes rows of runs begun more than 30 days ago; a run  *)
(* in flight is never that old.                                             *)
PurgeRun(r) ==
  /\ \E p \in Process : life[p] \in Serving
  /\ rows[r] # NoRow
  /\ ~InFlight(r)
  /\ rows' = [rows EXCEPT ![r] = NoRow]
  /\ UNCHANGED <<life, task, procVars, conn, lock, bodyVars>>

(***************************************************************************)
(* The specification.                                                      *)
(***************************************************************************)

JobStep(p, j) ==
  \/ Enter(p, j)
  \/ TakeLock(p, j)
  \/ LockUnavailable(p, j)
  \/ OpenRun(p, j)
  \/ NothingToRun(p, j)
  \/ \E n \in 0 .. MaxRoutes : Plan(p, j, n)
  \/ BeginRoute(p, j)
  \/ EndRoute(p, j)
  \/ Decide(p, j)
  \/ CommitVerdict(p, j)
  \/ Abort(p, j)
  \/ Release(p, j)
  \/ Leave(p, j)

StopStep(p) ==
  \/ StopTimesOut(p)
  \/ StopRaises(p)
  \/ StopShutsTimer(p)
  \/ StopCloses(p)
  \/ Exit(p)

Next ==
  \/ \E p \in Process :
       \/ Boot(p)
       \/ TimerFires(p)
       \/ \E j \in Manual : Trigger(p, j)
       \/ RequestStop(p)
       \/ \E j \in Job : JobStep(p, j)
       \/ StopBegins(p)
       \/ StopStep(p)
       \/ Crash(p)
       \/ LoseLockSession(p)
  \/ \E r \in Run : PurgeRun(r)

Spec == Init /\ [][Next]_vars

(* The event loop keeps running the coroutines that are ready, and every     *)
(* await ends: statements and searches have timeouts.  A shutdown, once      *)
(* begun, goes on.  Nothing obliges anyone to trigger, stop, crash or boot.  *)
Fairness ==
  \A p \in Process :
    /\ \A j \in Job : WF_vars(JobStep(p, j))
    /\ WF_vars(StopStep(p))

FairSpec == Spec /\ Fairness

(***************************************************************************)
(* Properties.                                                             *)
(***************************************************************************)

TypeOK ==
  /\ life \in [Process -> Life]
  /\ task \in [Process -> [Job -> Phase]]
  /\ collecting \in [Process -> BOOLEAN]
  /\ stopRequested \in [Process -> BOOLEAN]
  /\ conn \in [Process -> {"none", "open", "dead"}]
  /\ lock \in Process \cup {None}
  /\ current \in [Process -> Run \cup {None}]
  /\ left \in [Process -> 0 .. MaxRoutes]
  /\ tally \in [Process -> {"nothing", "errors", "success"}]
  /\ verdict \in [Process -> FinalStatus]
  /\ rows \in [Run -> Row]

Collects(p) == \E j \in Job : task[p][j] \in InBody

(* The scheduler implements CollectionLock, as long as no lock connection is *)
(* dropped under a running collection.                                      *)
Abstract == INSTANCE CollectionLock WITH
  holder <- lock,
  working <- {p \in Process : Collects(p)}

ImplementsCollectionLock == Abstract!Spec

(* README: the advisory lock "prevents duplicate collection runs": no two    *)
(* processes, and no two coroutines of one, are inside the body of a         *)
(* collection at the same time.                                             *)
OneCollector ==
  \A p, q \in Process : \A i, j \in Job :
    task[p][i] \in InBody /\ task[q][j] \in InBody => p = q /\ i = j

(* The lock does not outlive its use: when a serving process holds it, one   *)
(* of its coroutines is still going to give it back.                        *)
LockNotLeaked ==
  \A p \in Process :
    lock = p /\ life[p] \in {"up", "waiting"} =>
      \E j \in Job : task[p][j] \in HoldsLock

(* Why OneCollector and LockNotLeaked hold while no lock connection is lost:  *)
(* past the guard there is one coroutine a process, with the flag up; past    *)
(* the lock it owns the lock, through its connection while the process        *)
(* serves; a process that is down owns nothing.                             *)
OneEntered ==
  \A p \in Process : \A i, j \in Job :
    task[p][i] \in Entered /\ task[p][j] \in Entered => i = j

EnteredHasFlag ==
  \A p \in Process, j \in Job : task[p][j] \in Entered => collecting[p]

HolderHasLock ==
  \A p \in Process, j \in Job : task[p][j] \in HoldsLock => lock = p

HolderHasConnection ==
  \A p \in Process, j \in Job :
    task[p][j] \in HoldsLock /\ life[p] \in {"up", "waiting"} => conn[p] = "open"

DownHasNothing ==
  \A p \in Process :
    life[p] = "down" => lock # p /\ \A j \in Job : task[p][j] = "none"

LockDiscipline ==
  /\ OneEntered
  /\ EnteredHasFlag
  /\ HolderHasLock
  /\ HolderHasConnection
  /\ DownHasNothing
  /\ LockNotLeaked

(* Two collections in flight never share a row, and the row of a collection  *)
(* in flight is there and unfinished, even if a starting process has marked  *)
(* it failed: nobody else finishes it and nobody purges it.                  *)
OwnsItsRow ==
  \A p \in Process, i \in Job :
    task[p][i] \in WithRow =>
      /\ current[p] \in Run
      /\ rows[current[p]].status \in {"running", "failed"}
      /\ ~rows[current[p]].finished
      /\ \A q \in Process \ {p}, j \in Job :
           task[q][j] \in WithRow => current[q] # current[p]

(* POST /stop answered "stop_requested": the request stands until the        *)
(* collection it was made for is over, whatever else is triggered.          *)
StopStands ==
  [][\A p \in Process :
       collecting[p] /\ stopRequested[p] => stopRequested'[p] \/ ~collecting'[p]]_vars

(* A row with a finish time never changes again, except for its deletion.    *)
FinishedIsFinal ==
  [][\A r \in Run :
       rows[r].finished => rows'[r] \in {rows[r], NoRow}]_vars

(* is_collecting never sticks: a collection ends, by whatever path, and the  *)
(* process can collect again.                                               *)
CollectionEnds == \A p \in Process : collecting[p] ~> ~collecting[p]

(* The database lock is given back, whoever dies or is stopped holding it.   *)
LockReturns == \A p \in Process : lock = p ~> lock # p

(* Shutdown terminates, even when its five seconds run out.                  *)
ShutdownEnds == \A p \in Process : life[p] = "waiting" ~> life[p] = "down"

(* stop() returns, so that the lifespan closes the providers and logs         *)
(* "shutdown complete".                                                     *)
StopReturns == \A p \in Process : life[p] # "failed"

(* app_factory.py: start-up fails the runs "stuck in running (from a          *)
(* previous crash)", hence no run that is in flight.                         *)
StartupFailsOnlyDeadRuns ==
  [][\A r \in Run :
       rows[r].status = "running" /\ rows'[r].status = "failed" /\ ~rows'[r].finished
         => ~InFlight(r)]_vars

================================================================================
