--------------------------- MODULE SchedulerProofs ---------------------------
(***************************************************************************)
(* Theorems about Scheduler, for any number of processes, rows and routes.   *)
(***************************************************************************)
EXTENDS Scheduler, TLAPS

(* Goto and Unwind stay inside the phases, whatever phase they start from.   *)
LEMMA GotoType ==
  ASSUME TypeOK, NEW p \in Process, NEW j \in Job, NEW phase \in Phase, Goto(p, j, phase)
  PROVE  task' \in [Process -> [Job -> Phase]]
BY DEF TypeOK, Goto

LEMMA UnwindType ==
  ASSUME NEW phase \in Phase
  PROVE  Unwind(phase) \in Phase
BY DEF Unwind, Phase, Entered, HoldsLock, InBody

LEMMA CancelType ==
  ASSUME TypeOK, NEW p \in Process, NEW j \in Job, NEW l \in Life, Cancel(p, j, l),
         UNCHANGED stopRequested
  PROVE  TypeOK'
<1>1. Unwind(task[p][j]) \in Phase
  BY UnwindType DEF TypeOK
<1>2. task' \in [Process -> [Job -> Phase]]
  BY <1>1, GotoType DEF Cancel
<1>3. QED
  BY <1>2 DEF TypeOK, Cancel, bodyVars

LEMMA DieType ==
  ASSUME TypeOK, NEW p \in Process, Die(p)
  PROVE  TypeOK'
BY MaxRoutesAssumption DEF TypeOK, Die, Forget, Life, Phase, FinalStatus

(* The steps of a coroutine preserve the types. *)
LEMMA JobStepType ==
  ASSUME TypeOK, NEW p \in Process, NEW j \in Job, JobStep(p, j)
  PROVE  TypeOK'
<1> USE MaxRoutesAssumption
<1> USE DEF TypeOK, procVars, bodyVars
<1>0. {"none", "created", "locking", "leaving", "releasing", "opening", "planning",
       "collecting", "scraping", "committing"} \subseteq Phase
  BY DEF Phase, Entered, HoldsLock, InBody
<1>1. CASE Enter(p, j)
  BY <1>0, <1>1, GotoType DEF Enter
<1>2. CASE TakeLock(p, j)
  BY <1>0, <1>2, GotoType DEF TakeLock
<1>3. CASE LockUnavailable(p, j)
  BY <1>0, <1>3, GotoType DEF LockUnavailable
<1>4. CASE OpenRun(p, j)
  BY <1>0, <1>4, GotoType DEF OpenRun, Row, Status
<1>5. CASE NothingToRun(p, j)
  BY <1>0, <1>5, GotoType DEF NothingToRun, Finish, Row, Status, FinalStatus
<1>6. ASSUME NEW n \in 0 .. MaxRoutes, Plan(p, j, n)
      PROVE  TypeOK'
  BY <1>0, <1>6, GotoType DEF Plan
<1>7. CASE BeginRoute(p, j)
  BY <1>0, <1>7, GotoType DEF BeginRoute
<1>8. CASE EndRoute(p, j)
  BY <1>0, <1>8, GotoType DEF EndRoute
<1>9. CASE Decide(p, j)
  BY <1>0, <1>9, GotoType DEF Decide, FinalStatus
<1>10. CASE CommitVerdict(p, j)
  BY <1>0, <1>10, GotoType DEF CommitVerdict, Finish, Row, Status
<1>11. CASE Abort(p, j)
  BY <1>0, <1>11, GotoType DEF Abort
<1>12. CASE Release(p, j)
  BY <1>0, <1>12, GotoType DEF Release
<1>13. CASE Leave(p, j)
  BY <1>0, <1>13, GotoType DEF Leave, Forget, FinalStatus
<1>14. QED
  BY <1>1, <1>2, <1>3, <1>4, <1>5, <1>6, <1>7, <1>8, <1>9, <1>10, <1>11, <1>12, <1>13
  DEF JobStep

(* Every variable of Scheduler keeps its type, for every value of the        *)
(* constants.                                                               *)
THEOREM TypeCorrect == Spec => []TypeOK
<1>1. Init => TypeOK
  BY MaxRoutesAssumption
  DEF Init, TypeOK, Life, Phase, Row, NoRow, Status, FinalStatus
<1>2. TypeOK /\ [Next]_vars => TypeOK'
  <2> SUFFICES ASSUME TypeOK, [Next]_vars
               PROVE  TypeOK'
    OBVIOUS
  <2>0. "created" \in Phase /\ Manual \subseteq Job /\ "timer" \in Job
    BY DEF Phase, Manual, Job
  <2>1. ASSUME NEW p \in Process, Boot(p)
        PROVE  TypeOK'
    BY <2>1 DEF Boot, TypeOK, procVars, bodyVars, Life, Row, Status, FinalStatus
  <2>2. ASSUME NEW p \in Process, TimerFires(p)
        PROVE  TypeOK'
    BY <2>0, <2>2, GotoType DEF TimerFires, TypeOK, procVars, bodyVars
  <2>3. ASSUME NEW p \in Process, NEW j \in Manual, Trigger(p, j)
        PROVE  TypeOK'
    BY <2>0, <2>3, GotoType DEF Trigger, TypeOK, procVars, bodyVars
  <2>4. ASSUME NEW p \in Process, RequestStop(p)
        PROVE  TypeOK'
    BY <2>4 DEF RequestStop, TypeOK, bodyVars
  <2>5. ASSUME NEW p \in Process, NEW j \in Job, JobStep(p, j)
        PROVE  TypeOK'
    BY <2>5, JobStepType
  <2>6. ASSUME NEW p \in Process, StopBegins(p)
        PROVE  TypeOK'
    BY <2>6 DEF StopBegins, TypeOK, bodyVars, Life
  <2>7. ASSUME NEW p \in Process, StopStep(p)
        PROVE  TypeOK'
    <3>1. CASE StopTimesOut(p)
      BY <2>0, <2>7, <3>1, CancelType DEF StopTimesOut, Life
    <3>2. CASE StopRaises(p)
      BY <2>7, <3>2 DEF StopRaises, TypeOK, procVars, bodyVars, Life
    <3>3. CASE StopShutsTimer(p)
      BY <2>0, <2>7, <3>3, CancelType DEF StopShutsTimer, Life
    <3>4. CASE StopCloses(p)
      BY <2>7, <3>4 DEF StopCloses, TypeOK, procVars, bodyVars, Life
    <3>5. CASE Exit(p)
      BY <2>7, <3>5, DieType DEF Exit
    <3>6. QED
      BY <2>7, <3>1, <3>2, <3>3, <3>4, <3>5 DEF StopStep
  <2>8. ASSUME NEW p \in Process, Crash(p)
        PROVE  TypeOK'
    BY <2>8, DieType DEF Crash
  <2>9. ASSUME NEW p \in Process, LoseLockSession(p)
        PROVE  TypeOK'
    BY <2>9 DEF LoseLockSession, TypeOK, procVars, bodyVars
  <2>10. ASSUME NEW r \in Run, PurgeRun(r)
         PROVE  TypeOK'
    BY <2>10 DEF PurgeRun, TypeOK, procVars, bodyVars, Row, NoRow, Status
  <2>11. CASE UNCHANGED vars
    BY <2>11 DEF vars, procVars, bodyVars, TypeOK
  <2>12. QED
    BY <2>1, <2>2, <2>3, <2>4, <2>5, <2>6, <2>7, <2>8, <2>9, <2>10, <2>11 DEF Next
<1>3. QED
  BY <1>1, <1>2, PTL DEF Spec

(***************************************************************************)
(* Within one process.  What follows needs neither the advisory lock nor its  *)
(* connection: the flag alone keeps the coroutines of a process apart.        *)
(***************************************************************************)

DownHasNoTask == \A p \in Process : life[p] = "down" => \A j \in Job : Idle(p, j)

FlagDiscipline == OneEntered /\ EnteredHasFlag /\ DownHasNoTask

(* A phase is one of these, and only those between "locking" and "leaving"    *)
(* are past the guard.                                                       *)
LEMMA PhasesOfACoroutine ==
  /\ Phase = {"none", "created", "locking", "opening", "planning", "collecting", "scraping",
              "committing", "releasing", "leaving"}
  /\ Entered = Phase \ {"none", "created"}
  /\ InBody = Entered \ {"locking", "releasing", "leaving"}
  /\ WithRow = InBody \ {"opening"}
BY DEF Phase, Entered, HoldsLock, InBody, WithRow

(* Steps of a coroutine, and cancellations, that no guard has to be passed for. *)
LEMMA MoveKeepsFlags ==
  ASSUME TypeOK, FlagDiscipline, NEW p \in Process, NEW j \in Job, NEW phase \in Phase,
         Goto(p, j, phase), UNCHANGED collecting, life'[p] # "down",
         \A q \in Process : life'[q] = "down" => life[q] = "down",
         phase \in Entered => task[p][j] \in Entered
  PROVE  FlagDiscipline'
BY DEF TypeOK, FlagDiscipline, OneEntered, EnteredHasFlag, DownHasNoTask, Idle, Goto

LEMMA RestKeepsFlags ==
  ASSUME FlagDiscipline, UNCHANGED <<task, collecting>>,
         \A q \in Process : life'[q] = "down" => life[q] = "down"
  PROVE  FlagDiscipline'
BY DEF FlagDiscipline, OneEntered, EnteredHasFlag, DownHasNoTask, Idle

LEMMA DieKeepsFlags ==
  ASSUME TypeOK, FlagDiscipline, NEW p \in Process, Die(p)
  PROVE  FlagDiscipline'
<1>1. /\ task' = [task EXCEPT ![p] = [j \in Job |-> "none"]]
      /\ life' = [life EXCEPT ![p] = "down"]
      /\ collecting' = [collecting EXCEPT ![p] = FALSE]
  BY DEF Die
<1>2. QED
  BY <1>1, PhasesOfACoroutine
  DEF TypeOK, FlagDiscipline, OneEntered, EnteredHasFlag, DownHasNoTask, Idle

LEMMA JobStepKeepsFlags ==
  ASSUME TypeOK, FlagDiscipline, NEW p \in Process, NEW j \in Job, JobStep(p, j)
  PROVE  FlagDiscipline'
<1> USE PhasesOfACoroutine DEF procVars, bodyVars
<1>0. task[p][j] # "none"
  BY DEF JobStep, Enter, TakeLock, LockUnavailable, OpenRun, NothingToRun, Plan, BeginRoute,
         EndRoute, Decide, CommitVerdict, Abort, Release, Leave
<1>1. UNCHANGED life /\ life[p] # "down"
  BY <1>0 DEF FlagDiscipline, DownHasNoTask, Idle, JobStep, Enter, TakeLock, LockUnavailable,
              OpenRun, NothingToRun, Plan, BeginRoute, EndRoute, Decide, CommitVerdict, Abort,
              Release, Leave
<1>2. CASE Enter(p, j)
  <2>1. CASE collecting[p]
    BY <1>1, <1>2, <2>1, MoveKeepsFlags DEF Enter
  <2>2. CASE ~collecting[p]
    <3>1. task' = [task EXCEPT ![p][j] = "locking"] /\ collecting' = [collecting EXCEPT ![p] = TRUE]
      BY <1>2, <2>2 DEF Enter, Goto
    <3>2. \A i \in Job : task[p][i] \notin Entered
      BY <2>2 DEF FlagDiscipline, EnteredHasFlag
    <3>3. QED
      BY <1>1, <3>1, <3>2
      DEF TypeOK, FlagDiscipline, OneEntered, EnteredHasFlag, DownHasNoTask, Idle
  <2>3. QED
    BY <2>1, <2>2
<1>3. CASE Leave(p, j)
  <2>1. task' = [task EXCEPT ![p][j] = "none"] /\ collecting' = [collecting EXCEPT ![p] = FALSE]
    BY <1>3 DEF Leave, Goto
  <2>2. task[p][j] \in Entered
    BY <1>3 DEF Leave
  <2>3. \A i \in Job : task'[p][i] \notin Entered
    BY <2>1, <2>2 DEF TypeOK, FlagDiscipline, OneEntered
  <2>4. QED
    BY <1>1, <2>1, <2>3
    DEF TypeOK, FlagDiscipline, OneEntered, EnteredHasFlag, DownHasNoTask, Idle
<1>4. CASE ~Enter(p, j) /\ ~Leave(p, j)
  <2>1. task[p][j] \in Entered /\ UNCHANGED collecting
    BY <1>4
    DEF JobStep, TakeLock, LockUnavailable, OpenRun, NothingToRun, Plan, BeginRoute,
        EndRoute, Decide, CommitVerdict, Abort, Release
  <2>2. \E phase \in Phase : Goto(p, j, phase)
    BY <1>4
    DEF JobStep, TakeLock, LockUnavailable, OpenRun, NothingToRun, Plan, BeginRoute,
        EndRoute, Decide, CommitVerdict, Abort, Release
  <2>3. QED
    BY <1>1, <2>1, <2>2, MoveKeepsFlags
<1>5. QED
  BY <1>2, <1>3, <1>4

LEMMA NextKeepsFlags ==
  ASSUME TypeOK, FlagDiscipline, [Next]_vars
  PROVE  FlagDiscipline'
<1> USE DEF procVars, bodyVars
<1>0. Manual \subseteq Job /\ "timer" \in Job
  BY DEF Manual, Job
<1>1. ASSUME NEW p \in Process, Boot(p)
      PROVE  FlagDiscipline'
  BY <1>1, RestKeepsFlags DEF Boot, TypeOK
<1>2. ASSUME NEW p \in Process, NEW j \in Job, Goto(p, j, "created"), Idle(p, j),
             life[p] # "down", UNCHANGED <<life, collecting>>
      PROVE  FlagDiscipline'
  BY <1>2, PhasesOfACoroutine, MoveKeepsFlags DEF Idle
<1>3. ASSUME NEW p \in Process, TimerFires(p)
      PROVE  FlagDiscipline'
  BY <1>0, <1>2, <1>3 DEF TimerFires, Serving
<1>4. ASSUME NEW p \in Process, NEW j \in Manual, Trigger(p, j)
      PROVE  FlagDiscipline'
  BY <1>0, <1>2, <1>4 DEF Trigger, NoManualTask
<1>5. ASSUME NEW p \in Process, NEW j \in Job, JobStep(p, j)
      PROVE  FlagDiscipline'
  BY <1>5, JobStepKeepsFlags
<1>6. ASSUME NEW p \in Process, NEW j \in Job, NEW l \in {"cancelling", "closing"},
             Cancel(p, j, l)
      PROVE  FlagDiscipline'
  <2>1. Unwind(task[p][j]) \in Phase /\ (Unwind(task[p][j]) \in Entered <=> task[p][j] \in Entered)
    BY PhasesOfACoroutine DEF TypeOK, Unwind
  <2>2. /\ Goto(p, j, Unwind(task[p][j])) /\ UNCHANGED collecting
        /\ life' = [life EXCEPT ![p] = l]
    BY <1>6 DEF Cancel
  <2>3. QED
    BY <2>1, <2>2, MoveKeepsFlags DEF TypeOK
<1>7. ASSUME NEW p \in Process, StopBegins(p) \/ StopRaises(p) \/ StopCloses(p)
      PROVE  FlagDiscipline'
  BY <1>7, RestKeepsFlags DEF StopBegins, StopRaises, StopCloses, TypeOK
<1>8. ASSUME NEW p \in Process, StopTimesOut(p) \/ StopShutsTimer(p)
      PROVE  FlagDiscipline'
  BY <1>0, <1>6, <1>8 DEF StopTimesOut, StopShutsTimer
<1>9. ASSUME NEW p \in Process, Exit(p) \/ Crash(p)
      PROVE  FlagDiscipline'
  BY <1>9, DieKeepsFlags DEF Exit, Crash
<1>10. ASSUME UNCHANGED <<life, task, collecting>>
       PROVE  FlagDiscipline'
  BY <1>10, RestKeepsFlags
<1>11. QED
  BY <1>1, <1>3, <1>4, <1>5, <1>7, <1>8, <1>9, <1>10
  DEF Next, StopStep, RequestStop, LoseLockSession, PurgeRun, vars

(* Two coroutines of one process are never both past the guard, and whoever is *)
(* past it has _is_collecting up, even when the database drops the lock         *)
(* connection of a run: "Collection already in progress" keeps its word.      *)
THEOREM FlagDisciplineHolds == Spec => []FlagDiscipline
<1>1. Init => FlagDiscipline
  BY PhasesOfACoroutine
  DEF Init, FlagDiscipline, OneEntered, EnteredHasFlag, DownHasNoTask, Idle
<1>2. TypeOK /\ FlagDiscipline /\ [Next]_vars => FlagDiscipline'
  BY NextKeepsFlags
<1>3. QED
  BY <1>1, <1>2, TypeCorrect, PTL DEF Spec

(* With one process at a time, which is what the sweep of app_factory.py takes  *)
(* for granted, start-up fails no run that is under way: the finding needs     *)
(* two processes, and nothing else.                                          *)
THEOREM StartupOfALoneProcess ==
  ASSUME \A p, q \in Process : p = q
  PROVE  Spec => StartupFailsOnlyDeadRuns
<1> DEFINE Dead == \A r \in Run :
             rows[r].status = "running" /\ rows'[r].status = "failed" /\ ~rows'[r].finished
               => ~InFlight(r)
<1>1. TypeOK /\ FlagDiscipline /\ [Next]_vars => Dead
  <2> SUFFICES ASSUME TypeOK, FlagDiscipline, [Next]_vars, NEW r \in Run,
                      rows[r].status = "running", rows'[r].status = "failed",
                      ~rows'[r].finished
               PROVE  ~InFlight(r)
    OBVIOUS
  <2>1. \E p \in Process : Boot(p)
    <3>1. rows'[r] # rows[r]
      OBVIOUS
    <3>2. ASSUME NEW p \in Process, NEW j \in Job, JobStep(p, j)
          PROVE  FALSE
      <4>1. CASE OpenRun(p, j)
        BY <4>1 DEF OpenRun, TypeOK
      <4>2. CASE NothingToRun(p, j) \/ CommitVerdict(p, j)
        BY <4>2 DEF NothingToRun, CommitVerdict, Finish, TypeOK
      <4>3. CASE UNCHANGED rows
        BY <3>1, <4>3
      <4>4. QED
        BY <3>2, <4>1, <4>2, <4>3
        DEF JobStep, Enter, TakeLock, LockUnavailable, Plan, BeginRoute, EndRoute, Decide,
            Abort, Release, Leave
    <3>3. ASSUME NEW q \in Run, PurgeRun(q)
          PROVE  FALSE
      BY <3>3 DEF PurgeRun, TypeOK, NoRow
    <3>4. QED
      BY <3>1, <3>2, <3>3
      DEF Next, TimerFires, Trigger, RequestStop, StopBegins, StopStep, StopTimesOut, StopRaises,
          StopShutsTimer, StopCloses, Exit, Crash, Die, Cancel, LoseLockSession, vars
  <2>2. \A p \in Process, j \in Job : Idle(p, j)
    BY <2>1 DEF Boot, FlagDiscipline, DownHasNoTask
  <2>3. QED
    BY <2>2, PhasesOfACoroutine DEF InFlight, Idle
<1>2. QED
  BY <1>1, TypeCorrect, FlagDisciplineHolds, PTL DEF Spec, StartupFailsOnlyDeadRuns

(***************************************************************************)
(* Termination, as far as it needs no fairness: what a coroutine has still to  *)
(* do is a natural number that each of its steps decreases.                   *)
(***************************************************************************)

ToDo(p, j) ==
  LET phase == task[p][j] IN
  CASE phase = "none" -> 0
    [] phase = "leaving" -> 1
    [] phase = "releasing" -> 2
    [] phase = "committing" -> 3
    [] phase = "collecting" -> 4 + 2 * left[p]
    [] phase = "scraping" -> 5 + 2 * left[p]
    [] phase = "planning" -> 5 + 2 * MaxRoutes
    [] phase = "opening" -> 6 + 2 * MaxRoutes
    [] phase = "locking" -> 7 + 2 * MaxRoutes
    [] phase = "created" -> 8 + 2 * MaxRoutes

LEMMA ToDoType ==
  ASSUME TypeOK, NEW p \in Process, NEW j \in Job
  PROVE  ToDo(p, j) \in Nat
BY MaxRoutesAssumption, PhasesOfACoroutine DEF TypeOK, ToDo

(* Steps that leave a coroutine where it is, and the routes of its process.   *)
LEMMA ToDoKept ==
  ASSUME TypeOK, NEW p \in Process, NEW j \in Job, task'[p][j] = task[p][j],
         task[p][j] \in {"collecting", "scraping"} => left'[p] = left[p]
  PROVE  ToDo(p, j)' = ToDo(p, j)
BY PhasesOfACoroutine DEF TypeOK, ToDo

LEMMA UnwindShortens ==
  ASSUME TypeOK, NEW p \in Process, NEW j \in Job, Goto(p, j, Unwind(task[p][j]))
  PROVE  ToDo(p, j)' <= ToDo(p, j)
<1>1. task'[p][j] = Unwind(task[p][j])
  BY DEF Goto, TypeOK
<1>2. left[p] \in Nat /\ MaxRoutes \in Nat
  BY MaxRoutesAssumption DEF TypeOK
<1>3. QED
  BY <1>1, <1>2, PhasesOfACoroutine DEF TypeOK, ToDo, Unwind

LEMMA JobStepShortens ==
  ASSUME TypeOK, NEW p \in Process, NEW j \in Job, JobStep(p, j)
  PROVE  ToDo(p, j)' < ToDo(p, j)
<1>0. left[p] \in Nat /\ MaxRoutes \in Nat
  BY MaxRoutesAssumption DEF TypeOK
<1>1. ASSUME NEW phase \in Phase, Goto(p, j, phase)
      PROVE  task'[p][j] = phase
  BY <1>1 DEF Goto, TypeOK
<1> USE <1>0, <1>1, PhasesOfACoroutine DEF ToDo
<1>2. CASE Enter(p, j)
  BY <1>2 DEF Enter
<1>3. CASE TakeLock(p, j)
  BY <1>3 DEF TakeLock
<1>4. CASE LockUnavailable(p, j)
  BY <1>4 DEF LockUnavailable
<1>5. CASE OpenRun(p, j)
  BY <1>5 DEF OpenRun
<1>6. CASE NothingToRun(p, j)
  BY <1>6 DEF NothingToRun
<1>7. ASSUME NEW n \in 0 .. MaxRoutes, Plan(p, j, n)
      PROVE  ToDo(p, j)' < ToDo(p, j)
  <2>1. task'[p][j] = "collecting" /\ task[p][j] = "planning" /\ left'[p] = n
    BY <1>7 DEF Plan, TypeOK
  <2>2. QED
    BY <2>1
<1>8. CASE BeginRoute(p, j)
  <2>1. /\ task'[p][j] = "scraping" /\ task[p][j] = "collecting"
        /\ left[p] > 0 /\ left'[p] = left[p] - 1
    BY <1>8 DEF BeginRoute, TypeOK
  <2>2. QED
    BY <2>1
<1>9. CASE EndRoute(p, j)
  BY <1>9 DEF EndRoute
<1>10. CASE Decide(p, j)
  BY <1>10 DEF Decide
<1>11. CASE CommitVerdict(p, j)
  BY <1>11 DEF CommitVerdict
<1>12. CASE Abort(p, j)
  BY <1>12 DEF Abort
<1>13. CASE Release(p, j)
  BY <1>13 DEF Release
<1>14. CASE Leave(p, j)
  BY <1>14 DEF Leave
<1>15. QED
  BY <1>2, <1>3, <1>4, <1>5, <1>6, <1>7, <1>8, <1>9, <1>10, <1>11, <1>12, <1>13, <1>14
  DEF JobStep

(* Another coroutine past the guard would be needed to change the routes of    *)
(* one that collects.                                                       *)
LEMMA OthersLeaveToDo ==
  ASSUME TypeOK, FlagDiscipline, NEW p \in Process, NEW j \in Job,
         NEW q \in Process, NEW i \in Job, JobStep(q, i), <<q, i>> # <<p, j>>
  PROVE  ToDo(p, j)' = ToDo(p, j)
<1>1. task'[p][j] = task[p][j]
  <2>1. \E phase : Goto(q, i, phase)
    BY DEF JobStep, Enter, TakeLock, LockUnavailable, OpenRun, NothingToRun, Plan, BeginRoute,
           EndRoute, Decide, CommitVerdict, Abort, Release, Leave
  <2>2. QED
    BY <2>1 DEF Goto, TypeOK
<1>2. ASSUME task[p][j] \in {"collecting", "scraping"}
      PROVE  left'[p] = left[p]
  <2>1. CASE q = p
    <3>1. task[p][i] \notin Entered
      BY <1>2, <2>1, PhasesOfACoroutine DEF FlagDiscipline, OneEntered
    <3>2. Enter(q, i)
      BY <2>1, <3>1, PhasesOfACoroutine
      DEF JobStep, TakeLock, LockUnavailable, OpenRun, NothingToRun, Plan, BeginRoute,
          EndRoute, Decide, CommitVerdict, Abort, Release, Leave
    <3>3. QED
      BY <3>2 DEF Enter, bodyVars
  <2>2. CASE q # p
    BY <2>2
    DEF JobStep, Enter, TakeLock, LockUnavailable, OpenRun, NothingToRun, Plan, BeginRoute,
        EndRoute, Decide, CommitVerdict, Abort, Release, Leave, Forget, bodyVars, TypeOK
  <2>3. QED
    BY <2>1, <2>2
<1>3. QED
  BY <1>1, <1>2, ToDoKept

StepsShorten ==
  [][\A p \in Process, j \in Job :
       /\ JobStep(p, j) => ToDo(p, j)' < ToDo(p, j)
       /\ ~Idle(p, j) => ToDo(p, j)' <= ToDo(p, j)]_vars

(* A collection under way only gets shorter: each step of its coroutine takes  *)
(* something off what it has to do, and nothing else, no other coroutine, no    *)
(* trigger, stop, shutdown or crash, ever adds to it.                         *)
THEOREM StepsShortenHolds == Spec => StepsShorten
<1>1. TypeOK /\ FlagDiscipline /\ [Next]_vars =>
        \A p \in Process, j \in Job :
          /\ JobStep(p, j) => ToDo(p, j)' < ToDo(p, j)
          /\ ~Idle(p, j) => ToDo(p, j)' <= ToDo(p, j)
  <2> SUFFICES ASSUME TypeOK, FlagDiscipline, [Next]_vars, NEW p \in Process, NEW j \in Job
               PROVE  /\ JobStep(p, j) => ToDo(p, j)' < ToDo(p, j)
                      /\ ~Idle(p, j) => ToDo(p, j)' <= ToDo(p, j)
    OBVIOUS
  <2>0. ToDo(p, j) \in Nat /\ Manual \subseteq Job /\ "timer" \in Job
    BY ToDoType DEF Manual, Job
  <2>1. ASSUME task'[p][j] = task[p][j], left' = left
        PROVE  ToDo(p, j)' <= ToDo(p, j)
    BY <2>0, <2>1, ToDoKept
  <2>2. ASSUME NEW q \in Process, NEW i \in Job, JobStep(q, i)
        PROVE  ToDo(p, j)' <= ToDo(p, j)
    <3>1. CASE <<q, i>> = <<p, j>>
      <4>1. ToDo(p, j)' < ToDo(p, j)
        BY <2>2, <3>1, JobStepShortens
      <4>2. ToDo(p, j)' \in Nat
        <5>1. TypeOK'
          BY <2>2, JobStepType
        <5>2. QED
          BY <5>1, MaxRoutesAssumption, PhasesOfACoroutine DEF TypeOK, ToDo
      <4>3. QED
        BY <2>0, <4>1, <4>2
    <3>2. CASE <<q, i>> # <<p, j>>
      BY <2>0, <2>2, <3>2, OthersLeaveToDo
    <3>3. QED
      BY <3>1, <3>2
  <2>3. ASSUME ~Idle(p, j), NEW q \in Process, NEW i \in Job, Idle(q, i),
               Goto(q, i, "created"), UNCHANGED left
        PROVE  ToDo(p, j)' <= ToDo(p, j)
    BY <2>1, <2>3 DEF Idle, Goto, TypeOK
  <2>4. ASSUME ~Idle(p, j), NEW q \in Process, TimerFires(q)
        PROVE  ToDo(p, j)' <= ToDo(p, j)
    BY <2>0, <2>3, <2>4 DEF TimerFires, bodyVars
  <2>5. ASSUME ~Idle(p, j), NEW q \in Process, NEW i \in Manual, Trigger(q, i)
        PROVE  ToDo(p, j)' <= ToDo(p, j)
    BY <2>0, <2>3, <2>5 DEF Trigger, NoManualTask, bodyVars
  <2>6. ASSUME NEW q \in Process, NEW i \in Job, NEW l \in Life, Cancel(q, i, l)
        PROVE  ToDo(p, j)' <= ToDo(p, j)
    <3>1. Goto(q, i, Unwind(task[q][i])) /\ UNCHANGED left
      BY <2>6 DEF Cancel, bodyVars
    <3>2. CASE q = p /\ i = j
      BY <3>1, <3>2, UnwindShortens
    <3>3. CASE ~(q = p /\ i = j)
      BY <2>1, <3>1, <3>3 DEF Goto, TypeOK
    <3>4. QED
      BY <3>2, <3>3
  <2>7. ASSUME NEW q \in Process, StopTimesOut(q) \/ StopShutsTimer(q)
        PROVE  ToDo(p, j)' <= ToDo(p, j)
    BY <2>0, <2>6, <2>7 DEF StopTimesOut, StopShutsTimer, Life
  <2>8. ASSUME NEW q \in Process, Exit(q) \/ Crash(q)
        PROVE  ToDo(p, j)' <= ToDo(p, j)
    <3>1. task' = [task EXCEPT ![q] = [i \in Job |-> "none"]] /\ left' = [left EXCEPT ![q] = 0]
      BY <2>8 DEF Exit, Crash, Die, Forget
    <3>2. CASE q = p
      <4>1. ToDo(p, j)' = 0
        BY <3>1, <3>2 DEF TypeOK, ToDo
      <4>2. QED
        BY <2>0, <4>1
    <3>3. CASE q # p
      BY <2>0, <3>1, <3>3, ToDoKept DEF TypeOK
    <3>4. QED
      BY <3>2, <3>3
  <2>9. ~Idle(p, j) => ToDo(p, j)' <= ToDo(p, j)
    BY <2>1, <2>2, <2>4, <2>5, <2>7, <2>8
    DEF Next, Boot, RequestStop, StopBegins, StopStep, StopRaises, StopCloses, LoseLockSession,
        PurgeRun, vars, bodyVars
  <2>10. QED
    BY <2>9, JobStepShortens
<1>2. QED
  BY <1>1, TypeCorrect, FlagDisciplineHolds, PTL DEF Spec, StepsShorten

(***************************************************************************)
(* One collector at a time.  OneCollector is not inductive: it has to be      *)
(* known that a coroutine past the guard has the flag up, that no two         *)
(* coroutines of a process are past it, and that whoever is past the lock     *)
(* owns it, still through its connection while the process serves.           *)
(***************************************************************************)

(* The steps that move one coroutine on and touch neither flags nor lock.    *)
LEMMA MoveKeepsLock ==
  ASSUME LockMayBeLost = FALSE, TypeOK, LockDiscipline,
         NEW p \in Process, NEW j \in Job, NEW phase \in Phase,
         life[p] # "down", Goto(p, j, phase), UNCHANGED <<life, collecting, conn, lock>>,
         phase \in Entered => task[p][j] \in Entered,
         phase \in HoldsLock <=> task[p][j] \in HoldsLock
  PROVE  LockDiscipline'
BY DEF TypeOK, LockDiscipline, OneEntered, EnteredHasFlag, HolderHasLock,
       HolderHasConnection, DownHasNothing, LockNotLeaked, Goto

LEMMA JobStepLock ==
  ASSUME LockMayBeLost = FALSE, TypeOK, LockDiscipline,
         NEW p \in Process, NEW j \in Job, JobStep(p, j)
  PROVE  LockDiscipline'
<1> USE DEF procVars, bodyVars
<1>0. /\ {"opening", "planning", "collecting", "scraping", "committing", "releasing"} = HoldsLock
      /\ HoldsLock \cup {"locking", "leaving"} = Entered
      /\ Entered \cup {"none", "created"} = Phase
      /\ InBody \subseteq HoldsLock
  BY DEF Phase, Entered, HoldsLock, InBody
<1>0a. /\ HoldsLock \subseteq Entered
       /\ {"opening", "releasing"} \subseteq HoldsLock
       /\ {"locking", "leaving"} \subseteq Entered /\ {"locking", "leaving"} \cap HoldsLock = {}
       /\ {"none", "created"} \cap Entered = {}
  BY DEF Entered, HoldsLock, InBody
<1>0b. life[p] # "down"
  <2>1. task[p][j] # "none"
    BY DEF JobStep, Enter, TakeLock, LockUnavailable, OpenRun, NothingToRun, Plan, BeginRoute,
           EndRoute, Decide, CommitVerdict, Abort, Release, Leave, InBody
  <2>2. QED
    BY <2>1 DEF LockDiscipline, DownHasNothing
<1>1. CASE Enter(p, j)
  <2> USE <1>1 DEF Enter, Goto, TypeOK, LockDiscipline
  <2>1. CASE collecting[p]
    BY <1>0, <1>0a, <1>0b, <2>1, MoveKeepsLock
  <2>2. CASE ~collecting[p]
    <3>1. task' = [task EXCEPT ![p][j] = "locking"] /\ collecting' = [collecting EXCEPT ![p] = TRUE]
      BY <2>2
    <3>2. \A i \in Job : task[p][i] \notin Entered
      BY <2>2 DEF EnteredHasFlag
    <3>3. OneEntered' /\ EnteredHasFlag'
      BY <3>1, <3>2 DEF OneEntered, EnteredHasFlag
    <3>4. HolderHasLock' /\ HolderHasConnection'
      BY <1>0a, <3>1 DEF HolderHasLock, HolderHasConnection
    <3>5. DownHasNothing'
      BY <3>1 DEF DownHasNothing
    <3>5a. LockNotLeaked'
      <4> SUFFICES ASSUME NEW q \in Process, lock' = q, life'[q] \in {"up", "waiting"}
                   PROVE  \E i \in Job : task'[q][i] \in HoldsLock
        BY DEF LockNotLeaked
      <4>1. PICK i \in Job : task[q][i] \in HoldsLock
        BY DEF LockNotLeaked
      <4>2. task'[q][i] = task[q][i]
        BY <1>0a, <3>1, <4>1
      <4>3. QED
        BY <4>1, <4>2
    <3>6. QED
      BY <3>3, <3>4, <3>5, <3>5a
  <2>3. QED
    BY <2>1, <2>2
<1>2. CASE TakeLock(p, j)
  <2> USE <1>2 DEF TakeLock, Goto, TypeOK, LockDiscipline
  <2>1. \A q \in Process, i \in Job : task[q][i] \notin HoldsLock
    BY NoneAssumption DEF HolderHasLock
  <2>2. OneEntered' /\ EnteredHasFlag'
    BY <1>0a DEF OneEntered, EnteredHasFlag
  <2>3. HolderHasLock' /\ HolderHasConnection'
    BY <1>0a, <2>1 DEF HolderHasLock, HolderHasConnection
  <2>4. DownHasNothing' /\ LockNotLeaked'
    BY <1>0a DEF DownHasNothing, LockNotLeaked
  <2>5. QED
    BY <2>2, <2>3, <2>4
<1>3. CASE LockUnavailable(p, j)
  BY <1>0, <1>0b, <1>3, MoveKeepsLock DEF LockUnavailable
<1>4. CASE OpenRun(p, j)
  BY <1>0, <1>0b, <1>4, MoveKeepsLock DEF OpenRun
<1>5. CASE NothingToRun(p, j)
  BY <1>0, <1>0b, <1>5, MoveKeepsLock DEF NothingToRun
<1>6. ASSUME NEW n \in 0 .. MaxRoutes, Plan(p, j, n)
      PROVE  LockDiscipline'
  BY <1>0, <1>0b, <1>6, MoveKeepsLock DEF Plan
<1>7. CASE BeginRoute(p, j)
  BY <1>0, <1>0b, <1>7, MoveKeepsLock DEF BeginRoute
<1>8. CASE EndRoute(p, j)
  BY <1>0, <1>0b, <1>8, MoveKeepsLock DEF EndRoute
<1>9. CASE Decide(p, j)
  BY <1>0, <1>0b, <1>9, MoveKeepsLock DEF Decide
<1>10. CASE CommitVerdict(p, j)
  BY <1>0, <1>0b, <1>10, MoveKeepsLock DEF CommitVerdict
<1>11. CASE Abort(p, j)
  BY <1>0, <1>0b, <1>11, MoveKeepsLock DEF Abort
<1>12. CASE Release(p, j)
  <2> USE <1>12 DEF Release, Goto, TypeOK, LockDiscipline
  <2>1. \A i \in Job \ {j} : task[p][i] \notin Entered
    BY <1>0a DEF OneEntered
  <2>2. lock = p /\ lock' \in {p, None}
    BY <1>0a DEF HolderHasLock
  <2>3. \A q \in Process, i \in Job : task'[q][i] \notin HoldsLock
    BY <1>0a, <2>1, <2>2 DEF HolderHasLock
  <2>4. OneEntered' /\ EnteredHasFlag'
    BY <1>0a, <2>1 DEF OneEntered, EnteredHasFlag
  <2>5. HolderHasLock' /\ HolderHasConnection'
    BY <2>3 DEF HolderHasLock, HolderHasConnection
  <2>6. DownHasNothing'
    BY <2>2, NoneAssumption DEF DownHasNothing
  <2>7. LockNotLeaked'
    BY <1>0a, <2>2, NoneAssumption DEF HolderHasConnection, LockNotLeaked
  <2>8. QED
    BY <2>4, <2>5, <2>6, <2>7
<1>13. CASE Leave(p, j)
  <2> USE <1>13 DEF Leave, Goto, TypeOK, LockDiscipline
  <2>1. \A i \in Job : task'[p][i] \notin Entered
    BY <1>0a DEF OneEntered
  <2>2. OneEntered' /\ EnteredHasFlag'
    BY <2>1 DEF OneEntered, EnteredHasFlag
  <2>3. HolderHasLock' /\ HolderHasConnection'
    BY <1>0a DEF HolderHasLock, HolderHasConnection
  <2>4. DownHasNothing' /\ LockNotLeaked'
    BY <1>0a DEF DownHasNothing, LockNotLeaked
  <2>5. QED
    BY <2>2, <2>3, <2>4
<1>14. QED
  BY <1>1, <1>2, <1>3, <1>4, <1>5, <1>6, <1>7, <1>8, <1>9, <1>10, <1>11, <1>12, <1>13
  DEF JobStep

(* Cancelling a coroutine ends the time in which its process serves.         *)
LEMMA CancelLock ==
  ASSUME TypeOK, LockDiscipline, NEW p \in Process, NEW j \in Job,
         NEW l \in {"cancelling", "closing"}, Cancel(p, j, l)
  PROVE  LockDiscipline'
<1>1. /\ Unwind(task[p][j]) \in Entered <=> task[p][j] \in Entered
      /\ Unwind(task[p][j]) \in HoldsLock => task[p][j] \in InBody
  BY DEF TypeOK, Unwind, Phase, Entered, HoldsLock, InBody
<1>2. "releasing" \notin InBody /\ "releasing" \in HoldsLock /\ HoldsLock \subseteq Entered
      /\ InBody \subseteq HoldsLock
  BY DEF InBody, HoldsLock, Entered
<1>3. /\ life' = [life EXCEPT ![p] = l]
      /\ task' = [task EXCEPT ![p][j] = Unwind(task[p][j])]
      /\ collecting' = collecting
      /\ \A q \in Process : q # p => conn'[q] = conn[q]
      /\ lock' = lock \/ (lock' = None /\ task[p][j] = "releasing")
  BY DEF Cancel, Goto, TypeOK
<1>4. OneEntered' /\ EnteredHasFlag'
  BY <1>1, <1>3 DEF TypeOK, LockDiscipline, OneEntered, EnteredHasFlag
<1>5. HolderHasLock'
  BY <1>1, <1>2, <1>3 DEF TypeOK, LockDiscipline, OneEntered, HolderHasLock
<1>6. HolderHasConnection' /\ DownHasNothing' /\ LockNotLeaked'
  BY <1>1, <1>2, <1>3, NoneAssumption
  DEF TypeOK, LockDiscipline, HolderHasConnection, DownHasNothing, LockNotLeaked
<1>7. QED
  BY <1>4, <1>5, <1>6 DEF LockDiscipline

LEMMA DieLock ==
  ASSUME TypeOK, LockDiscipline, NEW p \in Process, Die(p)
  PROVE  LockDiscipline'
BY NoneAssumption
DEF Die, TypeOK, LockDiscipline, OneEntered, EnteredHasFlag, HolderHasLock,
    HolderHasConnection, DownHasNothing, LockNotLeaked, Entered, HoldsLock, InBody

LEMMA NextLock ==
  ASSUME LockMayBeLost = FALSE, TypeOK, LockDiscipline, [Next]_vars
  PROVE  LockDiscipline'
<1> USE DEF procVars, bodyVars
<1>0. /\ {"none", "created"} \cap Entered = {}
      /\ {"none", "created"} \subseteq Phase
      /\ HoldsLock \subseteq Entered
      /\ Manual \subseteq Job /\ "timer" \in Job
  BY DEF Phase, Entered, HoldsLock, InBody, Manual, Job
<1>1. ASSUME NEW p \in Process, Boot(p)
      PROVE  LockDiscipline'
  BY <1>1
  DEF Boot, TypeOK, LockDiscipline, OneEntered, EnteredHasFlag, HolderHasLock,
      HolderHasConnection, DownHasNothing, LockNotLeaked
<1>2. ASSUME NEW p \in Process, TimerFires(p)
      PROVE  LockDiscipline'
  BY <1>0, <1>2, MoveKeepsLock DEF TimerFires, Idle, Serving
<1>3. ASSUME NEW p \in Process, NEW j \in Manual, Trigger(p, j)
      PROVE  LockDiscipline'
  BY <1>0, <1>3, MoveKeepsLock DEF Trigger, NoManualTask, Idle
<1>4. ASSUME NEW p \in Process, RequestStop(p)
      PROVE  LockDiscipline'
  BY <1>4
  DEF RequestStop, LockDiscipline, OneEntered, EnteredHasFlag, HolderHasLock,
      HolderHasConnection, DownHasNothing, LockNotLeaked
<1>5. ASSUME NEW p \in Process, NEW j \in Job, JobStep(p, j)
      PROVE  LockDiscipline'
  BY <1>5, JobStepLock
<1>6. ASSUME NEW p \in Process, StopBegins(p)
      PROVE  LockDiscipline'
  BY <1>6
  DEF StopBegins, TypeOK, LockDiscipline, OneEntered, EnteredHasFlag, HolderHasLock,
      HolderHasConnection, DownHasNothing, LockNotLeaked
<1>7. ASSUME NEW p \in Process, StopStep(p)
      PROVE  LockDiscipline'
  <2>1. CASE StopTimesOut(p)
    BY <1>0, <2>1, CancelLock DEF StopTimesOut
  <2>2. CASE StopRaises(p)
    BY <2>2
    DEF StopRaises, TypeOK, LockDiscipline, OneEntered, EnteredHasFlag, HolderHasLock,
        HolderHasConnection, DownHasNothing, LockNotLeaked
  <2>3. CASE StopShutsTimer(p)
    BY <1>0, <2>3, CancelLock DEF StopShutsTimer
  <2>4. CASE StopCloses(p)
    BY <2>4
    DEF StopCloses, TypeOK, LockDiscipline, OneEntered, EnteredHasFlag, HolderHasLock,
        HolderHasConnection, DownHasNothing, LockNotLeaked
  <2>5. CASE Exit(p)
    BY <2>5, DieLock DEF Exit
  <2>6. QED
    BY <1>7, <2>1, <2>2, <2>3, <2>4, <2>5 DEF StopStep
<1>8. ASSUME NEW p \in Process, Crash(p)
      PROVE  LockDiscipline'
  BY <1>8, DieLock DEF Crash
<1>9. ASSUME NEW p \in Process, LoseLockSession(p)
      PROVE  LockDiscipline'
  BY <1>9 DEF LoseLockSession
<1>10. ASSUME NEW r \in Run, PurgeRun(r)
       PROVE  LockDiscipline'
  BY <1>10
  DEF PurgeRun, LockDiscipline, OneEntered, EnteredHasFlag, HolderHasLock,
      HolderHasConnection, DownHasNothing, LockNotLeaked
<1>11. CASE UNCHANGED vars
  BY <1>11
  DEF vars, LockDiscipline, OneEntered, EnteredHasFlag, HolderHasLock,
      HolderHasConnection, DownHasNothing, LockNotLeaked
<1>12. QED
  BY <1>1, <1>2, <1>3, <1>4, <1>5, <1>6, <1>7, <1>8, <1>9, <1>10, <1>11 DEF Next

(* While no lock connection is dropped, the flag, the advisory lock and the   *)
(* connection that carries it stay consistent in every process.              *)
THEOREM LockDisciplineHolds ==
  ASSUME LockMayBeLost = FALSE
  PROVE  Spec => []LockDiscipline
<1>1. Init => LockDiscipline
  BY NoneAssumption
  DEF Init, LockDiscipline, OneEntered, EnteredHasFlag, HolderHasLock,
      HolderHasConnection, DownHasNothing, LockNotLeaked, Entered, HoldsLock, InBody
<1>2. TypeOK /\ LockDiscipline /\ [Next]_vars => LockDiscipline'
  BY NextLock
<1>3. QED
  BY <1>1, <1>2, TypeCorrect, PTL DEF Spec

(* README: the advisory lock prevents duplicate collection runs: never are    *)
(* two processes, or two coroutines of one, in the body of a collection.     *)
THEOREM OneCollectorHolds ==
  ASSUME LockMayBeLost = FALSE
  PROVE  Spec => []OneCollector
<1>1. TypeOK /\ LockDiscipline => OneCollector
  BY DEF LockDiscipline, OneEntered, HolderHasLock, OneCollector, Entered, HoldsLock
<1>2. QED
  BY <1>1, TypeCorrect, LockDisciplineHolds, PTL

(* A serving process that holds the lock has a coroutine that will free it.   *)
THEOREM LockNotLeakedHolds ==
  ASSUME LockMayBeLost = FALSE
  PROVE  Spec => []LockNotLeaked
<1>1. LockDiscipline => LockNotLeaked
  BY DEF LockDiscipline
<1>2. QED
  BY <1>1, LockDisciplineHolds, PTL

(***************************************************************************)
(* Refinement: every step of Scheduler is a step of CollectionLock or leaves  *)
(* the lock and the set of collecting processes alone.                       *)
(***************************************************************************)

Working == {p \in Process : Collects(p)}

AbstractStep == [Abstract!Next]_<<lock, Working>>

LEMMA PhaseFacts ==
  /\ InBody \subseteq HoldsLock /\ HoldsLock \subseteq Entered /\ Entered \subseteq Phase
  /\ {"releasing"} = HoldsLock \ InBody
  /\ {"locking", "leaving"} = Entered \ HoldsLock
  /\ {"none", "created"} = Phase \ Entered
  /\ {"opening", "planning", "collecting", "scraping", "committing"} = InBody
BY DEF Phase, Entered, HoldsLock, InBody

LEMMA MoveIsStutter ==
  ASSUME TypeOK, NEW p \in Process, NEW j \in Job, NEW phase \in Phase,
         Goto(p, j, phase), UNCHANGED lock,
         phase \in InBody <=> task[p][j] \in InBody
  PROVE  UNCHANGED <<lock, Working>>
BY DEF TypeOK, Goto, Working, Collects

LEMMA LeavingBodyIsFinish ==
  ASSUME TypeOK, LockDiscipline, NEW p \in Process, NEW j \in Job,
         NEW phase \in Phase \ InBody, Goto(p, j, phase), UNCHANGED lock,
         task[p][j] \in InBody
  PROVE  AbstractStep
<1>1. \A i \in Job \ {j} : task[p][i] \notin InBody
  BY PhaseFacts DEF LockDiscipline, OneEntered
<1>2. ~Collects(p)'
  BY <1>1 DEF TypeOK, Goto, Collects
<1>3. \A q \in Process \ {p} : Collects(q)' <=> Collects(q)
  BY DEF TypeOK, Goto, Collects
<1>4. Working' = Working \ {p}
  BY <1>2, <1>3 DEF Working
<1>5. Abstract!Finish(p)
  BY <1>4 DEF Abstract!Finish, Working
<1>6. QED
  BY <1>5 DEF AbstractStep, Abstract!Next

LEMMA ReleasingIsFree ==
  ASSUME TypeOK, LockDiscipline, NEW p \in Process, NEW j \in Job,
         task[p][j] = "releasing", Goto(p, j, "leaving"), lock' \in {lock, None}
  PROVE  AbstractStep
<1>1. \A i \in Job : task[p][i] \notin InBody
  BY PhaseFacts DEF LockDiscipline, OneEntered
<1>2. p \notin Working /\ Working' = Working
  BY <1>1, PhaseFacts DEF TypeOK, Goto, Working, Collects
<1>3. lock = p
  BY PhaseFacts DEF LockDiscipline, HolderHasLock
<1>4. CASE lock' = lock
  BY <1>2, <1>4 DEF AbstractStep
<1>5. CASE lock' = None
  <2>1. Abstract!Free(p)
    BY <1>2, <1>3, <1>5 DEF Abstract!Free, Working
  <2>2. QED
    BY <2>1 DEF AbstractStep, Abstract!Next
<1>6. QED
  BY <1>4, <1>5

LEMMA DyingIsVanish ==
  ASSUME TypeOK, LockDiscipline, NEW p \in Process, Die(p)
  PROVE  AbstractStep
<1>1. ~Collects(p)'
  BY PhaseFacts DEF TypeOK, Die, Collects
<1>2. \A q \in Process \ {p} : Collects(q)' <=> Collects(q)
  BY DEF TypeOK, Die, Collects
<1>3. Working' = Working \ {p}
  BY <1>1, <1>2 DEF Working
<1>4. CASE lock = p
  <2>1. Abstract!Vanish(p)
    BY <1>3, <1>4 DEF Die, Abstract!Vanish, Working
  <2>2. QED
    BY <2>1 DEF AbstractStep, Abstract!Next
<1>5. CASE lock # p
  <2>1. ~Collects(p)
    BY <1>5, PhaseFacts DEF LockDiscipline, HolderHasLock, Collects
  <2>2. UNCHANGED <<lock, Working>>
    BY <1>3, <1>5, <2>1 DEF Die, Working
  <2>3. QED
    BY <2>2 DEF AbstractStep
<1>6. QED
  BY <1>4, <1>5

LEMMA CancelIsAbstract ==
  ASSUME TypeOK, LockDiscipline, NEW p \in Process, NEW j \in Job,
         NEW l \in Life, Cancel(p, j, l)
  PROVE  AbstractStep
<1>1. CASE task[p][j] \in InBody
  <2>1. Unwind(task[p][j]) = "releasing"
    BY <1>1 DEF Unwind, InBody
  <2>2. QED
    BY <1>1, <2>1, LeavingBodyIsFinish, PhaseFacts DEF Cancel
<1>2. CASE task[p][j] = "releasing"
  <2>1. Unwind(task[p][j]) = "leaving"
    BY <1>2 DEF Unwind, InBody
  <2>2. QED
    BY <1>2, <2>1, ReleasingIsFree DEF Cancel
<1>3. CASE task[p][j] \in Phase \ HoldsLock
  <2>1. Unwind(task[p][j]) \in Phase \ InBody
    BY <1>3 DEF Unwind, Phase, Entered, HoldsLock, InBody
  <2>2. UNCHANGED lock
    BY <1>3, PhaseFacts DEF Cancel
  <2>3. UNCHANGED <<lock, Working>>
    BY <1>3, <2>1, <2>2, MoveIsStutter, PhaseFacts DEF Cancel
  <2>4. QED
    BY <2>3 DEF AbstractStep
<1>4. QED
  BY <1>1, <1>2, <1>3, PhaseFacts DEF TypeOK

LEMMA JobStepIsAbstract ==
  ASSUME TypeOK, LockDiscipline, NEW p \in Process, NEW j \in Job, JobStep(p, j)
  PROVE  AbstractStep
<1>1. CASE TakeLock(p, j)
  <2>1. Working' = Working \cup {p}
    BY <1>1, PhaseFacts DEF TakeLock, TypeOK, Goto, Working, Collects
  <2>2. Abstract!Take(p)
    BY <1>1, <2>1 DEF TakeLock, Abstract!Take, Working
  <2>3. QED
    BY <2>2 DEF AbstractStep, Abstract!Next
<1>2. CASE NothingToRun(p, j) \/ CommitVerdict(p, j) \/ Abort(p, j)
  BY <1>2, LeavingBodyIsFinish, PhaseFacts DEF NothingToRun, CommitVerdict, Abort
<1>3. CASE Release(p, j)
  BY <1>3, ReleasingIsFree DEF Release
<1>4. CASE OpenRun(p, j) \/ (\E n \in 0 .. MaxRoutes : Plan(p, j, n))
             \/ BeginRoute(p, j) \/ EndRoute(p, j) \/ Decide(p, j)
  <2>1. UNCHANGED <<lock, Working>>
    BY <1>4, MoveIsStutter, PhaseFacts
    DEF OpenRun, Plan, BeginRoute, EndRoute, Decide
  <2>2. QED
    BY <2>1 DEF AbstractStep
<1>5. CASE Enter(p, j) \/ LockUnavailable(p, j) \/ Leave(p, j)
  <2>1. UNCHANGED <<lock, Working>>
    BY <1>5, MoveIsStutter, PhaseFacts DEF Enter, LockUnavailable, Leave
  <2>2. QED
    BY <2>1 DEF AbstractStep
<1>6. QED
  BY <1>1, <1>2, <1>3, <1>4, <1>5 DEF JobStep

(* The scheduler implements the abstract lock of CollectionLock.             *)
THEOREM SchedulerImplementsCollectionLock ==
  ASSUME LockMayBeLost = FALSE
  PROVE  Spec => ImplementsCollectionLock
<1>1. Init => lock = None /\ Working = {}
  BY PhaseFacts DEF Init, Working, Collects
<1>2. TypeOK /\ LockDiscipline /\ [Next]_vars => AbstractStep
  <2> SUFFICES ASSUME TypeOK, LockDiscipline, [Next]_vars
               PROVE  AbstractStep
    OBVIOUS
  <2>0. Manual \subseteq Job /\ "timer" \in Job
    BY DEF Manual, Job
  <2>1. ASSUME NEW p \in Process,
               Boot(p) \/ RequestStop(p) \/ StopBegins(p) \/ StopRaises(p) \/ StopCloses(p)
        PROVE  AbstractStep
    BY <2>1
    DEF Boot, RequestStop, StopBegins, StopRaises, StopCloses, AbstractStep, Working, Collects
  <2>2. ASSUME NEW p \in Process, NEW j \in Manual, TimerFires(p) \/ Trigger(p, j)
        PROVE  AbstractStep
    <3>1. "created" \in Phase \ InBody /\ "none" \notin InBody
      BY PhaseFacts
    <3>2. CASE TimerFires(p)
      BY <2>0, <3>1, <3>2, MoveIsStutter DEF TimerFires, Idle, AbstractStep
    <3>3. CASE Trigger(p, j)
      BY <2>0, <3>1, <3>3, MoveIsStutter DEF Trigger, NoManualTask, Idle, AbstractStep
    <3>4. QED
      BY <2>2, <3>2, <3>3
  <2>3. ASSUME NEW p \in Process, NEW j \in Job, JobStep(p, j)
        PROVE  AbstractStep
    BY <2>3, JobStepIsAbstract
  <2>4. ASSUME NEW p \in Process, StopTimesOut(p) \/ StopShutsTimer(p)
        PROVE  AbstractStep
    BY <2>0, <2>4, CancelIsAbstract DEF StopTimesOut, StopShutsTimer, Life
  <2>5. ASSUME NEW p \in Process, Exit(p) \/ Crash(p)
        PROVE  AbstractStep
    BY <2>5, DyingIsVanish DEF Exit, Crash
  <2>6. ASSUME NEW r \in Run, PurgeRun(r)
        PROVE  AbstractStep
    BY <2>6 DEF PurgeRun, AbstractStep, Working, Collects
  <2>7. ASSUME NEW p \in Process, LoseLockSession(p)
        PROVE  AbstractStep
    BY <2>7 DEF LoseLockSession
  <2>8. CASE UNCHANGED vars
    BY <2>8 DEF vars, AbstractStep, Working, Collects
  <2>9. "cycle" \in Manual
    BY DEF Manual
  <2>10. QED
    BY <2>1, <2>2, <2>3, <2>4, <2>5, <2>6, <2>7, <2>8, <2>9 DEF Next, StopStep
<1>3. QED
  BY <1>1, <1>2, TypeCorrect, LockDisciplineHolds, PTL
  DEF Spec, ImplementsCollectionLock, Abstract!Spec, Abstract!Init, AbstractStep, Working

(****************************************************************************)
(* Run rows and stop requests.                                              *)
(****************************************************************************)

(* A finish time comes with a final status: start-up does not touch the row. *)
FinishedIsOver == \A r \in Run : rows[r].finished => rows[r].status \in FinalStatus

RowDiscipline == OwnsItsRow /\ FinishedIsOver

(***************************************************************************)
(* Steps that leave the rows and the holders of rows alone.                  *)
(***************************************************************************)

LEMMA SameRows ==
  ASSUME RowDiscipline, UNCHANGED <<current, rows>>,
         \A p \in Process, j \in Job : task'[p][j] \in WithRow => task[p][j] \in WithRow
  PROVE  RowDiscipline'
BY DEF RowDiscipline, OwnsItsRow, FinishedIsOver

LEMMA GotoKeepsRows ==
  ASSUME TypeOK, RowDiscipline, NEW p \in Process, NEW j \in Job, NEW phase, Goto(p, j, phase),
         UNCHANGED <<current, rows>>, phase \in WithRow => task[p][j] \in WithRow
  PROVE  RowDiscipline'
<1>1. ASSUME NEW q \in Process, NEW i \in Job, task'[q][i] \in WithRow
      PROVE  task[q][i] \in WithRow
  BY <1>1 DEF TypeOK, Goto
<1>2. QED
  BY <1>1, SameRows

LEMMA UnwindDropsRow ==
  ASSUME NEW phase \in Phase
  PROVE  Unwind(phase) \notin WithRow
BY DEF Unwind, Phase, Entered, HoldsLock, WithRow, InBody

(* Only one coroutine of a process has a row.                                *)
LEMMA OneWithRow ==
  ASSUME LockDiscipline, NEW p \in Process, NEW i \in Job, NEW j \in Job,
         task[p][i] \in WithRow, task[p][j] \in Entered
  PROVE  i = j
BY DEF LockDiscipline, OneEntered, Entered, HoldsLock, WithRow

(* A collection that ends writes the row that is its own.                    *)
LEMMA FinishKeepsRows ==
  ASSUME TypeOK, LockDiscipline, RowDiscipline, NEW p \in Process, NEW j \in Job,
         task[p][j] \in WithRow, Goto(p, j, "releasing"), UNCHANGED current,
         NEW status \in FinalStatus, Finish(current[p], status)
  PROVE  RowDiscipline'
<1>1. current[p] \in Run
  BY DEF RowDiscipline, OwnsItsRow
<1>2. FinishedIsOver'
  BY <1>1 DEF FinishedIsOver, RowDiscipline, Finish, TypeOK
<1>3. ASSUME NEW q \in Process, NEW i \in Job, task'[q][i] \in WithRow
      PROVE  q # p /\ task[q][i] \in WithRow
  <2>1. "releasing" \notin WithRow
    BY DEF WithRow, InBody
  <2>2. task[q][i] \in WithRow /\ ~(q = p /\ i = j)
    BY <1>3, <2>1 DEF TypeOK, Goto
  <2>3. q # p
    BY <2>2, OneWithRow DEF WithRow, Entered, HoldsLock
  <2>4. QED
    BY <2>2, <2>3
<1>4. ASSUME NEW q \in Process, NEW i \in Job, task'[q][i] \in WithRow
      PROVE  rows'[current[q]] = rows[current[q]]
  <2>1. current[q] # current[p]
    BY <1>3, <1>4 DEF RowDiscipline, OwnsItsRow
  <2>2. current[q] \in Run
    BY <1>3, <1>4 DEF RowDiscipline, OwnsItsRow
  <2>3. QED
    BY <2>1, <2>2 DEF Finish, TypeOK
<1>5. OwnsItsRow'
  <2> SUFFICES ASSUME NEW q \in Process, NEW i \in Job, task'[q][i] \in WithRow
               PROVE  /\ current[q] \in Run
                      /\ rows'[current[q]].status \in {"running", "failed"}
                      /\ ~rows'[current[q]].finished
                      /\ \A s \in Process \ {q}, k \in Job :
                           task'[s][k] \in WithRow => current[s] # current[q]
    BY DEF OwnsItsRow
  <2>1. QED
    BY <1>3, <1>4 DEF RowDiscipline, OwnsItsRow
<1>6. QED
  BY <1>2, <1>5 DEF RowDiscipline

(* The row of a new collection is nobody's.                                  *)
LEMMA OpenRunRows ==
  ASSUME TypeOK, LockDiscipline, RowDiscipline, NEW p \in Process, NEW j \in Job, OpenRun(p, j)
  PROVE  RowDiscipline'
<1>1. PICK r \in Run :
        /\ rows[r] = NoRow
        /\ rows' = [rows EXCEPT ![r] = [status |-> "running", finished |-> FALSE]]
        /\ current' = [current EXCEPT ![p] = r]
  BY DEF OpenRun
<1>2. task' = [task EXCEPT ![p][j] = "planning"] /\ task[p][j] = "opening"
  BY DEF OpenRun, Goto
<1>3. FinishedIsOver'
  BY <1>1 DEF FinishedIsOver, RowDiscipline, TypeOK
<1>4. \A i \in Job : task'[p][i] \in WithRow => i = j
  <2>1. "opening" \in Entered
    BY DEF Entered, HoldsLock, InBody
  <2>2. QED
    BY <1>2, <2>1, OneWithRow DEF TypeOK
<1>5. ASSUME NEW q \in Process \ {p}, NEW i \in Job, task'[q][i] \in WithRow
      PROVE  task[q][i] \in WithRow /\ current'[q] = current[q] /\ current[q] # r
  <2>1. task[q][i] \in WithRow /\ current'[q] = current[q]
    BY <1>1, <1>2, <1>5 DEF TypeOK
  <2>2. rows[current[q]].status \in {"running", "failed"}
    BY <2>1 DEF RowDiscipline, OwnsItsRow
  <2>3. QED
    BY <1>1, <2>1, <2>2 DEF NoRow
<1>6. current'[p] = r /\ rows'[r] = [status |-> "running", finished |-> FALSE]
  BY <1>1 DEF TypeOK
<1>7. \A s \in Run \ {r} : rows'[s] = rows[s]
  BY <1>1 DEF TypeOK
<1>8. OwnsItsRow'
  <2> SUFFICES ASSUME NEW q \in Process, NEW i \in Job, task'[q][i] \in WithRow
               PROVE  /\ current'[q] \in Run
                      /\ rows'[current'[q]].status \in {"running", "failed"}
                      /\ ~rows'[current'[q]].finished
                      /\ \A s \in Process \ {q}, k \in Job :
                           task'[s][k] \in WithRow => current'[s] # current'[q]
    BY DEF OwnsItsRow
  <2>1. CASE q = p
    BY <1>5, <1>6, <2>1
  <2>2. CASE q # p
    <3>1. task[q][i] \in WithRow /\ current'[q] = current[q] /\ current[q] # r
      BY <1>5, <2>2
    <3>2. current[q] \in Run /\ rows'[current[q]] = rows[current[q]]
      BY <1>7, <3>1 DEF RowDiscipline, OwnsItsRow
    <3>3. ASSUME NEW s \in Process \ {q}, NEW k \in Job, task'[s][k] \in WithRow
          PROVE  current'[s] # current'[q]
      BY <1>5, <1>6, <3>1, <3>3 DEF RowDiscipline, OwnsItsRow
    <3>4. QED
      BY <3>1, <3>2, <3>3 DEF RowDiscipline, OwnsItsRow
  <2>3. QED
    BY <2>1, <2>2
<1>9. QED
  BY <1>3, <1>8 DEF RowDiscipline

LEMMA LeaveRows ==
  ASSUME TypeOK, LockDiscipline, RowDiscipline, NEW p \in Process, NEW j \in Job, Leave(p, j)
  PROVE  RowDiscipline'
<1>1. "leaving" \in Entered /\ "none" \notin WithRow
  BY DEF Entered, WithRow, InBody
<1>2. \A i \in Job : task'[p][i] \notin WithRow
  BY <1>1, OneWithRow DEF Leave, Goto, TypeOK
<1>3. \A q \in Process \ {p} : task'[q] = task[q] /\ current'[q] = current[q]
  BY DEF Leave, Goto, Forget, TypeOK
<1>4. QED
  BY <1>2, <1>3 DEF Leave, RowDiscipline, OwnsItsRow, FinishedIsOver

LEMMA JobStepRows ==
  ASSUME TypeOK, LockDiscipline, RowDiscipline, NEW p \in Process, NEW j \in Job, JobStep(p, j)
  PROVE  RowDiscipline'
<1>0. /\ {"planning", "collecting", "scraping", "committing"} = WithRow
      /\ {"none", "locking", "leaving", "opening", "releasing"} \cap WithRow = {}
  BY DEF WithRow, InBody
<1>1. CASE Enter(p, j) \/ TakeLock(p, j) \/ LockUnavailable(p, j)
  BY <1>0, <1>1, GotoKeepsRows DEF Enter, TakeLock, LockUnavailable, bodyVars
<1>2. CASE OpenRun(p, j)
  BY <1>2, OpenRunRows
<1>3. CASE NothingToRun(p, j)
  BY <1>0, <1>3, FinishKeepsRows DEF NothingToRun, bodyVars, FinalStatus
<1>4. CASE (\E n \in 0 .. MaxRoutes : Plan(p, j, n)) \/ BeginRoute(p, j) \/ EndRoute(p, j)
             \/ Decide(p, j)
  BY <1>0, <1>4, GotoKeepsRows DEF Plan, BeginRoute, EndRoute, Decide
<1>5. CASE CommitVerdict(p, j)
  BY <1>0, <1>5, FinishKeepsRows DEF CommitVerdict, bodyVars, TypeOK
<1>6. CASE Abort(p, j) \/ Release(p, j)
  BY <1>0, <1>6, GotoKeepsRows DEF Abort, Release, bodyVars
<1>7. CASE Leave(p, j)
  BY <1>7, LeaveRows
<1>8. QED
  BY <1>1, <1>2, <1>3, <1>4, <1>5, <1>6, <1>7 DEF JobStep

LEMMA CancelRows ==
  ASSUME TypeOK, RowDiscipline, NEW p \in Process, NEW j \in Job, NEW l, Cancel(p, j, l)
  PROVE  RowDiscipline'
<1>1. Unwind(task[p][j]) \notin WithRow
  BY UnwindDropsRow DEF TypeOK
<1>2. QED
  BY <1>1, GotoKeepsRows DEF Cancel, bodyVars

LEMMA DieRows ==
  ASSUME TypeOK, RowDiscipline, NEW p \in Process, Die(p)
  PROVE  RowDiscipline'
<1>1. \A i \in Job : task'[p][i] \notin WithRow
  BY DEF Die, TypeOK, WithRow, InBody
<1>2. \A q \in Process \ {p} : task'[q] = task[q] /\ current'[q] = current[q]
  BY DEF Die, Forget, TypeOK
<1>3. QED
  BY <1>1, <1>2 DEF Die, RowDiscipline, OwnsItsRow, FinishedIsOver

(* Start-up may mark a row failed, but leaves it to its run.                  *)
LEMMA BootRows ==
  ASSUME TypeOK, RowDiscipline, NEW p \in Process, Boot(p)
  PROVE  RowDiscipline'
BY DEF Boot, TypeOK, bodyVars, RowDiscipline, OwnsItsRow, FinishedIsOver, FinalStatus, Row

LEMMA NextRows ==
  ASSUME TypeOK, LockDiscipline, RowDiscipline, [Next]_vars
  PROVE  RowDiscipline'
<1>0. /\ Manual \subseteq Job /\ "timer" \in Job
      /\ "created" \notin WithRow
  BY DEF Manual, Job, WithRow, InBody
<1>1. ASSUME NEW p \in Process, Boot(p)
      PROVE  RowDiscipline'
  BY <1>1, BootRows
<1>2. ASSUME NEW p \in Process, NEW j \in Manual, TimerFires(p) \/ Trigger(p, j)
      PROVE  RowDiscipline'
  BY <1>0, <1>2, GotoKeepsRows DEF TimerFires, Trigger, bodyVars
<1>3. ASSUME NEW p \in Process, RequestStop(p) \/ StopBegins(p) \/ LoseLockSession(p)
      PROVE  RowDiscipline'
  BY <1>3, SameRows DEF RequestStop, StopBegins, LoseLockSession, bodyVars
<1>4. ASSUME NEW p \in Process, NEW j \in Job, JobStep(p, j)
      PROVE  RowDiscipline'
  BY <1>4, JobStepRows
<1>5. ASSUME NEW p \in Process, StopTimesOut(p) \/ StopShutsTimer(p)
      PROVE  RowDiscipline'
  BY <1>0, <1>5, CancelRows DEF StopTimesOut, StopShutsTimer
<1>6. ASSUME NEW p \in Process, StopRaises(p) \/ StopCloses(p)
      PROVE  RowDiscipline'
  BY <1>6, SameRows DEF StopRaises, StopCloses, bodyVars
<1>7. ASSUME NEW p \in Process, Exit(p) \/ Crash(p)
      PROVE  RowDiscipline'
  BY <1>7, DieRows DEF Exit, Crash
<1>8. ASSUME NEW r \in Run, PurgeRun(r)
      PROVE  RowDiscipline'
  <2>1. rows' = [rows EXCEPT ![r] = NoRow] /\ UNCHANGED <<task, current>>
    BY <1>8 DEF PurgeRun, bodyVars
  <2>2. \A p \in Process, j \in Job : task[p][j] \in WithRow => current[p] # r
    BY <1>8 DEF PurgeRun, InFlight
  <2>3. QED
    BY <2>1, <2>2 DEF RowDiscipline, OwnsItsRow, FinishedIsOver, NoRow, TypeOK
<1>9. CASE UNCHANGED vars
  BY <1>9, SameRows DEF vars, bodyVars
<1>10. "cycle" \in Manual
  BY DEF Manual
<1>11. QED
  BY <1>1, <1>2, <1>3, <1>4, <1>5, <1>6, <1>7, <1>8, <1>9, <1>10 DEF Next, StopStep

LEMMA RowDisciplineHolds ==
  ASSUME LockMayBeLost = FALSE
  PROVE  Spec => []RowDiscipline
<1>1. Init => RowDiscipline
  BY DEF Init, RowDiscipline, OwnsItsRow, FinishedIsOver, WithRow, InBody, NoRow
<1>2. TypeOK /\ LockDiscipline /\ RowDiscipline /\ [Next]_vars => RowDiscipline'
  BY NextRows
<1>3. QED
  BY <1>1, <1>2, TypeCorrect, LockDisciplineHolds, PTL DEF Spec

(* A collection in flight keeps its row to itself, and unfinished, through    *)
(* purges and the start of other processes.                                  *)
THEOREM OwnsItsRowHolds ==
  ASSUME LockMayBeLost = FALSE
  PROVE  Spec => []OwnsItsRow
<1>1. RowDiscipline => OwnsItsRow
  BY DEF RowDiscipline
<1>2. QED
  BY <1>1, RowDisciplineHolds, PTL

(***************************************************************************)
(* Action properties.                                                      *)
(***************************************************************************)

(* A finished row changes only by being purged: whoever finishes a row owns   *)
(* it, and start-up touches running rows only.                               *)
THEOREM FinishedIsFinalHolds ==
  ASSUME LockMayBeLost = FALSE
  PROVE  Spec => FinishedIsFinal
<1> DEFINE Kept == \A r \in Run : rows[r].finished => rows'[r] \in {rows[r], NoRow}
<1>1. ASSUME TypeOK, RowDiscipline, Next
      PROVE  Kept
  <2>1. ASSUME NEW p \in Process, NEW j \in Job, NEW status, task[p][j] \in WithRow,
               Finish(current[p], status)
        PROVE  Kept
    BY <1>1, <2>1 DEF Finish, RowDiscipline, OwnsItsRow, TypeOK
  <2>2. ASSUME NEW p \in Process, Boot(p)
        PROVE  Kept
    BY <1>1, <2>2 DEF Boot, RowDiscipline, FinishedIsOver, FinalStatus, TypeOK
  <2>3. ASSUME NEW p \in Process, NEW j \in Job, OpenRun(p, j)
        PROVE  Kept
    BY <1>1, <2>3 DEF OpenRun, TypeOK, NoRow
  <2>4. ASSUME NEW r \in Run, PurgeRun(r)
        PROVE  Kept
    BY <1>1, <2>4 DEF PurgeRun, TypeOK
  <2>5. ASSUME NEW p \in Process, NEW j \in Job, JobStep(p, j)
        PROVE  Kept
    <3>1. CASE NothingToRun(p, j)
      BY <2>1, <3>1 DEF NothingToRun, WithRow, InBody
    <3>2. CASE CommitVerdict(p, j)
      BY <2>1, <3>2 DEF CommitVerdict, WithRow, InBody
    <3>3. CASE ~OpenRun(p, j) /\ ~NothingToRun(p, j) /\ ~CommitVerdict(p, j)
      <4>1. UNCHANGED rows
        BY <2>5, <3>3 DEF JobStep, Enter, TakeLock, LockUnavailable, Plan, BeginRoute, EndRoute,
                          Decide, Abort, Release, Leave
      <4>2. QED
        BY <4>1
    <3>4. QED
      BY <2>3, <3>1, <3>2, <3>3
  <2>6. ASSUME NEW p \in Process,
               \/ TimerFires(p)
               \/ \E j \in Manual : Trigger(p, j)
               \/ RequestStop(p) \/ StopBegins(p) \/ StopStep(p) \/ Crash(p)
               \/ LoseLockSession(p)
        PROVE  Kept
    <3>1. UNCHANGED rows
      BY <2>6 DEF TimerFires, Trigger, RequestStop, StopBegins, StopStep, StopTimesOut, StopRaises,
                  StopShutsTimer, StopCloses, Exit, Crash, LoseLockSession, Cancel, Die
    <3>2. QED
      BY <3>1
  <2>7. QED
    BY <1>1, <2>2, <2>4, <2>5, <2>6 DEF Next
<1>2. UNCHANGED vars => UNCHANGED rows
  BY DEF vars
<1>3. TypeOK /\ RowDiscipline /\ [Next]_vars => [Kept]_vars
  BY <1>1
<1>4. QED
  BY <1>3, TypeCorrect, RowDisciplineHolds, PTL DEF Spec, FinishedIsFinal

(* A stop request stands until the collection it was made for has reset its   *)
(* flag: a second coroutine is turned away before it resets anything.        *)
THEOREM StopStandsHolds == Spec => StopStands
<1> DEFINE Stands == \A p \in Process :
                       collecting[p] /\ stopRequested[p] => stopRequested'[p] \/ ~collecting'[p]
<1>1. ASSUME TypeOK, Next
      PROVE  Stands
  <2>1. ASSUME NEW p \in Process, NEW j \in Job, JobStep(p, j)
        PROVE  Stands
    <3>1. CASE Enter(p, j)
      BY <1>1, <3>1 DEF Enter, TypeOK, procVars
    <3>2. CASE Leave(p, j)
      BY <1>1, <3>2 DEF Leave, TypeOK
    <3>3. CASE ~Enter(p, j) /\ ~Leave(p, j)
      <4>1. UNCHANGED stopRequested
        BY <2>1, <3>3 DEF JobStep, TakeLock, LockUnavailable, OpenRun, NothingToRun, Plan,
                          BeginRoute, EndRoute, Decide, CommitVerdict, Abort, Release, procVars
      <4>2. QED
        BY <4>1
    <3>4. QED
      BY <3>1, <3>2, <3>3
  <2>2. ASSUME NEW p \in Process, RequestStop(p) \/ StopBegins(p)
        PROVE  Stands
    BY <1>1, <2>2 DEF RequestStop, StopBegins, TypeOK
  <2>3. ASSUME NEW p \in Process, Exit(p) \/ Crash(p)
        PROVE  Stands
    BY <1>1, <2>3 DEF Exit, Crash, Die, TypeOK
  <2>4. ASSUME NEW p \in Process,
               \/ Boot(p)
               \/ TimerFires(p)
               \/ \E j \in Manual : Trigger(p, j)
               \/ StopTimesOut(p) \/ StopRaises(p) \/ StopShutsTimer(p) \/ StopCloses(p)
               \/ LoseLockSession(p)
        PROVE  Stands
    <3>1. UNCHANGED stopRequested
      BY <2>4 DEF Boot, TimerFires, Trigger, StopTimesOut, StopRaises, StopShutsTimer, StopCloses,
                  LoseLockSession, procVars
    <3>2. QED
      BY <3>1
  <2>5. ASSUME NEW r \in Run, PurgeRun(r)
        PROVE  Stands
    BY <2>5 DEF PurgeRun, procVars
  <2>6. QED
    BY <1>1, <2>1, <2>2, <2>3, <2>4, <2>5 DEF Next, StopStep
<1>2. TypeOK /\ [Next]_vars => [Stands]_vars
  BY <1>1
<1>3. QED
  BY <1>2, TypeCorrect, PTL DEF Spec, StopStands

================================================================================
