------------------------------ MODULE RouteBatch ------------------------------
(***************************************************************************)
(* One collection at work: the loop over the planned routes                  *)
(* (tasks/scheduler.py) and, for each of them, collect_route_batch           *)
(* (services/price_collector.py).  The items of a route, one for each date   *)
(* and destination, are gathered in chunks of BatchSize; a chunk's searches   *)
(* run concurrently, are polled for completion and for a stop request, and    *)
(* feed the live progress, the statistics of the run row and the collector's  *)
(* memory of routes that keep failing.                                       *)
(*                                                                         *)
(* The planned routes are route groups following the same pairs, the case in  *)
(* which that memory carries over from one route to the next.                *)
(***************************************************************************)
EXTENDS Integers, FiniteSets

CONSTANTS
  Routes,       \* number of planned routes
  Dates,        \* dates left to collect on each route
  Dests,        \* destinations of each route
  BatchSize,    \* items gathered at once
  Threshold,    \* failures in a row before a pair is rested (3 in the code)
  MaxRest       \* longest rest, in items (12 in the code)

ASSUME SizesAssumption ==
  /\ Routes \in Nat /\ Dates \in Nat
  /\ Dests \in Nat \ {0} /\ BatchSize \in Nat \ {0}
ASSUME RestAssumption == Threshold \in Nat \ {0} /\ MaxRest \in Nat

VARIABLES
  phase,        \* where the loop is
  route,        \* planned routes begun
  next,         \* first item of the route not gathered yet
  item,         \* what became of each item of the current route
  stop,         \* _stop_requested
  failures,     \* _route_failures
  cooldown,     \* _route_cooldown
  stats,        \* what collect_route_batch returns, summed over the routes
  progress,     \* _progress
  saved         \* history: items whose prices are committed

loopVars == <<phase, route, next>>
memoryVars == <<failures, cooldown>>
vars == <<loopVars, item, stop, memoryVars, stats, progress, saved>>

N == Dates * Dests
Item == 1 .. N
Pair == 0 .. (Dests - 1)              \* route keys "origin:destination"

PairOf(i) == (i - 1) % Dests          \* dates outside, destinations inside

(* "searching" is collect_single_date in its own task; "priced", "empty" and  *)
(* "broken" are its outcomes before the poll has seen them.                  *)
Answered == {"priced", "empty", "broken"}
Final == {"success", "skipped", "stopped", "error"}
ItemState == {"idle", "searching"} \cup Answered \cup Final

Phase == {"between", "check", "gathered", "running", "pausing", "finished"}

Least(a, b) == IF a <= b THEN a ELSE b

Chunk == {i \in Item : next <= i /\ i < next + BatchSize}

Init ==
  /\ phase = "between"
  /\ route = 0
  /\ next = 1
  /\ item = [i \in Item |-> "idle"]
  /\ stop = FALSE
  /\ failures = [k \in Pair |-> 0]
  /\ cooldown = [k \in Pair |-> 0]
  /\ stats = [success |-> 0, skipped |-> 0, errors |-> 0]
  /\ progress = [started |-> 0, done |-> 0, failed |-> 0, scraped |-> 0, routes |-> 0]
  /\ saved = 0

(***************************************************************************)
(* Faulty variants: each is an action below with one plausible mistake, and   *)
(* a property that must notice it.  No specification uses them.              *)
(***************************************************************************)

(* the destinations of a chunk are not checked against a rest *)
Rested_Ignored(i) == FALSE

(* the count goes below zero *)
CountDown_NoFloor(k) == cooldown[k] - Cardinality({i \in Chunk : PairOf(i) = k})

(* an error is not a failure in the statistics *)
Tally_ErrorsSkipped(s, S) ==
  [success |-> s.success + Cardinality({i \in S : item[i] = "success"}),
   skipped |-> s.skipped + Cardinality({i \in S : item[i] \in {"skipped", "stopped", "error"}}),
   errors  |-> s.errors]

(* the last, incomplete chunk is forgotten *)
EndRoute_DropsTail ==
  /\ phase = "check"
  /\ stop \/ next + BatchSize > N + 1
  /\ progress' = [progress EXCEPT !.routes = @ + 1]
  /\ phase' = "between"
  /\ UNCHANGED <<route, next, item, stop, memoryVars, stats, saved>>

(* a search cut by a stop counts as a success *)
NoticeStop_Claims(i) ==
  /\ item[i] = "searching"
  /\ stop
  /\ item' = [item EXCEPT ![i] = "success"]
  /\ saved' \in {saved, saved + 1}
  /\ progress' = [progress EXCEPT !.done = @ + 1, !.scraped = @ + 1]
  /\ UNCHANGED <<memoryVars, loopVars, stop, stats>>

(* the pause waits for a stop *)
Resume_OnStop ==
  /\ phase = "pausing"
  /\ stop
  /\ phase' = "check"
  /\ UNCHANGED <<route, next, item, stop, memoryVars, stats, progress, saved>>

(***************************************************************************)
(* The collector's memory, the progress and the statistics.                  *)
(***************************************************************************)

(* The items of the chunk on the same pair, in order, up to i. *)
TurnOf(i) == Cardinality({h \in Chunk : h <= i /\ PairOf(h) = PairOf(i)})

(* _is_route_cooled for each item of a chunk in turn: the first ones use up   *)
(* the rest of their pair.                                                  *)
Rested(i) == TurnOf(i) <= cooldown[PairOf(i)]

CountDown(k) ==
  cooldown[k] - Least(cooldown[k], Cardinality({i \in Chunk : PairOf(i) = k}))

RestAfter(fails) == IF fails >= Threshold THEN Least(fails * 2, MaxRest) ELSE 0

MarkSuccess(k) ==
  /\ failures' = [failures EXCEPT ![k] = 0]
  /\ cooldown' = [cooldown EXCEPT ![k] = 0]

MarkFailure(k) ==
  LET fails == failures[k] + 1 IN
  /\ failures' = [failures EXCEPT ![k] = fails]
  /\ cooldown' = IF fails >= Threshold THEN [cooldown EXCEPT ![k] = RestAfter(fails)]
                 ELSE cooldown

(* _record_item_progress *)
ProgressOf(p, status) ==
  IF status = "stopped" THEN p
  ELSE [p EXCEPT !.done = @ + 1,
                 !.scraped = @ + (IF status = "success" THEN 1 ELSE 0),
                 !.failed = @ + (IF status = "error" THEN 1 ELSE 0)]

(* The results of a chunk, counted by status. *)
Tally(s, S) ==
  [success |-> s.success + Cardinality({i \in S : item[i] = "success"}),
   skipped |-> s.skipped + Cardinality({i \in S : item[i] \in {"skipped", "stopped"}}),
   errors  |-> s.errors + Cardinality({i \in S : item[i] = "error"})]

(***************************************************************************)
(* The loops.                                                              *)
(***************************************************************************)

(* POST /stop, or the shutdown. *)
RequestStop ==
  /\ ~stop
  /\ phase # "finished"
  /\ stop' = TRUE
  /\ UNCHANGED <<loopVars, item, memoryVars, stats, progress, saved>>

BeginRoute ==
  /\ phase = "between"
  /\ ~stop
  /\ route < Routes
  /\ route' = route + 1
  /\ next' = 1
  /\ item' = [i \in Item |-> "idle"]
  /\ phase' = "check"
  /\ UNCHANGED <<stop, memoryVars, stats, progress, saved>>

Finish ==
  /\ phase = "between"
  /\ stop \/ route = Routes
  /\ phase' = "finished"
  /\ UNCHANGED <<route, next, item, stop, memoryVars, stats, progress, saved>>

(* The top of the loop over chunks: gather the next one.                     *)
Gather ==
  /\ phase = "check"
  /\ ~stop
  /\ next <= N
  /\ phase' = "gathered"
  /\ UNCHANGED <<route, next, item, stop, memoryVars, stats, progress, saved>>

EndRoute ==
  /\ phase = "check"
  /\ stop \/ next > N
  /\ progress' = [progress EXCEPT !.routes = @ + 1]
  /\ phase' = "between"
  /\ UNCHANGED <<route, next, item, stop, memoryVars, stats, saved>>

(* What run_one does before its first await: report the start, skip a rested *)
(* pair, give up on a stop, or search.  The semaphore has room for a chunk.  *)
Started(i) == IF stop THEN "stopped" ELSE "searching"

(* The coroutines of a chunk run one after the other in one turn of the loop. *)
StartChunk ==
  LET first == [i \in Chunk |-> IF Rested(i) THEN "skipped" ELSE Started(i)]
      skipped == {i \in Chunk : first[i] = "skipped"}
  IN
  /\ phase = "gathered"
  /\ item' = [i \in Item |-> IF i \in Chunk THEN first[i] ELSE item[i]]
  /\ cooldown' = [k \in Pair |-> CountDown(k)]
  /\ progress' = [progress EXCEPT !.started = @ + Cardinality(Chunk),
                                  !.done = @ + Cardinality(skipped)]
  /\ phase' = "running"
  /\ UNCHANGED <<route, next, stop, failures, stats, saved>>

(* collect_single_date ends in its task: prices committed, none found by any *)
(* provider, or the database failed.                                        *)
SearchEnds(i, outcome) ==
  /\ item[i] = "searching"
  /\ item' = [item EXCEPT ![i] = outcome]
  /\ saved' = saved + (IF outcome = "priced" THEN 1 ELSE 0)
  /\ UNCHANGED <<loopVars, stop, memoryVars, stats, progress>>

(* The poll of await_with_stop finds the task done. *)
NoticeEnd(i) ==
  LET status == CASE item[i] = "priced" -> "success"
                  [] item[i] = "empty" -> "skipped"
                  [] item[i] = "broken" -> "error"
  IN
  /\ item[i] \in Answered
  /\ item' = [item EXCEPT ![i] = status]
  /\ IF status = "success" THEN MarkSuccess(PairOf(i)) ELSE MarkFailure(PairOf(i))
  /\ progress' = ProgressOf(progress, status)
  /\ UNCHANGED <<loopVars, stop, stats, saved>>

(* The poll finds a stop request first and cancels the task: it is stopped,   *)
(* before or during its commit, or fails while being cancelled.              *)
NoticeStop(i) ==
  /\ item[i] = "searching"
  /\ stop
  /\ \/ /\ item' = [item EXCEPT ![i] = "stopped"]
        /\ saved' \in {saved, saved + 1}
        /\ progress' = ProgressOf(progress, "stopped")
        /\ UNCHANGED memoryVars
     \/ /\ item' = [item EXCEPT ![i] = "error"]
        /\ MarkFailure(PairOf(i))
        /\ progress' = ProgressOf(progress, "error")
        /\ UNCHANGED saved
  /\ UNCHANGED <<loopVars, stop, stats>>

(* gather returns once every coroutine of the chunk has; a pause follows     *)
(* unless this was the last chunk.                                          *)
EndChunk ==
  /\ phase = "running"
  /\ \A i \in Chunk : item[i] \in Final
  /\ stats' = Tally(stats, Chunk)
  /\ next' = next + BatchSize
  /\ phase' = IF next + BatchSize <= N THEN "pausing" ELSE "check"
  /\ UNCHANGED <<route, item, stop, memoryVars, progress, saved>>

(* The pause ends when the delay is over or a stop is seen. *)
Resume ==
  /\ phase = "pausing"
  /\ phase' = "check"
  /\ UNCHANGED <<route, next, item, stop, memoryVars, stats, progress, saved>>

LoopStep ==
  BeginRoute \/ Finish \/ Gather \/ StartChunk \/ EndChunk \/ Resume \/ EndRoute

ItemStep(i) ==
  \/ \E outcome \in Answered : SearchEnds(i, outcome)
  \/ NoticeEnd(i)
  \/ NoticeStop(i)

Next ==
  \/ RequestStop
  \/ LoopStep
  \/ \E i \in Item : ItemStep(i)

Spec == Init /\ [][Next]_vars

(* The event loop runs what is ready, every search ends and polls go on.      *)
Fairness == WF_vars(LoopStep) /\ \A i \in Item : WF_vars(ItemStep(i))

FairSpec == Spec /\ Fairness

(***************************************************************************)
(* Properties.                                                             *)
(***************************************************************************)

(* Every variable has its type; the rest of a pair is never longer than MaxRest. *)
TypeOK ==
  /\ phase \in Phase
  /\ route \in 0 .. Routes
  /\ next \in Nat \ {0}
  /\ item \in [Item -> ItemState]
  /\ stop \in BOOLEAN
  /\ failures \in [Pair -> Nat]
  /\ cooldown \in [Pair -> 0 .. MaxRest]
  /\ stats \in [success : Nat, skipped : Nat, errors : Nat]
  /\ progress \in [started : Nat, done : Nat, failed : Nat, scraped : Nat, routes : Nat]
  /\ saved \in Nat

(* Between two routes the live progress and the statistics that will be       *)
(* stored in the run row, kept by different code, tell the same story, and    *)
(* a run never claims prices it has not committed: only a search cut by a     *)
(* stop may have committed prices that are not counted.  The progress bar      *)
(* reaches its end: a collection that is not stopped reports every planned     *)
(* item once.                                                               *)
CountsAgree ==
  phase \in {"between", "finished"} =>
    /\ progress.scraped = stats.success
    /\ progress.failed = stats.errors
    /\ progress.started = stats.success + stats.skipped + stats.errors
    /\ progress.done <= progress.started
    /\ stats.success <= saved
    /\ ~stop => /\ progress.started = route * N
                /\ progress.done = progress.started
                /\ progress.routes = route
                /\ stats.success = saved

(* A rested pair is not searched: when a search starts, whatever the other     *)
(* items of its chunk, nothing is left of the rest of its pair.              *)
RestIsKept ==
  [][\A i \in Item :
       item[i] # "searching" /\ item'[i] = "searching" => cooldown'[PairOf(i)] = 0]_vars

(* The collection ends, stopped or not.                                      *)
CollectionFinishes == <>(phase = "finished")
================================================================================
