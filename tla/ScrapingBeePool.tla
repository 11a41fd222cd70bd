---------------------------- MODULE ScrapingBeePool ----------------------------
(***************************************************************************)
(* The ScrapingBee provider: a pool of API keys searched in rotation, each    *)
(* with its own semaphore and quota breaker (providers/scrapingbee.py), and   *)
(* the registry that keeps the health of the provider                       *)
(* (providers/registry.py), used by concurrent collect_single_date calls.    *)
(*                                                                         *)
(* An action is the code between two awaits.  Time is left out: breakers,     *)
(* cooldowns, backoffs and the throttle of a key end at some moment.         *)
(***************************************************************************)
EXTENDS Integers, FiniteSets

CONSTANTS
  Call,         \* concurrent collect_single_date calls
  NumKeys,      \* API keys of the pool
  Slots,        \* concurrency_limit of a key
  Attempts,     \* max_retries of a key
  Rounds,       \* searches of a call: 3 with a stop fallback, else 1
  Requests,     \* requests of a search: 2 with a deep pass, else 1
  FailLimit     \* generic failures before a cooldown (5 in the code)

ASSUME SizesAssumption ==
  {NumKeys, Slots, Attempts, Rounds, Requests, FailLimit} \subseteq Nat \ {0}
ASSUME CallAssumption == IsFiniteSet(Call)

VARIABLES
  running,      \* a collection holds the provider
  cursor,       \* _cursor
  call,         \* where each call is
  slots,        \* free slots of each key's semaphore
  blocked,      \* _quota_blocked(), for each key
  health,       \* what the registry knows of the provider
  late          \* history: requests each call sent to a key since its breaker tripped

vars == <<running, cursor, call, slots, blocked, health, late>>

Key == 0 .. NumKeys - 1

Failure == {"quota", "auth", "rate", "error", "unparsable"}
Answer == Failure \cup {"found", "none"}

(* "queued" waits for a slot of its key, "requesting" has it; "parsing" reads   *)
(* the page it got, without a slot.                                         *)
CallState ==
  [at : {"idle", "queued", "requesting", "parsing", "backoff"},
   start : Key, pos : 1 .. NumKeys, attempt : 1 .. Attempts,
   request : 1 .. Requests, round : 1 .. Rounds,
   tried : SUBSET Key, last : Answer \cup {"cancelled"}]

Cooldown == {"none", "default", "rate", "quota", "auth"}

Health ==
  [fails : 0 .. FailLimit, cooldown : Cooldown,
   status : {"none", "error", "quota_exhausted", "auth_error", "rate_limited"}]

Healthy == [fails |-> 0, cooldown |-> "none", status |-> "none"]

NewCall(last, tried) ==
  [at |-> "idle", start |-> 0, pos |-> 1, attempt |-> 1, request |-> 1, round |-> 1,
   tried |-> tried, last |-> last]

Init ==
  /\ running = FALSE
  /\ cursor = 0
  /\ call = [c \in Call |-> NewCall("none", {})]
  /\ slots = [k \in Key |-> Slots]
  /\ blocked = [k \in Key |-> FALSE]
  /\ health = Healthy
  /\ late = [k \in Key |-> [c \in Call |-> 0]]

LeastOf(S) == CHOOSE x \in S : \A y \in S : x <= y

(***************************************************************************)
(* Faulty variants, each of one definition below, used by no specification.  *)
(***************************************************************************)

(* the keys before the cursor are not tried *)
KeyAt_NoWrap(start, i) == IF start + i - 1 < NumKeys THEN start + i - 1 ELSE NumKeys - 1

(* the breaker is not read before a retry *)
Retried_Unchecked(s) == [s EXCEPT !.at = "queued", !.attempt = @ + 1]

(* an answer that is an error keeps the slot *)
Freed_OnSuccess(k, answer) ==
  IF answer \in {"found", "none"} THEN [slots EXCEPT ![k] = @ + 1] ELSE slots

(* a success resets the count of failures only *)
AfterSuccess_KeepsCooldown == [health EXCEPT !.fails = 0, !.status = "none"]

(* failures are counted for ever *)
AfterFailure_Unbounded(failure) ==
  [health EXCEPT !.fails = @ + 1, !.status = "error",
                 !.cooldown = IF health.fails + 1 >= FailLimit THEN "default" ELSE @]

(***************************************************************************)
(* The registry.                                                           *)
(***************************************************************************)

(* report_success *)
AfterSuccess == Healthy

(* report_failure: the count matters up to FailLimit only. *)
AfterFailure(failure) ==
  LET fails == IF health.fails < FailLimit THEN health.fails + 1 ELSE FailLimit IN
  CASE failure = "quota" -> [fails |-> fails, cooldown |-> "quota", status |-> "quota_exhausted"]
    [] failure = "auth" -> [fails |-> fails, cooldown |-> "auth", status |-> "auth_error"]
    [] failure = "rate" -> [fails |-> fails, cooldown |-> "rate", status |-> "rate_limited"]
    [] failure \in {"error", "unparsable"} ->
         [fails |-> fails, status |-> "error",
          cooldown |-> IF fails >= FailLimit THEN "default" ELSE health.cooldown]

(* get_enabled is asked once for each collection.                            *)
BeginRun ==
  /\ ~running
  /\ health.cooldown = "none"
  /\ running' = TRUE
  /\ UNCHANGED <<cursor, call, slots, blocked, health, late>>

EndRun ==
  /\ running
  /\ \A c \in Call : call[c].at = "idle"
  /\ running' = FALSE
  /\ UNCHANGED <<cursor, call, slots, blocked, health, late>>

CooldownExpires ==
  /\ health.cooldown # "none"
  /\ health' = [health EXCEPT !.cooldown = "none"]
  /\ UNCHANGED <<running, cursor, call, slots, blocked, late>>

(***************************************************************************)
(* A search of the pool.                                                   *)
(***************************************************************************)

(* _ordered_providers: all the keys, from the cursor on. *)
KeyAt(start, i) == (start + i - 1) % NumKeys

NextCursor(round) == (cursor + 1) % NumKeys

CurrentKey(s) == KeyAt(s.start, s.pos)

(* _search_with_failover from the i-th key on, after an error: a key whose    *)
(* breaker is open fails at once; with no key left the last error is raised. *)
Onward(s, i, failure) ==
  LET open == {j \in i .. NumKeys : ~blocked[KeyAt(s.start, j)]}
      upto == IF open = {} THEN NumKeys + 1 ELSE LeastOf(open)
      tried == s.tried \cup {KeyAt(s.start, j) : j \in i .. upto - 1}
  IN
  IF open # {}
  THEN [s EXCEPT !.at = "queued", !.pos = upto, !.attempt = 1, !.request = 1, !.tried = tried]
  ELSE NewCall(IF i <= NumKeys THEN "quota" ELSE failure, tried)

(* A call moves on; if it ends with an error the registry is told.           *)
Move(c, s) ==
  /\ call' = [call EXCEPT ![c] = s]
  /\ health' = IF s.at = "idle" THEN AfterFailure(s.last) ELSE health

BeginSearch(c, round) ==
  /\ Move(c, Onward([call[c] EXCEPT !.start = cursor, !.round = round, !.tried = {},
                                        !.last = "none"], 1, "error"))
  /\ cursor' = NextCursor(round)

BeginCall(c) ==
  /\ running
  /\ call[c].at = "idle"
  /\ BeginSearch(c, 1)
  /\ UNCHANGED <<running, slots, blocked, late>>

(* The request goes out once a slot of the key is free; nothing is read again *)
(* of the breaker.                                                          *)
SendRequest(c) ==
  LET k == CurrentKey(call[c]) IN
  /\ call[c].at = "queued"
  /\ slots[k] > 0
  /\ slots' = [slots EXCEPT ![k] = @ - 1]
  /\ call' = [call EXCEPT ![c].at = "requesting"]
  /\ late' = IF blocked[k] THEN [late EXCEPT ![k][c] = @ + 1] ELSE late
  /\ UNCHANGED <<running, cursor, blocked, health>>

(* _should_retry, and stop_after_attempt. *)
MayRetry(s, answer) == answer \in {"rate", "error"} /\ s.attempt < Attempts

Freed(k, answer) == [slots EXCEPT ![k] = @ + 1]

(* An error is retried or the next key is tried, except for a page without     *)
(* result cards, which ends the call.                                       *)
AfterError(c, failure) ==
  LET s == call[c] IN
  IF MayRetry(s, failure) THEN Move(c, [s EXCEPT !.at = "backoff", !.request = 1])
  ELSE IF failure = "unparsable" THEN Move(c, NewCall(failure, s.tried))
  ELSE Move(c, Onward([s EXCEPT !.tried = @ \cup {CurrentKey(s)}], s.pos + 1, failure))

(* The request times out or is refused: the slot is free again, and a quota   *)
(* error trips the breaker before anybody else runs.                        *)
Refuse(c, failure) ==
  LET k == CurrentKey(call[c]) IN
  /\ call[c].at = "requesting"
  /\ slots' = Freed(k, failure)
  /\ blocked' = IF failure = "quota" THEN [blocked EXCEPT ![k] = TRUE] ELSE blocked
  /\ AfterError(c, failure)
  /\ UNCHANGED <<running, cursor, late>>

(* A page arrives: its slot is free while it is decoded. *)
Receive(c) ==
  /\ call[c].at = "requesting"
  /\ slots' = Freed(CurrentKey(call[c]), "found")
  /\ call' = [call EXCEPT ![c].at = "parsing"]
  /\ UNCHANGED <<running, cursor, blocked, health, late>>

(* It is no JSON, or has no result cards. *)
FailToRead(c, failure) ==
  /\ call[c].at = "parsing"
  /\ AfterError(c, failure)
  /\ UNCHANGED <<running, cursor, slots, blocked, late>>

(* After the backoff the search starts over, with the breaker. *)
Retried(s) ==
  IF blocked[CurrentKey(s)]
  THEN Onward([s EXCEPT !.tried = @ \cup {CurrentKey(s)}], s.pos + 1, "quota")
  ELSE [s EXCEPT !.at = "queued", !.attempt = @ + 1]

Retry(c) ==
  /\ call[c].at = "backoff"
  /\ Move(c, Retried(call[c]))
  /\ UNCHANGED <<running, cursor, slots, blocked, late>>

(* A page without enough cards is loaded again, deeper.                      *)
DeepPass(c) ==
  /\ call[c].at = "parsing"
  /\ call[c].request < Requests
  /\ call' = [call EXCEPT ![c].at = "queued", ![c].request = @ + 1]
  /\ UNCHANGED <<running, cursor, slots, blocked, health, late>>

(* Offers, or none with the last stop option: the registry hears of a success. *)
Succeed(c, answer) ==
  LET s == call[c] IN
  /\ s.at = "parsing"
  /\ answer = "found" \/ s.round = Rounds
  /\ call' = [call EXCEPT ![c] = NewCall(answer, s.tried)]
  /\ health' = AfterSuccess
  /\ UNCHANGED <<running, cursor, slots, blocked, late>>

(* No offers: the next stop option is searched, from the next key.           *)
FallBack(c) ==
  LET s == call[c] IN
  /\ s.at = "parsing"
  /\ s.round < Rounds
  /\ BeginSearch(c, s.round + 1)
  /\ UNCHANGED <<running, slots, blocked, late>>

(* A stop cancels the call at its await: the slot is freed, nobody is told.   *)
Cancel(c) ==
  LET s == call[c] IN
  /\ s.at # "idle"
  /\ slots' = IF s.at = "requesting" THEN [slots EXCEPT ![CurrentKey(s)] = @ + 1] ELSE slots
  /\ call' = [call EXCEPT ![c] = NewCall("cancelled", {})]
  /\ UNCHANGED <<running, cursor, blocked, health, late>>

BreakerExpires(k) ==
  /\ blocked[k]
  /\ blocked' = [blocked EXCEPT ![k] = FALSE]
  /\ late' = [late EXCEPT ![k] = [c \in Call |-> 0]]
  /\ UNCHANGED <<running, cursor, call, slots, health>>

CallStep(c) ==
  \/ SendRequest(c)
  \/ \E failure \in Failure \ {"unparsable"} : Refuse(c, failure)
  \/ Receive(c)
  \/ \E failure \in {"error", "unparsable"} : FailToRead(c, failure)
  \/ Retry(c)
  \/ DeepPass(c)
  \/ \E answer \in {"found", "none"} : Succeed(c, answer)
  \/ FallBack(c)

Next ==
  \/ BeginRun
  \/ EndRun
  \/ CooldownExpires
  \/ \E c \in Call : BeginCall(c) \/ CallStep(c) \/ Cancel(c)
  \/ \E k \in Key : BreakerExpires(k)

Spec == Init /\ [][Next]_vars

(* Requests have timeouts and asyncio semaphores serve their waiters in turn. *)
Fairness == \A c \in Call : SF_vars(CallStep(c))

FairSpec == Spec /\ Fairness

(***************************************************************************)
(* Properties.                                                             *)
(***************************************************************************)

(* Every variable has its type; the provider rests only for failures no        *)
(* success has followed, and its status then names one.                      *)
TypeOK ==
  /\ running \in BOOLEAN
  /\ cursor \in Key
  /\ call \in [Call -> CallState]
  /\ slots \in [Key -> 0 .. Slots]
  /\ blocked \in [Key -> BOOLEAN]
  /\ health \in Health
  /\ health.cooldown # "none" => health.fails > 0 /\ health.status # "none"
  /\ late \in [Key -> [Call -> Nat]]

(* No slot is lost or given twice, whatever answer, retry or stop ends a      *)
(* request.                                                                 *)
SlotsConserved ==
  \A k \in Key :
    slots[k] + Cardinality({c \in Call : call[c].at = "requesting" /\ CurrentKey(call[c]) = k})
      = Slots

(* A call that fails has been refused by every key of the pool, unless a page *)
(* could not be read: one bad key never fails a search others could answer.  *)
EveryKeyTried ==
  \A c \in Call : call[c].last \in Failure \ {"unparsable"} => call[c].tried = Key

(* Once the breaker of a key trips, each call under way sends at most the     *)
(* requests of one search to it, and no other call sends any.                *)
OvershootBounded ==
  \A k \in Key, c \in Call :
    /\ late[k][c] <= Requests
    /\ late[k][c] > 0 => blocked[k]

(* A call ends, whatever its keys answer. *)
CallsEnd == \A c \in Call : call[c].at # "idle" ~> call[c].at = "idle"
================================================================================
