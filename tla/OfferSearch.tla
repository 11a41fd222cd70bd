------------------------------- MODULE OfferSearch -------------------------------
(***************************************************************************)
(* What one search of a key brings home, and what a group's health makes of   *)
(* it: the fallback over stop limits and the log of collect_single_date        *)
(* (services/price_collector.py), the fast and the deep pass over a rendered  *)
(* page and the stop filter (providers/scrapingbee.py), the health summary     *)
(* (services/route_group_service.py).                                      *)
(*                                                                         *)
(* Offers are told apart by their price; site[p] is the number of stops of     *)
(* the one at price p.  A page lists offers by price (sort=price_a); a request *)
(* may bring only the first of them, as the page has not loaded the others or  *)
(* the answer is cut off (_parse_partial_payload).  ScrapingBeePool has        *)
(* the requests, keys and retries of a search, PriceStore its transaction: a   *)
(* request that is retried leaves a call here where it is.                   *)
(***************************************************************************)
EXTENDS Integers, Sequences, FiniteSets

CONSTANTS
  Prices,       \* prices offers may have
  FastLimit,    \* _FAST_MULTI_CITY_CARD_LIMIT (30 in the code)
  DeepLimit,    \* _DEEP_MULTI_CITY_CARD_LIMIT (180)
  Enough,       \* eligible offers that spare the deep pass (5)
  Errors        \* _ERROR_PRIORITY: statuses of failed searches, worst first

ASSUME PricesAssumption == Prices \subseteq Nat \ {0} /\ IsFiniteSet(Prices)
ASSUME LimitsAssumption ==
  /\ FastLimit \in Nat \ {0} /\ DeepLimit \in Nat /\ DeepLimit >= FastLimit
  /\ Enough \in Nat
ASSUME ErrorsAssumption ==
  /\ Errors \in Seq(STRING)
  /\ "provider_error" \in {Errors[i] : i \in DOMAIN Errors}
  /\ \A i \in DOMAIN Errors : Errors[i] \notin {"ok", "never", "success", "no_results"}

Trips == {"simple", "multi_city"}      \* one_way and round_trip do the same
NoLimit == 4                           \* max_stops not given
Limits == 0 .. NoLimit
NoOffer == 9
Sites == [Prices -> 0 .. 3 \cup {NoOffer}]
Good == {"success", "no_results"}      \* _NON_ERROR_STATUSES
Worst == {Errors[i] : i \in DOMAIN Errors}
Never == "never"

VARIABLES
  site,         \* the offers there are, for the key that is searched
  trip, limit,  \* trip type and max_stops of the group
  stage,        \* idle, ask (first request of a search), deep (its second)
  round,        \* position in the fallback order
  stored,       \* the cheapest price stored: price, stops and stop label
  recent, last, \* statuses of the log: those of the last hour, the last of all
  moved,        \* history: the offers have changed during this call
  missed        \* history: offers that a request of this call did not bring,
                \* other than a fast pass

vars == <<site, trip, limit, stage, round, stored, recent, last, moved, missed>>

Nothing == [price |-> 0, stops |-> 0, label |-> "none"]

(***************************************************************************)
(* Faulty variants, used by no specification.                               *)
(***************************************************************************)

(* a failure is logged under a status the summary does not know *)
Fail_Unclassified ==
  /\ stage # "idle"
  /\ recent' = recent \cup {"error"} /\ last' = "error"
  /\ stage' = "idle" /\ round' = 1
  /\ UNCHANGED <<site, trip, limit, stored, moved, missed>>

(* two stops first, then one *)
FallbackOrder_TwoFirst ==
  <<[max |-> 2, label |-> "2 stop"], [max |-> 1, label |-> "1 stop"],
    [max |-> 0, label |-> "direct"]>>

(* no filter: whatever the page shows *)
Eligible_All(seen, max) == seen

(* only an empty page asks for the deep pass *)
NeedsDeepPass_OnlyEmpty(seen, loaded, max) == seen = {}

(* the log of the last hour alone decides *)
Health_LastHourOnly ==
  CASE last = Never /\ stored = Nothing -> "never_scraped"
    [] OTHER -> IF recent \cap Worst # {} /\ recent \cap Good = {}
                THEN CHOOSE e \in Worst \cap recent : TRUE
                ELSE "ok"

(***************************************************************************)
(* Pages and filters.                                                      *)
(***************************************************************************)

(* What _normalize_flights and _normalize_multi_city_cards make of an answer:  *)
(* the offers with a price that can be read.                                *)
OnSite == {p \in Prices : site[p] # NoOffer}

(* The n cheapest cards. *)
First(n) == {p \in OnSite : Cardinality({q \in OnSite : q < p}) < n}

(* _filter_results_by_stops, and the same filter in the other two searches. *)
Eligible(seen, max) == {p \in seen : site[p] <= max}

(* The order of _search_one_way_with_fallback and its two siblings. *)
FallbackOrder ==
  <<[max |-> 1, label |-> "1 stop"], [max |-> 2, label |-> "2 stop"],
    [max |-> 0, label |-> "direct"]>>

(* A multi-city search always falls back, another only when 3 stops are asked. *)
Rounds(t, l) ==
  IF t = "multi_city" \/ l = 3 THEN FallbackOrder ELSE <<[max |-> l, label |-> "none"]>>

(* The decision of _search_multi_city_once after the fast pass, which has seen *)
(* part of the cards loaded.                                               *)
NeedsDeepPass(seen, loaded, max) ==
  \/ Eligible(seen, max) = {}
  \/ /\ Cardinality(seen) >= FastLimit
     /\ Cardinality(loaded) > Cardinality(seen)
     /\ Cardinality(Eligible(seen, max)) < Enough

Init ==
  /\ site \in Sites
  /\ trip \in Trips /\ limit \in Limits
  /\ stage = "idle" /\ round = 1
  /\ stored = Nothing
  /\ recent = {} /\ last = Never
  /\ moved = FALSE /\ missed = {}

(***************************************************************************)
(* A call of collect_single_date.                                          *)
(***************************************************************************)

Logged(status) == recent' = recent \cup {status} /\ last' = status

BeginCall ==
  /\ stage = "idle"
  /\ stage' = "ask" /\ round' = 1
  /\ moved' = FALSE /\ missed' = {}
  /\ UNCHANGED <<site, trip, limit, stored, recent, last>>

CheapestOf(found, label) ==
  LET p == CHOOSE p \in found : \A q \in found : p <= q
  IN [price |-> p, stops |-> site[p], label |-> label]

(* What a search has found: the first limit that finds anything ends the call, *)
(* the cheapest of what it found is stored and the log written in the same     *)
(* transaction; a call that finds nothing leaves what is stored alone.        *)
Conclude(found) ==
  LET rounds == Rounds(trip, limit) IN
  IF found # {}
    THEN /\ stored' = CheapestOf(found, rounds[round].label)
         /\ Logged("success")
         /\ stage' = "idle" /\ round' = 1
    ELSE IF round < Len(rounds)
      THEN /\ stage' = "ask" /\ round' = round + 1
           /\ UNCHANGED <<stored, recent, last>>
      ELSE /\ Logged("no_results")
           /\ stage' = "idle" /\ round' = 1
           /\ UNCHANGED stored

(* A request that asks for all offers and brings some of the cheapest.  The    *)
(* offers there are may have none, or none that can be read.                 *)
Bring(seen) ==
  /\ missed' = missed \cup (OnSite \ seen)
  /\ Conclude(Eligible(seen, Rounds(trip, limit)[round].max))
  /\ UNCHANGED <<site, trip, limit, moved>>

(* The one request of a one-way or round-trip search: the visible offers. *)
AskSimple(n) == stage = "ask" /\ trip = "simple" /\ Bring(First(n))

(* The fast pass over a page that has loaded n cards. *)
AskFast(n) ==
  LET loaded == First(n)
      seen == loaded \cap First(FastLimit)
      max == Rounds(trip, limit)[round].max
  IN
  /\ stage = "ask" /\ trip = "multi_city"
  /\ IF NeedsDeepPass(seen, loaded, max)
       THEN /\ stage' = "deep"
            /\ UNCHANGED <<round, stored, recent, last>>
       ELSE Conclude(Eligible(seen, max))
  /\ UNCHANGED <<site, trip, limit, moved, missed>>

(* The deep pass replaces what the fast pass has seen.  A page without cards   *)
(* may be an error (Fail) or say that there are no offers.                   *)
AskDeep(n) == stage = "deep" /\ Bring(First(n) \cap First(DeepLimit))

(* The search fails for good: the failure is logged, what is stored stays. *)
Fail ==
  /\ stage # "idle"
  /\ \E e \in Worst : Logged(e)
  /\ stage' = "idle" /\ round' = 1
  /\ UNCHANGED <<site, trip, limit, stored, moved, missed>>

(* A stop cancels the call and its transaction. *)
Cancel ==
  /\ stage # "idle"
  /\ stage' = "idle" /\ round' = 1
  /\ UNCHANGED <<site, trip, limit, stored, recent, last, moved, missed>>

(* Offers come and go. *)
SiteChanges ==
  /\ site' \in Sites \ {site}
  /\ moved' = TRUE
  /\ UNCHANGED <<trip, limit, stage, round, stored, recent, last, missed>>

(* The oldest entries of the log leave the hour; its newest is the last to. *)
HourPasses ==
  /\ \E kept \in SUBSET recent \ {recent} :
       /\ kept # {} => last \in kept
       /\ recent' = kept
  /\ UNCHANGED <<site, trip, limit, stage, round, stored, last, moved, missed>>

(* The purge of logs older than 30 days takes the last of a group that has not *)
(* been searched since, and leaves its prices (cleanup_old_data).             *)
PurgeLog ==
  /\ recent = {} /\ last # Never
  /\ last' = Never
  /\ UNCHANGED <<site, trip, limit, stage, round, stored, recent, moved, missed>>

(* An edit of the group clears prices and log (_clear_group_collection_data). *)
Clear ==
  /\ stored' = Nothing /\ recent' = {} /\ last' = Never
  /\ UNCHANGED <<site, trip, limit, stage, round, moved, missed>>

Next ==
  \/ BeginCall
  \/ \E n \in 0 .. Cardinality(Prices) : AskSimple(n)
  \/ \E n \in 0 .. Cardinality(Prices) : AskFast(n)
  \/ \E n \in 0 .. Cardinality(Prices) : AskDeep(n)
  \/ Fail
  \/ Cancel
  \/ SiteChanges
  \/ HourPasses
  \/ PurgeLog
  \/ Clear

Spec == Init /\ [][Next]_vars

(***************************************************************************)
(* _compute_scrape_health                                                  *)
(***************************************************************************)

Rank(e) == CHOOSE i \in DOMAIN Errors : Errors[i] = e

WorstOf(statuses) ==
  CHOOSE e \in statuses \cap Worst : \A f \in statuses \cap Worst : Rank(e) <= Rank(f)

Health ==
  LET successes == recent \cap Good # {} IN
  CASE last = Never /\ stored = Nothing -> "never_scraped"
    [] last = Never /\ stored # Nothing -> "ok"
    [] last # Never /\ ~successes /\ recent \cap Worst # {} -> WorstOf(recent)
    [] last # Never /\ ~successes /\ recent \cap Worst = {} /\ last \notin Good ->
         IF last \in Worst THEN last ELSE "provider_error"
    [] OTHER -> "ok"

(***************************************************************************)
(* Properties.                                                             *)
(***************************************************************************)

(* Every variable has its type; what is logged is a status the summary knows. *)
TypeOK ==
  /\ site \in Sites
  /\ trip \in Trips /\ limit \in Limits
  /\ stage \in {"idle", "ask", "deep"}
  /\ round \in 1 .. Len(Rounds(trip, limit))
  /\ stored \in [price : Prices \cup {0}, stops : 0 .. 3,
                  label : {"none", "1 stop", "2 stop", "direct"}]
  /\ recent \subseteq Good \cup Worst
  /\ last \in Good \cup Worst \cup {Never}
  /\ moved \in BOOLEAN /\ missed \subseteq Prices

Stores == stored' # stored /\ stored' # Nothing

Asked(label) ==
  CASE label = "1 stop" -> 1 [] label = "2 stop" -> 2 [] label = "direct" -> 0 [] OTHER -> limit

(* The price stored is the cheapest there is within the limit that was asked   *)
(* for, though a fast pass sees the first cards only and a page may not have   *)
(* loaded the rest (sort=price_a, _search_multi_city_once, min of results).    *)
CheapestIsBest ==
  [][Stores =>
       /\ site[stored'.price] = stored'.stops /\ stored'.stops <= Asked(stored'.label)
       /\ \A p \in OnSite : site[p] <= Asked(stored'.label) => stored'.price <= p]_vars

(* When no offers changed between the searches of a call, its label is true    *)
(* but for what its requests did not bring.  Of a price stored as "2 stop (1    *)
(* stop unavailable)", each offer of one stop or less was missed by the first   *)
(* search, though a fast pass looks at some cards only; and "Direct (1 stop and *)
(* 2 stop unavailable)" is a flight that the searches before, whose limits      *)
(* admit it, missed (_search_one_way_with_fallback and its siblings).         *)
LabelIsTrue ==
  [][Stores /\ ~moved =>
       /\ stored'.label = "2 stop" => \A p \in OnSite : site[p] <= 1 => p \in missed
       /\ stored'.label = "direct" => stored'.price \in missed]_vars

(* A group that is not shown as healthy becomes so only by a search that was    *)
(* answered, or when the purge empties its log while it has prices: not by the  *)
(* hour that passes over its failures, by another failure, a stop or an edit   *)
(* (_compute_scrape_health falls back to the last attempt).                   *)
HealsByAnswer ==
  [][Health # "ok" /\ Health' = "ok" =>
       \/ recent' \cap Good # {} /\ last' \in Good
       \/ PurgeLog /\ stored # Nothing]_vars
================================================================================
