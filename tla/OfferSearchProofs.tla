--------------------------- MODULE OfferSearchProofs ---------------------------
(***************************************************************************)
(* Theorems about OfferSearch, for any prices, limits of the two passes and    *)
(* statuses of failures.                                                    *)
(***************************************************************************)
EXTENDS OfferSearch, FiniteSetTheorems, TLAPS

(***************************************************************************)
(* Least elements.                                                         *)
(***************************************************************************)

(* A set of numbers has a least one: the intervals up to its elements are      *)
(* finite, and one of them contains no other.                                *)
LEMMA LeastExists ==
  ASSUME NEW S \in SUBSET Nat, S # {}
  PROVE  \E n \in S : \A m \in S : n <= m
<1> DEFINE T == {0 .. m : m \in S}
<1>1. T \subseteq FiniteSubsetsOf(Nat) /\ T # {}
  <2>1. ASSUME NEW m \in S
        PROVE  0 .. m \in FiniteSubsetsOf(Nat)
    <3>1. IsFiniteSet(0 .. m) /\ 0 .. m \subseteq Nat
      BY FS_Interval
    <3>2. QED
      BY <3>1 DEF FiniteSubsetsOf
  <2>2. QED
    BY <2>1
<1>2. IsWellFoundedOn(StrictSubsetOrdering(Nat), FiniteSubsetsOf(Nat))
  BY FS_StrictSubsetOrderingWellFounded
<1> HIDE DEF T
<1>3. PICK x \in T : \A y \in T : <<y, x>> \notin StrictSubsetOrdering(Nat)
  BY <1>1, <1>2, WFMin
<1> USE DEF T
<1>4. PICK n \in S : x = 0 .. n
  OBVIOUS
<1>5. ASSUME NEW m \in S, m < n
      PROVE  FALSE
  <2>1. 0 .. m \subseteq 0 .. n /\ n \in 0 .. n /\ n \notin 0 .. m
    BY <1>5
  <2>2. <<0 .. m, 0 .. n>> \in StrictSubsetOrdering(Nat)
    BY <2>1 DEF StrictSubsetOrdering
  <2>3. QED
    BY <1>3, <1>4, <2>2
<1>6. QED
  BY <1>5

(***************************************************************************)
(* Pages.                                                                  *)
(***************************************************************************)

(* A pass sees the cheapest offers: with an offer it sees every cheaper one.  *)
FromCheapest(seen) ==
  /\ seen \subseteq OnSite
  /\ \A p \in seen : \A q \in OnSite : q <= p => q \in seen

LEMMA FirstAreCheapest ==
  ASSUME NEW n \in Nat
  PROVE  FromCheapest(First(n))
<1> DEFINE Below(p) == {q \in OnSite : q < p}
<1>1. OnSite \subseteq Nat /\ IsFiniteSet(OnSite)
  BY PricesAssumption, FS_Subset DEF OnSite
<1>2. ASSUME NEW p \in First(n), NEW q \in OnSite, q <= p
      PROVE  q \in First(n)
  <2>1. p \in OnSite /\ Cardinality(Below(p)) < n
    BY DEF First
  <2>2. Below(q) \subseteq Below(p) /\ Below(p) \subseteq OnSite
    <3>1. p \in Nat /\ q \in Nat /\ q <= p
      BY <1>1, <1>2, <2>1
    <3>2. \A r \in Nat : r < q => r < p
      BY <3>1
    <3>3. QED
      BY <1>1, <3>2
  <2> HIDE DEF Below
  <2>3. IsFiniteSet(Below(p)) /\ IsFiniteSet(Below(q))
    BY <1>1, <2>2, FS_Subset
  <2>4. /\ Cardinality(Below(q)) <= Cardinality(Below(p))
        /\ Cardinality(Below(q)) \in Nat /\ Cardinality(Below(p)) \in Nat
    BY <2>2, <2>3, FS_Subset, FS_CardinalityType
  <2>5. Cardinality(Below(q)) < n
    BY <2>1, <2>4
  <2>6. QED
    BY <2>5 DEF First, Below
<1>3. QED
  BY <1>2 DEF FromCheapest, First

LEMMA BothAreCheapest ==
  ASSUME NEW n \in Nat, NEW m \in Nat
  PROVE  FromCheapest(First(n) \cap First(m))
BY FirstAreCheapest DEF FromCheapest

LEMMA CheapestOfFound ==
  ASSUME NEW found, found \subseteq OnSite, found # {}, NEW label
  PROVE  LET r == CheapestOf(found, label)
         IN /\ r.price \in found /\ \A p \in found : r.price <= p
            /\ r.stops = site[r.price] /\ r.label = label
            /\ r = [price |-> r.price, stops |-> r.stops, label |-> label]
<1>1. \E p \in found : \A q \in found : p <= q
  BY LeastExists, PricesAssumption DEF OnSite
<1>2. QED
  BY <1>1 DEF CheapestOf

(***************************************************************************)
(* The fallback order.                                                     *)
(***************************************************************************)

Limit(n) == Rounds(trip, limit)[n].max
Label(n) == Rounds(trip, limit)[n].label

LEMMA AskedFacts ==
  Asked("1 stop") = 1 /\ Asked("2 stop") = 2 /\ Asked("direct") = 0 /\ Asked("none") = limit
BY DEF Asked

LEMMA FallbackFacts ==
  /\ FallbackOrder[1].max = 1 /\ FallbackOrder[1].label = "1 stop"
  /\ FallbackOrder[2].max = 2 /\ FallbackOrder[2].label = "2 stop"
  /\ FallbackOrder[3].max = 0 /\ FallbackOrder[3].label = "direct"
<1>1. FallbackOrder[1].max = 1 /\ FallbackOrder[1].label = "1 stop"
  BY DEF FallbackOrder
<1>2. FallbackOrder[2].max = 2 /\ FallbackOrder[2].label = "2 stop"
  BY DEF FallbackOrder
<1>3. FallbackOrder[3].max = 0 /\ FallbackOrder[3].label = "direct"
  BY DEF FallbackOrder
<1>4. QED
  BY <1>1, <1>2, <1>3

LEMMA RoundFacts ==
  ASSUME limit \in Limits
  PROVE  /\ Len(Rounds(trip, limit)) \in {1, 3}
         /\ \A n \in 1 .. Len(Rounds(trip, limit)) :
              /\ Limit(n) \in Limits /\ Limit(n) = Asked(Label(n))
              /\ Label(n) \in {"none", "1 stop", "2 stop", "direct"}
              /\ Label(n) = "2 stop" => n = 2 /\ Limit(1) = 1
              /\ Label(n) = "direct" => n = 3 /\ Limit(1) = 1 /\ Limit(3) = 0
<1>1. CASE trip = "multi_city" \/ limit = 3
  <2>1. Rounds(trip, limit) = FallbackOrder /\ Len(FallbackOrder) = 3
    BY <1>1 DEF Rounds, FallbackOrder
  <2>2. /\ Limit(1) = 1 /\ Label(1) = "1 stop" /\ Limit(2) = 2 /\ Label(2) = "2 stop"
        /\ Limit(3) = 0 /\ Label(3) = "direct"
    <3>1. \A n : Limit(n) = FallbackOrder[n].max /\ Label(n) = FallbackOrder[n].label
      BY <2>1 DEF Limit, Label
    <3>2. QED
      BY <3>1, FallbackFacts
  <2>3. {0, 1, 2} \subseteq Limits
    BY DEF Limits, NoLimit
  <2>4. ASSUME NEW n \in 1 .. 3
        PROVE  /\ Limit(n) \in Limits /\ Limit(n) = Asked(Label(n))
               /\ Label(n) \in {"none", "1 stop", "2 stop", "direct"}
               /\ Label(n) = "2 stop" => n = 2 /\ Limit(1) = 1
               /\ Label(n) = "direct" => n = 3 /\ Limit(1) = 1 /\ Limit(3) = 0
    <3>1. n = 1 \/ n = 2 \/ n = 3
      OBVIOUS
    <3>2. QED
      BY <2>2, <2>3, <3>1, AskedFacts
  <2>5. QED
    BY <2>1, <2>4
<1>2. CASE ~(trip = "multi_city" \/ limit = 3)
  <2>1. Rounds(trip, limit) = <<[max |-> limit, label |-> "none"]>>
    BY <1>2 DEF Rounds
  <2>2. Len(Rounds(trip, limit)) = 1 /\ Limit(1) = limit /\ Label(1) = "none"
    BY <2>1 DEF Limit, Label
  <2>3. \A n \in 1 .. Len(Rounds(trip, limit)) : n = 1
    BY <2>2
  <2>4. QED
    BY <2>2, <2>3, AskedFacts
<1>3. QED
  BY <1>1, <1>2

(***************************************************************************)
(* What a search concludes.                                                 *)
(***************************************************************************)

(* The invariant: what the limits before the current one admit was missed,     *)
(* unless the offers have changed; a log with entries has the last one.       *)
NothingBefore ==
  stage # "idle" /\ ~moved =>
    \A n \in 1 .. round - 1 : Eligible(OnSite, Limit(n)) \subseteq missed

LastIsLogged == recent # {} => last \in recent

Inv == TypeOK /\ NothingBefore /\ LastIsLogged

(* What a step of a search at some limit may have found: the eligible offers of *)
(* a pass that sees the cheapest.                                           *)
Searched(seen) == FromCheapest(seen) /\ Conclude(Eligible(seen, Limit(round)))

LEMMA BringSearches ==
  ASSUME NEW seen, FromCheapest(seen), Bring(seen)
  PROVE  Searched(seen) /\ missed' = missed \cup (OnSite \ seen)
BY DEF Bring, Searched, Limit

LEMMA AsksSearch ==
  ASSUME TypeOK
  PROVE  /\ \A n \in Nat : AskSimple(n) \/ AskDeep(n) =>
              \E seen : Searched(seen) /\ missed' = missed \cup (OnSite \ seen)
         /\ \A n \in Nat : AskFast(n) =>
              \/ /\ stage' = "deep" /\ UNCHANGED <<round, stored, recent, last>>
              \/ \E seen : Searched(seen) /\ Eligible(seen, Limit(round)) # {}
<1>1. ASSUME NEW n \in Nat, AskSimple(n)
      PROVE  \E seen : Searched(seen) /\ missed' = missed \cup (OnSite \ seen)
  BY <1>1, FirstAreCheapest, BringSearches DEF AskSimple
<1>2. ASSUME NEW n \in Nat, AskDeep(n)
      PROVE  \E seen : Searched(seen) /\ missed' = missed \cup (OnSite \ seen)
  <2> DEFINE seen == First(n) \cap First(DeepLimit)
  <2>1. FromCheapest(seen) /\ Bring(seen)
    BY <1>2, BothAreCheapest, LimitsAssumption DEF AskDeep
  <2> HIDE DEF seen
  <2>2. QED
    BY <2>1, BringSearches
<1>3. ASSUME NEW n \in Nat, AskFast(n)
      PROVE  \/ /\ stage' = "deep" /\ UNCHANGED <<round, stored, recent, last>>
             \/ \E seen : Searched(seen) /\ Eligible(seen, Limit(round)) # {}
  <2> DEFINE seen == First(n) \cap First(FastLimit)
  <2>1. FromCheapest(seen)
    BY BothAreCheapest, LimitsAssumption
  <2>2. CASE NeedsDeepPass(seen, First(n), Limit(round))
    BY <1>3, <2>2 DEF AskFast, Limit
  <2>3. CASE ~NeedsDeepPass(seen, First(n), Limit(round))
    <3>1. Conclude(Eligible(seen, Limit(round)))
      BY <1>3, <2>3 DEF AskFast, Limit
    <3>2. Eligible(seen, Limit(round)) # {}
      BY <2>3 DEF NeedsDeepPass
    <3> HIDE DEF seen
    <3>3. QED
      BY <2>1, <3>1, <3>2 DEF Searched
  <2>4. QED
    BY <2>2, <2>3
<1>4. QED
  BY <1>1, <1>2, <1>3

(* A pass that finds anything stores the cheapest there is under its limit.   *)
LEMMA SearchStores ==
  ASSUME TypeOK, NEW seen, Searched(seen), Stores
  PROVE  /\ \E p \in seen : site[p] <= Limit(round)
         /\ stored'.label = Label(round) /\ stored'.price \in OnSite
         /\ site[stored'.price] = stored'.stops /\ stored'.stops <= Limit(round)
         /\ \A p \in OnSite : site[p] <= Limit(round) => stored'.price <= p
<1> DEFINE found == Eligible(seen, Limit(round))
<1>1. found # {} /\ stored' = CheapestOf(found, Label(round))
  BY DEF Searched, Conclude, Stores, Label
<1>2. seen \subseteq OnSite /\ \A p \in seen : \A q \in OnSite : q <= p => q \in seen
  BY DEF Searched, FromCheapest
<1>3. found \subseteq seen /\ \A p \in seen : p \in found <=> site[p] <= Limit(round)
  BY DEF Eligible
<1> HIDE DEF found
<1>4. /\ stored'.price \in found /\ \A p \in found : stored'.price <= p
      /\ stored'.stops = site[stored'.price] /\ stored'.label = Label(round)
  BY <1>1, <1>2, <1>3, CheapestOfFound
<1>5. ASSUME NEW p \in OnSite, site[p] <= Limit(round)
      PROVE  stored'.price <= p
  <2>1. p \in Nat /\ stored'.price \in Nat
    BY <1>2, <1>3, <1>4, PricesAssumption DEF OnSite
  <2>2. CASE p \in seen
    BY <1>3, <1>4, <1>5, <2>2
  <2>3. CASE p \notin seen
    <3>1. ~(p <= stored'.price)
      BY <1>2, <1>3, <1>4, <2>3
    <3>2. QED
      BY <2>1, <3>1
  <2>4. QED
    BY <2>2, <2>3
<1>6. QED
  BY <1>2, <1>3, <1>4, <1>5

(* Only a search stores a price. *)
LEMMA StoresSearches ==
  ASSUME TypeOK, [Next]_vars, Stores
  PROVE  \E seen : Searched(seen) /\ stage # "idle"
<1>1. stored' # stored /\ stored' # Nothing
  BY DEF Stores
<1>2. \E n \in 0 .. Cardinality(Prices) : AskSimple(n) \/ AskDeep(n) \/ AskFast(n)
  BY <1>1 DEF Next, vars, BeginCall, Fail, Cancel, SiteChanges, HourPasses, PurgeLog, Clear
<1>3. PICK n \in Nat : AskSimple(n) \/ AskDeep(n) \/ AskFast(n)
  BY <1>2
<1>4. CASE AskSimple(n) \/ AskDeep(n)
  BY <1>4, AsksSearch DEF AskSimple, AskDeep
<1>5. CASE AskFast(n)
  BY <1>1, <1>5, AsksSearch DEF AskFast
<1>6. QED
  BY <1>3, <1>4, <1>5

(***************************************************************************)
(* The invariant.                                                          *)
(***************************************************************************)

(* A search that found something ends the call, one that found nothing asks    *)
(* with the next limit, if there is one.                                    *)
LEMMA SearchMoves ==
  ASSUME TypeOK, NEW seen, Searched(seen)
  PROVE  /\ stored' \in [price : Prices \cup {0}, stops : 0 .. 3,
                          label : {"none", "1 stop", "2 stop", "direct"}]
         /\ \/ /\ stage' = "idle" /\ round' = 1
               /\ last' \in Good /\ recent' = recent \cup {last'}
            \/ /\ stage' = "ask" /\ round' = round + 1 /\ round < Len(Rounds(trip, limit))
               /\ Eligible(seen, Limit(round)) = {} /\ UNCHANGED <<stored, recent, last>>
<1> DEFINE found == Eligible(seen, Limit(round))
<1>1. Conclude(found) /\ found \subseteq OnSite
  BY DEF Searched, FromCheapest, Eligible
<1>2. CASE found # {}
  <2>1. /\ stored' = CheapestOf(found, Label(round))
        /\ Logged("success") /\ stage' = "idle" /\ round' = 1
    BY <1>1, <1>2 DEF Conclude, Label
  <2>2. Label(round) \in {"none", "1 stop", "2 stop", "direct"}
    BY RoundFacts DEF TypeOK
  <2> HIDE DEF found
  <2>3. /\ stored'.price \in found /\ stored'.stops = site[stored'.price]
        /\ stored' = [price |-> stored'.price, stops |-> stored'.stops, label |-> Label(round)]
    BY <1>1, <1>2, <2>1, CheapestOfFound
  <2>4. stored'.price \in Prices /\ stored'.stops \in 0 .. 3
    BY <1>1, <2>3 DEF OnSite, TypeOK, Sites
  <2>5. PICK p \in Prices, n \in 0 .. 3 :
          stored' = [price |-> p, stops |-> n, label |-> Label(round)]
    BY <2>3, <2>4, Zenon
  <2>6. stored' \in [price : Prices \cup {0}, stops : 0 .. 3,
                     label : {"none", "1 stop", "2 stop", "direct"}]
    BY <2>2, <2>5
  <2>7. last' = "success" /\ recent' = recent \cup {last'}
    BY <2>1 DEF Logged
  <2>8. QED
    BY <2>1, <2>6, <2>7 DEF Good
<1>3. CASE found = {} /\ round < Len(Rounds(trip, limit))
  BY <1>1, <1>3 DEF Conclude, TypeOK
<1>4. CASE found = {} /\ ~(round < Len(Rounds(trip, limit)))
  BY <1>1, <1>4 DEF Conclude, Logged, Good, TypeOK
<1>5. QED
  BY <1>2, <1>3, <1>4

LEMMA SearchKeeps ==
  ASSUME Inv, NEW seen, Searched(seen), UNCHANGED <<site, trip, limit, moved>>,
         stage # "idle", missed' \subseteq Prices, missed \subseteq missed',
         Eligible(seen, Limit(round)) = {} => OnSite \ seen \subseteq missed'
  PROVE  Inv'
<1>1. TypeOK /\ NothingBefore /\ LastIsLogged
  BY DEF Inv
<1>2. round \in 1 .. Len(Rounds(trip, limit)) /\ Len(Rounds(trip, limit)) \in {1, 3}
  BY <1>1, RoundFacts DEF TypeOK
<1>3. Rounds(trip, limit)' = Rounds(trip, limit)
  BY DEF Rounds, FallbackOrder
<1>4. CASE stage' = "idle" /\ round' = 1 /\ last' \in Good /\ recent' = recent \cup {last'}
  <2>1. TypeOK'
    <3>1. stored' \in [price : Prices \cup {0}, stops : 0 .. 3,
                       label : {"none", "1 stop", "2 stop", "direct"}]
      BY <1>1, SearchMoves
    <3>2. round' \in 1 .. Len(Rounds(trip, limit)')
      BY <1>2, <1>3, <1>4
    <3>3. recent' \subseteq Good \cup Worst /\ last' \in Good \cup Worst \cup {Never}
      BY <1>1, <1>4 DEF TypeOK
    <3>4. site' \in Sites /\ trip' \in Trips /\ limit' \in Limits /\ moved' \in BOOLEAN
      BY <1>1, Zenon DEF TypeOK
    <3>5. QED
      BY <3>1, <3>2, <3>3, <3>4, <1>4, Zenon DEF TypeOK
  <2>2. QED
    BY <2>1, <1>4 DEF Inv, NothingBefore, LastIsLogged
<1>5. CASE /\ stage' = "ask" /\ round' = round + 1 /\ round < Len(Rounds(trip, limit))
           /\ Eligible(seen, Limit(round)) = {} /\ UNCHANGED <<recent, last>>
  <2>1. TypeOK'
    <3>1. stored' \in [price : Prices \cup {0}, stops : 0 .. 3,
                       label : {"none", "1 stop", "2 stop", "direct"}]
      BY <1>1, SearchMoves
    <3>2. round' \in 1 .. Len(Rounds(trip, limit)')
      BY <1>2, <1>3, <1>5
    <3>3. recent' \subseteq Good \cup Worst /\ last' \in Good \cup Worst \cup {Never}
      BY <1>1, <1>5 DEF TypeOK
    <3>4. site' \in Sites /\ trip' \in Trips /\ limit' \in Limits /\ moved' \in BOOLEAN
      BY <1>1, Zenon DEF TypeOK
    <3>5. QED
      BY <3>1, <3>2, <3>3, <3>4, <1>5, Zenon DEF TypeOK
  <2>2. OnSite' = OnSite /\ \A n : Limit(n)' = Limit(n)
    BY <1>3 DEF OnSite, Limit
  <2>3. \A n : Eligible(OnSite, Limit(n))' = Eligible(OnSite, Limit(n))
    BY <2>2 DEF Eligible
  <2>4. ASSUME ~moved', NEW n \in 1 .. round' - 1
        PROVE  Eligible(OnSite, Limit(n))' \subseteq missed'
    <3>1. n = round \/ n \in 1 .. round - 1
      BY <1>2, <1>5
    <3>2. CASE n = round
      <4>1. Eligible(OnSite, Limit(round)) \subseteq OnSite \ seen
        BY <1>5 DEF Eligible
      <4>2. QED
        BY <1>5, <2>3, <3>2, <4>1
    <3>3. CASE n \in 1 .. round - 1
      BY <1>1, <1>5, <2>3, <2>4, <3>3 DEF NothingBefore
    <3>4. QED
      BY <3>1, <3>2, <3>3
  <2>5. NothingBefore'
    BY <2>4 DEF NothingBefore
  <2>6. LastIsLogged'
    BY <1>1, <1>5 DEF LastIsLogged
  <2>7. QED
    BY <2>1, <2>5, <2>6 DEF Inv
<1>6. QED
  BY <1>1, <1>4, <1>5, SearchMoves

LEMMA NothingFacts ==
  Nothing \in [price : Prices \cup {0}, stops : 0 .. 3,
               label : {"none", "1 stop", "2 stop", "direct"}]
BY DEF Nothing

LEMMA InitInv ==
  Init => Inv
<1>1. ASSUME Init
      PROVE  TypeOK
  <2>1. Len(Rounds(trip, limit)) \in {1, 3}
    BY <1>1, RoundFacts DEF Init
  <2>2. Nothing \in [price : Prices \cup {0}, stops : 0 .. 3,
                     label : {"none", "1 stop", "2 stop", "direct"}]
    BY NothingFacts
  <2>3. round \in 1 .. Len(Rounds(trip, limit))
    BY <1>1, <2>1 DEF Init
  <2>4. QED
    BY <1>1, <2>2, <2>3, Zenon DEF Init, TypeOK
<1>2. QED
  BY <1>1 DEF Init, Inv, NothingBefore, LastIsLogged

LEMMA NextInv ==
  Inv /\ [Next]_vars => Inv'
<1> SUFFICES ASSUME Inv, [Next]_vars
             PROVE  Inv'
  OBVIOUS
<1>1. TypeOK /\ NothingBefore /\ LastIsLogged
  BY DEF Inv
<1>2. 1 \in 1 .. Len(Rounds(trip, limit))
  <2>1. Len(Rounds(trip, limit)) \in {1, 3}
    BY <1>1, RoundFacts DEF TypeOK
  <2>2. QED
    BY <2>1
<1>3. ASSUME UNCHANGED <<trip, limit>>
      PROVE  Rounds(trip, limit)' = Rounds(trip, limit)
  BY <1>3 DEF Rounds, FallbackOrder
<1>4. ASSUME UNCHANGED <<site, trip, limit>>
      PROVE  \A n : Eligible(OnSite, Limit(n))' = Eligible(OnSite, Limit(n))
  BY <1>3, <1>4 DEF Eligible, OnSite, Limit
<1>5. ASSUME BeginCall
      PROVE  Inv'
  <2>1. TypeOK'
    BY <1>1, <1>2, <1>3, <1>5 DEF BeginCall, TypeOK
  <2>2. NothingBefore' /\ LastIsLogged'
    BY <1>1, <1>5 DEF BeginCall, NothingBefore, LastIsLogged
  <2>3. QED
    BY <2>1, <2>2 DEF Inv
<1>6. ASSUME NEW n \in 0 .. Cardinality(Prices), AskSimple(n) \/ AskDeep(n)
      PROVE  Inv'
  <2>1. n \in Nat /\ stage # "idle" /\ UNCHANGED <<site, trip, limit, moved>>
    BY <1>6 DEF AskSimple, AskDeep, Bring
  <2>2. PICK seen : Searched(seen) /\ missed' = missed \cup (OnSite \ seen)
    BY <1>1, <1>6, <2>1, AsksSearch
  <2>3. missed' \subseteq Prices
    BY <1>1, <2>2 DEF TypeOK, OnSite
  <2>4. QED
    BY <2>1, <2>2, <2>3, SearchKeeps
<1>7. ASSUME NEW n \in 0 .. Cardinality(Prices), AskFast(n)
      PROVE  Inv'
  <2>1. n \in Nat /\ stage = "ask" /\ UNCHANGED <<site, trip, limit, moved, missed>>
    BY <1>7 DEF AskFast
  <2>2. CASE stage' = "deep" /\ UNCHANGED <<round, stored, recent, last>>
    <3>1. TypeOK'
      BY <1>1, <1>3, <2>1, <2>2 DEF TypeOK
    <3>2. NothingBefore'
      BY <1>1, <1>4, <2>1, <2>2 DEF NothingBefore
    <3>3. QED
      BY <1>1, <2>2, <3>1, <3>2 DEF Inv, LastIsLogged
  <2>3. CASE \E seen : Searched(seen) /\ Eligible(seen, Limit(round)) # {}
    BY <1>1, <2>1, <2>3, SearchKeeps DEF TypeOK
  <2>4. QED
    BY <1>1, <1>7, <2>1, <2>2, <2>3, AsksSearch
<1>8. ASSUME PurgeLog
      PROVE  Inv'
  <2>1. TypeOK' /\ LastIsLogged'
    BY <1>1, <1>3, <1>8 DEF PurgeLog, TypeOK, LastIsLogged
  <2>2. NothingBefore'
    BY <1>1, <1>4, <1>8 DEF PurgeLog, NothingBefore
  <2>3. QED
    BY <2>1, <2>2 DEF Inv
<1>9. ASSUME Fail
      PROVE  Inv'
  BY <1>1, <1>2, <1>3, <1>9
     DEF Fail, Logged, Inv, TypeOK, NothingBefore, LastIsLogged
<1>10. ASSUME Cancel
       PROVE  Inv'
  BY <1>1, <1>2, <1>3, <1>10 DEF Cancel, Inv, TypeOK, NothingBefore, LastIsLogged
<1>11. ASSUME SiteChanges
       PROVE  Inv'
  BY <1>1, <1>3, <1>11 DEF SiteChanges, Inv, TypeOK, NothingBefore, LastIsLogged
<1>12. ASSUME HourPasses
       PROVE  Inv'
  <2>1. TypeOK' /\ LastIsLogged'
    BY <1>1, <1>3, <1>12 DEF HourPasses, TypeOK, LastIsLogged
  <2>2. NothingBefore'
    BY <1>1, <1>4, <1>12 DEF HourPasses, NothingBefore
  <2>3. QED
    BY <2>1, <2>2 DEF Inv
<1>13. ASSUME Clear
       PROVE  Inv'
  <2>1. TypeOK' /\ LastIsLogged'
    BY <1>1, <1>3, <1>13, NothingFacts DEF Clear, TypeOK, LastIsLogged
  <2>2. NothingBefore'
    BY <1>1, <1>4, <1>13 DEF Clear, NothingBefore
  <2>3. QED
    BY <2>1, <2>2 DEF Inv
<1>14. ASSUME UNCHANGED vars
       PROVE  Inv'
  <2>1. TypeOK' /\ LastIsLogged'
    BY <1>1, <1>3, <1>14 DEF vars, TypeOK, LastIsLogged
  <2>2. NothingBefore'
    BY <1>1, <1>4, <1>14 DEF vars, NothingBefore
  <2>3. QED
    BY <2>1, <2>2 DEF Inv
<1>15. QED
  BY <1>5, <1>6, <1>7, <1>8, <1>9, <1>10, <1>11, <1>12, <1>13, <1>14 DEF Next

LEMMA Invariance ==
  Spec => []Inv
BY InitInv, NextInv, PTL DEF Spec

(***************************************************************************)
(* Theorems.                                                               *)
(***************************************************************************)

(* Every variable has its type: whatever a call does, the log holds only       *)
(* statuses the health summary knows, and a fallback never runs past its       *)
(* order (collect_single_date).                                             *)
THEOREM TypeCorrect ==
  Spec => []TypeOK
<1>1. Inv => TypeOK
  BY DEF Inv
<1>2. QED
  BY <1>1, Invariance, PTL

(* Of the offers within the limit that was asked for, the cheapest there is is *)
(* the one stored, however many cards the two passes see                     *)
(* (_search_multi_city_once, _insert_results).                              *)
THEOREM CheapestIsBestHolds ==
  Spec => CheapestIsBest
<1>1. ASSUME Inv, [Next]_vars, Stores
      PROVE  /\ site[stored'.price] = stored'.stops /\ stored'.stops <= Asked(stored'.label)
             /\ \A p \in OnSite : site[p] <= Asked(stored'.label) => stored'.price <= p
  <2>1. TypeOK
    BY <1>1 DEF Inv
  <2>2. PICK seen : Searched(seen)
    BY <1>1, <2>1, StoresSearches
  <2>3. Limit(round) = Asked(Label(round))
    BY <2>1, RoundFacts DEF TypeOK
  <2>4. QED
    BY <1>1, <2>1, <2>2, <2>3, SearchStores
<1>2. Inv /\ [Next]_vars =>
        [Stores =>
           /\ site[stored'.price] = stored'.stops /\ stored'.stops <= Asked(stored'.label)
           /\ \A p \in OnSite : site[p] <= Asked(stored'.label) => stored'.price <= p]_vars
  BY <1>1
<1>3. QED
  BY <1>2, Invariance, PTL DEF Spec, CheapestIsBest

(* When the offers stay as they are, "2 stop (1 stop unavailable)" passes over  *)
(* an offer of one stop or less, and "Direct" over a direct flight, only if a  *)
(* request for all offers did not bring it (_search_one_way_with_fallback and *)
(* its siblings).                                                          *)
THEOREM LabelIsTrueHolds ==
  Spec => LabelIsTrue
<1>1. ASSUME Inv, [Next]_vars, Stores, ~moved
      PROVE  /\ stored'.label = "2 stop" => \A p \in OnSite : site[p] <= 1 => p \in missed
             /\ stored'.label = "direct" => stored'.price \in missed
  <2>1. TypeOK /\ NothingBefore
    BY <1>1 DEF Inv
  <2>2. PICK seen : Searched(seen) /\ stage # "idle"
    BY <1>1, <2>1, StoresSearches
  <2>3. /\ stored'.label = Label(round) /\ stored'.price \in OnSite
        /\ site[stored'.price] = stored'.stops /\ stored'.stops <= Limit(round)
    BY <1>1, <2>1, <2>2, SearchStores
  <2>4. /\ round \in 1 .. Len(Rounds(trip, limit))
        /\ Label(round) = "2 stop" => round = 2 /\ Limit(1) = 1
        /\ Label(round) = "direct" => round = 3 /\ Limit(1) = 1 /\ Limit(3) = 0
    BY <2>1, RoundFacts DEF TypeOK
  <2>5. ASSUME round \in {2, 3}, Limit(1) = 1, NEW p \in OnSite, site[p] <= 1
        PROVE  p \in missed
    <3>1. 1 \in 1 .. round - 1
      BY <2>5
    <3>2. Eligible(OnSite, Limit(1)) \subseteq missed
      BY <1>1, <2>1, <2>2, <3>1 DEF NothingBefore
    <3>3. QED
      BY <2>5, <3>2 DEF Eligible
  <2>6. ASSUME stored'.label = "direct"
        PROVE  stored'.price \in missed
    <3>1. round = 3 /\ Limit(1) = 1 /\ Limit(3) = 0
      BY <2>3, <2>4, <2>6
    <3>2. site[stored'.price] <= 0 /\ site[stored'.price] \in 0 .. 3
      BY <2>1, <2>3, <3>1 DEF TypeOK, Sites, OnSite
    <3>3. QED
      BY <2>3, <2>5, <3>1, <3>2
  <2>7. ASSUME stored'.label = "2 stop", NEW p \in OnSite, site[p] <= 1
        PROVE  p \in missed
    <3>1. round = 2 /\ Limit(1) = 1
      BY <2>3, <2>4, <2>7
    <3>2. QED
      BY <2>5, <2>7, <3>1
  <2>8. QED
    BY <2>6, <2>7
<1>2. Inv /\ [Next]_vars =>
        [Stores /\ ~moved =>
           /\ stored'.label = "2 stop" => \A p \in OnSite : site[p] <= 1 => p \in missed
           /\ stored'.label = "direct" => stored'.price \in missed]_vars
  BY <1>1
<1>3. QED
  BY <1>2, Invariance, PTL DEF Spec, LabelIsTrue

(* The most serious status is one of the statuses. *)
LEMMA WorstOfFacts ==
  ASSUME NEW S, S \cap Worst # {}
  PROVE  WorstOf(S) \in Worst
<1> DEFINE ranks == {Rank(e) : e \in S \cap Worst}
<1>1. ASSUME NEW e \in Worst
      PROVE  Rank(e) \in Nat
  <2>1. PICK i \in DOMAIN Errors : Errors[i] = e
    BY DEF Worst
  <2>2. Rank(e) \in DOMAIN Errors
    BY <2>1 DEF Rank
  <2>3. QED
    BY <2>2, ErrorsAssumption
<1>2. ranks \subseteq Nat /\ ranks # {}
  BY <1>1
<1>3. PICK r \in ranks : \A q \in ranks : r <= q
  BY <1>2, LeastExists
<1>4. \E e \in S \cap Worst : \A f \in S \cap Worst : Rank(e) <= Rank(f)
  BY <1>3
<1>5. QED
  BY <1>4 DEF WorstOf

(* Health, of any log and prices. *)
HealthOf(log, attempt, price) ==
  LET successes == log \cap Good # {} IN
  CASE attempt = Never /\ price = Nothing -> "never_scraped"
    [] attempt = Never /\ price # Nothing -> "ok"
    [] attempt # Never /\ ~successes /\ log \cap Worst # {} -> WorstOf(log)
    [] attempt # Never /\ ~successes /\ log \cap Worst = {} /\ attempt \notin Good ->
         IF attempt \in Worst THEN attempt ELSE "provider_error"
    [] OTHER -> "ok"

(* A group is unhealthy if the last hour has no success and the last attempt    *)
(* failed; without an attempt, if it has no prices.                          *)
Failing(log, attempt, price) ==
  /\ log \cap Good = {} /\ attempt \notin Good
  /\ attempt = Never => price = Nothing

LEMMA UnhealthyIsFailing ==
  ASSUME TypeOK, LastIsLogged, Health # "ok"
  PROVE  Failing(recent, last, stored)
<1>1. Never \notin Good \cup Worst
  BY ErrorsAssumption DEF Never, Good, Worst
<1>2. CASE last = Never
  <2>1. recent = {}
    BY <1>1, <1>2 DEF LastIsLogged, TypeOK
  <2>2. QED
    BY <1>1, <1>2, <2>1 DEF Health, Failing
<1>3. CASE last # Never
  <2>1. recent \cap Good = {}
    BY <1>3 DEF Health
  <2>2. recent \cap Worst # {} \/ last \notin Good
    BY <1>3, <2>1 DEF Health
  <2>3. last \notin Good
    BY <2>1, <2>2 DEF LastIsLogged
  <2>4. QED
    BY <1>3, <2>1, <2>3 DEF Failing
<1>4. QED
  BY <1>2, <1>3

LEMMA FailingIsUnhealthy ==
  ASSUME NEW log, NEW attempt, NEW price, Failing(log, attempt, price)
  PROVE  HealthOf(log, attempt, price) # "ok"
<1>1. "ok" \notin Worst /\ "provider_error" \in Worst
  BY ErrorsAssumption DEF Worst
<1>2. CASE attempt = Never
  BY <1>2 DEF HealthOf, Failing
<1>3. CASE attempt # Never /\ log \cap Worst # {}
  <2>1. HealthOf(log, attempt, price) = WorstOf(log)
    BY <1>3 DEF HealthOf, Failing
  <2>2. QED
    BY <1>1, <1>3, <2>1, WorstOfFacts
<1>4. CASE attempt # Never /\ log \cap Worst = {}
  <2>1. HealthOf(log, attempt, price) = IF attempt \in Worst THEN attempt ELSE "provider_error"
    BY <1>4 DEF HealthOf, Failing
  <2>2. QED
    BY <1>1, <2>1
<1>5. QED
  BY <1>2, <1>3, <1>4

(* Only a search that was answered makes a group healthy, or the purge that     *)
(* empties its log: as failures leave the last hour, it is judged by its last   *)
(* attempt (_compute_scrape_health, cleanup_old_data).                       *)
THEOREM HealsByAnswerHolds ==
  Spec => HealsByAnswer
<1> DEFINE Heals == \/ recent' \cap Good # {} /\ last' \in Good
                    \/ PurgeLog /\ stored # Nothing
<1>1. ASSUME Inv, [Next]_vars, Failing(recent, last, stored), ~Heals
      PROVE  Failing(recent', last', stored')
  <2>1. ASSUME NEW seen, Searched(seen)
        PROVE  Failing(recent', last', stored')
    <3>1. ~(last' \in Good /\ recent' = recent \cup {last'})
      BY <1>1
    <3>2. UNCHANGED <<stored, recent, last>>
      BY <1>1, <2>1, <3>1, SearchMoves DEF Inv
    <3>3. QED
      BY <1>1, <3>2
  <2>2. CASE \E n \in 0 .. Cardinality(Prices) : AskSimple(n) \/ AskDeep(n) \/ AskFast(n)
    <3>1. PICK n \in Nat : AskSimple(n) \/ AskDeep(n) \/ AskFast(n)
      BY <2>2
    <3>2. (\E seen : Searched(seen)) \/ UNCHANGED <<stored, recent, last>>
      BY <1>1, <3>1, AsksSearch DEF Inv
    <3>3. QED
      BY <1>1, <2>1, <3>2
  <2>3. CASE BeginCall \/ Cancel \/ SiteChanges \/ UNCHANGED vars
    BY <1>1, <2>3 DEF BeginCall, Cancel, SiteChanges, vars
  <2>4. CASE Fail
    <3>1. last' \in Worst /\ recent' = recent \cup {last'}
      BY <2>4 DEF Fail, Logged
    <3>2. last' \notin Good /\ last' # Never
      BY <3>1, ErrorsAssumption DEF Worst, Good, Never
    <3>3. QED
      BY <1>1, <3>1, <3>2 DEF Failing
  <2>5. CASE HourPasses
    BY <1>1, <2>5 DEF HourPasses, Failing
  <2>6. CASE PurgeLog
    BY <1>1, <2>6 DEF PurgeLog, Failing, Good, Never
  <2>7. CASE Clear
    BY <2>7 DEF Clear, Failing, Good, Never
  <2>8. QED
    BY <1>1, <2>2, <2>3, <2>4, <2>5, <2>6, <2>7 DEF Next
<1>2. Health' = HealthOf(recent', last', stored')
  BY DEF Health, HealthOf, WorstOf
<1>3. ASSUME Inv, [Next]_vars, Health # "ok", Health' = "ok"
      PROVE  Heals
  BY <1>1, <1>2, <1>3, UnhealthyIsFailing, FailingIsUnhealthy DEF Inv
<1>4. Inv /\ [Next]_vars => [Health # "ok" /\ Health' = "ok" => Heals]_vars
  BY <1>3
<1>5. QED
  BY <1>4, Invariance, PTL DEF Spec, HealsByAnswer
================================================================================
