-------------------------- MODULE GroupPlanningProofs --------------------------
(***************************************************************************)
(* Theorems about GroupPlanning, for any groups that creations and updates     *)
(* let through, any cap of the dates and any days.                          *)
(***************************************************************************)
EXTENDS GroupPlanning, FiniteSetTheorems, TLAPS

(***************************************************************************)
(* Counting the prices of a segment on a day.                               *)
(***************************************************************************)

LEMMA ListFacts ==
  ASSUME NEW s, IsList(s)
  PROVE  /\ Len(s) \in Nat /\ DOMAIN s = 1 .. Len(s)
         /\ IsFiniteSet(Elements(s)) /\ Cardinality(Elements(s)) <= Len(s)
<1>1. Len(s) \in Nat /\ DOMAIN s = 1 .. Len(s) /\ s \in [1 .. Len(s) -> Elements(s)]
  BY DEF IsList
<1>2. s \in Surjection(1 .. Len(s), Elements(s))
  BY <1>1 DEF Surjection, Elements
<1>3. IsFiniteSet(1 .. Len(s))
  BY <1>1, FS_Interval
<1>4. QED
  BY <1>1, <1>2, <1>3, FS_Surjection, FS_SurjCardinalityBound DEF ExistsSurjection

(* A day has one key for each destination, however often it is listed.        *)
LEMMA KeysOfADay ==
  ASSUME NEW s, IsList(s.destinations), NEW d
  PROVE  /\ IsFiniteSet(Keys(s, {d}))
         /\ Cardinality(Keys(s, {d})) = Cardinality(Elements(s.destinations))
<1> DEFINE E == Elements(s.destinations)
           f == [x \in E |-> <<s.origin, x, d>>]
<1>1. IsFiniteSet(E)
  BY ListFacts
<1>2. f \in Bijection(E, Keys(s, {d}))
  <2>1. f \in [E -> Keys(s, {d})]
    BY DEF Keys
  <2>2. \A x, y \in E : f[x] = f[y] => x = y
    OBVIOUS
  <2>3. \A key \in Keys(s, {d}) : \E x \in E : f[x] = key
    BY DEF Keys
  <2>4. QED
    BY <2>1, <2>2, <2>3 DEF Bijection, Injection, IsInjective, Surjection
<1> HIDE DEF E, f
<1>3. ExistsBijection(E, Keys(s, {d}))
  BY <1>2 DEF ExistsBijection
<1>4. QED
  BY <1>1, <1>3, FS_Bijection DEF E

(* Found and Incomplete, for any set of stored keys.                         *)
FoundIn(S, s, d) ==
  {key \in S : key[1] = s.origin /\ key[2] \in Elements(s.destinations) /\ key[3] = d}

IncompleteIn(S, s, d) ==
  s.destinations = <<>> \/ Cardinality(FoundIn(S, s, d)) < Len(s.destinations)

IsKeys(S) == \A key \in S : \E o, x, d : key = <<o, x, d>>

LEMMA FoundAmongKeys ==
  ASSUME NEW S, IsKeys(S), NEW s, IsList(s.destinations), NEW d
  PROVE  FoundIn(S, s, d) \subseteq Keys(s, {d}) /\ IsFiniteSet(FoundIn(S, s, d))
<1>1. FoundIn(S, s, d) \subseteq Keys(s, {d})
  BY DEF FoundIn, IsKeys, Keys
<1>2. QED
  BY <1>1, KeysOfADay, FS_Subset

(* A day with a price missing is not complete for any segment that asks for it. *)
LEMMA MissingIsIncomplete ==
  ASSUME NEW S, IsKeys(S), NEW s, IsList(s.destinations), NEW d,
         NEW key \in Keys(s, {d}), key \notin S
  PROVE  IncompleteIn(S, s, d)
<1> DEFINE K == Keys(s, {d})
           F == FoundIn(S, s, d)
<1>1. IsFiniteSet(K) /\ Cardinality(K) <= Len(s.destinations) /\ Len(s.destinations) \in Nat
  BY KeysOfADay, ListFacts
<1>2. F \subseteq K \ {key}
  BY FoundAmongKeys DEF FoundIn
<1> HIDE DEF K, F
<1>3. key \in K
  BY DEF K
<1>4. /\ IsFiniteSet(K \ {key}) /\ Cardinality(K \ {key}) = Cardinality(K) - 1
      /\ Cardinality(K) \in Nat
  BY <1>1, <1>3, FS_RemoveElement, FS_CardinalityType
<1>5. Cardinality(F) <= Cardinality(K \ {key}) /\ Cardinality(F) \in Nat
  BY <1>2, <1>4, FS_Subset, FS_CardinalityType
<1>6. Cardinality(F) < Len(s.destinations)
  BY <1>1, <1>4, <1>5
<1>7. QED
  BY <1>6 DEF IncompleteIn, F

(* One with all its prices is, if its segment lists each destination once.    *)
LEMMA StoredIsComplete ==
  ASSUME NEW S, IsKeys(S), NEW s, IsList(s.destinations), s.destinations # <<>>,
         ~Repeats(s), NEW d, Keys(s, {d}) \subseteq S
  PROVE  ~IncompleteIn(S, s, d)
<1>1. Keys(s, {d}) \subseteq FoundIn(S, s, d)
  BY DEF FoundIn, Keys
<1>2. FoundIn(S, s, d) = Keys(s, {d})
  BY <1>1, FoundAmongKeys
<1>3. Cardinality(FoundIn(S, s, d)) = Len(s.destinations)
  BY <1>2, KeysOfADay DEF Repeats
<1>4. QED
  BY <1>3, ListFacts DEF IncompleteIn

(* More prices never make a day incomplete.                                  *)
LEMMA StaysComplete ==
  ASSUME NEW S, NEW T, S \subseteq T, IsKeys(T), NEW s, IsList(s.destinations), NEW d,
         IncompleteIn(T, s, d)
  PROVE  IncompleteIn(S, s, d)
<1>0. IsFiniteSet(FoundIn(T, s, d))
  BY FoundAmongKeys
<1>1. FoundIn(S, s, d) \subseteq FoundIn(T, s, d) /\ IsFiniteSet(FoundIn(T, s, d))
  BY <1>0 DEF FoundIn
<1>2. /\ Cardinality(FoundIn(S, s, d)) <= Cardinality(FoundIn(T, s, d))
      /\ Cardinality(FoundIn(S, s, d)) \in Nat /\ Cardinality(FoundIn(T, s, d)) \in Nat
  BY <1>1, FS_Subset, FS_CardinalityType
<1>3. QED
  BY <1>2, ListFacts DEF IncompleteIn

(***************************************************************************)
(* Dates and segments of a group.                                           *)
(***************************************************************************)

LEMMA DatesFacts ==
  ASSUME NEW g, Storable(g), today \in Nat
  PROVE  /\ Dates(g) \in SUBSET Nat
         /\ IsFiniteSet(Dates(g)) /\ Cardinality(Dates(g)) <= MaxDates
<1> DEFINE first == Later(g.start_date, today)
           last == IF g.end_date # 0 THEN g.end_date ELSE first + Sooner(g.days_ahead, MaxDates)
           cap == first + MaxDates - 1
<1>1. first \in Nat
  BY DEF Storable, Later
<1>2. last \in Nat /\ MaxDates \in Nat \ {0}
  BY <1>1, DaysAssumption DEF Storable, Sooner
<1>3. Dates(g) = first .. Sooner(last, cap)
  BY DEF Dates
<1> HIDE DEF last
<1>4. cap \in Nat /\ Dates(g) \subseteq first .. cap
  BY <1>1, <1>2, <1>3 DEF Sooner
<1> HIDE DEF first
<1>5. IsFiniteSet(first .. cap) /\ Cardinality(first .. cap) = MaxDates
  BY <1>1, <1>2, <1>4, FS_Interval
<1>6. QED
  BY <1>1, <1>4, <1>5, FS_Subset

LEMMA SegmentSetFacts ==
  ASSUME NEW g, Storable(g)
  PROVE  /\ SegmentSet(g) =
              {[origin |-> o, destinations |-> g.destinations] : o \in Elements(g.origins)}
              \cup IF g.trip_type = "multi_city" THEN {} ELSE Elements(g.special_sheets)
         /\ \A s \in SegmentSet(g) : IsList(s.destinations)
<1> DEFINE a == [i \in DOMAIN g.origins |->
                   [origin |-> g.origins[i], destinations |-> g.destinations]]
           b == IF g.trip_type = "multi_city" THEN <<>> ELSE g.special_sheets
<1>1. /\ DOMAIN g.origins = 1 .. Len(g.origins) /\ Len(g.origins) \in Nat
      /\ DOMAIN g.special_sheets = 1 .. Len(g.special_sheets) /\ Len(g.special_sheets) \in Nat
  BY ListFacts DEF Storable
<1>2. a \in Seq(Elements(a)) /\ b \in Seq(Elements(b))
  <2>1. a \in Seq(Elements(a))
    <3>1. a \in [1 .. Len(g.origins) -> Elements(a)]
      BY <1>1 DEF Elements
    <3> HIDE DEF a
    <3>2. QED
      BY <1>1, <3>1
  <2>2. b \in Seq(Elements(b))
    BY DEF Storable, IsList, Elements
  <2>3. QED
    BY <2>1, <2>2
<1>3. Elements(a) = {[origin |-> o, destinations |-> g.destinations] : o \in Elements(g.origins)}
  BY DEF Elements
<1>4. Elements(b) = IF g.trip_type = "multi_city" THEN {} ELSE Elements(g.special_sheets)
  BY DEF Elements
<1>5. SegmentSet(g) = Elements(a \o b)
  BY DEF SegmentSet, Segments
<1>6. \A s \in Elements(a) \cup Elements(b) : IsList(s.destinations)
  <2>1. \A s \in Elements(a) : IsList(s.destinations)
    BY <1>3 DEF Storable
  <2>2. \A s \in Elements(b) : IsList(s.destinations)
    BY DEF Elements, Storable
  <2>3. QED
    BY <2>1, <2>2
<1> HIDE DEF a, b
<1>7. Elements(a \o b) = Elements(a) \cup Elements(b)
  <2>1. /\ Len(a) \in Nat /\ Len(b) \in Nat /\ DOMAIN a = 1 .. Len(a) /\ DOMAIN b = 1 .. Len(b)
        /\ DOMAIN (a \o b) = 1 .. Len(a) + Len(b)
    BY <1>2
  <2>2. \A i \in 1 .. Len(a) + Len(b) :
          (a \o b)[i] = IF i <= Len(a) THEN a[i] ELSE b[i - Len(a)]
    BY <1>2
  <2>3. Elements(a \o b) \subseteq Elements(a) \cup Elements(b)
    BY <2>1, <2>2 DEF Elements
  <2>4. Elements(a) \subseteq Elements(a \o b)
    BY <2>1, <2>2 DEF Elements
  <2>5. ASSUME NEW i \in DOMAIN b
        PROVE  b[i] \in Elements(a \o b)
    <3>1. Len(a) + i \in DOMAIN (a \o b) /\ (a \o b)[Len(a) + i] = b[i]
      BY <2>1, <2>2
    <3>2. QED
      BY <3>1 DEF Elements
  <2>6. QED
    BY <2>3, <2>4, <2>5 DEF Elements
<1>8. QED
  BY <1>3, <1>4, <1>5, <1>6, <1>7

(***************************************************************************)
(* The inductive invariant.                                                *)
(***************************************************************************)

(* A whole run still plans each day that is not complete, of every segment     *)
(* that can be.                                                            *)
WholeCovers ==
  whole =>
    \A s \in SegmentSet(group) : \A d \in Dates(group) :
      s.destinations # <<>> /\ ~Repeats(s) /\ IncompleteIn(stored, s, d) =>
        \E i \in DOMAIN planned : planned[i].segment = s /\ d \in planned[i].dates

(* A price without offers was left so by an edit or is old. *)
OffersStand == \A key \in stored \ bare : key \in offers \/ key[3] < today - Week

Inv == TypeOK /\ StoredBelongs /\ WholeCovers /\ OffersStand

LEMMA TypeFacts ==
  ASSUME TypeOK
  PROVE  /\ group \in Groups /\ Storable(group) /\ today \in Nat /\ IsKeys(stored)
         /\ \A key \in stored : key[3] \in Nat
         /\ \A s \in AllSegments : IsList(s.destinations)
         /\ SegmentSet(group) \subseteq AllSegments
<1>1. group \in Groups /\ Storable(group) /\ today \in Nat
  BY GroupsAssumption DEF TypeOK
<1>2. IsKeys(stored) /\ \A key \in stored : key[3] \in Nat
  BY DEF TypeOK, AsksFor, Keys, IsKeys
<1>3. \A s \in AllSegments : IsList(s.destinations)
  BY GroupsAssumption, SegmentSetFacts DEF AllSegments
<1>4. QED
  BY <1>1, <1>2, <1>3 DEF AllSegments

(* What a plan has for the segments it keeps.                                *)
LEMMA PlanFacts ==
  ASSUME TypeOK, NEW dates \in SUBSET Nat, IsFiniteSet(dates), Plan(dates)
  PROVE  /\ planned = NoPlan
         /\ \A i \in DOMAIN planned' :
              /\ planned'[i].segment \in SegmentSet(group)
              /\ planned'[i].dates \in SUBSET dates
              /\ \A d \in planned'[i].dates : IncompleteIn(stored, planned'[i].segment, d)
              /\ planned'[i] \in [segment : SegmentSet(group), dates : SUBSET Nat]
              /\ Cardinality(planned'[i].dates) \in 1 .. Cardinality(dates)
         /\ \A s \in SegmentSet(group) : \A d \in dates :
              IncompleteIn(stored, s, d) =>
                \E i \in DOMAIN planned' : planned'[i].segment = s /\ d \in planned'[i].dates
<1> DEFINE segments == Segments(group)
           left(i) == Remaining(segments[i], dates)
<1>1. /\ planned = NoPlan
      /\ planned' = [i \in {j \in DOMAIN segments : left(j) # {}} |->
                       [segment |-> segments[i], dates |-> left(i)]]
  BY DEF Plan
<1>2. \A i : left(i) = {d \in dates : IncompleteIn(stored, segments[i], d)}
  BY DEF Remaining, Incomplete, IncompleteIn, Found, FoundIn
<1>3. \A s : s \in SegmentSet(group) <=> \E i \in DOMAIN segments : s = segments[i]
  BY DEF SegmentSet, Elements
<1> HIDE DEF left, segments
<1>4. ASSUME NEW i \in DOMAIN planned'
      PROVE  /\ planned'[i].segment \in SegmentSet(group)
             /\ planned'[i].dates \in SUBSET dates
             /\ \A d \in planned'[i].dates : IncompleteIn(stored, planned'[i].segment, d)
             /\ planned'[i] \in [segment : SegmentSet(group), dates : SUBSET Nat]
             /\ Cardinality(planned'[i].dates) \in 1 .. Cardinality(dates)
  <2>1. /\ i \in DOMAIN segments /\ left(i) # {}
        /\ planned'[i] = [segment |-> segments[i], dates |-> left(i)]
    BY <1>1
  <2>2. segments[i] \in SegmentSet(group) /\ left(i) \in SUBSET dates
    BY <1>2, <1>3, <2>1
  <2>3. /\ IsFiniteSet(left(i)) /\ Cardinality(left(i)) \in Nat /\ Cardinality(dates) \in Nat
        /\ Cardinality(left(i)) <= Cardinality(dates) /\ Cardinality(left(i)) # 0
    BY <2>1, <2>2, FS_Subset, FS_CardinalityType, FS_EmptySet
  <2>4. Cardinality(left(i)) \in 1 .. Cardinality(dates)
    BY <2>3
  <2>5. planned'[i].segment = segments[i] /\ planned'[i].dates = left(i)
    BY <2>1
  <2>6. \A d \in left(i) : IncompleteIn(stored, segments[i], d)
    BY <1>2
  <2>7. left(i) \in SUBSET Nat
    BY <2>2
  <2>8. planned'[i] \in [segment : SegmentSet(group), dates : SUBSET Nat]
    BY <2>1, <2>2, <2>7
  <2>9. QED
    BY <2>2, <2>4, <2>5, <2>6, <2>8
<1>5. ASSUME NEW s \in SegmentSet(group), NEW d \in dates, IncompleteIn(stored, s, d)
      PROVE  \E i \in DOMAIN planned' : planned'[i].segment = s /\ d \in planned'[i].dates
  <2>1. PICK i \in DOMAIN segments : s = segments[i]
    BY <1>3
  <2>2. d \in left(i)
    BY <1>2, <1>5, <2>1
  <2>3. i \in DOMAIN planned' /\ planned'[i] = [segment |-> segments[i], dates |-> left(i)]
    BY <1>1, <2>2
  <2>4. QED
    BY <2>1, <2>2, <2>3
<1>6. QED
  BY <1>1, <1>4, <1>5

LEMMA PlanStep ==
  ASSUME Inv, NEW dates \in SUBSET Nat, IsFiniteSet(dates), Cardinality(dates) <= MaxDates,
         Plan(dates)
  PROVE  Inv'
<1>1. TypeOK /\ StoredBelongs /\ OffersStand
      /\ UNCHANGED <<group, today, stored, offers, outlived, bare>>
      /\ whole' = (dates = Dates(group))
  BY DEF Inv, Plan
<1>2. Cardinality(dates) \in Nat /\ MaxDates \in Nat
  BY FS_CardinalityType, DaysAssumption
<1>3. TypeOK'
  <2>1. ASSUME NEW i \in DOMAIN planned'
        PROVE  /\ planned'[i] \in [segment : AllSegments, dates : SUBSET Nat]
               /\ Cardinality(planned'[i].dates) \in 1 .. MaxDates
    <3>1. /\ planned'[i] \in [segment : SegmentSet(group), dates : SUBSET Nat]
          /\ Cardinality(planned'[i].dates) \in 1 .. Cardinality(dates)
      BY <1>1, PlanFacts
    <3>2. Cardinality(planned'[i].dates) \in 1 .. MaxDates
      BY <1>2, <3>1
    <3>3. SegmentSet(group) \subseteq AllSegments
      BY <1>1, TypeFacts
    <3>4. QED
      BY <3>1, <3>2, <3>3
  <2>2. whole' \in BOOLEAN
    BY <1>1
  <2>3. QED
    BY <1>1, <2>1, <2>2 DEF TypeOK
<1>4. StoredBelongs'
  BY <1>1 DEF StoredBelongs
<1>5. WholeCovers'
  <2> SUFFICES ASSUME whole', NEW s \in SegmentSet(group)', NEW d \in Dates(group)',
                      IncompleteIn(stored', s, d)
               PROVE  \E i \in DOMAIN planned' :
                        planned'[i].segment = s /\ d \in planned'[i].dates
    BY DEF WholeCovers, IncompleteIn, FoundIn
  <2>1. s \in SegmentSet(group) /\ d \in dates /\ IncompleteIn(stored, s, d)
    BY <1>1 DEF Dates, SegmentSet, Segments
  <2>2. \A r \in SegmentSet(group) : \A e \in dates :
          IncompleteIn(stored, r, e) =>
            \E i \in DOMAIN planned' : planned'[i].segment = r /\ e \in planned'[i].dates
    BY ONLY <1>1, PlanFacts, IsFiniteSet(dates), Plan(dates), dates \in SUBSET Nat
  <2>3. QED
    BY <2>1, <2>2
<1>6. OffersStand'
  BY <1>1 DEF OffersStand
<1>7. QED
  BY <1>3, <1>4, <1>5, <1>6 DEF Inv

LEMMA PlanningStep ==
  ASSUME Inv, PlanGroup \/ PlanDate
  PROVE  Inv'
<1>1. Storable(group) /\ today \in Nat
  BY TypeFacts DEF Inv
<1>2. CASE PlanGroup
  BY <1>1, <1>2, DatesFacts, PlanStep DEF PlanGroup
<1>3. CASE PlanDate
  <2>1. PICK d \in 1 .. LastDay + MaxDates : Plan({d})
    BY <1>3 DEF PlanDate
  <2>2. IsFiniteSet({d}) /\ Cardinality({d}) = 1
    BY FS_Singleton
  <2>3. d \in Nat /\ 1 <= MaxDates
    BY DaysAssumption
  <2>4. {d} \in SUBSET Nat /\ Cardinality({d}) <= MaxDates
    BY <2>2, <2>3
  <2>5. QED
    BY <2>1, <2>2, <2>4, PlanStep
<1>4. QED
  BY <1>2, <1>3

LEMMA CollectStep ==
  ASSUME Inv, NEW i \in DOMAIN planned, CollectSegment(i)
  PROVE  Inv'
<1> DEFINE s == planned[i].segment
           keys == Keys(s, planned[i].dates)
<1>1. PICK found \in SUBSET keys :
        /\ stored' = stored \cup found
        /\ offers' = offers \cup found
        /\ bare' = bare \ found
        /\ whole' = (whole /\ found = keys)
        /\ outlived' = (outlived \/ (found # {} /\ s \notin SegmentSet(group)))
  BY DEF CollectSegment
<1>2. /\ TypeOK /\ StoredBelongs /\ WholeCovers /\ OffersStand /\ UNCHANGED <<group, today>>
      /\ planned' = [j \in DOMAIN planned \ {i} |-> planned[j]]
  BY DEF Inv, CollectSegment
<1>3. s \in AllSegments /\ planned[i].dates \in SUBSET Nat
  BY <1>2 DEF TypeOK
<1> HIDE DEF s
<1>4. \A key \in found : AsksFor(s, key)
  BY <1>3 DEF AsksFor, Keys
<1>5. TypeOK'
  <2>1. \A key \in stored' : \E r \in AllSegments : AsksFor(r, key)
    BY <1>1, <1>2, <1>3, <1>4 DEF TypeOK
  <2>2. \A j \in DOMAIN planned' : j \in DOMAIN planned /\ planned'[j] = planned[j]
    BY <1>2
  <2>3. /\ whole' \in BOOLEAN /\ outlived' \in BOOLEAN
        /\ offers' \in SUBSET stored' /\ bare' \in SUBSET stored'
    BY <1>1, <1>2 DEF TypeOK
  <2>4. QED
    BY <1>2, <2>1, <2>2, <2>3 DEF TypeOK, AsksFor, Keys
<1>6. StoredBelongs'
  <2> SUFFICES ASSUME ~outlived'
               PROVE  \A key \in stored' : \E r \in SegmentSet(group) : AsksFor(r, key)
    BY <1>2 DEF StoredBelongs, SegmentSet, Segments, AsksFor, Keys
  <2>1. ~outlived /\ (found = {} \/ s \in SegmentSet(group))
    BY <1>1
  <2>2. QED
    BY <1>1, <1>2, <1>4, <2>1 DEF StoredBelongs
<1>7. WholeCovers'
  <2> SUFFICES ASSUME whole', NEW r \in SegmentSet(group)', NEW d \in Dates(group)',
                      r.destinations # <<>>, ~Repeats(r), IncompleteIn(stored', r, d)
               PROVE  \E j \in DOMAIN planned' :
                        planned'[j].segment = r /\ d \in planned'[j].dates
    BY DEF WholeCovers, IncompleteIn, FoundIn, Repeats
  <2>1. r \in SegmentSet(group) /\ d \in Dates(group) /\ whole /\ found = keys
    BY <1>1, <1>2 DEF Dates, SegmentSet, Segments
  <2>2. IsList(r.destinations) /\ IsKeys(stored')
    <3>1. IsList(r.destinations) /\ IsKeys(stored)
      BY <1>2, <2>1, TypeFacts
    <3>2. IsKeys(found)
      BY DEF IsKeys, Keys
    <3>3. QED
      BY <1>1, <3>1, <3>2 DEF IsKeys
  <2>3. IncompleteIn(stored, r, d)
    BY <1>1, <2>2, StaysComplete
  <2>4. PICK j \in DOMAIN planned : planned[j].segment = r /\ d \in planned[j].dates
    BY <1>2, <2>1, <2>3 DEF WholeCovers
  <2>5. j # i
    <3>1. SUFFICES ASSUME j = i PROVE FALSE
      OBVIOUS
    <3>2. Keys(r, {d}) \subseteq keys
      BY <2>4, <3>1 DEF Keys, s
    <3>3. Keys(r, {d}) \subseteq stored'
      BY <1>1, <2>1, <3>2
    <3>4. QED
      BY <2>2, <3>3, StoredIsComplete
  <2>6. QED
    BY <1>2, <2>4, <2>5
<1>8. OffersStand'
  BY <1>1, <1>2 DEF OffersStand
<1>9. QED
  BY <1>5, <1>6, <1>7, <1>8 DEF Inv

(* A clearing leaves only what a run that planned before stores under way.     *)
LEMMA ClearStep ==
  ASSUME TypeOK, NEW g, Clear(g)
  PROVE  /\ \A key \in stored' : \E s \in AllSegments : AsksFor(s, key)
         /\ offers' \in SUBSET stored' /\ bare' \in SUBSET stored' /\ outlived' \in BOOLEAN
         /\ stored' \ bare' \subseteq offers'
         /\ outlived' \/ \A key \in stored' : \E s \in SegmentSet(g) : AsksFor(s, key)
<1>1. CASE stored' = {} /\ offers' = {} /\ bare' = {} /\ outlived' = FALSE
  BY <1>1
<1>2. ASSUME NEW i \in DOMAIN planned,
             NEW late \in SUBSET Keys(planned[i].segment, planned[i].dates),
             /\ stored' = late /\ bare' \in SUBSET late /\ offers' = late \ bare'
             /\ outlived' = (planned[i].segment \notin SegmentSet(g))
      PROVE  /\ \A key \in stored' : \E s \in AllSegments : AsksFor(s, key)
             /\ offers' \in SUBSET stored' /\ bare' \in SUBSET stored' /\ outlived' \in BOOLEAN
             /\ stored' \ bare' \subseteq offers'
             /\ outlived' \/ \A key \in stored' : \E s \in SegmentSet(g) : AsksFor(s, key)
  <2>1. planned[i].segment \in AllSegments /\ planned[i].dates \in SUBSET Nat
    BY DEF TypeOK
  <2>2. \A key \in late : AsksFor(planned[i].segment, key)
    BY <2>1 DEF AsksFor, Keys
  <2>3. QED
    BY <1>2, <2>1, <2>2
<1>3. QED
  BY <1>1, <1>2 DEF Clear

LEMMA UpdateStep ==
  ASSUME Inv, UpdateGroup
  PROVE  Inv'
<1>1. PICK g \in Groups \ {group} :
        /\ group' = g
        /\ IF Identity(g) # Identity(group)
             THEN whole' = FALSE /\ Clear(g)
             ELSE UNCHANGED <<stored, offers, whole, outlived, bare>>
        /\ UNCHANGED <<today, planned>>
  BY DEF UpdateGroup
<1>2. TypeOK /\ StoredBelongs /\ WholeCovers /\ OffersStand
  BY DEF Inv
<1>3. ASSUME Identity(g) = Identity(group)
      PROVE  SegmentSet(g) = SegmentSet(group) /\ Dates(g) = Dates(group)
  <2>1. /\ g.origins = group.origins /\ g.destinations = group.destinations
        /\ g.special_sheets = group.special_sheets /\ g.trip_type = group.trip_type
        /\ g.start_date = group.start_date /\ g.end_date = group.end_date
        /\ g.days_ahead = group.days_ahead
    BY <1>3 DEF Identity
  <2>2. Segments(g) = Segments(group)
    BY <2>1 DEF Segments
  <2>3. QED
    BY <2>1, <2>2 DEF SegmentSet, Dates
<1>4. SegmentSet(group)' = SegmentSet(g) /\ Dates(group)' = Dates(g)
  BY <1>1 DEF SegmentSet, Segments, Dates
<1>5. CASE Identity(g) # Identity(group)
  <2>1. whole' = FALSE /\ Clear(g)
    BY <1>1, <1>5
  <2> DEFINE Cleared ==
        /\ \A key \in stored' : \E s \in AllSegments : AsksFor(s, key)
        /\ offers' \in SUBSET stored' /\ bare' \in SUBSET stored' /\ outlived' \in BOOLEAN
        /\ stored' \ bare' \subseteq offers'
        /\ outlived' \/ \A key \in stored' : \E s \in SegmentSet(g) : AsksFor(s, key)
  <2>2. Cleared
    BY ONLY <1>2, <2>1, ClearStep
  <2>3. TypeOK'
    BY <1>1, <1>2, <2>1, <2>2 DEF TypeOK, AsksFor, Keys
  <2>4. StoredBelongs'
    BY <1>4, <2>2 DEF StoredBelongs, AsksFor, Keys
  <2>5. WholeCovers' /\ OffersStand'
    BY <2>1, <2>2 DEF WholeCovers, OffersStand
  <2>6. QED
    BY <2>3, <2>4, <2>5 DEF Inv
<1>6. CASE Identity(g) = Identity(group)
  <2>1. /\ SegmentSet(group)' = SegmentSet(group) /\ Dates(group)' = Dates(group)
        /\ UNCHANGED <<stored, offers, outlived, planned, whole, bare, today>>
    BY <1>1, <1>2, <1>3, <1>4, <1>6 DEF TypeOK
  <2>2. TypeOK'
    BY <1>1, <1>2, <2>1 DEF TypeOK, AsksFor, Keys
  <2>3. StoredBelongs' /\ OffersStand'
    BY <1>2, <2>1 DEF StoredBelongs, AsksFor, Keys, OffersStand
  <2>4. WholeCovers'
    BY <1>2, <2>1 DEF WholeCovers, IncompleteIn, FoundIn, Repeats
  <2>5. QED
    BY <2>2, <2>3, <2>4 DEF Inv
<1>7. QED
  BY <1>5, <1>6

LEMMA InitInv == Init => Inv
<1> SUFFICES ASSUME Init PROVE Inv
  OBVIOUS
<1>1. /\ group \in Groups /\ today = 1 /\ stored = {} /\ offers = {} /\ planned = <<>>
      /\ whole = FALSE /\ outlived = FALSE /\ bare = {}
  BY DEF Init, NoPlan
<1>2. 1 \in 1 .. LastDay /\ DOMAIN planned = {}
  BY <1>1, DaysAssumption
<1>3. TypeOK
  BY <1>1, <1>2 DEF TypeOK
<1>4. QED
  BY <1>1, <1>3 DEF Inv, StoredBelongs, WholeCovers, OffersStand

LEMMA NextInv == Inv /\ [Next]_vars => Inv'
<1> SUFFICES ASSUME Inv, [Next]_vars PROVE Inv'
  OBVIOUS
<1>1. CASE PlanGroup \/ PlanDate
  BY <1>1, PlanningStep
<1>2. CASE \E i \in DOMAIN planned : CollectSegment(i)
  BY <1>2, CollectStep
<1>3. CASE Abandon \/ Midnight
  <2>1. /\ UNCHANGED <<group, stored, offers, outlived, bare>> /\ whole' = FALSE
        /\ planned' = planned \/ planned' = <<>>
        /\ today' = today \/ (today < LastDay /\ today' = today + 1)
    BY <1>3 DEF Abandon, Midnight, NoPlan
  <2>2. TypeOK /\ StoredBelongs /\ OffersStand
    BY DEF Inv
  <2>3. today' \in 1 .. LastDay
    BY <2>1, <2>2, DaysAssumption DEF TypeOK
  <2>4. TypeOK'
    <3>1. \A i \in DOMAIN planned' : i \in DOMAIN planned /\ planned'[i] = planned[i]
      BY <2>1
    <3>2. QED
      BY <2>1, <2>2, <2>3, <3>1 DEF TypeOK, AsksFor, Keys
  <2>5. StoredBelongs' /\ WholeCovers'
    BY <2>1, <2>2 DEF StoredBelongs, SegmentSet, Segments, AsksFor, Keys, WholeCovers
  <2>6. OffersStand'
    <3>1. today \in Nat /\ Week \in Nat /\ \A key \in stored : key[3] \in Nat
      BY <2>2, TypeFacts, DaysAssumption
    <3>2. QED
      BY <2>1, <2>2, <3>1 DEF OffersStand
  <2>7. QED
    BY <2>4, <2>5, <2>6 DEF Inv
<1>4. CASE UpdateGroup
  BY <1>4, UpdateStep
<1>5. CASE PurgeOffers
  <2>1. /\ offers' = {key \in offers : key[3] >= today - Week}
        /\ UNCHANGED <<group, today, stored, planned, whole, outlived, bare>>
    BY <1>5 DEF PurgeOffers
  <2>2. TypeOK' /\ StoredBelongs'
    BY <2>1 DEF Inv, TypeOK, StoredBelongs, SegmentSet, Segments, AsksFor, Keys
  <2>3. WholeCovers'
    BY <2>1 DEF Inv, WholeCovers, SegmentSet, Segments, Dates, IncompleteIn, FoundIn, Repeats
  <2>4. OffersStand'
    <3>1. today \in Nat /\ Week \in Nat /\ \A key \in stored : key[3] \in Nat
      BY TypeFacts, DaysAssumption DEF Inv
    <3>2. QED
      BY <2>1, <3>1 DEF Inv, OffersStand
  <2>5. QED
    BY <2>2, <2>3, <2>4 DEF Inv
<1>6. CASE UNCHANGED vars
  <2>1. TypeOK' /\ StoredBelongs' /\ OffersStand'
    BY <1>6 DEF vars, Inv, TypeOK, StoredBelongs, SegmentSet, Segments, AsksFor, Keys, OffersStand
  <2>2. WholeCovers'
    BY <1>6 DEF vars, Inv, WholeCovers, SegmentSet, Segments, Dates, IncompleteIn, FoundIn,
                Repeats
  <2>3. QED
    BY <2>1, <2>2 DEF Inv
<1>7. QED
  BY <1>1, <1>2, <1>3, <1>4, <1>5, <1>6 DEF Next

LEMMA InvCorrect == Spec => []Inv
BY InitInv, NextInv, PTL DEF Spec

(***************************************************************************)
(* The theorems.                                                           *)
(***************************************************************************)

(* Windows, updates and midnights never lead to a plan longer than _MAX_DATES, *)
(* nor to a price no group asked for (_group_dates, iter_group_segments).     *)
THEOREM TypeCorrect == Spec => []TypeOK
BY InvCorrect, PTL DEF Inv

(* What an edit that changes the identity of a group leaves stored is only     *)
(* what the group asks for (update, _ROUTE_IDENTITY_FIELDS).                  *)
THEOREM StoredBelongsHolds == Spec => []StoredBelongs
BY InvCorrect, PTL DEF Inv

(* A collection of the whole group that stores all it planned leaves nothing  *)
(* to plan: the count of the filter is right for segments that overlap.       *)
THEOREM WholeRunCompletesHolds == Spec => []WholeRunCompletes
<1>1. Inv => WholeRunCompletes
  BY DEF Inv, WholeCovers, WholeRunCompletes, NoPlan, Remaining, Incomplete, IncompleteIn, Found,
         FoundIn
<1>2. QED
  BY <1>1, InvCorrect, PTL

(* A price the group wants and does not have is planned, whatever prices of    *)
(* other segments the count of the filter includes (_filter_already_scraped).  *)
THEOREM NothingForgottenHolds == Spec => NothingForgotten
<1> DEFINE Covered ==
      PlanGroup =>
        \A key \in Wanted \ stored :
          \E i \in DOMAIN planned' : key \in Keys(planned'[i].segment, planned'[i].dates)
<1>1. TypeOK => Covered
  <2> SUFFICES ASSUME TypeOK, PlanGroup, NEW key \in Wanted \ stored
               PROVE  \E i \in DOMAIN planned' :
                        key \in Keys(planned'[i].segment, planned'[i].dates)
    OBVIOUS
  <2>1. Storable(group) /\ today \in Nat /\ IsKeys(stored)
    BY TypeFacts
  <2>2. Wanted = UNION {Keys(s, Dates(group)) : s \in SegmentSet(group)}
    BY <2>1, SegmentSetFacts DEF Wanted
  <2>3. PICK s \in SegmentSet(group) : key \in Keys(s, Dates(group))
    BY <2>2
  <2>4. PICK d \in Dates(group) : key \in Keys(s, {d})
    BY <2>3 DEF Keys
  <2>5. IsList(s.destinations)
    BY <2>1, SegmentSetFacts
  <2>6. IncompleteIn(stored, s, d)
    BY <2>1, <2>4, <2>5, MissingIsIncomplete
  <2>7. Dates(group) \in SUBSET Nat /\ IsFiniteSet(Dates(group)) /\ Plan(Dates(group))
    BY <2>1, DatesFacts DEF PlanGroup
  <2>8. PICK i \in DOMAIN planned' : planned'[i].segment = s /\ d \in planned'[i].dates
    BY <2>6, <2>7, PlanFacts
  <2>9. QED
    BY <2>4, <2>8 DEF Keys
<1>2. TypeOK /\ [Next]_vars => [Covered]_vars
  BY <1>1
<1>3. QED
  BY <1>2, TypeCorrect, PTL DEF Spec, NothingForgotten

(* A day that has all its prices is not planned again, whether the collection  *)
(* is of the group or of one date (_filter_already_scraped).                  *)
THEOREM CompleteIsSkippedHolds == Spec => CompleteIsSkipped
<1> DEFINE Skipped ==
      Begins =>
        \A i \in DOMAIN planned' : \A d \in planned'[i].dates :
          LET s == planned'[i].segment
          IN \/ ~(Keys(s, {d}) \subseteq stored)
             \/ s.destinations = <<>> \/ Repeats(s)
<1>1. TypeOK /\ [Next]_vars => Skipped
  <2> SUFFICES ASSUME TypeOK, [Next]_vars, Begins, NEW i \in DOMAIN planned',
                      NEW d \in planned'[i].dates
               PROVE  LET s == planned'[i].segment
                      IN \/ ~(Keys(s, {d}) \subseteq stored)
                         \/ s.destinations = <<>> \/ Repeats(s)
    OBVIOUS
  <2> DEFINE s == planned'[i].segment
  <2>1. Storable(group) /\ today \in Nat /\ IsKeys(stored)
    BY TypeFacts
  <2>2. PlanGroup \/ PlanDate
    BY DEF Begins, NoPlan, Next, CollectSegment, Abandon, Midnight, PurgeOffers, UpdateGroup,
           vars
  <2>3. PICK dates \in SUBSET Nat : IsFiniteSet(dates) /\ Plan(dates)
    <3>1. CASE PlanGroup
      BY <2>1, <3>1, DatesFacts DEF PlanGroup
    <3>2. CASE PlanDate
      <4>1. PICK e \in 1 .. LastDay + MaxDates : Plan({e})
        BY <3>2 DEF PlanDate
      <4>2. IsFiniteSet({e})
        BY FS_Singleton
      <4>3. e \in Nat
        BY DaysAssumption
      <4>4. {e} \in SUBSET Nat
        BY <4>3
      <4>5. QED
        BY <4>1, <4>2, <4>4
    <3>3. QED
      BY <2>2, <3>1, <3>2
  <2>4. s \in SegmentSet(group) /\ IncompleteIn(stored, s, d)
    BY <2>3, PlanFacts
  <2>5. IsList(s.destinations)
    BY <2>1, <2>4, SegmentSetFacts
  <2> HIDE DEF s
  <2>6. QED
    BY <2>1, <2>4, <2>5, StoredIsComplete DEF s
<1>2. TypeOK /\ [Next]_vars => [Skipped]_vars
  BY <1>1
<1>3. QED
  BY <1>2, TypeCorrect, PTL DEF Spec, CompleteIsSkipped
================================================================================
