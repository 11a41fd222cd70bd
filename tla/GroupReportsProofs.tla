--------------------------- MODULE GroupReportsProofs ---------------------------
(***************************************************************************)
(* Theorems about GroupReports: what users are shown of a group agrees with    *)
(* what is planned for it, for any groups, prices, days and cap of the dates.  *)
(***************************************************************************)
EXTENDS GroupReports, GroupPlanningProofs

(***************************************************************************)
(* A day that is complete.                                                 *)
(***************************************************************************)

(* The filter counts; for a proper segment its count is right: what it takes  *)
(* for complete has every price.                                            *)
LEMMA CompleteIsStored ==
  ASSUME NEW s, IsList(s.destinations), ~Repeats(s), NEW d, IsKeys(stored), ~Incomplete(s, d)
  PROVE  Keys(s, {d}) \subseteq stored
<1> DEFINE K == Keys(s, {d})
           F == FoundIn(stored, s, d)
<1>1. ~(Cardinality(F) < Len(s.destinations))
  BY DEF Incomplete, Found, FoundIn
<1>2. IsFiniteSet(K) /\ Cardinality(K) = Len(s.destinations) /\ Len(s.destinations) \in Nat
  BY KeysOfADay, ListFacts DEF Repeats
<1>3. F \subseteq K /\ F \subseteq stored
  BY FoundAmongKeys DEF FoundIn
<1> HIDE DEF K, F
<1>4. /\ IsFiniteSet(F) /\ Cardinality(F) <= Cardinality(K)
      /\ Cardinality(K) = Cardinality(F) => K = F
  BY <1>2, <1>3, FS_Subset
<1>5. Cardinality(F) \in Nat
  BY <1>4, FS_CardinalityType
<1>6. Cardinality(K) = Cardinality(F)
  BY <1>1, <1>2, <1>4, <1>5
<1>7. QED
  BY <1>3, <1>4, <1>6 DEF K

(* The segments of a group, by position. *)
LEMMA PositionFacts ==
  ASSUME TypeOK, NEW i \in DOMAIN Segments(group)
  PROVE  /\ Segments(group)[i] \in SegmentSet(group) /\ Segments(group)[i] \in AllSegments
         /\ IsList(Segments(group)[i].destinations)
<1>1. Segments(group)[i] \in SegmentSet(group)
  BY DEF SegmentSet, Elements
<1>2. QED
  BY <1>1, TypeFacts

(***************************************************************************)
(* The progress.                                                           *)
(***************************************************************************)

(* The two computations of the dates agree (_group_dates of the scheduler and  *)
(* of the route group service).                                             *)
LEMMA DatesAgree ==
  ASSUME NEW g, Storable(g), today \in Nat
  PROVE  ProgressDates(g) = Dates(g)
<1> DEFINE start == Later(g.start_date, today)
           end == IF g.end_date # 0 THEN g.end_date ELSE start + Sooner(g.days_ahead, MaxDates)
           days == Sooner(end - start + 1, MaxDates)
           last == Sooner(end, start + MaxDates - 1)
<1>1. start \in Nat
  BY DEF Storable, Later
<1>2. end \in Nat /\ MaxDates \in Nat \ {0}
  BY <1>1, DaysAssumption DEF Storable, Sooner
<1>3. /\ ProgressDates(g) = IF end < start THEN {} ELSE {start + i : i \in 0 .. days - 1}
      /\ Dates(g) = start .. last
  BY DEF ProgressDates, Dates
<1> HIDE DEF start, end
<1>4. CASE end < start
  <2>1. last < start
    BY <1>1, <1>2, <1>4 DEF Sooner
  <2>2. last \in Int
    BY <1>1, <1>2 DEF Sooner
  <2> HIDE DEF last
  <2>3. start .. last = {}
    BY <1>1, <2>1, <2>2
  <2>4. QED
    BY <1>3, <1>4, <2>3
<1>5. CASE ~(end < start)
  <2>1. days \in Nat /\ last = start + days - 1
    BY <1>1, <1>2, <1>5 DEF Sooner
  <2> HIDE DEF days, last
  <2>2. \A d : d \in start .. last => d - start \in 0 .. days - 1 /\ d = start + (d - start)
    BY <1>1, <2>1
  <2>3. \A i \in 0 .. days - 1 : start + i \in start .. last
    BY <1>1, <2>1
  <2>4. {start + i : i \in 0 .. days - 1} = start .. last
    BY <2>2, <2>3
  <2>5. QED
    BY <1>3, <1>5, <2>4
<1>6. QED
  BY <1>4, <1>5

(* A list whose positions all differ is as long as it has elements. *)
LEMMA OnceEach ==
  ASSUME NEW l, IsList(l), \A m, n \in DOMAIN l : l[m] = l[n] => m = n
  PROVE  Cardinality(Elements(l)) = Len(l)
<1>1. Len(l) \in Nat /\ DOMAIN l = 1 .. Len(l) /\ l \in [1 .. Len(l) -> Elements(l)]
  BY DEF IsList
<1>2. l \in Bijection(1 .. Len(l), Elements(l))
  BY <1>1 DEF Bijection, Injection, IsInjective, Surjection, Elements
<1>3. IsFiniteSet(1 .. Len(l)) /\ Cardinality(1 .. Len(l)) = Len(l)
  BY <1>1, FS_Interval
<1>4. QED
  BY <1>2, <1>3, FS_Bijection DEF ExistsBijection

(* What progress counts can be counted: a run stores finitely many prices.    *)
Finite ==
  /\ IsFiniteSet(stored)
  /\ \A i \in DOMAIN planned : IsFiniteSet(planned[i].dates)

LEMMA KeysFinite ==
  ASSUME NEW s, IsList(s.destinations), NEW dates, IsFiniteSet(dates)
  PROVE  IsFiniteSet(Keys(s, dates))
<1> DEFINE E == Elements(s.destinations)
           f == [key \in Keys(s, dates) |-> <<key[2], key[3]>>]
<1>1. IsFiniteSet(E \X dates)
  BY ListFacts, FS_Product
<1>2. f \in Injection(Keys(s, dates), E \X dates)
  <2>1. \A key \in Keys(s, dates) :
          key = <<s.origin, key[2], key[3]>> /\ key[2] \in E /\ key[3] \in dates
    BY DEF Keys
  <2>2. f \in [Keys(s, dates) -> E \X dates]
    BY <2>1
  <2>3. \A k, l \in Keys(s, dates) : f[k] = f[l] => k = l
    BY <2>1
  <2>4. QED
    BY <2>2, <2>3 DEF Injection, IsInjective
<1> HIDE DEF f, E
<1>3. QED
  BY <1>1, <1>2, FS_Injection

LEMMA FiniteHolds ==
  Spec => []Finite
<1>1. Init => Finite
  BY FS_EmptySet DEF Init, Finite, NoPlan
<1>2. TypeOK /\ Finite /\ [Next]_vars => Finite'
  <2> SUFFICES ASSUME TypeOK, Finite, [Next]_vars
               PROVE  Finite'
    OBVIOUS
  <2>1. ASSUME NEW dates, IsFiniteSet(dates), Plan(dates)
        PROVE  Finite'
    <3>1. \A i \in DOMAIN planned' : planned'[i].dates \subseteq dates
      BY <2>1 DEF Plan, Remaining
    <3>2. stored' = stored
      BY <2>1 DEF Plan
    <3>3. QED
      BY <2>1, <3>1, <3>2, FS_Subset DEF Finite
  <2>2. CASE PlanGroup
    BY <2>1, <2>2, TypeFacts, DatesFacts DEF PlanGroup
  <2>3. CASE PlanDate
    BY <2>1, <2>3, FS_Singleton DEF PlanDate
  <2>4. ASSUME NEW i \in DOMAIN planned, CollectSegment(i)
        PROVE  Finite'
    <3>1. planned[i].segment \in AllSegments
      BY DEF TypeOK
    <3>2. IsFiniteSet(Keys(planned[i].segment, planned[i].dates))
      BY <3>1, TypeFacts, KeysFinite DEF Finite
    <3>3. PICK found \in SUBSET Keys(planned[i].segment, planned[i].dates) :
            stored' = stored \cup found
      BY <2>4 DEF CollectSegment
    <3>4. IsFiniteSet(stored')
      BY <3>2, <3>3, FS_Subset, FS_Union DEF Finite
    <3>5. planned' = [j \in DOMAIN planned \ {i} |-> planned[j]]
      BY <2>4 DEF CollectSegment
    <3>6. QED
      BY <3>4, <3>5 DEF Finite
  <2>5. CASE Abandon
    BY <2>5 DEF Abandon, Finite, NoPlan
  <2>6. CASE Midnight
    BY <2>6 DEF Midnight, Finite
  <2>7. CASE PurgeOffers
    BY <2>7 DEF PurgeOffers, Finite
  <2>8. CASE UpdateGroup
    <3>1. planned' = planned
      BY <2>8 DEF UpdateGroup
    <3>2. \/ stored' = stored \/ stored' = {}
          \/ \E i \in DOMAIN planned : stored' \in SUBSET Keys(planned[i].segment, planned[i].dates)
      BY <2>8 DEF UpdateGroup, Clear
    <3>3. ASSUME NEW i \in DOMAIN planned
          PROVE  IsFiniteSet(Keys(planned[i].segment, planned[i].dates))
      <4>1. planned[i].segment \in AllSegments
        BY DEF TypeOK
      <4>2. QED
        BY <4>1, TypeFacts, KeysFinite DEF Finite
    <3>4. IsFiniteSet(stored')
      BY <3>2, <3>3, FS_EmptySet, FS_Subset DEF Finite
    <3>5. QED
      BY <3>1, <3>4 DEF Finite
  <2>9. CASE UNCHANGED vars
    BY <2>9 DEF vars, Finite
  <2>10. QED
    BY <2>2, <2>3, <2>4, <2>5, <2>6, <2>7, <2>8, <2>9 DEF Next
<1>3. QED
  BY <1>1, <1>2, TypeCorrect, PTL DEF Spec

(* What get_progress counts of an origin: each position of each list, on each   *)
(* date; and the rows that leave from it.                                   *)
ListAt(i) == Segments(group)[i].destinations

Counted(o) == UNION {{i} \X (DOMAIN ListAt(i)) \X Dates(group) : i \in From(o)}

Rows(o) == {key \in stored : key[1] = o}

(* The keys that the positions stand for. *)
Asked(o) == UNION {Keys(Segments(group)[i], Dates(group)) : i \in From(o)}

KeyOf(o) == [t \in Counted(o) |-> <<o, ListAt(t[1])[t[2]], t[3]>>]

LEMMA PositionsFinite ==
  ASSUME NEW g, Storable(g)
  PROVE  IsFiniteSet(DOMAIN Segments(g))
<1> DEFINE a == [i \in DOMAIN g.origins |->
                   [origin |-> g.origins[i], destinations |-> g.destinations]]
           b == IF g.trip_type = "multi_city" THEN <<>> ELSE g.special_sheets
<1>1. /\ DOMAIN g.origins = 1 .. Len(g.origins) /\ Len(g.origins) \in Nat
      /\ DOMAIN g.special_sheets = 1 .. Len(g.special_sheets) /\ Len(g.special_sheets) \in Nat
  BY ListFacts DEF Storable
<1>2. a \in Seq(Elements(a))
  <2>1. a \in [1 .. Len(g.origins) -> Elements(a)]
    BY <1>1 DEF Elements
  <2> HIDE DEF a
  <2>2. QED
    BY <1>1, <2>1
<1>3. b \in Seq(Elements(b))
  BY DEF Storable, IsList, Elements
<1>4. Segments(g) = a \o b
  BY DEF Segments
<1> HIDE DEF a, b
<1>5. DOMAIN (a \o b) = 1 .. Len(a) + Len(b) /\ Len(a) \in Nat /\ Len(b) \in Nat
  BY <1>2, <1>3
<1>6. QED
  BY <1>4, <1>5, FS_Interval

LEMMA CountedFacts ==
  ASSUME TypeOK, NEW o
  PROVE  /\ Expected(From(o)) = Cardinality(Counted(o)) /\ IsFiniteSet(Counted(o))
         /\ \A t \in Counted(o) :
              /\ t = <<t[1], t[2], t[3]>> /\ t[1] \in From(o)
              /\ t[2] \in DOMAIN ListAt(t[1]) /\ t[3] \in Dates(group)
         /\ \A i \in From(o), d \in Dates(group) : \A m \in DOMAIN ListAt(i) :
              <<i, m, d>> \in Counted(o)
<1> DEFINE part(i) == {i} \X (DOMAIN ListAt(i)) \X Dates(group)
<1>1. Storable(group) /\ today \in Nat
  BY TypeFacts
<1>2. Expected(From(o)) = Cardinality(Counted(o))
  <2>1. ProgressDates(group) = Dates(group)
    BY <1>1, DatesAgree
  <2>2. QED
    BY ONLY <2>1, Zenon DEF Expected, Counted, ListAt
<1>3. IsFiniteSet(From(o))
  BY <1>1, PositionsFinite, FS_Subset DEF From
<1>4. ASSUME NEW i \in From(o)
      PROVE  IsFiniteSet(part(i))
  <2> DEFINE positions == DOMAIN ListAt(i)
             pairs == positions \X Dates(group)
             f == [t \in part(i) |-> <<t[2], t[3]>>]
  <2>1. IsList(ListAt(i))
    BY PositionFacts DEF From, ListAt
  <2>2. IsFiniteSet(positions)
    BY <2>1, ListFacts, FS_Interval
  <2>3. IsFiniteSet(Dates(group))
    BY <1>1, DatesFacts
  <2> HIDE DEF positions
  <2>4. IsFiniteSet(pairs)
    BY <2>2, <2>3, FS_Product
  <2>5. f \in Injection(part(i), pairs)
    BY DEF Injection, IsInjective, positions
  <2> HIDE DEF f, pairs, part
  <2>6. QED
    BY <2>4, <2>5, FS_Injection
<1>5. IsFiniteSet(Counted(o))
  <2>1. Counted(o) = UNION {part(i) : i \in From(o)}
    BY DEF Counted
  <2> HIDE DEF part
  <2>2. IsFiniteSet({part(i) : i \in From(o)})
    <3> DEFINE g == [i \in From(o) |-> part(i)]
    <3>1. g \in Surjection(From(o), {part(i) : i \in From(o)})
      BY DEF Surjection
    <3> HIDE DEF g
    <3>2. QED
      BY <1>3, <3>1, FS_Surjection DEF ExistsSurjection
  <2>3. QED
    BY <1>4, <2>1, <2>2, FS_UNION
<1>6. \A t \in Counted(o) :
        /\ t = <<t[1], t[2], t[3]>> /\ t[1] \in From(o)
        /\ t[2] \in DOMAIN ListAt(t[1]) /\ t[3] \in Dates(group)
  BY DEF Counted
<1>7. ASSUME NEW i \in From(o), NEW d \in Dates(group), NEW m \in DOMAIN ListAt(i)
      PROVE  <<i, m, d>> \in Counted(o)
  BY DEF Counted
<1>8. QED
  BY <1>2, <1>5, <1>6, <1>7

LEMMA KeyOfFacts ==
  ASSUME TypeOK, NEW o
  PROVE  KeyOf(o) \in Surjection(Counted(o), Asked(o))
<1>1. ASSUME NEW t \in Counted(o)
      PROVE  KeyOf(o)[t] = <<o, ListAt(t[1])[t[2]], t[3]>> /\ KeyOf(o)[t] \in Asked(o)
  <2>1. t[1] \in From(o) /\ t[2] \in DOMAIN ListAt(t[1]) /\ t[3] \in Dates(group)
    BY CountedFacts
  <2>2. <<o, ListAt(t[1])[t[2]], t[3]>> \in Keys(Segments(group)[t[1]], Dates(group))
    BY <2>1 DEF Keys, Elements, ListAt, From
  <2>3. QED
    BY <2>1, <2>2 DEF KeyOf, Asked
<1>2. ASSUME NEW key \in Asked(o)
      PROVE  \E t \in Counted(o) : KeyOf(o)[t] = key
  <2>1. PICK i \in From(o) : key \in Keys(Segments(group)[i], Dates(group))
    BY DEF Asked
  <2>2. PICK m \in DOMAIN ListAt(i), d \in Dates(group) : key = <<o, ListAt(i)[m], d>>
    BY <2>1 DEF Keys, Elements, ListAt, From
  <2>3. <<i, m, d>> \in Counted(o)
    BY CountedFacts
  <2>4. QED
    BY <1>1, <2>2, <2>3
<1>3. KeyOf(o) \in [Counted(o) -> Asked(o)]
  BY <1>1 DEF KeyOf
<1>4. QED
  BY <1>2, <1>3 DEF Surjection

(* An origin without unwanted rows that shows all of its dates has every price  *)
(* of its segments, and none of them lists a destination twice: as many rows as *)
(* there are positions leave no two positions for one row.                   *)
LEMMA FullIsComplete ==
  ASSUME TypeOK, Finite, NEW o, ~HasUnwanted(o),
         Cardinality(Counted(o)) <= Cardinality(Rows(o)),
         NEW i \in From(o), ListAt(i) # <<>>
  PROVE  Remaining(Segments(group)[i], Dates(group)) = {}
<1> DEFINE s == Segments(group)[i]
<1>1. /\ Storable(group) /\ today \in Nat /\ IsKeys(stored) /\ IsList(ListAt(i))
      /\ IsList(s.destinations) /\ s.origin = o
  BY TypeFacts, PositionFacts DEF From, ListAt
<1>2. Rows(o) \subseteq Asked(o)
  <2>1. Wanted = UNION {Keys(r, Dates(group)) : r \in SegmentSet(group)}
    BY <1>1, SegmentSetFacts DEF Wanted
  <2>2. ASSUME NEW key \in Rows(o)
        PROVE  key \in Asked(o)
    <3>1. PICK r \in SegmentSet(group) : key \in Keys(r, Dates(group))
      BY <2>1 DEF HasUnwanted, Rows
    <3>2. PICK j \in DOMAIN Segments(group) : r = Segments(group)[j]
      BY DEF SegmentSet, Elements
    <3>3. key[1] = o /\ r.origin = key[1]
      BY <3>1 DEF Rows, Keys
    <3>4. QED
      BY <3>1, <3>2, <3>3 DEF Asked, From
  <2>3. QED
    BY <2>2
<1>3. /\ IsFiniteSet(Counted(o)) /\ IsFiniteSet(Asked(o))
      /\ Cardinality(Asked(o)) <= Cardinality(Counted(o))
  BY CountedFacts, KeyOfFacts, FS_Surjection DEF ExistsSurjection
<1>4. /\ Cardinality(Rows(o)) <= Cardinality(Asked(o))
      /\ Cardinality(Rows(o)) = Cardinality(Asked(o)) => Rows(o) = Asked(o)
  BY <1>2, <1>3, FS_Subset
<1>5. /\ Cardinality(Rows(o)) \in Nat /\ Cardinality(Asked(o)) \in Nat
      /\ Cardinality(Counted(o)) \in Nat
  BY <1>2, <1>3, FS_Subset, FS_CardinalityType
<1>6. Rows(o) = Asked(o) /\ Cardinality(Asked(o)) = Cardinality(Counted(o))
  BY <1>3, <1>4, <1>5
<1>7. KeyOf(o) \in Injection(Counted(o), Asked(o))
  BY <1>3, <1>6, KeyOfFacts, FS_SurjSameCardinalityImpliesInj
<1>8. ASSUME NEW d \in Dates(group)
      PROVE  ~Incomplete(s, d)
  <2>1. ASSUME NEW m \in DOMAIN ListAt(i), NEW n \in DOMAIN ListAt(i),
               ListAt(i)[m] = ListAt(i)[n]
        PROVE  m = n
    <3>1. <<i, m, d>> \in Counted(o) /\ <<i, n, d>> \in Counted(o)
      BY CountedFacts
    <3>2. KeyOf(o)[<<i, m, d>>] = KeyOf(o)[<<i, n, d>>]
      BY <2>1, <3>1 DEF KeyOf
    <3>3. <<i, m, d>> = <<i, n, d>>
      BY <1>7, <3>1, <3>2 DEF Injection, IsInjective
    <3>4. QED
      BY <3>3
  <2>2. ~Repeats(s)
    BY <1>1, <2>1, OnceEach DEF ListAt, Repeats
  <2>3. Keys(s, {d}) \subseteq stored
    BY <1>6 DEF Asked, Keys, Rows
  <2>4. ~IncompleteIn(stored, s, d)
    BY <1>1, <2>2, <2>3, StoredIsComplete DEF ListAt
  <2>5. QED
    BY <2>4 DEF Incomplete, IncompleteIn, Found, FoundIn
<1>9. QED
  BY <1>8 DEF Remaining

(* An origin without work left, whose segments list each destination once, has  *)
(* as many rows as it shows: each position has a row of its own on each date. *)
LEMMA CompleteCounts ==
  ASSUME TypeOK, Finite, NEW o, ~CountsTwice(o),
         \A i \in From(o) : ListAt(i) # <<>> => Remaining(Segments(group)[i], Dates(group)) = {}
  PROVE  Cardinality(Counted(o)) <= Cardinality(Rows(o))
<1>1. IsKeys(stored)
  BY TypeFacts
<1>2. ASSUME NEW i \in From(o)
      PROVE  Segments(group)[i].origin = o /\ IsList(ListAt(i)) /\ ~Repeats(Segments(group)[i])
  <2>1. Segments(group)[i].origin = o /\ IsList(ListAt(i))
    BY PositionFacts DEF From, ListAt
  <2>2. \A m, n \in DOMAIN ListAt(i) : ListAt(i)[m] = ListAt(i)[n] => m = n
    BY DEF CountsTwice, ListAt
  <2>3. QED
    BY <2>1, <2>2, OnceEach DEF Repeats, ListAt
<1>3. ASSUME NEW t \in Counted(o)
      PROVE  KeyOf(o)[t] \in Rows(o)
  <2> DEFINE i == t[1]
             d == t[3]
  <2>1. i \in From(o) /\ t[2] \in DOMAIN ListAt(i) /\ d \in Dates(group)
    BY CountedFacts
  <2>2. IsList(ListAt(i)) /\ ListAt(i) # <<>>
    BY <1>2, <2>1
  <2>3. ~Incomplete(Segments(group)[i], d)
    BY <2>1, <2>2 DEF Remaining
  <2>4. Keys(Segments(group)[i], {d}) \subseteq stored
    BY <1>1, <1>2, <2>1, <2>3, CompleteIsStored DEF ListAt
  <2>5. <<o, ListAt(i)[t[2]], d>> \in Keys(Segments(group)[i], {d})
    BY <1>2, <2>1 DEF Keys, Elements, ListAt
  <2>6. QED
    BY <2>4, <2>5 DEF KeyOf, Rows
<1>4. ASSUME NEW t \in Counted(o), NEW u \in Counted(o), KeyOf(o)[t] = KeyOf(o)[u]
      PROVE  t = u
  <2>1. /\ t = <<t[1], t[2], t[3]>> /\ t[1] \in From(o) /\ t[2] \in DOMAIN ListAt(t[1])
        /\ u = <<u[1], u[2], u[3]>> /\ u[1] \in From(o) /\ u[2] \in DOMAIN ListAt(u[1])
    BY CountedFacts
  <2>2. ListAt(t[1])[t[2]] = ListAt(u[1])[u[2]] /\ t[3] = u[3]
    BY <1>4 DEF KeyOf
  <2>3. <<t[1], t[2]>> = <<u[1], u[2]>>
    BY <2>1, <2>2 DEF CountsTwice, ListAt
  <2>4. QED
    BY <2>1, <2>2, <2>3
<1>5. KeyOf(o) \in Injection(Counted(o), Rows(o))
  <2>1. KeyOf(o) \in [Counted(o) -> Rows(o)]
    BY <1>3 DEF KeyOf
  <2>2. QED
    BY <1>4, <2>1 DEF Injection, IsInjective
<1>6. IsFiniteSet(Rows(o))
  BY FS_Subset DEF Finite, Rows
<1>7. QED
  BY <1>5, <1>6, FS_Injection

(***************************************************************************)
(* The spreadsheet.                                                        *)
(***************************************************************************)

(* A set of numbers has a least one. *)
LEMMA LeastPrice ==
  ASSUME NEW S \in SUBSET Nat, S # {}
  PROVE  \E n \in S : \A m \in S : n <= m
<1> DEFINE T == {0 .. m : m \in S}
<1>1. T \subseteq FiniteSubsetsOf(Nat) /\ T # {}
  <2>1. ASSUME NEW m \in S
        PROVE  0 .. m \in FiniteSubsetsOf(Nat)
    <3>1. IsFiniteSet(0 .. m) /\ 0 .. m \subseteq Nat
      BY FS_Interval
    <3>2. QED
      BY <3>1 DEF FiniteSubsetsOf
  <2>2. QED
    BY <2>1
<1>2. IsWellFoundedOn(StrictSubsetOrdering(Nat), FiniteSubsetsOf(Nat))
  BY FS_StrictSubsetOrderingWellFounded
<1> HIDE DEF T
<1>3. PICK x \in T : \A y \in T : <<y, x>> \notin StrictSubsetOrdering(Nat)
  BY <1>1, <1>2, WFMin
<1> USE DEF T
<1>4. PICK n \in S : x = 0 .. n
  OBVIOUS
<1>5. ASSUME NEW m \in S, m < n
      PROVE  FALSE
  <2>1. 0 .. m \subseteq 0 .. n /\ n \in 0 .. n /\ n \notin 0 .. m
    BY <1>5
  <2>2. <<0 .. m, 0 .. n>> \in StrictSubsetOrdering(Nat)
    BY <2>1 DEF StrictSubsetOrdering
  <2>3. QED
    BY <1>3, <1>4, <2>2
<1>6. QED
  BY <1>5

(* What a sheet shows of some rows is the price of one of them, and the least. *)
LEMMA CheapestFacts ==
  ASSUME TypeOK, NEW rows \in SUBSET offers, rows # {}
  PROVE  /\ Cheapest(rows) \in Nat \ {0}
         /\ \A key \in rows : Cheapest(rows) <= Price[key[2]]
<1> DEFINE prices == {Price[key[2]] : key \in rows}
<1>1. \A key \in rows : Price[key[2]] \in Nat \ {0}
  <2>1. ASSUME NEW key \in rows
        PROVE  \E s \in AllSegments : key[2] \in Elements(s.destinations)
    BY DEF TypeOK, AsksFor, Keys
  <2>2. QED
    BY <2>1, PriceAssumption
<1>2. prices \subseteq Nat \ {0} /\ prices # {}
  BY <1>1
<1>3. Cheapest(rows) = CHOOSE p \in prices : \A q \in prices : p <= q
  BY DEF Cheapest
<1> HIDE DEF prices
<1>4. \E p \in prices : \A q \in prices : p <= q
  BY <1>2, LeastPrice
<1>5. Cheapest(rows) \in prices /\ \A q \in prices : Cheapest(rows) <= q
  BY <1>3, <1>4
<1>6. QED
  BY <1>2, <1>5 DEF prices

(* What a finished collection of the whole group leaves has offers, but for     *)
(* what an edit left without.                                               *)
LEMMA WantedHasOffers ==
  ASSUME TypeOK, WholeRunCompletes, OffersStand, whole, planned = NoPlan,
         NEW s \in SegmentSet(group), ~Repeats(s),
         NEW d \in Dates(group), NEW x \in Elements(s.destinations), <<s.origin, x, d>> \notin bare
  PROVE  <<s.origin, x, d>> \in offers
<1> DEFINE key == <<s.origin, x, d>>
<1>1. Storable(group) /\ today \in Nat /\ Week \in Nat /\ IsKeys(stored) /\ IsList(s.destinations)
  BY TypeFacts, SegmentSetFacts, DaysAssumption
<1>2. d \in Nat /\ today <= d
  <2>1. Later(group.start_date, today) \in Nat /\ today <= Later(group.start_date, today)
    BY <1>1 DEF Storable, Later
  <2>2. Dates(group) \in SUBSET Nat /\ Later(group.start_date, today) <= d
    BY <1>1, <2>1, DatesFacts DEF Dates
  <2>3. QED
    BY <1>1, <2>1, <2>2
<1>3. s.destinations # <<>>
  BY DEF Elements
<1>4. ~Incomplete(s, d)
  BY <1>3 DEF WholeRunCompletes, Remaining
<1>5. key \in stored
  <2>1. Keys(s, {d}) \subseteq stored
    BY <1>1, <1>4, CompleteIsStored
  <2>2. QED
    BY <2>1 DEF Keys
<1>6. key \in offers \/ key[3] < today - Week
  BY <1>5 DEF OffersStand
<1>7. QED
  BY <1>1, <1>2, <1>6

(* A sheet shows a segment whose offers are among its rows. *)
LEMMA SheetShows ==
  ASSUME TypeOK, WholeRunCompletes, OffersStand, whole, planned = NoPlan,
         NEW s \in SegmentSet(group), ~Repeats(s),
         NEW rowsOf, \A d \in AllDates : rowsOf[d] \in SUBSET offers,
         \A key \in offers :
           key[1] = s.origin /\ key[2] \in Elements(s.destinations) => key \in rowsOf[key[3]],
         NEW sheet, DOMAIN sheet = AllDates, \A d \in AllDates : sheet[d] = Cheapest(rowsOf[d]),
         NEW d \in Dates(group), NEW x \in Elements(s.destinations), <<s.origin, x, d>> \notin bare
  PROVE  d \in DOMAIN sheet /\ sheet[d] \in 1 .. Price[x]
<1> DEFINE key == <<s.origin, x, d>>
<1>1. key \in offers /\ key[1] = s.origin /\ key[2] = x /\ key[3] = d
  BY WantedHasOffers
<1>2. d \in AllDates
  BY <1>1 DEF AllDates
<1>3. key \in rowsOf[d] /\ rowsOf[d] \in SUBSET offers
  BY <1>1, <1>2
<1> HIDE DEF key
<1>4. Cheapest(rowsOf[d]) \in Nat \ {0} /\ Cheapest(rowsOf[d]) <= Price[key[2]]
  BY <1>3, CheapestFacts
<1>5. Price[x] \in Nat
  <2>1. s \in AllSegments
    BY TypeFacts
  <2>2. QED
    BY <2>1, PriceAssumption
<1>6. Cheapest(rowsOf[d]) \in 1 .. Price[x]
  BY <1>1, <1>4, <1>5
<1>7. QED
  BY <1>2, <1>6

(***************************************************************************)
(* The theorems.                                                           *)
(***************************************************************************)

(* An origin with work left shows less than all of its dates, but for rows the *)
(* group does not want; one that shows less has work left, but for             *)
(* destinations listed twice. get_progress and _filter_already_scraped count  *)
(* different rows, by different queries, over dates computed twice.           *)
THEOREM ProgressAgreesWithPlanHolds == Spec => []ProgressAgreesWithPlan
<1>1. TypeOK /\ Finite => ProgressAgreesWithPlan
  <2> SUFFICES ASSUME TypeOK, Finite, NEW o \in DOMAIN Progress.per_origin
               PROVE  LET less == Progress.per_origin[o].collected < Progress.per_origin[o].total
                      IN /\ HasWork(o) => less \/ HasUnwanted(o)
                         /\ less => HasWork(o) \/ CountsTwice(o)
    BY DEF ProgressAgreesWithPlan
  <2> DEFINE origins == {s.origin : s \in SegmentSet(group)}
             less == Progress.per_origin[o].collected < Progress.per_origin[o].total
  <2>1. Progress.per_origin = [x \in origins |-> [total |-> Expected(From(x)),
                                                  collected |-> Cardinality(Rows(x))]]
    BY DEF Progress, Rows
  <2>2. less <=> Cardinality(Rows(o)) < Cardinality(Counted(o))
    BY <2>1, CountedFacts
  <2>3. Cardinality(Rows(o)) \in Nat /\ Cardinality(Counted(o)) \in Nat
    BY CountedFacts, FS_Subset, FS_CardinalityType DEF Finite, Rows
  <2>4. HasWork(o) <=> \E i \in From(o) :
                         ListAt(i) # <<>> /\ Remaining(Segments(group)[i], Dates(group)) # {}
    <3>1. \A s : s \in SegmentSet(group) <=>
                 \E i \in DOMAIN Segments(group) : s = Segments(group)[i]
      BY DEF SegmentSet, Elements
    <3>2. QED
      BY <3>1 DEF HasWork, From, ListAt
  <2> HIDE DEF less
  <2>5. ASSUME HasWork(o), ~HasUnwanted(o)
        PROVE  less
    <3>1. SUFFICES ASSUME ~less PROVE FALSE
      OBVIOUS
    <3>2. Cardinality(Counted(o)) <= Cardinality(Rows(o))
      BY <2>2, <2>3, <3>1
    <3>3. PICK i \in From(o) :
            ListAt(i) # <<>> /\ Remaining(Segments(group)[i], Dates(group)) # {}
      BY <2>4, <2>5
    <3>4. QED
      BY <2>5, <3>2, <3>3, FullIsComplete
  <2>6. ASSUME less, ~CountsTwice(o)
        PROVE  HasWork(o)
    <3>1. SUFFICES ASSUME ~HasWork(o) PROVE FALSE
      OBVIOUS
    <3>2. \A i \in From(o) :
            ListAt(i) # <<>> => Remaining(Segments(group)[i], Dates(group)) = {}
      BY <2>4, <3>1
    <3>3. Cardinality(Counted(o)) <= Cardinality(Rows(o))
      BY <2>6, <3>2, CompleteCounts
    <3>4. QED
      BY <2>2, <2>3, <2>6, <3>3
  <2>7. QED
    BY <2>5, <2>6 DEF less
<1>2. QED
  BY <1>1, TypeCorrect, FiniteHolds, PTL

(* What a collection of the whole group finished is exported the same day:     *)
(* every date and destination of every segment has, on the sheet of its origin *)
(* or journey, its price or a cheaper one, unless an edit left the price        *)
(* without offers (export_route_group, cleanup_old_data).                    *)
THEOREM ExportCoversPlanHolds == Spec => []ExportCoversPlan
<1>1. TypeOK /\ WholeRunCompletes /\ OffersStand => ExportCoversPlan
  <2> SUFFICES ASSUME TypeOK, WholeRunCompletes, OffersStand, whole, planned = NoPlan
               PROVE  /\ \A o \in Elements(group.origins) :
                           LET s == [origin |-> o, destinations |-> group.destinations]
                           IN ~Repeats(s) /\ (group.trip_type = "multi_city" \/ o \in Titles) =>
                                Shows(Workbook.main, o, s)
                      /\ group.trip_type # "multi_city" =>
                           \A i \in DOMAIN group.special_sheets :
                             ~Repeats(group.special_sheets[i]) =>
                               Shows(Workbook.journeys, i, group.special_sheets[i])
    BY DEF ExportCoversPlan
  <2>1. Storable(group)
    BY TypeFacts
  <2>2. ASSUME NEW o \in Elements(group.origins),
               ~Repeats([origin |-> o, destinations |-> group.destinations]),
               group.trip_type = "multi_city" \/ o \in Titles
        PROVE  Shows(Workbook.main, o, [origin |-> o, destinations |-> group.destinations])
    <3> DEFINE s == [origin |-> o, destinations |-> group.destinations]
               main == [d \in AllDates |-> {key \in offers : key[1] = o /\ key[3] = d}]
    <3>1. s \in SegmentSet(group) /\ s.origin = o
      BY <2>1, SegmentSetFacts
    <3>2. ASSUME \E key \in offers : key[1] = o
          PROVE  o \in DOMAIN Workbook.main /\ Workbook.main[o] = OriginSheet(o)
      <4>1. offers # {} /\ o \in MultiCityTitles
        BY <3>2 DEF MultiCityTitles
      <4>2. CASE group.trip_type = "multi_city"
        BY <4>1, <4>2 DEF Workbook
      <4>3. CASE group.trip_type # "multi_city"
        BY <2>2, <4>1, <4>3 DEF Workbook
      <4>4. QED
        BY <4>2, <4>3
    <3>3. /\ \A d \in AllDates : main[d] \in SUBSET offers
          /\ \A d \in AllDates : OriginSheet(o)[d] = Cheapest(main[d])
          /\ DOMAIN OriginSheet(o) = AllDates
      BY DEF OriginSheet
    <3>4. \A key \in offers : key[1] = o => key \in main[key[3]]
      BY DEF AllDates
    <3> HIDE DEF s, main
    <3>5. ~Repeats(s)
      BY <2>2 DEF s
    <3>6. ASSUME NEW d \in Dates(group), NEW x \in Elements(s.destinations),
                 <<s.origin, x, d>> \notin bare
          PROVE  /\ o \in DOMAIN Workbook.main /\ d \in DOMAIN Workbook.main[o]
                 /\ Workbook.main[o][d] \in 1 .. Price[x]
      <4>1. <<o, x, d>> \in offers /\ <<o, x, d>>[1] = o
        BY <3>1, <3>5, <3>6, WantedHasOffers
      <4>2. o \in DOMAIN Workbook.main /\ Workbook.main[o] = OriginSheet(o)
        BY <3>2, <4>1
      <4>3. d \in DOMAIN OriginSheet(o) /\ OriginSheet(o)[d] \in 1 .. Price[x]
        BY <3>1, <3>3, <3>4, <3>5, <3>6, SheetShows
      <4>4. QED
        BY <4>2, <4>3
    <3>7. QED
      BY <3>6 DEF Shows, s
  <2>3. ASSUME group.trip_type # "multi_city", NEW i \in DOMAIN group.special_sheets,
               ~Repeats(group.special_sheets[i])
        PROVE  Shows(Workbook.journeys, i, group.special_sheets[i])
    <3> DEFINE s == group.special_sheets[i]
               journey == [d \in AllDates |->
                             {key \in offers : key[1] = s.origin
                                /\ key[2] \in Elements(s.destinations) /\ key[3] = d}]
    <3>1. s \in SegmentSet(group)
      BY <2>1, <2>3, SegmentSetFacts DEF Elements
    <3>2. ASSUME offers # {}
          PROVE  i \in DOMAIN Workbook.journeys /\ Workbook.journeys[i] = JourneySheet(s)
      BY <2>3, <3>2 DEF Workbook
    <3> HIDE DEF s
    <3>3. /\ \A d \in AllDates : journey[d] \in SUBSET offers
          /\ \A d \in AllDates : JourneySheet(s)[d] = Cheapest(journey[d])
          /\ DOMAIN JourneySheet(s) = AllDates
      BY DEF JourneySheet
    <3>4. \A key \in offers :
            key[1] = s.origin /\ key[2] \in Elements(s.destinations) => key \in journey[key[3]]
      BY DEF AllDates
    <3> HIDE DEF journey
    <3>5. ~Repeats(s)
      BY <2>3 DEF s
    <3>6. ASSUME NEW d \in Dates(group), NEW x \in Elements(s.destinations),
                 <<s.origin, x, d>> \notin bare
          PROVE  /\ i \in DOMAIN Workbook.journeys /\ d \in DOMAIN Workbook.journeys[i]
                 /\ Workbook.journeys[i][d] \in 1 .. Price[x]
      <4>1. <<s.origin, x, d>> \in offers
        BY <3>1, <3>5, <3>6, WantedHasOffers
      <4>2. i \in DOMAIN Workbook.journeys /\ Workbook.journeys[i] = JourneySheet(s)
        BY <3>2, <4>1
      <4>3. d \in DOMAIN JourneySheet(s) /\ JourneySheet(s)[d] \in 1 .. Price[x]
        BY <3>1, <3>3, <3>4, <3>5, <3>6, SheetShows
      <4>4. QED
        BY <4>2, <4>3
    <3>7. QED
      BY <3>6 DEF Shows, s
  <2>4. QED
    BY <2>2, <2>3
<1>2. Inv => TypeOK /\ OffersStand
  BY DEF Inv
<1>3. QED
  BY <1>1, <1>2, InvCorrect, WholeRunCompletesHolds, PTL
================================================================================
