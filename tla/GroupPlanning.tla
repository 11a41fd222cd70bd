----------------------------- MODULE GroupPlanning -----------------------------
(***************************************************************************)
(* What a collection plans for one route group: the dates and segments of the *)
(* group (tasks/scheduler.py, utils/route_segments.py) without what the       *)
(* completion filter finds in daily_cheapest_prices, over collections that    *)
(* store any part of what they planned, while days go by and users edit it.   *)
(*                                                                         *)
(* Days are numbers.  RouteBatch models how a planned segment is collected,   *)
(* PriceStore the statements that store its prices and clear them on an edit. *)
(***************************************************************************)
EXTENDS Integers, Sequences, FiniteSets

CONSTANTS
  Groups,       \* the route groups that users create and update
  MaxDates,     \* _MAX_DATES (730 in the code)
  Week,         \* how long offers stay after their day (7 in the code)
  LastDay,      \* bound on the days that go by, from day 1
  Overlap       \* bound on the prices a run stores while an edit is under way

ASSUME DaysAssumption ==
  MaxDates \in Nat \ {0} /\ Week \in Nat /\ LastDay \in Nat \ {0} /\ Overlap \in Nat

Elements(s) == {s[i] : i \in DOMAIN s}

IsList(s) == s \in Seq(Elements(s))

(* What creations and updates let through.  An update checks only the fields   *)
(* it carries: the window may end before it starts, destinations may be empty *)
(* or repeated, a multi-city group may have any number of sheets, origins may  *)
(* have no entry in the sheet map.  0 stands for a date that is not given.    *)
Storable(g) ==
  /\ g.trip_type \in {"one_way", "round_trip", "multi_city"}
  /\ g.start_date \in Nat /\ g.end_date \in Nat
  /\ g.days_ahead \in 1 .. MaxDates
  /\ IsList(g.origins) /\ IsList(g.destinations) /\ IsList(g.special_sheets)
  /\ \A i \in DOMAIN g.special_sheets :
       IsList(g.special_sheets[i].destinations) /\ g.special_sheets[i].destinations # <<>>

ASSUME GroupsAssumption == \A g \in Groups : Storable(g)

VARIABLES
  group,        \* the group
  today,        \* the current day
  stored,       \* keys <<origin, destination, day>> in daily_cheapest_prices
  offers,       \* those with rows in all_flight_results
  planned,      \* the run's planned segments not collected yet, as it read them
  whole,        \* history: the run under way, or the last, stores all its keys, was
                \* asked for the whole group, and neither day nor group has changed
  outlived,     \* history: a run has stored prices of a segment that an edit had
                \* removed since it planned, and no edit has cleared them
  bare          \* history: the keys whose offers, but not whose price, the last edit
                \* that cleared the group deleted, and no run has stored since

vars == <<group, today, stored, offers, planned, whole, outlived, bare>>

(***************************************************************************)
(* Faulty variants, each of one definition below, used by no specification.  *)
(***************************************************************************)

(* the rows of other segments with the same origin count *)
Found_AnyDestination(segment, d) == {key \in stored : key[1] = segment.origin /\ key[3] = d}

(* one more row is wanted than there are destinations *)
Incomplete_OneMore(segment, d) ==
  Cardinality({key \in stored : key[1] = segment.origin /\ key[3] = d
                  /\ key[2] \in Elements(segment.destinations)}) <= Len(segment.destinations)

(* a long window is taken whole *)
Dates_Uncapped(g) ==
  LET first == IF g.start_date >= today THEN g.start_date ELSE today
  IN first .. IF g.end_date # 0 THEN g.end_date ELSE first + g.days_ahead

(* a change of the destinations alone is not noticed *)
Identity_NoDestinations(g) ==
  <<g.origins, g.special_sheets, g.trip_type, g.start_date, g.end_date, g.days_ahead>>

(* the purge takes the last day it should leave *)
PurgeOffers_OneMoreDay ==
  /\ offers' = {key \in offers : key[3] > today - Week}
  /\ UNCHANGED <<group, today, stored, planned, whole, outlived, bare>>

(***************************************************************************)
(* Dates, segments, filter.                                                *)
(***************************************************************************)

Later(a, b) == IF a >= b THEN a ELSE b
Sooner(a, b) == IF a <= b THEN a ELSE b

(* _group_dates *)
Dates(g) ==
  LET first == Later(g.start_date, today)
      last == IF g.end_date # 0 THEN g.end_date ELSE first + Sooner(g.days_ahead, MaxDates)
  IN first .. Sooner(last, first + MaxDates - 1)

(* iter_group_segments: the sheets of a multi-city group only name the return *)
(* leg; those of another group are routes of their own.                      *)
Segments(g) ==
  [i \in DOMAIN g.origins |-> [origin |-> g.origins[i], destinations |-> g.destinations]]
  \o IF g.trip_type = "multi_city" THEN <<>>
     ELSE g.special_sheets

SegmentSet(g) == Elements(Segments(g))

(* The rows the filter's query groups by date. *)
Found(segment, d) ==
  {key \in stored :
     /\ key[1] = segment.origin
     /\ key[2] \in Elements(segment.destinations)
     /\ key[3] = d}

(* _filter_already_scraped compares with the length of the list. *)
Incomplete(segment, d) ==
  segment.destinations = <<>> \/ Cardinality(Found(segment, d)) < Len(segment.destinations)

Remaining(segment, dates) == {d \in dates : Incomplete(segment, d)}

Keys(segment, dates) == {segment.origin} \X Elements(segment.destinations) \X dates

NoPlan == <<>>

(* RouteGroupCreate checks the fields together; without a sheet map, create    *)
(* makes one of the origins.                                                *)
Creatable(g) ==
  /\ g.origins # <<>> /\ g.destinations # <<>>
  /\ g.start_date # 0 /\ g.end_date # 0 => g.start_date <= g.end_date
  /\ g.trip_type = "multi_city" => Len(g.special_sheets) = 1
  /\ g.sheet_name_map # {}

Init ==
  /\ group \in {g \in Groups : Creatable(g)}
  /\ today = 1
  /\ stored = {} /\ offers = {}
  /\ planned = NoPlan
  /\ whole = FALSE
  /\ outlived = FALSE
  /\ bare = {}

(***************************************************************************)
(* Collections.                                                            *)
(***************************************************************************)

(* A run plans all segments before it collects any; a single date is planned  *)
(* whatever the window of the group.                                        *)
Plan(dates) ==
  LET segments == Segments(group)
      left(i) == Remaining(segments[i], dates)
  IN
  /\ planned = NoPlan
  /\ planned' = [i \in {j \in DOMAIN segments : left(j) # {}} |->
                   [segment |-> segments[i], dates |-> left(i)]]
  /\ whole' = (dates = Dates(group))
  /\ UNCHANGED <<group, today, stored, offers, outlived, bare>>

PlanGroup == Plan(Dates(group))

PlanDate == \E d \in 1 .. LastDay + MaxDates : Plan({d})

(* The planned segments are collected in the order of their score; the       *)
(* searches of one find any of its prices.  The run has the group in memory:   *)
(* an edit since it planned does not change what it collects.                *)
CollectSegment(i) ==
  LET keys == Keys(planned[i].segment, planned[i].dates) IN
  /\ \E found \in SUBSET keys :
       /\ stored' = stored \cup found
       /\ offers' = offers \cup found
       /\ bare' = bare \ found
       /\ whole' = (whole /\ found = keys)
       /\ outlived' = (outlived \/ (found # {} /\ planned[i].segment \notin SegmentSet(group)))
  /\ planned' = [j \in DOMAIN planned \ {i} |-> planned[j]]
  /\ UNCHANGED <<group, today>>

(* A stop, an error or a crash ends the run. *)
Abandon ==
  /\ planned # NoPlan
  /\ planned' = NoPlan
  /\ whole' = FALSE
  /\ UNCHANGED <<group, today, stored, offers, outlived, bare>>

Midnight ==
  /\ today < LastDay
  /\ today' = today + 1
  /\ whole' = FALSE
  /\ UNCHANGED <<group, stored, offers, planned, outlived, bare>>

(* cleanup_old_data deletes old offers.  Prices stay. *)
PurgeOffers ==
  /\ offers' = {key \in offers : key[3] >= today - Week}
  /\ UNCHANGED <<group, today, stored, planned, whole, outlived, bare>>

(***************************************************************************)
(* Edits.                                                                  *)
(***************************************************************************)

(* _ROUTE_IDENTITY_FIELDS, as far as the model has them. *)
Identity(g) ==
  <<g.origins, g.destinations, g.special_sheets, g.trip_type,
    g.start_date, g.end_date, g.days_ahead>>

(* RouteGroupUpdate checks two fields together only if it carries both; a     *)
(* field it does not carry, or carries as null, keeps its value.             *)
Accepted(g, h) ==
  /\ g.start_date # 0 => h.start_date # 0
  /\ g.end_date # 0 => h.end_date # 0
  /\ h.start_date # g.start_date /\ h.end_date # g.end_date => h.start_date <= h.end_date
  /\ h.trip_type = "multi_city" /\ h.trip_type # g.trip_type /\ h.special_sheets # g.special_sheets
       => Len(h.special_sheets) = 1

(* _clear_group_collection_data, as one step (PriceStore has its statements;   *)
(* this is what PriceTable allows).  Prices that a run stores while the edit   *)
(* is under way may survive it, with their offers or without.                *)
Clear(g) ==
  \/ stored' = {} /\ offers' = {} /\ bare' = {} /\ outlived' = FALSE
  \/ \E i \in DOMAIN planned :
       \E late \in SUBSET Keys(planned[i].segment, planned[i].dates) :
         /\ Cardinality(late) \in 1 .. Overlap
         /\ stored' = late
         /\ bare' \in SUBSET late
         /\ offers' = late \ bare'
         /\ outlived' = (planned[i].segment \notin SegmentSet(g))

(* update: what is stored goes when the identity changes. *)
UpdateGroup ==
  \E g \in Groups \ {group} :
    /\ Accepted(group, g)
    /\ group' = g
    /\ IF Identity(g) # Identity(group)
         THEN whole' = FALSE /\ Clear(g)
         ELSE UNCHANGED <<stored, offers, whole, outlived, bare>>
    /\ UNCHANGED <<today, planned>>

Next ==
  \/ PlanGroup
  \/ PlanDate
  \/ \E i \in DOMAIN planned : CollectSegment(i)
  \/ Abandon
  \/ Midnight
  \/ PurgeOffers
  \/ UpdateGroup

Spec == Init /\ [][Next]_vars

(***************************************************************************)
(* Properties.                                                             *)
(***************************************************************************)

(* A price that a segment asks for, on some day. *)
AsksFor(s, key) == key[3] \in Nat /\ key \in Keys(s, {key[3]})

AllSegments == UNION {SegmentSet(g) : g \in Groups}

(* Only prices of some group's segments are stored or planned, no plan has      *)
(* more dates than _MAX_DATES, and there are no offers without a price.       *)
TypeOK ==
  /\ group \in Groups
  /\ today \in 1 .. LastDay
  /\ \A key \in stored : \E s \in AllSegments : AsksFor(s, key)
  /\ offers \in SUBSET stored /\ bare \in SUBSET stored
  /\ \A i \in DOMAIN planned :
       /\ planned[i] \in [segment : AllSegments, dates : SUBSET Nat]
       /\ Cardinality(planned[i].dates) \in 1 .. MaxDates
  /\ whole \in BOOLEAN
  /\ outlived \in BOOLEAN

(* Prices the group wants, today.  Sheets of a multi-city group want none. *)
Wanted ==
  LET routes ==
        {[origin |-> o, destinations |-> group.destinations] : o \in Elements(group.origins)}
      sheets == IF group.trip_type = "multi_city" THEN {} ELSE Elements(group.special_sheets)
  IN UNION {Keys(r, Dates(group)) : r \in routes \cup sheets}

(* A collection of the whole group forgets nothing: whatever prices it finds   *)
(* stored, under whichever segment and by runs that outlived an edit, the ones *)
(* the group wants and does not have are in its plan (trigger_single_group,   *)
(* _filter_already_scraped).                                               *)
NothingForgotten ==
  [][PlanGroup =>
       \A key \in Wanted \ stored :
         \E i \in DOMAIN planned' : key \in Keys(planned'[i].segment, planned'[i].dates)]_vars

Begins == planned = NoPlan /\ planned' # NoPlan

Repeats(segment) == Cardinality(Elements(segment.destinations)) # Len(segment.destinations)

(* README: "fully scraped groups are skipped automatically": each date        *)
(* planned for a segment lacks a price, or the segment has no destinations or  *)
(* lists one twice, which the filter can never find complete.               *)
CompleteIsSkipped ==
  [][Begins =>
       \A i \in DOMAIN planned' : \A d \in planned'[i].dates :
         LET s == planned'[i].segment
         IN \/ ~(Keys(s, {d}) \subseteq stored)
            \/ s.destinations = <<>> \/ Repeats(s)]_vars

(* A collection that stores all it planned completes the group: the same day  *)
(* nothing is left to plan, however the segments overlap.                    *)
WholeRunCompletes ==
  whole /\ planned = NoPlan =>
    \A s \in SegmentSet(group) :
      s.destinations # <<>> /\ ~Repeats(s) => Remaining(s, Dates(group)) = {}

(* What is stored belongs to the group as it is: an edit that changes what is  *)
(* collected clears what was, except for what a run that it overtook stores   *)
(* afterwards (_ROUTE_IDENTITY_FIELDS, _clear_group_collection_data).          *)
StoredBelongs ==
  outlived \/ \A key \in stored : \E s \in SegmentSet(group) : AsksFor(s, key)
================================================================================
