------------------------------ MODULE GroupReports ------------------------------
(***************************************************************************)
(* What users are shown of a group, as functions of its state in             *)
(* GroupPlanning: the progress (services/route_group_service.py) and the       *)
(* spreadsheet (services/export_service.py).  Both derive what the group wants *)
(* again, with code of their own.                                           *)
(***************************************************************************)
EXTENDS GroupPlanning

CONSTANT Price      \* what a flight costs, by destination

ASSUME PriceAssumption ==
  \A s \in AllSegments : \A d \in Elements(s.destinations) : Price[d] \in Nat \ {0}

(***************************************************************************)
(* Faulty variants, used by no specification.                               *)
(***************************************************************************)

(* one day too many *)
ProgressDates_OneMore(g) ==
  LET start == IF g.start_date >= today THEN g.start_date ELSE today
      end == IF g.end_date # 0 THEN g.end_date ELSE start + g.days_ahead
  IN {start + i : i \in 0 .. end - start + 1}

(* the sheets of the group are left out of what is expected *)
From_OriginsOnly(o) ==
  {i \in DOMAIN Segments(group) : i \in DOMAIN group.origins /\ group.origins[i] = o}

(* a multi-city sheet for each entry of the map *)
Titles_MapOnly == group.sheet_name_map

(***************************************************************************)
(* get_progress                                                            *)
(***************************************************************************)

(* The dates of a group, computed a second time. *)
ProgressDates(g) ==
  LET start == Later(g.start_date, today)
      end == IF g.end_date # 0 THEN g.end_date ELSE start + Sooner(g.days_ahead, MaxDates)
      total_days == Sooner(end - start + 1, MaxDates)
  IN IF end < start THEN {} ELSE {start + i : i \in 0 .. total_days - 1}

(* The segments that leave from an origin, by position. *)
From(o) == {i \in DOMAIN Segments(group) : Segments(group)[i].origin = o}

(* Every destination of a list counts, for each date, in every segment. *)
Expected(positions) ==
  LET list(i) == Segments(group)[i].destinations
  IN Cardinality(UNION {{i} \X (DOMAIN list(i)) \X ProgressDates(group) : i \in positions})

(* Counts the rows of the group: any day, any destination. *)
Progress ==
  [total_dates |-> Expected(DOMAIN Segments(group)),
   dates_with_data |-> Cardinality(stored),
   per_origin |-> [o \in {s.origin : s \in SegmentSet(group)} |->
                     [total |-> Expected(From(o)),
                      collected |-> Cardinality({key \in stored : key[1] = o})]]]

(***************************************************************************)
(* export_route_group: the rows are those of all_flight_results.             *)
(***************************************************************************)

Blank == 0

Cheapest(rows) ==
  LET prices == {Price[key[2]] : key \in rows}
  IN IF rows = {} THEN Blank ELSE CHOOSE p \in prices : \A q \in prices : p <= q

AllDates == {key[3] : key \in offers}

(* Without a map, each origin names its own sheet. *)
Titles == IF group.sheet_name_map = {} THEN Elements(group.origins) ELSE group.sheet_name_map

(* The sheet of an origin takes every row that leaves from it. *)
OriginSheet(o) == [d \in AllDates |-> Cheapest({key \in offers : key[1] = o /\ key[3] = d})]

(* That of a special journey only its own destinations. *)
JourneySheet(sheet) ==
  [d \in AllDates |->
     Cheapest({key \in offers :
                 key[1] = sheet.origin /\ key[2] \in Elements(sheet.destinations) /\ key[3] = d})]

(* A multi-city workbook has a sheet for each origin that has rows: all rows   *)
(* carry itinerary data, which the export asks for.                          *)
MultiCityTitles == {key[1] : key \in offers}

NoData == [main |-> <<>>, journeys |-> <<>>]

Workbook ==
  CASE offers = {} -> NoData
    [] offers # {} /\ group.trip_type = "multi_city" ->
         [main |-> [o \in MultiCityTitles |-> OriginSheet(o)], journeys |-> <<>>]
    [] OTHER ->
         [main |-> [o \in Titles |-> OriginSheet(o)],
          journeys |-> [i \in DOMAIN group.special_sheets |->
                          JourneySheet(group.special_sheets[i])]]

(***************************************************************************)
(* Properties.                                                             *)
(***************************************************************************)

(* Rows of the group that it does not want: of days gone by, or of routes that *)
(* only a run still has that planned before an edit.                        *)
HasUnwanted(o) == \E key \in stored \ Wanted : key[1] = o

(* A destination that segments from o list more than once, together or alone. *)
CountsTwice(o) ==
  \E i, j \in From(o) :
    LET a == Segments(group)[i].destinations
        b == Segments(group)[j].destinations
    IN \E m \in DOMAIN a, n \in DOMAIN b : <<i, m>> # <<j, n>> /\ a[m] = b[n]

HasWork(o) ==
  \E s \in SegmentSet(group) :
    s.origin = o /\ s.destinations # <<>> /\ Remaining(s, Dates(group)) # {}

(* Progress and planning count different rows, by different queries, over      *)
(* dates computed twice; how far they agree (get_progress,                    *)
(* _filter_already_scraped).  An origin with work left, of a segment that has  *)
(* destinations, shows less than all of its dates, but for rows the group does *)
(* not want, which get_progress counts too.  One that shows less has work      *)
(* left, but for a destination that its segments list twice, of which          *)
(* get_progress expects two rows where one can be.                          *)
ProgressAgreesWithPlan ==
  \A o \in DOMAIN Progress.per_origin :
    LET less == Progress.per_origin[o].collected < Progress.per_origin[o].total IN
    /\ HasWork(o) => less \/ HasUnwanted(o)
    /\ less => HasWork(o) \/ CountsTwice(o)

(* The n-th sheet has a price for each date of the segment, the least or less, *)
(* unless an edit has left the price without offers.                         *)
Shows(sheets, n, s) ==
  \A d \in Dates(group), x \in Elements(s.destinations) :
    \/ <<s.origin, x, d>> \in bare
    \/ n \in DOMAIN sheets /\ d \in DOMAIN sheets[n] /\ sheets[n][d] \in 1 .. Price[x]

(* What a collection of the whole group finished is exported: the same day,    *)
(* for every date and destination of every segment, the sheet of its origin or *)
(* journey shows the cheapest price or a cheaper one, whatever was purged and   *)
(* whatever runs outlived an edit.  Two things the export leaves out: a price   *)
(* whose offers an edit deleted while a search stored it, which the filter      *)
(* takes for collected; and an origin that an update or the user left out of   *)
(* the sheet map (export_route_group, cleanup_old_data).                      *)
ExportCoversPlan ==
  whole /\ planned = NoPlan =>
    /\ \A o \in Elements(group.origins) :
         LET s == [origin |-> o, destinations |-> group.destinations]
         IN ~Repeats(s) /\ (group.trip_type = "multi_city" \/ o \in Titles) =>
              Shows(Workbook.main, o, s)
    /\ group.trip_type # "multi_city" =>
         \A i \in DOMAIN group.special_sheets :
           ~Repeats(group.special_sheets[i]) =>
             Shows(Workbook.journeys, i, group.special_sheets[i])
================================================================================
