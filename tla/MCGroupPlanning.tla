---------------------------- MODULE MCGroupPlanning ----------------------------
(* Small route groups: windows around day 1, sheets that share an origin or a  *)
(* destination with the main routes, an origin without an entry in the sheet   *)
(* map, a destination listed twice, and what only updates lead to: a multi-city *)
(* group without its return leg, a window that ends before it starts, no       *)
(* destinations.                                                           *)
EXTENDS GroupReports

Group(origins, destinations, sheets, trip, start, end, ahead, map) ==
  [origins |-> origins, destinations |-> destinations, special_sheets |-> sheets,
   trip_type |-> trip, start_date |-> start, end_date |-> end, days_ahead |-> ahead,
   sheet_name_map |-> map]

Sheet(origin, destinations) == [origin |-> origin, destinations |-> destinations]

MCGroups ==
  { Group(<<"A">>, <<"X", "Y">>, <<>>, "one_way", 0, 0, 1, {"A"}),
    Group(<<"A">>, <<"X">>, <<Sheet("A", <<"X", "Y">>)>>, "round_trip", 0, 2, 2, {}),
    Group(<<"A">>, <<"X">>, <<Sheet("A", <<"Y">>)>>, "one_way", 2, 2, 2, {"A"}),
    Group(<<"A", "B">>, <<"X">>, <<Sheet("Z", <<"A">>)>>, "multi_city", 0, 4, 1, {"A"}),
    Group(<<"A", "B">>, <<"X">>, <<>>, "multi_city", 0, 4, 1, {"A"}),
    Group(<<"A">>, <<"X">>, <<>>, "one_way", 3, 1, 2, {"A"}),
    Group(<<"A">>, <<"X", "X">>, <<>>, "one_way", 0, 0, 1, {"A"}),
    Group(<<"A">>, <<>>, <<Sheet("A", <<"X">>)>>, "one_way", 0, 1, 1, {"A"}) }

MCPrice == [d \in {"A", "X", "Y"} |-> CASE d = "A" -> 3 [] d = "X" -> 2 [] d = "Y" -> 1]
================================================================================
