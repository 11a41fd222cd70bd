------------------------------ MODULE PriceTable ------------------------------
(***************************************************************************)
(* What the price tables promise a reader: a key shows the cheapest price of   *)
(* one search and offers of no other search.  A search replaces both as a     *)
(* whole.  A clearing empties keys, but may leave those written while it was  *)
(* under way, with their offers or without.  PriceStore, the transactions     *)
(* behind the tables, implements this.                                       *)
(***************************************************************************)
CONSTANTS Key, Search

VARIABLE table      \* the searches a key's cheapest price and offers are from

Empty == [cheapest |-> 0, offers |-> {}]

Init == table = [k \in Key |-> Empty]

Replace(k, s) == table' = [table EXCEPT ![k] = [cheapest |-> s, offers |-> {s}]]

Bare(row) == [row EXCEPT !.offers = {}]

Clear == \E fate \in [Key -> {"keep", "strip", "empty"}] :
  table' = [k \in Key |-> CASE fate[k] = "keep" -> table[k]
                           [] fate[k] = "strip" -> Bare(table[k])
                           [] fate[k] = "empty" -> Empty]

Next == Clear \/ \E k \in Key, s \in Search : Replace(k, s)

Spec == Init /\ [][Next]_table
================================================================================
