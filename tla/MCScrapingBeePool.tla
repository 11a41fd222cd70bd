--------------------------- MODULE MCScrapingBeePool ---------------------------
(* Small instances of ScrapingBeePool: interchangeable calls. *)
EXTENDS ScrapingBeePool, TLC

Symmetry == Permutations(Call)
================================================================================
