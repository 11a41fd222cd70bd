----------------------------- MODULE MCPriceStore -----------------------------
(* Small instances of PriceStore: interchangeable writers and keys. *)
EXTENDS PriceStore, TLC

Symmetry == Permutations(Writer) \cup Permutations(Key)
================================================================================
