CONSTANTS
  Key = {k1, k2}
  Writer = {w1, w2}
  Search = {1, 2}
  MaxVersion = 2
  Edits = {"update", "delete"}
  Past = {k1}
SPECIFICATION FairSpec
INVARIANTS
  TypeOK
  OffersOfCheapest
  NothingOutlivesGroup
  OnlyDeletionCircles
PROPERTIES
  ImplementsPriceTable
  TransactionsEnd
