\* Two lists built, scheduled, extended, scheduled again, freed and used
\* again, while their chunks are handed out to each other.
SPECIFICATION FairSpec
CONSTANTS
  Addrs = {a1, a2, a3}
  NULL = NULL
  Steplists = {l1, l2}
INVARIANTS
  TypeOK
  WildOnlyOnceFreed
  ChainInv
  OwnershipInv
  IssuedWhole
PROPERTY WalksEnd
