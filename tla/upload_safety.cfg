\* Two transfers to one target; clients that may ignore the offset RESUME grants.
SPECIFICATION Spec
CONSTANTS
  Transfers = {t1, t2}
  NoTransfer = NoTransfer
  Size = 4
  Capacity = 3
  Window = 3
  Careless = TRUE
  MaxUpsets = 3
SYMMETRY TransferSymmetry
INVARIANTS TypeOK LedgerHonest StagedMatchesCard PublishedIntact ConfirmedPublished SingleUpsetKeepsVersion
PROPERTIES OffersThisSession
