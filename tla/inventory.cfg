SPECIFICATION Spec
CONSTANTS
  p1 = p1
  p2 = p2
  g1 = g1
  down = down
  NoDoc = NoDoc
  Posters <- MCPosters
  Grns <- MCGrns
  Adjustments <- MCAdjustments
  Orders <- MCOrders
  Periods <- MCPeriods
  Quantities <- MCQuantities
  QtyOf <- MCQtyOf
  DateOf <- MCDateOf
  OpenDates <- MCOpenDates
  MaxLayers = 2
  MaxOpenings = 2
SYMMETRY MCSymmetry
INVARIANTS
  TypeOK
  LayerAccounting
  NeverOversold
  OldestFirst
  PostedOnce
  ConsumptionMatchesLedger
  BalanceMatchesLayers
PROPERTIES
  ImplementsBook
CHECK_DEADLOCK FALSE
