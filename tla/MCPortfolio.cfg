SPECIFICATION Spec
CONSTANTS
  Markets = {m1, m2}
  Lot = 2
  FillPrices = {1, 4}
  Mids = {2}
  MaxFills = 5
INVARIANTS
  TypeOK
  PnlIdentity
PROPERTIES
  ValueAddsUp
