SPECIFICATION Spec
CONSTANTS
  s1 = s1
  s2 = s2
  c1 = c1
  c2 = c2
  t1 = t1
  t2 = t2
  NoCategory = NoCategory
  Stones <- MCStones
  Categories <- MCCategories
  Priced = {c1}
  StoneCount = 2
  Manual = {"on_hold"}
  Requests = {r1, r2}
  MaxEdits = 1
  Trx = {t1, t2}
  Charge <- MCCharge
  PaidAmount <- MCPaidAmount
SYMMETRY Symmetric
INVARIANTS TypeOK PaidExactlyWhenCovered PaidStonesAreSettled
PROPERTIES RedeliveryIsSilent ImplementsLedger
