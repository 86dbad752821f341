SPECIFICATION FairSpec
CONSTANTS
  payment = payment
  reconciliation = reconciliation
  t1 = t1
  t2 = t2
  t3 = t3
  b1 = b1
  b2 = b2
  NoEvent = NoEvent
  Events = {payment, reconciliation}
  Items = {t1, t2, t3}
  Bills = {b1, b2}
  Kind <- MCKind
  Carries <- MCCarries
  BillOf <- MCBillOf
  MaxCrashes = 2
INVARIANTS TypeOK ProcessedIsRecorded
PROPERTIES ImplementsFeed EveryCallbackCloses
