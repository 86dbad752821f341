SPECIFICATION ReportsSpec
CONSTANTS
  Trx = {t1, t2}
  Amounts = {1, 2}
  Total = 2
  NoTime = NoTime
  LastInstant = 3
  DayLength = 2
  Offset = 1
  LastDay = 2
  MaxGone = 1
SYMMETRY Symmetric
INVARIANTS ReportsTypeOK OutstandingIsOwed RangesAddUp
