SPECIFICATION Spec
CONSTANTS
  Rows = {o1, o2, o3, o4}
  Staff = {ana, bo}
  Receptionists = {ana}
  Registrars = {ana}
  Nobody = Nobody
  Requests = {r1, r2}
  FirstYear = 1
  LastYear = 2
  Limit = 2
  Leading = 1
SYMMETRY Symmetric
INVARIANTS TypeOK NumbersRunOn RefusedOrderLeavesNothing
