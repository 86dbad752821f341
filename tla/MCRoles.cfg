SPECIFICATION Spec
CONSTANTS
  root = root
  alice = alice
  sell = sell
  Users <- Accounts
  Superusers = {root}
  Groups = {g1, g2, g3}
  Names = {"superadmin", "manager", "clerk"}
  NoName = "none"
  RankOf <- Rank
  Base = 1
  Top = 3
  Permissions = {sell}
  Gate = {}
  Matrix <- Declares
  Protected = {"superadmin"}
  Requests = {q1, q2}
  Holders = {alice}
  MaxHeld = 2
SYMMETRY Symmetric
INVARIANTS TypeOK ProtectedRoleIntact
PROPERTIES RankMovesOnlyFromAbove TopComesFromTop PermissionsStayBelow
