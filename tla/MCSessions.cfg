SPECIFICATION Spec
CONSTANTS
  Users = {u}
  SessionIds = {s1, s2}
  Tokens = {t1, t2}
  Requests = {q1, q2}
  IdleTimeout = 2
  AccessLife = 3
SYMMETRY Symmetric
INVARIANTS TypeOK TemporaryPasswordIsReplaced
PROPERTIES DeadSessionStaysDead CutOffStaysCutOff
