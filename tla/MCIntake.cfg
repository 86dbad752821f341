SPECIFICATION Spec
CONSTANTS
  Stones = {s1, s2}
  Counts = {0, 1, 2}
  Manual = {"certified", "collected", "on_hold", "cancelled"}
  Requests = {r1}
SYMMETRY Symmetric
INVARIANTS TypeOK StageFilterAgrees QueuesMatchStages
