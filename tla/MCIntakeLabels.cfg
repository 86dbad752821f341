SPECIFICATION Spec
CONSTANTS
  Stones = {s1, s2, s3}
  Counts = {2}
  Manual = {}
  Requests = {r1}
INVARIANTS LabelsDistinct
