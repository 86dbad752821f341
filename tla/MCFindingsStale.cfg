SPECIFICATION Spec
CONSTANTS
  Blank = Blank
  NoReport = NoReport
  Reports = {p1}
  Texts = {a}
  Types = {x}
  Certs = {c1}
  Requests = {q1, q2}
PROPERTIES FinalizeIsOneWay
