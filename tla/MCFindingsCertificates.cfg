SPECIFICATION Spec
CONSTANTS
  Blank = Blank
  NoReport = NoReport
  Reports = {p1, p2}
  Texts = {Blank, a}
  Types = {x, y}
  Certs = {c1, c2}
  Requests = {q1}
SYMMETRY Symmetric
INVARIANTS OneCertificateInForce FinalReportIsCertified BenchQueueIsRight
