SPECIFICATION Spec
CONSTANTS
  Blank = Blank
  NoReport = NoReport
  Reports = {p1, p2}
  Texts = {a, b}
  Types = {x}
  Certs = {c1}
  Requests = {q1, q2}
SYMMETRY AlikeTexts
INVARIANTS TypeOK OneLiveReport
PROPERTIES IssuedForFinalReport SignOffLostToDraftEdit NormalEditsRefused CorrectionReachesCertificate
