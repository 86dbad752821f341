---------------------------- MODULE FindingsProofs --------------------------
(***************************************************************************)
(* Theorems about Findings for every number of report rows, certificate    *)
(* rows and requests, however the requests overlap.                        *)
(***************************************************************************)
EXTENDS Findings, TLAPS

\* Only a stone edit may be about no report.
RequestsHaveReports ==
  \A q \in Requests : req[q].kind \in {"create", "update", "finalize", "instrument"}
                        => req[q].report \in Reports

\* What an edit of a certificate read is still the same certificate.
RequestsHaveCerts ==
  \A q \in Requests : req[q].kind = "certificate" =>
    LET c == req[q].cert IN
    /\ req[q].seen.state # "none"
    /\ cert[c].state # "none" /\ cert[c].report = req[q].seen.report

\* Whoever edits a report read as final, or its stone, or its instruments, may
\* correct it.
RequestsPassedChecks ==
  \A q \in Requests :
    \/ req[q].kind = "instrument"
    \/ req[q].kind \in {"update", "stone"} /\ req[q].seen.final
    => req[q].trusted

UnusedCertsAreBlank == \A c \in Certs : cert[c].state = "none" => cert[c] = NoCert

\* A request that read a final report read it after a certificate was issued for
\* that report, which is still the one it will write.
SeenFinalIsCertified ==
  CertifiedOnce =>
    \A q \in Requests : req[q].kind = "update" /\ req[q].seen.final
                          => \E c \in Certs : cert[c].report = req[q].report

\* The inductive invariant.
IInv ==
  /\ TypeOK
  /\ RequestsHaveReports
  /\ RequestsHaveCerts
  /\ RequestsPassedChecks
  /\ UnusedCertsAreBlank
  /\ OneLiveReport
  /\ OneCertificateInForce
  /\ SeenFinalIsCertified
  /\ FinalReportIsCertified

-----------------------------------------------------------------------------
(* Facts about the operators.                                              *)

\* A request that will write is a proper one.
LEMMA Pending ==
  ASSUME TypeOK, NEW q \in Requests
  PROVE  /\ req[q].kind = "certificate" => req[q] \in CertRequest /\ req[q] # NoRequest
         /\ req[q].kind \in {"create", "update", "finalize", "stone", "instrument"}
              => req[q] \in Request /\ req[q] # NoRequest
<1>1. req[q] \in Request \/ req[q] \in CertRequest \/ req[q] = NoRequest
  BY DEF TypeOK
<1>2. CASE req[q] \in Request
  BY <1>2 DEF Request, NoRequest
<1>3. CASE req[q] \in CertRequest
  BY <1>3 DEF CertRequest, NoRequest
<1>4. CASE req[q] = NoRequest
  BY <1>4 DEF NoRequest
<1> QED
  BY <1>1, <1>2, <1>3, <1>4

\* Stone.report is a live report, when there is one.
LEMMA LiveOfIsLive ==
  ASSUME NEW rows, LiveIn(rows) # {}
  PROVE  LiveOf(rows) \in LiveIn(rows)
BY DEF LiveOf

LEMMA LiveOfType == ASSUME NEW rows PROVE LiveOf(rows) \in Reports \cup {NoReport}
<1>1. CASE LiveIn(rows) = {}
  BY <1>1 DEF LiveOf
<1>2. CASE LiveIn(rows) # {}
  BY <1>2, LiveOfIsLive DEF LiveIn
<1> QED
  BY <1>1, <1>2

\* With at most one live report, the signed live report is Stone.report.
LEMMA SignedIsLiveOf ==
  ASSUME NEW rows, \A p, q \in LiveIn(rows) : p = q, Signed(rows)
  PROVE  LiveOf(rows) \in Reports /\ rows[LiveOf(rows)].state = "live"
         /\ rows[LiveOf(rows)].final
<1>1. PICK p \in LiveIn(rows) : rows[p].final
  BY DEF Signed
<1>2. LiveOf(rows) = p
  BY <1>1, LiveOfIsLive
<1> QED
  BY <1>1, <1>2 DEF LiveIn

-----------------------------------------------------------------------------
LEMMA InitIInv == Init => IInv
<1> SUFFICES ASSUME Init PROVE IInv
  OBVIOUS
<1>1. TypeOK
  BY DEF Init, TypeOK, NoRow, NoCert, Row, Cert, AnyText, AnyType
<1>2. /\ RequestsHaveReports /\ RequestsHaveCerts /\ RequestsPassedChecks
      /\ SeenFinalIsCertified
  BY DEF Init, NoRequest, RequestsHaveReports, RequestsHaveCerts, RequestsPassedChecks,
     SeenFinalIsCertified
<1>3. OneLiveReport /\ OneCertificateInForce /\ FinalReportIsCertified /\ UnusedCertsAreBlank
  BY DEF Init, OneLiveReport, OneCertificateInForce, FinalReportIsCertified,
     UnusedCertsAreBlank, LiveIn, NoRow, NoCert, Ours
<1> QED
  BY <1>1, <1>2, <1>3 DEF IInv

-----------------------------------------------------------------------------
(* A step that starts a request keeps the invariant.                       *)

\* What the checks have established of the request r.
Checked(r) ==
  /\ r \in Request \cup CertRequest
  /\ r.kind \in {"create", "update", "finalize", "instrument"} => r.report \in Reports
  /\ r.kind = "certificate" => cert[r.cert] = r.seen /\ r.seen.state # "none"
  /\ r.kind = "update" => r.report \in Reports /\ r.seen = report[r.report]
  /\ \/ r.kind = "instrument"
     \/ r.kind \in {"update", "stone"} /\ r.seen.final
     => r.trusted

LEMMA StartStep ==
  ASSUME IInv, NEW q \in Requests, NEW r, Checked(r), Start(q, r)
  PROVE  IInv'
<1> USE DEF IInv, Start, Checked
<1>1. TypeOK'
  BY DEF TypeOK
<1>2. \A k \in Requests : req'[k] = IF k = q THEN r ELSE req[k]
  BY DEF TypeOK
<1>3. RequestsHaveReports' /\ RequestsHaveCerts' /\ RequestsPassedChecks'
  BY <1>2 DEF RequestsHaveReports, RequestsHaveCerts, RequestsPassedChecks
<1>4. OneLiveReport' /\ OneCertificateInForce' /\ FinalReportIsCertified'
      /\ UnusedCertsAreBlank'
  BY DEF OneLiveReport, OneCertificateInForce, FinalReportIsCertified, CertifiedOnce,
     UnusedCertsAreBlank, LiveIn, Ours
<1>5. SeenFinalIsCertified'
  BY <1>2 DEF SeenFinalIsCertified, FinalReportIsCertified, CertifiedOnce, Ours
<1> QED
  BY <1>1, <1>3, <1>4, <1>5

LEMMA BeginStep ==
  ASSUME IInv, NEW q \in Requests, Begin(q)
  PROVE  IInv'
<1> USE DEF IInv
<1>0. \A p \in Reports : report[p] \in Row
  BY DEF TypeOK
<1>1. ASSUME NEW p \in Reports, NEW text \in Texts, NEW t \in Types,
             NEW hasType \in BOOLEAN, BeginCreate(q, p, text, t, hasType)
      PROVE  IInv'
  <2> DEFINE r == [kind |-> "create", report |-> p, seen |-> NoRow, text |-> text,
                   type |-> IF hasType THEN t ELSE type, hasType |-> hasType,
                   trusted |-> FALSE]
  <2>1. r \in Request
    BY DEF Request, Row, NoRow, AnyText, AnyType, TypeOK
  <2>2. Start(q, r)
    BY <1>1 DEF BeginCreate
  <2>3. Checked(r)
    BY <2>1 DEF Checked
  <2> QED
    BY <2>2, <2>3, StartStep
<1>2. ASSUME NEW p \in Reports, NEW text \in Texts, NEW t \in Types,
             NEW hasType \in BOOLEAN, NEW trusted \in BOOLEAN,
             BeginUpdate(q, p, text, t, hasType, trusted)
      PROVE  IInv'
  <2> DEFINE r == [kind |-> "update", report |-> p, seen |-> report[p], text |-> text,
                   type |-> IF hasType THEN t ELSE type, hasType |-> hasType,
                   trusted |-> trusted]
  <2>1. r \in Request
    BY <1>0 DEF Request, AnyText, AnyType, TypeOK
  <2>2. Start(q, r)
    BY <1>2 DEF BeginUpdate
  <2>3. Checked(r)
    BY <1>2, <2>1 DEF Checked, BeginUpdate
  <2> QED
    BY <2>2, <2>3, StartStep
<1>3. ASSUME NEW p \in Reports, BeginFinalize(q, p)
      PROVE  IInv'
  <2> DEFINE r == [kind |-> "finalize", report |-> p, seen |-> NoRow,
                   text |-> report[p].text, type |-> type, hasType |-> FALSE,
                   trusted |-> FALSE]
  <2>1. r \in Request
    BY <1>0 DEF Request, Row, NoRow, AnyText, TypeOK
  <2>2. Start(q, r)
    BY <1>3 DEF BeginFinalize
  <2>3. Checked(r)
    BY <2>1 DEF Checked
  <2> QED
    BY <2>2, <2>3, StartStep
<1>4. ASSUME NEW t \in Types, NEW trusted \in BOOLEAN, BeginStone(q, t, trusted)
      PROVE  IInv'
  <2> DEFINE p == LiveOf(report)
             seen == IF p = NoReport THEN NoRow ELSE report[p]
             r == [kind |-> "stone", report |-> p, seen |-> seen, text |-> Blank,
                   type |-> t, hasType |-> TRUE, trusted |-> trusted]
  <2>1. p \in Reports \cup {NoReport}
    BY LiveOfType
  <2>2. seen \in Row
    BY <1>0, <2>1 DEF NoRow, Row, AnyText
  <2>3. seen.final => trusted
    <3>1. p # NoReport => p \in LiveIn(report)
      BY LiveOfIsLive DEF LiveOf
    <3>2. seen.final => p # NoReport /\ report[p].final
      BY DEF NoRow
    <3> QED
      BY <1>4, <3>1, <3>2 DEF BeginStone, Signed
  <2>4. Start(q, r)
    BY <1>4 DEF BeginStone
  <2> HIDE DEF seen, p
  <2>5. r \in Request
    BY <2>1, <2>2 DEF Request, AnyText, AnyType
  <2>6. Checked(r)
    BY <2>3, <2>5 DEF Checked
  <2> QED
    BY <2>4, <2>6, StartStep
<1>5. ASSUME NEW p \in Reports, BeginInstrument(q, p)
      PROVE  IInv'
  <2> DEFINE r == [kind |-> "instrument", report |-> p, seen |-> report[p],
                   text |-> Blank, type |-> Blank, hasType |-> FALSE,
                   trusted |-> TRUE]
  <2>1. r \in Request
    BY <1>0 DEF Request, AnyText, AnyType
  <2>2. Start(q, r)
    BY <1>5 DEF BeginInstrument
  <2>3. Checked(r)
    BY <2>1 DEF Checked
  <2> QED
    BY <2>2, <2>3, StartStep
<1>6. ASSUME NEW c \in Certs, NEW here \in BOOLEAN, BeginMove(q, c, here)
      PROVE  IInv'
  <2> DEFINE r == [kind |-> "certificate", cert |-> c, seen |-> cert[c], here |-> here]
  <2>1. r \in CertRequest
    BY DEF CertRequest, TypeOK
  <2>2. Start(q, r)
    BY <1>6 DEF BeginMove
  <2>3. Checked(r)
    BY <1>6, <2>1 DEF Checked, BeginMove
  <2> QED
    BY <2>2, <2>3, StartStep
<1> QED
  BY <1>1, <1>2, <1>3, <1>4, <1>5, <1>6 DEF Begin

-----------------------------------------------------------------------------
(* The write of a request keeps the invariant.                             *)

\* Once its request is done, the other requests are as they were.
LEMMA OthersUnchanged ==
  ASSUME TypeOK, NEW q \in Requests, Done(q)
  PROVE  \A k \in Requests : req'[k] = NoRequest \/ req'[k] = req[k]
BY DEF TypeOK, Done

\* No step takes a certificate away or lets it cite another report.
CertsKept ==
  \A c \in Certs :
    /\ cert[c].state # "none" => cert'[c].state # "none" /\ cert'[c].report = cert[c].report
    /\ cert'[c].state = "none" => cert'[c] = NoCert

\* A step that keeps the certificates, and each request or ends it, keeps the
\* conjuncts about requests, and no second certificate is unmade.
LEMMA RequestsStep ==
  ASSUME IInv, CertsKept, \A k \in Requests : req'[k] = NoRequest \/ req'[k] = req[k]
  PROVE  /\ RequestsHaveReports' /\ RequestsHaveCerts' /\ RequestsPassedChecks'
         /\ SeenFinalIsCertified'
         /\ CertifiedOnce' => CertifiedOnce
         /\ \A c \in Certs : Ours(c) => cert'[c].report = cert[c].report
<1> USE DEF IInv
<1>1. \A c \in Certs : Ours(c) => cert[c].state # "none" /\ cert'[c].report = cert[c].report
  BY DEF CertsKept, UnusedCertsAreBlank, NoCert, Ours
<1>2. CertifiedOnce' => CertifiedOnce
  BY <1>1 DEF CertifiedOnce, Ours
<1>3. RequestsHaveReports' /\ RequestsPassedChecks'
  BY DEF RequestsHaveReports, RequestsPassedChecks, NoRequest
<1>4. RequestsHaveCerts'
  <2> SUFFICES ASSUME NEW q \in Requests, req'[q].kind = "certificate"
               PROVE  LET c == req'[q].cert IN
                      /\ req'[q].seen.state # "none"
                      /\ cert'[c].state # "none" /\ cert'[c].report = req'[q].seen.report
    BY DEF RequestsHaveCerts
  <2>1. req'[q] = req[q]
    BY DEF NoRequest
  <2>2. req[q].cert \in Certs
    BY <2>1, Pending DEF CertRequest
  <2> QED
    BY <2>1, <2>2 DEF RequestsHaveCerts, CertsKept
<1>5. SeenFinalIsCertified'
  <2> SUFFICES ASSUME CertifiedOnce', NEW q \in Requests, req'[q].kind = "update",
                      req'[q].seen.final
               PROVE  \E c \in Certs : cert'[c].report = req'[q].report
    BY DEF SeenFinalIsCertified
  <2>1. req'[q] = req[q]
    BY DEF NoRequest
  <2>2. PICK c \in Certs : cert[c].report = req[q].report
    BY <1>2, <2>1 DEF SeenFinalIsCertified
  <2>3. req[q].report # NoReport
    BY <2>1, ConstantsAssumption DEF RequestsHaveReports
  <2> QED
    BY <1>1, <2>1, <2>2, <2>3 DEF Ours
<1> QED
  BY <1>1, <1>2, <1>3, <1>4, <1>5

\* What is cited stays cited.
LEMMA CitedStep ==
  ASSUME IInv, CertsKept, \A k \in Requests : req'[k] = NoRequest \/ req'[k] = req[k],
         \A p \in Reports : report'[p].final => report[p].final
  PROVE  FinalReportIsCertified'
<1> USE DEF IInv
<1> SUFFICES ASSUME CertifiedOnce', NEW p \in Reports, report'[p].final
             PROVE  \E c \in Certs : cert'[c].report = p
  BY DEF FinalReportIsCertified
<1>1. PICK c \in Certs : cert[c].report = p
  BY RequestsStep DEF FinalReportIsCertified
<1>2. Ours(c)
  BY <1>1, ConstantsAssumption DEF Ours
<1> QED
  BY <1>1, <1>2, RequestsStep

\* A correction rewrites the words of the certificate in force that cites the
\* report, and nothing else.
LEMMA RefreshedKeeps ==
  ASSUME TypeOK, NEW p, NEW text \in AnyText, NEW t \in AnyType
  PROVE  /\ Refreshed(p, text, t) \in [Certs -> Cert]
         /\ \A c \in Certs :
              /\ Refreshed(p, text, t)[c].state = cert[c].state
              /\ Refreshed(p, text, t)[c].here = cert[c].here
              /\ Refreshed(p, text, t)[c].report = cert[c].report
              /\ IF cert[c].state = "issued" /\ cert[c].report = p
                   THEN Refreshed(p, text, t)[c].text = text
                        /\ Refreshed(p, text, t)[c].type = t
                   ELSE Refreshed(p, text, t)[c] = cert[c]
BY DEF TypeOK, Refreshed, Cert

\* A step that leaves every certificate's state, stone and report alone.
LEMMA SamePlaces ==
  ASSUME IInv, \/ cert' = cert
               \/ \E p : \E text \in AnyText, t \in AnyType : cert' = Refreshed(p, text, t)
  PROVE  /\ cert' \in [Certs -> Cert]
         /\ \A c \in Certs : /\ cert'[c].state = cert[c].state /\ cert'[c].here = cert[c].here
                             /\ cert'[c].report = cert[c].report
         /\ OneCertificateInForce'
         /\ CertsKept
<1> USE DEF IInv
<1> DEFINE Same == /\ cert' \in [Certs -> Cert]
                   /\ \A c \in Certs :
                        /\ cert'[c].state = cert[c].state /\ cert'[c].here = cert[c].here
                        /\ cert'[c].report = cert[c].report
                        /\ cert[c].state = "none" => cert'[c] = cert[c]
<1>1. Same
  <2>1. CASE cert' = cert
    BY <2>1 DEF TypeOK
  <2>2. ASSUME NEW p, NEW text \in AnyText, NEW t \in AnyType,
               cert' = Refreshed(p, text, t)
        PROVE  Same
    BY <2>2, RefreshedKeeps
  <2> QED
    BY <2>1, <2>2
<1>2. \A c \in Certs : /\ cert'[c].state = cert[c].state /\ cert'[c].here = cert[c].here
                       /\ cert'[c].report = cert[c].report
  BY <1>1
<1>3. \A c \in Certs : cert[c].state = "none" => cert'[c] = cert[c]
  BY <1>1
<1>4. OneCertificateInForce'
  BY <1>2 DEF OneCertificateInForce, Ours
<1>5. CertsKept
  BY <1>2, <1>3 DEF CertsKept, UnusedCertsAreBlank
<1> QED
  BY <1>1, <1>2, <1>4, <1>5

\* The edits of a report, of its stone and of its instruments refresh the
\* certificate or leave it alone.
LEMMA RefreshingStep ==
  ASSUME IInv, NEW q \in Requests, EndUpdate(q) \/ EndStone(q) \/ EndInstrument(q)
  PROVE  \/ cert' = cert
         \/ \E p : \E text \in AnyText, t \in AnyType : cert' = Refreshed(p, text, t)
<1>1. req[q] \in Request
  BY Pending DEF IInv, EndUpdate, EndStone, EndInstrument
<1>2. /\ req[q].text \in AnyText /\ req[q].type \in AnyType
      /\ req[q].seen.text \in AnyText /\ type \in AnyType
  BY <1>1 DEF IInv, Request, Row, TypeOK
<1>3. CASE EndUpdate(q)
  BY <1>2, <1>3 DEF EndUpdate
<1>4. CASE EndStone(q)
  BY <1>2, <1>4 DEF EndStone
<1>5. CASE EndInstrument(q)
  BY <1>2, <1>5 DEF EndInstrument
<1> QED
  BY <1>3, <1>4, <1>5

LEMMA CreateStep ==
  ASSUME IInv, NEW q \in Requests, EndCreate(q)
  PROVE  IInv'
<1> DEFINE r == req[q]
<1> USE DEF IInv
<1>1. r \in Request /\ r.report \in Reports
  BY Pending DEF EndCreate, RequestsHaveReports
<1>2. \A k \in Requests : req'[k] = NoRequest \/ req'[k] = req[k]
  BY OthersUnchanged DEF EndCreate
<1>3. cert' = cert
  BY DEF EndCreate
<1>4. TypeOK'
  <2>1. type' \in AnyType
    BY <1>1 DEF EndCreate, SaveType, TypeOK, Request
  <2>2. report' \in [Reports -> Row]
    BY <1>1 DEF EndCreate, TypeOK, Row, Request
  <2> QED
    BY <1>3, <2>1, <2>2 DEF EndCreate, Done, TypeOK
<1>5. OneCertificateInForce' /\ CertsKept
  BY <1>3, SamePlaces
<1>6. RequestsHaveReports' /\ RequestsHaveCerts' /\ RequestsPassedChecks'
      /\ SeenFinalIsCertified'
  BY <1>2, <1>5, RequestsStep
<1>7. \A p \in Reports : report'[p] = IF p = r.report
                                        THEN [state |-> "live", text |-> r.text, final |-> FALSE]
                                        ELSE report[p]
  BY <1>1 DEF EndCreate, TypeOK
<1>8. OneLiveReport'
  BY <1>7 DEF EndCreate, OneLiveReport, LiveIn
<1>9. FinalReportIsCertified'
  BY <1>2, <1>5, <1>7, CitedStep
<1>10. UnusedCertsAreBlank'
  BY <1>3 DEF UnusedCertsAreBlank
<1> QED
  BY <1>4, <1>5, <1>6, <1>8, <1>9, <1>10

\* What an update writes.
LEMMA UpdateFacts ==
  ASSUME IInv, NEW q \in Requests, EndUpdate(q)
  PROVE  /\ req[q] \in Request /\ req[q] # NoRequest /\ req[q].report \in Reports
         /\ req[q].seen \in Row /\ req[q].text \in AnyText /\ req[q].type \in AnyType
         /\ \A p \in Reports :
              IF p = req[q].report
                THEN /\ report'[p].state = req[q].seen.state
                     /\ report'[p].final = req[q].seen.final
                     /\ report'[p].text = req[q].text
                ELSE report'[p] = report[p]
         /\ report' \in [Reports -> Row]
<1> DEFINE r == req[q]
<1> USE DEF IInv
<1>1. r \in Request /\ r # NoRequest /\ r.report \in Reports
  BY Pending DEF EndUpdate, RequestsHaveReports
<1>2. r.seen \in Row /\ r.text \in AnyText /\ r.type \in AnyType
  BY <1>1 DEF Request
<1>3. report' = [report EXCEPT ![r.report] = [r.seen EXCEPT !.text = r.text]]
  BY DEF EndUpdate
<1> QED
  BY <1>1, <1>2, <1>3 DEF TypeOK, Row

LEMMA UpdateStep ==
  ASSUME IInv, NEW q \in Requests, EndUpdate(q)
  PROVE  IInv'
<1> DEFINE r == req[q]
<1> USE DEF IInv
<1>1. /\ r \in Request /\ r.report \in Reports /\ r.kind = "update"
      /\ r.seen \in Row /\ r.text \in AnyText /\ r.type \in AnyType
  BY UpdateFacts DEF EndUpdate
<1>2. \A k \in Requests : req'[k] = NoRequest \/ req'[k] = req[k]
  BY OthersUnchanged DEF EndUpdate
<1>3. \/ cert' = cert
      \/ \E p : \E text \in AnyText, t \in AnyType : cert' = Refreshed(p, text, t)
  BY RefreshingStep
<1>4. /\ cert' \in [Certs -> Cert] /\ OneCertificateInForce' /\ CertsKept
      /\ \A c \in Certs : cert'[c].report = cert[c].report
  BY <1>3, SamePlaces
<1>5. TypeOK'
  <2>1. type' \in AnyType
    BY <1>1 DEF EndUpdate, SaveType, TypeOK
  <2>2. report' \in [Reports -> Row]
    BY UpdateFacts
  <2> QED
    BY <1>4, <2>1, <2>2 DEF EndUpdate, Done, TypeOK
<1>6. /\ RequestsHaveReports' /\ RequestsHaveCerts' /\ RequestsPassedChecks'
      /\ SeenFinalIsCertified' /\ (CertifiedOnce' => CertifiedOnce)
  BY <1>2, <1>4, RequestsStep
<1>7. \A p \in Reports :
        IF p = r.report THEN report'[p].state = r.seen.state /\ report'[p].final = r.seen.final
                        ELSE report'[p] = report[p]
  BY UpdateFacts
<1>8. OneLiveReport'
  <2>1. CASE r.seen.state = "live"
    <3>1. LiveIn(report) \subseteq {r.report}
      BY <2>1 DEF EndUpdate, MayBeLive
    <3> QED
      BY <1>7, <3>1 DEF OneLiveReport, LiveIn
  <2>2. CASE r.seen.state # "live"
    BY <1>7, <2>2 DEF OneLiveReport, LiveIn
  <2> QED
    BY <2>1, <2>2
<1>9. FinalReportIsCertified'
  <2> SUFFICES ASSUME CertifiedOnce', NEW p \in Reports, report'[p].final
               PROVE  \E c \in Certs : cert'[c].report = p
    BY DEF FinalReportIsCertified
  <2>1. CertifiedOnce
    BY <1>6
  <2>2. \E c \in Certs : cert[c].report = p
    BY <1>1, <1>7, <2>1 DEF FinalReportIsCertified, SeenFinalIsCertified
  <2> QED
    BY <1>4, <2>2
<1>10. UnusedCertsAreBlank'
  BY <1>4 DEF UnusedCertsAreBlank, CertsKept
<1> QED
  BY <1>4, <1>5, <1>6, <1>8, <1>9, <1>10

\* What issue_certificate inserts.
LEMMA IssueFacts ==
  ASSUME IInv, NEW rows \in [Reports -> Row], NEW t \in AnyType, Issue(rows, t),
         LiveIn(rows) = LiveIn(report)
  PROVE  /\ billPaid /\ Signed(rows) /\ t # Blank
         /\ LiveOf(rows) \in Reports
         /\ rows[LiveOf(rows)].state = "live" /\ rows[LiveOf(rows)].final
         /\ cert' \in [Certs -> Cert]
         /\ \E c \in Certs :
              /\ cert[c].state = "none"
              /\ cert'[c].state = "issued" /\ cert'[c].report = LiveOf(rows)
              /\ cert'[c].text = rows[LiveOf(rows)].text /\ cert'[c].type = t
              /\ \A d \in Certs \ {c} : cert'[d] = cert[d]
         /\ CertsKept
         /\ OneCertificateInForce'
<1> USE DEF IInv
<1>1. PICK c \in Certs :
        /\ cert[c].state = "none" /\ StoneIsFree(c) /\ NumberIsFree(c)
        /\ billPaid /\ Signed(rows) /\ t # Blank
        /\ cert' = [cert EXCEPT ![c] =
                      [state |-> "issued", here |-> TRUE, report |-> LiveOf(rows),
                       text |-> rows[LiveOf(rows)].text, type |-> t]]
  BY DEF Issue
<1>2. \A p, k \in LiveIn(rows) : p = k
  BY DEF OneLiveReport
<1>3. /\ LiveOf(rows) \in Reports
      /\ rows[LiveOf(rows)].state = "live" /\ rows[LiveOf(rows)].final
  BY <1>1, <1>2, SignedIsLiveOf
<1>4. rows[LiveOf(rows)].text \in AnyText
  BY <1>3 DEF Row
<1>5. cert' \in [Certs -> Cert]
  BY <1>1, <1>3, <1>4 DEF TypeOK, Cert
<1>6. /\ cert'[c].state = "issued" /\ cert'[c].here /\ cert'[c].report = LiveOf(rows)
      /\ cert'[c].text = rows[LiveOf(rows)].text /\ cert'[c].type = t
      /\ \A d \in Certs \ {c} : cert'[d] = cert[d]
  BY <1>1 DEF TypeOK
<1>7. CertsKept
  BY <1>1, <1>6 DEF CertsKept, UnusedCertsAreBlank
<1>8. OneCertificateInForce'
  BY <1>1, <1>6 DEF OneCertificateInForce, Ours, StoneIsFree, NumberIsFree
<1> QED
  BY <1>1, <1>3, <1>5, <1>6, <1>7, <1>8

\* If the stone is certified once after a certificate is issued, it was not
\* certified before.
LEMMA FirstCertificate ==
  ASSUME IInv, NEW c \in Certs, cert[c].state = "none", cert'[c].report # NoReport,
         \A d \in Certs \ {c} : cert'[d] = cert[d], CertifiedOnce'
  PROVE  CertifiedOnce /\ \A p \in Reports : ~ report[p].final
<1> USE DEF IInv
<1>1. \A d \in Certs : ~ Ours(d)
  <2>1. ~ Ours(c)
    BY DEF UnusedCertsAreBlank, NoCert, Ours
  <2>2. ASSUME NEW d \in Certs \ {c} PROVE ~ Ours(d)
    BY DEF CertifiedOnce, Ours
  <2> QED
    BY <2>1, <2>2
<1>2. CertifiedOnce
  BY <1>1 DEF CertifiedOnce
<1>3. \A p \in Reports : ~ report[p].final
  BY <1>1, <1>2, ConstantsAssumption DEF FinalReportIsCertified, Ours
<1> QED
  BY <1>2, <1>3

\* What finalize writes.
LEMMA FinalizeFacts ==
  ASSUME IInv, NEW q \in Requests, EndFinalize(q)
  PROVE  /\ req[q] \in Request /\ req[q].report \in Reports /\ req[q].type \in AnyType
         /\ report' \in [Reports -> Row]
         /\ \A p \in Reports : /\ report'[p].state = report[p].state
                               /\ report'[p].text = report[p].text
                               /\ report'[p].final = (p = req[q].report \/ report[p].final)
         /\ LiveIn(report') = LiveIn(report)
<1> DEFINE r == req[q]
<1> USE DEF IInv
<1>1. r \in Request /\ r.report \in Reports
  BY Pending DEF EndFinalize, RequestsHaveReports
<1>2. r.type \in AnyType
  BY <1>1 DEF Request
<1>3. report' = [report EXCEPT ![r.report].final = TRUE]
  BY DEF EndFinalize
<1>4. report' \in [Reports -> Row]
  BY <1>1, <1>3 DEF TypeOK, Row
<1>5. \A p \in Reports : /\ report'[p].state = report[p].state
                        /\ report'[p].text = report[p].text
                        /\ report'[p].final = (p = req[q].report \/ report[p].final)
  BY <1>1, <1>3 DEF TypeOK, Row
<1>6. LiveIn(report') = LiveIn(report)
  BY <1>5 DEF LiveIn
<1> QED
  BY <1>1, <1>2, <1>4, <1>5, <1>6

LEMMA FinalizeStep ==
  ASSUME IInv, NEW q \in Requests, EndFinalize(q)
  PROVE  IInv'
<1> DEFINE r == req[q]
           p == LiveOf(report')
<1> USE DEF IInv
<1>1. /\ r \in Request /\ r.report \in Reports /\ r.type \in AnyType
      /\ report' \in [Reports -> Row]
      /\ LiveIn(report') = LiveIn(report)
      /\ \A k \in Reports : /\ report'[k].state = report[k].state
                            /\ report'[k].final = (k = r.report \/ report[k].final)
  BY FinalizeFacts
<1>2. Issue(report', r.type)
  BY DEF EndFinalize
<1>3. /\ p \in Reports /\ report'[p].final
      /\ cert' \in [Certs -> Cert]
      /\ CertsKept /\ OneCertificateInForce'
  BY <1>1, <1>2, IssueFacts
<1>4. PICK c \in Certs : /\ cert[c].state = "none" /\ cert'[c].report = p
                         /\ \A d \in Certs \ {c} : cert'[d] = cert[d]
  BY <1>1, <1>2, IssueFacts
<1>5. \A k \in Requests : req'[k] = NoRequest \/ req'[k] = req[k]
  BY OthersUnchanged DEF EndFinalize
<1>6. TypeOK'
  <2>1. stoneStatus' = "certified"
    BY DEF EndFinalize, Issue
  <2> QED
    BY <1>1, <1>3, <2>1 DEF EndFinalize, Done, TypeOK
<1>7. RequestsHaveReports' /\ RequestsHaveCerts' /\ RequestsPassedChecks'
      /\ SeenFinalIsCertified'
  BY <1>3, <1>5, RequestsStep
<1>8. OneLiveReport'
  BY <1>1 DEF OneLiveReport
<1>9. FinalReportIsCertified'
  <2> SUFFICES ASSUME CertifiedOnce', NEW k \in Reports, report'[k].final
               PROVE  \E d \in Certs : cert'[d].report = k
    BY DEF FinalReportIsCertified
  <2>1. \A j \in Reports : ~ report[j].final
    BY <1>3, <1>4, FirstCertificate, ConstantsAssumption
  <2>2. k = p
    BY <1>1, <1>3, <2>1
  <2> QED
    BY <1>4, <2>2
<1>10. UnusedCertsAreBlank'
  BY <1>3 DEF UnusedCertsAreBlank, CertsKept
<1> QED
  BY <1>3, <1>6, <1>7, <1>8, <1>9, <1>10

LEMMA IssueStep ==
  ASSUME IInv, IssueCertificate
  PROVE  IInv'
<1> DEFINE p == LiveOf(report)
<1> USE DEF IInv
<1>1. Issue(report, type) /\ report \in [Reports -> Row] /\ type \in AnyType
  BY DEF IssueCertificate, TypeOK
<1>2. /\ p \in Reports /\ report[p].final
      /\ cert' \in [Certs -> Cert]
      /\ CertsKept /\ OneCertificateInForce'
  BY <1>1, IssueFacts
<1>3. PICK c \in Certs : /\ cert[c].state = "none" /\ cert'[c].report = p
                         /\ \A d \in Certs \ {c} : cert'[d] = cert[d]
  BY <1>1, IssueFacts
<1>4. report' = report /\ req' = req /\ type' = type /\ billPaid' = billPaid
  BY DEF IssueCertificate
<1>5. TypeOK'
  <2>1. stoneStatus' = "certified"
    BY DEF IssueCertificate, Issue
  <2> QED
    BY <1>2, <1>4, <2>1 DEF TypeOK
<1>6. RequestsHaveReports' /\ RequestsHaveCerts' /\ RequestsPassedChecks'
      /\ SeenFinalIsCertified'
  BY <1>2, <1>4, RequestsStep
<1>7. ~ CertifiedOnce'
  BY <1>2, <1>3, FirstCertificate, ConstantsAssumption
<1>8. OneLiveReport' /\ FinalReportIsCertified' /\ UnusedCertsAreBlank'
  BY <1>2, <1>4, <1>7 DEF OneLiveReport, LiveIn, FinalReportIsCertified,
     UnusedCertsAreBlank, CertsKept
<1> QED
  BY <1>2, <1>5, <1>6, <1>8

\* An edit of the stone or of the instruments refreshes at most the certificate.
LEMMA StoneStep ==
  ASSUME IInv, NEW q \in Requests, EndStone(q) \/ EndInstrument(q)
  PROVE  IInv'
<1> DEFINE r == req[q]
<1> USE DEF IInv
<1>1. r \in Request
  BY Pending DEF EndStone, EndInstrument
<1>2. r.type \in AnyType /\ type \in AnyType
  BY <1>1 DEF Request, TypeOK
<1>3. \/ cert' = cert
      \/ \E p : \E text \in AnyText, t \in AnyType : cert' = Refreshed(p, text, t)
  BY RefreshingStep
<1>4. cert' \in [Certs -> Cert] /\ OneCertificateInForce' /\ CertsKept
  BY <1>3, SamePlaces
<1>5. /\ report' = report /\ type' \in AnyType /\ Done(q)
      /\ billPaid' = billPaid /\ stoneStatus' = stoneStatus
  BY <1>2 DEF EndStone, EndInstrument
<1>6. \A k \in Requests : req'[k] = NoRequest \/ req'[k] = req[k]
  BY <1>5, OthersUnchanged
<1>7. TypeOK'
  BY <1>4, <1>5 DEF Done, TypeOK
<1>8. RequestsHaveReports' /\ RequestsHaveCerts' /\ RequestsPassedChecks'
      /\ SeenFinalIsCertified'
  BY <1>4, <1>6, RequestsStep
<1>9. FinalReportIsCertified'
  BY <1>4, <1>5, <1>6, CitedStep
<1>10. OneLiveReport' /\ UnusedCertsAreBlank'
  BY <1>4, <1>5 DEF OneLiveReport, LiveIn, UnusedCertsAreBlank, CertsKept
<1> QED
  BY <1>4, <1>7, <1>8, <1>9, <1>10

\* What a step that only writes one certificate row, whose report stays, must
\* show: the two unique constraints.
LEMMA CertStep ==
  ASSUME IInv, NEW c \in Certs, NEW row \in Cert,
         cert' = [cert EXCEPT ![c] = row],
         \/ cert[c].state # "none" /\ row.state # "none" /\ row.report = cert[c].report
         \/ cert[c].state = "none" /\ row.state # "none" /\ row.report = NoReport,
         row.here => StoneIsFree(c),
         row.state = "issued" /\ row.report # NoReport => NumberIsFree(c),
         UNCHANGED <<billPaid, stoneStatus, type, report>>,
         req' \in [Requests -> Request \cup CertRequest \cup {NoRequest}],
         \A k \in Requests : req'[k] = NoRequest \/ req'[k] = req[k]
  PROVE  IInv'
<1> USE DEF IInv
<1>1. cert'[c] = row /\ \A d \in Certs \ {c} : cert'[d] = cert[d]
  BY DEF TypeOK
<1>2. TypeOK'
  BY DEF TypeOK
<1>3. OneCertificateInForce'
  BY <1>1 DEF OneCertificateInForce, Ours, StoneIsFree, NumberIsFree
<1>4. CertsKept
  BY <1>1 DEF CertsKept, UnusedCertsAreBlank
<1>5. RequestsHaveReports' /\ RequestsHaveCerts' /\ RequestsPassedChecks'
      /\ SeenFinalIsCertified'
  BY <1>4, RequestsStep
<1>6. FinalReportIsCertified'
  BY <1>4, CitedStep
<1>7. OneLiveReport' /\ UnusedCertsAreBlank'
  BY <1>1, <1>4 DEF OneLiveReport, LiveIn, UnusedCertsAreBlank, CertsKept
<1> QED
  BY <1>2, <1>3, <1>5, <1>6, <1>7

LEMMA MoveStep ==
  ASSUME IInv, NEW q \in Requests, EndMove(q)
  PROVE  IInv'
<1> DEFINE r == req[q]
           row == [r.seen EXCEPT !.here = r.here]
<1> USE DEF IInv
<1>1. r \in CertRequest
  BY Pending DEF EndMove
<1>2. r.cert \in Certs /\ r.seen \in Cert /\ r.here \in BOOLEAN
  BY <1>1 DEF CertRequest
<1>3. /\ row \in Cert /\ row.state = r.seen.state /\ row.report = r.seen.report
      /\ row.here = r.here
  BY <1>2 DEF Cert
<1>4. /\ cert[r.cert].state # "none" /\ row.state # "none"
      /\ row.report = cert[r.cert].report
  BY <1>3 DEF EndMove, RequestsHaveCerts
<1>5. /\ row.here => StoneIsFree(r.cert)
      /\ row.state = "issued" /\ row.report # NoReport => NumberIsFree(r.cert)
  BY <1>3, <1>4 DEF EndMove, Ours
<1>6. /\ req' \in [Requests -> Request \cup CertRequest \cup {NoRequest}]
      /\ \A k \in Requests : req'[k] = NoRequest \/ req'[k] = req[k]
  BY OthersUnchanged DEF EndMove, Done, TypeOK
<1>7. /\ cert' = [cert EXCEPT ![r.cert] = row]
      /\ UNCHANGED <<billPaid, stoneStatus, type, report>>
  BY DEF EndMove
<1> HIDE DEF row, IInv
<1> QED
  BY <1>2, <1>3, <1>4, <1>5, <1>6, <1>7, CertStep

LEMMA AbandonStep ==
  ASSUME IInv, NEW q \in Requests, Abandon(q)
  PROVE  IInv'
<1> USE DEF IInv
<1>1. /\ cert' = cert /\ report' = report
      /\ \A k \in Requests : req'[k] = NoRequest \/ req'[k] = req[k]
  BY OthersUnchanged DEF Abandon
<1>2. TypeOK'
  BY DEF Abandon, Done, TypeOK
<1>3. OneCertificateInForce' /\ CertsKept
  BY <1>1, SamePlaces
<1>4. RequestsHaveReports' /\ RequestsHaveCerts' /\ RequestsPassedChecks'
      /\ SeenFinalIsCertified'
  BY <1>1, <1>3, RequestsStep
<1>5. FinalReportIsCertified'
  BY <1>1, <1>3, CitedStep
<1>6. OneLiveReport' /\ UnusedCertsAreBlank'
  BY <1>1 DEF OneLiveReport, LiveIn, UnusedCertsAreBlank
<1> QED
  BY <1>2, <1>3, <1>4, <1>5, <1>6

\* Discarding or restoring a report.
LEMMA ReportSwitch ==
  ASSUME IInv, NEW p \in Reports, DiscardReport(p) \/ RestoreReport(p)
  PROVE  IInv'
<1> USE DEF IInv
<1>1. \A k \in Reports : report'[k].final = report[k].final
  BY DEF DiscardReport, RestoreReport, TypeOK, Row
<1>2. TypeOK'
  BY DEF DiscardReport, RestoreReport, TypeOK, Row
<1>3. cert' = cert /\ req' = req
  BY DEF DiscardReport, RestoreReport
<1>4. OneCertificateInForce' /\ CertsKept
  BY <1>3, SamePlaces
<1>5. RequestsHaveReports' /\ RequestsHaveCerts' /\ RequestsPassedChecks'
      /\ SeenFinalIsCertified'
  BY <1>3, <1>4, RequestsStep
<1>6. FinalReportIsCertified'
  BY <1>1, <1>3, <1>4, CitedStep
<1>7. OneLiveReport'
  <2>1. CASE DiscardReport(p)
    BY <2>1 DEF DiscardReport, OneLiveReport, LiveIn, TypeOK, Row
  <2>2. CASE RestoreReport(p)
    BY <2>2 DEF RestoreReport, MayBeLive, OneLiveReport, LiveIn, TypeOK, Row
  <2> QED
    BY <2>1, <2>2
<1>8. UnusedCertsAreBlank'
  BY <1>3 DEF UnusedCertsAreBlank
<1> QED
  BY <1>2, <1>4, <1>5, <1>6, <1>7, <1>8

\* Discarding or restoring a certificate, or moving another stone's in.
LEMMA CertSwitch ==
  ASSUME IInv, NEW c \in Certs,
         DiscardCertificate(c) \/ RestoreCertificate(c) \/ MoveIn(c)
  PROVE  IInv'
<1> USE DEF IInv
<1>1. /\ req' = req /\ req \in [Requests -> Request \cup CertRequest \cup {NoRequest}]
      /\ UNCHANGED <<billPaid, stoneStatus, type, report>>
  BY DEF DiscardCertificate, RestoreCertificate, MoveIn, TypeOK
<1>2. cert[c] \in Cert
  BY DEF TypeOK
<1>3. cert[c].here => StoneIsFree(c)
  BY DEF OneCertificateInForce, StoneIsFree
<1>4. CASE DiscardCertificate(c)
  <2> DEFINE row == [cert[c] EXCEPT !.state = "discarded"]
  <2>1. /\ row \in Cert /\ row.state = "discarded" /\ row.report = cert[c].report
        /\ row.here = cert[c].here
    BY <1>2 DEF Cert
  <2>2. cert' = [cert EXCEPT ![c] = row] /\ cert[c].state # "none"
    BY <1>4 DEF DiscardCertificate
  <2> HIDE DEF row, IInv
  <2> QED
    BY <1>1, <1>3, <2>1, <2>2, CertStep
<1>5. CASE RestoreCertificate(c)
  <2> DEFINE row == [cert[c] EXCEPT !.state = "issued"]
  <2>1. /\ row \in Cert /\ row.state = "issued" /\ row.report = cert[c].report
        /\ row.here = cert[c].here
    BY <1>2 DEF Cert
  <2>2. /\ cert' = [cert EXCEPT ![c] = row] /\ cert[c].state # "none"
        /\ row.report # NoReport => NumberIsFree(c)
    BY <1>5, <2>1 DEF RestoreCertificate, Ours
  <2> HIDE DEF row, IInv
  <2> QED
    BY <1>1, <1>3, <2>1, <2>2, CertStep
<1>6. CASE MoveIn(c)
  <2> DEFINE row == [NoCert EXCEPT !.state = "issued", !.here = TRUE]
  <2>1. row \in Cert /\ row.state = "issued" /\ row.report = NoReport /\ row.here
    BY DEF NoCert, Cert, AnyText, AnyType
  <2>2. cert' = [cert EXCEPT ![c] = row] /\ cert[c].state = "none" /\ StoneIsFree(c)
    BY <1>6 DEF MoveIn
  <2> HIDE DEF row, IInv
  <2> QED
    BY <1>1, <2>1, <2>2, CertStep
<1> QED
  BY <1>4, <1>5, <1>6

\* A step that leaves reports, certificates, the type and the requests alone.
LEMMA QuietStep ==
  ASSUME IInv, Settled \/ UNCHANGED vars
  PROVE  IInv'
<1> USE DEF IInv
<1>1. cert' = cert /\ report' = report /\ req' = req
  BY DEF Settled, vars
<1>2. TypeOK'
  BY DEF Settled, vars, TypeOK
<1>3. OneCertificateInForce' /\ CertsKept
  BY <1>1, SamePlaces
<1>4. RequestsHaveReports' /\ RequestsHaveCerts' /\ RequestsPassedChecks'
      /\ SeenFinalIsCertified'
  BY <1>1, <1>3, RequestsStep
<1>5. FinalReportIsCertified'
  BY <1>1, <1>3, CitedStep
<1>6. OneLiveReport' /\ UnusedCertsAreBlank'
  BY <1>1 DEF OneLiveReport, LiveIn, UnusedCertsAreBlank
<1> QED
  BY <1>2, <1>3, <1>4, <1>5, <1>6

LEMMA Step == IInv /\ [Next]_vars => IInv'
<1> SUFFICES ASSUME IInv, [Next]_vars PROVE IInv'
  OBVIOUS
<1>1. ASSUME NEW q \in Requests, Begin(q) \/ End(q) PROVE IInv'
  BY <1>1, BeginStep, CreateStep, UpdateStep, FinalizeStep, StoneStep, MoveStep,
     AbandonStep DEF End
<1>2. ASSUME NEW p \in Reports, DiscardReport(p) \/ RestoreReport(p) PROVE IInv'
  BY <1>2, ReportSwitch
<1>3. ASSUME NEW c \in Certs,
             DiscardCertificate(c) \/ RestoreCertificate(c) \/ MoveIn(c)
      PROVE  IInv'
  BY <1>3, CertSwitch
<1> QED
  BY <1>1, <1>2, <1>3, IssueStep, QuietStep DEF Next

LEMMA Invariance == Spec => []IInv
BY InitIInv, Step, PTL DEF Spec

-----------------------------------------------------------------------------
(* The requests that write a report's row have found it in use.            *)

ReportsInUse ==
  /\ \A p \in Reports : report[p].state = "unused" => ~ report[p].final
  /\ \A q \in Requests :
       /\ req[q].kind = "update" => req[q].seen.state # "unused"
       /\ req[q].kind = "finalize" => report[req[q].report].state # "unused"

LEMMA BeginChangesNothing ==
  ASSUME NEW q \in Requests, Begin(q)
  PROVE  UNCHANGED <<billPaid, stoneStatus, type, report, cert>>
BY DEF Begin, BeginCreate, BeginUpdate, BeginFinalize, BeginStone, BeginInstrument,
       BeginMove, Start

\* A step that only starts a request has passed that request's checks.
LEMMA BeginInUse ==
  ASSUME IInv, ReportsInUse, NEW q \in Requests, Begin(q)
  PROVE  ReportsInUse'
<1> USE DEF IInv, TypeOK
<1>1. report' = report
  BY BeginChangesNothing
<1>2. \A k \in Requests \ {q} : req'[k] = req[k]
  BY DEF Begin, BeginCreate, BeginUpdate, BeginFinalize, BeginStone, BeginInstrument,
         BeginMove, Start
<1>3. /\ req'[q].kind = "update" => req'[q].seen.state # "unused"
      /\ req'[q].kind = "finalize" => report[req'[q].report].state # "unused"
  BY DEF Begin, BeginCreate, BeginUpdate, BeginFinalize, BeginStone, BeginInstrument,
         BeginMove, Start
<1> QED
  BY <1>1, <1>2, <1>3 DEF ReportsInUse

LEMMA InUseStep == IInv /\ ReportsInUse /\ [Next]_vars => ReportsInUse'
<1> SUFFICES ASSUME IInv, ReportsInUse, [Next]_vars PROVE ReportsInUse'
  OBVIOUS
<1> USE DEF IInv
<1>1. ASSUME NEW q \in Requests, Begin(q) PROVE ReportsInUse'
  BY <1>1, BeginInUse
<1>2. ASSUME \A p \in Reports : report[p].state # "unused" => report'[p].state # "unused",
             \A p \in Reports : report'[p].state = "unused" => ~ report'[p].final,
             \A k \in Requests : req'[k] = NoRequest \/ req'[k] = req[k]
      PROVE  ReportsInUse'
  BY <1>2 DEF ReportsInUse, NoRequest, RequestsHaveReports
<1>3. ASSUME NEW q \in Requests, End(q) PROVE ReportsInUse'
  <2>1. \A k \in Requests : req'[k] = NoRequest \/ req'[k] = req[k]
    BY <1>3, OthersUnchanged DEF End, EndCreate, EndUpdate, EndFinalize, EndStone,
       EndInstrument, EndMove, Abandon
  <2>2. CASE EndCreate(q)
    <3>1. req[q].report \in Reports
      BY <2>2 DEF EndCreate, RequestsHaveReports
    <3>2. \A p \in Reports : report'[p] = IF p = req[q].report
                               THEN [state |-> "live", text |-> req[q].text, final |-> FALSE]
                               ELSE report[p]
      BY <2>2, <3>1 DEF EndCreate, TypeOK
    <3> QED
      BY <1>2, <2>1, <3>2 DEF ReportsInUse
  <2>3. CASE EndUpdate(q)
    <3>1. req[q].seen.state # "unused"
      BY <2>3 DEF EndUpdate, ReportsInUse
    <3> QED
      BY <1>2, <2>1, <2>3, <3>1, UpdateFacts DEF ReportsInUse
  <2>4. CASE EndFinalize(q)
    <3>1. report[req[q].report].state # "unused"
      BY <2>4 DEF EndFinalize, ReportsInUse
    <3> QED
      BY <1>2, <2>1, <2>4, <3>1, FinalizeFacts DEF ReportsInUse
  <2>5. CASE EndStone(q) \/ EndInstrument(q) \/ EndMove(q) \/ Abandon(q)
    <3>1. report' = report
      BY <2>5 DEF EndStone, EndInstrument, EndMove, Abandon
    <3> QED
      BY <1>2, <2>1, <3>1 DEF ReportsInUse
  <2> QED
    BY <1>3, <2>2, <2>3, <2>4, <2>5 DEF End
<1>4. ASSUME NEW p \in Reports, DiscardReport(p) \/ RestoreReport(p)
      PROVE  ReportsInUse'
  BY <1>2, <1>4 DEF DiscardReport, RestoreReport, TypeOK, Row, ReportsInUse
<1>5. ASSUME NEW c \in Certs,
             DiscardCertificate(c) \/ RestoreCertificate(c) \/ MoveIn(c)
      PROVE  ReportsInUse'
  BY <1>2, <1>5 DEF DiscardCertificate, RestoreCertificate, MoveIn, ReportsInUse
<1>6. CASE IssueCertificate \/ Settled \/ UNCHANGED vars
  BY <1>2, <1>6 DEF IssueCertificate, Settled, vars, ReportsInUse
<1> QED
  BY <1>1, <1>3, <1>4, <1>5, <1>6 DEF Next

LEMMA InUseInvariance == Spec => [](IInv /\ ReportsInUse)
<1>1. Init => ReportsInUse
  BY DEF Init, ReportsInUse, NoRow, NoRequest
<1> QED
  BY <1>1, InitIInv, Step, InUseStep, PTL DEF Spec

-----------------------------------------------------------------------------
(* The theorems.                                                           *)

\* Every row, certificate and request keeps its shape.
THEOREM FindingsTypeCorrect == Spec => []TypeOK
BY Invariance, PTL DEF IInv

\* A stone never has two live reports, whatever requests race to create,
\* restore or overwrite them (create_report, check_restorable, update_report).
THEOREM StoneHasOneReport == Spec => []OneLiveReport
BY Invariance, PTL DEF IInv

\* A stone never has two certificates in force or two filed under it, whatever
\* is moved, discarded, restored, issued again or saved back from an old read
\* (the constraints of Certificate).
THEOREM StoneHasOneCertificate == Spec => []OneCertificateInForce
BY Invariance, PTL DEF IInv

\* Until a stone is certified twice, a report is final only if a certificate
\* cites it: finalize and issue_certificate succeed or fail together.
THEOREM FinalIffCertified == Spec => []FinalReportIsCertified
BY Invariance, PTL DEF IInv

\* The worklists and the findings screen show each unfinished paid stone once,
\* and a stone waits to be certified only after its certificate was moved
\* (findings_worklist, certification_worklist and workflow_feed).
THEOREM BenchQueues == Spec => []BenchQueueIsRight
<1>1. IInv => BenchQueueIsRight
  <2> SUFFICES ASSUME IInv PROVE BenchQueueIsRight
    OBVIOUS
  <2> DEFINE drafts == {p \in LiveIn(report) : ~ report[p].final}
  <2> USE DEF IInv
  <2>1. CertificationWorklist => \E c \in Certs : Ours(c) /\ ~ cert[c].here
    <3> SUFFICES ASSUME CertificationWorklist PROVE \E c \in Certs : Ours(c)
      BY DEF CertificationWorklist
    <3>1. PICK p \in Reports : report[p].final
      BY DEF CertificationWorklist, Signed, LiveIn
    <3>2. CASE CertifiedOnce
      BY <3>1, <3>2, ConstantsAssumption DEF FinalReportIsCertified, Ours
    <3>3. CASE ~ CertifiedOnce
      BY <3>3 DEF CertifiedOnce
    <3> QED
      BY <3>2, <3>3
  <2>2. FindingsWorklist => billPaid /\ ~ Signed(report)
    BY DEF FindingsWorklist, Signed, LiveIn
  <2>3. ASSUME FindingsWorklist
        PROVE  \E row \in Reports \cup {NoReport} :
                 FindingsFeed = {[row |-> row, waiting |-> TRUE]}
    <3>1. drafts = LiveIn(report)
      BY <2>2, <2>3 DEF Signed
    <3>2. CASE LiveIn(report) = {}
      <4>1. FindingsFeed = {[row |-> NoReport, waiting |-> TRUE]}
        BY <2>3, <3>1, <3>2 DEF FindingsFeed
      <4> QED
        BY <4>1
    <3>3. CASE LiveIn(report) # {}
      <4>1. PICK p \in Reports : LiveIn(report) = {p}
        BY <3>3 DEF OneLiveReport, LiveIn
      <4>2. FindingsFeed = {[row |-> p, waiting |-> TRUE]}
        BY <2>3, <3>1, <4>1 DEF FindingsFeed
      <4> QED
        BY <4>2
    <3> QED
      BY <3>2, <3>3
  <2>4. ASSUME \A p \in Reports : report[p].final => report[p].state = "live"
        PROVE  FindingsWorklist <=> billPaid /\ ~ Signed(report)
    BY <2>4 DEF FindingsWorklist, Signed, LiveIn, TypeOK
  <2> QED
    BY <2>1, <2>2, <2>3, <2>4 DEF BenchQueueIsRight
<1> QED
  BY <1>1, Invariance, PTL

\* A certificate is issued only for the stone's live, signed-off report, on a
\* paid order, quotes that report as it then is, and names a type.
THEOREM CertificateQuotesFinalReport == Spec => IssuedForFinalReport
<1> DEFINE Issued(c) == cert[c].state = "none" /\ cert'[c].report # NoReport
           Quoted(c) == /\ billPaid
                        /\ report'[cert'[c].report].state = "live"
                        /\ report'[cert'[c].report].final
                        /\ cert'[c].text = report'[cert'[c].report].text
                        /\ cert'[c].type # Blank
<1>1. IInv /\ [Next]_vars => \A c \in Certs : Issued(c) => Quoted(c)
  <2> SUFFICES ASSUME IInv, [Next]_vars, NEW c \in Certs, Issued(c) PROVE Quoted(c)
    OBVIOUS
  <2> USE DEF IInv
  <2>0. cert[c].report = NoReport
    BY DEF UnusedCertsAreBlank, NoCert
  <2>1. ASSUME NEW q \in Requests, EndFinalize(q) PROVE Quoted(c)
    <3>1. /\ report' \in [Reports -> Row] /\ req[q].type \in AnyType
          /\ LiveIn(report') = LiveIn(report) /\ Issue(report', req[q].type)
      BY <2>1, FinalizeFacts DEF EndFinalize
    <3> QED
      BY <2>0, <3>1, IssueFacts
  <2>2. CASE IssueCertificate
    <3>1. /\ report' = report /\ report \in [Reports -> Row] /\ type \in AnyType
          /\ Issue(report, type)
      BY <2>2 DEF IssueCertificate, TypeOK
    <3> QED
      BY <2>0, <3>1, IssueFacts
  <2>3. ASSUME NEW q \in Requests, Begin(q) PROVE FALSE
    BY <2>0, <2>3, BeginChangesNothing
  <2>4. ASSUME NEW q \in Requests, EndUpdate(q) \/ EndStone(q) \/ EndInstrument(q)
        PROVE  FALSE
    BY <2>0, <2>4, RefreshingStep, SamePlaces
  <2>5. ASSUME NEW q \in Requests, EndMove(q) PROVE FALSE
    <3>1. /\ req[q] \in CertRequest /\ req[q].cert # c
          /\ cert' = [cert EXCEPT ![req[q].cert] = [req[q].seen EXCEPT !.here = req[q].here]]
      BY <2>5, Pending DEF EndMove, RequestsHaveCerts
    <3> QED
      BY <2>0, <3>1 DEF TypeOK
  <2>6. ASSUME NEW q \in Requests, EndCreate(q) \/ Abandon(q) PROVE FALSE
    BY <2>0, <2>6 DEF EndCreate, Abandon
  <2>7. ASSUME NEW p \in Reports, DiscardReport(p) \/ RestoreReport(p) PROVE FALSE
    BY <2>0, <2>7 DEF DiscardReport, RestoreReport
  <2>8. ASSUME NEW d \in Certs,
               DiscardCertificate(d) \/ RestoreCertificate(d) \/ MoveIn(d)
        PROVE  FALSE
    <3>1. CASE MoveIn(d)
      <4>1. cert' = [cert EXCEPT ![d] = [NoCert EXCEPT !.state = "issued", !.here = TRUE]]
        BY <3>1 DEF MoveIn
      <4> QED
        BY <2>0, <4>1 DEF NoCert, TypeOK
    <3>2. CASE DiscardCertificate(d) \/ RestoreCertificate(d)
      BY <2>0, <3>2 DEF DiscardCertificate, RestoreCertificate, TypeOK, Cert
    <3> QED
      BY <2>8, <3>1, <3>2
  <2>9. CASE Settled \/ UNCHANGED vars
    BY <2>0, <2>9 DEF Settled, vars
  <2> QED
    BY <2>1, <2>2, <2>3, <2>4, <2>5, <2>6, <2>7, <2>8, <2>9 DEF Next, End
<1> QED
  BY <1>1, Invariance, PTL DEF Spec, IssuedForFinalReport

\* A request that writes ends, and no other does.
LEMMA OnlyOneEnds ==
  ASSUME TypeOK, NEW q \in Requests, Done(q), req[q] # NoRequest
  PROVE  Ended(q) /\ \A k \in Requests : Ended(k) => k = q
BY DEF TypeOK, Done, Ended

\* Discarding, restoring and moving in leave every report's words, every
\* sign-off, the type and the words of every certificate in force alone.
LEMMA SwitchEditsNothing ==
  ASSUME IInv,
         \/ \E p \in Reports : DiscardReport(p) \/ RestoreReport(p)
         \/ \E c \in Certs : DiscardCertificate(c) \/ RestoreCertificate(c) \/ MoveIn(c)
         \/ Settled \/ UNCHANGED vars
  PROVE  /\ type' = type /\ req' = req
         /\ \A p \in Reports : /\ report'[p].text = report[p].text
                               /\ report'[p].final = report[p].final
         /\ \A c \in Certs : cert[c].state = "issued" =>
              cert'[c].text = cert[c].text /\ cert'[c].type = cert[c].type
<1> USE DEF IInv
<1>1. ASSUME NEW p \in Reports, DiscardReport(p) \/ RestoreReport(p)
      PROVE  /\ type' = type /\ cert' = cert /\ req' = req
             /\ \A k \in Reports : /\ report'[k].text = report[k].text
                                   /\ report'[k].final = report[k].final
  BY <1>1 DEF DiscardReport, RestoreReport, TypeOK, Row
<1>2. ASSUME NEW c \in Certs,
             DiscardCertificate(c) \/ RestoreCertificate(c) \/ MoveIn(c)
      PROVE  /\ type' = type /\ report' = report /\ req' = req
             /\ \A d \in Certs : cert[d].state = "issued" =>
                  cert'[d].text = cert[d].text /\ cert'[d].type = cert[d].type
  <2>1. CASE DiscardCertificate(c) \/ RestoreCertificate(c)
    BY <2>1 DEF DiscardCertificate, RestoreCertificate, TypeOK, Cert
  <2>2. CASE MoveIn(c)
    <3>1. cert[c].state = "none" /\ \A d \in Certs \ {c} : cert'[d] = cert[d]
      BY <2>2 DEF MoveIn, TypeOK
    <3> QED
      BY <2>2, <3>1 DEF MoveIn
  <2> QED
    BY <1>2, <2>1, <2>2
<1>3. CASE Settled \/ UNCHANGED vars
  BY <1>3 DEF Settled, vars
<1> QED
  BY <1>1, <1>2, <1>3

\* Issuing touches no certificate there already is.
LEMMA IssueEditsNothing ==
  ASSUME TypeOK, NEW rows, NEW t, Issue(rows, t), NEW c \in Certs, cert[c].state # "none"
  PROVE  cert'[c] = cert[c]
BY DEF Issue, TypeOK

\* What takes a sign-off back is an edit that had read the report as a draft,
\* whatever requests overlap (update_report, finalize_report).
THEOREM SignOffsAreLostToDraftEdits == Spec => SignOffLostToDraftEdit
<1> DEFINE Lost(p) == report[p].final /\ ~ report'[p].final
           ByDraft(p) == /\ cert' = cert
                         /\ \E q \in Requests : Ended(q) /\ req[q].kind = "update"
                              /\ req[q].report = p /\ ~ req[q].seen.final
<1>1. IInv /\ ReportsInUse /\ [Next]_vars => \A p \in Reports : Lost(p) => ByDraft(p)
  <2> SUFFICES ASSUME IInv, ReportsInUse, [Next]_vars, NEW p \in Reports, Lost(p)
               PROVE  ByDraft(p)
    OBVIOUS
  <2> USE DEF IInv
  <2>1. ASSUME NEW q \in Requests, EndUpdate(q) PROVE ByDraft(p)
    <3>1. req[q] # NoRequest /\ req[q].report = p /\ ~ req[q].seen.final
      BY <2>1, UpdateFacts
    <3>2. Ended(q)
      BY <2>1, <3>1, OnlyOneEnds DEF EndUpdate
    <3> QED
      BY <2>1, <3>1, <3>2 DEF EndUpdate
  <2>2. ASSUME NEW q \in Requests, EndCreate(q) PROVE FALSE
    <3>1. req[q].report \in Reports /\ req[q].report # p
      BY <2>2 DEF EndCreate, RequestsHaveReports, ReportsInUse
    <3> QED
      BY <2>2, <3>1 DEF EndCreate, TypeOK
  <2>3. ASSUME NEW q \in Requests, EndFinalize(q) PROVE FALSE
    BY <2>3, FinalizeFacts
  <2>4. ASSUME NEW q \in Requests, Begin(q) PROVE FALSE
    BY <2>4, BeginChangesNothing
  <2>5. ASSUME NEW q \in Requests,
               EndStone(q) \/ EndInstrument(q) \/ EndMove(q) \/ Abandon(q)
        PROVE  FALSE
    BY <2>5 DEF EndStone, EndInstrument, EndMove, Abandon
  <2>6. CASE IssueCertificate
    BY <2>6 DEF IssueCertificate
  <2>7. CASE \/ \E k \in Reports : DiscardReport(k) \/ RestoreReport(k)
             \/ \E c \in Certs : DiscardCertificate(c) \/ RestoreCertificate(c) \/ MoveIn(c)
             \/ Settled \/ UNCHANGED vars
    BY <2>7, SwitchEditsNothing
  <2> QED
    BY <2>1, <2>2, <2>3, <2>4, <2>5, <2>6, <2>7 DEF Next, End
<1> QED
  BY <1>1, InUseInvariance, PTL DEF Spec, SignOffLostToDraftEdit

\* What a signed-off report, its stone and its certificate say is changed only
\* by a user who may correct it, by a request that read it before the sign-off,
\* or by a certificate saved back as it was read, whatever requests overlap
\* (update_report, update_stone, _assert_report_editable).
THEOREM OnlyCorrectionsAfterSignOff == Spec => NormalEditsRefused
<1> DEFINE p == LiveOf(report)
           Edited == type' # type \/ report'[LiveOf(report)].text # report[LiveOf(report)].text
           Allowed == \E q \in Requests : Ended(q) /\ req[q].kind # "certificate"
                                            /\ (req[q].trusted \/ ReadBeforeSignOff(q))
           Reworded(c) == cert[c].state = "issued"
                            /\ (cert'[c].text # cert[c].text \/ cert'[c].type # cert[c].type)
           Explained(c) == \E q \in Requests :
                /\ Ended(q)
                /\ IF req[q].kind = "certificate"
                     THEN cert'[c].text = req[q].seen.text /\ cert'[c].type = req[q].seen.type
                     ELSE req[q].trusted
<1>1. IInv /\ [Next]_vars => (Signed(report) /\ Edited => Allowed)
  <2> SUFFICES ASSUME IInv, [Next]_vars, Signed(report), Edited PROVE Allowed
    OBVIOUS
  <2> USE DEF IInv
  <2>0. p \in Reports /\ report[p].state = "live" /\ report[p].final
    BY SignedIsLiveOf DEF OneLiveReport
  <2>1. ASSUME NEW q \in Requests, EndUpdate(q) PROVE Allowed
    <3> DEFINE r == req[q]
    <3>1. /\ r # NoRequest /\ r.report \in Reports /\ r.kind = "update"
          /\ \A k \in Reports \ {r.report} : report'[k] = report[k]
      BY <2>1, UpdateFacts DEF EndUpdate
    <3>2. Ended(q)
      BY <2>1, <3>1, OnlyOneEnds DEF EndUpdate
    <3>3. CASE r.seen.final
      BY <3>1, <3>2, <3>3 DEF RequestsPassedChecks
    <3>4. CASE r.report = p /\ ~ r.seen.final
      BY <3>1, <3>2, <3>4 DEF ReadBeforeSignOff
    <3>5. CASE r.report # p
      <4>1. Signed(report') /\ report'[p].text = report[p].text
        BY <2>0, <3>1, <3>5 DEF Signed, LiveIn
      <4>2. r.hasType
        BY <2>1, <4>1 DEF EndUpdate, SaveType
      <4> QED
        BY <2>1, <3>1, <3>2, <4>1, <4>2 DEF EndUpdate
    <3> QED
      BY <3>3, <3>4, <3>5
  <2>2. ASSUME NEW q \in Requests, EndStone(q) PROVE Allowed
    <3>1. req[q] # NoRequest /\ req[q].kind = "stone"
      BY <2>2, Pending DEF EndStone
    <3>2. Ended(q)
      BY <2>2, <3>1, OnlyOneEnds DEF EndStone
    <3>3. req[q].trusted \/ ReadBeforeSignOff(q)
      BY <3>1 DEF RequestsPassedChecks, ReadBeforeSignOff
    <3> QED
      BY <3>1, <3>2, <3>3
  <2>3. ASSUME NEW q \in Requests, EndCreate(q) PROVE FALSE
    BY <2>0, <2>3 DEF EndCreate, LiveIn
  <2>4. ASSUME NEW q \in Requests, EndFinalize(q) PROVE FALSE
    <3>1. type' = type
      BY <2>4 DEF EndFinalize
    <3> QED
      BY <2>0, <2>4, <3>1, FinalizeFacts
  <2>5. ASSUME NEW q \in Requests, Begin(q) PROVE FALSE
    BY <2>5, BeginChangesNothing
  <2>6. ASSUME NEW q \in Requests, EndInstrument(q) \/ EndMove(q) \/ Abandon(q)
        PROVE  FALSE
    BY <2>6 DEF EndInstrument, EndMove, Abandon
  <2>7. CASE IssueCertificate
    BY <2>7 DEF IssueCertificate
  <2>8. CASE \/ \E k \in Reports : DiscardReport(k) \/ RestoreReport(k)
             \/ \E c \in Certs : DiscardCertificate(c) \/ RestoreCertificate(c) \/ MoveIn(c)
             \/ Settled \/ UNCHANGED vars
    BY <2>0, <2>8, SwitchEditsNothing
  <2> QED
    BY <2>1, <2>2, <2>3, <2>4, <2>5, <2>6, <2>7, <2>8 DEF Next, End
<1>2. IInv /\ [Next]_vars => \A c \in Certs : Reworded(c) => Explained(c)
  <2> SUFFICES ASSUME IInv, [Next]_vars, NEW c \in Certs, Reworded(c) PROVE Explained(c)
    OBVIOUS
  <2> USE DEF IInv
  <2>1. ASSUME NEW q \in Requests, EndUpdate(q) \/ EndStone(q) \/ EndInstrument(q)
        PROVE  Explained(c)
    <3>1. req[q] # NoRequest /\ req[q].kind \in {"update", "stone", "instrument"}
      BY <2>1, Pending DEF EndUpdate, EndStone, EndInstrument
    <3>2. Ended(q)
      BY <2>1, <3>1, OnlyOneEnds DEF EndUpdate, EndStone, EndInstrument
    <3>3. req[q].kind = "instrument" \/ req[q].seen.final
      BY <2>1 DEF EndUpdate, EndStone, EndInstrument
    <3> QED
      BY <3>1, <3>2, <3>3 DEF RequestsPassedChecks
  <2>2. ASSUME NEW q \in Requests, EndMove(q) PROVE Explained(c)
    <3> DEFINE r == req[q]
    <3>1. r \in CertRequest /\ r # NoRequest /\ r.kind = "certificate"
      BY <2>2, Pending DEF EndMove
    <3>2. Ended(q)
      BY <2>2, <3>1, OnlyOneEnds DEF EndMove
    <3>3. cert' = [cert EXCEPT ![r.cert] = [r.seen EXCEPT !.here = r.here]]
      BY <2>2 DEF EndMove
    <3>4. r.cert = c /\ r.seen \in Cert
      BY <3>1, <3>3 DEF TypeOK, CertRequest
    <3>5. cert'[c] = [r.seen EXCEPT !.here = r.here]
      BY <3>3, <3>4 DEF TypeOK
    <3>6. cert'[c].text = r.seen.text /\ cert'[c].type = r.seen.type
      BY <3>4, <3>5 DEF Cert
    <3> QED
      BY <3>1, <3>2, <3>6
  <2>3. ASSUME NEW q \in Requests, EndFinalize(q) PROVE FALSE
    BY <2>3, IssueEditsNothing DEF EndFinalize
  <2>4. CASE IssueCertificate
    BY <2>4, IssueEditsNothing DEF IssueCertificate
  <2>5. ASSUME NEW q \in Requests, Begin(q) \/ EndCreate(q) \/ Abandon(q) PROVE FALSE
    BY <2>5, BeginChangesNothing DEF EndCreate, Abandon
  <2>6. CASE \/ \E k \in Reports : DiscardReport(k) \/ RestoreReport(k)
             \/ \E d \in Certs : DiscardCertificate(d) \/ RestoreCertificate(d) \/ MoveIn(d)
             \/ Settled \/ UNCHANGED vars
    BY <2>6, SwitchEditsNothing
  <2> QED
    BY <2>1, <2>2, <2>3, <2>4, <2>5, <2>6 DEF Next, End
<1>3. IInv /\ [Next]_vars => /\ Signed(report) /\ Edited => Allowed
                             /\ \A c \in Certs : Reworded(c) => Explained(c)
  BY <1>1, <1>2
<1> QED
  BY <1>3, Invariance, PTL DEF Spec, NormalEditsRefused

\* What a correction changes of the report's text or of the stone's type, the
\* certificate in force that cites the report says afterwards, whatever requests
\* overlap (refresh_certificate_snapshot).
THEOREM CorrectionsReachCertificate == Spec => CorrectionReachesCertificate
<1> DEFINE Corrected(q, c) ==
             /\ Ended(q) /\ req[q].kind \in {"update", "stone"} /\ req[q].seen.final
             /\ cert[c].state = "issued" /\ cert[c].report = req[q].report
           Quoted(q, c) ==
             /\ report'[req[q].report].text # report[req[q].report].text
                  => cert'[c].text = report'[req[q].report].text
             /\ type' # type => cert'[c].type = type'
<1>1. IInv /\ [Next]_vars =>
        \A q \in Requests, c \in Certs : Corrected(q, c) => Quoted(q, c)
  <2> SUFFICES ASSUME IInv, [Next]_vars, NEW q \in Requests, NEW c \in Certs,
                      Corrected(q, c)
               PROVE  Quoted(q, c)
    OBVIOUS
  <2> USE DEF IInv
  <2> DEFINE r == req[q]
  <2>0. /\ r # NoRequest /\ r \in Request
        /\ cert[c].state = "issued" /\ cert[c].report = r.report
    BY Pending DEF Ended
  <2>1. r.text \in AnyText /\ r.type \in AnyType /\ r.seen.text \in AnyText
    BY <2>0 DEF Request, Row
  <2>2. CASE EndUpdate(q)
    <3>1. cert' = Refreshed(r.report, r.text, r.type)
      BY <2>2 DEF EndUpdate
    <3>2. cert'[c].text = r.text /\ cert'[c].type = r.type
      BY <2>1, <3>1, RefreshedKeeps
    <3>3. report'[r.report].text = r.text
      BY <2>2, UpdateFacts
    <3>4. type' # type => type' = r.type
      BY <2>2 DEF EndUpdate, SaveType
    <3> QED
      BY <3>2, <3>3, <3>4
  <2>3. CASE EndStone(q)
    <3>1. /\ cert' = Refreshed(r.report, r.seen.text, r.type)
          /\ type' = r.type /\ report' = report
      BY <2>3 DEF EndStone
    <3>2. cert'[c].type = r.type
      BY <2>0, <2>1, <3>1, RefreshedKeeps
    <3> QED
      BY <3>1, <3>2
  <2>4. CASE Abandon(q)
    BY <2>4 DEF Abandon
  <2>5. ASSUME NEW k \in Requests, End(k) PROVE k = q
    <3>1. Done(k)
      BY <2>5 DEF End, EndCreate, EndUpdate, EndFinalize, EndStone, EndInstrument,
         EndMove, Abandon
    <3> QED
      BY <3>1 DEF Done, TypeOK, Ended
  <2>6. ASSUME EndCreate(q) \/ EndFinalize(q) \/ EndInstrument(q) \/ EndMove(q)
        PROVE  FALSE
    BY <2>6 DEF EndCreate, EndFinalize, EndInstrument, EndMove
  <2>7. ASSUME NEW k \in Requests, Begin(k) PROVE Quoted(q, c)
    BY <2>7, BeginChangesNothing
  <2>8. CASE IssueCertificate
    BY <2>8 DEF IssueCertificate
  <2>9. CASE \/ \E k \in Reports : DiscardReport(k) \/ RestoreReport(k)
             \/ \E d \in Certs : DiscardCertificate(d) \/ RestoreCertificate(d) \/ MoveIn(d)
             \/ Settled \/ UNCHANGED vars
    BY <2>0, <2>9, SwitchEditsNothing DEF Ended
  <2> QED
    BY <2>2, <2>3, <2>4, <2>5, <2>6, <2>7, <2>8, <2>9 DEF Next, End
<1> QED
  BY <1>1, Invariance, PTL DEF Spec, CorrectionReachesCertificate
=============================================================================
