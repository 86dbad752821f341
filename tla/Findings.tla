------------------------------ MODULE Findings ------------------------------
(***************************************************************************)
(* One billed stone at the bench: its identification reports (at most one  *)
(* of them live), the stone's exact type, and the certificates that cite   *)
(* its reports or are filed under it.                                      *)
(*                                                                         *)
(* A request reads its rows and passes its checks (Begin...), and writes   *)
(* some time later (End...), when other requests may have committed: no    *)
(* row is locked or read again in between.  update_report saves every      *)
(* column of the report it read, PATCH /certificates/{id}/ every column of *)
(* the certificate, finalize_report its own columns only; the stone each   *)
(* of them uses was read together with the report.  issue_certificate is   *)
(* one step: its own reads and its insert are not separated.               *)
(***************************************************************************)
EXTENDS Naturals, FiniteSets

CONSTANTS
  Reports,     \* the report rows that may be created for the stone
  Texts,       \* what a request may say in a report's required findings
  Types,       \* what a request may give as the stone's exact type
  Blank,       \* nothing recorded; may be one of Texts and of Types
  NoReport,    \* no report of this stone
  Certs,       \* bound: the certificate rows, of this stone and moved to it
  Requests     \* bound: requests in progress at once

ASSUME ConstantsAssumption == NoReport \notin Reports

VARIABLES
  billPaid,     \* the bill of the stone's order is paid
  stoneStatus,  \* Stone.status
  type,         \* Stone.stone_type
  report,       \* the IdentificationReport rows
  cert,         \* the Certificate rows
  req           \* requests that have passed their checks and not yet written

vars == <<billPaid, stoneStatus, type, report, cert, req>>

AnyText == Texts \cup {Blank}
AnyType == Types \cup {Blank}

Row  == [state : {"unused", "live", "discarded"}, text : AnyText, final : BOOLEAN]

\* here: the row is filed under this stone (Certificate.stone).  A certificate
\* issued for another stone cites none of this stone's reports.
Cert == [state : {"none", "issued", "discarded"}, here : BOOLEAN,
         report : Reports \cup {NoReport}, text : AnyText, type : AnyType]

\* seen is the report row as read, where the request saves or quotes it.  text and
\* type are what the request will write; without stone fields (hasType) type is
\* the stone's type as read.
Request == [kind : {"create", "update", "finalize", "stone", "instrument"},
            report : Reports \cup {NoReport}, seen : Row, text : AnyText,
            type : AnyType, hasType : BOOLEAN, trusted : BOOLEAN]

\* seen is the certificate row as read, here what the request says of its stone.
CertRequest == [kind : {"certificate"}, cert : Certs, seen : Cert, here : BOOLEAN]

NoRequest == [kind |-> "none"]
NoRow  == [state |-> "unused", text |-> Blank, final |-> FALSE]
NoCert == [state |-> "none", here |-> FALSE, report |-> NoReport, text |-> Blank,
           type |-> Blank]

TypeOK ==
  /\ billPaid \in BOOLEAN
  /\ stoneStatus \in {"billed", "paid", "certified"}
  /\ type \in AnyType
  /\ report \in [Reports -> Row]
  /\ cert \in [Certs -> Cert]
  /\ req \in [Requests -> Request \cup CertRequest \cup {NoRequest}]

Init ==
  /\ billPaid = FALSE
  /\ stoneStatus = "billed"
  /\ type = Blank
  /\ report = [p \in Reports |-> NoRow]
  /\ cert = [c \in Certs |-> NoCert]
  /\ req = [q \in Requests |-> NoRequest]

\* Stone.report: the stone's live report in rows, if it has one.
LiveIn(rows)  == {p \in Reports : rows[p].state = "live"}
LiveOf(rows)  == IF LiveIn(rows) = {} THEN NoReport
                                      ELSE CHOOSE p \in LiveIn(rows) : TRUE
Signed(rows)  == \E p \in LiveIn(rows) : rows[p].final

\* The conditional unique constraint on the live reports of a stone.
MayBeLive(p) == LiveIn(report) \subseteq {p}

\* Certificate.stone is one-to-one over all rows, discarded ones included: c may
\* be filed under this stone.
StoneIsFree(c) == \A d \in Certs \ {c} : ~ cert[d].here

\* A certificate's number is made of the order's and the stone's label, so every
\* certificate issued for this stone has the same one, and it must be unique
\* among the live rows: c may carry it.
Ours(c) == cert[c].report # NoReport
NumberIsFree(c) == \A d \in Certs \ {c} : ~ (Ours(d) /\ cert[d].state = "issued")

-----------------------------------------------------------------------------
(* Requests that have passed their checks.  Only users who hold            *)
(* edit_finalized_report are trusted; who asks is left out where the code  *)
(* does not ask.                                                           *)

Start(q, r) ==
  /\ req[q] = NoRequest
  /\ req' = [req EXCEPT ![q] = r]
  /\ UNCHANGED <<billPaid, stoneStatus, type, report, cert>>

BeginCreate(q, p, text, t, hasType) ==
  /\ report[p].state = "unused"
  /\ billPaid
  /\ LiveIn(report) = {}
  /\ Start(q, [kind |-> "create", report |-> p, seen |-> NoRow, text |-> text,
               type |-> IF hasType THEN t ELSE type, hasType |-> hasType,
               trusted |-> FALSE])

\* Defect: an update does not ask whether the report is signed off.
BeginUpdateUnchecked(q, p, text, t, hasType, trusted) ==
  /\ report[p].state # "unused"
  /\ billPaid
  /\ ~ trusted
  /\ Start(q, [kind |-> "update", report |-> p, seen |-> report[p], text |-> text,
               type |-> IF hasType THEN t ELSE type, hasType |-> hasType,
               trusted |-> trusted])

\* ?with_trashed=1 reaches a discarded report too.
BeginUpdate(q, p, text, t, hasType, trusted) ==
  /\ report[p].state # "unused"
  /\ billPaid
  /\ report[p].final => trusted
  /\ trusted => report[p].final \/ hasType
  /\ Start(q, [kind |-> "update", report |-> p, seen |-> report[p], text |-> text,
               type |-> IF hasType THEN t ELSE type, hasType |-> hasType,
               trusted |-> trusted])

\* finalize_report refuses while a required finding is missing.
BeginFinalize(q, p) ==
  /\ report[p].state # "unused"
  /\ ~ report[p].final
  /\ report[p].text # Blank
  /\ type # Blank
  /\ Start(q, [kind |-> "finalize", report |-> p, seen |-> NoRow,
               text |-> report[p].text, type |-> type, hasType |-> FALSE,
               trusted |-> FALSE])

\* PATCH /stones/{id}/: the stone is read with its live report.
BeginStone(q, t, trusted) ==
  LET p == LiveOf(report) IN
  /\ trusted <=> Signed(report)
  /\ Start(q, [kind |-> "stone", report |-> p,
               seen |-> IF p = NoReport THEN NoRow ELSE report[p], text |-> Blank,
               type |-> t, hasType |-> TRUE, trusted |-> trusted])

\* PATCH or PUT /certificates/{id}/: of the certificate's columns only its stone
\* may be sent; ?with_trashed=1 reaches a discarded certificate too.
BeginMove(q, c, here) ==
  /\ cert[c].state # "none"
  /\ Start(q, [kind |-> "certificate", cert |-> c, seen |-> cert[c], here |-> here])

\* The instruments of a report are added, changed and removed by requests of
\* their own, which _assert_report_editable lets a trusted user make of a final
\* report.  Those of a draft change nothing that is modelled.
BeginInstrument(q, p) ==
  /\ report[p].final
  /\ Start(q, [kind |-> "instrument", report |-> p, seen |-> report[p],
               text |-> Blank, type |-> Blank, hasType |-> FALSE,
               trusted |-> TRUE])

-----------------------------------------------------------------------------
(* Their writes.                                                           *)

Done(q) == req' = [req EXCEPT ![q] = NoRequest]

\* update_stone saves the type whenever a stone field was sent.
SaveType(r) == type' = IF r.hasType THEN r.type ELSE type

\* refresh_certificate_snapshot: the live certificate citing the report, under
\* whichever stone it is filed.
Refreshed(p, text, t) ==
  [c \in Certs |-> IF cert[c].state = "issued" /\ cert[c].report = p
                     THEN [cert[c] EXCEPT !.text = text, !.type = t] ELSE cert[c]]

\* issue_certificate, which reads the stone's live report, in rows, again but
\* not the stone: its insert is refused when a certificate, discarded or not, is
\* filed under the stone, or a live one elsewhere has its number.
Issue(rows, t) ==
  \E c \in Certs :
    /\ cert[c].state = "none"
    /\ StoneIsFree(c)
    /\ NumberIsFree(c)
    /\ billPaid
    /\ Signed(rows)
    /\ t # Blank
    /\ cert' = [cert EXCEPT ![c] =
                  [state |-> "issued", here |-> TRUE, report |-> LiveOf(rows),
                   text |-> rows[LiveOf(rows)].text, type |-> t]]
    /\ stoneStatus' = "certified"

\* Defect: a new report is given a state of its own.
EndCreateAsDraft(q) ==
  LET r == req[q] IN
  /\ r.kind = "create"
  /\ report' = [report EXCEPT ![r.report] =
                  [state |-> "draft", text |-> r.text, final |-> FALSE]]
  /\ SaveType(r)
  /\ Done(q)
  /\ UNCHANGED <<billPaid, stoneStatus, cert>>

\* create_report: the insert is refused when the stone has a live report.
EndCreate(q) ==
  LET r == req[q] IN
  /\ r.kind = "create"
  /\ report[r.report].state = "unused"
  /\ LiveIn(report) = {}
  /\ report' = [report EXCEPT ![r.report] =
                  [state |-> "live", text |-> r.text, final |-> FALSE]]
  /\ SaveType(r)
  /\ Done(q)
  /\ UNCHANGED <<billPaid, stoneStatus, cert>>

\* Defect: the conditional unique constraint is missing.
EndUpdateNoConstraint(q) ==
  LET r == req[q] IN
  /\ r.kind = "update"
  /\ report' = [report EXCEPT ![r.report] = [r.seen EXCEPT !.text = r.text]]
  /\ SaveType(r)
  /\ UNCHANGED cert
  /\ Done(q)
  /\ UNCHANGED <<billPaid, stoneStatus>>

\* Defect: the form sends is_finalized back as FALSE.
EndUpdateReopens(q) ==
  LET r == req[q] IN
  /\ r.kind = "update"
  /\ r.seen.state = "live" => MayBeLive(r.report)
  /\ report' = [report EXCEPT ![r.report] =
                  [r.seen EXCEPT !.text = r.text, !.final = FALSE]]
  /\ SaveType(r)
  /\ UNCHANGED cert
  /\ Done(q)
  /\ UNCHANGED <<billPaid, stoneStatus>>

\* Defect: a correction leaves the certificate alone.
EndUpdateNoRefresh(q) ==
  LET r == req[q] IN
  /\ r.kind = "update"
  /\ r.seen.state = "live" => MayBeLive(r.report)
  /\ r.seen.final => r.text # Blank /\ r.type # Blank
  /\ report' = [report EXCEPT ![r.report] = [r.seen EXCEPT !.text = r.text]]
  /\ SaveType(r)
  /\ UNCHANGED cert
  /\ Done(q)
  /\ UNCHANGED <<billPaid, stoneStatus>>

\* The whole row as it was read is saved, with the new findings: a report
\* discarded, restored or signed off in the meantime goes back.  Sent along,
\* stone fields must pass update_stone; a correction must stay complete.
EndUpdate(q) ==
  LET r == req[q] IN
  /\ r.kind = "update"
  /\ r.seen.state = "live" => MayBeLive(r.report)
  /\ r.seen.final => r.text # Blank /\ r.type # Blank
  /\ report' = [report EXCEPT ![r.report] = [r.seen EXCEPT !.text = r.text]]
  /\ r.hasType /\ Signed(report') => r.trusted
  /\ SaveType(r)
  /\ cert' = IF r.seen.final THEN Refreshed(r.report, r.text, r.type) ELSE cert
  /\ Done(q)
  /\ UNCHANGED <<billPaid, stoneStatus>>

\* Defect: the sign-off commits before the certificate is issued, which may fail.
EndFinalizeNotAtomic(q) ==
  LET r    == req[q]
      rows == [report EXCEPT ![r.report].final = TRUE]
  IN
  /\ r.kind = "finalize"
  /\ report' = rows
  /\ Issue(rows, r.type) \/ UNCHANGED <<cert, stoneStatus>>
  /\ Done(q)
  /\ UNCHANGED <<billPaid, type>>

\* Defect: the certificate is made from the report as it was read.
EndFinalizeStale(q) ==
  LET r == req[q] IN
  /\ r.kind = "finalize"
  /\ report' = [report EXCEPT ![r.report].final = TRUE]
  /\ Issue([report' EXCEPT ![r.report].text = r.text], r.type)
  /\ Done(q)
  /\ UNCHANGED <<billPaid, type>>

\* The sign-off and the certificate are one transaction: it is undone when
\* issue_certificate refuses.
EndFinalize(q) ==
  LET r == req[q] IN
  /\ r.kind = "finalize"
  /\ report' = [report EXCEPT ![r.report].final = TRUE]
  /\ Issue(report', r.type)
  /\ Done(q)
  /\ UNCHANGED <<billPaid, type>>

\* The certificate is refreshed from the report as it was read.
EndStone(q) ==
  LET r == req[q] IN
  /\ r.kind = "stone"
  /\ type' = r.type
  /\ cert' = IF r.seen.final THEN Refreshed(r.report, r.seen.text, r.type) ELSE cert
  /\ Done(q)
  /\ UNCHANGED <<billPaid, stoneStatus, report>>

\* Here the stone is read again.  The instruments themselves are not modelled.
EndInstrument(q) ==
  LET r == req[q] IN
  /\ r.kind = "instrument"
  /\ cert' = Refreshed(r.report, r.seen.text, type)
  /\ Done(q)
  /\ UNCHANGED <<billPaid, stoneStatus, type, report>>

\* Defect: certificate numbers need not be unique.
EndMoveNoConstraint(q) ==
  LET r == req[q] IN
  /\ r.kind = "certificate"
  /\ r.here => StoneIsFree(r.cert)
  /\ cert' = [cert EXCEPT ![r.cert] = [r.seen EXCEPT !.here = r.here]]
  /\ Done(q)
  /\ UNCHANGED <<billPaid, stoneStatus, type, report>>

\* The whole row as it was read is saved, with its new stone: a certificate
\* discarded, restored or refreshed in the meantime goes back.  Some other stone
\* without a certificate is taken to exist; the stones' statuses stay.
EndMove(q) ==
  LET r == req[q] IN
  /\ r.kind = "certificate"
  /\ r.here => StoneIsFree(r.cert)
  /\ r.seen.state = "issued" /\ Ours(r.cert) => NumberIsFree(r.cert)
  /\ cert' = [cert EXCEPT ![r.cert] = [r.seen EXCEPT !.here = r.here]]
  /\ Done(q)
  /\ UNCHANGED <<billPaid, stoneStatus, type, report>>

\* A refused or failed request leaves nothing behind.
Abandon(q) ==
  /\ req[q] # NoRequest
  /\ Done(q)
  /\ UNCHANGED <<billPaid, stoneStatus, type, report, cert>>

-----------------------------------------------------------------------------
(* Single-step requests, and the payments.                                 *)

DiscardReport(p) ==
  /\ report[p].state = "live"
  /\ report' = [report EXCEPT ![p].state = "discarded"]
  /\ UNCHANGED <<billPaid, stoneStatus, type, cert, req>>

RestoreReport(p) ==
  /\ report[p].state = "discarded"
  /\ MayBeLive(p)
  /\ report' = [report EXCEPT ![p].state = "live"]
  /\ UNCHANGED <<billPaid, stoneStatus, type, cert, req>>

DiscardCertificate(c) ==
  /\ cert[c].state = "issued"
  /\ cert' = [cert EXCEPT ![c].state = "discarded"]
  /\ UNCHANGED <<billPaid, stoneStatus, type, report, req>>

RestoreCertificate(c) ==
  /\ cert[c].state = "discarded"
  /\ Ours(c) => NumberIsFree(c)
  /\ cert' = [cert EXCEPT ![c].state = "issued"]
  /\ UNCHANGED <<billPaid, stoneStatus, type, report, req>>

\* POST /certificates/ certifies a stone whose report was signed off before.
IssueCertificate ==
  /\ Issue(report, type)
  /\ UNCHANGED <<billPaid, type, report, req>>

\* Another stone's certificate is moved to this one (BeginMove and EndMove, seen
\* from here).  Its number is its own stone's, and its words, which nothing done
\* here touches, are left out.
MoveIn(c) ==
  /\ cert[c].state = "none"
  /\ StoneIsFree(c)
  /\ cert' = [cert EXCEPT ![c] = [NoCert EXCEPT !.state = "issued", !.here = TRUE]]
  /\ UNCHANGED <<billPaid, stoneStatus, type, report, req>>

\* A settling payment, the first or a late one (_apply_payment).
Settled ==
  /\ stoneStatus # "paid"
  /\ billPaid' = TRUE
  /\ stoneStatus' = "paid"
  /\ UNCHANGED <<type, report, cert, req>>

-----------------------------------------------------------------------------
Begin(q) ==
  \/ \E p \in Reports, text \in Texts, t \in Types, hasType \in BOOLEAN :
        BeginCreate(q, p, text, t, hasType)
  \/ \E p \in Reports, text \in Texts, t \in Types,
        hasType \in BOOLEAN, trusted \in BOOLEAN :
        BeginUpdate(q, p, text, t, hasType, trusted)
  \/ \E p \in Reports : BeginFinalize(q, p)
  \/ \E t \in Types, trusted \in BOOLEAN : BeginStone(q, t, trusted)
  \/ \E p \in Reports : BeginInstrument(q, p)
  \/ \E c \in Certs, here \in BOOLEAN : BeginMove(q, c, here)

End(q) ==
  \/ EndCreate(q)
  \/ EndUpdate(q)
  \/ EndFinalize(q)
  \/ EndStone(q)
  \/ EndInstrument(q)
  \/ EndMove(q)
  \/ Abandon(q)

Next ==
  \/ \E q \in Requests : Begin(q)
  \/ \E q \in Requests : End(q)
  \/ \E p \in Reports : DiscardReport(p)
  \/ \E p \in Reports : RestoreReport(p)
  \/ \E c \in Certs : DiscardCertificate(c)
  \/ \E c \in Certs : RestoreCertificate(c)
  \/ \E c \in Certs : MoveIn(c)
  \/ IssueCertificate
  \/ Settled

Spec == Init /\ [][Next]_vars

-----------------------------------------------------------------------------
(* The bench's queues: whether the stone is on each of them.               *)

\* Defect: the queue asks the stone, not the bill and the report.
FindingsWorklistByStatus == stoneStatus = "paid"

\* The two conditions of exclude() cross a one-to-many join, where they need
\* not hold of the same report.
FindingsWorklist ==
  /\ billPaid
  /\ ~ ((\E p \in Reports : report[p].final) /\ LiveIn(report) # {})

\* A certificate keeps its stone off the list when discarded, too.
CertificationWorklist ==
  billPaid /\ Signed(report) /\ \A c \in Certs : ~ cert[c].here

\* What the findings screen shows of the stone: its draft, which waits if the
\* stone does, or else the stone itself while it waits.
FindingsFeed ==
  LET drafts == {p \in LiveIn(report) : ~ report[p].final} IN
  {[row |-> p, waiting |-> FindingsWorklist] : p \in drafts}
    \cup {[row |-> r, waiting |-> TRUE] :
            r \in {k \in {NoReport} : FindingsWorklist /\ drafts = {}}}

-----------------------------------------------------------------------------
(* Properties, which hold however requests overlap.                        *)

Ended(q) == req[q] # NoRequest /\ req'[q] = NoRequest

\* "One live report per stone", though the check of create_report, a stale
\* update of a discarded report and a restore may all race.
OneLiveReport == \A p, q \in LiveIn(report) : p = q

\* The stone has one certificate in force, though certificates are moved to
\* other stones, discarded, issued again, restored, and saved back from old
\* reads: a correction that refreshes the one citing its report misses none.
OneCertificateInForce ==
  \A c, d \in Certs :
    /\ Ours(c) /\ cert[c].state = "issued" /\ Ours(d) /\ cert[d].state = "issued" => c = d
    /\ cert[c].here /\ cert[d].here => c = d

CertifiedOnce == \A c, d \in Certs : Ours(c) /\ Ours(d) => c = d

\* A report is final only if a certificate cites it, wherever that certificate
\* is filed: no failure or race separates the sign-off from the certificate.  It
\* ends when a stone is certified a second time, its first certificate moved to
\* another stone and discarded: finalizing a discarded report then issues the
\* certificate for the live one.
FinalReportIsCertified ==
  CertifiedOnce =>
    \A p \in Reports : report[p].final => \E c \in Certs : cert[c].report = p

\* The queues show the work there is: a stone waits to be certified (the sign-off
\* does that) only once its certificate was moved to another stone; a stone
\* waiting for findings is paid for and not signed off, and the screen shows it
\* once; and until a final report is discarded, every such stone waits.
BenchQueueIsRight ==
  /\ CertificationWorklist => \E c \in Certs : Ours(c) /\ ~ cert[c].here
  /\ FindingsWorklist =>
       /\ billPaid /\ ~ Signed(report)
       /\ \E row \in Reports \cup {NoReport} :
            FindingsFeed = {[row |-> row, waiting |-> TRUE]}
  /\ (\A p \in Reports : report[p].final => report[p].state = "live") =>
       (FindingsWorklist <=> billPaid /\ ~ Signed(report))

\* A certificate is only ever issued for the stone's live, final report on a
\* paid order, says what that report says, and names an exact type.
IssuedForFinalReport ==
  [][\A c \in Certs :
       cert[c].state = "none" /\ cert'[c].report # NoReport =>
         /\ billPaid
         /\ report'[cert'[c].report].state = "live"
         /\ report'[cert'[c].report].final
         /\ cert'[c].text = report'[cert'[c].report].text
         /\ cert'[c].type # Blank]_vars

\* finalize_report: "One-way: there is no un-finalize service".  The one thing
\* that takes a sign-off back is an edit that had read the report as a draft, and
\* it leaves the certificate in force as it is.
SignOffLostToDraftEdit ==
  [][\A p \in Reports : report[p].final /\ ~ report'[p].final =>
       /\ cert' = cert
       /\ \E q \in Requests : Ended(q) /\ req[q].kind = "update"
                                /\ req[q].report = p /\ ~ req[q].seen.final]_vars

\* What q read of the live report, or of the stone, was not signed off yet.
ReadBeforeSignOff(q) ==
  \/ req[q].kind = "update" /\ req[q].report = LiveOf(report) /\ ~ req[q].seen.final
  \/ req[q].kind = "stone" /\ ~ req[q].seen.final

\* business-workflow.md: "Normal edits to a finalized report or its stone are
\* refused".  What a finalized report and its stone say is changed only by a user
\* who may correct it or by a request that read them before the sign-off; what an
\* issued certificate says, only by such a user, or by an edit of the record
\* that puts back what it had read.
NormalEditsRefused ==
  [][/\ Signed(report) /\ (\/ type' # type
                           \/ report'[LiveOf(report)].text # report[LiveOf(report)].text)
          => \E q \in Requests : Ended(q) /\ req[q].kind # "certificate"
                                   /\ (req[q].trusted \/ ReadBeforeSignOff(q))
     /\ \A c \in Certs :
          cert[c].state = "issued" /\ (cert'[c].text # cert[c].text
                                         \/ cert'[c].type # cert[c].type)
          => \E q \in Requests :
               /\ Ended(q)
               /\ IF req[q].kind = "certificate"
                    THEN cert'[c].text = req[q].seen.text /\ cert'[c].type = req[q].seen.type
                    ELSE req[q].trusted]_vars

\* business-workflow.md: "Updating a finalized report refreshes the existing
\* certificate's findings snapshot": whatever an edit made through a report it
\* read as final, or through that report's stone, changes of the report's text
\* and of the stone's type, the certificate in force says afterwards.
CorrectionReachesCertificate ==
  [][\A q \in Requests, c \in Certs :
       LET p == req[q].report IN
       /\ Ended(q) /\ req[q].kind \in {"update", "stone"} /\ req[q].seen.final
       /\ cert[c].state = "issued" /\ cert[c].report = p
       => /\ report'[p].text # report[p].text => cert'[c].text = report'[p].text
          /\ type' # type => cert'[c].type = type']_vars

-----------------------------------------------------------------------------
(* A promise of the source that the code does not keep.                    *)

\* finalize_report: "One-way: there is no un-finalize service."
FinalizeIsOneWay ==
  [][\A p \in Reports : report[p].final => report'[p].final]_vars
=============================================================================
