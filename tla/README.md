# TGPMIS backend: TLA+ models, checks and proofs

The backend runs a gem-testing laboratory: a customer brings stones, reception
opens an order, the bench registers each stone, accounts bills the order through
the government payment gateway (GePG), and once the bill is paid gemmologists
record findings, sign a report off and a certificate is issued. It is a Django
REST application over PostgreSQL; every web request is one READ COMMITTED
transaction (`ATOMIC_REQUESTS`), and a one-shot worker, started every minute by a
systemd timer, handles what the gateway sends and what could not be sent to it.

Nearly everything that can go wrong here goes wrong between two requests, or
between a request and a message of the gateway: rows are read, checked and saved
whole with few locks, a transaction stays open during an HTTP exchange, messages
come late and more than once, and the worker may die between two commits. That
is what the modules are about.

## Inventory

Paths are relative to `src/apps/`.

| Component | State | Operations | What is hard | Correct when |
|---|---|---|---|---|
| Order intake (`orders/`, `billing/selectors.py`) | order, stone count, hold; stones with status and label, soft-deleted or not | add, type, transition, delete, restore a stone; hold, release, PATCH the order | counts taken without locks; PATCH saves what it read; two derivations of the stage | each order is in one list, and the list agrees with the order's own stage |
| Bill and settlement (`billing/services/`) | one bill per order, a line per stone, payments | generate, retry, apply a payment, cancel | overlapping generations, redelivery, a cancellation answered after a payment | paid exactly when covered, once, for good |
| GePG inbox (`billing/webhooks.py`, `billing/processing.py`) | stored callbacks and their status | store, acknowledge, claim, dispatch, save outcome, recover, expire | at-least-once delivery, crash between handler and mark, partial batches | acknowledged callbacks are kept and closed; processed ones are recorded |
| GePG outbox (`billing/gepg_transport.py`, `billing/processing.py`) | stored requests, attempts, next attempt | send, retry, finish, exhaust, recover | crash between sending and recording, two writers of the control number | every submission closes, once; an accepted bill is backed by one |
| Identification reports (`identification/`) | one live report per stone, final or not; instruments used | create, edit, finalize, correct, discard, restore; the bench's queues | stale whole-row saves | sign-off is one-way and tied to a certificate; the queues show the work there is |
| Certificates (`certificates/`) | a snapshot of a report, filed under a stone | issue, refresh, move to another stone, discard, restore | refresh from a stale row; a move leaves its stone with none | one in force per stone; it says what the report says |
| Users, sessions (`users/`) | accounts, first-login flags, login sessions, refresh and access tokens | log in, refresh, interact, log out, set and reset passwords, edit accounts | idle deadline against late requests; stale whole-row saves | a dead session stays dead; a temporary password is replaced |
| Roles (`users/roles.py`, `users/services/roles.py`) | groups, their names and permissions, memberships | make, edit, rename, drop, hand out roles; set one's own on `/auth/me/`; create, delete, restore accounts; `setup_roles` | chains of legal changes; checks that go stale | the top rank comes from the top; ranks move, and permissions spread, only from above |
| Core (`core/`) | soft-delete flags, reference numbers | allocate numbers, delete, restore, map errors | textual maximum read without a lock; partial failure | numbers run on without a gap; a refused request leaves nothing |
| Notifications (`notifications/`) | one row per person told | notify on commit, read, read all | a callback after the commit may never run | nobody is told of what was not saved |
| Reports (`reports/`) | none of their own | sections over a range of days, exports | two derivations of what is owed; midnight in two time zones | sections agree with the books and add up |
| Audit (`audit/`) | append-only rows | record | none a decision depends on | written with the change they report |
| Catalogue, PDF, signing, SMS | reference data, files | CRUD, render, sign | none stateful | out of scope |

Interactions. `orders` calls `billing` to raise a bill when the last stone is
registered (automatic mode) or accounts does so by request (manual mode). Billing
sends a bill to the gateway inside the request and gets the control number in the
answer or in a later callback. The inbox worker applies payments, which move the
stones to *paid*, which lets `identification` record findings; finalizing a report
calls `certificates` in the same transaction. A certificate is refreshed by later
corrections of the report or of the stone. The stage shown for an order is
derived from stones, bill and hold each time.

`PROJECT.json` lists the components with what is and is not modelled, and the
hazards at their lines with the properties that watch them.

## Modules

| Module | Models | State |
|---|---|---|
| `Settlement` | one order, its stones, its single bill, payments and cancellation | `hold live status category billStatus line recorded gen edits cancelling gw made` |
| `Ledger` | what billing promises about money: unbilled, owing, settled | `account due received` |
| `Intake` | one order as the work queues see it; `order_stage` against `orders_at_stage` | `auto stoneCount hold live status label bill adds patching` |
| `Findings` | one billed stone: reports, exact type, certificates, the bench's queues | `billPaid stoneStatus type report cert req` |
| `GepgInbox` | the stored callbacks and their worker | `inbox arrival expired acked bills recorded cur phase left batch crashes` |
| `EventFeed` | what the inbox promises: kept, recorded, closed | `progress promised recorded` |
| `GepgOutbox` | one bill's submissions, the web requests and the worker that send them, the callback that answers | `bill outbox old web at phase seen taken callback crashes` |
| `Dispatch` | what the outbox promises: a submission posted, closed once, an acceptance with something behind it | `stage heard shown` |
| `Sessions` | accounts with their first login, login sessions and their tokens | `account session access token req` |
| `Roles` | roles as groups, who holds them, and the requests that change either | `group member status req` |
| `Reception` | orders received, their numbers, new customers, and the notices they cause | `year order customers req unread` |
| `Reports` | one order's bill, payments and work as the report sections list them | `now bill payment cancelling work gone restated` |
| `...Proofs` | theorems of the module named; `OfficeProofs`: of `Reception` and `Reports` | |
| `MC...` | a small instance of the module named | |

Each definition is mapped to its lines in `PROJECT.json`. A comment `Defect: ...`
marks an operator that is *not* the code: a plausible bug, placed before the
operator it would replace, kept to show that a property would notice it. Such
operators are never part of `Next`.

### Settlement

One order, manual billing mode (`AUTO_BILL_AFTER_IDENTIFICATION` off); automatic
mode differs in who calls the generation, and is in `Intake`. A bill generation is
three steps: it reads the stones and finds no committed bill (`GenerateRead`), it
inserts and starts the exchange with the gateway, blocking a second insert on the
one-to-one constraint (`GenerateInsert`), and it commits (`GenerateCommit`) or dies
(`GenerateLost`). A stone edit or deletion is checked (`BeginEdit`) and written
later (`CommitEdit`), waiting while the row is locked by a generation. A
cancellation is requested, answered by the gateway, and applied by the reply or by
a callback. Adding a stone is one step with a fixed `StoneCount`; the overlap of
additions and the editable count are in `Intake`.

`Charge` is the sum of a set of lines, `PaidAmount` the sum of a set of
transactions. Any function will do as long as paying more never pays less
(`AmountsAssumption`), so currencies and decimals do not enter. `Manual` is the set
of statuses the transition endpoint is used for; *billed* and *paid* are excluded,
because the endpoint accepts any status from any holder of the permission and a
person who sets *paid* by hand simply contradicts the books.

The gateway is external. Assumed: it opens the bill it was sent, takes payments
while the bill is open, delivers a notification late and repeatedly, and cancels
only a bill the payments it has taken do not cover. A resubmission has the same
bill number and does not open a second bill.

`Settlement` implements `Ledger`: no bill is *unbilled*, a paid bill *settled*, any
other *owing*; the amount due is fixed when the bill commits.

### Intake

The two ways the code computes where an order stands are both here:
`OrderStage` (Python, live stones) and `AtStage` (the SQL filters, whose
`Count("stones")` includes deleted rows), and with them the queue of each desk
(`IdentificationWorklist`, `BillingWorklist`, `BillingAttentionWorklist` and the feeds
of the screens). An addition is three steps: it checks the
capacity, takes the label, inserts; in automatic mode the insertion that completes
the order may raise the bill. A PATCH of the order reads the row and later saves
it, so that a hold or a release made in between is undone. The bill is reduced to
its status and whether its submission is queued, failed or accepted.

### Findings

One stone whose order has a bill. A request reads its rows and passes its checks
(`Begin...`), then writes (`End...`); nothing is locked or read again in between, and
requests overlap without restriction, so `EndUpdate` saves the report, and `EndMove`
the certificate, as it was read. `text` stands for the required findings on the
report, `type` for what is kept on the stone (exact type and weight). A request on
the instruments of a report (`EndInstrument`) has no content here but refreshes the
certificate.

Certificates are rows (`Certs`), since `PATCH /certificates/{id}/` leaves the stone
writable: `here` says whether the row is filed under this stone. `BeginMove` and
`EndMove` move one away or back, `MoveIn` brings in one of another stone, whose
number is not ours and whose report is none of ours. Two constraints remain: one
row per stone, discarded ones included (`StoneIsFree`), and one live certificate per
number (`NumberIsFree`), wherever it is filed. `Issue` is `issue_certificate`, called
by the sign-off or by `POST /certificates/` (`IssueCertificate`).

`FindingsWorklist`, `CertificationWorklist` and `FindingsFeed` are the queues derived
from these rows. Images, and what an instrument measured, are left out.

### GepgInbox

A webhook stores a callback (`Receive`) and acknowledges it (`Acknowledge`). The
worker claims the oldest due callback, handles its items one by one, answers, and
saves the outcome, each a transaction: a payment notification commits item by item,
a reconciliation and a bill response commit at the end, or with what they had
applied when an item fails and the handler turns the error into an answer. Signing
the answer may raise after the work is done. A crash loses the open transaction and
leaves the row claimed until it counts as stale.

There is one worker: a oneshot service killed after 45 seconds, while a claim is
stale after 5 minutes. Two workers at once would need another model.
`GepgInbox` implements `EventFeed`: only acknowledged-and-kept, recorded, and closed
remain visible. Cancellation callbacks do not pass the inbox: their view applies
them at once, and `Settlement` has their effect.

### GepgOutbox

The bill of one order, unpaid, and its submissions. A web request creates the bill,
or finds it in need of attention, and sends (`BeginSubmit`); its bill row and its
submission appear together when it ends (`Answered`, `Undelivered`), or not at all
(`WebLost`). The bill row it saves is the one it read before the exchange. The
worker's saves are transactions of their own: `Claim`; then `Fail`, or `GiveUp` and
`MarkExhausted` (two writes on the bill, by `_attempt` and by its caller), or
`Finish` and `Record`. A crash leaves the row in `sending`, from which the next start
of the worker recovers it (`Recover`). One process handles callbacks and resends
submissions in turn, so `ApplyCallback` waits for it to be idle. `waiting` and
`retry` are both the code's `RETRY`, before and after `next_attempt_at`. `code` keeps
of `Bill.status_code` whether it is an acknowledgement.

The gateway is external. Assumed: one bill number has one control number; it accepts
only what it received, refuses anything, and calls back about a submission at any
time after it received it, once to effect. That a callback is applied once and in order of
arrival is the matter of `GepgInbox`.

An answer may carry an accepting code and no number, or number 0. The gateway module
calls that a failure, so `finish_gepg_request` closes the submission as rejected, and
its code is stored on the bill all the same: the model's answer and status
`"unnumbered"`. `Acknowledged` holds the two statuses whose answer had an accepting
code. A callback without a number is acknowledged with the bill as it was
(`"silent"`), and the gateway may call again.

`GepgOutbox` implements `Dispatch`, which has no attempts, no worker and no crashes:
a submission becomes known together with what it told the bill, an open one is closed
without a word to the bill, the bill is told later if at all, and an acceptance may be
withdrawn only when the bill rests on another. A submission turned down for want of a
number is a stage of its own there, on which an acceptance may rest. `Stage` maps the rows; what the
bill shows is its `code`.

### Sessions

Accounts, their login sessions, and the tokens that name a session. A request is
authenticated by `Begin...`, against the account and the session as they are then,
and writes in `End...`. Most writes name their columns; the profile step
(`EndProfile`) and an account edit (`EndSave`) write the whole row they read, flags,
password and deletion included. `record_interaction` asks in its UPDATE what
authentication asked before, which is what keeps a dead session dead. The UPDATE
that marks an idle session revoked is undone together with the refusal it comes with,
so `ActiveSession` works on the time alone. `Tick` is half an hour; `quiet` stops at
`IdleTimeout`. A refresh token is told apart from others only while it can be used.

### Roles

Groups with a name and permissions, the accounts holding them, and the requests of
the API that change either; ranks belong to names. `Shown` is what
`hidden_role_names` leaves visible, `Staff` the gate of the screens, and the `Can...`
operators are the `assert_can_...` functions. A request passes its checks in
`Begin...` and writes the rows it has in hand (`groups`) in `End...`; requests overlap
without restriction. `rank` is the rank its checks found the actor to have. `Gate`
stands for the permissions the user and role screens ask for; every other permission
may be any. `SetupRoles` is the command that writes the matrix back, with `--prune`
apart.

`PATCH /auth/me/` is `BeginMe`, written by `EndRoles`: `roles` is declared on the
serializer, which `read_only_fields` does not reach, so an account may set its own
roles to any it is shown. It is shown those ranked up to its own, so this can drop a
rank, take another role of the same rank, or lead from no role to the lowest.

A request whose checks have gone stale can do what it could not ask for any more.
`StillAllowed` says that what it checked still holds, and `RankMovesOnlyFromAbove` and
`PermissionsStayBelow` are about the requests that end so (`EndsAllowed`), whatever ran
between their check and their write. `TopComesFromTop` and `ProtectedRoleIntact` are
about all.

### Reception

`Allocate` admits the request, saves a new customer and reads the highest number;
`Insert` waits for another insert of the same number and takes it, or the index
refuses (`Refused`), which undoes the customer, too. Notices are written by a
callback after the commit (`Deliver`), which may never run (`DeliverLost`).
`TextOrder` is how `Max()` sorts the numbers: by text, where a number one digit too
wide sorts just after the number it starts with. The width is the constant `Limit`
(99999 in the code) and `Leading` the number whose digits `Limit + 1` starts with
(10000).

### Reports

The sections as sets of rows over the books, and the steps that change these books,
each taken whole: Settlement has their overlaps. A day of the laboratory starts
`Offset` instants before the day of the server's clock. `restated` records that a
notice came again with other contents, which rewrites a payment without a second
look at the bill. A payment is in the bill's currency (`own`) or not.

## Runs

| Run | Shows | Bounds |
|---|---|---|
| `settlement` | exact settlement; quiet redelivery; refinement of `Ledger`, in which an order is billed once | 2 stones, a priced and an unpriced tier, 2 generations at once, 1 edit at once, 2 transactions of 1 and 3 against a price of 1 |
| `findings` | one live report, issued only for a final report, sign-offs lost only to stale draft edits, normal edits refused, corrections reach the certificate | 2 reports, 1 certificate, 2 overlapping requests, 2 texts, 1 type |
| `certificates` | one certificate in force, final reports have theirs, the bench's queues | 2 reports, 2 certificates, 1 request, 2 texts of which one is blank, 2 types |
| `intake` | every order in exactly one filter, that of its stage, but for deleted rows; each queue holds the orders of its stage | 2 stone rows, counts 0 to 2, 1 addition at once, both billing modes |
| `inbox` | processed implies recorded, refinement of `EventFeed`, every acknowledged callback closes | a payment with 2 transactions and a reconciliation sharing one of them, 2 bills, 2 crashes |
| `outbox` | accepted bills are backed, refinement of `Dispatch`, every open submission closes | 2 submissions, 2 crashes |
| `sessions` | a dead session stays dead, what is cut off stays so, a temporary password is replaced | 1 account, 2 sessions, 2 refresh tokens, 2 requests at once, idle after 2 ticks, access tokens of 3 |
| `roles` | superadmin stays as declared, the top rank comes from the top, ranks move only from above, nobody brings into the roles below a rank they lack a permission these do not grant | a superuser and an account, 3 groups of 3 ranks, 1 permission, 2 memberships, 2 overlapping requests, no permission asked for by the screens |
| `reception` | numbers run on and no live orders share one, a refused order leaves nothing | 4 order rows, 2 received at once, 2 clerks, 2 financial years, a width of 2 numbers |
| `reports` | what is listed as owed agrees with the bill, ranges of days add up | 2 transactions of 1 or 2 against a bill of 2, 4 instants, 3 days, 1 deleted record at once |
| `finalize_lost`, `labels` | what the code does against what its documents say (below) | the smallest instance that shows it |

Why these bounds are enough. Settlement: two overlapping generations are the
smallest race for the constraint; one transaction that covers a one-stone bill and
not a two-stone one gives partial, exact and excess payment. Findings: two reports
give discard-and-replace and a stale save against each of them; two requests every
pairwise race; a second certificate row gives a stone certified twice, or one
certificate coming while another is away, for which one request and the single steps
suffice. Intake: two rows and counts of zero to two reach empty, partial,
complete and over-full orders. Sessions: two requests every pairwise race, two
sessions a login that must not disturb the other; an access token outlives the idle
deadline, as it may when nobody interacts. Roles: three ranks are top, middle and
base; the account can be given each, or two, by the superuser or by itself, while
another request is under way. Peers of different accounts are left to the proofs. Reception: two numbers in the
width reach the boundary and the order refused beyond it, four rows both years.
Reports: two transactions reach partial, exact and excess payment in one or two
currencies; three days put an instant before, on and after each midnight, and cover the clock, as
`ReportsAssumption` asks: the reports are asked for the days there are. Inbox: two callbacks suffice for a shared item, for a
known item before an unknown one, and for the older callback delaying the younger;
the second crash falls into the recovery from the first. Outbox: two submissions
are the bill's first and a retry by staff, or two retries at once. The proofs do not depend
on any of these. `MaxEdits` and `MaxCrashes` are bounds of the model; they appear in
guards and nowhere else.

Deadlock is checked everywhere but in `outbox`: the submissions a bill may get are
finitely many there, and when all are closed and all callbacks spent nothing is left
to do.

Fairness appears only in `FairSpec` of `GepgInbox` and of `GepgOutbox`: the worker is
run (`WF(Worker)`: the timer starts it every minute), and time passes (back-off ends,
a claim grows stale, a callback expires, a submission grows a day old). Nothing is assumed of the gateway, the web
processes or crashes; crashes are bounded by `MaxCrashes`, which liveness needs,
since a worker that dies in every run finishes nothing.

### Where code and documents disagree

* `finalize_lost`: a draft edit in progress while the report is finalized saves the
  row it read, and the report is a draft again with its certificate issued.
* `labels`: the next label is the count of live stones, so after a deletion two
  live stones share a letter and their document numbers collide.

### Observations

What the models do because the code does it, and no property forbids. Some
contradict a document in passing, some are merely worth knowing.

Billing.

* The bill is submitted while the request that creates it is still open
  (`bill.py:214`, against `01_BILL_SUBMISSION.md:61`): a callback handled before the
  commit finds no bill and is closed as failed, and the bill, once accepted, waits
  for a number that was spent.
* An edit of a stone that passed its check before the stone was billed waits for the
  row and then overwrites the category its line was priced from.
* A stone added or restored after the bill was made is paid with the others and has
  no line (`business-workflow.md:17` has every stone on the bill).
* A retry's stale save may write over the control number a callback has stored.
* A submission answered 7101 without a number is closed as rejected, but its code reads
  as accepted (`gateways/gepg.py:256-271`): the bill is on no list of those that need
  attention and waits for a callback, against `bill.py:201` ("a rejected one needs
  retry").
* `gems/enums.py:91-93` says that cancelling a bill has no code path; it has one.

Orders.

* Deleted stones count in the SQL of the stage filters and of the worklists
  (`orders/selectors.py:27`, `billing/selectors.py:18`), not in the order's own
  stage: an order still short of stones is then listed as complete, or further on.
  `StageFilterAgrees` says that the stage filter strays in no other way.
* A PATCH of an order puts back a hold or a release made since it was read
  (`orders/serializers.py:219`). Two overlapping additions may leave an order with more
  stones than its count.
* Two overlapping additions of the last two stones each see one less, and nobody is
  told that the order is ready to bill (`stone.py:118-135`).
* A PATCH that sets `stone_count` below the stones registered leaves an unbilled
  order ready to bill and on no billing list; a held order stays on the billing list
  in manual mode; and the list of bills that need attention shows those whose
  submission is still queued, for which a retry is refused.
* The number of a soft-deleted order is not protected by the index, which covers
  live rows. The scan covers deleted ones, but two requests may read the same highest
  number, and the second is let in if the first order is deleted before it inserts;
  past the width the scan stands still. Either way a number is handed out again,
  against `core/services.py:45-46`; `NumbersRunOn` lets live orders only never share
  one.
* `reference_number_for_order` raises `ValueError` on a number of six digits.

Bench.

* `findings_worklist` excludes with two conditions across one to-many join, where
  they need not hold of one report: a stone with a discarded final report and a live
  draft is left out, against the comment at `selectors.py:30-32`.
* A certificate can be moved to another stone. Its own is then left with a final
  report and none, and the other shows a foreign report. The moved one keeps its
  number, so the certification worklist offers the stone and `issue_certificate`
  is refused, against `certificates/selectors.py:16-17` ("so the screen and the service
  agree"), until the moved certificate is discarded.
* A stone certified a second time in this way may have a final report that no
  certificate cites: the sign-off of a discarded report issues the certificate for
  the live one.
* `PATCH /certificates/{id}/` saves the row it read: a refresh, a discard or a restore
  made meanwhile is undone. Of two overlapping corrections the later puts back what the
  other changed, on the report, or on the certificate alone when it came by the stone or
  an instrument.
* Completeness is checked on the rows as they were read: a report finalized while an
  edit empties it is signed off incomplete.

Accounts.

* A stale PATCH of an account undoes its deletion made meanwhile.
* A reset ends the profile step an account still had due (`accounts.py:103`, against
  `accounts.md:97`).
* `PATCH /auth/me/` lets every account set its own roles among those it is shown, no
  rank asked: an account without a role can take one of the lowest rank, and anyone
  can take a peer's, against `users/roles.py:191-192` ("no one can raise themselves or a
  peer") and `services/roles.py:176-177`. `MeSerializer` lists `roles` as read-only to
  no effect.
* A role or membership change whose target was promoted, or whose role was renamed,
  since it was checked goes through: below the top, one may end with a rank its author
  does not outrank. `roles.py:190-192` states its rule without a word on overlap.

Reports.

* `_apply_payment` adds a payment in another currency, the list of outstanding bills
  does not subtract it: a paid bill may stay outstanding (`reports.md:34-38`). A
  repeated notice with another amount changes the balance and not the status.
* The section of exceptions is always empty, since nothing stores an unprocessed
  payment. `reports.md` names a `provider` filter the code lacks.
* An order is dated by the server's UTC day (`services/order.py:58`), every other
  section by the laboratory's.
* Rows, totals and the row limit of an export (`exports.py:131-143`) come from
  queries of their own, between which the books may change.

## Proofs

All theorems are for arbitrary constants satisfying the named assumptions, and
are proofs of safety: `Init => IInv`, `IInv /\ [Next]_vars => IInv'`, `IInv => Inv`.

* `SettlementProofs`. The inductive invariant adds to the properties: a bill and its
  lines are empty together, at most one generation is inserted and only while no
  bill is committed, a recorded transaction is one the gateway took, and a closed
  gateway bill is not covered by what was taken. The last two carry the argument
  that a cancellation reply cannot undo a settlement: what is recorded is part of
  what was taken, and what was taken does not reach the total. Proved: type
  correctness, `PaidExactlyWhenCovered`, `PaidStonesAreSettled`, `PaidIsFinal`,
  `RedeliveryIsSilent`, `OneBillPerOrder`, and that every step is a `Ledger` step or
  a stutter.
* `FindingsProofs`. Invariant: at most one report is live and one certificate in force;
  an edit of a certificate holds the certificate it read, still citing the same report;
  whoever holds a report read as final may correct it; and, while no second certificate
  of the stone was issued, a report that is final, or was when a request read it, is
  cited by one. Proved, for any number of reports, certificates and requests, however
  they overlap: type correctness and every property of `findings` and `certificates`.
* `IntakeProofs`. Type correctness is inductive. The lemma `FilterIsFunction` shows the
  SQL filters are a function of the order's state: each selects exactly one stage;
  from it follow `StageFilterAgrees` and `QueuesMatchStages`, with any number of
  overlapping additions.
* `GepgInboxProofs`. Invariant: the worker's callback is claimed, an open batch is
  part of what the callback carries, an item is handled, recorded or in the batch,
  an accepted callback is recorded, an acknowledged one is kept. Proved: type
  correctness, `ProcessedIsRecorded`, `ClosedForGood`, and the refinement of
  `EventFeed`, for any number of callbacks of all three kinds.
* `GepgOutboxProofs`. Invariant: the worker's phase shows in the row it claimed, a
  submission whose web request is open is absent from the committed rows, and an
  accepted bill is backed by a submission closed with an accepting code *other than the
  one the worker is recording*, or by a callback. The last is needed because recording may raise, and
  the submission is then marked rejected. Proved: type correctness,
  `AcceptedIsBackedUp` and `ClosedForGood`, for any number of submissions. For the
  refinement of `Dispatch` the invariant is joined by `BillKnowsOfIt`: the bill exists
  exactly when it has been told something, and a known submission implies it; without
  it the worker might tell a bill that is not there.
* `SessionsProofs`. Invariant: not only does every account with a temporary password
  have the password step due, every row a save under way will write back does, too.
  Proved: type correctness, `TemporaryPasswordIsReplaced`, `DeadSessionStaysDead`,
  `CutOffStaysCutOff`, `NewPasswordCutsOff` and `OnlyInteractionProlongs`.
* `RolesProofs`. Invariant: the protected role is intact, accounts hold only rows that
  are there, and no request has a protected role or name in hand, nor a role of the top
  rank unless its actor had that rank when checked. Proved, however requests overlap:
  type correctness, `ProtectedRoleIntact`, `TopComesFromTop`, and, for the requests they
  are about, `RankMovesOnlyFromAbove` and `PermissionsStayBelow`. That an account has a
  highest rank rests on the induction over finite sets of the library's well-founded
  ordering.
* `OfficeProofs`. For `Reception` the invariant is that a number in hand continues the
  run of its year, and a request owns its row until it commits. The lemma `NextContinues` shows
  what the scan proposes below, at and past the width. That no live orders share a
  number has an invariant of its own (`Distinct`): one inserted and not committed is held
  against the live rows and against other inserts. Proved: type correctness,
  `NumbersRunOn`, `RefusedOrderLeavesNothing`, for any width. For `Reports` the
  invariant is that a bill without payment has no row, a part-paid bill is not covered
  by the sum of its rows and a paid one is, as long as no notice was restated. The
  sums are folds over sets, and the facts about them (type, growth, any payment
  first, only amounts matter) are proved from `AllParts`, an induction over the
  parts of a finite set by a minimal counterexample: the library's induction takes the
  predicate as an operator, this one the set of parts that satisfy it. `RangesAddUp`
  needs no sum; it rests on `DaysInOrder`, that the days before a day are over at the
  instant it begins, for any length of the day and any offset. Proved: type
  correctness, `OutstandingIsOwed`, `RangesAddUp`, and `SumsAreAmounts`: the aggregate
  meets the assumption (`AmountsAssumption`) that `Settlement` makes of its constant.

The three abstract specifications are shown to be worth implementing. `LedgerIsExact`,
`FeedIsRecorded` and `DispatchIsBackedUp` prove the main invariant of each component from
the abstract specification alone, read through the refinement mapping, without a word
about requests, races or workers: whoever changes the code and keeps the refinement
keeps the invariant.

Two liveness properties, `EveryCallbackCloses` and `EverySubmissionCloses`, are only
model-checked, since `ENABLED` and fairness are out of the prover's reach. What they
rest on is proved. `EachCallbackHasOneRow`: the callbacks kept are those in the queue,
each once. `ExpiredCallbacksWindDown` and `OldSubmissionsWindDown`: a natural number,
the moves left, which no step raises and which every change of an expired callback's
(an old open submission's) status lowers; a crash costs as much as a round of the
worker. So neither circulates, for any number of callbacks and crashes, and what is
left to TLC is that a step which can be taken is taken. Without the retry limit of a
day (`GEPG_RETRY_MAX_AGE_SECONDS`) there is no such number: a failing row goes back to
waiting each time.

Proved and not run: `OneBillPerOrder` and `PaidIsFinal` (`Settlement`) and `ClosedForGood`
(both queues), since the refinements imply what matters of them; `NewPasswordCutsOff` and
`OnlyInteractionProlongs` (`Sessions`); bill-response callbacks in the inbox, which would
make the run too large; and everything beyond the bounds above, the overlaps of three
and more requests among it.

## Not modelled

Serving pages, the field rules of serializers, search, PDF layout and fonts, signing
algorithms, SMS delivery, spreadsheet layout, seeding, and the development gateway
hold no state of their own or are external. The Django admin site
(`/admin/`), where a superuser edits accounts and rows of the gateway's queues by hand,
is not modelled, nor is a shell. Audit rows are written with the change
they report and decide nothing. Migrations only declare the schema the modules take
from the models; the constraints they create are in the actions they can refuse.
Stored cancellation and reconciliation requests are left out of `GepgOutbox`. Notices
of other events than a new order go the same way through `notify_subscribers`.
Totals by currency, and the restore of a single instrument, have no state the
properties tell apart.

## Plan

Done: `Settlement` with `Ledger`, `Findings`, `Intake`, `GepgInbox` with `EventFeed`,
`GepgOutbox`, `Sessions`, `Roles`, `Reception` and `Reports`, their runs, and the
proofs of all, with `Dispatch` as the promise of `GepgOutbox`.

What a further step could take up, in this order:

1. Composition of `GepgInbox` with `Settlement`: payments applied by the worker are
   the deliveries `Settlement` assumes.
2. Stored cancellation and reconciliation requests in `GepgOutbox`.
