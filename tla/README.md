# A TLA+ verification project for zerp-back

zerp-back is the server of a small ERP. This directory holds TLA+ models of its
domains, TLC configurations that check them on small instances, and TLAPS proofs
of what matters most for instances of any size. `PROJECT.json` maps every
definition to the code it models and lists the hazards the properties are for.

## 1. The system

The server is a Go program over one PostgreSQL database. A request runs in READ
COMMITTED transactions: each statement sees what is committed when it starts, rows
are locked with `SELECT ... FOR UPDATE` or `FOR SHARE`, and a statement that waited
for a row tests its condition on the locked row again. Nearly every mutable row
carries a `revision` that a request must name.

| component | state | operations | talks to |
|---|---|---|---|
| **VOU** vouchers (`internal/domains/vou`) | `vou_documents` (status, revision, execution), details, lines, audit | create, save, review, approve, execute, and the reverse of each | resolves references in BOB; publishes executed / unexecuted events |
| VOU attachments (`vou/attachments.go`, `platform/attachmentstore`) | files, links, tokens; the upload directory | initiate, upload, download, remove; the cleanup command | documents (status, revision) |
| **LED** ledger (`internal/domains/led`) | control row, generations, opening draft, entries of four kinds | save opening, activate, reopen, cancel; post and reverse on events | subscribes to VOU and WFL events |
| event bus (`platform/txevent`) | subscriptions | subscribe, publish | runs subscribers in the publisher's transaction |
| **WFL** workflow (`internal/domains/wfl`) | processes, stage documents, what is left to deliver and sign for | customer order, procurement, receipts, deliveries, sign-offs, short close | writes VOU tables, publishes managed-document events |
| **BOB** base objects (`internal/domains/bob`) | objects and their versions, twelve kinds with references among them | create, save, submit, approve, reject, edit, delete; resolve | used by VOU and WFL |
| **APP** access (`internal/domains/app`) | users, roles, permissions, sessions | sign-in, authorization, sign-out, password, administration | every request passes it |
| **APP** feedback (`app/feedback_*.go`, `integrations/githubissues`) | feedback with leases, screenshots | submit, upload, remove, cleanup; a publisher loop | GitHub issues |
| API, server, config, seeds, generated sqlc | none of their own | | |

What is hard in it:

* a voucher's execution and the ledger's posting are one transaction over two
  locks, while an activation rebuilds the ledger from vouchers it does not lock;
* a long sequence of legal calls (execute, reverse, reopen, move the cutover date,
  rebuild, cancel) must keep two independent records of the same facts, vouchers
  and entries, in agreement;
* a workflow judges each document by sums over the others, forwards and backwards;
* base objects refer to each other, and each is edited by transactions that lock
  their own row and share the rows they refer to;
* sign-ins and password changes run beside changes of who may do what;
* files live in a directory and in a table, uploads and cleanups touch both, and any
  statement may fail or its connection break;
* the publisher creates issues in a system with no transaction in common.

What makes each component correct, in a sentence: a voucher only moves on from what
its author has seen, and what was reviewed is what is executed; the active
generation contains exactly the effects of the vouchers executed now, from the
cutover date on, and stock is at no time negative; a process is complete when, and
only when, all is signed for; an object in force refers to objects in force, branches
make trees and identifiers are unique; somebody can always administer the system and
a new password ends the sessions opened with the old one; a file is on disk while its
row says ready; a feedback becomes one issue; every request ends. Some of these the code
keeps only outside of accidents, which the properties name one by one.

## 2. The modules

| module | what it models | code |
|---|---|---|
| `VouDocument` | one document row: for every handler its guard (`CanReview`...) and the row it leaves (`Reviewed`...). No variables | `vou/lifecycle.go`, `execution.go`, `draft.go`, `validation.go`, `attachments.go` |
| `VouClients` | clients with copies, uploads in two steps, the cleanup job | the same, seen from the API |
| `VouAttachments` | uploads, removals and the cleanup command against file rows, row locks and the storage directory | `vou/attachments.go`, `attachmentstore/store.go`, `cmd/cleanup-vou-attachments` |
| `LedEntries` | entries as a set; flows of each voucher kind, reversal, opening, timeline. No variables | `led/posting_entities.go`, `reversal.go`, `led.sql` |
| `VouLed` | vouchers and ledger together, one step per request | `vou/*`, `led/posting.go`, `activation.go`, `service.go`, `txevent` |
| `VouLedTx` | the same requests as interleaved transactions with row locks, failing anywhere | the same |
| `LedSync` | abstract: what the ledger promises the vouchers | implemented by `VouLed` and `VouLedTx` |
| `WflPostings` | what LED carries of a workflow document and how posting and reversing change it. No variables | `led/wfl_posting.go` |
| `WflTrade` | a process, its customer order and stage documents, and the ledger behind them | `wfl/*`, `led/wfl_posting.go`, `led/activation.go` |
| `BobObjects` | kinds, references, guards of the handlers and the rows they leave. No variables | `bob/validation.go`, `service.go`, `mapping.go`, `bob.sql` |
| `BobTx` | requests to base objects, and resolutions of references, as transactions | `bob/service.go`, `bob.sql`, the triggers of migrations 00006 and 00010 |
| `AppAuthorization` | paths, permissions, who may change whom, the safety rules. No variables | `app/authorization_rules.go`, `role_service.go`, `user_service.go` |
| `AppAccess` | sign-ins, sessions, password changes and administration as concurrent requests | `app/auth_service.go`, `user_service.go`, `role_service.go` |
| `FeedbackQueue` | the publishers, their leases, and GitHub | `app/feedback_publisher.go`, `githubissues`, `app_feedback.sql` |
| `Feedback` | submission, screenshots and their cleanup, composed with `FeedbackQueue` | `app/feedback_service.go`, `feedback_attachments.go` |
| `*_proofs` | theorems and proofs of the module named | |
| `MC*` | constants and small worlds for TLC | |

A definition whose name ends in `_Mutant` is a plausible slip in the code that the
definition after it models. It is used by no specification; substituting it must
make TLC violate the property `PROJECT.json` lists it under.

### How state and actions correspond

**Vouchers and ledger.** `docs[d]` is a row of `vou_documents`: `status` and `rev` are
columns, `data` the business date and quantity (or amount), `exec` the execution
columns, `at` `executed_at`, `pending` / `ready` the linked files by state. `attrs`
says which of the attributes that migrations made mandatory later are missing in an
old document; saving fills them in (`resolveDraft`), and every forward transition
checks them (`validateStoredAttributes`). Reverse transitions do not. `control`,
`gens`, `draft` are `led_control`, `led_generations` with their opening rows, and
`led_draft_*`; `entries` holds the entry tables in one set. An entry's key is the
tables' idempotency key and `Insert` is `INSERT ... ON CONFLICT DO NOTHING`. One
action of `VouLed` stands for one handler with everything in its transaction:
`Execute` includes the event, the subscriber's checks, the postings and the check of
the stock timeline. A request the code refuses is an action that is not enabled.
`VouLedTx` takes the requests apart: begin, wait for the voucher's lock and check,
wait for the control row's lock and check, list the executed vouchers (activation
only), commit, or abort at any of these points.

**Attachments.** `VouAttachments` follows a PUT request statement by statement
(`put[u].at` names the statement it is before), a removal from its first lock to the
deletion on disk, and the cleanup command from its list of expired rows to the walk
through the directory. `row[f]` is the row of `vou_files`, `fileLock` and `docLock` the
row locks; a request whose connection broke has lost its lock but runs on to its
next statement, as the Go code does while it copies the body.

**Workflow.** `process` is `wfl_process_instances` with the customer order, `docs` the
stage documents, `booked[d]` the net amounts in the active generation and whether LED
knows the document. Every request locks the process row first and names its
revision, so each is one step: `Finalize` includes the sums of `validateFinal`, the
event and its posting, and `maybeComplete`. A sign-off has two links to a delivery:
`parent` is `parent_document_id`, written when it is created and never again, `source` the
delivery whose lines its lines name, which saving it anew may change. The code judges a
reversal by the first and quantities and dates by the second.

**Base objects.** `rows[o]` holds an object with its versions; `tx[c]` a transaction:
`locked` and `shared` its row locks, `advisory` its advisory lock, `held` the references
it has validated, `work` the row it will leave. `Look` is a statement finding a row as
committed, `Take` the same statement once it has the lock. `Check` stands for the
deferred constraint triggers.

**Access.** `req[c]` is a request: a session read, then admitted, then its
transaction. Requests that change who may do what hold one advisory lock
(`LockAuthorizationSafety`); the others do not. `hash` numbers a user's passwords. A
sign-in verifies the password before its transaction (pc `signin`) and keeps the key of the
user row from the insertion of its session to its commit (pc `open`), which a change of
password waits for (`FreeForUpdate`), disabling the user does not.

**Feedback.** `queue[f]` is a row of `app_feedback` with its lease and the time of its
next attempt, `issues[f]` what GitHub has, `pub[p]` a publisher. `files`, `of` and `bytes`
are `app_feedback_files`, their attachment to a feedback, and the directory; a row that
was deleted stays `GONE`, as identifiers are made once. `run[c]` is a request or the
cleanup, `run[c].lock` the rows its transaction has locked. An upload finds its row by the
token (`BeginUpload`), waits for it (`LockUpload`), stores the body (`StoreBody`), marks the
row (`MarkFails` if that fails) and commits (`CommitUpload`, `CommitUploadFails`, which may have
committed all the same); after a failure it deletes the bytes (`UndoUpload`). Its
connection may break anywhere between (`Disconnect`): the lock is free at once while the
request goes on to store or delete bytes, as in `VouAttachments`. So do the cleanup's locks
(`DisconnectCleanup`, `CleanCut`), which deletes bytes before rows.

History variables take part in no guard and name the accidents a property excepts:

* `exposed` (`VouAttachments`): the two ways named in finding 2;
* `exposed` (`FeedbackQueue`): the search missed an issue, a publisher was slower than its
  lease, a publisher stopped in the last attempt;
* `raced` (`Feedback`): a removal or cleanup had looked at the file before it was submitted; the
  cleanup was rolled back, or its connection broke, after bytes were deleted; an upload
  stored or deleted bytes after its connection broke or its commit answered with an error;
* `overtaken` (`AppAccess`): a sign-in that had verified the password before it changed and
  not inserted its session yet, or had not committed when its user was disabled.

### Abstractions

* `VouLed`: one warehouse, product, fund account, customer and supplier, one line per
  voucher, unit prices 1. Dimensions never mix in the code, each entry being computed
  from one line; rounding of amounts is the business of `fixeddecimal`. `occurred_at`
  matters only as an order: write number n of the ledger happens at time 2n, and a
  posting carries its transaction's start, which may lie one earlier write back
  (`StartTimes`), since the transaction may have waited for the control lock. Longer
  waits are not explored.
* References to base objects resolve in `VouLed` and `WflTrade`; how they do is in
  `BobTx` (`resolve`, `current`). A refused reference is a request that does nothing.
* Clients in `VouClients` learn a new revision from a read or from their own
  mutation, as the API answers it.
* A storage key stands for its content, since the declared hash fixes it. The removal
  of several files at once is one removal after the other, as they lock the same
  voucher; only their deletions on disk overlap (`unlinking`).
* `WflTrade` has one process. Requests to different processes share no row but the
  ledger's control row, whose lock `VouLedTx` has. A quantity is a small number and
  the price one.
* `BobTx` keeps of a detail its references, its identifier (`key`), a category's
  target and a supplier's type. `Canonical` stands for the normalisation of
  identifiers. References are locked in the code's order, platform, category, the others
  by id; in which order equal ids or the foreign keys of an edit come is left open. An
  edit leaves the references of the old version unchecked, as the code does.
* `AppAccess` has no token and no time: a session may go idle or end, a lock may run
  out, whenever they could. A wrong password is a choice.
* `Feedback`: the bytes of a file are there or not; deadlines pass at any moment, and so
  does the day in which a screenshot counts for the daily limit (`recent`).
* Audit rows, document numbers, lists, views and formatting are left out.

A `Stories` constant (`Databases` in `VouLed`, `Casts` in `WflTrade`) is a set of small
worlds, each built around one question, from which a behavior picks one. Without it
TLC would explore the product of parts that do not touch.

## 3. What the runs check

| run | instance | states | shows |
|---|---|---|---|
| `vou_clients` | 1 sale, 2 clients, 2 files, 1 attachment slot, revisions up to 9 | 30 009 | no lost update; nothing is pending and nothing changes after review although uploads and cleanup run without the document's lock |
| `vou_led` | four stories: a purchase executed before the ledger and a new sale; that purchase alone through 3 generations; a legacy brokered sale; the four cash kinds on both sides of the cutover | 189 709 | the entries say what the vouchers say in each dimension on each date; stock is never negative; the control row matches the generations; goods and cash are reversed exactly once; entries are append-only; refinement of `LedSync` |
| `vou_led_broker` | a new brokered sale, empty opening | stops at the violation | **violation**, finding 1 |
| `vou_led_tx` | 2 transactions, 2 vouchers, 2 cutover dates, 2 changes of a voucher, 5 of the control row | 1 598 574 | checks still hold at commit, no wait in a circle, book equals executed vouchers, refinement of `LedSync` (and with it, nothing moves while the ledger is reopened) |
| `vou_files` | 1 file, 2 uploads, a removal, the cleanup; every failure and crash, unbounded in number | 15 281 | a READY row has its bytes on disk except after two named accidents; only its removal takes a finished upload away; leftovers are cleaned up; every request ends |
| `vou_files_sweep` | as `vou_files` | stops at the violation | **violation**, finding 2 |
| `wfl_trade` | up to six stage documents in three casts, two under way at a time, two dates, two users | 153 741 | quantities within the order, the status tells the truth, documents hang together, payables follow receipts |
| `wfl_pool` | the cast with two deliveries | stops at the violation | **violation**, finding 3 |
| `bob` | 2 clients, five stories: branches moved below each other, a category retargeted, a platform downgraded, a barcode entered twice, a vehicle edited while it is resolved | 44 368 | held references stay effective, trees have no cycle, identifiers are unique, categories and platforms keep their roles |
| `bob_resolve` | the last of these | stops at the violation | **violation**, finding 4 |
| `access` | 2 requests, 3 users, 3 roles, 3 sessions, four stories: two administrators who may lose their roles, new users and roles, passwords, disabling | 888 730 | the last administrator survives, a change of password leaves no older session but those of sign-ins already verified, of two password changes one is refused |
| `feedback` | 2 publishers and 1 feedback with 3 attempts; 2 clients, the cleanup, 1 screenshot and 2 feedback; every failure and broken connection | 200 013 | one issue per feedback but for two accidents; stored bytes have their row and submitted screenshots stay but for the accidents of `raced`; every feedback ends or is left with its attempts used up |

Why the bounds are enough to be of use. The ledger properties need an execution,
its reversal and another execution around a reopening with a changed cutover date;
two dates put an effect on either side of the cutover. `StoryBounds` gives each story
of `vou_led` what its question needs, the longest life to the shortest world. Two
transactions suffice for a race between two requests and for a two-party wait;
there are two locks only in `VouLedTx`. `VouAttachments` needs two uploads for one to
delete what the other stored; files meet only in the voucher's lock and in the order
the cleanup takes them, so one is enough, and there is no bound on steps. `VouClients`
has a full life of the document and its way back with two copies of it. In
`WflTrade` two receipts show sums against one procurement, two deliveries with two
sign-offs show rejected goods delivered again, and two dates with a cutover between
show what a rebuild leaves out; quantities of 0 and 1 already tell equal from more. In the
cast with two deliveries those and their sign-offs have two dates (`LateDeliveries`), so that
one delivery is later than the other's sign-off.
A race of base objects is between two requests. `AppAccess` takes two wrong passwords
to lock (`LockThreshold`) and three sign-ins in all. Three attempts of a publisher show
a first, a middle and a last one. Screenshots of `Feedback` meet only in the cleanup's
transaction, so one is enough, and with one a daily limit of one declaration is the limit
reached (`DailyFiles`, 60 in the code).

Deadlock is checked except in `access` and `feedback`, where everything asked for may
have been done: sign-ins are bounded, and a feedback that is published or has failed
is left alone.

Fairness. `VouAttachments!FairSpec` assumes that the server runs every request to
its end, that a row lock that becomes free again and again is granted (PostgreSQL queues
waiters, hence strong fairness of taking a lock), and that PostgreSQL breaks the deadlock an upload
and a removal of one file can get into. Of the cleanup it assumes that the
operator runs the command again and again (`make cleanup-attachments`; nothing in the
code schedules it) and that its runs do not fail for ever; without that nothing is
ever cleaned up. `FeedbackQueue!QueueFairness` assumes that a publisher keeps working and
is started again after a stop, and that back-offs and leases end. It does not assume
that GitHub answers, nor that its search catches up. `VouLedTx` states no fairness:
that no request waits for ever is checked, and proved, as `NoCircularWait`: in every
state with requests under way one of them waits for none.

### Findings

1. `docs/domains/led.md:50` says a reversal appends the opposite of the posting it
   reverses. A brokered sale that is executed, reversed, executed again with every line
   signed for in quantity zero and reversed again has its first posting reversed
   twice (`led/reversal.go:77`): receivable and payable are wrong until the next
   rebuild. `GoodsAndCashReversedOnce` holds of the other kinds.
2. `attachmentstore/store.go:123` says the sweep deletes files without a database
   reference. The keys are listed before the walk (`vou/attachments.go:316`), so a file
   initiated and uploaded in between is deleted although it has its row. The same
   loss, with no sweep, follows when the commit of an upload fails or its connection
   breaks: the bytes are deleted under no lock. `ReadyOnDisk` says these are the only two
   ways.
3. `docs/domains/wfl.md:52` says a reversal that makes the quantity timeline negative is
   refused. That of a sign-off is not checked (`wfl/stage_transitions.go:182`), although
   goods it gave back may have been delivered again.
4. The comment at `bob/service.go:580` says the row lock of `ResolveEffectiveReference`
   keeps a concurrent edit from invalidating the reference. The statement compares
   columns of a view whose rows are neither locked nor read again: an edit that commits
   while it waits goes unnoticed. `HeldReferencesEffective` holds of every other
   reference.

Met while modelling, in the models where they concern them, without a run of their own:

* A voucher without ledger effects (a brokered sale or a sign-off of nothing) can be
  executed but not reversed: LED refuses with "document predates the active ledger
  cutover" (`led/posting.go:161`), which is not so.
* `docs/domains/led.md:246` has a reopened book replay confirmed receipts and
  sign-offs. `replayManagedDocuments` queries while its result set is still open on the
  connection, which pgx refuses, so with any such document the rebuild fails
  (`WflTrade!Activate`).
* The latest postings of a sign-off to its two tables are looked up apart, so a table
  the last posting did not touch may be reversed a second time (`led/wfl_posting.go:175`).
* A sign-off saved anew may name the lines of another delivery, but keeps its
  `parent_document_id` (`wfl/stage_save.go:85`), by which the reversal of a delivery looks
  for sign-offs (`wfl/stage_transitions.go:194`): the delivery it now signs for can be
  reversed under it, against `docs/domains/wfl.md:52`. `StagesHangTogether` says what remains:
  that delivery is there, not later, and holds what is signed for, since the lines of a
  delivery cannot be replaced while a sign-off refers to them.
* `docs/domains/vou.md:366` says attachment links change under the document lock and a
  revision check. The cleanup's do not (`vou/attachments.go:296`).
* `docs/domains/app.md:329` lets only files not yet submitted be removed; a removal that
  waits for a file being submitted goes on (`app/feedback_attachments.go:133`).
* `docs/domains/app.md:359` has exhausted retries enter `FAILED`. Only the publisher of the last
  attempt writes that; if its server stops first, the claim, which asks for
  `attempt_count < 10` (`app_feedback.sql:149`), never takes the row again and it stays
  `PROCESSING`. A publisher slower than its lease can leave it `PENDING` in the same way.
  `EveryFeedbackEnds` excepts just these rows (`Stranded`).
* A cleanup of screenshots that fails rolls back rows but not bytes.
* The upload of a screenshot whose commit fails, or whose connection broke, stores or deletes
  bytes under no lock (`app/feedback_attachments.go:105-118`): a second upload may have made
  the row READY, and it may be submitted, before the first deletes the bytes; or the
  cleanup deletes the row before the first stores them, and nothing finds them again.
* A sign-in that has verified the old password when it changes still opens its session
  (`app/auth_service.go:62`), and so does one under way while its user is disabled; the
  second is refused as soon as it is used while the user is disabled, the first lives on.
* The publication of an issue may be doubled when the search of GitHub lags or a publisher
  outlives its lease; `OneIssueEach` excepts both.
* Two edits of would-be trees may wait for each other in their foreign keys; PostgreSQL
  aborts one (`BobTx!Fail`).

## 4. What is proved

TLAPS checks the following for every value of the constants the named assumptions
admit: any number of vouchers, files, clients, transactions, users, roles, objects.

| module | theorems | assumptions used |
|---|---|---|
| `VouLed_proofs` | `LedgerAlwaysMatches`, `StockStaysNonNegative`, `ReversedOnlyOnce`, `ControlAlwaysMatches`, `TypesKept`, `OnlyAppends`, `Refinement` | `VouLedAssumption`, `DocumentAssumption` |
| `VouLedTx_proofs` | `TypeCorrect`, `BookAlwaysMatches`, `ChecksAlwaysHold`, `NoStaleCommits`, `NobodyWaitsInACircle`, `Refinement`, `NothingMovesWhileReopened`, and of `LedSync` itself `BookAlwaysWithinExecuted` | `TxAssumption` |
| `VouClients_proofs` | `TypeCorrect`, `NothingPendingEver`, `NoUpdateLost`, `ReviewedStaysFrozen` | `ClientsAssumption`, `DocumentAssumption` |
| `VouAttachments_proofs` | `TypeCorrect`, `ReadyAlwaysOnDisk`, `OnlyRemovalTakesReady` | `ActorsAssumption` |
| `WflTrade_proofs` | `TypesKept`, `QuantitiesStayWithinOrder`, `StatusAlwaysTellsTruth`, `StagesAlwaysHangTogether`, `PayablesAlwaysFollowReceipts` | `TradeAssumption` |
| `BobTx_proofs` | `TypesKept`, `HeldStayEffective`, `TreesStayAcyclic`, `KeysStayUnique`, `RolesStayKept` | `BobAssumption`, `StoriesAssumption` |
| `AppAccess_proofs` | `TypeCorrect`, `SomebodyGoverns`, `SessionsCurrent`, `PasswordsInTurn` | `AccessAssumption`, `StoriesAssumption` |
| `Feedback_proofs` | `TypeCorrect`, `OneIssue`, `BytesStayOwned`, `SubmittedStay` | `QueueAssumption`, `FeedbackAssumption` |

**The ledger says what the vouchers say** (`VouLed`). The property is about sums, and sums
alone are not inductive: to know what a reversal takes away one must know which
entries it finds. `Carried` says that of one voucher in the active generation: of an
executed one exactly the postings of that execution, of a goods or cash voucher
sent back nothing that is not taken back, and nothing newer than the voucher's row. So
an execution's entries meet no key that is there, and the latest postings a reversal
finds are the last execution's. `BalanceOn` is the property for one dimension
and date; each step changes both of its sides by the voucher's effects, of which
there is at most one (`FlowsMakeSense`). A rebuild pairs the entries it writes with the
effects of the executed vouchers, one to one (`SumOfPairs`). A brokered sale may be
executed without an entry, and `Carried` says less of it; so `BalanceOn` is kept for
stock, which brokered sales never touch, and for the other dimensions while there is
none. `LedgerRight` joins the two with `~NegativeTimeline`, which execution, reversal and
rebuild check. Stock at the end of a date is the sum of a prefix of the timeline, the
one that ends with the last entry up to that date (`LastEntry`), and by `SumByDate` the
sum over the dates as well. `Undone` follows each reversal to the posting it takes back;
entries never go away, so it stays true. `GenerationsInTurn` says that the active
generation is the last one and that a cutover date was entered with an opening. TLC
has checked the whole invariant `Inv` on the instance of `vou_led`. The refinement needs
one consequence of it: a voucher is in `Booked` just when it is executed and the
generation knows it (`InBookIs`).

`VouLedAssumption` says that the vouchers the ledger is installed over are finitely many,
and that whichever of them are executed report an outcome the execution handlers accept
(`Sound`); that every later row does is part of the invariant (`RowsOf`). An opening
has whole numbers and no negative stock.

The sums are the library's `SumFunctionOnSet`, which is defined by choosing an element. That
the choice does not matter is shown on a least subset for which it would
(`LeastSubset`, `SumTakeOut`), without induction over an operator.

**The book equals the executed vouchers** (`VouLedTx`). That an execution may add its
voucher to the book depends on a check made some steps before. `ChecksStillHold` says
what a transaction checked is still so, and it is kept because whoever could change
the row would hold the lock the transaction holds (`LocksHeld`). An
activation needs one thing more: the list it made holds no lock on the vouchers, but
executions and reversals commit only under the control row's lock, which it has.
Refinement and `FrozenWhileReopened` of `LedSync`, which is proved of the interleaved
transactions as well, follow from the same invariant, step by step;
`NoCircularWait` from the one order of the two locks.

**No lost update, frozen after review** (`VouClients`). `Views` says that a copy with
the document's revision has its content, so a save at the revision seen overwrites
nothing unseen. `FilesApart` says that a file is linked to one document and is not ready
while it is being uploaded, which is why a review, finding nothing pending, can be
followed by no upload.

**A READY row has its bytes** (`VouAttachments`). Three parts say what the row is at each
statement, and that its lock is held or an accident has happened: `PutHolds`,
`RemovalHolds`, `CleanupHolds`; `Named` says that the file worked on exists. Whoever
deletes bytes either holds a row that is not READY, or has deleted the row before, or
has had one of the two accidents.

**A process tells the truth about its documents** (`WflTrade`). Every quantity is a sum
over the final documents of a stage, and every action makes one document final or no
longer final, or rewrites one that is not, so a sum changes by one summand or not at all.
The lemmas about sums are those `VouLed_proofs` uses.
`DocumentsKept` says that what a document hangs from is final and not later than it, and
that its quantities fit; with `OneProcurement`, since receipts are compared with the
sum over procurements, a reversal refused while anything hangs from the document leaves
no receipt without its procurement. `SourcesKept` says of the delivery a sign-off names,
which may be reversed under it, that it is there, not later and not smaller: whoever
saves or deletes it finds its lines in use. `NotYetDelivered` says that an early end is asked for
only while something is left to sign for, so taking it back finds the process incomplete;
`StatusTellsTruth` is inductive with it because every action on a stage ends in
`CompletionOf`. `ReceiptsBooked` adds to `PayablesFollowReceipts` that the posting a reversal
would take back is the one of the last finalization.

**What is held stays effective** (`BobTx`). A row is written by the transaction that has
locked it FOR UPDATE, or by the one that creates it. `Exclusive` keeps the first away from
a row that another holds FOR SHARE; `Presence` tells the second's row, which is absent,
from one that was found effective. Which statement takes which lock is `Fits`; that the row belongs to the
story is `World`.

**The rows of base objects agree** (`BobTx`). `Sound` says it of committed rows: each is
legal, the parents form trees, what is referred to is there and has its role, identifiers
are unique. It is not inductive, for what a transaction writes was computed and checked
some statements before. `Good` says what of that still holds: the row left behind follows
from the row as it is (`Follows`), each reference it brings is held and fits or is still to
be locked (`Backed`, with `WantKept` for a statement that waits), nobody refers to what it
deletes or retargets (`Bare`), and the triggers' findings stand (`Checked`). Two lemmas carry the
proof. `SoundAfter`: committing a good transaction leaves sound rows. `CommitKeeps`: it
leaves every other one good. Who brings a reference holds it FOR SHARE, so its object is
not the one being deleted, downgraded or retargeted; who gives the same identifier or moves a branch of
the same kind of tree has the same advisory lock (`Alone`), so of two such only one gets as
far as its commit. The objects above another are the least set closed under parents, so that
no cycle appears is shown by exhibiting a closed set without the object (`StaysAcyclic`,
`AboveStays`), and no induction over paths is needed.
`StoriesAssumption` asks of the initial rows that they are sound, as the empty tables
are and, by these theorems, what any requests leave.

**Somebody governs** (`AppAccess`). The rule is checked before the lock is released,
on tables only its holder may change (`AuthorityHeld`); what runs without the lock
changes neither status nor roles, and `CarefulStep` lists what each action may touch.
`SigninsCurrent` and `PasswordsHeld` follow a password from its verification to the
insertion of a session or of the next password; `KeysHeld`, that no password is replaced
while a session of its user is being inserted, which is why revoking the committed
ones is enough. `Present` says that those who act exist.

**One issue, and what was submitted stays** (`Feedback`). `Alone` says that whoever works
on a feedback holds its lease and is the only one, unless a publisher was slower than its
lease; `Fresh`, that nothing has been made of a feedback whose publisher is about to
create its issue after a search that missed nothing. `Task` says what a request may count
on at each statement: of an upload, that the file it has locked is PENDING and that one
whose lock is lost touches bytes only into `raced`; of a removal that unlinks, that the row is
dropped already. `KeptFile` relates the row, the bytes and the submission of a file: bytes
have their row, and what is submitted is READY and stored, unless it is in `raced` or the
cleanup has it locked. A file keeps its status while its row is locked (`LocksApart`), and
no step of the queue makes feedback appear or go (`StatusKept`), which is all the two halves
need of each other.

Every invariant and every action property of the passing runs is proved, and so are both
refinements of `LedSync`. Checked by TLC and not proved are the three liveness properties,
`NothingLeftBehind`, `UploadsAndRemovalsEnd` and `EveryFeedbackEnds`: liveness under fairness and
ENABLED are out of the prover's reach.

## 5. What is not modelled

* The workflow's permission and stage check in front of attachments: it reads in one
  transaction and acts in another, where the attachment operation checks the document
  again.
* Downloads, their tokens, and the temporary files of an upload.
* The limiter of sign-ins per address: counters in memory under one mutex, with unit
  tests of their window arithmetic.
* Registration on the event bus: one subscriber per event, before the server starts.
* Fixed decimals: parsing, scaling and rounding. Amounts are small integers here.
* HTTP routing and binding, configuration, seeding commands: no state of their own
  that a property could be about. Read-only queries and views, and the text of issues.
