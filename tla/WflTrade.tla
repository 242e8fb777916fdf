------------------------------ MODULE WflTrade ------------------------------
(***************************************************************************)
(* The intermediary trade workflow (internal/domains/wfl): a customer      *)
(* order, one procurement, receipts, deliveries and sign-offs, each a VOU  *)
(* document of its own, and the status of the process they belong to.      *)
(* Receipts and sign-offs are posted to the ledger in the transaction that *)
(* makes them final (WflPostings).                                         *)
(*                                                                         *)
(* Every request locks the process row first and names its revision, so    *)
(* the requests to one process are serialised and each is one step here;   *)
(* a request with a stale revision is refused and changes nothing.         *)
(* References to base objects resolve, prices are one, numbers, audit rows *)
(* and views are left out.  Attachments go through the VOU service         *)
(* (VouClients, VouAttachments).                                           *)
(***************************************************************************)
EXTENDS WflPostings, FiniteSets

CONSTANTS
    Docs,      \* stage document ids
    None,      \* no document, nobody
    Actors,    \* user ids
    Lines,     \* lines of the customer order
    Dates,     \* business dates
    MaxQty,    \* bound on quantities (model checking only)
    Casts,     \* the stage documents a behavior may create: functions from
               \*   document ids to their stage (model checking picks few)
    Cutovers   \* cutover dates of the active ledger

ASSUME TradeAssumption ==
    /\ None \notin Docs \cup Actors
    /\ IsFiniteSet(Docs)
    /\ IsFiniteSet(Lines) /\ Lines # {}
    /\ Dates \subseteq Nat \ {0}
    /\ Cutovers \subseteq Nat
    /\ MaxQty \in Nat
    /\ \A cast \in Casts :
         /\ DOMAIN cast \subseteq Docs
         /\ cast \in [DOMAIN cast -> {"PROCUREMENT", "RECEIPT", "DELIVERY", "SIGNOFF"}]

VARIABLES
    process,  \* wfl_process_instances with its customer order
    docs,     \* the stage documents: rows of vou_documents with their lines
    cast,     \* which stage each document id is for
    ledger,   \* led_control: status and cutover date
    booked    \* what the active generation carries of each document

vars == <<process, docs, cast, ledger, booked>>

Quantities == [Lines -> 0..MaxQty]
Nothing == [l \in Lines |-> 0]

\* What a client sends to create or save a stage document.  "source" is the
\* delivery whose lines a sign-off names.
Inputs == [date : Dates, source : Docs \cup {None}, qty : Quantities,
           rejected : Quantities, returned : 0..MaxQty]

DocStatuses == {"NONE", "DRAFT", "REVIEWED", "APPROVED"}

Rows == [status : DocStatuses, date : Dates \cup {0}, parent : Docs \cup {None},
         source : Docs \cup {None}, qty : Quantities, rejected : Quantities,
         returned : 0..MaxQty, reviewedBy : Actors \cup {None}]

NoRow == [status |-> "NONE", date |-> 0, parent |-> None, source |-> None, qty |-> Nothing,
          rejected |-> Nothing, returned |-> 0, reviewedBy |-> None]

Processes ==
    [status : {"NONE", "DRAFT", "CHECKED", "APPROVED", "COMPLETED",
               "SHORT_CLOSE_REQUESTED", "SHORT_CLOSED"},
     root : DocStatuses, date : Dates \cup {0}, ordered : Quantities,
     reviewedBy : Actors \cup {None}, requester : Actors \cup {None}]

TypeOK ==
    /\ process \in Processes
    /\ cast \in Casts
    /\ docs \in [DOMAIN cast -> Rows]
    /\ ledger \in [status : {"ACTIVE", "REOPENING"}, cutover : Cutovers]
    /\ DOMAIN booked = DOMAIN cast
    /\ \A d \in DOMAIN cast :
         /\ docs[d].status = "NONE" => docs[d] = NoRow
         /\ docs[d].status \in {"NONE", "DRAFT"} <=> docs[d].reviewedBy = None
         /\ cast[d] \notin {"RECEIPT", "SIGNOFF"} => booked[d] = NoBooking

Init ==
    /\ process = [status |-> "NONE", root |-> "NONE", date |-> 0, ordered |-> Nothing,
                  reviewedBy |-> None, requester |-> None]
    /\ cast \in Casts
    /\ docs = [d \in DOMAIN cast |-> NoRow]
    /\ ledger \in [status : {"ACTIVE"}, cutover : Cutovers]
    /\ booked = [d \in DOMAIN cast |-> NoBooking]

-----------------------------------------------------------------------------
(* Sums over final documents (validateFinal, validateReverse, loadBalances) *)

Live(rows, stage) == {d \in DOMAIN rows : cast[d] = stage /\ rows[d].status # "NONE"}
Final(rows, stage) == {d \in Live(rows, stage) : rows[d].status = "APPROVED"}

Total(rows, stage, l) ==
    SumFunctionOnSet([d \in DOMAIN rows |-> rows[d].qty[l]], Final(rows, stage))
Rejected(rows, l) ==
    SumFunctionOnSet([d \in DOMAIN rows |-> rows[d].rejected[l]], Final(rows, "SIGNOFF"))

\* What may still be delivered of a line: AvailableToDeliverQuantity.
Pool(rows, l) == Total(rows, "RECEIPT", l) - Total(rows, "DELIVERY", l) + Rejected(rows, l)

\* The same, counting documents up to a date only.
UpTo(rows, date) == [d \in {x \in DOMAIN rows : rows[x].date <= date} |-> rows[d]]

Children(rows, d) == {x \in DOMAIN rows : rows[x].parent = d}

\* Foreign keys with ON DELETE RESTRICT: lines other documents refer to stay.
LinesInUse_Mutant(rows, d) == FALSE
LinesInUse(rows, d) == \E x \in DOMAIN rows : x # d /\ rows[x].source = d

-----------------------------------------------------------------------------
(* When a process is complete.                                             *)

Unfinished(rows) == {d \in DOMAIN rows : rows[d].status \in {"DRAFT", "REVIEWED"}}

Unsigned(rows) ==
    {d \in Final(rows, "DELIVERY") :
        \A s \in Children(rows, d) : rows[s].status # "APPROVED"}

AllSigned(rows, ordered) == \A l \in Lines : Total(rows, "SIGNOFF", l) = ordered[l]

\* maybeComplete: the status after every stage action.
CompletionOf_Mutant(rows, ordered) ==
    IF AllSigned(rows, ordered) /\ Unsigned(rows) = {} THEN "COMPLETED" ELSE "APPROVED"
CompletionOf(rows, ordered) ==
    IF AllSigned(rows, ordered) /\ Unfinished(rows) = {} /\ Unsigned(rows) = {}
    THEN "COMPLETED" ELSE "APPROVED"

-----------------------------------------------------------------------------
(* The customer order and the process itself (service.go, root_transitions) *)

RestUnchanged == UNCHANGED <<docs, cast, ledger, booked>>

Positive(qty) == \E l \in Lines : qty[l] > 0

\* resolveCustomerOrder: every line of an order is positive.
Orders == [Lines -> 1..MaxQty]

Create(date, ordered) ==
    /\ process.status = "NONE"
    /\ process' = [process EXCEPT !.status = "DRAFT", !.root = "DRAFT",
                                  !.date = date, !.ordered = ordered]
    /\ RestUnchanged

Save(date, ordered) ==
    /\ process.status = "DRAFT" /\ process.root = "DRAFT"
    /\ process' = [process EXCEPT !.date = date, !.ordered = ordered]
    /\ RestUnchanged

Check(actor) ==
    /\ process.status = "DRAFT" /\ process.root = "DRAFT"
    /\ process' = [process EXCEPT !.status = "CHECKED", !.root = "REVIEWED",
                                  !.reviewedBy = actor]
    /\ RestUnchanged

Uncheck ==
    /\ process.status = "CHECKED" /\ process.root = "REVIEWED"
    /\ process' = [process EXCEPT !.status = "DRAFT", !.root = "DRAFT", !.reviewedBy = None]
    /\ RestUnchanged

Approve(actor) ==
    /\ process.status = "CHECKED" /\ process.root = "REVIEWED"
    /\ process.reviewedBy # actor
    /\ process' = [process EXCEPT !.status = "APPROVED", !.root = "APPROVED"]
    /\ RestUnchanged

Unapprove ==
    /\ process.status = "APPROVED" /\ process.root = "APPROVED"
    /\ \A d \in DOMAIN docs : docs[d].status = "NONE"
    /\ process' = [process EXCEPT !.status = "CHECKED", !.root = "REVIEWED"]
    /\ RestUnchanged

\* validateShortClose.
NothingUnderWay(rows) == Unfinished(rows) = {} /\ Unsigned(rows) = {}

RequestShortClose(actor) ==
    /\ process.status = "APPROVED"
    /\ NothingUnderWay(docs)
    /\ process' = [process EXCEPT !.status = "SHORT_CLOSE_REQUESTED", !.requester = actor]
    /\ RestUnchanged

CancelShortClose ==
    /\ process.status = "SHORT_CLOSE_REQUESTED"
    /\ process' = [process EXCEPT !.status = "APPROVED"]
    /\ RestUnchanged

\* "requester" is the actor of the latest SHORT_CLOSE_REQUESTED audit row.
ConfirmShortClose(actor) ==
    /\ process.status = "SHORT_CLOSE_REQUESTED"
    /\ process.requester # actor
    /\ process' = [process EXCEPT !.status = "SHORT_CLOSED"]
    /\ RestUnchanged

UnconfirmShortClose ==
    /\ process.status = "SHORT_CLOSED"
    /\ process' = [process EXCEPT !.status = "SHORT_CLOSE_REQUESTED"]
    /\ RestUnchanged

-----------------------------------------------------------------------------
(* Stage documents: what create and save accept.                           *)

\* insertProcurement, insertReceipt, insertDelivery, insertSignoff.  "rows" are
\* the process's documents without the one being saved.
AcceptsProcurement(rows, input) ==
    /\ Live(rows, "PROCUREMENT") = {}
    /\ input.date >= process.date
    /\ Positive(input.qty)
    /\ \A l \in Lines : input.qty[l] <= process.ordered[l]

AcceptsReceipt(rows, input, parent) ==
    /\ parent \in Final(rows, "PROCUREMENT")
    /\ input.date >= rows[parent].date
    /\ Positive(input.qty)

AcceptsDelivery(input) ==
    /\ input.date >= process.date
    /\ Positive(input.qty)

AcceptsSignoff(rows, input) ==
    /\ input.source \in Final(rows, "DELIVERY")
    /\ input.date >= rows[input.source].date
    /\ Children(rows, input.source) = {}
    /\ \A l \in Lines : input.qty[l] + input.rejected[l] <= rows[input.source].qty[l]

\* The parent a new document gets; the customer order itself is None.
ParentOf(stage, rows, input) ==
    CASE stage = "RECEIPT" -> CHOOSE p \in DOMAIN rows : p \in Final(rows, "PROCUREMENT")
      [] stage = "SIGNOFF" -> input.source
      [] OTHER -> None

Accepts(stage, rows, input) ==
    /\ stage # "SIGNOFF" => input.source = None /\ input.rejected = Nothing /\ input.returned = 0
    /\ CASE stage = "PROCUREMENT" -> AcceptsProcurement(rows, input)
         [] stage = "RECEIPT" -> \E p \in DOMAIN rows : AcceptsReceipt(rows, input, p)
         [] stage = "DELIVERY" -> AcceptsDelivery(input)
         [] stage = "SIGNOFF" -> AcceptsSignoff(rows, input)

Others(d) == [x \in DOMAIN docs \ {d} |-> docs[x]]

-----------------------------------------------------------------------------
(* Stage actions.                                                          *)

\* stageAction: only under an approved or completed process, whose status
\* follows the documents.
StageAction(rows) ==
    /\ process.status \in {"APPROVED", "COMPLETED"}
    /\ docs' = rows
    /\ process' = [process EXCEPT !.status = CompletionOf(rows, process.ordered)]
    /\ UNCHANGED <<cast, ledger>>

Written(row, input) ==
    [row EXCEPT !.date = input.date, !.source = input.source, !.qty = input.qty,
                !.rejected = input.rejected, !.returned = input.returned]

CreateStage(d, input) ==
    /\ docs[d].status = "NONE"
    /\ Accepts(cast[d], Others(d), input)
    /\ StageAction([docs EXCEPT ![d] =
          [Written(NoRow, input) EXCEPT !.status = "DRAFT",
                                        !.parent = ParentOf(cast[d], Others(d), input)]])
    /\ UNCHANGED booked

\* saveStage makes the document anew and moves the new lines to the old one; the
\* old parent stays.
SaveStage(d, input) ==
    /\ docs[d].status = "DRAFT"
    /\ Accepts(cast[d], Others(d), input)
    /\ ~LinesInUse(docs, d)
    /\ StageAction([docs EXCEPT ![d] = Written(@, input)])
    /\ UNCHANGED booked

DeleteStage(d) ==
    /\ docs[d].status = "DRAFT"
    /\ Children(docs, d) = {}
    /\ ~LinesInUse(docs, d)
    /\ StageAction([docs EXCEPT ![d] = NoRow])
    /\ UNCHANGED booked

CheckDocument(d, actor) ==
    /\ docs[d].status = "DRAFT"
    /\ StageAction([docs EXCEPT ![d].status = "REVIEWED", ![d].reviewedBy = actor])
    /\ UNCHANGED booked

UncheckDocument_Mutant(d) ==
    /\ docs[d].status = "REVIEWED"
    /\ StageAction([docs EXCEPT ![d].status = "DRAFT"])
    /\ UNCHANGED booked
UncheckDocument(d) ==
    /\ docs[d].status = "REVIEWED"
    /\ StageAction([docs EXCEPT ![d].status = "DRAFT", ![d].reviewedBy = None])
    /\ UNCHANGED booked

-----------------------------------------------------------------------------
(* Making a document final, and taking that back.                          *)

\* validateFinal.
ReceiptFits_Mutant(d) ==
    \A l \in Lines : docs[d].qty[l] <= Total(docs, "PROCUREMENT", l)
ReceiptFits(d) ==
    \A l \in Lines : docs[d].qty[l] + Total(docs, "RECEIPT", l) <= docs[docs[d].parent].qty[l]

DeliveryFits(d) ==
    \A l \in Lines : docs[d].qty[l] <= Pool(UpTo(docs, docs[d].date), l)

SignoffFits(d) ==
    \A l \in Lines : docs[d].qty[l] + Total(docs, "SIGNOFF", l) <= process.ordered[l]

Fits(d) ==
    CASE cast[d] = "RECEIPT" -> ReceiptFits(d)
      [] cast[d] = "DELIVERY" -> DeliveryFits(d)
      [] cast[d] = "SIGNOFF" -> SignoffFits(d)
      [] OTHER -> TRUE

\* The event to LED, if the stage has one.
Posted(d, effective) ==
    IF cast[d] \notin {"RECEIPT", "SIGNOFF"} THEN UNCHANGED booked
    ELSE /\ ledger.status = "ACTIVE"
         /\ effective >= ledger.cutover
         /\ booked' = [booked EXCEPT ![d] = PostManagedDocument(@, Effect(cast[d], docs, d))]

Finalize(d, actor) ==
    /\ docs[d].status = "REVIEWED"
    /\ docs[d].reviewedBy # actor
    /\ Fits(d)
    /\ StageAction([docs EXCEPT ![d].status = "APPROVED"])
    /\ Posted(d, docs[d].date)

\* validateReverse: a sign-off is not checked against anything.
MayReverse(d) ==
    CASE cast[d] \in {"PROCUREMENT", "DELIVERY"} -> Children(docs, d) = {}
      [] cast[d] = "RECEIPT" -> \A l \in Lines : Pool(Others(d), l) >= 0
      [] OTHER -> TRUE

ReversePosted(d) ==
    IF cast[d] \notin {"RECEIPT", "SIGNOFF"} THEN UNCHANGED booked
    ELSE /\ ledger.status = "ACTIVE"
         /\ KnownToLedger(booked[d])
         /\ booked' = [booked EXCEPT ![d] = ReverseManagedDocument(@)]

Reverse(d) ==
    /\ docs[d].status = "APPROVED"
    /\ MayReverse(d)
    /\ StageAction([docs EXCEPT ![d].status = "REVIEWED"])
    /\ ReversePosted(d)

-----------------------------------------------------------------------------
(* The ledger behind the workflow (VouLed has all of it).                  *)

Reopen ==
    /\ ledger.status = "ACTIVE"
    /\ ledger' = [ledger EXCEPT !.status = "REOPENING"]
    /\ UNCHANGED <<process, docs, cast, booked>>

CancelReopen ==
    /\ ledger.status = "REOPENING"
    /\ ledger' = [ledger EXCEPT !.status = "ACTIVE"]
    /\ UNCHANGED <<process, docs, cast, booked>>

\* replayManagedDocuments queries for each document while the list of documents
\* is still open on the same connection, which pgx refuses ("conn busy"): the
\* rebuild goes through only when there is nothing to replay.
Activate(cutover) ==
    /\ ledger.status = "REOPENING"
    /\ Final(docs, "RECEIPT") \cup Final(docs, "SIGNOFF") = {}
    /\ ledger' = [status |-> "ACTIVE", cutover |-> cutover]
    /\ booked' = [d \in DOMAIN cast |-> NoBooking]
    /\ UNCHANGED <<process, docs, cast>>

RootAction ==
    \/ \E date \in Dates, ordered \in Orders : Create(date, ordered) \/ Save(date, ordered)
    \/ \E actor \in Actors :
          Check(actor) \/ Approve(actor) \/ RequestShortClose(actor) \/ ConfirmShortClose(actor)
    \/ Uncheck
    \/ Unapprove
    \/ CancelShortClose
    \/ UnconfirmShortClose

DocumentAction(d) ==
    \/ \E input \in Inputs : CreateStage(d, input) \/ SaveStage(d, input)
    \/ DeleteStage(d)
    \/ \E actor \in Actors : CheckDocument(d, actor) \/ Finalize(d, actor)
    \/ UncheckDocument(d)
    \/ Reverse(d)

Next ==
    \/ RootAction
    \/ \E d \in DOMAIN docs : DocumentAction(d)
    \/ Reopen
    \/ CancelReopen
    \/ \E cutover \in Cutovers : Activate(cutover)

Spec == Init /\ [][Next]_vars

-----------------------------------------------------------------------------
(* Properties.                                                             *)

\* Goods are confirmed only against what was ordered from the supplier, and no
\* more of them (wfl.md section 3), through any sequence of placing, receiving,
\* reversing and saving anew; and the customer never signs for more than was
\* ordered, although rejected goods are delivered again.
QuantitiesWithinOrder ==
    \A l \in Lines :
        /\ Total(docs, "RECEIPT", l) <= Total(docs, "PROCUREMENT", l)
        /\ Total(docs, "PROCUREMENT", l) <= process.ordered[l]
        /\ Total(docs, "SIGNOFF", l) <= process.ordered[l]

\* The status is always the truth, by whatever sequence of finalizing, reversing,
\* rewriting and asking for an early end it was reached: a process is complete
\* when all is signed for and nothing is under way, and no other time; and
\* nothing is under way in one whose early end was requested or confirmed.
StatusTellsTruth ==
    LET quiet == \A d \in DOMAIN docs :
            /\ docs[d].status \in {"NONE", "APPROVED"}
            /\ cast[d] = "DELIVERY" /\ docs[d].status = "APPROVED" =>
                 \E s \in Final(docs, "SIGNOFF") : docs[s].parent = d
        delivered == \A l \in Lines : Total(docs, "SIGNOFF", l) = process.ordered[l]
    IN  /\ process.status = "COMPLETED" => quiet /\ delivered
        /\ process.status = "APPROVED" => ~(quiet /\ delivered)
        /\ process.status \in {"SHORT_CLOSE_REQUESTED", "SHORT_CLOSED"} => quiet
        /\ process.status \in {"NONE", "DRAFT", "CHECKED"} =>
               \A d \in DOMAIN docs : docs[d].status = "NONE"

\* Documents hang together, whatever is saved anew, reversed and deleted under
\* them: a receipt has its procurement placed and is not dated before it; a
\* sign-off has the delivery it was made for executed, and is not dated before
\* the delivery whose lines it names nor accounts for more than that delivered,
\* although that one may be reversed and back in draft.  The two deliveries are
\* the same until a sign-off saved anew names another's lines (saveStage,
\* insertSignoff, the restricting foreign keys).
StagesHangTogether ==
    \A d \in DOMAIN docs : docs[d].status # "NONE" =>
        /\ docs[d].date >= process.date
        /\ cast[d] = "RECEIPT" =>
             /\ docs[d].parent \in Final(docs, "PROCUREMENT")
             /\ docs[d].date >= docs[docs[d].parent].date
        /\ cast[d] = "SIGNOFF" =>
             /\ docs[d].parent \in Final(docs, "DELIVERY")
             /\ docs[d].source \in Live(docs, "DELIVERY")
             /\ docs[d].date >= docs[docs[d].source].date
             /\ \A l \in Lines : docs[d].qty[l] + docs[d].rejected[l] <= docs[docs[d].source].qty[l]

\* What the supplier is owed for a receipt (a payable is negative).
Owed(d) == IF docs[d].status = "APPROVED" THEN - SumFunction(docs[d].qty) ELSE 0

\* The supplier is owed for exactly the goods whose receipt is confirmed, from
\* the cutover of the active generation on, reopened and rebuilt or not.
PayablesFollowReceipts ==
    \A d \in DOMAIN cast : cast[d] = "RECEIPT" => booked[d].party.net = Owed(d)

\* wfl.md:52 refuses a reversal that would make the quantity timeline negative:
\* what was delivered was there to deliver.
PoolNeverNegative == \A l \in Lines : Pool(docs, l) >= 0
=============================================================================
