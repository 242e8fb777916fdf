----------------------------- MODULE VouDocument -----------------------------
(***************************************************************************)
(* One VOU document (a row of vou_documents with its detail, lines and     *)
(* attachment links) and what each handler of internal/domains/vou does    *)
(* to it.  This module has no variables: a handler is a pair of operators, *)
(* the condition under which it commits and the row it leaves.  The        *)
(* modules VouClients and VouLed turn them into actions.                   *)
(*                                                                         *)
(* Data is abstracted to what the ledger and the state machine look at:    *)
(*   data.date  business date                                              *)
(*   data.qty   ordered quantity (goods) or amount (cash), unit price 1    *)
(*   attrs      which of the attributes that migrations 00013 to 00015     *)
(*              made mandatory are missing (only for legacy documents)     *)
(*   exec       execution outcome: goods date, moved and signed quantity   *)
(*   at         executed_at                                                *)
(*   pending, ready   linked attachments, by state of the file             *)
(*                                                                         *)
(* An operator whose name ends in _Mutant is a plausible slip in the code  *)
(* its original models; the mutation runs use it in the original's place   *)
(* to see that a property notices.                                         *)
(***************************************************************************)
EXTENDS Integers

CONSTANTS
    Dates,   \* dates a document can carry
    Qtys     \* quantities (or amounts) a document can carry

ASSUME DocumentAssumption == Dates \subseteq Nat \ {0} /\ Qtys \subseteq Nat \ {0}

GoodsKinds == {"sale", "purchase", "intermediary"}
CashKinds  == {"receipt", "payment", "expense", "other"}
Kinds      == GoodsKinds \cup CashKinds

Statuses == {"NONE", "DRAFT", "REVIEWED", "APPROVED", "EXECUTED"}

\* Execution columns of a document that is not executed, or of a cash one.
NoExec == [date |-> 0, moved |-> 0, signed |-> 0]

Data == [date : Dates, qty : Qtys]

NoData == [date |-> 0, qty |-> 0]

\* A document number nobody has created yet.
Absent(kind) ==
    [kind |-> kind, status |-> "NONE", rev |-> 0, data |-> NoData,
     attrs |-> "complete", exec |-> NoExec, at |-> 0,
     pending |-> {}, ready |-> {}]

Drafted(kind, data) ==
    [Absent(kind) EXCEPT !.status = "DRAFT", !.rev = 1, !.data = data]

-----------------------------------------------------------------------------
(* Guards shared by the handlers.                                          *)

\* documentWriteConflict: the request names the revision it was read at.
IsAt_Mutant(d, rev, status) == d.status = status
IsAt(d, rev, status) == d.status = status /\ d.rev = rev

\* validateStoredAttributes: expense reimbursements have nothing to check.
AttributesComplete(d) == d.kind = "expense" \/ d.attrs = "complete"

\* Every committed write moves the row to its next revision.
Moved(d, status) == [d EXCEPT !.status = status, !.rev = @ + 1]

-----------------------------------------------------------------------------
(* Draft and review.                                                       *)

CanSave(d, rev) == IsAt(d, rev, "DRAFT")

\* Saving resolves every mandatory attribute again.
Saved(d, data) == [Moved(d, "DRAFT") EXCEPT !.data = data, !.attrs = "complete"]

CanReview_Mutant(d, rev) == IsAt(d, rev, "DRAFT") /\ AttributesComplete(d)
CanReview(d, rev) ==
    /\ IsAt(d, rev, "DRAFT")
    /\ AttributesComplete(d)
    /\ d.pending = {}
Reviewed(d) == Moved(d, "REVIEWED")

CanApprove(d, rev) == IsAt(d, rev, "REVIEWED") /\ AttributesComplete(d)
Approved(d) == Moved(d, "APPROVED")

CanUnreview(d, rev) == IsAt(d, rev, "REVIEWED")
Unreviewed(d) == Moved(d, "DRAFT")

CanUnapprove(d, rev) == IsAt(d, rev, "APPROVED")
Unapproved(d) == Moved(d, "REVIEWED")

-----------------------------------------------------------------------------
(* Execution: the outcomes the request may report for the document.        *)

GoodsDates(d) == {x \in Dates : x >= d.data.date}

SaleOutcomes(d) ==
    {e \in [date : GoodsDates(d), moved : 1..d.data.qty, signed : 0..d.data.qty] :
        e.signed <= e.moved}

PurchaseOutcomes(d) == [date : GoodsDates(d), moved : 1..d.data.qty, signed : {0}]

Outcomes(d) ==
    IF d.kind \in {"sale", "intermediary"} THEN SaleOutcomes(d)
    ELSE IF d.kind = "purchase" THEN PurchaseOutcomes(d)
    ELSE {NoExec}

CanExecute(d, rev) == IsAt(d, rev, "APPROVED") /\ AttributesComplete(d)
Executed(d, outcome, at) ==
    [Moved(d, "EXECUTED") EXCEPT !.exec = outcome, !.at = at]

CanUnexecute(d, rev) == IsAt(d, rev, "EXECUTED")
Unexecuted(d) == [Moved(d, "APPROVED") EXCEPT !.exec = NoExec, !.at = 0]

-----------------------------------------------------------------------------
(* Attachment links.                                                       *)

Linked(d) == d.pending \cup d.ready

CanInitiate(d, rev, limit, count) == IsAt(d, rev, "DRAFT") /\ count < limit
Initiated(d, f) == [Moved(d, "DRAFT") EXCEPT !.pending = @ \cup {f}]

CanRemove(d, rev, f) == IsAt(d, rev, "DRAFT") /\ f \in Linked(d)
Removed(d, f) == [Moved(d, "DRAFT") EXCEPT !.pending = @ \ {f}, !.ready = @ \ {f}]

\* Finishing an upload and expiring it leave the document row alone.
Stored_Mutant(d, f) == [d EXCEPT !.ready = @ \cup {f}]
Stored(d, f) == [d EXCEPT !.pending = @ \ {f}, !.ready = @ \cup {f}]
Expired(d, f) == [d EXCEPT !.pending = @ \ {f}]
=============================================================================
