------------------------------ MODULE VouLedTx ------------------------------
(***************************************************************************)
(* The transactions behind VouLed, statement by statement.                 *)
(*                                                                         *)
(* Requests run concurrently, each in one READ COMMITTED transaction: what *)
(* it writes is invisible until it commits, every statement reads what is  *)
(* committed at that moment, and SELECT ... FOR UPDATE waits for the row's *)
(* lock, which is kept until the transaction ends.  A voucher request      *)
(* locks its document row first; executing and reversing then publish the  *)
(* event whose LED subscriber locks the control row, in the same           *)
(* transaction.  A ledger request locks the control row only, and          *)
(* activation then lists the executed vouchers with no lock on them.       *)
(*                                                                         *)
(* The question is whether the book stays equal to the executed vouchers   *)
(* under every interleaving, with any transaction failing at any point.    *)
(* Amounts are left to VouLed: a cutover is the set of the vouchers with   *)
(* an effect from that date on, and the book is the set of vouchers whose  *)
(* effects the active generation carries.  A voucher without any effect    *)
(* (a brokered sale signed for in quantity zero) is not in Docs.           *)
(***************************************************************************)
EXTENDS Integers

CONSTANTS
    Docs,     \* vouchers
    Txs,      \* database connections running a request
    None,     \* the owner of a free lock, the voucher of a ledger request
    Cutovers, \* the cutover dates one can save, as sets of vouchers
    MaxDocRev, MaxCtlRev \* revisions at which requests stop (model checking)

ASSUME TxAssumption ==
    /\ None \notin Txs
    /\ None \notin Docs
    /\ Cutovers \subseteq SUBSET Docs
    /\ MaxDocRev \in Nat /\ MaxCtlRev \in Nat

VARIABLES
    docs,     \* committed voucher rows: status and revision
    control,  \* committed control row: status, cutover (dated: not NULL), revision
    genFrom,  \* the active generation's cutover
    book,     \* vouchers with live postings in the active generation
    docLock,  \* owner of each voucher's row lock
    ctlLock,  \* owner of the control row's lock
    pc,       \* where each transaction stands
    op,       \* its request,
    doc,      \*   the voucher the request names
    rev,      \*   and the revision it was read at
    listed    \* the vouchers an activation has listed

rows  == <<docs, control, genFrom, book>>
locks == <<docLock, ctlLock>>
txs   == <<pc, op, doc, rev, listed>>
vars  == <<rows, locks, txs>>

DocStatuses == {"REVIEWED", "APPROVED", "EXECUTED"}
LedgerStatuses == {"DRAFT", "ACTIVE", "REOPENING"}

EventOps   == {"execute", "unexecute"}   \* publish an event to LED
VoucherOps == EventOps \cup {"approve", "unapprove"}
LedgerOps  == {"save", "activate", "reopen", "cancel"}

\* idle, waiting for the voucher's lock, waiting for the control row's lock,
\* about to list the executed vouchers, about to commit.
Points == {"idle", "doc", "ctl", "list", "commit"}

TypeOK ==
    /\ docs \in [Docs -> [status : DocStatuses, rev : Nat]]
    /\ control \in [status : LedgerStatuses, dated : BOOLEAN, from : SUBSET Docs, rev : Nat]
    /\ genFrom \in SUBSET Docs
    /\ book \in SUBSET Docs
    /\ docLock \in [Docs -> Txs \cup {None}]
    /\ ctlLock \in Txs \cup {None}
    /\ pc \in [Txs -> Points]
    /\ op \in [Txs -> VoucherOps \cup LedgerOps \cup {"none"}]
    /\ doc \in [Txs -> Docs \cup {None}]
    /\ \A t \in Txs :
         /\ doc[t] = None <=> op[t] \notin VoucherOps
         /\ pc[t] = "idle" <=> op[t] = "none"
         /\ pc[t] = "doc" => doc[t] # None
    /\ rev \in [Txs -> Nat]
    /\ listed \in [Txs -> SUBSET Docs]

\* The ledger has just been installed; some vouchers are executed already.
Init ==
    /\ docs \in [Docs -> [status : DocStatuses, rev : {1}]]
    /\ control = [status |-> "DRAFT", dated |-> FALSE, from |-> {}, rev |-> 1]
    /\ genFrom = {}
    /\ book = {}
    /\ docLock = [d \in Docs |-> None]
    /\ ctlLock = None
    /\ pc = [t \in Txs |-> "idle"]
    /\ op = [t \in Txs |-> "none"]
    /\ doc = [t \in Txs |-> None]
    /\ rev = [t \in Txs |-> 0]
    /\ listed = [t \in Txs |-> {}]

ExecutedDocs == {d \in Docs : docs[d].status = "EXECUTED"}

-----------------------------------------------------------------------------
(* What the statements of a request check.                                 *)

StatusBefore(o) ==
    CASE o = "approve"   -> "REVIEWED"
      [] o = "unapprove" -> "APPROVED"
      [] o = "execute"   -> "APPROVED"
      [] o = "unexecute" -> "EXECUTED"

StatusAfter(o) ==
    CASE o = "approve"   -> "APPROVED"
      [] o = "unapprove" -> "REVIEWED"
      [] o = "execute"   -> "EXECUTED"
      [] o = "unexecute" -> "APPROVED"

\* documentWriteConflict.
VoucherAllows(t) ==
    /\ docs[doc[t]].status = StatusBefore(op[t])
    /\ docs[doc[t]].rev = rev[t]

\* The checks that follow LockLedControl.
LedgerAllows_Mutant(t) ==
    CASE op[t] = "execute"   -> control.status = "ACTIVE" /\ doc[t] \in control.from
      [] op[t] = "unexecute" -> control.status = "DRAFT" \/ doc[t] \in book
      [] op[t] = "save"      -> control.rev = rev[t] /\ control.status \in {"DRAFT", "REOPENING"}
      [] op[t] = "activate"  -> /\ control.rev = rev[t]
                                /\ control.status \in {"DRAFT", "REOPENING"}
                                /\ control.dated
      [] op[t] = "reopen"    -> control.rev = rev[t] /\ control.status = "ACTIVE"
      [] op[t] = "cancel"    -> control.rev = rev[t] /\ control.status = "REOPENING"
LedgerAllows(t) ==
    CASE op[t] = "execute"   -> control.status = "ACTIVE" /\ doc[t] \in control.from
      [] op[t] = "unexecute" -> \/ control.status = "DRAFT"
                                \/ control.status = "ACTIVE" /\ doc[t] \in book
      [] op[t] = "save"      -> control.rev = rev[t] /\ control.status \in {"DRAFT", "REOPENING"}
      [] op[t] = "activate"  -> /\ control.rev = rev[t]
                                /\ control.status \in {"DRAFT", "REOPENING"}
                                /\ control.dated
      [] op[t] = "reopen"    -> control.rev = rev[t] /\ control.status = "ACTIVE"
      [] op[t] = "cancel"    -> control.rev = rev[t] /\ control.status = "REOPENING"

-----------------------------------------------------------------------------
(* A transaction's steps.                                                  *)

\* The end of a transaction, committed or rolled back, frees what it locked.
Forget_Mutant(t) ==
    /\ pc' = [pc EXCEPT ![t] = "idle"]
    /\ doc' = [doc EXCEPT ![t] = None]
    /\ rev' = [rev EXCEPT ![t] = 0]
    /\ listed' = [listed EXCEPT ![t] = {}]
    /\ UNCHANGED op
Forget(t) ==
    /\ pc' = [pc EXCEPT ![t] = "idle"]
    /\ op' = [op EXCEPT ![t] = "none"]
    /\ doc' = [doc EXCEPT ![t] = None]
    /\ rev' = [rev EXCEPT ![t] = 0]
    /\ listed' = [listed EXCEPT ![t] = {}]

Release_Mutant(t) ==
    /\ docLock' = IF pc[t] = "ctl" THEN docLock
                  ELSE [d \in Docs |-> IF docLock[d] = t THEN None ELSE docLock[d]]
    /\ ctlLock' = IF ctlLock = t THEN None ELSE ctlLock
    /\ Forget(t)
Release(t) ==
    /\ docLock' = [d \in Docs |-> IF docLock[d] = t THEN None ELSE docLock[d]]
    /\ ctlLock' = IF ctlLock = t THEN None ELSE ctlLock
    /\ Forget(t)

\* A request arrives, naming the revision its client has read: the current one
\* (which may be stale by the time the request has its lock), or one long gone,
\* for which 0 stands.  At the bound only the latter arrive.
Named(current, bound) == {0} \cup {r \in {current} : r < bound}

BeginVoucher(t, o, d, r) ==
    /\ pc[t] = "idle"
    /\ pc' = [pc EXCEPT ![t] = "doc"]
    /\ op' = [op EXCEPT ![t] = o]
    /\ doc' = [doc EXCEPT ![t] = d]
    /\ rev' = [rev EXCEPT ![t] = r]
    /\ UNCHANGED <<rows, locks, listed>>

BeginLedger(t, o, r) ==
    /\ pc[t] = "idle"
    /\ pc' = [pc EXCEPT ![t] = "ctl"]
    /\ op' = [op EXCEPT ![t] = o]
    /\ rev' = [rev EXCEPT ![t] = r]
    /\ UNCHANGED <<rows, locks, doc, listed>>

\* LockVouDocument, and the check goes well.
LockVoucher(t) ==
    /\ pc[t] = "doc"
    /\ docLock[doc[t]] = None
    /\ VoucherAllows(t)
    /\ docLock' = [docLock EXCEPT ![doc[t]] = t]
    /\ pc' = [pc EXCEPT ![t] = IF op[t] \in EventOps THEN "ctl" ELSE "commit"]
    /\ UNCHANGED <<rows, ctlLock, op, doc, rev, listed>>

RefuseVoucher(t) ==
    /\ pc[t] = "doc"
    /\ docLock[doc[t]] = None
    /\ ~VoucherAllows(t)
    /\ Release(t)
    /\ UNCHANGED rows

\* LockLedControl, and the checks go well.
LockControl_Mutant(t) ==
    /\ pc[t] = "ctl"
    /\ LedgerAllows(t)
    /\ ctlLock' = t
    /\ pc' = [pc EXCEPT ![t] = IF op[t] = "activate" THEN "list" ELSE "commit"]
    /\ UNCHANGED <<rows, docLock, op, doc, rev, listed>>
LockControl(t) ==
    /\ pc[t] = "ctl"
    /\ ctlLock = None
    /\ LedgerAllows(t)
    /\ ctlLock' = t
    /\ pc' = [pc EXCEPT ![t] = IF op[t] = "activate" THEN "list" ELSE "commit"]
    /\ UNCHANGED <<rows, docLock, op, doc, rev, listed>>

RefuseControl(t) ==
    /\ pc[t] = "ctl"
    /\ ctlLock = None
    /\ ~LedgerAllows(t)
    /\ Release(t)
    /\ UNCHANGED rows

\* ListExecutedVouDocumentsForLed: one statement, what is committed now.
ListExecuted(t) ==
    /\ pc[t] = "list"
    /\ listed' = [listed EXCEPT ![t] = ExecutedDocs]
    /\ pc' = [pc EXCEPT ![t] = "commit"]
    /\ UNCHANGED <<rows, locks, op, doc, rev>>

\* Any failure: a refused posting, a broken connection, a crash.
Abort(t) ==
    /\ pc[t] # "idle"
    /\ Release(t)
    /\ UNCHANGED rows

-----------------------------------------------------------------------------
(* Commits.                                                                *)

MoveVoucher(t) ==
    docs' = [docs EXCEPT ![doc[t]] =
                [status |-> StatusAfter(op[t]), rev |-> docs[doc[t]].rev + 1]]

MoveControl(status, dated, from) ==
    control' = [status |-> status, dated |-> dated, from |-> from, rev |-> control.rev + 1]

Committing(t, o) == pc[t] = "commit" /\ op[t] = o /\ Release(t)

CommitApproval(t) ==
    /\ Committing(t, "approve") \/ Committing(t, "unapprove")
    /\ MoveVoucher(t)
    /\ UNCHANGED <<control, genFrom, book>>

CommitExecute(t) ==
    /\ Committing(t, "execute")
    /\ MoveVoucher(t)
    /\ book' = book \cup {doc[t]}
    /\ UNCHANGED <<control, genFrom>>

CommitUnexecute(t) ==
    /\ Committing(t, "unexecute")
    /\ MoveVoucher(t)
    /\ book' = book \ {doc[t]}
    /\ UNCHANGED <<control, genFrom>>

CommitSave(t, from) ==
    /\ Committing(t, "save")
    /\ MoveControl(control.status, TRUE, from)
    /\ UNCHANGED <<docs, genFrom, book>>

CommitActivate(t) ==
    /\ Committing(t, "activate")
    /\ MoveControl("ACTIVE", control.dated, control.from)
    /\ genFrom' = control.from
    /\ book' = listed[t] \cap control.from
    /\ UNCHANGED docs

CommitReopen(t) ==
    /\ Committing(t, "reopen")
    /\ MoveControl("REOPENING", control.dated, control.from)
    /\ UNCHANGED <<docs, genFrom, book>>

CommitCancel_Mutant(t) ==
    /\ Committing(t, "cancel")
    /\ MoveControl("ACTIVE", control.dated, control.from)
    /\ UNCHANGED <<docs, genFrom, book>>
CommitCancel(t) ==
    /\ Committing(t, "cancel")
    /\ MoveControl("ACTIVE", control.dated, genFrom)
    /\ UNCHANGED <<docs, genFrom, book>>

Commit(t) ==
    \/ CommitApproval(t)
    \/ CommitExecute(t)
    \/ CommitUnexecute(t)
    \/ \E from \in Cutovers : CommitSave(t, from)
    \/ CommitActivate(t)
    \/ CommitReopen(t)
    \/ CommitCancel(t)

TakeVoucher(t) == LockVoucher(t) \/ RefuseVoucher(t)
TakeControl(t) == LockControl(t) \/ RefuseControl(t)

Step(t) ==
    \/ \E o \in VoucherOps, d \in Docs : \E r \in Named(docs[d].rev, MaxDocRev) :
          BeginVoucher(t, o, d, r)
    \/ \E o \in LedgerOps : \E r \in Named(control.rev, MaxCtlRev) : BeginLedger(t, o, r)
    \/ TakeVoucher(t)
    \/ TakeControl(t)
    \/ ListExecuted(t)
    \/ Commit(t)
    \/ Abort(t)

Next == \E t \in Txs : Step(t)

Spec == Init /\ [][Next]_vars

-----------------------------------------------------------------------------
(* Properties.                                                             *)

HoldsVoucher(t) == op[t] \in VoucherOps /\ pc[t] \in {"ctl", "commit"}
HoldsControl(t) == op[t] \in EventOps \cup LedgerOps /\ pc[t] \in {"list", "commit"}

\* Each lock is held by the transactions that think they hold it.
LocksHeld ==
    \A t \in Txs :
        /\ HoldsVoucher(t) => docLock[doc[t]] = t
        /\ HoldsControl(t) => ctlLock = t
        /\ pc[t] = "list" => op[t] = "activate"

\* Nothing a transaction has checked has changed when it commits: the voucher
\* is at the revision and status the request named, the ledger still allows
\* it, and the vouchers an activation listed are the executed ones.
ChecksStillHold ==
    \A t \in Txs :
        /\ HoldsVoucher(t) => VoucherAllows(t)
        /\ HoldsControl(t) => LedgerAllows(t)
        /\ pc[t] = "commit" /\ op[t] = "activate" => listed[t] = ExecutedDocs

\* No stale commit, said of the requests alone.
NoStaleCommit ==
    \A t \in Txs : pc[t] = "commit" =>
        rev[t] = IF op[t] \in VoucherOps THEN docs[doc[t]].rev ELSE control.rev

\* Whatever ran concurrently, the active generation carries exactly the vouchers
\* executed now that its cutover lets in; before the first activation it is empty.
BookMatchesExecuted ==
    /\ control.status = "DRAFT" => book = {}
    /\ control.status # "DRAFT" => book = ExecutedDocs \cap genFrom
    /\ control.status = "ACTIVE" => control.from = genFrom

\* The inductive invariant.
Inv == TypeOK /\ LocksHeld /\ ChecksStillHold /\ BookMatchesExecuted

Sync == INSTANCE LedSync WITH
    mode <- control.status, executed <- ExecutedDocs

\* Every interleaving of the transactions is a behavior of LedSync.
ImplementsLedSync == Sync!Spec

\* As long as the ledger stays reopened no request executes or reverses a
\* voucher or touches the book, whatever was under way when it was reopened.
FrozenWhileReopened == Sync!FrozenWhileReopened

WaitsFor(t, u) ==
    \/ pc[t] = "doc" /\ docLock[doc[t]] = u
    \/ pc[t] = "ctl" /\ ctlLock = u

\* No requests wait for each other in a circle, however many there are: of any
\* of them one can go on, since a voucher's row is always locked before the
\* control row (Execute, Unexecute; SaveOpening, Activate, Reopen and
\* CancelReopen lock no voucher).  And nobody waits for a request that ended.
NoCircularWait ==
    /\ \A t, u \in Txs : WaitsFor(t, u) => pc[u] # "idle"
    /\ \A S \in SUBSET Txs : S # {} => \E t \in S : \A u \in S : ~WaitsFor(t, u)
=============================================================================
