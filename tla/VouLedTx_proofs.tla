--------------------------- MODULE VouLedTx_proofs ---------------------------
(***************************************************************************)
(* Proofs about VouLedTx, for any number of vouchers, concurrent requests, *)
(* cutover dates and revisions.                                            *)
(*                                                                         *)
(* The argument: a transaction that has passed a check holds the lock of   *)
(* the row it checked (LocksHeld), so what it checked is still so when it  *)
(* commits (ChecksStillHold), because whoever could change it would hold   *)
(* the same lock.  Every step then keeps the book equal to the executed    *)
(* vouchers the cutover lets in (BookMatchesExecuted).  The three are      *)
(* inductive only together.                                                *)
(***************************************************************************)
EXTENDS VouLedTx, TLAPS

-----------------------------------------------------------------------------
(* Facts about locks.                                                      *)

\* No two transactions are past the check of the same voucher.
LEMMA OneVoucherHolder ==
    ASSUME LocksHeld, NEW t \in Txs, NEW u \in Txs,
           HoldsVoucher(t), HoldsVoucher(u), doc[t] = doc[u]
    PROVE  t = u
  BY DEF LocksHeld

\* No two transactions are past the check of the control row.
LEMMA OneControlHolder ==
    ASSUME LocksHeld, NEW t \in Txs, NEW u \in Txs, HoldsControl(t), HoldsControl(u)
    PROVE  t = u
  BY DEF LocksHeld

-----------------------------------------------------------------------------
(* Types.                                                                  *)

LEMMA InitType == Init => TypeOK
  BY TxAssumption
  DEF Init, TypeOK, DocStatuses, LedgerStatuses, Points, VoucherOps, LedgerOps, EventOps

LEMMA ReleaseType ==
    ASSUME TypeOK, NEW t \in Txs, Release(t)
    PROVE  /\ docLock' \in [Docs -> Txs \cup {None}]
           /\ ctlLock' \in Txs \cup {None}
           /\ pc' \in [Txs -> Points]
           /\ op' \in [Txs -> VoucherOps \cup LedgerOps \cup {"none"}]
           /\ doc' \in [Txs -> Docs \cup {None}]
           /\ \A u \in Txs :
                /\ doc'[u] = None <=> op'[u] \notin VoucherOps
                /\ pc'[u] = "idle" <=> op'[u] = "none"
                /\ pc'[u] = "doc" => doc'[u] # None
           /\ rev' \in [Txs -> Nat]
           /\ listed' \in [Txs -> SUBSET Docs]
  BY TxAssumption DEF TypeOK, Release, Forget, Points, VoucherOps, LedgerOps, EventOps

\* A transaction about to commit a voucher request moves one well-formed row.
LEMMA MoveVoucherType ==
    ASSUME TypeOK, NEW t \in Txs, op[t] \in VoucherOps, MoveVoucher(t)
    PROVE  /\ doc[t] \in Docs
           /\ docs' \in [Docs -> [status : DocStatuses, rev : Nat]]
  <1>1. doc[t] \in Docs
    BY DEF TypeOK
  <1>2. StatusAfter(op[t]) \in DocStatuses
    BY DEF StatusAfter, DocStatuses, VoucherOps, EventOps
  <1>3. [status |-> StatusAfter(op[t]), rev |-> docs[doc[t]].rev + 1]
          \in [status : DocStatuses, rev : Nat]
    BY <1>1, <1>2 DEF TypeOK
  <1> QED
    BY <1>1, <1>3 DEF TypeOK, MoveVoucher

LEMMA StepType ==
    ASSUME TypeOK, [Next]_vars
    PROVE  TypeOK'
  <1> USE DEF rows, locks, txs
  <1>1. ASSUME NEW t \in Txs, NEW o \in VoucherOps, NEW d \in Docs,
               NEW r \in Named(docs[d].rev, MaxDocRev), BeginVoucher(t, o, d, r)
        PROVE  TypeOK'
    <2>1. r \in Nat
      BY DEF Named, TypeOK
    <2>2. o # "none"
      BY DEF VoucherOps, EventOps
    <2> QED
      BY <1>1, <2>1, <2>2, TxAssumption DEF BeginVoucher, TypeOK, Points
  <1>2. ASSUME NEW t \in Txs, NEW o \in LedgerOps, NEW r \in Named(control.rev, MaxCtlRev),
               BeginLedger(t, o, r)
        PROVE  TypeOK'
    <2>1. r \in Nat
      BY DEF Named, TypeOK
    <2>2. o \notin VoucherOps /\ o # "none"
      BY DEF LedgerOps, VoucherOps, EventOps
    <2>3. "none" \notin VoucherOps
      BY DEF VoucherOps, EventOps
    <2> QED
      BY <1>2, <2>1, <2>2, <2>3 DEF BeginLedger, TypeOK, Points
  <1>3. ASSUME NEW t \in Txs, TakeVoucher(t)
        PROVE  TypeOK'
    <2>1. CASE LockVoucher(t)
      BY <2>1 DEF LockVoucher, TypeOK, Points
    <2>2. CASE RefuseVoucher(t)
      BY <2>2, ReleaseType DEF RefuseVoucher, TypeOK
    <2> QED
      BY <1>3, <2>1, <2>2 DEF TakeVoucher
  <1>4. ASSUME NEW t \in Txs, TakeControl(t)
        PROVE  TypeOK'
    <2>1. CASE LockControl(t)
      BY <2>1 DEF LockControl, TypeOK, Points
    <2>2. CASE RefuseControl(t)
      BY <2>2, ReleaseType DEF RefuseControl, TypeOK
    <2> QED
      BY <1>4, <2>1, <2>2 DEF TakeControl
  <1>5. ASSUME NEW t \in Txs, ListExecuted(t)
        PROVE  TypeOK'
    BY <1>5 DEF ListExecuted, ExecutedDocs, TypeOK, Points
  <1>6. ASSUME NEW t \in Txs, Abort(t)
        PROVE  TypeOK'
    BY <1>6, ReleaseType DEF Abort, TypeOK
  <1>7. ASSUME NEW t \in Txs, Commit(t)
        PROVE  TypeOK'
    <2> USE DEF Committing
    <2>1. CASE CommitApproval(t)
      BY <2>1, ReleaseType, MoveVoucherType DEF CommitApproval, TypeOK, VoucherOps
    <2>2. CASE CommitExecute(t)
      BY <2>2, ReleaseType, MoveVoucherType DEF CommitExecute, TypeOK, VoucherOps, EventOps
    <2>3. CASE CommitUnexecute(t)
      BY <2>3, ReleaseType, MoveVoucherType DEF CommitUnexecute, TypeOK, VoucherOps, EventOps
    <2>4. CASE \E from \in Cutovers : CommitSave(t, from)
      BY <2>4, ReleaseType, TxAssumption DEF CommitSave, MoveControl, TypeOK
    <2>5. CASE CommitActivate(t)
      BY <2>5, ReleaseType DEF CommitActivate, MoveControl, TypeOK, LedgerStatuses
    <2>6. CASE CommitReopen(t)
      BY <2>6, ReleaseType DEF CommitReopen, MoveControl, TypeOK, LedgerStatuses
    <2>7. CASE CommitCancel(t)
      BY <2>7, ReleaseType DEF CommitCancel, MoveControl, TypeOK, LedgerStatuses
    <2> QED
      BY <1>7, <2>1, <2>2, <2>3, <2>4, <2>5, <2>6, <2>7 DEF Commit
  <1>8. CASE UNCHANGED vars
    BY <1>8 DEF vars, TypeOK
  <1> QED
    BY <1>1, <1>2, <1>3, <1>4, <1>5, <1>6, <1>7, <1>8 DEF Next, Step

\* Every variable keeps its shape: rows are well-formed, each lock has an owner
\* or none, and a request names a voucher exactly when it is about one.
THEOREM TypeCorrect == Spec => []TypeOK
  <1>1. TypeOK /\ [Next]_vars => TypeOK'
    BY StepType
  <1> QED
    BY InitType, <1>1, PTL DEF Spec

-----------------------------------------------------------------------------
(* Locks.                                                                  *)

\* Ending a transaction changes nothing for the others.
LEMMA ReleaseSparesOthers ==
    ASSUME TypeOK, NEW t \in Txs, Release(t)
    PROVE  /\ pc'[t] = "idle" /\ op'[t] = "none"
           /\ \A u \in Txs \ {t} : /\ pc'[u] = pc[u] /\ op'[u] = op[u] /\ doc'[u] = doc[u]
                                   /\ rev'[u] = rev[u] /\ listed'[u] = listed[u]
           /\ \A d \in Docs : docLock[d] # t => docLock'[d] = docLock[d]
           /\ ctlLock # t => ctlLock' = ctlLock
  BY DEF TypeOK, Release, Forget

LEMMA ReleaseLocks ==
    ASSUME TypeOK, LocksHeld, NEW t \in Txs, Release(t)
    PROVE  LocksHeld'
  <1>1. ASSUME NEW u \in Txs, u # t
        PROVE  /\ HoldsVoucher(u)' => HoldsVoucher(u) /\ doc'[u] \in Docs
               /\ HoldsControl(u)' => HoldsControl(u)
    BY <1>1, ReleaseSparesOthers DEF HoldsVoucher, HoldsControl, TypeOK, VoucherOps, EventOps
  <1>2. ~HoldsVoucher(t)' /\ ~HoldsControl(t)' /\ pc'[t] # "list"
    BY ReleaseSparesOthers DEF HoldsVoucher, HoldsControl
  <1> QED
    BY <1>1, <1>2, ReleaseSparesOthers DEF LocksHeld

\* Every commit, refusal and abort ends with Release; no other step gives up a lock.
LEMMA StepLocks ==
    ASSUME TypeOK, LocksHeld, [Next]_vars
    PROVE  LocksHeld'
  <1> USE DEF rows, locks, txs
  <1>1. ASSUME NEW t \in Txs, NEW o \in VoucherOps, NEW d \in Docs,
               NEW r \in Named(docs[d].rev, MaxDocRev), BeginVoucher(t, o, d, r)
        PROVE  LocksHeld'
    BY <1>1 DEF BeginVoucher, LocksHeld, HoldsVoucher, HoldsControl, TypeOK
  <1>2. ASSUME NEW t \in Txs, NEW o \in LedgerOps, NEW r \in Named(control.rev, MaxCtlRev),
               BeginLedger(t, o, r)
        PROVE  LocksHeld'
    <2>1. o \notin VoucherOps
      BY DEF LedgerOps, VoucherOps, EventOps
    <2> QED
      BY <1>2, <2>1 DEF BeginLedger, LocksHeld, HoldsVoucher, HoldsControl, TypeOK
  <1>3. ASSUME NEW t \in Txs, LockVoucher(t)
        PROVE  LocksHeld'
    <2>1. ASSUME NEW u \in Txs, u # t
          PROVE  HoldsVoucher(u) => docLock[doc[u]] # None
      BY TxAssumption DEF LocksHeld
    <2>2. /\ op[t] \in VoucherOps \ LedgerOps
          /\ doc[t] \in Docs
      BY <1>3 DEF LockVoucher, TypeOK, VoucherOps, EventOps, LedgerOps
    <2>3. ~HoldsControl(t)'
      BY <1>3, <2>2 DEF LockVoucher, HoldsControl, TypeOK
    <2>4. ASSUME NEW u \in Txs
          PROVE  /\ HoldsVoucher(u)' => docLock'[doc'[u]] = u
                 /\ HoldsControl(u)' => ctlLock' = u
                 /\ pc'[u] = "list" => op'[u] = "activate"
      <3>1. CASE u = t
        BY <1>3, <2>2, <2>3, <3>1 DEF LockVoucher, TypeOK
      <3>2. CASE u # t
        BY <1>3, <2>1, <3>2 DEF LockVoucher, LocksHeld, HoldsVoucher, HoldsControl, TypeOK
      <3> QED
        BY <3>1, <3>2
    <2> QED
      BY <2>4 DEF LocksHeld
  <1>4. ASSUME NEW t \in Txs, LockControl(t)
        PROVE  LocksHeld'
    <2>1. ASSUME NEW u \in Txs, u # t
          PROVE  ~HoldsControl(u)
      BY <1>4, TxAssumption DEF LockControl, LocksHeld
    <2> QED
      BY <1>4, <2>1 DEF LockControl, LocksHeld, HoldsVoucher, HoldsControl, TypeOK
  <1>5. ASSUME NEW t \in Txs, ListExecuted(t)
        PROVE  LocksHeld'
    BY <1>5 DEF ListExecuted, LocksHeld, HoldsVoucher, HoldsControl, TypeOK, VoucherOps,
       EventOps, LedgerOps
  <1>6. ASSUME NEW t \in Txs, RefuseVoucher(t) \/ RefuseControl(t) \/ Abort(t) \/ Commit(t)
        PROVE  LocksHeld'
    <2>1. Release(t)
      BY <1>6 DEF RefuseVoucher, RefuseControl, Abort, Commit, Committing, CommitApproval,
         CommitExecute, CommitUnexecute, CommitSave, CommitActivate, CommitReopen, CommitCancel
    <2> QED
      BY <2>1, ReleaseLocks
  <1>7. CASE UNCHANGED vars
    BY <1>7 DEF vars, LocksHeld, HoldsVoucher, HoldsControl
  <1> QED
    BY <1>1, <1>2, <1>3, <1>4, <1>5, <1>6, <1>7 DEF Next, Step, TakeVoucher, TakeControl

-----------------------------------------------------------------------------
(* What was checked still holds, and the book.                             *)

\* What one transaction has checked.
Checked(u) ==
    /\ HoldsVoucher(u) => VoucherAllows(u)
    /\ HoldsControl(u) => LedgerAllows(u)
    /\ pc[u] = "commit" /\ op[u] = "activate" => listed[u] = ExecutedDocs

\* A step that commits nothing leaves the other transactions' checks as they are.
LEMMA OthersUndisturbed ==
    ASSUME ChecksStillHold, UNCHANGED rows, NEW u \in Txs,
           pc'[u] = pc[u], op'[u] = op[u], doc'[u] = doc[u], rev'[u] = rev[u],
           listed'[u] = listed[u]
    PROVE  Checked(u)'
  BY DEF ChecksStillHold, Checked, HoldsVoucher, HoldsControl, VoucherAllows, LedgerAllows,
     ExecutedDocs, rows

\* A transaction that is idle or still waiting for its first lock has checked nothing.
LEMMA NothingChecked ==
    ASSUME NEW u \in Txs, pc'[u] \in {"idle", "doc"} \/ (pc'[u] = "ctl" /\ op'[u] \in LedgerOps)
    PROVE  Checked(u)'
  BY DEF Checked, HoldsVoucher, HoldsControl, LedgerOps, VoucherOps, EventOps

\* Steps other than commits.
LEMMA QuietChecks ==
    ASSUME TypeOK, LocksHeld, ChecksStillHold, NEW t \in Txs,
           \/ \E o \in VoucherOps, d \in Docs : \E r \in Named(docs[d].rev, MaxDocRev) :
                 BeginVoucher(t, o, d, r)
           \/ \E o \in LedgerOps : \E r \in Named(control.rev, MaxCtlRev) : BeginLedger(t, o, r)
           \/ TakeVoucher(t)
           \/ TakeControl(t)
           \/ ListExecuted(t)
           \/ Abort(t)
    PROVE  UNCHANGED rows /\ ChecksStillHold'
  <1>1. UNCHANGED rows
    BY DEF BeginVoucher, BeginLedger, TakeVoucher, LockVoucher, RefuseVoucher, TakeControl,
       LockControl, RefuseControl, ListExecuted, Abort
  <1>2. ASSUME NEW u \in Txs, u # t
        PROVE  Checked(u)'
    <2>1. /\ pc'[u] = pc[u] /\ op'[u] = op[u] /\ doc'[u] = doc[u]
          /\ rev'[u] = rev[u] /\ listed'[u] = listed[u]
      BY <1>2, ReleaseSparesOthers
      DEF BeginVoucher, BeginLedger, TakeVoucher, LockVoucher, RefuseVoucher, TakeControl,
          LockControl, RefuseControl, ListExecuted, Abort, TypeOK
    <2> QED
      BY <1>1, <2>1, OthersUndisturbed
  <1>3. Checked(t)'
    <2>1. CASE \E o \in VoucherOps, d \in Docs : \E r \in Named(docs[d].rev, MaxDocRev) :
                 BeginVoucher(t, o, d, r)
      BY <2>1, NothingChecked DEF BeginVoucher, TypeOK
    <2>2. CASE \E o \in LedgerOps : \E r \in Named(control.rev, MaxCtlRev) : BeginLedger(t, o, r)
      BY <2>2, NothingChecked DEF BeginLedger, TypeOK
    <2>3. CASE LockVoucher(t)
      <3>1. op[t] \in VoucherOps
        BY <2>3 DEF LockVoucher, TypeOK
      <3>2. ~HoldsControl(t)' /\ op'[t] # "activate"
        BY <2>3, <3>1 DEF LockVoucher, HoldsControl, TypeOK, VoucherOps, EventOps, LedgerOps
      <3>3. VoucherAllows(t)'
        BY <2>3, <1>1 DEF LockVoucher, VoucherAllows, rows
      <3> QED
        BY <3>2, <3>3 DEF Checked
    <2>4. CASE LockControl(t)
      <3>1. HoldsVoucher(t)' => HoldsVoucher(t)
        BY <2>4 DEF LockControl, HoldsVoucher
      <3>2. HoldsVoucher(t) => VoucherAllows(t)'
        BY <2>4, <1>1 DEF LockControl, ChecksStillHold, VoucherAllows, rows
      <3>3. LedgerAllows(t)'
        BY <2>4, <1>1 DEF LockControl, LedgerAllows, rows
      <3>4. ~(pc'[t] = "commit" /\ op'[t] = "activate")
        BY <2>4 DEF LockControl, TypeOK
      <3> QED
        BY <3>1, <3>2, <3>3, <3>4 DEF Checked
    <2>5. CASE ListExecuted(t)
      <3>1. op[t] = "activate" /\ op'[t] = "activate"
        BY <2>5 DEF ListExecuted, LocksHeld
      <3>2. HoldsControl(t) /\ ~HoldsVoucher(t)'
        BY <2>5, <3>1 DEF ListExecuted, HoldsControl, HoldsVoucher, LedgerOps, VoucherOps, EventOps
      <3>3. LedgerAllows(t)'
        BY <2>5, <1>1, <3>1, <3>2 DEF ListExecuted, ChecksStillHold, LedgerAllows, rows
      <3>4. listed'[t] = ExecutedDocs'
        BY <2>5, <1>1 DEF ListExecuted, ExecutedDocs, TypeOK, rows
      <3> QED
        BY <3>2, <3>3, <3>4 DEF Checked
    <2>6. CASE RefuseVoucher(t) \/ RefuseControl(t) \/ Abort(t)
      <3>1. pc'[t] = "idle"
        BY <2>6, ReleaseSparesOthers DEF RefuseVoucher, RefuseControl, Abort
      <3> QED
        BY <3>1, NothingChecked
    <2> QED
      BY <2>1, <2>2, <2>3, <2>4, <2>5, <2>6 DEF TakeVoucher, TakeControl
  <1> QED
    BY <1>1, <1>2, <1>3 DEF ChecksStillHold, Checked

-----------------------------------------------------------------------------
(* Commits.                                                                *)

\* A commit leaves its transaction idle and the others where they were; those
\* that are past a check, were past it before.
LEMMA CommitSparesOthers ==
    ASSUME TypeOK, NEW t \in Txs, Commit(t)
    PROVE  /\ pc[t] = "commit" /\ pc'[t] = "idle"
           /\ \A u \in Txs \ {t} :
                /\ pc'[u] = pc[u] /\ op'[u] = op[u] /\ doc'[u] = doc[u]
                /\ rev'[u] = rev[u] /\ listed'[u] = listed[u]
                /\ HoldsVoucher(u)' = HoldsVoucher(u)
                /\ HoldsControl(u)' = HoldsControl(u)
  <1>1. Release(t) /\ pc[t] = "commit"
    BY DEF Commit, Committing, CommitApproval, CommitExecute, CommitUnexecute, CommitSave,
       CommitActivate, CommitReopen, CommitCancel
  <1> QED
    BY <1>1, ReleaseSparesOthers DEF HoldsVoucher, HoldsControl

\* The commit of a voucher request moves its own row, from the status it checked.
LEMMA VoucherCommit ==
    ASSUME TypeOK, ChecksStillHold, NEW t \in Txs,
           CommitApproval(t) \/ CommitExecute(t) \/ CommitUnexecute(t)
    PROVE  /\ HoldsVoucher(t)
           /\ doc[t] \in Docs
           /\ docs[doc[t]].status = StatusBefore(op[t])
           /\ docs'[doc[t]].status = StatusAfter(op[t])
           /\ \A d \in Docs \ {doc[t]} : docs'[d] = docs[d]
  <1>1. op[t] \in VoucherOps /\ pc[t] = "commit" /\ MoveVoucher(t)
    BY DEF CommitApproval, CommitExecute, CommitUnexecute, Committing, VoucherOps, EventOps
  <1>2. HoldsVoucher(t) /\ doc[t] \in Docs
    BY <1>1 DEF HoldsVoucher, TypeOK
  <1>3. docs[doc[t]].status = StatusBefore(op[t])
    BY <1>2 DEF ChecksStillHold, VoucherAllows
  <1> QED
    BY <1>1, <1>2, <1>3 DEF MoveVoucher, TypeOK

LEMMA ApprovalKeepsExecuted ==
    ASSUME TypeOK, ChecksStillHold, NEW t \in Txs, CommitApproval(t)
    PROVE  ExecutedDocs' = ExecutedDocs
  <1>1. op[t] \in {"approve", "unapprove"}
    BY DEF CommitApproval, Committing
  <1>2. StatusBefore(op[t]) # "EXECUTED" /\ StatusAfter(op[t]) # "EXECUTED"
    BY <1>1 DEF StatusBefore, StatusAfter
  <1> QED
    BY <1>2, VoucherCommit DEF ExecutedDocs

LEMMA ExecuteAddsOne ==
    ASSUME TypeOK, ChecksStillHold, NEW t \in Txs, CommitExecute(t)
    PROVE  doc[t] \notin ExecutedDocs /\ ExecutedDocs' = ExecutedDocs \cup {doc[t]}
  <1>1. StatusBefore(op[t]) = "APPROVED" /\ StatusAfter(op[t]) = "EXECUTED"
    BY DEF CommitExecute, Committing, StatusBefore, StatusAfter
  <1> QED
    BY <1>1, VoucherCommit DEF ExecutedDocs

LEMMA UnexecuteDropsOne ==
    ASSUME TypeOK, ChecksStillHold, NEW t \in Txs, CommitUnexecute(t)
    PROVE  doc[t] \in ExecutedDocs /\ ExecutedDocs' = ExecutedDocs \ {doc[t]}
  <1>1. StatusBefore(op[t]) = "EXECUTED" /\ StatusAfter(op[t]) = "APPROVED"
    BY DEF CommitUnexecute, Committing, StatusBefore, StatusAfter
  <1> QED
    BY <1>1, VoucherCommit DEF ExecutedDocs

\* Whoever else has checked the same voucher, or the control row that this
\* commit relies on, would hold the same lock.
LEMMA CommitChecks ==
    ASSUME TypeOK, LocksHeld, ChecksStillHold, NEW t \in Txs, Commit(t)
    PROVE  ChecksStillHold'
  <1>1. ASSUME NEW u \in Txs, u # t
        PROVE  Checked(u)'
    <2> USE CommitSparesOthers, <1>1
    <2>1. CASE CommitApproval(t)
      <3>1. HoldsVoucher(u) => docs'[doc[u]] = docs[doc[u]]
        <4>1. HoldsVoucher(u) => doc[u] \in Docs /\ doc[u] # doc[t]
          BY <2>1, VoucherCommit, OneVoucherHolder DEF HoldsVoucher, TypeOK
        <4> QED
          BY <4>1, <2>1, VoucherCommit
      <3>2. HoldsVoucher(u)' => VoucherAllows(u)'
        BY <3>1 DEF ChecksStillHold, VoucherAllows
      <3>3. HoldsControl(u)' => LedgerAllows(u)'
        BY <2>1 DEF CommitApproval, ChecksStillHold, LedgerAllows
      <3>4. pc'[u] = "commit" /\ op'[u] = "activate" => listed'[u] = ExecutedDocs'
        BY <2>1, ApprovalKeepsExecuted DEF ChecksStillHold
      <3> QED
        BY <3>2, <3>3, <3>4 DEF Checked
    <2>2. CASE CommitExecute(t) \/ CommitUnexecute(t)
      <3>1. HoldsVoucher(u) => docs'[doc[u]] = docs[doc[u]]
        <4>1. HoldsVoucher(u) => doc[u] \in Docs /\ doc[u] # doc[t]
          BY <2>2, VoucherCommit, OneVoucherHolder DEF HoldsVoucher, TypeOK
        <4> QED
          BY <4>1, <2>2, VoucherCommit
      <3>2. HoldsVoucher(u)' => VoucherAllows(u)'
        BY <3>1 DEF ChecksStillHold, VoucherAllows
      <3>3. HoldsControl(t)
        BY <2>2 DEF CommitExecute, CommitUnexecute, Committing, HoldsControl, EventOps
      <3>4. ~HoldsControl(u)
        BY <3>3, OneControlHolder
      <3>5. ~(pc'[u] = "commit" /\ op'[u] = "activate")
        BY <3>4 DEF HoldsControl, LedgerOps
      <3> QED
        BY <3>2, <3>4, <3>5 DEF Checked
    <2>3. CASE \/ \E from \in Cutovers : CommitSave(t, from)
               \/ CommitActivate(t) \/ CommitReopen(t) \/ CommitCancel(t)
      <3>1. HoldsControl(t) /\ UNCHANGED docs
        BY <2>3 DEF CommitSave, CommitActivate, CommitReopen, CommitCancel, Committing,
           HoldsControl, LedgerOps
      <3>2. ~HoldsControl(u)
        BY <3>1, OneControlHolder
      <3>3. HoldsVoucher(u)' => VoucherAllows(u)'
        BY <3>1 DEF ChecksStillHold, VoucherAllows
      <3>4. ~(pc'[u] = "commit" /\ op'[u] = "activate")
        BY <3>2 DEF HoldsControl, LedgerOps
      <3> QED
        BY <3>2, <3>3, <3>4 DEF Checked
    <2> QED
      BY <2>1, <2>2, <2>3 DEF Commit
  <1>2. Checked(t)'
    BY CommitSparesOthers, NothingChecked
  <1> QED
    BY <1>1, <1>2 DEF ChecksStillHold, Checked

\* What a transaction committing on the ledger has checked of it.
LEMMA CommitAllowed ==
    ASSUME ChecksStillHold, NEW t \in Txs, pc[t] = "commit", op[t] \in EventOps \cup LedgerOps
    PROVE  LedgerAllows(t)
  BY DEF ChecksStillHold, HoldsControl

LEMMA CommitBook ==
    ASSUME TypeOK, ChecksStillHold, BookMatchesExecuted, NEW t \in Txs, Commit(t)
    PROVE  BookMatchesExecuted'
  <1>1. CASE CommitApproval(t)
    BY <1>1, ApprovalKeepsExecuted DEF CommitApproval, BookMatchesExecuted
  <1>2. CASE CommitExecute(t)
    <2>1. control.status = "ACTIVE" /\ doc[t] \in control.from
      BY <1>2, CommitAllowed DEF CommitExecute, Committing, LedgerAllows, EventOps
    <2> QED
      BY <1>2, <2>1, ExecuteAddsOne DEF CommitExecute, BookMatchesExecuted
  <1>3. CASE CommitUnexecute(t)
    BY <1>3, UnexecuteDropsOne DEF CommitUnexecute, BookMatchesExecuted
  <1>4. CASE \E from \in Cutovers : CommitSave(t, from)
    <2>1. op[t] = "save" /\ pc[t] = "commit" /\ control'.status = control.status
      BY <1>4 DEF CommitSave, Committing, MoveControl
    <2>2. control.status \in {"DRAFT", "REOPENING"}
      BY <2>1, CommitAllowed DEF LedgerAllows, LedgerOps
    <2> QED
      BY <1>4, <2>1, <2>2 DEF CommitSave, BookMatchesExecuted, ExecutedDocs
  <1>5. CASE CommitActivate(t)
    <2>1. listed[t] = ExecutedDocs
      BY <1>5 DEF CommitActivate, Committing, ChecksStillHold
    <2> QED
      BY <1>5, <2>1 DEF CommitActivate, MoveControl, BookMatchesExecuted, ExecutedDocs
  <1>6. CASE CommitReopen(t)
    <2>1. control.status = "ACTIVE"
      BY <1>6, CommitAllowed DEF CommitReopen, Committing, LedgerAllows, LedgerOps
    <2> QED
      BY <1>6, <2>1 DEF CommitReopen, MoveControl, BookMatchesExecuted, ExecutedDocs
  <1>7. CASE CommitCancel(t)
    <2>1. control.status = "REOPENING"
      BY <1>7, CommitAllowed DEF CommitCancel, Committing, LedgerAllows, LedgerOps
    <2> QED
      BY <1>7, <2>1 DEF CommitCancel, MoveControl, BookMatchesExecuted, ExecutedDocs
  <1> QED
    BY <1>1, <1>2, <1>3, <1>4, <1>5, <1>6, <1>7 DEF Commit

-----------------------------------------------------------------------------
(* The invariant.                                                          *)

LEMMA InitInv == Init => Inv
  <1> SUFFICES ASSUME Init PROVE Inv
    OBVIOUS
  <1>1. TypeOK
    BY InitType
  <1>2. LocksHeld /\ ChecksStillHold
    BY DEF Init, LocksHeld, ChecksStillHold, HoldsVoucher, HoldsControl
  <1>3. BookMatchesExecuted
    BY DEF Init, BookMatchesExecuted
  <1> QED
    BY <1>1, <1>2, <1>3 DEF Inv

LEMMA StepInv == Inv /\ [Next]_vars => Inv'
  <1> SUFFICES ASSUME Inv, [Next]_vars PROVE Inv'
    OBVIOUS
  <1> USE DEF Inv
  <1>1. TypeOK'
    BY StepType
  <1>2. LocksHeld'
    BY StepLocks
  <1>3. ASSUME NEW t \in Txs, Step(t)
        PROVE  ChecksStillHold' /\ BookMatchesExecuted'
    <2>1. CASE Commit(t)
      BY <2>1, CommitChecks, CommitBook
    <2>2. CASE ~Commit(t)
      <3>1. UNCHANGED rows /\ ChecksStillHold'
        BY <1>3, <2>2, QuietChecks DEF Step
      <3>2. BookMatchesExecuted'
        BY <3>1 DEF rows, BookMatchesExecuted, ExecutedDocs
      <3> QED
        BY <3>1, <3>2
    <2> QED
      BY <2>1, <2>2
  <1>4. CASE UNCHANGED vars
    <2> USE <1>4 DEF vars, rows, txs
    <2>1. ChecksStillHold'
      BY DEF ChecksStillHold, HoldsVoucher, HoldsControl, VoucherAllows, LedgerAllows, ExecutedDocs
    <2>2. BookMatchesExecuted'
      BY DEF BookMatchesExecuted, ExecutedDocs
    <2> QED
      BY <1>1, <1>2, <2>1, <2>2
  <1> QED
    BY <1>1, <1>2, <1>3, <1>4 DEF Next

\* The inductive invariant holds in every state.
THEOREM Invariance == Spec => []Inv
  BY InitInv, StepInv, PTL DEF Spec

\* Under every interleaving the active generation carries exactly the executed
\* vouchers that its cutover lets in.
THEOREM BookAlwaysMatches == Spec => []BookMatchesExecuted
  <1>1. Inv => BookMatchesExecuted
    BY DEF Inv
  <1> QED
    BY <1>1, Invariance, PTL

\* What a request checked under its lock is still so when it commits.
THEOREM ChecksAlwaysHold == Spec => []ChecksStillHold
  <1>1. Inv => ChecksStillHold
    BY DEF Inv
  <1> QED
    BY <1>1, Invariance, PTL

\* A request commits at the revision its client named, on the voucher's row or on
\* the control row: nothing is written over a change the client has not seen.
THEOREM NoStaleCommits == Spec => []NoStaleCommit
  <1>1. Inv => NoStaleCommit
    <2> SUFFICES ASSUME Inv, NEW t \in Txs, pc[t] = "commit"
                 PROVE  rev[t] = IF op[t] \in VoucherOps THEN docs[doc[t]].rev ELSE control.rev
      BY DEF NoStaleCommit
    <2>1. CASE op[t] \in VoucherOps
      BY <2>1 DEF Inv, ChecksStillHold, HoldsVoucher, VoucherAllows
    <2>2. CASE op[t] \in LedgerOps
      <3>1. LedgerAllows(t) /\ op[t] \notin VoucherOps
        BY <2>2, CommitAllowed DEF Inv, LedgerOps, VoucherOps, EventOps
      <3> QED
        BY <2>2, <3>1 DEF LedgerAllows, LedgerOps
    <2>3. op[t] \in VoucherOps \cup LedgerOps
      BY DEF Inv, TypeOK, Points
    <2> QED
      BY <2>1, <2>2, <2>3
  <1> QED
    BY <1>1, Invariance, PTL

-----------------------------------------------------------------------------
(* No circular wait.                                                       *)

\* The converse of LocksHeld: the owner of a lock is past the check it took the
\* lock for, so no lock outlives its transaction.
OwnersHold ==
    /\ \A d \in Docs : docLock[d] # None =>
          HoldsVoucher(docLock[d]) /\ doc[docLock[d]] = d
    /\ ctlLock # None => pc[ctlLock] \in {"list", "commit"}

\* Ending a transaction gives back all it owned.
LEMMA ReleaseOwners ==
    ASSUME TypeOK, OwnersHold, NEW t \in Txs, Release(t)
    PROVE  OwnersHold'
  <1>1. ASSUME NEW d \in Docs, docLock'[d] # None
        PROVE  HoldsVoucher(docLock[d])' /\ doc'[docLock'[d]] = d
    <2>1. docLock'[d] = docLock[d] /\ docLock[d] \in Txs \ {t}
      BY <1>1 DEF Release, TypeOK
    <2> QED
      BY <1>1, <2>1, ReleaseSparesOthers DEF OwnersHold, HoldsVoucher
  <1>2. ASSUME ctlLock' # None
        PROVE  pc'[ctlLock'] \in {"list", "commit"}
    <2>1. ctlLock' = ctlLock /\ ctlLock \in Txs \ {t}
      BY <1>2 DEF Release, TypeOK
    <2> QED
      BY <1>2, <2>1, ReleaseSparesOthers DEF OwnersHold
  <1> QED
    BY <1>1, <1>2 DEF OwnersHold, HoldsVoucher

LEMMA StepOwners ==
    ASSUME TypeOK, OwnersHold, [Next]_vars
    PROVE  OwnersHold'
  <1> USE DEF rows, locks, txs
  <1>1. ASSUME NEW t \in Txs, NEW o \in VoucherOps, NEW d \in Docs,
               NEW r \in Named(docs[d].rev, MaxDocRev), BeginVoucher(t, o, d, r)
        PROVE  OwnersHold'
    BY <1>1, TxAssumption DEF BeginVoucher, OwnersHold, HoldsVoucher, TypeOK
  <1>2. ASSUME NEW t \in Txs, NEW o \in LedgerOps, NEW r \in Named(control.rev, MaxCtlRev),
               BeginLedger(t, o, r)
        PROVE  OwnersHold'
    BY <1>2, TxAssumption DEF BeginLedger, OwnersHold, HoldsVoucher, TypeOK
  <1>3. ASSUME NEW t \in Txs, LockVoucher(t)
        PROVE  OwnersHold'
    <2>1. /\ doc[t] \in Docs /\ op[t] \in VoucherOps
          /\ ctlLock # t
          /\ \A e \in Docs : docLock[e] # t
      BY <1>3, TxAssumption DEF LockVoucher, TypeOK, OwnersHold, HoldsVoucher
    <2> QED
      BY <1>3, <2>1, TxAssumption DEF LockVoucher, OwnersHold, HoldsVoucher, TypeOK
  <1>4. ASSUME NEW t \in Txs, LockControl(t)
        PROVE  OwnersHold'
    BY <1>4, TxAssumption DEF LockControl, OwnersHold, HoldsVoucher, TypeOK, VoucherOps, EventOps
  <1>5. ASSUME NEW t \in Txs, ListExecuted(t)
        PROVE  OwnersHold'
    BY <1>5, TxAssumption DEF ListExecuted, OwnersHold, HoldsVoucher, TypeOK
  <1>6. ASSUME NEW t \in Txs, RefuseVoucher(t) \/ RefuseControl(t) \/ Abort(t) \/ Commit(t)
        PROVE  OwnersHold'
    <2>1. Release(t)
      BY <1>6 DEF RefuseVoucher, RefuseControl, Abort, Commit, Committing, CommitApproval,
         CommitExecute, CommitUnexecute, CommitSave, CommitActivate, CommitReopen, CommitCancel
    <2> QED
      BY <2>1, ReleaseOwners
  <1>7. CASE UNCHANGED vars
    BY <1>7 DEF vars, OwnersHold, HoldsVoucher
  <1> QED
    BY <1>1, <1>2, <1>3, <1>4, <1>5, <1>6, <1>7 DEF Next, Step, TakeVoucher, TakeControl

\* However many requests run, one of any of them can go on: who waits for a
\* voucher waits for a request that is at the control row or beyond, and who
\* waits for the control row waits for one that waits for nobody.
THEOREM NobodyWaitsInACircle == Spec => []NoCircularWait
  <1>1. Init => OwnersHold
    BY DEF Init, OwnersHold
  <1>2. Inv /\ OwnersHold /\ [Next]_vars => OwnersHold'
    BY StepOwners DEF Inv
  <1>3. Inv /\ OwnersHold => NoCircularWait
    <2> SUFFICES ASSUME Inv, OwnersHold PROVE NoCircularWait
      OBVIOUS
    <2>1. ASSUME NEW t \in Txs, NEW u \in Txs, WaitsFor(t, u)
          PROVE  /\ pc[u] \in {"ctl", "list", "commit"}
                 /\ pc[t] = "ctl" => pc[u] # "ctl"
      <3>1. CASE pc[t] = "doc" /\ docLock[doc[t]] = u
        <4>1. doc[t] \in Docs
          BY <3>1 DEF Inv, TypeOK
        <4> QED
          BY <3>1, <4>1, TxAssumption DEF OwnersHold, HoldsVoucher
      <3>2. CASE pc[t] = "ctl" /\ ctlLock = u
        BY <3>2, TxAssumption DEF OwnersHold
      <3> QED
        BY <2>1, <3>1, <3>2 DEF WaitsFor
    <2>2. ASSUME NEW S \in SUBSET Txs, S # {}
          PROVE  \E t \in S : \A u \in S : ~WaitsFor(t, u)
      <3> SUFFICES ASSUME \A t \in S : \E u \in S : WaitsFor(t, u) PROVE FALSE
        OBVIOUS
      <3>1. PICK t \in S : TRUE
        BY <2>2
      <3>2. PICK u \in S : WaitsFor(t, u)
        OBVIOUS
      <3>3. PICK v \in S : WaitsFor(u, v)
        OBVIOUS
      <3>4. pc[u] = "ctl"
        BY <2>1, <3>2, <3>3 DEF WaitsFor
      <3>5. pc[v] \in {"list", "commit"}
        BY <2>1, <3>3, <3>4
      <3> QED
        BY <3>5 DEF WaitsFor
    <2> QED
      BY <2>1, <2>2 DEF NoCircularWait
  <1> QED
    BY <1>1, <1>2, <1>3, Invariance, PTL DEF Spec

-----------------------------------------------------------------------------
(* VouLedTx implements LedSync.                                            *)

\* Only commits are visible to LedSync, each as one of its steps: an approval
\* and the saving of an opening as a stutter.
LEMMA CommitRefines ==
    ASSUME Inv, NEW t \in Txs, Commit(t)
    PROVE  [Sync!Next]_Sync!vars
  <1> USE DEF Inv
  <1>1. CASE CommitApproval(t)
    BY <1>1, ApprovalKeepsExecuted DEF CommitApproval, Sync!vars
  <1>2. CASE CommitExecute(t)
    <2>1. control.status = "ACTIVE"
      BY <1>2, CommitAllowed DEF CommitExecute, Committing, LedgerAllows, EventOps
    <2>2. doc[t] \in Docs
      BY <1>2, VoucherCommit
    <2>3. Sync!Execute(doc[t])
      BY <1>2, <2>1, ExecuteAddsOne DEF CommitExecute, Sync!Execute
    <2> QED
      BY <2>2, <2>3 DEF Sync!Next
  <1>3. CASE CommitUnexecute(t)
    <2>1. \/ control.status = "DRAFT"
          \/ control.status = "ACTIVE" /\ doc[t] \in book
      BY <1>3, CommitAllowed DEF CommitUnexecute, Committing, LedgerAllows, EventOps
    <2>2. doc[t] \in Docs
      BY <1>3, VoucherCommit
    <2>3. CASE control.status = "DRAFT"
      <3>1. UNCHANGED book
        BY <1>3, <2>3 DEF CommitUnexecute, BookMatchesExecuted
      <3>2. Sync!UnexecuteBeforeLedger(doc[t])
        BY <1>3, <2>3, <3>1, UnexecuteDropsOne DEF CommitUnexecute, Sync!UnexecuteBeforeLedger
      <3> QED
        BY <2>2, <3>2 DEF Sync!Next
    <2>4. CASE control.status = "ACTIVE" /\ doc[t] \in book
      <3>1. Sync!Unexecute(doc[t])
        BY <1>3, <2>4, UnexecuteDropsOne DEF CommitUnexecute, Sync!Unexecute
      <3> QED
        BY <2>2, <3>1 DEF Sync!Next
    <2> QED
      BY <2>1, <2>3, <2>4
  <1>4. CASE \E from \in Cutovers : CommitSave(t, from)
    <2>1. control'.status = control.status /\ UNCHANGED <<docs, book>>
      BY <1>4 DEF CommitSave, MoveControl
    <2> QED
      BY <2>1 DEF ExecutedDocs, Sync!vars
  <1>5. CASE CommitActivate(t)
    <2>1. listed[t] = ExecutedDocs /\ ExecutedDocs' = ExecutedDocs
      BY <1>5 DEF CommitActivate, Committing, ChecksStillHold, ExecutedDocs
    <2>2. control.status \in {"DRAFT", "REOPENING"}
      BY <1>5, CommitAllowed DEF CommitActivate, Committing, LedgerAllows, LedgerOps
    <2>3. Sync!Activate(listed[t] \cap control.from)
      BY <1>5, <2>1, <2>2 DEF CommitActivate, MoveControl, Sync!Activate
    <2>4. listed[t] \cap control.from \in SUBSET Docs
      BY <2>1 DEF ExecutedDocs
    <2> QED
      BY <2>3, <2>4 DEF Sync!Next
  <1>6. CASE CommitReopen(t)
    <2>1. control.status = "ACTIVE"
      BY <1>6, CommitAllowed DEF CommitReopen, Committing, LedgerAllows, LedgerOps
    <2> QED
      BY <1>6, <2>1 DEF CommitReopen, MoveControl, ExecutedDocs, Sync!Reopen, Sync!Next
  <1>7. CASE CommitCancel(t)
    <2>1. control.status = "REOPENING"
      BY <1>7, CommitAllowed DEF CommitCancel, Committing, LedgerAllows, LedgerOps
    <2> QED
      BY <1>7, <2>1 DEF CommitCancel, MoveControl, ExecutedDocs, Sync!CancelReopen, Sync!Next
  <1> QED
    BY <1>1, <1>2, <1>3, <1>4, <1>5, <1>6, <1>7 DEF Commit

LEMMA StepRefines == Inv /\ [Next]_vars => [Sync!Next]_Sync!vars
  <1> SUFFICES ASSUME Inv, [Next]_vars PROVE [Sync!Next]_Sync!vars
    OBVIOUS
  <1>1. ASSUME NEW t \in Txs, Step(t), ~Commit(t)
        PROVE  UNCHANGED rows
    BY <1>1, QuietChecks DEF Step, Inv
  <1>2. CASE UNCHANGED rows
    BY <1>2 DEF rows, ExecutedDocs, Sync!vars
  <1>3. CASE UNCHANGED vars
    BY <1>2, <1>3 DEF vars
  <1> QED
    BY <1>1, <1>2, <1>3, CommitRefines DEF Next

\* Every interleaving of the transactions is a behavior of LedSync: a voucher
\* enters and leaves the book in the commit that executes and reverses it.
THEOREM Refinement == Spec => ImplementsLedSync
  <1>1. Init => Sync!Init
    BY DEF Init, Sync!Init, ExecutedDocs
  <1> QED
    BY <1>1, StepRefines, Invariance, PTL DEF Spec, Sync!Spec, ImplementsLedSync

\* No request that was under way when the ledger was reopened executes or
\* reverses a voucher afterwards.
THEOREM NothingMovesWhileReopened == Spec => FrozenWhileReopened
  <1> DEFINE Frozen == control.status = "REOPENING" /\ (control.status)' = "REOPENING"
                         => UNCHANGED <<ExecutedDocs, book>>
  <1>1. Inv /\ [Next]_vars => [Frozen]_Sync!vars
    <2> SUFFICES ASSUME Inv, [Next]_vars, ~UNCHANGED Sync!vars PROVE Frozen
      OBVIOUS
    <2>1. Sync!Next
      BY StepRefines
    <2> QED
      BY <2>1 DEF Sync!Next, Sync!Execute, Sync!Unexecute, Sync!UnexecuteBeforeLedger,
         Sync!Activate, Sync!Reopen, Sync!CancelReopen
  <1> QED
    BY <1>1, Invariance, PTL DEF Spec, FrozenWhileReopened, Sync!FrozenWhileReopened

-----------------------------------------------------------------------------
(* What every implementation of LedSync inherits.                          *)

LEMMA SyncStep ==
  Sync!TypeOK /\ Sync!BookWithinExecuted /\ [Sync!Next]_Sync!vars
      => (Sync!TypeOK /\ Sync!BookWithinExecuted)'
  <1> SUFFICES ASSUME Sync!TypeOK, Sync!BookWithinExecuted, [Sync!Next]_Sync!vars
               PROVE  (Sync!TypeOK /\ Sync!BookWithinExecuted)'
    OBVIOUS
  <1> USE DEF Sync!TypeOK, Sync!BookWithinExecuted, Sync!Modes
  <1>1. ASSUME NEW d \in Docs, Sync!Execute(d)
        PROVE  (Sync!TypeOK /\ Sync!BookWithinExecuted)'
    BY <1>1 DEF Sync!Execute
  <1>2. ASSUME NEW d \in Docs, Sync!Unexecute(d)
        PROVE  (Sync!TypeOK /\ Sync!BookWithinExecuted)'
    BY <1>2 DEF Sync!Unexecute
  <1>3. ASSUME NEW d \in Docs, Sync!UnexecuteBeforeLedger(d)
        PROVE  (Sync!TypeOK /\ Sync!BookWithinExecuted)'
    BY <1>3 DEF Sync!UnexecuteBeforeLedger
  <1>4. ASSUME NEW kept \in SUBSET Docs, Sync!Activate(kept)
        PROVE  (Sync!TypeOK /\ Sync!BookWithinExecuted)'
    BY <1>4 DEF Sync!Activate
  <1>5. CASE Sync!Reopen \/ Sync!CancelReopen \/ UNCHANGED Sync!vars
    BY <1>5 DEF Sync!Reopen, Sync!CancelReopen, Sync!vars
  <1> QED
    BY <1>1, <1>2, <1>3, <1>4, <1>5 DEF Sync!Next

\* Wherever LedSync is implemented, the book holds executed vouchers only, and
\* nothing until the ledger is first activated.
THEOREM BookAlwaysWithinExecuted == Sync!Spec => [](Sync!TypeOK /\ Sync!BookWithinExecuted)
  <1>1. Sync!Init => Sync!TypeOK /\ Sync!BookWithinExecuted
    BY DEF Sync!Init, Sync!TypeOK, Sync!BookWithinExecuted, Sync!Modes
  <1> QED
    BY <1>1, SyncStep, PTL DEF Sync!Spec
=============================================================================
