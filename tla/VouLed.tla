------------------------------- MODULE VouLed -------------------------------
(***************************************************************************)
(* Vouchers and ledger together.  A voucher's execution and reversal       *)
(* publish an event on the transactional bus; LED's subscriber runs in the *)
(* publisher's transaction, so the voucher's change and the ledger's are   *)
(* one step, or nothing happens at all (VouLedTx takes this step apart).   *)
(*                                                                         *)
(* Requests with a stale revision change nothing; they are the subject of  *)
(* VouClients, and here every request names the current revision.          *)
(* Attachments are left out (no document has any).                         *)
(***************************************************************************)
EXTENDS LedEntries, Sequences

CONSTANTS
    Docs,      \* voucher ids
    Databases, \* what the ledger may be installed over: functions from the
               \*   vouchers of one story to their rows, absent or executed
               \*   before the ledger existed
    Openings,  \* opening balances an administrator may enter
    MaxRev,    \* bounds for model checking: revisions,
    MaxGens,   \*   generations,
    MaxClock   \*   and ledger writes by vouchers

NoOpening == [dim \in Dims |-> 0]

\* A voucher's row.
Rows == [kind : Kinds, status : Statuses, rev : 0..MaxRev, data : Data \cup {NoData},
         attrs : {"complete", "noPosting", "noPersonnel"},
         exec : [date : Dates \cup {0}, moved : Nat, signed : Nat], at : Int,
         pending : {{}}, ready : {{}}]

\* Whatever a row has been through, an executed one reports an outcome the
\* execution handlers accept for what was ordered.
Sound(row) ==
    /\ row.status # "NONE" => row.data \in Data
    /\ row.status = "EXECUTED" => row.exec \in Outcomes(row)

ASSUME VouLedAssumption ==
    /\ NoDoc \notin Docs
    /\ \A database \in Databases :
         /\ DOMAIN database \subseteq Docs /\ IsFiniteSet(DOMAIN database)
         /\ database \in [DOMAIN database -> {row \in Rows : Sound(row)}]
    /\ \A o \in Openings : o \in [Dims -> Int] /\ o["stock"] >= 0
    /\ MaxRev \in Nat /\ MaxGens \in Nat /\ MaxClock \in Nat

VARIABLES
    docs,     \* vou_documents
    control,  \* led_control: status, cutover date (0 = NULL), active generation (0 = NULL)
    gens,     \* led_generations with their opening rows
    draft,    \* led_draft_*: the opening being edited
    entries,  \* led_*_entries
    clock     \* ledger writes by vouchers so far

vars == <<docs, control, gens, draft, entries, clock>>

TypeOK ==
    /\ DOMAIN docs \subseteq Docs
    /\ docs \in [DOMAIN docs -> Rows]
    /\ control \in [status : {"DRAFT", "ACTIVE", "REOPENING"},
                    cutover : Dates \cup {0}, active : 0..Len(gens)]
    /\ gens \in Seq([cutover : Dates, status : {"ACTIVE", "ARCHIVED"}, opening : Openings])
    /\ draft \in Openings \cup {NoOpening}
    /\ \A e \in entries :
         /\ e.gen \in 1..Len(gens)
         /\ e.type \in {"OPENING", "POSTING", "REVERSAL"}
         /\ e.doc \in Docs \cup {NoDoc}
         /\ e.dim \in Dims
         /\ e.delta # 0
    /\ clock \in 0..MaxClock

Init ==
    /\ docs \in Databases
    /\ control = [status |-> "DRAFT", cutover |-> 0, active |-> 0]
    /\ gens = <<>>
    /\ draft = NoOpening
    /\ entries = {}
    /\ clock = 0

ExecutedDocs == {d \in DOMAIN docs : docs[d].status = "EXECUTED"}

-----------------------------------------------------------------------------
(* Voucher handlers that LED does not hear of.                             *)

Write(d, row) ==
    /\ row.rev <= MaxRev
    /\ docs' = [docs EXCEPT ![d] = row]

LedgerUntouched == UNCHANGED <<control, gens, draft, entries, clock>>

Create(d, data) ==
    /\ docs[d].status = "NONE"
    /\ Write(d, Drafted(docs[d].kind, data))
    /\ LedgerUntouched

Save(d, data) ==
    /\ CanSave(docs[d], docs[d].rev)
    /\ Write(d, Saved(docs[d], data))
    /\ LedgerUntouched

Review(d) == CanReview(docs[d], docs[d].rev) /\ Write(d, Reviewed(docs[d])) /\ LedgerUntouched

Approve(d) == CanApprove(docs[d], docs[d].rev) /\ Write(d, Approved(docs[d])) /\ LedgerUntouched

Unreview(d) ==
    CanUnreview(docs[d], docs[d].rev) /\ Write(d, Unreviewed(docs[d])) /\ LedgerUntouched

Unapprove(d) ==
    CanUnapprove(docs[d], docs[d].rev) /\ Write(d, Unapproved(docs[d])) /\ LedgerUntouched

-----------------------------------------------------------------------------
(* Execution and reversal, with LED's subscriber in the same transaction.  *)

\* occurred_at of a posting is the start of the voucher's transaction, which
\* may lie before the previous ledger write; of a reversal, the wall clock
\* under the control lock.  Write n happens at time 2n.
StartTimes(n) == {2 * n, 2 * n - 3}

Tick == clock < MaxClock /\ clock' = clock + 1

\* HandleDocumentExecuted.
PostExecution_Mutant(d, row, at) ==
    /\ control.active # 0
    /\ CanPost(row, control.cutover, TRUE)
    /\ entries' = Insert(entries,
                      PostingsOf(control.active, d, row, row.rev, at, control.cutover))
    /\ ~NegativeTimeline(entries', control.active)
PostExecution(d, row, at) ==
    /\ control.status = "ACTIVE"
    /\ CanPost(row, control.cutover, TRUE)
    /\ LET posted == Insert(entries,
                        PostingsOf(control.active, d, row, row.rev, at, control.cutover))
       IN  /\ ~NegativeTimeline(posted, control.active)
           /\ entries' = posted

Execute(d, outcome, at) ==
    /\ CanExecute(docs[d], docs[d].rev)
    /\ Tick
    /\ LET row == Executed(docs[d], outcome, at)
       IN  PostExecution(d, row, at) /\ Write(d, row)
    /\ UNCHANGED <<control, gens, draft>>

\* HandleDocumentUnexecuted: nothing to do before the first activation;
\* otherwise the ledger must be active and know the voucher.
ReverseExecution_Mutant(d, row, at) ==
    /\ control.status = "ACTIVE"
    /\ Tick
    /\ HasEntriesForSource(entries, control.active, d)
    /\ entries' = entries \ LatestPostings(entries, control.active, d)
    /\ ~NegativeTimeline(entries', control.active)
ReverseExecution(d, row, at) ==
    \/ /\ control.status = "DRAFT"
       /\ control.active = 0
       /\ UNCHANGED <<entries, clock>>
    \/ /\ control.status = "ACTIVE"
       /\ Tick
       /\ HasEntriesForSource(entries, control.active, d)
       /\ LET reversed == Insert(entries,
                             ReversalsOf(entries, control.active, d, row.rev, at))
          IN  /\ ~NegativeTimeline(reversed, control.active)
              /\ entries' = reversed

Unexecute(d) ==
    /\ CanUnexecute(docs[d], docs[d].rev)
    /\ LET row == Unexecuted(docs[d])
       IN  ReverseExecution(d, row, 2 * (clock + 1)) /\ Write(d, row)
    /\ UNCHANGED <<control, gens, draft>>

-----------------------------------------------------------------------------
(* The ledger's own handlers.                                              *)

SaveOpening(cutover, opening) ==
    /\ control.status \in {"DRAFT", "REOPENING"}
    /\ control' = [control EXCEPT !.cutover = cutover]
    /\ draft' = opening
    /\ UNCHANGED <<docs, gens, entries, clock>>

\* preflightActivation: brokered sales from the cutover on need their price.
PricesKnown(cutover) ==
    \A d \in ExecutedDocs :
        docs[d].kind = "intermediary" /\ docs[d].data.date >= cutover
            => docs[d].attrs # "noPosting"

\* createOpeningGeneration and replayVouDocuments.
Rebuilt(g, cutover) ==
    OpeningOf(g, draft, cutover)
      \cup UNION {PostingsOf(g, d, docs[d], docs[d].rev, docs[d].at, cutover) : d \in ExecutedDocs}

\* ArchiveActiveLedGeneration, then the new generation.
Archived(gs) == [g \in DOMAIN gs |-> [gs[g] EXCEPT !.status = "ARCHIVED"]]

Activate ==
    LET g == Len(gens) + 1
        cutover == control.cutover
        rebuilt == Insert(entries, Rebuilt(g, cutover))
    IN  /\ control.status \in {"DRAFT", "REOPENING"}
        /\ cutover # 0
        /\ g <= MaxGens
        /\ PricesKnown(cutover)
        /\ \A d \in ExecutedDocs : CanPost(docs[d], cutover, FALSE)
        /\ ~NegativeTimeline(rebuilt, g)
        /\ entries' = rebuilt
        /\ gens' = Append(Archived(gens),
                          [cutover |-> cutover, status |-> "ACTIVE", opening |-> draft])
        /\ control' = [control EXCEPT !.status = "ACTIVE", !.active = g]
        /\ draft' = NoOpening
        /\ UNCHANGED <<docs, clock>>

Reopen ==
    /\ control.status = "ACTIVE"
    /\ draft' = gens[control.active].opening
    /\ control' = [control EXCEPT !.status = "REOPENING"]
    /\ UNCHANGED <<docs, gens, entries, clock>>

\* CancelLedReopen takes the cutover date back from the generation.
CancelReopen_Mutant ==
    /\ control.status = "REOPENING"
    /\ control' = [control EXCEPT !.status = "ACTIVE"]
    /\ draft' = NoOpening
    /\ UNCHANGED <<docs, gens, entries, clock>>
CancelReopen ==
    /\ control.status = "REOPENING"
    /\ control' = [control EXCEPT !.status = "ACTIVE", !.cutover = gens[control.active].cutover]
    /\ draft' = NoOpening
    /\ UNCHANGED <<docs, gens, entries, clock>>

Next ==
    \/ \E d \in DOMAIN docs :
          \/ \E data \in Data : Create(d, data) \/ Save(d, data)
          \/ Review(d)
          \/ Approve(d)
          \/ Unreview(d)
          \/ Unapprove(d)
          \/ \E outcome \in Outcomes(docs[d]), at \in StartTimes(clock + 1) :
                Execute(d, outcome, at)
          \/ Unexecute(d)
    \/ \E cutover \in Dates, opening \in Openings : SaveOpening(cutover, opening)
    \/ Activate
    \/ Reopen
    \/ CancelReopen

Spec == Init /\ [][Next]_vars

-----------------------------------------------------------------------------
(* Properties.                                                             *)

InGeneration(g) == {e \in entries : e.gen = g}

\* What the vouchers executed now change in one dimension on one date, read
\* from the vouchers alone: each effect on its own date, from the cutover on.
Effects(dim, date) ==
    SumOf(UNION {{[doc |-> d, delta |-> f.delta] :
                    f \in {f \in Flows(docs[d]) : f.dim = dim /\ f.date = date}} :
                 d \in ExecutedDocs})

ActiveGeneration == gens[control.active]

OpeningOn(dim, date) ==
    IF date = ActiveGeneration.cutover THEN ActiveGeneration.opening[dim] ELSE 0

CountedDates == {x \in Dates : x >= ActiveGeneration.cutover}

Balanced ==
    control.active # 0 =>
        \A dim \in Dims, date \in Dates :
            SumOf({e \in InGeneration(control.active) : e.dim = dim /\ e.date = date}) =
                IF date \in CountedDates THEN OpeningOn(dim, date) + Effects(dim, date) ELSE 0

\* The brokered sales there are, which can leave the live book out of step
\* (ReversalUndoesOnePosting).
Brokered == {d \in DOMAIN docs : docs[d].kind = "intermediary" /\ docs[d].status # "NONE"}

\* The ledger says what the vouchers say: whenever a generation is active, each
\* dimension changed on each date by exactly the opening plus the effects of
\* the vouchers that are executed now, whatever executions, reversals, reopens
\* and rebuilds led here (goods and cash; for brokered sales see below).
LedgerMatchesVouchers == Brokered = {} => Balanced

\* Strict stock (led.md section 4): the goods the executed vouchers have moved
\* since the cutover never exceed what the opening and the purchases up to the
\* same date brought in.
StockNeverNegative ==
    control.active # 0 =>
        \A date \in CountedDates :
            SumFunctionOnSet([x \in CountedDates |-> OpeningOn("stock", x) + Effects("stock", x)],
                             {x \in CountedDates : x <= date}) >= 0

UndoesOnePosting(r) ==
    \E p \in entries :
        p = [r EXCEPT !.type = "POSTING", !.rev = r.rev - 1, !.delta = -r.delta, !.at = p.at]

Reversals == {e \in entries : e.type = "REVERSAL"}

\* A reversal undoes one posting: same voucher, dimension and date, opposite
\* change, the next revision; so no posting is reversed twice (led.md 2.2).
ReversalUndoesOnePosting == \A r \in Reversals : UndoesOnePosting(r)

\* The same, for the kinds whose every execution posts something.
GoodsAndCashReversedOnce == \A r \in Reversals : r.doc \notin Brokered => UndoesOnePosting(r)

\* The control row and the generations agree: at most one generation is active,
\* it is the one the control row names, and an active ledger works with that
\* generation's cutover date and holds no left-over opening draft.
ControlMatchesGenerations ==
    /\ \A g \in DOMAIN gens : gens[g].status = "ACTIVE" <=> g = control.active
    /\ control.status = "DRAFT" <=> control.active = 0
    /\ control.status = "ACTIVE" =>
         /\ control.cutover = gens[control.active].cutover
         /\ draft = NoOpening

\* The ledger is append-only, and an archived generation is closed: what is
\* added belongs to the generation that is active afterwards.
AppendsToActiveOnly ==
    [][/\ entries \subseteq entries'
       /\ \A e \in entries' \ entries : e.gen = control'.active]_vars

\* The vouchers whose effects the active generation carries: their latest
\* posting has not been reversed.
Booked ==
    {d \in DOMAIN docs :
        LET source == OfSource(entries, control.active, d)
        IN  \E p \in source : p.type = "POSTING" /\
                \A r \in source : r.type = "REVERSAL" => r.rev < p.rev}

Sync == INSTANCE LedSync WITH
    mode <- control.status, executed <- ExecutedDocs \ Brokered, book <- Booked \ Brokered

\* The whole machinery keeps LedSync's promise for goods and cash vouchers.
ImplementsLedSync == Sync!Spec
=============================================================================
