-------------------------- MODULE VouClients_proofs --------------------------
(***************************************************************************)
(* Proofs about VouClients, for any number of documents, clients, files,   *)
(* attachment slots and revisions.                                         *)
(*                                                                         *)
(* The argument has two halves.  A client's copy is never newer than the   *)
(* row, and one at the row's revision shows the row's content (Views): so  *)
(* a mutation that names the row's revision replaces what its author saw.  *)
(* And a file belongs to one document and is not being uploaded once it is *)
(* ready (FilesApart): so nothing is pending, and no upload under way can  *)
(* end in a document, once that document has been reviewed.                *)
(***************************************************************************)
EXTENDS VouClients, TLAPS

Outcome == [date : Dates \cup {0}, moved : Nat, signed : Nat]

\* The shape of a row and of every copy of one.
Row == [kind : Kinds, status : Statuses, rev : Nat, data : Data \cup {NoData},
        attrs : {"complete", "noPosting", "noPersonnel"}, exec : Outcome, at : {0},
        pending : SUBSET Files, ready : SUBSET Files]

Views ==
    /\ view \in [Clients -> [Docs -> Row]]
    /\ \A c \in Clients, d \in Docs :
         /\ view[c][d].rev <= docs[d].rev
         /\ view[c][d].rev = docs[d].rev => SameContent(view[c][d], docs[d])

FilesApart ==
    \A d \in Docs :
        /\ uploading \cap docs[d].ready = {}
        /\ \A e \in Docs \ {d} : Linked(docs[d]) \cap Linked(docs[e]) = {}

InReview == {"REVIEWED", "APPROVED", "EXECUTED"}

IInv == TypeOK /\ Views /\ FilesApart /\ NothingPendingOnceReviewed

-----------------------------------------------------------------------------
(* The rows the handlers leave.                                            *)

\* What Moved, and every handler built on it alone, does to a row.
LEMMA MovedRow ==
    ASSUME NEW r \in Row, NEW s \in Statuses
    PROVE  /\ Moved(r, s) \in Row
           /\ Moved(r, s).status = s
           /\ Moved(r, s).rev = r.rev + 1
           /\ Moved(r, s).data = r.data /\ Moved(r, s).exec = r.exec
           /\ Moved(r, s).pending = r.pending /\ Moved(r, s).ready = r.ready
  <1> DEFINE n == r.rev + 1
  <1>1. n \in Nat
    BY DEF Row
  <1>2. Moved(r, s) = [r EXCEPT !.status = s, !.rev = n]
    BY DEF Moved
  <1>3. n = r.rev + 1
    OBVIOUS
  <1> HIDE DEF n
  <1>4. /\ [r EXCEPT !.status = s, !.rev = n] \in Row
        /\ [r EXCEPT !.status = s, !.rev = n].status = s
        /\ [r EXCEPT !.status = s, !.rev = n].rev = n
        /\ [r EXCEPT !.status = s, !.rev = n].data = r.data
        /\ [r EXCEPT !.status = s, !.rev = n].exec = r.exec
        /\ [r EXCEPT !.status = s, !.rev = n].pending = r.pending
        /\ [r EXCEPT !.status = s, !.rev = n].ready = r.ready
    BY <1>1 DEF Row
  <1> QED
    BY <1>2, <1>3, <1>4

LEMMA SavedRow ==
    ASSUME NEW r \in Row, NEW data \in Data
    PROVE  /\ Saved(r, data) \in Row
           /\ Saved(r, data).status = "DRAFT"
           /\ Saved(r, data).rev = r.rev + 1
           /\ Saved(r, data).data = data
           /\ Saved(r, data).exec = r.exec
           /\ Saved(r, data).pending = r.pending
           /\ Saved(r, data).ready = r.ready
  <1> DEFINE m == Moved(r, "DRAFT")
  <1>1. /\ m \in Row /\ m.status = "DRAFT" /\ m.rev = r.rev + 1 /\ m.data = r.data
        /\ m.exec = r.exec /\ m.pending = r.pending /\ m.ready = r.ready
    BY MovedRow DEF Statuses
  <1>2. Saved(r, data) = [m EXCEPT !.data = data, !.attrs = "complete"]
    BY DEF Saved
  <1> HIDE DEF m
  <1> QED
    BY <1>1, <1>2 DEF Row

LEMMA ExecutedRow ==
    ASSUME NEW r \in Row, NEW e \in Outcome
    PROVE  /\ Executed(r, e, 0) \in Row
           /\ Executed(r, e, 0).status = "EXECUTED"
           /\ Executed(r, e, 0).rev = r.rev + 1
           /\ Executed(r, e, 0).data = r.data
           /\ Executed(r, e, 0).exec = e
           /\ Executed(r, e, 0).pending = r.pending
           /\ Executed(r, e, 0).ready = r.ready
  <1> DEFINE m == Moved(r, "EXECUTED")
  <1>1. /\ m \in Row /\ m.status = "EXECUTED" /\ m.rev = r.rev + 1 /\ m.data = r.data
        /\ m.exec = r.exec /\ m.pending = r.pending /\ m.ready = r.ready
    BY MovedRow DEF Statuses
  <1>2. Executed(r, e, 0) = [m EXCEPT !.exec = e, !.at = 0]
    BY DEF Executed
  <1> HIDE DEF m
  <1> QED
    BY <1>1, <1>2 DEF Row

LEMMA UnexecutedRow ==
    ASSUME NEW r \in Row
    PROVE  /\ Unexecuted(r) \in Row
           /\ Unexecuted(r).status = "APPROVED"
           /\ Unexecuted(r).rev = r.rev + 1
           /\ Unexecuted(r).data = r.data
           /\ Unexecuted(r).exec = NoExec
           /\ Unexecuted(r).pending = r.pending
           /\ Unexecuted(r).ready = r.ready
  <1> DEFINE m == Moved(r, "APPROVED")
  <1>1. /\ m \in Row /\ m.status = "APPROVED" /\ m.rev = r.rev + 1 /\ m.data = r.data
        /\ m.exec = r.exec /\ m.pending = r.pending /\ m.ready = r.ready
    BY MovedRow DEF Statuses
  <1>2. Unexecuted(r) = [m EXCEPT !.exec = NoExec, !.at = 0]
    BY DEF Unexecuted
  <1>3. NoExec \in Outcome
    BY DEF NoExec, Outcome
  <1> HIDE DEF m
  <1> QED
    BY <1>1, <1>2, <1>3 DEF Row

LEMMA InitiatedRow ==
    ASSUME NEW r \in Row, NEW f \in Files
    PROVE  /\ Initiated(r, f) \in Row
           /\ Initiated(r, f).status = "DRAFT"
           /\ Initiated(r, f).rev = r.rev + 1
           /\ Initiated(r, f).data = r.data
           /\ Initiated(r, f).exec = r.exec
           /\ Initiated(r, f).pending = r.pending \cup {f}
           /\ Initiated(r, f).ready = r.ready
  <1> DEFINE m == Moved(r, "DRAFT")
  <1>1. /\ m \in Row /\ m.status = "DRAFT" /\ m.rev = r.rev + 1 /\ m.data = r.data
        /\ m.exec = r.exec /\ m.pending = r.pending /\ m.ready = r.ready
    BY MovedRow DEF Statuses
  <1>2. Initiated(r, f) = [m EXCEPT !.pending = m.pending \cup {f}]
    BY DEF Initiated
  <1> HIDE DEF m
  <1> QED
    BY <1>1, <1>2 DEF Row

LEMMA RemovedRow ==
    ASSUME NEW r \in Row, NEW f \in Files
    PROVE  /\ Removed(r, f) \in Row
           /\ Removed(r, f).status = "DRAFT"
           /\ Removed(r, f).rev = r.rev + 1
           /\ Removed(r, f).data = r.data
           /\ Removed(r, f).exec = r.exec
           /\ Removed(r, f).pending = r.pending \ {f}
           /\ Removed(r, f).ready = r.ready \ {f}
  <1> DEFINE m == Moved(r, "DRAFT")
  <1>1. /\ m \in Row /\ m.status = "DRAFT" /\ m.rev = r.rev + 1 /\ m.data = r.data
        /\ m.exec = r.exec /\ m.pending = r.pending /\ m.ready = r.ready
    BY MovedRow DEF Statuses
  <1>2. Removed(r, f) = [m EXCEPT !.pending = m.pending \ {f}, !.ready = m.ready \ {f}]
    BY DEF Removed
  <1> HIDE DEF m
  <1> QED
    BY <1>1, <1>2 DEF Row

LEMMA AbsentRow ==
    ASSUME NEW k \in Kinds
    PROVE  /\ Absent(k) \in Row
           /\ Absent(k).status = "NONE" /\ Absent(k).rev = 0 /\ Absent(k).data = NoData
           /\ Absent(k).exec = NoExec /\ Absent(k).pending = {} /\ Absent(k).ready = {}
  BY DEF Absent, Row, Statuses, NoExec, Outcome

LEMMA DraftedRow ==
    ASSUME NEW k \in Kinds, NEW data \in Data
    PROVE  /\ Drafted(k, data) \in Row
           /\ Drafted(k, data).status = "DRAFT" /\ Drafted(k, data).rev = 1
           /\ Drafted(k, data).pending = {} /\ Drafted(k, data).ready = {}
  <1> DEFINE a == Absent(k)
  <1>1. a \in Row /\ a.pending = {} /\ a.ready = {}
    BY AbsentRow
  <1>2. Drafted(k, data) = [a EXCEPT !.status = "DRAFT", !.rev = 1, !.data = data]
    BY DEF Drafted
  <1>3. "DRAFT" \in Statuses /\ 1 \in Nat
    BY DEF Statuses
  <1> HIDE DEF a
  <1> QED
    BY <1>1, <1>2, <1>3 DEF Row

\* What a request reports of an execution is an outcome.
LEMMA OutcomeType ==
    ASSUME NEW r \in Row
    PROVE  Outcomes(r) \subseteq Outcome
  <1>1. GoodsDates(r) \subseteq Dates
    BY DEF GoodsDates
  <1>2. r.data.qty \in Nat
    <2>1. r.data \in Data \cup {NoData}
      BY DEF Row
    <2>2. \A x \in Data : x.qty \in Nat
      BY DocumentAssumption DEF Data
    <2>3. NoData.qty \in Nat
      BY DEF NoData
    <2> QED
      BY <2>1, <2>2, <2>3
  <1>3. 1..r.data.qty \subseteq Nat /\ 0..r.data.qty \subseteq Nat
    BY <1>2
  <1>4. NoExec \in Outcome
    BY DEF NoExec, Outcome
  <1> QED
    BY <1>1, <1>3, <1>4 DEF Outcomes, SaleOutcomes, PurchaseOutcomes, Outcome

-----------------------------------------------------------------------------
(* What is common to the steps.                                            *)

\* The rows of the table have the shape of a copy.
LEMMA RowsAreRows == ASSUME TypeOK PROVE docs \in [Docs -> Row]
  <1>1. 0..MaxRev \subseteq Nat
    BY ClientsAssumption
  <1> QED
    BY <1>1 DEF TypeOK, Row, Outcome

\* A row may be replaced by a well-formed one.
LEMMA ReplacedType ==
    ASSUME TypeOK, NEW d \in Docs, NEW row \in Row, row.rev <= MaxRev,
           docs' = [docs EXCEPT ![d] = row],
           row.pending \cap row.ready = {}, Linked(row) \subseteq issued',
           issued \subseteq issued', issued' \subseteq Files,
           uploading' \subseteq issued', row.status = "NONE" <=> row.rev = 0,
           DOMAIN view' = Clients, \A c \in Clients : DOMAIN view'[c] = Docs
    PROVE  TypeOK'
  <1>1. row.rev \in 0..MaxRev
    BY ClientsAssumption DEF Row
  <1>2. row \in [kind : Kinds, status : Statuses, rev : 0..MaxRev, data : Data \cup {NoData},
                 attrs : {"complete", "noPosting", "noPersonnel"},
                 exec : [date : Dates \cup {0}, moved : Nat, signed : Nat], at : {0},
                 pending : SUBSET Files, ready : SUBSET Files]
    BY <1>1 DEF Row, Outcome
  <1>3. docs' \in [Docs ->
         [kind : Kinds, status : Statuses, rev : 0..MaxRev, data : Data \cup {NoData},
          attrs : {"complete", "noPosting", "noPersonnel"},
          exec : [date : Dates \cup {0}, moved : Nat, signed : Nat], at : {0},
          pending : SUBSET Files, ready : SUBSET Files]]
    BY <1>2 DEF TypeOK
  <1>4. ASSUME NEW e \in Docs
        PROVE  /\ docs'[e].pending \cap docs'[e].ready = {}
               /\ Linked(docs'[e]) \subseteq issued'
               /\ docs'[e].status = "NONE" <=> docs'[e].rev = 0
    <2>1. CASE e = d
      BY <2>1 DEF TypeOK
    <2>2. CASE e # d
      BY <2>2 DEF TypeOK
    <2> QED
      BY <2>1, <2>2
  <1> QED
    BY <1>3, <1>4 DEF TypeOK

\* A mutation whose author's copy showed the row keeps the copies honest, and
\* its author saw what it replaced.
LEMMA CommitViews ==
    ASSUME TypeOK, Views, NEW c \in Clients, NEW d \in Docs, NEW row \in Row, NEW copy \in Row,
           Commit(c, d, row, copy), row.rev = docs[d].rev + 1,
           copy.rev = row.rev, SameContent(copy, row)
    PROVE  /\ Views'
           /\ view'[c][d].rev = docs'[d].rev
           /\ SameContent(view'[c][d], docs'[d])
           /\ \A e \in Docs \ {d} : docs'[e] = docs[e]
  <1>1. docs \in [Docs -> Row] /\ docs' = [docs EXCEPT ![d] = row]
    BY RowsAreRows DEF Commit
  <1>2. view' = [view EXCEPT ![c][d] = copy]
    BY DEF Commit
  <1>3. view' \in [Clients -> [Docs -> Row]]
    BY <1>2 DEF Views
  <1>4. ASSUME NEW b \in Clients, NEW e \in Docs
        PROVE  /\ view'[b][e].rev <= docs'[e].rev
               /\ view'[b][e].rev = docs'[e].rev => SameContent(view'[b][e], docs'[e])
    <2>1. view[b][e].rev \in Nat /\ docs[e].rev \in Nat
      BY <1>1 DEF Views, Row
    <2>2. CASE e # d
      BY <1>1, <1>2, <2>2 DEF Views
    <2>3. CASE e = d /\ b = c
      <3>1. view'[b][e] = copy /\ docs'[e] = row
        BY <1>1, <1>2, <2>3 DEF Views
      <3> QED
        BY <3>1, <2>1, <2>3
    <2>4. CASE e = d /\ b # c
      <3>1. view'[b][e] = view[b][e] /\ docs'[e] = row
        BY <1>1, <1>2, <2>4 DEF Views
      <3>2. view[b][e].rev <= docs[e].rev
        BY DEF Views
      <3> QED
        BY <3>1, <3>2, <2>1, <2>4
    <2> QED
      BY <2>2, <2>3, <2>4
  <1> QED
    BY <1>1, <1>2, <1>3, <1>4 DEF Views

\* What every mutation is: its author saw the row it replaces, its copy follows
\* the row, it links only files never issued before, and it leaves what is
\* under review alone.
Mutation(c, d, row, copy) ==
    /\ Commit(c, d, row, copy)
    /\ row.rev = docs[d].rev + 1 /\ copy.rev = row.rev
    /\ SameContent(view[c][d], docs[d]) /\ SameContent(copy, row)
    /\ row.status # "NONE" /\ row.pending \cap row.ready = {}
    /\ Linked(row) \subseteq Linked(docs[d]) \cup (issued' \ issued)
    /\ issued \subseteq issued' /\ issued' \subseteq Files /\ uploading' = uploading
    /\ row.ready \subseteq docs[d].ready
    /\ row.status \in InReview => row.pending = {}
    /\ docs[d].status \in InReview /\ row.status # "DRAFT" =>
         row.data = docs[d].data /\ row.pending = docs[d].pending /\ row.ready = docs[d].ready

LEMMA CommitInvariant ==
    ASSUME IInv, NEW c \in Clients, NEW d \in Docs, NEW row \in Row, NEW copy \in Row,
           Mutation(c, d, row, copy)
    PROVE  IInv'
  <1> USE DEF IInv, Mutation
  <1>1. docs \in [Docs -> Row] /\ docs' = [docs EXCEPT ![d] = row] /\ row.rev <= MaxRev
    BY RowsAreRows DEF Commit
  <1>2. Linked(row) \subseteq issued'
    BY DEF TypeOK
  <1>3. row.rev # 0
    BY <1>1 DEF Row
  <1>4. DOMAIN view' = Clients /\ \A b \in Clients : DOMAIN view'[b] = Docs
    BY DEF Commit, Views
  <1>5. TypeOK'
    BY <1>1, <1>2, <1>3, <1>4, ReplacedType DEF TypeOK
  <1>6. FilesApart'
    <2>1. ASSUME NEW e \in Docs
          PROVE  uploading' \cap docs'[e].ready = {}
      BY <1>1 DEF FilesApart
    <2>2. ASSUME NEW e \in Docs, NEW g \in Docs, e # g
          PROVE  Linked(docs'[e]) \cap Linked(docs'[g]) = {}
      <3>1. Linked(docs[g]) \subseteq issued /\ Linked(docs[e]) \subseteq issued
        BY DEF TypeOK
      <3>2. Linked(docs[e]) \cap Linked(docs[g]) = {}
        BY <2>2 DEF FilesApart
      <3>3. CASE e = d
        BY <1>1, <2>2, <3>1, <3>2, <3>3
      <3>4. CASE g = d
        BY <1>1, <2>2, <3>1, <3>2, <3>4
      <3>5. CASE e # d /\ g # d
        BY <1>1, <3>2, <3>5
      <3> QED
        BY <3>3, <3>4, <3>5
    <2> QED
      BY <2>1, <2>2 DEF FilesApart
  <1>7. NothingPendingOnceReviewed'
    <2>1. row.status \in InReview => row.pending = {} /\ uploading \cap Linked(row) = {}
      BY DEF FilesApart, Linked
    <2> QED
      BY <1>1, <2>1 DEF NothingPendingOnceReviewed, InReview
  <1> QED
    BY <1>5, <1>6, <1>7, CommitViews


\* A client that names the row's revision has seen the row.
LEMMA AtRevision ==
    ASSUME IInv, NEW c \in Clients, NEW d \in Docs
    PROVE  /\ docs[d] \in Row /\ view[c][d] \in Row
           /\ docs[d].pending \cap docs[d].ready = {}
           /\ docs[d].rev = view[c][d].rev => SameContent(view[c][d], docs[d])
  BY RowsAreRows DEF IInv, Views, TypeOK

\* A mutation that leaves the links alone.
LEMMA LinksKept ==
    ASSUME IInv, NEW c \in Clients, NEW d \in Docs, NEW row \in Row, NEW copy \in Row,
           Commit(c, d, row, copy), UNCHANGED <<uploading, issued>>,
           docs[d].rev = view[c][d].rev,
           row.rev = docs[d].rev + 1, copy.rev = view[c][d].rev + 1, SameContent(copy, row),
           row.status # "NONE", row.pending = docs[d].pending, row.ready = docs[d].ready,
           docs[d].status \in InReview => row.data = docs[d].data,
           row.status \in InReview => docs[d].pending = {}
    PROVE  Mutation(c, d, row, copy)
  BY AtRevision DEF IInv, TypeOK, Mutation, Linked

LEMMA SaveMutation ==
    ASSUME IInv, NEW c \in Clients, NEW d \in Docs, NEW data \in Data, Save(c, d, data)
    PROVE  \E row, copy \in Row : Mutation(c, d, row, copy)
  <1> DEFINE row == Saved(docs[d], data)  copy == Saved(view[c][d], data)
  <1>1. /\ docs[d].status = "DRAFT" /\ docs[d].rev = view[c][d].rev
        /\ Commit(c, d, row, copy) /\ UNCHANGED <<uploading, issued>>
    BY DEF Save, CanSave, IsAt
  <1>2. SameContent(view[c][d], docs[d]) /\ docs[d] \in Row /\ view[c][d] \in Row
    BY <1>1, AtRevision
  <1>3. /\ row \in Row /\ copy \in Row /\ row.status = "DRAFT"
        /\ row.rev = docs[d].rev + 1 /\ copy.rev = view[c][d].rev + 1
        /\ row.pending = docs[d].pending /\ row.ready = docs[d].ready
        /\ SameContent(copy, row)
    BY <1>2, SavedRow DEF SameContent
  <1> HIDE DEF row, copy
  <1> QED
    BY <1>1, <1>3, LinksKept DEF InReview

\* Review, approval and their reversals move the status and nothing else.
LEMMA LifecycleMutation ==
    ASSUME IInv, NEW c \in Clients, NEW d \in Docs,
           Review(c, d) \/ Approve(c, d) \/ Unreview(c, d) \/ Unapprove(c, d)
    PROVE  \E row, copy \in Row : Mutation(c, d, row, copy)
  <1>1. ASSUME NEW s \in Statuses, s # "NONE", docs[d].rev = view[c][d].rev,
               Commit(c, d, Moved(docs[d], s), Moved(view[c][d], s)), UNCHANGED <<uploading, issued>>,
               s \in InReview => docs[d].pending = {}
        PROVE  \E row, copy \in Row : Mutation(c, d, row, copy)
    <2> DEFINE row == Moved(docs[d], s)  copy == Moved(view[c][d], s)
    <2>1. SameContent(view[c][d], docs[d]) /\ docs[d] \in Row /\ view[c][d] \in Row
      BY <1>1, AtRevision
    <2>2. /\ row \in Row /\ copy \in Row /\ row.status = s /\ row.data = docs[d].data
          /\ row.rev = docs[d].rev + 1 /\ copy.rev = view[c][d].rev + 1
          /\ row.pending = docs[d].pending /\ row.ready = docs[d].ready
          /\ SameContent(copy, row)
      BY <2>1, MovedRow DEF SameContent
    <2> HIDE DEF row, copy
    <2>3. Commit(c, d, row, copy)
      BY <1>1 DEF row, copy
    <2> QED
      BY <1>1, <2>2, <2>3, LinksKept
  <1>2. docs[d].status \in InReview => docs[d].pending = {}
    BY DEF IInv, NothingPendingOnceReviewed, InReview
  <1>3. CASE Review(c, d)
    BY <1>1, <1>3 DEF Review, CanReview, IsAt, Reviewed, Statuses
  <1>4. CASE Approve(c, d)
    BY <1>1, <1>2, <1>4 DEF Approve, CanApprove, IsAt, Approved, Statuses, InReview
  <1>5. CASE Unreview(c, d)
    BY <1>1, <1>5 DEF Unreview, CanUnreview, IsAt, Unreviewed, Statuses, InReview
  <1>6. CASE Unapprove(c, d)
    BY <1>1, <1>2, <1>6 DEF Unapprove, CanUnapprove, IsAt, Unapproved, Statuses, InReview
  <1> QED
    BY <1>3, <1>4, <1>5, <1>6

LEMMA ExecuteMutation ==
    ASSUME IInv, NEW c \in Clients, NEW d \in Docs, NEW outcome, Execute(c, d, outcome)
    PROVE  \E row, copy \in Row : Mutation(c, d, row, copy)
  <1> DEFINE row == Executed(docs[d], outcome, 0)  copy == Executed(view[c][d], outcome, 0)
  <1>1. /\ docs[d].status = "APPROVED" /\ docs[d].rev = view[c][d].rev
        /\ Commit(c, d, row, copy) /\ UNCHANGED <<uploading, issued>>
        /\ outcome \in Outcomes(docs[d])
    BY DEF Execute, CanExecute, IsAt
  <1>2. SameContent(view[c][d], docs[d]) /\ docs[d] \in Row /\ view[c][d] \in Row
    BY <1>1, AtRevision
  <1>3. outcome \in Outcome
    BY <1>1, <1>2, OutcomeType
  <1>4. /\ row \in Row /\ copy \in Row /\ row.status = "EXECUTED" /\ row.data = docs[d].data
        /\ row.rev = docs[d].rev + 1 /\ copy.rev = view[c][d].rev + 1
        /\ row.pending = docs[d].pending /\ row.ready = docs[d].ready
        /\ SameContent(copy, row)
    BY <1>2, <1>3, ExecutedRow DEF SameContent
  <1>5. docs[d].pending = {}
    BY <1>1 DEF IInv, NothingPendingOnceReviewed
  <1> HIDE DEF row, copy
  <1> QED
    BY <1>1, <1>4, <1>5, LinksKept

LEMMA UnexecuteMutation ==
    ASSUME IInv, NEW c \in Clients, NEW d \in Docs, Unexecute(c, d)
    PROVE  \E row, copy \in Row : Mutation(c, d, row, copy)
  <1> DEFINE row == Unexecuted(docs[d])  copy == Unexecuted(view[c][d])
  <1>1. /\ docs[d].status = "EXECUTED" /\ docs[d].rev = view[c][d].rev
        /\ Commit(c, d, row, copy) /\ UNCHANGED <<uploading, issued>>
    BY DEF Unexecute, CanUnexecute, IsAt
  <1>2. SameContent(view[c][d], docs[d]) /\ docs[d] \in Row /\ view[c][d] \in Row
    BY <1>1, AtRevision
  <1>3. /\ row \in Row /\ copy \in Row /\ row.status = "APPROVED" /\ row.data = docs[d].data
        /\ row.rev = docs[d].rev + 1 /\ copy.rev = view[c][d].rev + 1
        /\ row.pending = docs[d].pending /\ row.ready = docs[d].ready
        /\ SameContent(copy, row)
    BY <1>2, UnexecutedRow DEF SameContent
  <1>4. docs[d].pending = {}
    BY <1>1 DEF IInv, NothingPendingOnceReviewed
  <1> HIDE DEF row, copy
  <1> QED
    BY <1>1, <1>3, <1>4, LinksKept

\* A client's first copy of a document that does not exist is of revision 0.
LEMMA CreateMutation ==
    ASSUME IInv, NEW c \in Clients, NEW d \in Docs, NEW data \in Data, Create(c, d, data)
    PROVE  \E row, copy \in Row : Mutation(c, d, row, copy)
  <1> DEFINE row == Drafted(KindOf[d], data)
  <1>1. /\ docs[d].status = "NONE" /\ Commit(c, d, row, row) /\ UNCHANGED <<uploading, issued>>
    BY DEF Create
  <1>2. docs[d].rev = 0
    BY <1>1 DEF IInv, TypeOK
  <1>3. view[c][d].rev \in Nat /\ view[c][d].rev <= docs[d].rev
    BY AtRevision DEF IInv, Views, Row
  <1>4. SameContent(view[c][d], docs[d])
    BY <1>2, <1>3, AtRevision
  <1>5. KindOf[d] \in Kinds
    BY ClientsAssumption
  <1>6. /\ row \in Row /\ row.status = "DRAFT" /\ row.rev = 1
        /\ row.pending = {} /\ row.ready = {}
    BY <1>5, DraftedRow
  <1>7. SameContent(row, row)
    BY DEF SameContent
  <1> HIDE DEF row
  <1>8. Mutation(c, d, row, row)
    BY <1>1, <1>2, <1>4, <1>6, <1>7 DEF Mutation, InReview, Linked, IInv, TypeOK
  <1> QED
    BY <1>6, <1>8

LEMMA AttachmentMutation ==
    ASSUME IInv, NEW c \in Clients, NEW d \in Docs, NEW f \in Files,
           InitiateAttachment(c, d, f) \/ RemoveAttachment(c, d, f)
    PROVE  \E row, copy \in Row : Mutation(c, d, row, copy)
  <1>1. docs[d].status = "DRAFT" /\ docs[d].rev = view[c][d].rev
    BY DEF InitiateAttachment, RemoveAttachment, CanInitiate, CanRemove, IsAt
  <1>2. /\ SameContent(view[c][d], docs[d]) /\ docs[d] \in Row /\ view[c][d] \in Row
        /\ docs[d].pending \cap docs[d].ready = {}
    BY <1>1, AtRevision
  <1>3. Linked(docs[d]) \subseteq issued /\ issued \subseteq Files
    BY DEF IInv, TypeOK
  <1>4. CASE InitiateAttachment(c, d, f)
    <2> DEFINE row == Initiated(docs[d], f)  copy == Initiated(view[c][d], f)
    <2>1. /\ Commit(c, d, row, copy) /\ f \notin issued
          /\ issued' = issued \cup {f} /\ uploading' = uploading
      BY <1>4 DEF InitiateAttachment
    <2>2. /\ row \in Row /\ copy \in Row /\ row.status = "DRAFT"
          /\ row.rev = docs[d].rev + 1 /\ copy.rev = view[c][d].rev + 1
          /\ row.pending = docs[d].pending \cup {f} /\ row.ready = docs[d].ready
          /\ SameContent(copy, row)
      BY <1>2, InitiatedRow DEF SameContent
    <2> HIDE DEF row, copy
    <2>3. row.pending \cap row.ready = {}
      BY <1>2, <1>3, <2>1, <2>2 DEF Linked
    <2>4. Mutation(c, d, row, copy)
      BY <1>1, <1>2, <1>3, <2>1, <2>2, <2>3 DEF Mutation, InReview, Linked
    <2> QED
      BY <2>2, <2>4
  <1>5. CASE RemoveAttachment(c, d, f)
    <2> DEFINE row == Removed(docs[d], f)  copy == Removed(view[c][d], f)
    <2>1. Commit(c, d, row, copy) /\ issued' = issued /\ uploading' = uploading
      BY <1>5 DEF RemoveAttachment
    <2>2. /\ row \in Row /\ copy \in Row /\ row.status = "DRAFT"
          /\ row.rev = docs[d].rev + 1 /\ copy.rev = view[c][d].rev + 1
          /\ row.pending = docs[d].pending \ {f} /\ row.ready = docs[d].ready \ {f}
          /\ SameContent(copy, row)
      BY <1>2, RemovedRow DEF SameContent
    <2> HIDE DEF row, copy
    <2>3. Mutation(c, d, row, copy)
      BY <1>1, <1>2, <1>3, <2>1, <2>2 DEF Mutation, InReview, Linked
    <2> QED
      BY <2>2, <2>3
  <1> QED
    BY <1>4, <1>5

LEMMA MutateIsMutation ==
    ASSUME IInv, NEW c \in Clients, NEW d \in Docs, Mutate(c, d)
    PROVE  \E row, copy \in Row : Mutation(c, d, row, copy)
  BY SaveMutation, LifecycleMutation, ExecuteMutation, UnexecuteMutation, CreateMutation,
     AttachmentMutation
  DEF Mutate

-----------------------------------------------------------------------------
(* Uploads and the cleanup, which touch a row without its revision.        *)

LEMMA StoredRow ==
    ASSUME NEW r \in Row, NEW f \in Files
    PROVE  /\ Stored(r, f) \in Row
           /\ Stored(r, f).status = r.status /\ Stored(r, f).rev = r.rev
           /\ Stored(r, f).data = r.data /\ Stored(r, f).exec = r.exec
           /\ Stored(r, f).pending = r.pending \ {f} /\ Stored(r, f).ready = r.ready \cup {f}
  BY DEF Stored, Row

LEMMA ExpiredRow ==
    ASSUME NEW r \in Row, NEW f \in Files
    PROVE  /\ Expired(r, f) \in Row
           /\ Expired(r, f).status = r.status /\ Expired(r, f).rev = r.rev
           /\ Expired(r, f).data = r.data /\ Expired(r, f).exec = r.exec
           /\ Expired(r, f).pending = r.pending \ {f} /\ Expired(r, f).ready = r.ready
  BY DEF Expired, Row

\* Links that change under a revision are those of a document with something
\* pending, which is therefore not under review.
LEMMA LinksInvariant ==
    ASSUME IInv, NEW d \in Docs, NEW row \in Row, docs' = [docs EXCEPT ![d] = row],
           UNCHANGED <<view, issued>>, docs[d].pending # {},
           row.rev = docs[d].rev, row.status = docs[d].status, SameContent(row, docs[d]),
           row.pending \cap row.ready = {}, Linked(row) \subseteq Linked(docs[d]),
           uploading' \subseteq uploading, uploading' \cap row.ready = {}
    PROVE  IInv' /\ docs[d].status \notin InReview
  <1> USE DEF IInv
  <1>1. docs \in [Docs -> Row] /\ row.rev <= MaxRev
    BY RowsAreRows, ClientsAssumption DEF TypeOK
  <1>2. docs[d].status \notin InReview
    BY DEF NothingPendingOnceReviewed, InReview
  <1>3. TypeOK'
    <2>1. /\ Linked(row) \subseteq issued' /\ issued \subseteq issued' /\ issued' \subseteq Files
          /\ uploading' \subseteq issued' /\ (row.status = "NONE" <=> row.rev = 0)
          /\ DOMAIN view' = Clients /\ \A c \in Clients : DOMAIN view'[c] = Docs
      BY DEF TypeOK
    <2> QED
      BY <1>1, <2>1, ReplacedType
  <1>4. Views'
    BY <1>1 DEF Views, SameContent
  <1>5. FilesApart'
    BY <1>1 DEF FilesApart, Linked
  <1>6. NothingPendingOnceReviewed'
    BY <1>1, <1>2 DEF NothingPendingOnceReviewed, InReview
  <1> QED
    BY <1>2, <1>3, <1>4, <1>5, <1>6

LEMMA FinishUploadStep ==
    ASSUME IInv, NEW d \in Docs, NEW f \in Files, FinishUpload(d, f)
    PROVE  /\ IInv' /\ docs[d].status \notin InReview
           /\ \A e \in Docs : docs'[e].rev = docs[e].rev /\ (e # d => docs'[e] = docs[e])
  <1> DEFINE row == Stored(docs[d], f)
  <1>1. docs[d] \in Row /\ docs[d].pending \cap docs[d].ready = {} /\ docs \in [Docs -> Row]
    BY RowsAreRows DEF IInv, TypeOK
  <1>2. /\ f \in docs[d].pending /\ docs' = [docs EXCEPT ![d] = row]
        /\ uploading' = uploading \ {f} /\ UNCHANGED <<view, issued>>
    BY DEF FinishUpload
  <1>3. /\ row \in Row /\ row.status = docs[d].status /\ row.rev = docs[d].rev
        /\ row.data = docs[d].data /\ row.exec = docs[d].exec
        /\ row.pending = docs[d].pending \ {f} /\ row.ready = docs[d].ready \cup {f}
    BY <1>1, StoredRow
  <1> HIDE DEF row
  <1>4. uploading \cap docs[d].ready = {}
    BY DEF IInv, FilesApart
  <1>5. /\ SameContent(row, docs[d]) /\ row.pending \cap row.ready = {}
        /\ Linked(row) \subseteq Linked(docs[d]) /\ uploading' \cap row.ready = {}
    BY <1>1, <1>2, <1>3, <1>4 DEF SameContent, Linked
  <1>6. IInv' /\ docs[d].status \notin InReview
    BY <1>2, <1>3, <1>5, LinksInvariant
  <1> QED
    BY <1>1, <1>2, <1>3, <1>6

LEMMA ExpireUploadStep ==
    ASSUME IInv, NEW d \in Docs, NEW f \in Files, ExpireUpload(d, f)
    PROVE  /\ IInv' /\ docs[d].status \notin InReview
           /\ \A e \in Docs : docs'[e].rev = docs[e].rev /\ (e # d => docs'[e] = docs[e])
  <1> DEFINE row == Expired(docs[d], f)
  <1>1. docs[d] \in Row /\ docs[d].pending \cap docs[d].ready = {} /\ docs \in [Docs -> Row]
    BY RowsAreRows DEF IInv, TypeOK
  <1>2. /\ f \in docs[d].pending /\ docs' = [docs EXCEPT ![d] = row]
        /\ UNCHANGED <<view, uploading, issued>>
    BY DEF ExpireUpload
  <1>3. /\ row \in Row /\ row.status = docs[d].status /\ row.rev = docs[d].rev
        /\ row.data = docs[d].data /\ row.exec = docs[d].exec
        /\ row.pending = docs[d].pending \ {f} /\ row.ready = docs[d].ready
    BY <1>1, ExpiredRow
  <1> HIDE DEF row
  <1>4. uploading \cap docs[d].ready = {}
    BY DEF IInv, FilesApart
  <1>5. /\ SameContent(row, docs[d]) /\ row.pending \cap row.ready = {}
        /\ Linked(row) \subseteq Linked(docs[d]) /\ uploading' \cap row.ready = {}
    BY <1>1, <1>2, <1>3, <1>4 DEF SameContent, Linked
  <1>6. IInv' /\ docs[d].status \notin InReview
    BY <1>2, <1>3, <1>5, LinksInvariant
  <1> QED
    BY <1>1, <1>2, <1>3, <1>6

\* Steps that leave every document alone.
LEMMA GetStep ==
    ASSUME IInv, NEW c \in Clients, NEW d \in Docs, Get(c, d)
    PROVE  IInv' /\ docs' = docs
  <1> USE DEF IInv
  <1>1. docs[d] \in Row /\ docs[d].rev \in Nat
    BY RowsAreRows DEF Row
  <1>2. view' = [view EXCEPT ![c][d] = docs[d]] /\ UNCHANGED <<docs, uploading, issued>>
    BY DEF Get
  <1>3. Views'
    BY <1>1, <1>2 DEF Views, SameContent
  <1> QED
    BY <1>2, <1>3 DEF TypeOK, Views, FilesApart, NothingPendingOnceReviewed

LEMMA BeginUploadStep ==
    ASSUME IInv, NEW d \in Docs, NEW f \in Files, BeginUpload(d, f)
    PROVE  IInv' /\ docs' = docs
  <1> USE DEF IInv
  <1>1. /\ f \in docs[d].pending /\ docs[d].status = "DRAFT"
        /\ uploading' = uploading \cup {f} /\ UNCHANGED <<docs, view, issued>>
    BY DEF BeginUpload
  <1>2. f \in issued
    BY <1>1 DEF TypeOK, Linked
  <1>3. \A e \in Docs : f \notin docs[e].ready /\ (e # d => f \notin Linked(docs[e]))
    BY <1>1 DEF FilesApart, Linked, TypeOK
  <1>4. TypeOK' /\ Views'
    BY <1>1, <1>2 DEF TypeOK, Views, SameContent
  <1>5. FilesApart' /\ NothingPendingOnceReviewed'
    BY <1>1, <1>3 DEF FilesApart, NothingPendingOnceReviewed
  <1> QED
    BY <1>1, <1>4, <1>5

LEMMA AbortUploadStep ==
    ASSUME IInv, NEW f \in Files, AbortUpload(f)
    PROVE  IInv' /\ docs' = docs
  BY DEF IInv, AbortUpload, TypeOK, Views, SameContent, FilesApart, NothingPendingOnceReviewed

LEMMA StutterStep ==
    ASSUME IInv, UNCHANGED vars
    PROVE  IInv' /\ docs' = docs
  BY DEF IInv, vars, TypeOK, Views, SameContent, FilesApart, NothingPendingOnceReviewed

-----------------------------------------------------------------------------
(* The theorems.                                                           *)

LEMMA InitInvariant == Init => IInv
  <1> SUFFICES ASSUME Init PROVE IInv
    OBVIOUS
  <1>1. \A d \in Docs : KindOf[d] \in Kinds
    BY ClientsAssumption
  <1>2. \A d \in Docs : docs[d] = Absent(KindOf[d]) /\ docs[d] \in Row
    BY <1>1, AbsentRow DEF Init
  <1>3. \A d \in Docs : /\ docs[d].status = "NONE" /\ docs[d].rev = 0
                        /\ docs[d].pending = {} /\ docs[d].ready = {}
    BY <1>1, <1>2, AbsentRow
  <1>4. \A d \in Docs :
           docs[d] \in [kind : Kinds, status : Statuses, rev : 0..MaxRev, data : Data \cup {NoData},
                        attrs : {"complete", "noPosting", "noPersonnel"},
                        exec : [date : Dates \cup {0}, moved : Nat, signed : Nat], at : {0},
                        pending : SUBSET Files, ready : SUBSET Files]
    BY <1>2, <1>3, ClientsAssumption DEF Row, Outcome
  <1>5. TypeOK
    BY <1>3, <1>4 DEF Init, TypeOK, Linked
  <1>6. Views
    BY <1>2, <1>3 DEF Init, Views, SameContent
  <1>7. FilesApart /\ NothingPendingOnceReviewed
    BY <1>3 DEF Init, FilesApart, NothingPendingOnceReviewed, Linked
  <1> QED
    BY <1>5, <1>6, <1>7 DEF IInv

\* What a step does to one document, as the two action properties put it.
Author(d) ==
    docs'[d].rev # docs[d].rev =>
        \E c \in Clients : /\ view'[c][d].rev = docs'[d].rev
                           /\ SameContent(view[c][d], docs[d])
                           /\ SameContent(view'[c][d], docs'[d])

Frozen(d) ==
    docs[d].status \in InReview /\ docs'[d].status # "DRAFT" =>
        /\ docs'[d].data = docs[d].data
        /\ Linked(docs'[d]) = Linked(docs[d])
        /\ docs'[d].ready = docs[d].ready

LEMMA StepInvariant ==
    ASSUME IInv, [Next]_vars
    PROVE  IInv' /\ \A d \in Docs : Author(d) /\ Frozen(d)
  <1>1. ASSUME docs' = docs
        PROVE  \A d \in Docs : Author(d) /\ Frozen(d)
    BY <1>1 DEF Author, Frozen
  <1>2. ASSUME NEW c \in Clients, NEW d \in Docs, Mutate(c, d)
        PROVE  IInv' /\ \A e \in Docs : Author(e) /\ Frozen(e)
    <2>1. PICK row \in Row, copy \in Row : Mutation(c, d, row, copy)
      BY <1>2, MutateIsMutation
    <2>2. IInv'
      BY <2>1, CommitInvariant
    <2>3. /\ view'[c][d].rev = docs'[d].rev
          /\ SameContent(view'[c][d], docs'[d])
          /\ \A e \in Docs \ {d} : docs'[e] = docs[e]
      BY <2>1, CommitViews DEF IInv, Mutation
    <2>4. docs'[d] = row
      BY <2>1, RowsAreRows DEF Mutation, Commit, IInv
    <2>5. Author(d) /\ Frozen(d)
      BY <2>1, <2>3, <2>4 DEF Mutation, Author, Frozen, Linked
    <2>6. \A e \in Docs \ {d} : Author(e) /\ Frozen(e)
      BY <2>3 DEF Author, Frozen
    <2> QED
      BY <2>2, <2>5, <2>6
  <1>3. ASSUME NEW d \in Docs, NEW f \in Files, FinishUpload(d, f) \/ ExpireUpload(d, f)
        PROVE  IInv' /\ \A e \in Docs : Author(e) /\ Frozen(e)
    BY <1>3, FinishUploadStep, ExpireUploadStep DEF Author, Frozen
  <1>4. CASE UNCHANGED vars
    BY <1>1, <1>4, StutterStep
  <1>5. CASE Next
    <2>1. ASSUME NEW c \in Clients, NEW d \in Docs, Get(c, d)
          PROVE  IInv' /\ \A e \in Docs : Author(e) /\ Frozen(e)
      BY <1>1, <2>1, GetStep
    <2>2. ASSUME NEW d \in Docs, NEW f \in Files, BeginUpload(d, f)
          PROVE  IInv' /\ \A e \in Docs : Author(e) /\ Frozen(e)
      BY <1>1, <2>2, BeginUploadStep
    <2>3. ASSUME NEW f \in Files, AbortUpload(f)
          PROVE  IInv' /\ \A e \in Docs : Author(e) /\ Frozen(e)
      BY <1>1, <2>3, AbortUploadStep
    <2> QED
      BY <1>2, <1>3, <1>5, <2>1, <2>2, <2>3 DEF Next
  <1> QED
    BY <1>4, <1>5

\* The inductive invariant: types, honest copies, files that belong to one
\* document, nothing pending under review.
THEOREM Invariance == Spec => []IInv
  <1>1. IInv /\ [Next]_vars => IInv'
    BY StepInvariant
  <1> QED
    BY InitInvariant, <1>1, PTL DEF Spec

\* Rows, copies and uploads keep their types.
THEOREM TypeCorrect == Spec => []TypeOK
  BY Invariance, PTL DEF IInv

\* Whatever uploads and cleanups are under way, a document under review has no
\* pending file and none that is being uploaded.
THEOREM NothingPendingEver == Spec => []NothingPendingOnceReviewed
  BY Invariance, PTL DEF IInv

\* Whoever moves a document on had seen what it replaced.
THEOREM NoUpdateLost == Spec => NoLostUpdate
  <1>1. IInv /\ [Next]_vars => [\A d \in Docs : Author(d)]_vars
    BY StepInvariant
  <1>2. [][\A d \in Docs : Author(d)]_vars <=> NoLostUpdate
    BY DEF NoLostUpdate, Author
  <1> QED
    BY <1>1, <1>2, Invariance, PTL DEF Spec

\* What was reviewed stays as it was until the document is a draft again.
THEOREM ReviewedStaysFrozen == Spec => FrozenOnceReviewed
  <1>1. IInv /\ [Next]_vars => [\A d \in Docs : Frozen(d)]_vars
    BY StepInvariant
  <1>2. [][\A d \in Docs : Frozen(d)]_vars <=> FrozenOnceReviewed
    BY DEF FrozenOnceReviewed, Frozen, InReview
  <1> QED
    BY <1>1, <1>2, Invariance, PTL DEF Spec
=============================================================================
