------------------------------ MODULE VouClients ------------------------------
(***************************************************************************)
(* The VOU document service as its clients meet it: several clients hold   *)
(* copies of documents read at some revision and send mutations that name  *)
(* that revision, while uploads started under a token finish later and the *)
(* cleanup job removes uploads that expired.                               *)
(*                                                                         *)
(* Every mutation runs in one transaction that starts with                 *)
(* SELECT ... FOR UPDATE on the document row, so it is one step here.  An  *)
(* upload locks only the file row (LockPendingVouUpload, FOR UPDATE OF f), *)
(* so it is two steps: BeginUpload reads the document's status, and        *)
(* FinishUpload marks the file ready.  The file row stays locked between   *)
(* the two, which is why the removal and the expiry of that file wait.     *)
(* Whether LED accepts an execution is not decided here: an execution LED  *)
(* rejects rolls back and is a step that does not happen.                  *)
(***************************************************************************)
EXTENDS VouDocument, FiniteSets

CONSTANTS
    Docs,            \* document ids
    KindOf,          \* the entity of each document
    Clients,         \* browser sessions
    Files,           \* file ids
    MaxAttachments,  \* maxAttachmentsPerDocument
    MaxRev           \* bound on revisions (model checking only)

ASSUME ClientsAssumption ==
    /\ KindOf \in [Docs -> Kinds]
    /\ MaxAttachments \in Nat
    /\ MaxRev \in Nat

VARIABLES
    docs,       \* the rows of vou_documents
    view,       \* view[c][d]: the copy of d client c works from
    uploading,  \* files whose row an upload transaction has locked
    issued      \* file ids handed out so far (ids are never reused)

vars == <<docs, view, uploading, issued>>

TypeOK ==
    /\ docs \in [Docs ->
         [kind : Kinds, status : Statuses, rev : 0..MaxRev, data : Data \cup {NoData},
          attrs : {"complete", "noPosting", "noPersonnel"},
          exec : [date : Dates \cup {0}, moved : Nat, signed : Nat], at : {0},
          pending : SUBSET Files, ready : SUBSET Files]]
    /\ \A d \in Docs :
         /\ docs[d].pending \cap docs[d].ready = {}
         /\ Linked(docs[d]) \subseteq issued
         /\ docs[d].status = "NONE" <=> docs[d].rev = 0
    /\ DOMAIN view = Clients
    /\ \A c \in Clients : DOMAIN view[c] = Docs
    /\ uploading \subseteq issued
    /\ issued \subseteq Files

Init ==
    /\ docs = [d \in Docs |-> Absent(KindOf[d])]
    /\ view = [c \in Clients |-> [d \in Docs |-> Absent(KindOf[d])]]
    /\ uploading = {}
    /\ issued = {}

-----------------------------------------------------------------------------
(* Reading, and mutations that answer with the new revision.               *)

\* Get: the client's copy becomes the row, attachments included.
Get(c, d) ==
    /\ docs[d].status # "NONE"
    /\ view' = [view EXCEPT ![c][d] = docs[d]]
    /\ UNCHANGED <<docs, uploading, issued>>

\* What the client knows after its own mutation: its copy, changed the way
\* the mutation changed the row.
Commit(c, d, row, copy) ==
    /\ row.rev <= MaxRev
    /\ docs' = [docs EXCEPT ![d] = row]
    /\ view' = [view EXCEPT ![c][d] = copy]

Create(c, d, data) ==
    /\ docs[d].status = "NONE"
    /\ Commit(c, d, Drafted(KindOf[d], data), Drafted(KindOf[d], data))
    /\ UNCHANGED <<uploading, issued>>

Save(c, d, data) ==
    /\ CanSave(docs[d], view[c][d].rev)
    /\ Commit(c, d, Saved(docs[d], data), Saved(view[c][d], data))
    /\ UNCHANGED <<uploading, issued>>

Review(c, d) ==
    /\ CanReview(docs[d], view[c][d].rev)
    /\ Commit(c, d, Reviewed(docs[d]), Reviewed(view[c][d]))
    /\ UNCHANGED <<uploading, issued>>

Approve(c, d) ==
    /\ CanApprove(docs[d], view[c][d].rev)
    /\ Commit(c, d, Approved(docs[d]), Approved(view[c][d]))
    /\ UNCHANGED <<uploading, issued>>

Unreview(c, d) ==
    /\ CanUnreview(docs[d], view[c][d].rev)
    /\ Commit(c, d, Unreviewed(docs[d]), Unreviewed(view[c][d]))
    /\ UNCHANGED <<uploading, issued>>

Unapprove(c, d) ==
    /\ CanUnapprove(docs[d], view[c][d].rev)
    /\ Commit(c, d, Unapproved(docs[d]), Unapproved(view[c][d]))
    /\ UNCHANGED <<uploading, issued>>

Execute(c, d, outcome) ==
    /\ CanExecute(docs[d], view[c][d].rev)
    /\ outcome \in Outcomes(docs[d])
    /\ Commit(c, d, Executed(docs[d], outcome, 0), Executed(view[c][d], outcome, 0))
    /\ UNCHANGED <<uploading, issued>>

Unexecute(c, d) ==
    /\ CanUnexecute(docs[d], view[c][d].rev)
    /\ Commit(c, d, Unexecuted(docs[d]), Unexecuted(view[c][d]))
    /\ UNCHANGED <<uploading, issued>>

-----------------------------------------------------------------------------
(* Attachments.                                                            *)

InitiateAttachment(c, d, f) ==
    /\ f \notin issued
    /\ CanInitiate(docs[d], view[c][d].rev, MaxAttachments, Cardinality(Linked(docs[d])))
    /\ Commit(c, d, Initiated(docs[d], f), Initiated(view[c][d], f))
    /\ issued' = issued \cup {f}
    /\ UNCHANGED uploading

RemoveAttachment(c, d, f) ==
    /\ f \notin uploading
    /\ CanRemove(docs[d], view[c][d].rev, f)
    /\ Commit(c, d, Removed(docs[d], f), Removed(view[c][d], f))
    /\ UNCHANGED <<uploading, issued>>

\* The upload transaction: token still pending and unexpired, document a
\* draft when read; the body is then written while the row stays locked.
BeginUpload(d, f) ==
    /\ f \in docs[d].pending \ uploading
    /\ docs[d].status = "DRAFT"
    /\ uploading' = uploading \cup {f}
    /\ UNCHANGED <<docs, view, issued>>

FinishUpload(d, f) ==
    /\ f \in uploading \cap docs[d].pending
    /\ docs' = [docs EXCEPT ![d] = Stored(@, f)]
    /\ uploading' = uploading \ {f}
    /\ UNCHANGED <<view, issued>>

\* A body that fails a check, a lost connection, a crash: rolled back.
AbortUpload(f) ==
    /\ f \in uploading
    /\ uploading' = uploading \ {f}
    /\ UNCHANGED <<docs, view, issued>>

\* The cleanup job deletes an expired pending file and its link.  It locks
\* the file row only: neither the document row nor its revision.
ExpireUpload(d, f) ==
    /\ f \in docs[d].pending \ uploading
    /\ docs' = [docs EXCEPT ![d] = Expired(@, f)]
    /\ UNCHANGED <<view, uploading, issued>>

Mutate(c, d) ==
    \/ \E data \in Data : Create(c, d, data) \/ Save(c, d, data)
    \/ Review(c, d)
    \/ Approve(c, d)
    \/ Unreview(c, d)
    \/ Unapprove(c, d)
    \/ \E outcome \in Outcomes(docs[d]) : Execute(c, d, outcome)
    \/ Unexecute(c, d)
    \/ \E f \in Files : InitiateAttachment(c, d, f) \/ RemoveAttachment(c, d, f)

Next ==
    \/ \E c \in Clients, d \in Docs : Get(c, d) \/ Mutate(c, d)
    \/ \E d \in Docs, f \in Files :
          BeginUpload(d, f) \/ FinishUpload(d, f) \/ ExpireUpload(d, f)
    \/ \E f \in Files : AbortUpload(f)

Spec == Init /\ [][Next]_vars

-----------------------------------------------------------------------------
(* Properties.                                                             *)

SameContent(a, b) == a.data = b.data /\ a.exec = b.exec /\ a.status = b.status

\* No lost update: whoever moves a document to its next revision was looking
\* at the content it replaced (documentWriteConflict after the row lock).
NoLostUpdate ==
    [][\A d \in Docs :
         docs'[d].rev # docs[d].rev =>
            \E c \in Clients :
                /\ view'[c][d].rev = docs'[d].rev
                /\ SameContent(view[c][d], docs[d])
                /\ SameContent(view'[c][d], docs'[d])]_vars

\* Under review and after it, the voucher stays what was reviewed: data
\* and attachments are frozen until the document is a draft again, whatever
\* uploads were in flight when it was reviewed.
FrozenOnceReviewed ==
    [][\A d \in Docs :
         docs[d].status \in {"REVIEWED", "APPROVED", "EXECUTED"}
           /\ docs'[d].status # "DRAFT" =>
            /\ docs'[d].data = docs[d].data
            /\ Linked(docs'[d]) = Linked(docs[d])
            /\ docs'[d].ready = docs[d].ready]_vars

\* A reviewed document never waits for a file: what it links can be opened.
NothingPendingOnceReviewed ==
    \A d \in Docs : docs[d].status \in {"REVIEWED", "APPROVED", "EXECUTED"} =>
        docs[d].pending = {} /\ uploading \cap Linked(docs[d]) = {}

=============================================================================
