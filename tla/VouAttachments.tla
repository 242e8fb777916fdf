---------------------------- MODULE VouAttachments ----------------------------
(***************************************************************************)
(* The files behind the attachments of one draft voucher: rows of          *)
(* vou_files in the database, bytes in the storage directory, and nothing  *)
(* that commits the two together.  Three kinds of actors work on them:     *)
(*                                                                         *)
(*   - PUT requests (Upload), which hold the file row from the first       *)
(*     statement to the commit and write the bytes in between;             *)
(*   - removals (RemoveAttachment), which lock the voucher and then the    *)
(*     file row, commit, and unlink the bytes afterwards;                  *)
(*   - the cleanup command (CleanupAttachments), a process of its own,     *)
(*     which deletes expired pending rows one by one and then sweeps the   *)
(*     directory for files whose key it did not find in the table.         *)
(*                                                                         *)
(* The API process and the command can crash, any statement can fail, a    *)
(* database connection can break (which frees its row locks while the      *)
(* request runs on), and a commit can fail or succeed without an answer.   *)
(*                                                                         *)
(* Storage keys are derived from file ids, so a file stands for its key.   *)
(* Its content is fixed by the declared hash: any upload of it that passes *)
(* Store.Put writes the same bytes.  The attachment limit, revisions and   *)
(* the voucher's status are in VouClients: the voucher's other requests    *)
(* hold its lock for a moment and no file's.  Temporary files, download    *)
(* tokens and several vouchers are left out.                               *)
(***************************************************************************)
CONSTANTS
    Files,      \* file ids; an id is never issued twice
    Uploads,    \* PUT requests that can be in progress together
    NoFile      \* no file

ASSUME ActorsAssumption ==
    /\ NoFile \notin Files
    /\ {"nobody", "removal", "cleanup"} \cap Uploads = {}

VARIABLES
    row,        \* the row of vou_files: not there yet, PENDING, READY, deleted
    late,       \* files whose upload_expires_at has passed
    disk,       \* files present under their storage key
    fileLock,   \* who holds the row lock of a file
    docLock,    \* who holds the voucher FOR UPDATE
    put,        \* PUT requests: the step each is at, and its file
    removal,    \* the removal that is in its transaction, likewise
    unlinking,  \* files whose removal has committed and deletes the bytes next
    cleanup,    \* the cleanup command: its step, the rows it listed, the file it
                \* is at, the keys it found in the table, the keys still to visit
    exposed     \* history: files initiated during a sweep, and files uploaded
                \* over a connection that broke or with a commit that failed

vars == <<row, late, disk, fileLock, docLock, put, removal, unlinking, cleanup, exposed>>

Idle == [at |-> "idle", file |-> NoFile]
CleanupIdle == [at |-> "idle", todo |-> {}, file |-> NoFile, known |-> {}, visit |-> {}]

TypeOK ==
    /\ row \in [Files -> {"new", "pending", "ready", "deleted"}]
    /\ late \subseteq Files
    /\ disk \subseteq {f \in Files : row[f] # "new"}
    /\ fileLock \in [Files -> Uploads \cup {"nobody", "removal", "cleanup"}]
    /\ docLock \in {"nobody", "removal"}
    /\ put \in [Uploads -> [at : {"idle", "lock", "write", "mark", "audit", "commit", "undo"},
                            file : Files \cup {NoFile}]]
    /\ removal \in [at : {"idle", "file", "commit"}, file : Files \cup {NoFile}]
    /\ unlinking \subseteq {f \in Files : row[f] = "deleted"}
    /\ cleanup \in [at : {"idle", "expire", "delete", "unlink", "sweep"}, todo : SUBSET Files,
                    file : Files \cup {NoFile}, known : SUBSET Files, visit : SUBSET Files]
    /\ exposed \subseteq Files

Init ==
    /\ row = [f \in Files |-> "new"]
    /\ late = {}
    /\ disk = {}
    /\ fileLock = [f \in Files |-> "nobody"]
    /\ docLock = "nobody"
    /\ put = [u \in Uploads |-> Idle]
    /\ removal = Idle
    /\ unlinking = {}
    /\ cleanup = CleanupIdle
    /\ exposed = {}

\* An upload's transaction lives while it holds its file's row.
Connected(u) == put[u].file # NoFile /\ fileLock[put[u].file] = u

\* The audit row's foreign key holds the voucher FOR KEY SHARE until the commit.
SharesDoc(u) == put[u].at = "commit" /\ Connected(u)
DocFree == docLock = "nobody" /\ \A u \in Uploads : ~SharesDoc(u)

\* The file locks once the holder's transaction has ended.
Freed(holder) == [f \in Files |-> IF fileLock[f] = holder THEN "nobody" ELSE fileLock[f]]

-----------------------------------------------------------------------------
(* InitiateAttachment, one transaction under the voucher's lock.           *)

InitiateAttachment(f) ==
    /\ row[f] = "new"
    /\ DocFree
    /\ row' = [row EXCEPT ![f] = "pending"]
    /\ exposed' = IF cleanup.at = "sweep" THEN exposed \cup {f} ELSE exposed
    /\ UNCHANGED <<late, disk, fileLock, docLock, put, removal, unlinking, cleanup>>

PassDeadline(f) ==
    /\ row[f] = "pending"
    /\ f \notin late
    /\ late' = late \cup {f}
    /\ UNCHANGED <<row, disk, fileLock, docLock, put, removal, unlinking, cleanup, exposed>>

-----------------------------------------------------------------------------
(* Upload.                                                                 *)

At(u, step) == put[u].at = step
Goes(u, step) == put' = [put EXCEPT ![u].at = step]
\* A refused or failed request that never rolls back.
Ends_Mutant(u) == put' = [put EXCEPT ![u] = Idle] /\ UNCHANGED fileLock
Ends(u) == put' = [put EXCEPT ![u] = Idle] /\ fileLock' = Freed(u)

\* The request comes with a token of f.  The deadline is compared with the
\* start of the transaction, which may have to wait for the row.
BeginUpload(u, f) ==
    /\ At(u, "idle")
    /\ row[f] = "pending" /\ f \notin late
    /\ put' = [put EXCEPT ![u] = [at |-> "lock", file |-> f]]
    /\ UNCHANGED <<row, late, disk, fileLock, docLock, removal, unlinking, cleanup, exposed>>

\* The pending row is locked (FOR UPDATE OF f), its voucher is only read.
LockUpload(u) ==
    /\ At(u, "lock")
    /\ fileLock[put[u].file] = "nobody"
    /\ row[put[u].file] = "pending"
    /\ fileLock' = [fileLock EXCEPT ![put[u].file] = u]
    /\ Goes(u, "write")
    /\ UNCHANGED <<row, late, disk, docLock, removal, unlinking, cleanup, exposed>>

\* The token is used up, or its row is gone.
RefuseUpload(u) ==
    /\ At(u, "lock")
    /\ fileLock[put[u].file] = "nobody"
    /\ row[put[u].file] # "pending"
    /\ Ends(u)
    /\ UNCHANGED <<row, late, disk, docLock, removal, unlinking, cleanup, exposed>>

\* A lock that times out, a voucher no longer a draft, wrong headers, a body that
\* breaks off or fails a check of Store.Put: nothing reaches the storage key, and
\* the transaction is rolled back.
RejectBody(u) ==
    /\ At(u, "lock") \/ At(u, "write")
    /\ Ends(u)
    /\ UNCHANGED <<row, late, disk, docLock, removal, unlinking, cleanup, exposed>>

\* Store.Put ends with the rename to the storage key.
StoreBody(u) ==
    /\ At(u, "write")
    /\ disk' = disk \cup {put[u].file}
    /\ Goes(u, "mark")
    /\ UNCHANGED <<row, late, fileLock, docLock, removal, unlinking, cleanup, exposed>>

MarkReady(u) ==
    /\ At(u, "mark")
    /\ Connected(u)
    /\ Goes(u, "audit")
    /\ UNCHANGED <<row, late, disk, fileLock, docLock, removal, unlinking, cleanup, exposed>>

AuditUpload(u) ==
    /\ At(u, "audit")
    /\ Connected(u)
    /\ docLock = "nobody"
    /\ Goes(u, "commit")
    /\ UNCHANGED <<row, late, disk, fileLock, docLock, removal, unlinking, cleanup, exposed>>

\* A statement after Put fails: the bytes are deleted, then the deferred
\* rollback frees the row if the connection still holds it.
FailUpload(u) ==
    /\ At(u, "mark") \/ At(u, "audit")
    /\ Goes(u, "undo")
    /\ UNCHANGED <<row, late, disk, fileLock, docLock, removal, unlinking, cleanup, exposed>>

UndoUpload(u) ==
    /\ At(u, "undo")
    /\ disk' = disk \ {put[u].file}
    /\ Ends(u)
    /\ UNCHANGED <<row, late, docLock, removal, unlinking, cleanup, exposed>>

CommitUpload(u) ==
    /\ At(u, "commit")
    /\ Connected(u)
    /\ row' = [row EXCEPT ![put[u].file] = "ready"]
    /\ Ends(u)
    /\ UNCHANGED <<late, disk, docLock, removal, unlinking, cleanup, exposed>>

\* Commit returns an error: the database may have committed or not, and holds
\* the row no longer when the bytes are deleted.
CommitUploadFails(u) ==
    /\ At(u, "commit")
    /\ row' \in {row} \cup IF Connected(u) THEN {[row EXCEPT ![put[u].file] = "ready"]} ELSE {}
    /\ Goes(u, "undo")
    /\ fileLock' = Freed(u)
    /\ exposed' = exposed \cup {put[u].file}
    /\ UNCHANGED <<late, disk, docLock, removal, unlinking, cleanup>>

\* The database drops the connection while the request is busy elsewhere.
Disconnect(u) ==
    /\ put[u].at \in {"write", "mark", "audit", "commit", "undo"}
    /\ Connected(u)
    /\ fileLock' = Freed(u)
    /\ exposed' = exposed \cup {put[u].file}
    /\ UNCHANGED <<row, late, disk, docLock, put, removal, unlinking, cleanup>>

-----------------------------------------------------------------------------
(* RemoveAttachment.                                                       *)

EndsRemoval ==
    /\ removal' = Idle
    /\ docLock' = "nobody"
    /\ fileLock' = Freed("removal")

LockDocument(f) ==
    /\ removal.at = "idle"
    /\ row[f] # "new"
    /\ DocFree
    /\ docLock' = "removal"
    /\ removal' = [at |-> "file", file |-> f]
    /\ UNCHANGED <<row, late, disk, fileLock, put, unlinking, cleanup, exposed>>

\* The bytes deleted before the commit, which may still fail.
LockFile_Mutant(f) ==
    /\ removal = [at |-> "file", file |-> f]
    /\ fileLock[f] = "nobody"
    /\ row[f] \in {"pending", "ready"}
    /\ fileLock' = [fileLock EXCEPT ![f] = "removal"]
    /\ removal' = [removal EXCEPT !.at = "commit"]
    /\ unlinking' = unlinking \cup {f}
    /\ UNCHANGED <<row, late, disk, docLock, put, cleanup, exposed>>
LockFile(f) ==
    /\ removal = [at |-> "file", file |-> f]
    /\ fileLock[f] = "nobody"
    /\ row[f] \in {"pending", "ready"}
    /\ fileLock' = [fileLock EXCEPT ![f] = "removal"]
    /\ removal' = [removal EXCEPT !.at = "commit"]
    /\ UNCHANGED <<row, late, disk, docLock, put, unlinking, cleanup, exposed>>

RefuseRemoval(f) ==
    /\ removal = [at |-> "file", file |-> f]
    /\ fileLock[f] = "nobody"
    /\ row[f] = "deleted"
    /\ EndsRemoval
    /\ UNCHANGED <<row, late, disk, put, unlinking, cleanup, exposed>>

\* Any statement of the removal fails: rolled back.
FailRemoval ==
    /\ removal.at # "idle"
    /\ EndsRemoval
    /\ UNCHANGED <<row, late, disk, put, unlinking, cleanup, exposed>>

CommitRemoval(f) ==
    /\ removal = [at |-> "commit", file |-> f]
    /\ row' = [row EXCEPT ![f] = "deleted"]
    /\ unlinking' \in {unlinking, unlinking \cup {f}}
    /\ EndsRemoval
    /\ UNCHANGED <<late, disk, put, cleanup, exposed>>

\* Deleting the bytes may fail; the error is logged and the sweep's to mend.
Unlink(f) ==
    /\ f \in unlinking
    /\ disk' \in {disk, disk \ {f}}
    /\ unlinking' = unlinking \ {f}
    /\ UNCHANGED <<row, late, fileLock, docLock, put, removal, cleanup, exposed>>

\* The API process dies: its transactions roll back, its loose ends are lost.
CrashServer ==
    /\ fileLock' = [f \in Files |-> IF fileLock[f] = "cleanup" THEN "cleanup" ELSE "nobody"]
    /\ docLock' = "nobody"
    /\ put' = [u \in Uploads |-> Idle]
    /\ removal' = Idle
    /\ unlinking' = {}
    /\ UNCHANGED <<row, late, disk, cleanup, exposed>>

-----------------------------------------------------------------------------
(* CleanupAttachments, run as a command of its own.                        *)

Untouched == <<late, docLock, put, removal, unlinking, exposed>>

\* ListExpiredPendingVouFiles, without a lock; its LIMIT is above the number
\* of files here.
BeginCleanup ==
    /\ cleanup.at = "idle"
    /\ cleanup' = [CleanupIdle EXCEPT !.at = "expire",
                                      !.todo = {f \in late : row[f] = "pending"}]
    /\ UNCHANGED <<row, disk, fileLock>>
    /\ UNCHANGED Untouched

\* LockExpiredPendingVouFile looks at the row again under its lock.
LockExpired_Mutant(f) ==
    /\ cleanup.at = "expire" /\ f \in cleanup.todo
    /\ fileLock[f] = "nobody"
    /\ row[f] # "deleted"
    /\ fileLock' = [fileLock EXCEPT ![f] = "cleanup"]
    /\ cleanup' = [cleanup EXCEPT !.at = "delete", !.file = f, !.todo = @ \ {f}]
    /\ UNCHANGED <<row, disk>>
    /\ UNCHANGED Untouched
LockExpired(f) ==
    /\ cleanup.at = "expire" /\ f \in cleanup.todo
    /\ fileLock[f] = "nobody"
    /\ row[f] = "pending"
    /\ fileLock' = [fileLock EXCEPT ![f] = "cleanup"]
    /\ cleanup' = [cleanup EXCEPT !.at = "delete", !.file = f, !.todo = @ \ {f}]
    /\ UNCHANGED <<row, disk>>
    /\ UNCHANGED Untouched

SkipExpired(f) ==
    /\ cleanup.at = "expire" /\ f \in cleanup.todo
    /\ fileLock[f] = "nobody"
    /\ row[f] # "pending"
    /\ cleanup' = [cleanup EXCEPT !.todo = @ \ {f}]
    /\ UNCHANGED <<row, disk, fileLock>>
    /\ UNCHANGED Untouched

\* The link and the row go in one transaction of their own.
DeleteExpired ==
    /\ cleanup.at = "delete"
    /\ row' = [row EXCEPT ![cleanup.file] = "deleted"]
    /\ fileLock' = Freed("cleanup")
    /\ cleanup' = [cleanup EXCEPT !.at = "unlink"]
    /\ UNCHANGED disk
    /\ UNCHANGED Untouched

UnlinkExpired ==
    /\ cleanup.at = "unlink"
    /\ disk' = disk \ {cleanup.file}
    /\ cleanup' = [cleanup EXCEPT !.at = "expire", !.file = NoFile]
    /\ UNCHANGED <<row, fileLock>>
    /\ UNCHANGED Untouched

\* ListAllVouStorageKeys: pending files have their keys in the table too.
ListKeys_Mutant ==
    /\ cleanup.at = "expire" /\ cleanup.todo = {}
    /\ cleanup' = [cleanup EXCEPT !.at = "sweep", !.visit = Files,
                                  !.known = {f \in Files : row[f] = "ready"}]
    /\ UNCHANGED <<row, disk, fileLock>>
    /\ UNCHANGED Untouched
ListKeys ==
    /\ cleanup.at = "expire" /\ cleanup.todo = {}
    /\ cleanup' = [cleanup EXCEPT !.at = "sweep", !.visit = Files,
                                  !.known = {f \in Files : row[f] \in {"pending", "ready"}}]
    /\ UNCHANGED <<row, disk, fileLock>>
    /\ UNCHANGED Untouched

\* RemoveOrphans comes by the place of every key once, in some order.
Visit_Mutant(f) ==
    /\ cleanup.at = "sweep" /\ f \in cleanup.visit
    /\ cleanup' = [cleanup EXCEPT !.visit = @ \ {f}]
    /\ UNCHANGED <<row, disk, fileLock>>
    /\ UNCHANGED Untouched
Visit(f) ==
    /\ cleanup.at = "sweep" /\ f \in cleanup.visit
    /\ disk' = IF f \in cleanup.known THEN disk ELSE disk \ {f}
    /\ cleanup' = [cleanup EXCEPT !.visit = @ \ {f}]
    /\ UNCHANGED <<row, fileLock>>
    /\ UNCHANGED Untouched

EndSweep ==
    /\ cleanup.at = "sweep" /\ cleanup.visit = {}
    /\ cleanup' = CleanupIdle
    /\ UNCHANGED <<row, disk, fileLock>>
    /\ UNCHANGED Untouched

\* Every error ends the command, and so does a crash; after the walk that is no
\* different from EndSweep.
FailCleanup ==
    /\ cleanup.at \in {"expire", "delete", "unlink"} \/ cleanup.visit # {}
    /\ cleanup' = CleanupIdle
    /\ fileLock' = Freed("cleanup")
    /\ UNCHANGED <<row, disk>>
    /\ UNCHANGED Untouched

-----------------------------------------------------------------------------
(* A removal holds the voucher and waits for a file row whose upload waits *)
(* to add its audit row to the voucher: Postgres finds the cycle and       *)
(* fails a statement of one of the two.                                    *)

Deadlocked(u) ==
    /\ At(u, "audit") /\ Connected(u)
    /\ removal = [at |-> "file", file |-> put[u].file]

BreakDeadlock(u) ==
    /\ Deadlocked(u)
    /\ FailUpload(u) \/ FailRemoval

-----------------------------------------------------------------------------
PutStep(u) ==
    \/ \E f \in Files : BeginUpload(u, f)
    \/ LockUpload(u)
    \/ RefuseUpload(u)
    \/ RejectBody(u)
    \/ StoreBody(u)
    \/ MarkReady(u)
    \/ AuditUpload(u)
    \/ FailUpload(u)
    \/ UndoUpload(u)
    \/ CommitUpload(u)
    \/ CommitUploadFails(u)
    \/ Disconnect(u)

RemovalStep ==
    \/ \E f \in Files : LockDocument(f) \/ LockFile(f) \/ RefuseRemoval(f)
    \/ FailRemoval
    \/ \E f \in Files : CommitRemoval(f) \/ Unlink(f)

CleanupStep ==
    \/ BeginCleanup
    \/ \E f \in Files : LockExpired(f) \/ SkipExpired(f)
    \/ DeleteExpired
    \/ UnlinkExpired
    \/ ListKeys
    \/ \E f \in Files : Visit(f)
    \/ EndSweep
    \/ FailCleanup

Next ==
    \/ \E f \in Files : InitiateAttachment(f) \/ PassDeadline(f)
    \/ \E u \in Uploads : PutStep(u)
    \/ RemovalStep
    \/ CrashServer
    \/ CleanupStep

Spec == Init /\ [][Next]_vars

\* Requests run on, within the server's timeouts, and Postgres grants a row
\* lock to its waiters in turn and breaks deadlocks.
RequestFairness ==
    /\ \A u \in Uploads :
          /\ SF_vars(LockUpload(u) \/ RefuseUpload(u))
          /\ WF_vars(StoreBody(u) \/ RejectBody(u))
          /\ WF_vars(MarkReady(u) \/ (FailUpload(u) /\ ~Connected(u)))
          /\ SF_vars(AuditUpload(u))
          /\ WF_vars(CommitUpload(u) \/ CommitUploadFails(u))
          /\ WF_vars(UndoUpload(u))
          /\ WF_vars(BreakDeadlock(u))
    /\ \A f \in Files :
          /\ SF_vars(LockFile(f) \/ RefuseRemoval(f))
          /\ WF_vars(CommitRemoval(f))

\* The operator runs the command again and again, and in the end its runs do
\* not fail any more.
CleanupFairness ==
    /\ <>[][~FailCleanup]_vars
    /\ WF_vars(BeginCleanup)
    /\ \A f \in Files : SF_vars(LockExpired(f) \/ SkipExpired(f)) /\ WF_vars(Visit(f))
    /\ WF_vars(DeleteExpired \/ UnlinkExpired)
    /\ WF_vars(ListKeys \/ EndSweep)

FairSpec == Spec /\ RequestFairness /\ CleanupFairness

-----------------------------------------------------------------------------
(* Properties.                                                             *)

\* A file the table calls READY can be opened, unless one of two things
\* happened to it: it was initiated while a sweep was under way, or the
\* connection or commit of an upload of it failed (attachments.go:144, 316).
ReadyOnDisk ==
    \A f \in Files : row[f] = "ready" => f \in disk \cup exposed

\* An upload that completed is lost to nobody but the removal of that file,
\* whatever the cleanup listed before it completed.
ReadyUntilRemoved ==
    [][\A f \in Files :
          row[f] = "ready" /\ row'[f] # "ready" =>
              removal = [at |-> "commit", file |-> f]]_vars

\* store.go:123 says the sweep deletes files "that have no database reference".
SweepSparesReferenced ==
    [][\A f \in cleanup.visit \ cleanup'.visit :
          f \in disk \ disk' => row[f] = "deleted"]_vars

\* Nothing is left behind by crashes and failed deletions: an expired pending
\* row, or bytes whose row is deleted, are cleaned up (or the upload made it).
NothingLeftBehind ==
    \A f \in Files :
        (row[f] = "pending" /\ f \in late) \/ (row[f] = "deleted" /\ f \in disk)
            ~> row[f] = "ready" \/ (row[f] = "deleted" /\ f \notin disk)

\* Every request ends, although uploads and removals take the voucher and the
\* file in opposite orders.
UploadsAndRemovalsEnd ==
    /\ \A u \in Uploads : put[u].at # "idle" ~> put[u].at = "idle"
    /\ removal.at # "idle" ~> removal.at = "idle"
=============================================================================
