------------------------------ MODULE Feedback ------------------------------
(***************************************************************************)
(* Feedback of one user with its screenshots, and the queue it enters      *)
(* (internal/domains/app/feedback_service.go, feedback_attachments.go, the *)
(* queries of db/queries/app_feedback.sql, attachmentstore).               *)
(*                                                                         *)
(* Requests and the cleanup command are READ COMMITTED transactions.       *)
(* Submitting a file only locks its row: a removal that looked at the row  *)
(* before and waited for the lock goes on without looking again.  A        *)
(* transaction whose connection breaks loses its locks, while its request  *)
(* goes on until its next statement: it may still store or delete bytes.   *)
(***************************************************************************)
EXTENDS FeedbackQueue

CONSTANTS
    Files,      \* identifiers of screenshots
    Clients,    \* requests of the user under way at the same time
    Cleaner,    \* the cleanup command
    Stories,    \* publishers that run and files that get used (model checking)
    DailyLimit, \* feedback of a user in a day (20 in the code)
    MaxActive,  \* screenshots not submitted yet (3 in the code)
    DailyFiles  \* screenshots declared in a day (60 in the code)

ASSUME FeedbackAssumption == None \notin Feedback /\ Cleaner \notin Clients

VARIABLES
    files,  \* app_feedback_files
    of,     \* the feedback each file is attached to
    bytes,  \* files whose bytes are in the store
    run,    \* what each client and the cleanup command are doing
    raced   \* accidents: files taken by a removal or cleanup that did not see them submitted, that
            \* lost their bytes to a cleanup rolled back, or whose bytes were touched without the lock

fileVars == <<files, of, bytes, run, raced>>
feedbackVars == <<queueVars, fileVars>>

Runs == Clients \cup {Cleaner}

\* open: upload_expires_at has not come; old: past the orphan TTL; recent: less
\* than a day old.  Identifiers are made once: a row deleted is GONE.
NoFile == [status |-> "ABSENT", open |-> FALSE, old |-> FALSE, recent |-> FALSE]
Unused == [NoFile EXCEPT !.status = "UNUSED"]
Gone == [NoFile EXCEPT !.status = "GONE"]
Declared == [status |-> "PENDING", open |-> TRUE, old |-> FALSE, recent |-> TRUE]

\* rate: holds the advisory lock of submissions; quota: that of uploads.
Free == [pc |-> "free", file |-> None, feedback |-> None, lock |-> {}, rate |-> FALSE, quota |-> FALSE,
         todo |-> {}]

Init ==
    /\ \E story \in Stories :
         /\ QueueInit(story.publishers, story.feedback)
         /\ files = [x \in Files |-> IF x \in story.files THEN NoFile ELSE Unused]
    /\ of = [x \in Files |-> None]
    /\ bytes = {} /\ raced = {}
    /\ run = [c \in Runs |-> Free]

Set(c, t) == run' = [run EXCEPT ![c] = t]
Step(c, t) == Set(c, t) /\ UNCHANGED <<queueVars, files, of, bytes, raced>>
Refuse(c) == Step(c, Free)

Unlocked(x) == \A c \in Runs : x \notin run[c].lock

\* A transaction lives while it holds the row of its file.
Connected(c) == run[c].lock # {}
Unguarded(c) == IF Connected(c) THEN {} ELSE {run[c].file}

HasRow(x) == files[x].status \in {"PENDING", "READY", "DELETED"}

Unsubmitted(x) == of[x] = None
Active == {x \in Files : Unsubmitted(x) /\ (files[x].status = "READY" \/ (files[x].status = "PENDING" /\ files[x].open))}

-----------------------------------------------------------------------------
(* Screenshots: declared, uploaded, removed.                               *)

\* Under the advisory lock of uploads the day's files and the active ones are
\* counted, ...
CountActive(c) ==
    /\ run[c].pc = "free"
    /\ \A d \in Clients : ~run[d].quota
    /\ \E x \in Files :
         /\ files[x] = NoFile
         /\ Cardinality({y \in Files : files[y].recent}) < DailyFiles /\ Cardinality(Active) < MaxActive
         /\ \A d \in Clients : run[d].file # x
         /\ Step(c, [Free EXCEPT !.pc = "declare", !.file = x, !.quota = TRUE])

\* ... and the new one is inserted.
InitiateAttachment(c) ==
    /\ run[c].pc = "declare"
    /\ files' = [files EXCEPT ![run[c].file] = Declared]
    /\ Set(c, Free) /\ UNCHANGED <<queueVars, of, bytes, raced>>

\* The row is looked up by its token; the deadline is compared with the start of
\* the transaction, which may have to wait for the row.
BeginUpload(c) ==
    /\ run[c].pc = "free"
    /\ \E x \in Files : /\ files[x].status = "PENDING" /\ files[x].open
                        /\ Step(c, [Free EXCEPT !.pc = "token", !.file = x])

LockUpload(c) ==
    /\ run[c].pc = "token" /\ Unlocked(run[c].file)
    /\ IF files[run[c].file].status # "PENDING" THEN Refuse(c)
       ELSE Step(c, [run[c] EXCEPT !.pc = "upload", !.lock = {run[c].file}])

\* Put ends with the rename to the storage key, whatever became of the transaction.
StoreBody(c) ==
    /\ run[c].pc = "upload"
    /\ bytes' = bytes \cup {run[c].file} /\ raced' = raced \cup Unguarded(c)
    /\ Set(c, [run[c] EXCEPT !.pc = "stored"]) /\ UNCHANGED <<queueVars, files, of>>

MarkedReady(c) == [files EXCEPT ![run[c].file].status = "READY"]

CommitUpload(c) ==
    /\ run[c].pc = "stored" /\ Connected(c)
    /\ files' = MarkedReady(c)
    /\ Set(c, Free) /\ UNCHANGED <<queueVars, of, bytes, raced>>

\* Marking failed: the row is still locked unless the connection broke.
MarkFails(c) == run[c].pc = "stored" /\ Step(c, [run[c] EXCEPT !.pc = "undo"])

\* Commit returned an error, having committed or not: the row is free.
CommitUploadFails(c) ==
    /\ run[c].pc = "stored" /\ Connected(c)
    /\ files' \in {files, MarkedReady(c)}
    /\ Set(c, [run[c] EXCEPT !.pc = "undo", !.lock = {}]) /\ UNCHANGED <<queueVars, of, bytes, raced>>

\* The bytes are deleted, and only then a transaction still open is rolled back.
UndoUpload(c) ==
    /\ run[c].pc = "undo"
    /\ bytes' = bytes \ {run[c].file} /\ raced' = raced \cup Unguarded(c)
    /\ Set(c, Free) /\ UNCHANGED <<queueVars, files, of>>

\* The database drops the connection while the request is busy elsewhere.
Disconnect(c) ==
    /\ run[c].pc \in {"upload", "stored", "undo"} /\ Connected(c)
    /\ Step(c, [run[c] EXCEPT !.lock = {}])

\* The row is seen as committed when the statement starts.
LookToRemove(c) ==
    /\ run[c].pc = "free"
    /\ \E x \in Files : /\ files[x].status \in {"PENDING", "READY"} /\ Unsubmitted(x)
                        /\ Step(c, [Free EXCEPT !.pc = "remove", !.file = x])

\* Once unlocked, its status is seen again if it was updated meanwhile, its
\* being attached is not.
RemoveAttachment_Mutant(c) ==
    /\ run[c].pc = "remove"
    /\ LET x == run[c].file
       IN  IF files[x].status \notin {"PENDING", "READY"} THEN Refuse(c)
           ELSE /\ files' = [files EXCEPT ![x].status = "DELETED", ![x].old = FALSE]
                /\ raced' = IF Unsubmitted(x) THEN raced ELSE raced \cup {x}
                /\ Set(c, [run[c] EXCEPT !.pc = "unlink"])
                /\ UNCHANGED <<queueVars, of, bytes>>
RemoveAttachment(c) ==
    /\ run[c].pc = "remove" /\ Unlocked(run[c].file)
    /\ LET x == run[c].file
       IN  IF files[x].status \notin {"PENDING", "READY"} THEN Refuse(c)
           ELSE /\ files' = [files EXCEPT ![x].status = "DELETED", ![x].old = FALSE]
                /\ raced' = IF Unsubmitted(x) THEN raced ELSE raced \cup {x}
                /\ Set(c, [run[c] EXCEPT !.pc = "unlink"])
                /\ UNCHANGED <<queueVars, of, bytes>>

Unlink(c) ==
    /\ run[c].pc = "unlink"
    /\ \/ bytes' = bytes \ {run[c].file}
       \/ bytes' = bytes
    /\ Set(c, Free) /\ UNCHANGED <<queueVars, files, of, raced>>

-----------------------------------------------------------------------------
(* Submission.                                                             *)

Recent == {f \in Feedback : queue[f].recent}

RateFree(c) == \A d \in Clients \ {c} : ~run[d].rate

\* Under the advisory lock of submissions the day's feedback is counted, ...
CountRecent(c) ==
    /\ run[c].pc = "free" /\ RateFree(c)
    /\ Cardinality(Recent) < DailyLimit
    /\ \E f \in Feedback, wanted \in SUBSET {x \in Files : files[x].status \notin {"UNUSED", "ABSENT"}} :
         /\ queue[f] = NoRow /\ \A d \in Clients : run[d].feedback # f
         /\ Step(c, [Free EXCEPT !.pc = "attach", !.feedback = f, !.rate = TRUE, !.todo = wanted])

\* ... the files, which must be READY, are locked, ...
LockReadyFiles(c) ==
    /\ run[c].pc = "attach"
    /\ \A x \in run[c].todo : Unlocked(x)
    /\ IF \E x \in run[c].todo : files[x].status # "READY" THEN Refuse(c)
       ELSE Step(c, [run[c] EXCEPT !.pc = "submit", !.lock = run[c].todo])

\* ... and feedback and attachments are inserted; a file is attached once.
CreateFeedback(c) ==
    /\ run[c].pc = "submit"
    /\ IF \E x \in run[c].todo : ~Unsubmitted(x) THEN Refuse(c)
       ELSE /\ queue' = [queue EXCEPT ![run[c].feedback] = Inserted]
            /\ of' = [x \in Files |-> IF x \in run[c].todo THEN run[c].feedback ELSE of[x]]
            /\ Set(c, Free) /\ UNCHANGED <<issues, pub, exposed, files, bytes, raced>>

\* A request fails, is cancelled or loses its server: rolled back, or left
\* after its commit.
Fail(c) == run[c].pc # "free" /\ Refuse(c)

-----------------------------------------------------------------------------
(* The cleanup command.                                                    *)

Stale(x) ==
    \/ files[x].status = "PENDING" /\ ~files[x].open
    \/ files[x].status = "READY" /\ files[x].old /\ Unsubmitted(x)
    \/ files[x].status = "DELETED" /\ files[x].old

LookForStale ==
    /\ run[Cleaner].pc = "free"
    /\ \E x \in Files : Stale(x)
    /\ Step(Cleaner, [Free EXCEPT !.pc = "list", !.todo = {x \in Files : Stale(x)}])

\* Rows locked by others are skipped; a row only submitted since is not.
StillStale(x) == (files[x].status = "READY" /\ files[x].old) \/ Stale(x)

LockStale_Mutant ==
    /\ run[Cleaner].pc = "list"
    /\ LET found == {x \in run[Cleaner].todo : StillStale(x)}
       IN  /\ Set(Cleaner, [Free EXCEPT !.pc = "clean", !.lock = found, !.todo = found])
           /\ raced' = raced \cup {x \in found : ~Unsubmitted(x)}
           /\ UNCHANGED <<queueVars, files, of, bytes>>
LockStale ==
    /\ run[Cleaner].pc = "list"
    /\ LET found == {x \in run[Cleaner].todo : Unlocked(x) /\ StillStale(x)}
       IN  /\ Set(Cleaner, [Free EXCEPT !.pc = "clean", !.lock = found, !.todo = found])
           /\ raced' = raced \cup {x \in found : ~Unsubmitted(x)}
           /\ UNCHANGED <<queueVars, files, of, bytes>>

\* Bytes first, then the row unless it has been submitted.
CleanOne_Mutant ==
    /\ run[Cleaner].pc = "clean"
    /\ \E x \in run[Cleaner].todo :
         /\ bytes' \in {bytes, bytes \ {x}}
         /\ Set(Cleaner, [run[Cleaner] EXCEPT !.todo = @ \ {x}])
    /\ UNCHANGED <<queueVars, files, of, raced>>
CleanOne ==
    /\ run[Cleaner].pc = "clean"
    /\ \E x \in run[Cleaner].todo :
         /\ bytes' = bytes \ {x}
         /\ Set(Cleaner, [run[Cleaner] EXCEPT !.todo = @ \ {x}])
    /\ UNCHANGED <<queueVars, files, of, raced>>

CommitCleanup ==
    /\ run[Cleaner].pc = "clean" /\ run[Cleaner].todo = {}
    /\ files' = [x \in Files |-> IF x \in run[Cleaner].lock /\ Unsubmitted(x) THEN Gone ELSE files[x]]
    /\ Set(Cleaner, Free) /\ UNCHANGED <<queueVars, of, bytes, raced>>

\* One failure rolls every row back, but not the bytes deleted so far.
FailCleanup ==
    /\ run[Cleaner].pc = "clean"
    /\ raced' = raced \cup (run[Cleaner].lock \ bytes)
    /\ Set(Cleaner, Free) /\ UNCHANGED <<queueVars, files, of, bytes>>

\* The same when its connection breaks; the command finds out after deleting the
\* bytes of one more file.
DisconnectCleanup ==
    /\ run[Cleaner].pc = "clean"
    /\ raced' = raced \cup (run[Cleaner].lock \ bytes)
    /\ Set(Cleaner, [run[Cleaner] EXCEPT !.pc = "cut", !.lock = {}]) /\ UNCHANGED <<queueVars, files, of, bytes>>

CleanCut ==
    /\ run[Cleaner].pc = "cut"
    /\ \E x \in run[Cleaner].todo : bytes' = bytes \ {x} /\ raced' = raced \cup {x}
    /\ Set(Cleaner, Free) /\ UNCHANGED <<queueVars, files, of>>

\* ... or with nothing left to delete, or stopped before.
EndCut == run[Cleaner].pc = "cut" /\ Refuse(Cleaner)

Cleanup ==
    \/ LookForStale \/ LockStale \/ CleanOne \/ CommitCleanup \/ FailCleanup
    \/ DisconnectCleanup \/ CleanCut \/ EndCut

-----------------------------------------------------------------------------
(* Deadlines.                                                              *)

Expires(x) == files[x].open /\ files' = [files EXCEPT ![x].open = FALSE]
GrowsOld(x) == files[x].status \in {"READY", "DELETED"} /\ ~files[x].old /\ files' = [files EXCEPT ![x].old = TRUE]
DayOver(x) == files[x].recent /\ files' = [files EXCEPT ![x].recent = FALSE]

Deadlines == (\E x \in Files : Expires(x) \/ GrowsOld(x) \/ DayOver(x)) /\ UNCHANGED <<queueVars, of, bytes, run, raced>>

ClientStep(c) ==
    \/ CountActive(c) \/ InitiateAttachment(c)
    \/ BeginUpload(c) \/ LockUpload(c) \/ StoreBody(c) \/ CommitUpload(c)
    \/ MarkFails(c) \/ CommitUploadFails(c) \/ UndoUpload(c) \/ Disconnect(c)
    \/ LookToRemove(c) \/ RemoveAttachment(c) \/ Unlink(c)
    \/ CountRecent(c) \/ LockReadyFiles(c) \/ CreateFeedback(c) \/ Fail(c)

Next ==
    \/ QueueNext /\ UNCHANGED fileVars
    \/ \E c \in Clients : ClientStep(c)
    \/ Cleanup
    \/ Deadlines

Spec == Init /\ [][Next]_feedbackVars /\ QueueFairness

-----------------------------------------------------------------------------
(* Properties.                                                             *)

\* Types; a lock has one holder, and what is submitted has its rows.
TypeOK ==
    /\ QueueTypeOK
    /\ \A x \in Files : /\ files[x].status \in {"UNUSED", "ABSENT", "PENDING", "READY", "DELETED", "GONE"}
                        /\ of[x] # None => queue[of[x]].status # "ABSENT" /\ HasRow(x)
    /\ bytes \subseteq Files /\ raced \subseteq Files
    /\ \A c, d \in Runs : c # d => run[c].lock \cap run[d].lock = {}

\* Stored bytes have their row, whatever uploads, removals and cleanups overlap:
\* only the cleanup of rows finds bytes to delete, the sweep of vouchers' files
\* leaves screenshots out (RemoveOrphans).  Exempt are the accidents of raced; the
\* one that can leave bytes alone is an upload whose connection broke before Put ended.
BytesHaveRows == \A x \in bytes \ raced : HasRow(x)

\* A submitted screenshot stays stored and READY.  Exempt are the accidents of raced:
\* a removal or cleanup had looked at it before it was submitted; its bytes went
\* with a cleanup that was rolled back, or whose connection broke; or an upload of it
\* stored or deleted its bytes after its commit failed, only its answer was lost,
\* or its connection broke (LockUnsubmittedAppFeedbackFile,
\* ListStaleAppFeedbackFiles, UploadFeedbackAttachment).
SubmittedKept == \A x \in Files \ raced : of[x] # None => files[x].status = "READY" /\ x \in bytes

=============================================================================
