------------------------ MODULE VouAttachments_proofs ------------------------
(***************************************************************************)
(* Proofs about VouAttachments, for any number of files and of uploads in  *)
(* progress, with every failure and crash of the model.                    *)
(*                                                                         *)
(* The argument: whoever works on a file holds its row, and while it does  *)
(* the row is as it was when it was locked (PutHolds, RemovalHolds,        *)
(* CleanupHolds).  An upload that lost its row has met an accident and is  *)
(* exposed.  Bytes are deleted only by an upload that is undone, by those  *)
(* who made or found the row deleted, and by the sweep, which spares every *)
(* key it found; a file whose key it did not find is not READY, or was     *)
(* initiated since.  So the bytes of a READY file are not deleted.         *)
(***************************************************************************)
EXTENDS VouAttachments, TLAPS

\* The steps at which an upload has its row, or has lost it.
Held == {"write", "mark", "audit", "commit", "undo"}

\* Who works on a file names one that exists.
Named ==
    /\ \A u \in Uploads : put[u].at # "idle" => put[u].file \in Files /\ row[put[u].file] # "new"
    /\ removal.at # "idle" => removal.file \in Files
    /\ cleanup.at \in {"delete", "unlink"} => cleanup.file \in Files

PutHolds ==
    \A u \in Uploads : put[u].at \in Held =>
        /\ fileLock[put[u].file] = u => row[put[u].file] = "pending"
        /\ fileLock[put[u].file] # u => put[u].file \in exposed
        /\ put[u].at \in {"mark", "audit", "commit"} => put[u].file \in disk \cup exposed

RemovalHolds ==
    removal.at = "commit" =>
        fileLock[removal.file] = "removal" /\ row[removal.file] \in {"pending", "ready"}

CleanupHolds ==
    /\ cleanup.at = "delete" => fileLock[cleanup.file] = "cleanup" /\ row[cleanup.file] = "pending"
    /\ cleanup.at = "unlink" => row[cleanup.file] = "deleted"
    /\ cleanup.at = "sweep" =>
         \A f \in Files \ cleanup.known : row[f] \in {"new", "deleted"} \/ f \in exposed

\* The inductive invariant.
IInv == TypeOK /\ Named /\ PutHolds /\ RemovalHolds /\ CleanupHolds /\ ReadyOnDisk

LEMMA InitInvariant == Init => IInv
  BY ActorsAssumption
  DEF Init, Idle, CleanupIdle, IInv, TypeOK, Named, PutHolds, RemovalHolds, CleanupHolds,
      ReadyOnDisk, Held

-----------------------------------------------------------------------------
(* Uploads.                                                                *)

LEMMA PutInvariant ==
    ASSUME IInv, NEW u \in Uploads, PutStep(u)
    PROVE  IInv'
  <1> USE ActorsAssumption
      DEF IInv, TypeOK, Named, PutHolds, RemovalHolds, CleanupHolds, ReadyOnDisk, Held,
          At, Goes, Ends, Freed, Connected, Idle
  <1>1. ASSUME NEW f \in Files, BeginUpload(u, f)
        PROVE  IInv'
    BY <1>1 DEF BeginUpload
  <1>2. CASE LockUpload(u)
    BY <1>2 DEF LockUpload
  <1>3. CASE RefuseUpload(u)
    BY <1>3 DEF RefuseUpload
  <1>4. CASE RejectBody(u)
    BY <1>4 DEF RejectBody
  <1>5. CASE StoreBody(u)
    BY <1>5 DEF StoreBody
  <1>6. CASE MarkReady(u)
    BY <1>6 DEF MarkReady
  <1>7. CASE AuditUpload(u)
    BY <1>7 DEF AuditUpload
  <1>8. CASE FailUpload(u)
    BY <1>8 DEF FailUpload
  <1>9. CASE UndoUpload(u)
    BY <1>9 DEF UndoUpload
  <1>10. CASE CommitUpload(u)
    BY <1>10 DEF CommitUpload
  \* The file is exposed whether the database committed or not.
  <1>11. CASE CommitUploadFails(u)
    <2>1. \/ row' = row
          \/ Connected(u) /\ row' = [row EXCEPT ![put[u].file] = "ready"]
      BY <1>11 DEF CommitUploadFails
    <2>2. CASE row' = row
      BY <1>11, <2>2 DEF CommitUploadFails
    <2>3. CASE Connected(u) /\ row' = [row EXCEPT ![put[u].file] = "ready"]
      BY <1>11, <2>3 DEF CommitUploadFails
    <2> QED
      BY <2>1, <2>2, <2>3
  <1>12. CASE Disconnect(u)
    BY <1>12 DEF Disconnect
  <1> QED
    BY <1>1, <1>2, <1>3, <1>4, <1>5, <1>6, <1>7, <1>8, <1>9, <1>10, <1>11, <1>12 DEF PutStep

-----------------------------------------------------------------------------
(* Removals, the cleanup command, deadlines and crashes.                   *)

LEMMA RemovalInvariant ==
    ASSUME IInv, RemovalStep
    PROVE  IInv'
  <1> USE ActorsAssumption
      DEF IInv, TypeOK, Named, PutHolds, RemovalHolds, CleanupHolds, ReadyOnDisk, Held,
          EndsRemoval, Freed, Idle
  <1>1. ASSUME NEW f \in Files, LockDocument(f)
        PROVE  IInv'
    BY <1>1 DEF LockDocument
  <1>2. ASSUME NEW f \in Files, LockFile(f)
        PROVE  IInv'
    BY <1>2 DEF LockFile
  <1>3. ASSUME NEW f \in Files, RefuseRemoval(f)
        PROVE  IInv'
    BY <1>3 DEF RefuseRemoval
  <1>4. CASE FailRemoval
    BY <1>4 DEF FailRemoval
  <1>5. ASSUME NEW f \in Files, CommitRemoval(f)
        PROVE  IInv'
    BY <1>5 DEF CommitRemoval
  <1>6. ASSUME NEW f \in Files, Unlink(f)
        PROVE  IInv'
    BY <1>6 DEF Unlink
  <1> QED
    BY <1>1, <1>2, <1>3, <1>4, <1>5, <1>6 DEF RemovalStep

LEMMA CleanupInvariant ==
    ASSUME IInv, CleanupStep
    PROVE  IInv'
  <1> USE ActorsAssumption
      DEF IInv, TypeOK, Named, PutHolds, RemovalHolds, CleanupHolds, ReadyOnDisk, Held,
          Freed, CleanupIdle, Untouched
  <1>1. CASE BeginCleanup
    BY <1>1 DEF BeginCleanup
  <1>2. ASSUME NEW f \in Files, LockExpired(f)
        PROVE  IInv'
    BY <1>2 DEF LockExpired
  <1>3. ASSUME NEW f \in Files, SkipExpired(f)
        PROVE  IInv'
    BY <1>3 DEF SkipExpired
  <1>4. CASE DeleteExpired
    BY <1>4 DEF DeleteExpired
  <1>5. CASE UnlinkExpired
    BY <1>5 DEF UnlinkExpired
  <1>6. CASE ListKeys
    BY <1>6 DEF ListKeys
  <1>7. ASSUME NEW f \in Files, Visit(f)
        PROVE  IInv'
    BY <1>7 DEF Visit
  <1>8. CASE EndSweep
    BY <1>8 DEF EndSweep
  <1>9. CASE FailCleanup
    BY <1>9 DEF FailCleanup
  <1> QED
    BY <1>1, <1>2, <1>3, <1>4, <1>5, <1>6, <1>7, <1>8, <1>9 DEF CleanupStep

LEMMA OtherInvariant ==
    ASSUME IInv,
           \/ \E f \in Files : InitiateAttachment(f) \/ PassDeadline(f)
           \/ CrashServer
           \/ UNCHANGED vars
    PROVE  IInv'
  <1> USE ActorsAssumption
      DEF IInv, TypeOK, Named, PutHolds, RemovalHolds, CleanupHolds, ReadyOnDisk, Held, Idle
  <1>1. ASSUME NEW f \in Files, InitiateAttachment(f)
        PROVE  IInv'
    BY <1>1 DEF InitiateAttachment
  <1>2. ASSUME NEW f \in Files, PassDeadline(f)
        PROVE  IInv'
    BY <1>2 DEF PassDeadline
  <1>3. CASE CrashServer
    BY <1>3 DEF CrashServer
  <1>4. CASE UNCHANGED vars
    BY <1>4 DEF vars
  <1> QED
    BY <1>1, <1>2, <1>3, <1>4

LEMMA StepInvariant == IInv /\ [Next]_vars => IInv'
  BY PutInvariant, RemovalInvariant, CleanupInvariant, OtherInvariant DEF Next

-----------------------------------------------------------------------------
(* The theorems.                                                           *)

\* The inductive invariant: types, what holders of a file's row may rely on, and
\* READY files on disk.
THEOREM Invariance == Spec => []IInv
  BY InitInvariant, StepInvariant, PTL DEF Spec

\* Rows, locks and requests keep their types.
THEOREM TypeCorrect == Spec => []TypeOK
  BY Invariance, PTL DEF IInv

\* The bytes of a READY file are on disk, but for the two accidents.
THEOREM ReadyAlwaysOnDisk == Spec => []ReadyOnDisk
  BY Invariance, PTL DEF IInv

\* Only its own removal takes a finished upload away.
THEOREM OnlyRemovalTakesReady == Spec => ReadyUntilRemoved
  <1> DEFINE Kept ==
        \A f \in Files : row[f] = "ready" /\ row'[f] # "ready" =>
            removal = [at |-> "commit", file |-> f]
  <1>1. ASSUME IInv, [Next]_vars
        PROVE  Kept
    <2> SUFFICES ASSUME NEW f \in Files, row[f] = "ready", row'[f] # "ready"
                 PROVE  removal = [at |-> "commit", file |-> f]
      OBVIOUS
    <2>1. CASE UNCHANGED vars
      BY <2>1 DEF vars
    <2>2. ASSUME NEW g \in Files, InitiateAttachment(g) \/ PassDeadline(g)
          PROVE  row'[f] = "ready"
      <3>1. CASE InitiateAttachment(g)
        BY <3>1, <1>1 DEF InitiateAttachment, IInv, TypeOK
      <3>2. CASE PassDeadline(g)
        BY <3>2 DEF PassDeadline
      <3> QED
        BY <2>2, <3>1, <3>2
    <2>3. ASSUME NEW u \in Uploads, PutStep(u)
          PROVE  row'[f] = "ready"
      <3>1. CASE CommitUpload(u)
        BY <3>1, <1>1 DEF CommitUpload, IInv, TypeOK
      <3>2. CASE CommitUploadFails(u)
        <4>1. CASE row' = row
          BY <4>1
        <4>2. CASE row' = [row EXCEPT ![put[u].file] = "ready"]
          BY <4>2, <1>1 DEF IInv, TypeOK
        <4> QED
          BY <3>2, <4>1, <4>2 DEF CommitUploadFails
      <3>3. CASE ~CommitUpload(u) /\ ~CommitUploadFails(u)
        BY <2>3, <3>3
        DEF PutStep, BeginUpload, LockUpload, RefuseUpload, RejectBody, StoreBody, MarkReady,
            AuditUpload, FailUpload, UndoUpload, Disconnect
      <3> QED
        BY <3>1, <3>2, <3>3
    <2>4. CASE RemovalStep
      <3>1. ASSUME NEW g \in Files, CommitRemoval(g)
            PROVE  removal = [at |-> "commit", file |-> f]
        BY <3>1, <1>1 DEF CommitRemoval, IInv, TypeOK
      <3>2. CASE \A g \in Files : ~CommitRemoval(g)
        BY <2>4, <3>2
        DEF RemovalStep, LockDocument, LockFile, RefuseRemoval, FailRemoval, Unlink
      <3> QED
        BY <3>1, <3>2
    <2>5. CASE CrashServer
      BY <2>5 DEF CrashServer
    \* The cleanup deletes a row that is pending under its lock.
    <2>6. CASE CleanupStep
      <3>1. CASE DeleteExpired
        BY <3>1, <1>1 DEF DeleteExpired, IInv, TypeOK, CleanupHolds, Named
      <3>2. CASE ~DeleteExpired
        BY <2>6, <3>2
        DEF CleanupStep, BeginCleanup, LockExpired, SkipExpired, UnlinkExpired, ListKeys, Visit,
            EndSweep, FailCleanup
      <3> QED
        BY <3>1, <3>2
    <2> QED
      BY <1>1, <2>1, <2>2, <2>3, <2>4, <2>5, <2>6 DEF Next
  <1>2. IInv /\ [Next]_vars => [Kept]_vars
    BY <1>1
  <1>3. [][Kept]_vars <=> ReadyUntilRemoved
    BY DEF ReadyUntilRemoved
  <1> QED
    BY <1>2, <1>3, Invariance, PTL DEF Spec
=============================================================================
