--------------------------- MODULE Feedback_proofs ---------------------------
(***************************************************************************)
(* Proofs about Feedback, for any number of feedback, publishers, clients  *)
(* and screenshots.                                                        *)
(*                                                                         *)
(* Of the queue: but for a slow publisher, whoever works on a feedback     *)
(* holds its lease alone (Alone), so between its search and its creation   *)
(* of an issue nobody else makes one (Fresh).                              *)
(*                                                                         *)
(* Of the screenshots: a file keeps its status while it is locked.  Those  *)
(* who touch bytes without a lock do so for files that are dropped (Task), *)
(* or are taken down in raced.                                             *)
(***************************************************************************)
EXTENDS Feedback, TLAPS

Attempts == 0..MaxAttempts

QueueRows ==
    [status : {"UNUSED", "ABSENT", "PENDING", "PROCESSING", "PUBLISHED", "FAILED"},
     attempts : Attempts, due : BOOLEAN, leased : BOOLEAN, recent : BOOLEAN]

QueueTypes ==
    /\ queue \in [Feedback -> QueueRows]
    /\ issues \in [Feedback -> [made : Nat, found : BOOLEAN]]
    /\ pub \in [Publishers -> [pc : {"rest", "off", "stopped", "find", "create", "mark", "reschedule"},
                               feedback : Feedback \cup {None}, attempt : Nat,
                               failure : {"none", "transient", "permanent"}]]

\* Leases are of rows in PROCESSING, and what is recorded has an issue.
Recorded ==
    /\ \A f \in Feedback :
         /\ queue[f].leased => queue[f].status = "PROCESSING"
         /\ queue[f].status = "PUBLISHED" => issues[f].made > 0
         /\ issues[f].found => issues[f].made > 0
    /\ \A p \in Publishers :
         /\ Working(p) => pub[p].feedback \in Feedback
         /\ pub[p].pc = "mark" => issues[pub[p].feedback].made > 0

Slow(f) == <<f, "slow">> \in exposed
Missed(f) == <<f, "missed">> \in exposed

Alone ==
    \A p \in Publishers : Working(p) /\ ~Slow(pub[p].feedback) =>
        /\ queue[pub[p].feedback].status = "PROCESSING" /\ queue[pub[p].feedback].leased
        /\ \A q \in Publishers : Working(q) /\ pub[q].feedback = pub[p].feedback => q = p

Fresh ==
    /\ \A f \in Feedback : ~Slow(f) /\ ~Missed(f) => issues[f].made <= 1
    /\ \A p \in Publishers :
         pub[p].pc = "create" /\ ~Slow(pub[p].feedback) /\ ~Missed(pub[p].feedback) =>
             issues[pub[p].feedback].made = 0

QueueInv == QueueTypes /\ Recorded /\ Alone /\ Fresh

-----------------------------------------------------------------------------
(* The queue.                                                              *)

LEMMA QueueInitially == ASSUME NEW on, NEW wanted, QueueInit(on, wanted) PROVE QueueInv
  <1>1. queue \in [Feedback -> QueueRows]
    <2>1. 0 \in Attempts
      BY QueueAssumption DEF Attempts
    <2>2. NoRow \in QueueRows /\ [NoRow EXCEPT !.status = "UNUSED"] \in QueueRows
      BY <2>1 DEF NoRow, QueueRows
    <2> QED
      BY <2>2 DEF QueueInit
  <1>2. \A f \in Feedback : ~queue[f].leased /\ queue[f].status \in {"ABSENT", "UNUSED"}
    BY DEF QueueInit, NoRow
  <1>3. /\ issues \in [Feedback -> [made : Nat, found : BOOLEAN]]
        /\ \A f \in Feedback : issues[f].made = 0 /\ ~issues[f].found
    BY DEF QueueInit
  <1>4. \A p \in Publishers : pub[p] = Resting \/ pub[p] = Off
    BY DEF QueueInit
  <1>5. /\ pub \in [Publishers -> [pc : {"rest", "off", "stopped", "find", "create", "mark", "reschedule"},
                                  feedback : Feedback \cup {None}, attempt : Nat,
                                  failure : {"none", "transient", "permanent"}]]
        /\ \A p \in Publishers : pub[p].pc \in {"rest", "off"}
    BY <1>4 DEF QueueInit, Resting, Off
  <1> QED
    BY <1>1, <1>2, <1>3, <1>5 DEF QueueInv, QueueTypes, Recorded, Alone, Fresh, Working

\* What no step of the queue does: feedback neither appears nor goes.
StatusKept == \A f \in Feedback : queue'[f].status = "ABSENT" <=> queue[f].status = "ABSENT"

LEMMA ClaimedRow ==
    ASSUME NEW row \in QueueRows, row.attempts < MaxAttempts
    PROVE  /\ Claimed(row) \in QueueRows
           /\ Claimed(row).status = "PROCESSING" /\ Claimed(row).leased
  <1>1. row.attempts \in Attempts
    BY DEF QueueRows
  <1>2. row.attempts + 1 \in Attempts
    BY <1>1, QueueAssumption DEF Attempts
  <1> QED
    BY <1>2 DEF Claimed, QueueRows

LEMMA ClaimStep ==
    ASSUME QueueInv, NEW p \in Publishers, Claim(p)
    PROVE  QueueInv' /\ StatusKept
  <1> PICK f \in Feedback :
         /\ Claimable(f)
         /\ queue' = [queue EXCEPT ![f] = Claimed(@)]
         /\ pub' = [pub EXCEPT ![p] = [pc |-> "find", feedback |-> f, attempt |-> queue[f].attempts + 1,
                                       failure |-> "none"]]
    BY DEF Claim
  <1> USE DEF QueueInv, QueueTypes
  <1>1. /\ pub[p].pc = "rest" /\ issues' = issues /\ exposed' = exposed
        /\ queue[f].status \in {"PENDING", "PROCESSING"} /\ queue[f].attempts < MaxAttempts
        /\ ~queue[f].leased
    BY DEF Claim, Claimable, Recorded
  <1>2. /\ queue'[f].status = "PROCESSING" /\ queue'[f].leased
        /\ \A g \in Feedback : g # f => queue'[g] = queue[g]
        /\ pub'[p].pc = "find" /\ pub'[p].feedback = f
        /\ \A q \in Publishers : q # p => pub'[q] = pub[q]
    BY <1>1, ClaimedRow
  <1>3. QueueTypes'
    <2>1. Claimed(queue[f]) \in QueueRows /\ queue[f].attempts + 1 \in Nat
      BY <1>1, ClaimedRow, QueueAssumption DEF QueueRows, Attempts
    <2> QED
      BY <1>1, <2>1
  <1>4. Recorded'
    BY <1>1, <1>2 DEF Recorded, Working
  <1>5. Alone'
    BY <1>1, <1>2 DEF Alone, Working, Slow
  <1>6. Fresh'
    BY <1>1, <1>2 DEF Fresh, Slow, Missed
  <1>7. StatusKept
    BY <1>1, <1>2 DEF StatusKept
  <1> QED
    BY <1>3, <1>4, <1>5, <1>6, <1>7

\* Whoever works goes on working on the same, or stops.
LEMMA WorkerAlone ==
    ASSUME QueueInv, NEW p \in Publishers,
           \A q \in Publishers : q # p => pub'[q] = pub[q],
           \A g \in Feedback : Slow(g) => Slow(g)',
           Working(p)' => Working(p) /\ pub'[p].feedback = pub[p].feedback,
           \A g \in Feedback : queue'[g] # queue[g] => ~Working(p)' /\ Working(p) /\ pub[p].feedback = g
    PROVE  Alone'
  <1> SUFFICES ASSUME NEW q \in Publishers, Working(q)', ~Slow(pub[q].feedback)'
               PROVE  (/\ queue[pub[q].feedback].status = "PROCESSING" /\ queue[pub[q].feedback].leased
                       /\ \A r \in Publishers : Working(r) /\ pub[r].feedback = pub[q].feedback => r = q)'
    BY DEF Alone
  <1>1. Working(q) /\ pub'[q].feedback = pub[q].feedback /\ pub[q].feedback \in Feedback
    BY DEF QueueInv, Recorded, Working
  <1>2. ~Slow(pub[q].feedback)
    BY <1>1 DEF Slow
  <1>3. /\ queue[pub[q].feedback].status = "PROCESSING" /\ queue[pub[q].feedback].leased
        /\ \A r \in Publishers : Working(r) /\ pub[r].feedback = pub[q].feedback => r = q
    BY <1>1, <1>2 DEF QueueInv, Alone
  <1>4. queue'[pub[q].feedback] = queue[pub[q].feedback]
    BY <1>1, <1>3
  <1>5. \A r \in Publishers : Working(r)' => Working(r) /\ pub'[r].feedback = pub[r].feedback
    BY DEF Working
  <1> QED
    BY <1>1, <1>3, <1>4, <1>5

LEMMA FindByMarkerStep ==
    ASSUME QueueInv, NEW p \in Publishers, FindByMarker(p)
    PROVE  QueueInv' /\ StatusKept
  <1> USE DEF QueueInv, QueueTypes
  <1> PICK f \in Feedback : f = pub[p].feedback
    BY DEF FindByMarker, Work, Recorded, Working
  <1>1. /\ pub[p].pc = "find" /\ queue' = queue /\ issues' = issues
        /\ \A q \in Publishers : q # p => pub'[q] = pub[q]
        /\ pub'[p].feedback = f
    BY DEF FindByMarker, Work, Go
  <1>2. QueueTypes'
    BY <1>1 DEF FindByMarker, Go
  <1>3. /\ \A e \in exposed : e \in exposed'
        /\ \/ pub'[p].pc = "mark" /\ issues[f].found
           \/ pub'[p].pc = "create" /\ (issues[f].made > 0 => <<f, "missed">> \in exposed')
    BY <1>1 DEF FindByMarker, Go
  <1>4. Recorded'
    BY <1>1, <1>3 DEF Recorded, Working
  <1>5. Alone'
    BY <1>1, <1>3, WorkerAlone DEF Working, Slow
  <1>6. Fresh'
    <2>1. issues[f].made \in Nat
      OBVIOUS
    <2>2. \A g \in Feedback : ~Slow(g)' /\ ~Missed(g)' => issues'[g].made <= 1
      BY <1>1, <1>3 DEF Fresh, Slow, Missed
    <2>3. pub'[p].pc = "create" /\ ~(<<f, "missed">> \in exposed') => issues[f].made = 0
      BY <1>3, <2>1
    <2>4. ASSUME NEW q \in Publishers, q # p, pub'[q].pc = "create",
                 ~Slow(pub[q].feedback)', ~Missed(pub[q].feedback)'
          PROVE  issues'[pub'[q].feedback].made = 0
      BY <1>1, <1>3, <2>4 DEF Fresh, Slow, Missed
    <2> QED
      BY <1>1, <2>2, <2>3, <2>4 DEF Fresh, Slow, Missed
  <1>7. StatusKept
    BY <1>1 DEF StatusKept
  <1> QED
    BY <1>2, <1>4, <1>5, <1>6, <1>7

\* Nothing but the publisher's own progress.
LEMMA ProgressStep ==
    ASSUME QueueInv, NEW p \in Publishers, NEW t, pub' = [pub EXCEPT ![p] = t],
           UNCHANGED <<queue, issues, exposed>>,
           t \in [pc : {"rest", "stopped", "reschedule"}, feedback : Feedback \cup {None}, attempt : Nat,
                  failure : {"none", "transient", "permanent"}],
           t.pc = "reschedule" => Working(p) /\ t.feedback = pub[p].feedback
    PROVE  QueueInv' /\ StatusKept
  <1>1. /\ pub'[p] = t /\ \A q \in Publishers : q # p => pub'[q] = pub[q]
        /\ queue' = queue /\ issues' = issues /\ exposed' = exposed
    BY DEF QueueInv, QueueTypes
  <1>2. QueueTypes'
    BY <1>1 DEF QueueInv, QueueTypes
  <1>3. Recorded'
    BY <1>1 DEF QueueInv, Recorded, Working
  <1>4. Alone'
    BY <1>1, WorkerAlone DEF Working, Slow
  <1>5. Fresh'
    BY <1>1 DEF QueueInv, Fresh, Slow, Missed
  <1> QED
    BY <1>1, <1>2, <1>3, <1>4, <1>5 DEF QueueInv, StatusKept

LEMMA RequestFailsStep ==
    ASSUME QueueInv, NEW p \in Publishers, NEW failure \in {"transient", "permanent"}, RequestFails(p, failure)
    PROVE  QueueInv' /\ StatusKept
  <1> DEFINE t == [pub[p] EXCEPT !.pc = "reschedule", !.failure = failure]
  <1>1. pub' = [pub EXCEPT ![p] = t] /\ Working(p)
    BY DEF RequestFails, GiveUp, QueueInv, QueueTypes, Working
  <1>2. /\ t \in [pc : {"rest", "stopped", "reschedule"}, feedback : Feedback \cup {None}, attempt : Nat,
                   failure : {"none", "transient", "permanent"}]
        /\ t.feedback = pub[p].feedback
    BY DEF QueueInv, QueueTypes
  <1> HIDE DEF t
  <1> QED
    BY <1>1, <1>2, ProgressStep DEF RequestFails

LEMMA StartServerStep ==
    ASSUME QueueInv, NEW p \in Publishers, StartServer(p)
    PROVE  QueueInv' /\ StatusKept
  <1>1. Resting \in [pc : {"rest", "stopped", "reschedule"}, feedback : Feedback \cup {None}, attempt : Nat,
                     failure : {"none", "transient", "permanent"}]
        /\ Resting.pc = "rest"
    BY DEF Resting
  <1> QED
    BY <1>1, ProgressStep DEF StartServer

LEMMA CreateStep ==
    ASSUME QueueInv, NEW p \in Publishers, Create(p)
    PROVE  QueueInv' /\ StatusKept
  <1> USE DEF QueueInv, QueueTypes
  <1> PICK f \in Feedback : f = pub[p].feedback
    BY DEF Create, Work, Recorded, Working
  <1>1. /\ pub[p].pc = "create" /\ queue' = queue /\ exposed' = exposed
        /\ \A q \in Publishers : q # p => pub'[q] = pub[q]
        /\ pub'[p].feedback = f /\ pub'[p].pc \in {"mark", "reschedule"}
    BY DEF Create, Work, Go, GiveUp
  <1>2. /\ issues[f].made \in Nat
        /\ issues'[f].made = issues[f].made + 1 /\ issues'[f].found = issues[f].found
        /\ \A g \in Feedback : g # f => issues'[g] = issues[g]
    BY DEF Create
  <1>3. QueueTypes'
    <2>1. pub' \in [Publishers -> [pc : {"rest", "off", "stopped", "find", "create", "mark", "reschedule"},
                               feedback : Feedback \cup {None}, attempt : Nat,
                               failure : {"none", "transient", "permanent"}]]
      BY DEF Create, Go, GiveUp
    <2>2. issues' \in [Feedback -> [made : Nat, found : BOOLEAN]]
      <3>1. issues' = [issues EXCEPT ![f].made = issues[f].made + 1] /\ issues[f].made + 1 \in Nat
        BY <1>2 DEF Create
      <3> QED
        BY <3>1
    <2> QED
      BY <1>1, <2>1, <2>2
  <1>4. /\ issues'[f].made > 0
        /\ \A g \in Feedback : /\ issues[g].made > 0 => issues'[g].made > 0
                               /\ issues'[g].found = issues[g].found
    BY <1>2
  <1>5. Recorded'
    BY <1>1, <1>4 DEF Recorded, Working
  <1>6. Alone'
    BY <1>1, WorkerAlone DEF Working, Slow
  <1>7. Fresh'
    <2>1. ~Slow(f) /\ ~Missed(f) => issues'[f].made <= 1
      BY <1>1, <1>2 DEF Fresh
    <2>2. ASSUME NEW q \in Publishers, pub'[q].pc = "create", ~Slow(pub'[q].feedback), ~Missed(pub'[q].feedback)
          PROVE  issues'[pub'[q].feedback].made = 0
      <3>1. q # p /\ pub'[q] = pub[q] /\ pub[q].feedback \in Feedback
        BY <1>1, <2>2 DEF Recorded, Working
      <3>2. pub[q].feedback # f
        BY <1>1, <2>2, <3>1 DEF Alone, Working
      <3> QED
        BY <1>2, <2>2, <3>1, <3>2 DEF Fresh
    <2> QED
      BY <1>1, <1>2, <2>1, <2>2 DEF Fresh, Slow, Missed
  <1>8. StatusKept
    BY <1>1 DEF StatusKept
  <1> QED
    BY <1>3, <1>5, <1>6, <1>7, <1>8

\* The end of a publisher's work on a row that is still PROCESSING.
LEMMA EndedStep ==
    ASSUME QueueInv, NEW p \in Publishers, Working(p), NEW row \in QueueRows,
           queue[pub[p].feedback].status = "PROCESSING",
           queue' = [queue EXCEPT ![pub[p].feedback] = row],
           pub' = [pub EXCEPT ![p] = Resting],
           UNCHANGED <<issues, exposed>>,
           ~row.leased, row.status # "ABSENT",
           row.status = "PUBLISHED" => issues[pub[p].feedback].made > 0
    PROVE  QueueInv' /\ StatusKept
  <1> PICK f \in Feedback : f = pub[p].feedback
    BY DEF QueueInv, Recorded
  <1>1. Resting.pc = "rest"
    BY DEF Resting
  <1>2. /\ pub'[p].pc = "rest" /\ \A q \in Publishers : q # p => pub'[q] = pub[q]
        /\ queue'[f] = row /\ \A g \in Feedback : g # f => queue'[g] = queue[g]
        /\ issues' = issues /\ exposed' = exposed
    BY <1>1 DEF QueueInv, QueueTypes
  <1>3. QueueTypes'
    BY <1>2 DEF QueueInv, QueueTypes, Resting
  <1>4. Recorded'
    BY <1>2 DEF QueueInv, Recorded, Working
  <1>5. Alone'
    BY <1>2, WorkerAlone DEF Working, Slow
  <1>6. Fresh'
    BY <1>2 DEF QueueInv, Fresh, Slow, Missed
  <1>7. StatusKept
    BY <1>2 DEF StatusKept
  <1> QED
    BY <1>3, <1>4, <1>5, <1>6, <1>7 DEF QueueInv

\* The publisher finds that another has ended its work, and stops.
LEMMA StoppedStep ==
    ASSUME QueueInv, NEW p \in Publishers, Go(p, "stopped"), UNCHANGED <<queue, issues, exposed>>
    PROVE  QueueInv' /\ StatusKept
  <1> DEFINE t == [pub[p] EXCEPT !.pc = "stopped"]
  <1>1. pub' = [pub EXCEPT ![p] = t]
    BY DEF Go, QueueInv, QueueTypes
  <1>2. /\ t \in [pc : {"rest", "stopped", "reschedule"}, feedback : Feedback \cup {None}, attempt : Nat,
                   failure : {"none", "transient", "permanent"}]
        /\ t.pc = "stopped"
    BY DEF QueueInv, QueueTypes
  <1> HIDE DEF t
  <1> QED
    BY <1>1, <1>2, ProgressStep

Published(row) == [row EXCEPT !.status = "PUBLISHED", !.leased = FALSE]
Rescheduled(row, status, due) == [row EXCEPT !.status = status, !.due = due, !.leased = FALSE]

LEMMA PublishedRow ==
    ASSUME NEW row \in QueueRows
    PROVE  Published(row) \in QueueRows /\ Published(row).status = "PUBLISHED" /\ ~Published(row).leased
  <1> DEFINE a == [row EXCEPT !.status = "PUBLISHED"]
             b == [a EXCEPT !.leased = FALSE]
  <1>1. Published(row) = b
    BY Zenon DEF Published
  <1>2. a \in QueueRows /\ a.status = "PUBLISHED"
    BY DEF QueueRows
  <1> HIDE DEF a
  <1>3. b \in QueueRows /\ b.status = "PUBLISHED" /\ ~b.leased
    BY <1>2 DEF QueueRows
  <1> HIDE DEF b
  <1> QED
    BY <1>1, <1>3, Zenon

LEMMA RescheduledRow ==
    ASSUME NEW row \in QueueRows, NEW status \in {"PENDING", "FAILED"}, NEW due \in BOOLEAN
    PROVE  /\ Rescheduled(row, status, due) \in QueueRows
           /\ Rescheduled(row, status, due).status = status
           /\ ~Rescheduled(row, status, due).leased
  <1> DEFINE a == [row EXCEPT !.status = status]
             b == [a EXCEPT !.due = due]
             c == [b EXCEPT !.leased = FALSE]
  <1>1. Rescheduled(row, status, due) = c
    BY Zenon DEF Rescheduled
  <1>2. a \in QueueRows /\ a.status = status
    BY DEF QueueRows
  <1> HIDE DEF a
  <1>3. b \in QueueRows /\ b.status = status
    BY <1>2 DEF QueueRows
  <1> HIDE DEF b
  <1>4. c \in QueueRows /\ c.status = status /\ ~c.leased
    BY <1>3 DEF QueueRows
  <1> HIDE DEF c
  <1> QED
    BY <1>1, <1>4, Zenon

LEMMA MarkPublishedStep ==
    ASSUME QueueInv, NEW p \in Publishers, MarkPublished(p)
    PROVE  QueueInv' /\ StatusKept
  <1>1. CASE queue[pub[p].feedback].status # "PROCESSING"
    BY <1>1, StoppedStep DEF MarkPublished
  <1>2. CASE queue[pub[p].feedback].status = "PROCESSING"
    <2> PICK f \in Feedback : f = pub[p].feedback
      BY DEF MarkPublished, Work, QueueInv, Recorded, Working
    <2> DEFINE row == Published(queue[f])
    <2>1. row \in QueueRows /\ row.status = "PUBLISHED" /\ ~row.leased
      BY PublishedRow DEF QueueInv, QueueTypes
    <2>2. queue' = [queue EXCEPT ![f] = row]
      BY <1>2 DEF MarkPublished, QueueInv, QueueTypes, Published
    <2>3. Working(p) /\ issues[f].made > 0
      BY DEF MarkPublished, Work, Working, QueueInv, Recorded
    <2> HIDE DEF row
    <2> QED
      BY <1>2, <2>1, <2>2, <2>3, EndedStep DEF MarkPublished
  <1> QED
    BY <1>1, <1>2

LEMMA RescheduleStep ==
    ASSUME QueueInv, NEW p \in Publishers, Reschedule(p)
    PROVE  QueueInv' /\ StatusKept
  <1>1. CASE queue[pub[p].feedback].status # "PROCESSING"
    BY <1>1, StoppedStep DEF Reschedule
  <1>2. CASE queue[pub[p].feedback].status = "PROCESSING"
    <2> PICK f \in Feedback : f = pub[p].feedback
      BY DEF Reschedule, Work, QueueInv, Recorded, Working
    <2> PICK status \in {"PENDING", "FAILED"} : status = StatusAfter(pub[p].attempt, pub[p].failure)
      BY DEF StatusAfter
    <2> DEFINE row == Rescheduled(queue[f], status, status = "FAILED")
    <2>1. row \in QueueRows /\ row.status = status /\ ~row.leased
      BY RescheduledRow DEF QueueInv, QueueTypes
    <2>2. queue' = [queue EXCEPT ![f] = row]
      BY <1>2 DEF Reschedule, QueueInv, QueueTypes, Rescheduled
    <2>3. Working(p)
      BY DEF Reschedule, Work, Working
    <2> HIDE DEF row
    <2> QED
      BY <1>2, <2>1, <2>2, <2>3, EndedStep DEF Reschedule
  <1> QED
    BY <1>1, <1>2

LEMMA StopServerStep ==
    ASSUME QueueInv, NEW p \in Publishers, StopServer(p)
    PROVE  QueueInv' /\ StatusKept
  <1> USE DEF QueueInv, QueueTypes
  <1>1. /\ queue' = queue /\ issues' = issues /\ \A e \in exposed : e \in exposed'
        /\ pub'[p].pc = "stopped" /\ \A q \in Publishers : q # p => pub'[q] = pub[q]
    BY DEF StopServer, Go
  <1>2. QueueTypes'
    BY <1>1 DEF StopServer, Go
  <1>3. Recorded'
    BY <1>1 DEF Recorded, Working
  <1>4. Alone'
    BY <1>1, WorkerAlone DEF Working, Slow
  <1>5. Fresh'
    BY <1>1 DEF Fresh, Slow, Missed
  <1> QED
    BY <1>1, <1>2, <1>3, <1>4, <1>5 DEF StatusKept

-----------------------------------------------------------------------------
(* Time passes in the queue, and GitHub's search catches up.               *)

\* A row whose status stays, and whose lease may end while nobody works on it
\* unless that is recorded as slow.
LEMMA PassingStep ==
    ASSUME QueueInv, NEW f \in Feedback, NEW row \in QueueRows, queue' = [queue EXCEPT ![f] = row],
           UNCHANGED <<issues, pub>>, row.status = queue[f].status, row.leased => queue[f].leased,
           \A e \in exposed : e \in exposed',
           row.leased \/ ~queue[f].leased \/ ~WorkedOn(f) \/ <<f, "slow">> \in exposed'
    PROVE  QueueInv' /\ StatusKept
  <1>1. /\ queue'[f] = row /\ \A g \in Feedback : g # f => queue'[g] = queue[g]
        /\ issues' = issues /\ pub' = pub
    BY DEF QueueInv, QueueTypes
  <1>2. QueueTypes'
    BY <1>1 DEF QueueInv, QueueTypes
  <1>3. Recorded'
    BY <1>1 DEF QueueInv, Recorded, Working
  <1>4. Alone'
    <2> SUFFICES ASSUME NEW q \in Publishers, Working(q)', ~(<<pub[q].feedback, "slow">> \in exposed')
                 PROVE  /\ queue'[pub[q].feedback].status = "PROCESSING" /\ queue'[pub[q].feedback].leased
                        /\ \A r \in Publishers : Working(r) /\ pub[r].feedback = pub[q].feedback => r = q
      BY <1>1 DEF Alone, Slow, Working
    <2>1. Working(q) /\ ~Slow(pub[q].feedback) /\ pub[q].feedback \in Feedback
      BY <1>1 DEF Working, Slow, QueueInv, Recorded
    <2>2. /\ queue[pub[q].feedback].status = "PROCESSING" /\ queue[pub[q].feedback].leased
          /\ \A r \in Publishers : Working(r) /\ pub[r].feedback = pub[q].feedback => r = q
      BY <2>1 DEF QueueInv, Alone
    <2> QED
      BY <1>1, <2>1, <2>2 DEF WorkedOn
  <1>5. Fresh'
    BY <1>1 DEF QueueInv, Fresh, Slow, Missed
  <1>6. StatusKept
    BY <1>1 DEF StatusKept
  <1> QED
    BY <1>2, <1>3, <1>4, <1>5, <1>6 DEF QueueInv

LEMMA PassesStep ==
    ASSUME QueueInv, NEW f \in Feedback, Passes(f)
    PROVE  QueueInv' /\ StatusKept
  <1>1. CASE DueAgain(f)
    <2> DEFINE row == [queue[f] EXCEPT !.due = TRUE]
    <2>1. row \in QueueRows /\ row.status = queue[f].status /\ row.leased = queue[f].leased
      BY DEF QueueInv, QueueTypes, QueueRows
    <2>2. queue' = [queue EXCEPT ![f] = row]
      BY <1>1 DEF DueAgain, QueueInv, QueueTypes
    <2> HIDE DEF row
    <2> QED
      BY <1>1, <2>1, <2>2, PassingStep DEF DueAgain
  <1>2. CASE LeaseEnds(f)
    <2> DEFINE row == [queue[f] EXCEPT !.leased = FALSE]
    <2>1. row \in QueueRows /\ row.status = queue[f].status /\ ~row.leased
      BY DEF QueueInv, QueueTypes, QueueRows
    <2>2. queue' = [queue EXCEPT ![f] = row]
      BY <1>2 DEF LeaseEnds, QueueInv, QueueTypes
    <2>3. /\ \A e \in exposed : e \in exposed'
          /\ ~WorkedOn(f) \/ <<f, "slow">> \in exposed'
      BY <1>2 DEF LeaseEnds
    <2> HIDE DEF row
    <2> QED
      BY <1>2, <2>1, <2>2, <2>3, PassingStep DEF LeaseEnds
  <1>3. CASE DayPasses(f)
    <2> DEFINE row == [queue[f] EXCEPT !.recent = FALSE]
    <2>1. row \in QueueRows /\ row.status = queue[f].status /\ row.leased = queue[f].leased
      BY DEF QueueInv, QueueTypes, QueueRows
    <2>2. queue' = [queue EXCEPT ![f] = row]
      BY <1>3 DEF DayPasses, QueueInv, QueueTypes
    <2> HIDE DEF row
    <2> QED
      BY <1>3, <2>1, <2>2, PassingStep DEF DayPasses
  <1>4. CASE Index(f)
    <2>1. /\ queue' = queue /\ pub' = pub /\ exposed' = exposed
          /\ issues[f].made > 0
          /\ \A g \in Feedback : issues'[g].made = issues[g].made
          /\ \A g \in Feedback : g # f => issues'[g] = issues[g]
      BY <1>4 DEF Index, QueueInv, QueueTypes
    <2>2. QueueTypes'
      BY <1>4 DEF Index, QueueInv, QueueTypes
    <2>3. Recorded'
      BY <2>1 DEF QueueInv, Recorded, Working
    <2>4. Alone'
      BY <2>1 DEF QueueInv, Alone, Working, Slow
    <2>5. Fresh'
      BY <2>1 DEF QueueInv, Recorded, Working, Fresh, Slow, Missed
    <2> QED
      BY <2>1, <2>2, <2>3, <2>4, <2>5 DEF QueueInv, StatusKept
  <1> QED
    BY <1>1, <1>2, <1>3, <1>4 DEF Passes

LEMMA QueueStep == ASSUME QueueInv, QueueNext PROVE QueueInv' /\ StatusKept
  <1>1. ASSUME NEW p \in Publishers, Publish(p) PROVE QueueInv' /\ StatusKept
    BY <1>1, ClaimStep, FindByMarkerStep, RequestFailsStep, CreateStep, MarkPublishedStep, RescheduleStep
       DEF Publish
  <1> QED
    BY <1>1, StopServerStep, StartServerStep, PassesStep DEF QueueNext

-----------------------------------------------------------------------------
(* Screenshots and submissions: the invariant.                             *)

FileRows ==
    [status : {"UNUSED", "ABSENT", "PENDING", "READY", "DELETED", "GONE"},
     open : BOOLEAN, old : BOOLEAN, recent : BOOLEAN]

RunRows ==
    [pc : {"free", "declare", "token", "upload", "stored", "undo", "remove", "unlink", "attach", "submit",
           "list", "clean", "cut"},
     file : Files \cup {None}, feedback : Feedback \cup {None}, lock : SUBSET Files,
     rate : BOOLEAN, quota : BOOLEAN, todo : SUBSET Files]

Stored ==
    /\ files \in [Files -> FileRows]
    /\ of \in [Files -> Feedback \cup {None}]
    /\ bytes \subseteq Files /\ raced \subseteq Files

Uploads == {"upload", "stored", "undo"}
AtFile == {"declare", "token", "upload", "stored", "undo", "remove", "unlink"}
Dropped == {"DELETED", "GONE"}

\* What a run may count on at each of its statements, whatever others do.
Task(c, t) ==
    /\ c = Cleaner <=> t.pc \in {"list", "clean", "cut"} \/ (c = Cleaner /\ t.pc = "free")
    /\ t.pc \notin Uploads \cup {"submit", "clean"} => t.lock = {}
    /\ t.pc \in AtFile => t.file \in Files
    /\ t.pc = "declare" =>
         /\ files[t.file].status = "ABSENT"
         /\ \A d \in Runs \ {c} : run[d].pc = "declare" => run[d].file # t.file
    /\ t.pc \in Uploads /\ t.lock # {} => t.lock = {t.file} /\ files[t.file].status = "PENDING"
    /\ t.pc = "stored" /\ t.lock # {} => t.file \in bytes \/ t.file \in raced
    /\ t.pc = "unlink" => files[t.file].status \in Dropped
    /\ t.pc \in {"attach", "submit"} =>
         /\ t.feedback \in Feedback /\ queue[t.feedback].status = "ABSENT"
         /\ \A d \in Runs \ {c} : run[d].pc \in {"attach", "submit"} => run[d].feedback # t.feedback
    /\ t.pc = "submit" => t.todo = t.lock /\ \A x \in t.lock : files[x].status = "READY"
    /\ t.pc = "clean" =>
         /\ \A x \in t.lock : HasRow(x) /\ (x \in raced \/ of[x] = None)
         /\ t.todo \subseteq t.lock
         /\ \A x \in t.lock \ t.todo : x \notin bytes \/ x \in raced

LocksApart == \A c, d \in Runs : c # d => run[c].lock \cap run[d].lock = {}

RunInv ==
    /\ run \in [Runs -> RunRows]
    /\ LocksApart
    /\ \A c \in Runs : Task(c, run[c])

Cleaned(x) == run[Cleaner].pc = "clean" /\ x \in run[Cleaner].lock

KeptFile(x) ==
    /\ x \notin raced /\ files[x].status = "READY" => x \in bytes \/ Cleaned(x)
    /\ x \notin raced /\ of[x] # None => files[x].status = "READY"
    /\ of[x] # None => HasRow(x) /\ queue[of[x]].status # "ABSENT"
    /\ x \notin raced /\ x \in bytes => HasRow(x)

Kept == \A x \in Files : KeptFile(x)

IInv == QueueInv /\ Stored /\ RunInv /\ Kept

\* What one run does leaves what the others count on.
Undisturbed(d) ==
    /\ \A x \in run[d].lock : /\ files'[x].status = files[x].status /\ of'[x] = of[x]
                              /\ x \in bytes' => x \in bytes \/ x \in raced'
    /\ run[d].pc = "stored" /\ run[d].lock # {} => run[d].file \in bytes' \/ run[d].file \in raced'
    /\ run[d].pc = "declare" => files'[run[d].file].status = "ABSENT"
    /\ run[d].pc = "unlink" => files'[run[d].file].status \in Dropped
    /\ run[d].pc \in {"attach", "submit"} => queue'[run[d].feedback].status = "ABSENT"

Steady(c) == (\A d \in Runs \ {c} : Undisturbed(d)) /\ (\A x \in raced : x \in raced')

LEMMA RunStep ==
    ASSUME IInv, NEW c \in Runs, NEW t \in RunRows, Set(c, t), Steady(c),
           \A d \in Runs \ {c} : t.lock \cap run[d].lock = {},
           Task(c, t)'
    PROVE  RunInv'
  <1>1. /\ run'[c] = t /\ \A d \in Runs \ {c} : run'[d] = run[d]
        /\ run' \in [Runs -> RunRows]
    BY DEF Set, IInv, RunInv
  <1>2. LocksApart'
    BY <1>1 DEF IInv, RunInv, LocksApart
  <1>3. ASSUME NEW d \in Runs \ {c}
        PROVE  Task(d, run[d])'
    <2>1. /\ run'[d] = run[d] /\ Task(d, run[d]) /\ Undisturbed(d)
          /\ \A x \in raced : x \in raced'
      BY <1>1 DEF IInv, RunInv, Steady
    <2>2. run[d].pc = "declare" =>
            /\ files'[run[d].file].status = "ABSENT"
            /\ \A e \in Runs \ {d} : run'[e].pc = "declare" => run'[e].file # run[d].file
      BY <1>1, <2>1 DEF Task, Undisturbed
    <2>3. run[d].pc \in {"attach", "submit"} =>
            \A e \in Runs \ {d} : run'[e].pc \in {"attach", "submit"} => run'[e].feedback # run[d].feedback
      BY <1>1, <2>1 DEF Task
    <2>4. run[d].pc = "clean" =>
            /\ \A x \in run[d].lock : HasRow(x)' /\ (x \in raced' \/ of'[x] = None)
            /\ \A x \in run[d].lock \ run[d].todo : x \notin bytes' \/ x \in raced'
      BY <2>1 DEF Task, Undisturbed, HasRow
    <2>5. run[d].pc \in Uploads /\ run[d].lock # {} =>
            run[d].lock = {run[d].file} /\ files'[run[d].file].status = "PENDING"
      BY <2>1 DEF Task, Undisturbed
    <2>6. run[d].pc = "submit" => \A x \in run[d].lock : files'[x].status = "READY"
      BY <2>1 DEF Task, Undisturbed
    <2>7. /\ run[d].pc = "stored" /\ run[d].lock # {} => run[d].file \in bytes' \/ run[d].file \in raced'
          /\ run[d].pc = "unlink" => files'[run[d].file].status \in Dropped
          /\ run[d].pc \in {"attach", "submit"} => queue'[run[d].feedback].status = "ABSENT"
      BY <2>1 DEF Undisturbed
    <2> QED
      BY <2>1, <2>2, <2>3, <2>4, <2>5, <2>6, <2>7 DEF Task
  <1> QED
    BY <1>1, <1>2, <1>3 DEF RunInv

LEMMA QueueStutter == ASSUME QueueInv, UNCHANGED queueVars PROVE QueueInv'
  BY DEF queueVars, QueueInv, QueueTypes, Recorded, Alone, Fresh, Working, Slow, Missed

\* A run that stands where it stood: nothing it counts on has changed.
LEMMA UndisturbedSame ==
    ASSUME IInv, NEW d \in Runs, queue' = queue, files' = files, of' = of,
           \A x \in bytes' : x \in bytes \/ x \in raced',
           \A x \in bytes : x \in bytes' \/ x \in raced',
           \A x \in raced : x \in raced'
    PROVE  Undisturbed(d)
  <1>1. Task(d, run[d])
    BY DEF IInv, RunInv
  <1> QED
    BY <1>1 DEF Task, Undisturbed

\* A run moves on and nothing else changes.
LEMMA QuietStep ==
    ASSUME IInv, NEW c \in Runs, NEW t \in RunRows, Step(c, t),
           \A d \in Runs \ {c} : t.lock \cap run[d].lock = {},
           Task(c, t), run[c].pc # "clean"
    PROVE  IInv'
  <1>1. /\ queue' = queue /\ files' = files /\ of' = of /\ bytes' = bytes /\ raced' = raced
        /\ UNCHANGED queueVars /\ Set(c, t)
        /\ run'[c] = t /\ \A d \in Runs \ {c} : run'[d] = run[d]
    BY DEF Step, queueVars, Set, IInv, RunInv
  <1>2. Steady(c)
    BY <1>1, UndisturbedSame DEF Steady
  <1>3. Task(c, t)'
    BY <1>1 DEF Task, HasRow
  <1>4. RunInv'
    BY <1>1, <1>2, <1>3, RunStep
  <1>5. \A x : Cleaned(x) => Cleaned(x)'
    BY <1>1 DEF Cleaned, Runs
  <1>6. Kept'
    BY <1>1, <1>5 DEF IInv, Kept, KeptFile, HasRow
  <1>7. Stored'
    BY <1>1 DEF IInv, Stored
  <1> QED
    BY <1>1, <1>4, <1>6, <1>7, QueueStutter DEF IInv

LEMMA FreeFits == Free \in RunRows /\ Free.pc = "free" /\ Free.lock = {}
  BY DEF Free, RunRows

LEMMA FreeTask == ASSUME NEW c \in Runs PROVE Task(c, Free) /\ Task(c, Free)'
  BY FreeFits DEF Task, Uploads, AtFile

LEMMA RefuseStep ==
    ASSUME IInv, NEW c \in Runs, Refuse(c), run[c].pc # "clean"
    PROVE  IInv'
  BY FreeFits, FreeTask, QuietStep DEF Refuse

LEMMA InitInvariant == Init => IInv
  <1> SUFFICES ASSUME Init PROVE IInv
    OBVIOUS
  <1>1. QueueInv
    BY QueueInitially DEF Init
  <1>2. /\ files \in [Files -> {NoFile, Unused}] /\ of = [x \in Files |-> None]
        /\ bytes = {} /\ raced = {} /\ run = [c \in Runs |-> Free]
    BY DEF Init
  <1>3. NoFile \in FileRows /\ Unused \in FileRows /\ NoFile.status = "ABSENT" /\ Unused.status = "UNUSED"
    BY DEF NoFile, Unused, FileRows
  <1>4. Stored /\ Kept
    BY <1>2, <1>3 DEF Stored, Kept, KeptFile
  <1>5. RunInv
    BY <1>2, FreeFits, FreeTask DEF RunInv, LocksApart
  <1> QED
    BY <1>1, <1>4, <1>5 DEF IInv

-----------------------------------------------------------------------------
(* Screenshots and submissions: the steps that only move a run on.         *)

\* Where a client stands.
LEMMA ClientTask ==
    ASSUME IInv, NEW c \in Clients
    PROVE  /\ c \in Runs /\ c # Cleaner /\ Task(c, run[c]) /\ run[c] \in RunRows
           /\ run[c].pc \notin {"list", "clean", "cut"}
  BY FeedbackAssumption DEF IInv, RunInv, Task, Runs

LEMMA CountActiveStep ==
    ASSUME IInv, NEW c \in Clients, CountActive(c)
    PROVE  IInv'
  <1> PICK x \in Files :
         /\ files[x] = NoFile
         /\ \A d \in Clients : run[d].file # x
         /\ Step(c, [Free EXCEPT !.pc = "declare", !.file = x, !.quota = TRUE])
    BY DEF CountActive
  <1> DEFINE t == [Free EXCEPT !.pc = "declare", !.file = x, !.quota = TRUE]
  <1>1. t \in RunRows /\ t.pc = "declare" /\ t.lock = {} /\ t.file = x
    BY DEF Free, RunRows
  <1>2. \A d \in Runs \ {c} : run[d].pc = "declare" => run[d].file # x
    BY FeedbackAssumption DEF IInv, RunInv, Task, Runs
  <1>3. files[x].status = "ABSENT" /\ c # Cleaner /\ c \in Runs
    BY ClientTask DEF NoFile
  <1> HIDE DEF t
  <1>4. Task(c, t)
    BY <1>1, <1>2, <1>3 DEF Task, Uploads
  <1> QED
    BY <1>1, <1>3, <1>4, ClientTask, QuietStep DEF t, CountActive

\* A client goes to a statement at which it counts on no row.
LEMMA GoStep ==
    ASSUME IInv, NEW c \in Clients, NEW t \in RunRows, Step(c, t),
           t.pc \in {"token", "remove", "undo", "upload", "stored"}, t.file \in Files, t.lock = {}
    PROVE  IInv'
  <1>1. c # Cleaner /\ c \in Runs /\ run[c].pc # "clean"
    BY ClientTask
  <1>2. Task(c, t)
    BY <1>1 DEF Task
  <1> QED
    BY <1>1, <1>2, QuietStep

LEMMA BeginUploadStep ==
    ASSUME IInv, NEW c \in Clients, BeginUpload(c)
    PROVE  IInv'
  <1> PICK x \in Files : Step(c, [Free EXCEPT !.pc = "token", !.file = x])
    BY DEF BeginUpload
  <1> DEFINE t == [Free EXCEPT !.pc = "token", !.file = x]
  <1>1. t \in RunRows /\ t.pc = "token" /\ t.lock = {} /\ t.file = x
    BY DEF Free, RunRows
  <1> HIDE DEF t
  <1> QED
    BY <1>1, GoStep DEF t

LEMMA LookToRemoveStep ==
    ASSUME IInv, NEW c \in Clients, LookToRemove(c)
    PROVE  IInv'
  <1> PICK x \in Files : Step(c, [Free EXCEPT !.pc = "remove", !.file = x])
    BY DEF LookToRemove
  <1> DEFINE t == [Free EXCEPT !.pc = "remove", !.file = x]
  <1>1. t \in RunRows /\ t.pc = "remove" /\ t.lock = {} /\ t.file = x
    BY DEF Free, RunRows
  <1> HIDE DEF t
  <1> QED
    BY <1>1, GoStep DEF t

LEMMA LockUploadStep ==
    ASSUME IInv, NEW c \in Clients, LockUpload(c)
    PROVE  IInv'
  <1> PICK x : x = run[c].file
    OBVIOUS
  <1>1. CASE Refuse(c)
    BY <1>1, ClientTask, RefuseStep
  <1>2. CASE files[x].status = "PENDING" /\ Step(c, [run[c] EXCEPT !.pc = "upload", !.lock = {x}])
    <2> DEFINE t == [run[c] EXCEPT !.pc = "upload", !.lock = {x}]
    <2>1. /\ c \in Runs /\ c # Cleaner /\ x \in Files /\ run[c] \in RunRows /\ run[c].pc = "token"
      BY ClientTask DEF LockUpload, Task, AtFile
    <2>2. t \in RunRows /\ t.pc = "upload" /\ t.lock = {x} /\ t.file = x
      BY <2>1 DEF RunRows
    <2> HIDE DEF t
    <2>3. Task(c, t)
      BY <1>2, <2>1, <2>2 DEF Task, Uploads
    <2>4. \A d \in Runs \ {c} : t.lock \cap run[d].lock = {}
      BY <2>2 DEF LockUpload, Unlocked
    <2> QED
      BY <1>2, <2>1, <2>2, <2>3, <2>4, QuietStep DEF t
  <1> QED
    BY <1>1, <1>2 DEF LockUpload

LEMMA MarkFailsStep ==
    ASSUME IInv, NEW c \in Clients, MarkFails(c)
    PROVE  IInv'
  <1> DEFINE t == [run[c] EXCEPT !.pc = "undo"]
  <1>1. /\ c \in Runs /\ c # Cleaner /\ Task(c, run[c]) /\ run[c] \in RunRows /\ run[c].pc = "stored"
    BY ClientTask DEF MarkFails
  <1>2. t \in RunRows /\ t.pc = "undo" /\ t.lock = run[c].lock /\ t.file = run[c].file /\ Step(c, t)
    BY <1>1 DEF RunRows, MarkFails
  <1> HIDE DEF t
  <1>3. Task(c, t)
    BY <1>1, <1>2 DEF Task, Uploads, AtFile
  <1>4. \A d \in Runs \ {c} : t.lock \cap run[d].lock = {}
    BY <1>1, <1>2 DEF IInv, RunInv, LocksApart
  <1> QED
    BY <1>1, <1>2, <1>3, <1>4, QuietStep

LEMMA DisconnectStep ==
    ASSUME IInv, NEW c \in Clients, Disconnect(c)
    PROVE  IInv'
  <1> DEFINE t == [run[c] EXCEPT !.lock = {}]
  <1>1. /\ run[c] \in RunRows /\ run[c].pc \in {"upload", "stored", "undo"} /\ run[c].file \in Files
    BY ClientTask DEF Disconnect, Task, AtFile
  <1>2. t \in RunRows /\ t.pc = run[c].pc /\ t.lock = {} /\ t.file = run[c].file /\ Step(c, t)
    BY <1>1 DEF RunRows, Disconnect
  <1> HIDE DEF t
  <1> QED
    BY <1>1, <1>2, GoStep

LEMMA CountRecentStep ==
    ASSUME IInv, NEW c \in Clients, CountRecent(c)
    PROVE  IInv'
  <1> PICK f \in Feedback, wanted \in SUBSET {x \in Files : files[x].status \notin {"UNUSED", "ABSENT"}} :
         /\ queue[f] = NoRow /\ \A d \in Clients : run[d].feedback # f
         /\ Step(c, [Free EXCEPT !.pc = "attach", !.feedback = f, !.rate = TRUE, !.todo = wanted])
    BY DEF CountRecent
  <1> DEFINE t == [Free EXCEPT !.pc = "attach", !.feedback = f, !.rate = TRUE, !.todo = wanted]
  <1>1. t \in RunRows /\ t.pc = "attach" /\ t.lock = {} /\ t.feedback = f
    BY DEF Free, RunRows
  <1>2. \A d \in Runs \ {c} : run[d].pc \in {"attach", "submit"} => run[d].feedback # f
    BY FeedbackAssumption DEF IInv, RunInv, Task, Runs
  <1>3. queue[f].status = "ABSENT" /\ c # Cleaner /\ c \in Runs
    BY ClientTask DEF NoRow
  <1> HIDE DEF t
  <1>4. Task(c, t)
    BY <1>1, <1>2, <1>3 DEF Task, Uploads, AtFile
  <1> QED
    BY <1>1, <1>3, <1>4, ClientTask, QuietStep DEF t

LEMMA LockReadyFilesStep ==
    ASSUME IInv, NEW c \in Clients, LockReadyFiles(c)
    PROVE  IInv'
  <1>1. CASE Refuse(c)
    BY <1>1, ClientTask, RefuseStep
  <1>2. CASE /\ \A x \in run[c].todo : files[x].status = "READY"
             /\ Step(c, [run[c] EXCEPT !.pc = "submit", !.lock = run[c].todo])
    <2> DEFINE t == [run[c] EXCEPT !.pc = "submit", !.lock = run[c].todo]
    <2>1. /\ c \in Runs /\ c # Cleaner /\ Task(c, run[c]) /\ run[c] \in RunRows
          /\ run[c].pc = "attach"
      BY ClientTask DEF LockReadyFiles
    <2>2. /\ t \in RunRows /\ t.pc = "submit" /\ t.lock = run[c].todo
          /\ t.todo = run[c].todo /\ t.feedback = run[c].feedback
      BY <2>1 DEF RunRows
    <2> HIDE DEF t
    <2>3. Task(c, t)
      BY <1>2, <2>1, <2>2 DEF Task, Uploads, AtFile
    <2>4. \A d \in Runs \ {c} : t.lock \cap run[d].lock = {}
      BY <2>2 DEF LockReadyFiles, Unlocked
    <2> QED
      BY <1>2, <2>1, <2>2, <2>3, <2>4, QuietStep DEF t
  <1> QED
    BY <1>1, <1>2 DEF LockReadyFiles

LEMMA LookForStaleStep == ASSUME IInv, LookForStale PROVE IInv'
  <1> DEFINE t == [Free EXCEPT !.pc = "list", !.todo = {x \in Files : Stale(x)}]
  <1>1. t \in RunRows /\ t.pc = "list" /\ t.lock = {}
    BY DEF Free, RunRows
  <1>2. Cleaner \in Runs /\ Step(Cleaner, t) /\ run[Cleaner].pc = "free"
    BY DEF Runs, LookForStale
  <1> HIDE DEF t
  <1>3. Task(Cleaner, t)
    BY <1>1 DEF Task, Uploads, AtFile
  <1> QED
    BY <1>1, <1>2, <1>3, QuietStep

LEMMA EndCutStep == ASSUME IInv, EndCut PROVE IInv'
  BY RefuseStep DEF EndCut, Runs

LEMMA FailStep ==
    ASSUME IInv, NEW c \in Clients, Fail(c)
    PROVE  IInv'
  BY ClientTask, RefuseStep DEF Fail

-----------------------------------------------------------------------------
(* Screenshots and submissions: the steps that change rows or bytes.       *)

\* A step of one run that leaves the queue alone.
LEMMA FileStep ==
    ASSUME IInv, NEW c \in Runs, NEW t \in RunRows, Set(c, t), Steady(c), UNCHANGED queueVars,
           \A d \in Runs \ {c} : t.lock \cap run[d].lock = {},
           Task(c, t)', Stored', Kept'
    PROVE  IInv'
  BY RunStep, QueueStutter DEF IInv

\* A client's step leaves the cleaner where it is.
LEMMA CleanerStays ==
    ASSUME IInv, NEW c \in Clients, NEW t, Set(c, t)
    PROVE  /\ run'[c] = t /\ \A d \in Runs \ {c} : run'[d] = run[d]
           /\ \A x : Cleaned(x)' <=> Cleaned(x)
  <1>1. run'[c] = t /\ \A d \in Runs \ {c} : run'[d] = run[d]
    BY ClientTask DEF Set, IInv, RunInv
  <1> QED
    BY <1>1, ClientTask DEF Cleaned, Runs

\* What another run counts on of a file whose row it has not locked.
LEMMA OthersLook ==
    ASSUME IInv, NEW d \in Runs, NEW x \in Files, x \notin run[d].lock,
           queue' = queue, of' = of, \A y \in Files \ {x} : files'[y].status = files[y].status,
           \A y \in bytes' : y = x \/ y \in bytes \/ y \in raced',
           \A y \in bytes : y = x \/ y \in bytes' \/ y \in raced',
           \A y \in raced : y \in raced',
           run[d].pc = "declare" /\ run[d].file = x => files'[x].status = "ABSENT",
           run[d].pc = "unlink" /\ run[d].file = x => files'[x].status \in Dropped
    PROVE  Undisturbed(d)
  <1>1. Task(d, run[d]) /\ run[d] \in RunRows /\ run[d].lock \subseteq Files
    BY DEF IInv, RunInv, RunRows
  <1>2. \A y \in run[d].lock : /\ files'[y].status = files[y].status /\ of'[y] = of[y]
                               /\ y \in bytes' => y \in bytes \/ y \in raced'
    BY <1>1
  <1>3. run[d].pc = "stored" /\ run[d].lock # {} => run[d].file \in bytes' \/ run[d].file \in raced'
    BY <1>1 DEF Task, Uploads
  <1>4. run[d].pc = "declare" => files'[run[d].file].status = "ABSENT"
    BY <1>1 DEF Task, AtFile
  <1>5. run[d].pc = "unlink" => files'[run[d].file].status \in Dropped
    BY <1>1 DEF Task, AtFile
  <1>6. run[d].pc \in {"attach", "submit"} => queue'[run[d].feedback].status = "ABSENT"
    BY <1>1 DEF Task
  <1> QED
    BY <1>2, <1>3, <1>4, <1>5, <1>6 DEF Undisturbed

\* The other files are kept by a client's step on one.
LEMMA OthersKept ==
    ASSUME IInv, NEW c \in Clients, NEW t, Set(c, t), NEW x \in Files, UNCHANGED queueVars, of' = of,
           \A y \in Files \ {x} : files'[y] = files[y],
           \A y \in bytes \ {x} : y \in bytes',
           \A y \in bytes' : y = x \/ y \in bytes,
           \A y \in raced : y \in raced',
           KeptFile(x)'
    PROVE  Kept'
  <1>1. queue' = queue
    BY DEF queueVars
  <1>2. ASSUME NEW y \in Files \ {x} PROVE KeptFile(y)'
    <2>1. KeptFile(y) /\ (Cleaned(y)' <=> Cleaned(y))
      BY CleanerStays DEF IInv, Kept
    <2> QED
      BY <1>1, <2>1 DEF KeptFile, HasRow
  <1> QED
    BY <1>2 DEF Kept

LEMMA InitiateAttachmentStep ==
    ASSUME IInv, NEW c \in Clients, InitiateAttachment(c)
    PROVE  IInv'
  <1> PICK x : x = run[c].file
    OBVIOUS
  <1>1. /\ c \in Runs /\ x \in Files /\ files[x].status = "ABSENT"
        /\ \A d \in Runs \ {c} : run[d].pc = "declare" => run[d].file # x
    BY ClientTask DEF InitiateAttachment, Task, AtFile
  <1>2. Declared \in FileRows /\ Declared.status = "PENDING"
    BY DEF Declared, FileRows
  <1>3. /\ files' = [files EXCEPT ![x] = Declared] /\ Set(c, Free) /\ UNCHANGED queueVars
        /\ queue' = queue /\ of' = of /\ bytes' = bytes /\ raced' = raced
    BY DEF InitiateAttachment, queueVars
  <1>4. files'[x] = Declared /\ \A y \in Files \ {x} : files'[y] = files[y]
    BY <1>1, <1>3 DEF IInv, Stored
  <1>5. Stored'
    BY <1>2, <1>3 DEF IInv, Stored
  <1>6. Kept'
    <2>1. KeptFile(x)'
      BY <1>1, <1>2, <1>3, <1>4 DEF IInv, Kept, KeptFile, HasRow
    <2> QED
      BY <1>1, <1>3, <1>4, <2>1, OthersKept
  <1>7. Steady(c)
    <2> SUFFICES ASSUME NEW d \in Runs \ {c} PROVE Undisturbed(d)
      BY <1>3 DEF Steady
    <2>1. Task(d, run[d])
      BY DEF IInv, RunInv
    <2>2. x \notin run[d].lock
      BY <2>1, <1>1 DEF Task, Uploads, HasRow
    <2>3. /\ run[d].pc = "declare" => run[d].file # x
          /\ run[d].pc = "unlink" => run[d].file # x
      BY <2>1, <1>1 DEF Task, Dropped
    <2> QED
      BY <1>1, <1>3, <1>4, <2>2, <2>3, OthersLook
  <1> QED
    BY <1>1, <1>3, <1>5, <1>6, <1>7, FreeFits, FreeTask, FileStep

\* A client stores or deletes the bytes of a file whose row is PENDING, under its
\* lock, or which is taken down as an accident.
LEMMA TouchStep ==
    ASSUME IInv, NEW c \in Clients, NEW t \in RunRows, Set(c, t), UNCHANGED <<queueVars, files, of>>,
           NEW x \in Files, x = run[c].file,
           bytes' = bytes \cup {x} \/ bytes' = bytes \ {x},
           raced' = raced \cup Unguarded(c),
           run[c].pc \in Uploads,
           t = Free \/ (t = [run[c] EXCEPT !.pc = "stored"] /\ x \in bytes')
    PROVE  IInv'
  <1>1. /\ c \in Runs /\ c # Cleaner /\ Task(c, run[c]) /\ run[c] \in RunRows
    BY ClientTask
  <1>2. /\ UNCHANGED queueVars /\ queue' = queue /\ files' = files /\ of' = of
        /\ bytes' \subseteq Files /\ raced' \subseteq Files
        /\ \A y \in raced : y \in raced'
        /\ \A y \in bytes \ {x} : y \in bytes'
        /\ \A y \in bytes' : y = x \/ y \in bytes
    BY <1>1 DEF queueVars, IInv, Stored, Unguarded
  <1>3. x \in raced' \/ (run[c].lock = {x} /\ files[x].status = "PENDING")
    BY <1>1 DEF Unguarded, Connected, Task
  <1>4. Stored'
    BY <1>2 DEF IInv, Stored
  <1>5. Kept'
    <2>1. KeptFile(x)'
      <3>1. KeptFile(x)
        BY DEF IInv, Kept
      <3> QED
        BY <1>2, <1>3, <3>1 DEF KeptFile, HasRow
    <2> QED
      BY <1>2, <2>1, OthersKept
  <1>6. Steady(c)
    <2> SUFFICES ASSUME NEW d \in Runs \ {c} PROVE Undisturbed(d)
      BY <1>2 DEF Steady
    <2>1. CASE x \in raced'
      BY <2>1, <1>2, UndisturbedSame
    <2>2. CASE run[c].lock = {x} /\ files[x].status = "PENDING"
      <3>1. x \notin run[d].lock
        BY <2>2, <1>1 DEF IInv, RunInv, LocksApart
      <3>2. Task(d, run[d])
        BY DEF IInv, RunInv
      <3>3. /\ run[d].pc = "declare" => run[d].file # x
            /\ run[d].pc = "unlink" => run[d].file # x
        BY <2>2, <3>2 DEF Task, Dropped
      <3> QED
        BY <1>2, <3>1, <3>3, OthersLook
    <2> QED
      BY <1>3, <2>1, <2>2
  <1>7. CASE t = Free
    BY <1>1, <1>2, <1>4, <1>5, <1>6, <1>7, FreeFits, FreeTask, FileStep
  <1>8. CASE t = [run[c] EXCEPT !.pc = "stored"] /\ x \in bytes'
    <2>1. t.pc = "stored" /\ t.lock = run[c].lock /\ t.file = x
      BY <1>8, <1>1 DEF RunRows
    <2>2. Task(c, t)'
      BY <2>1, <1>1, <1>2, <1>8 DEF Task, Uploads, AtFile
    <2>3. \A d \in Runs \ {c} : t.lock \cap run[d].lock = {}
      BY <2>1, <1>1 DEF IInv, RunInv, LocksApart
    <2> QED
      BY <1>1, <1>2, <1>4, <1>5, <1>6, <2>2, <2>3, FileStep
  <1> QED
    BY <1>7, <1>8

LEMMA StoreBodyStep ==
    ASSUME IInv, NEW c \in Clients, StoreBody(c)
    PROVE  IInv'
  <1> PICK x : x = run[c].file
    OBVIOUS
  <1> PICK t : t = [run[c] EXCEPT !.pc = "stored"]
    OBVIOUS
  <1>1. x \in Files /\ run[c].pc \in Uploads /\ run[c] \in RunRows
    BY ClientTask DEF StoreBody, Task, Uploads, AtFile
  <1>2. t \in RunRows
    BY <1>1 DEF RunRows
  <1> QED
    BY <1>1, <1>2, TouchStep DEF StoreBody

LEMMA UndoUploadStep ==
    ASSUME IInv, NEW c \in Clients, UndoUpload(c)
    PROVE  IInv'
  <1>1. run[c].file \in Files /\ run[c].pc \in Uploads
    BY ClientTask DEF UndoUpload, Task, Uploads, AtFile
  <1> QED
    BY <1>1, FreeFits, TouchStep DEF UndoUpload

\* The end of an upload's transaction: its row becomes READY, or stays PENDING.
LEMMA UploadEnds ==
    ASSUME IInv, NEW c \in Clients, run[c].pc = "stored", Connected(c),
           NEW t \in RunRows, Set(c, t), UNCHANGED <<queueVars, of, bytes, raced>>,
           files' \in {files, MarkedReady(c)},
           t = Free \/ t = [run[c] EXCEPT !.pc = "undo", !.lock = {}]
    PROVE  IInv'
  <1> PICK x : x = run[c].file
    OBVIOUS
  <1>1. /\ c \in Runs /\ c # Cleaner /\ x \in Files /\ run[c].lock = {x} /\ files[x].status = "PENDING"
        /\ x \in bytes \/ x \in raced
        /\ run[c] \in RunRows
    BY ClientTask DEF Task, Connected, Uploads, AtFile
  <1>2. UNCHANGED queueVars /\ queue' = queue /\ of' = of /\ bytes' = bytes /\ raced' = raced
    BY DEF queueVars
  <1>3. files' = files \/ files' = [files EXCEPT ![x].status = "READY"]
    BY DEF MarkedReady
  <1>4. /\ \A y \in Files \ {x} : files'[y] = files[y]
        /\ files'[x].status \in {"PENDING", "READY"}
        /\ files' \in [Files -> FileRows]
    BY <1>1, <1>3 DEF IInv, Stored, FileRows
  <1>5. Stored'
    BY <1>2, <1>4 DEF IInv, Stored
  <1>6. Kept'
    <2>1. KeptFile(x)'
      <3>1. KeptFile(x)
        BY <1>1 DEF IInv, Kept
      <3> QED
        BY <1>1, <1>2, <1>4, <3>1 DEF KeptFile, HasRow
    <2> QED
      BY <1>1, <1>2, <1>4, <2>1, OthersKept
  <1>7. Steady(c)
    <2> SUFFICES ASSUME NEW d \in Runs \ {c} PROVE Undisturbed(d)
      BY <1>2 DEF Steady
    <2>1. x \notin run[d].lock /\ Task(d, run[d])
      BY <1>1 DEF IInv, RunInv, LocksApart
    <2>2. /\ run[d].pc = "declare" => run[d].file # x
          /\ run[d].pc = "unlink" => run[d].file # x
      BY <2>1, <1>1 DEF Task, Dropped
    <2> QED
      BY <1>1, <1>2, <1>4, <2>1, <2>2, OthersLook
  <1>8. CASE t = Free
    BY <1>1, <1>2, <1>5, <1>6, <1>7, <1>8, FreeFits, FreeTask, FileStep
  <1>9. CASE t = [run[c] EXCEPT !.pc = "undo", !.lock = {}]
    <2>1. t.pc = "undo" /\ t.lock = {} /\ t.file = x
      BY <1>9, <1>1 DEF RunRows
    <2>2. Task(c, t)'
      BY <2>1, <1>1 DEF Task, Uploads, AtFile
    <2> QED
      BY <2>1, <2>2, <1>1, <1>2, <1>5, <1>6, <1>7, FileStep
  <1> QED
    BY <1>8, <1>9

LEMMA CommitUploadStep ==
    ASSUME IInv, NEW c \in Clients, CommitUpload(c)
    PROVE  IInv'
  BY FreeFits, UploadEnds DEF CommitUpload

LEMMA CommitUploadFailsStep ==
    ASSUME IInv, NEW c \in Clients, CommitUploadFails(c)
    PROVE  IInv'
  <1>1. run[c] \in RunRows
    BY ClientTask
  <1>2. [run[c] EXCEPT !.pc = "undo", !.lock = {}] \in RunRows
    BY <1>1 DEF RunRows
  <1> QED
    BY <1>2, UploadEnds DEF CommitUploadFails

LEMMA RemoveAttachmentStep ==
    ASSUME IInv, NEW c \in Clients, RemoveAttachment(c)
    PROVE  IInv'
  <1> PICK x : x = run[c].file
    OBVIOUS
  <1>1. CASE Refuse(c)
    BY <1>1, ClientTask, RefuseStep DEF RemoveAttachment
  <1>2. CASE /\ files[x].status \in {"PENDING", "READY"}
             /\ files' = [files EXCEPT ![x].status = "DELETED", ![x].old = FALSE]
             /\ raced' = IF Unsubmitted(x) THEN raced ELSE raced \cup {x}
             /\ Set(c, [run[c] EXCEPT !.pc = "unlink"])
             /\ UNCHANGED <<queueVars, of, bytes>>
    <2> PICK t : t = [run[c] EXCEPT !.pc = "unlink"]
      OBVIOUS
    <2>1. /\ c \in Runs /\ c # Cleaner /\ x \in Files /\ run[c].lock = {} /\ run[c] \in RunRows
      BY ClientTask DEF RemoveAttachment, Task, AtFile, Uploads
    <2>2. t \in RunRows /\ t.pc = "unlink" /\ t.lock = {} /\ t.file = x
      BY <2>1 DEF RunRows
    <2>3. /\ Set(c, t) /\ UNCHANGED queueVars /\ queue' = queue /\ of' = of /\ bytes' = bytes
          /\ \A y \in raced : y \in raced'
          /\ of[x] # None => x \in raced'
          /\ \A y : y \in raced' => y \in raced \/ y = x
      BY <1>2 DEF queueVars, Unsubmitted
    <2> DEFINE first == [files[x] EXCEPT !.status = "DELETED"]
               row == [first EXCEPT !.old = FALSE]
    <2>4. files' = [files EXCEPT ![x] = row]
      BY <1>2, <2>1, Zenon DEF IInv, Stored
    <2>5. first \in FileRows /\ first.status = "DELETED"
      BY <2>1 DEF IInv, Stored, FileRows
    <2>6. row \in FileRows /\ row.status = "DELETED"
      <3> HIDE DEF first
      <3> QED
        BY <2>5 DEF FileRows
    <2> HIDE DEF row
    <2>7. /\ files'[x].status = "DELETED" /\ \A y \in Files \ {x} : files'[y] = files[y]
          /\ files' \in [Files -> FileRows]
      BY <2>1, <2>4, <2>6 DEF IInv, Stored
    <2>8. Stored'
      BY <2>1, <2>3, <2>7 DEF IInv, Stored
    <2>9. Kept'
      <3>1. KeptFile(x)'
        <4>1. KeptFile(x)
          BY <2>1 DEF IInv, Kept
        <4> QED
          BY <4>1, <2>3, <2>7 DEF KeptFile, HasRow
      <3> QED
        BY <2>1, <2>3, <2>7, <3>1, OthersKept
    <2>10. \A d \in Runs : x \notin run[d].lock
      BY DEF RemoveAttachment, Unlocked
    <2>11. Steady(c)
      <3> SUFFICES ASSUME NEW d \in Runs \ {c} PROVE Undisturbed(d)
        BY <2>3 DEF Steady
      <3>1. Task(d, run[d])
        BY DEF IInv, RunInv
      <3>2. /\ run[d].pc = "declare" /\ run[d].file = x => files'[x].status = "ABSENT"
            /\ run[d].pc = "unlink" /\ run[d].file = x => files'[x].status \in Dropped
        BY <3>1, <1>2, <2>7 DEF Task, Dropped
      <3> QED
        BY <2>1, <2>3, <2>7, <2>10, <3>2, OthersLook
    <2>12. Task(c, t)'
      BY <2>1, <2>2, <2>7 DEF Task, Uploads, AtFile, Dropped
    <2> QED
      BY <2>1, <2>2, <2>3, <2>8, <2>9, <2>11, <2>12, FileStep
  <1> QED
    BY <1>1, <1>2 DEF RemoveAttachment

LEMMA UnlinkStep ==
    ASSUME IInv, NEW c \in Clients, Unlink(c)
    PROVE  IInv'
  <1> PICK x : x = run[c].file
    OBVIOUS
  <1>1. /\ c \in Runs /\ x \in Files /\ files[x].status \in Dropped
    BY ClientTask DEF Unlink, Task, AtFile
  <1>2. /\ Set(c, Free) /\ UNCHANGED queueVars
        /\ queue' = queue /\ files' = files /\ of' = of /\ raced' = raced
        /\ bytes' \subseteq bytes /\ \A y \in bytes \ {x} : y \in bytes'
    BY DEF Unlink, queueVars
  <1>3. Stored'
    BY <1>2 DEF IInv, Stored
  <1>4. Kept'
    <2>1. KeptFile(x)'
      <3>1. KeptFile(x)
        BY <1>1 DEF IInv, Kept
      <3> QED
        BY <3>1, <1>1, <1>2 DEF KeptFile, HasRow, Dropped
    <2> QED
      BY <1>1, <1>2, <2>1, OthersKept
  <1>5. Steady(c)
    <2> SUFFICES ASSUME NEW d \in Runs \ {c} PROVE Undisturbed(d)
      BY <1>2 DEF Steady
    <2>1. Task(d, run[d])
      BY DEF IInv, RunInv
    <2>2. run[d].pc = "stored" /\ run[d].lock # {} => run[d].file # x
      BY <2>1, <1>1 DEF Task, Uploads, Dropped
    <2> QED
      BY <1>2, <2>1, <2>2 DEF Task, Undisturbed
  <1> QED
    BY <1>1, <1>2, <1>3, <1>4, <1>5, FreeFits, FreeTask, FileStep

\* A new row, which nobody works on unless slowly.
LEMMA InsertedStep ==
    ASSUME QueueInv, NEW f \in Feedback, queue[f].status = "ABSENT",
           queue' = [queue EXCEPT ![f] = Inserted], UNCHANGED <<issues, pub, exposed>>
    PROVE  QueueInv'
  <1>1. Inserted \in QueueRows /\ Inserted.status = "PENDING" /\ ~Inserted.leased
    <2>1. 0 \in Attempts
      BY QueueAssumption DEF Attempts
    <2> QED
      BY <2>1 DEF Inserted, QueueRows
  <1>2. /\ queue'[f] = Inserted /\ \A g \in Feedback : g # f => queue'[g] = queue[g]
        /\ issues' = issues /\ pub' = pub /\ exposed' = exposed
    BY DEF QueueInv, QueueTypes
  <1>3. QueueTypes'
    BY <1>1, <1>2 DEF QueueInv, QueueTypes
  <1>4. Recorded'
    BY <1>1, <1>2 DEF QueueInv, Recorded, Working
  <1>5. Alone'
    BY <1>1, <1>2 DEF QueueInv, Alone, Recorded, Working, Slow
  <1>6. Fresh'
    BY <1>2 DEF QueueInv, Fresh, Slow, Missed
  <1> QED
    BY <1>3, <1>4, <1>5, <1>6 DEF QueueInv

LEMMA CreateFeedbackStep ==
    ASSUME IInv, NEW c \in Clients, CreateFeedback(c)
    PROVE  IInv'
  <1> PICK f : f = run[c].feedback
    OBVIOUS
  <1> PICK wanted : wanted = run[c].todo
    OBVIOUS
  <1>1. CASE Refuse(c)
    BY <1>1, ClientTask, RefuseStep DEF CreateFeedback
  <1>2. CASE /\ queue' = [queue EXCEPT ![f] = Inserted]
             /\ of' = [x \in Files |-> IF x \in wanted THEN f ELSE of[x]]
             /\ Set(c, Free) /\ UNCHANGED <<issues, pub, exposed, files, bytes, raced>>
    <2>1. /\ c \in Runs /\ f \in Feedback /\ queue[f].status = "ABSENT"
          /\ run[c].lock = wanted /\ \A x \in wanted : files[x].status = "READY"
          /\ \A d \in Runs \ {c} : run[d].pc \in {"attach", "submit"} => run[d].feedback # f
      BY ClientTask DEF CreateFeedback, Task
    <2>2. QueueInv'
      BY <1>2, <2>1, InsertedStep DEF IInv
    <2>3. /\ queue'[f].status = "PENDING" /\ \A g \in Feedback \ {f} : queue'[g] = queue[g]
          /\ files' = files /\ bytes' = bytes /\ raced' = raced
      BY <1>2, <2>1 DEF IInv, QueueInv, QueueTypes, Inserted
    <2>4. Stored'
      BY <1>2, <2>1, <2>3 DEF IInv, Stored
    <2>5. \A x \in Files : of'[x] = IF x \in wanted THEN f ELSE of[x]
      BY <1>2
    <2>6. Kept'
      <3> SUFFICES ASSUME NEW x \in Files PROVE KeptFile(x)'
        BY DEF Kept
      <3>1. KeptFile(x) /\ of[x] \in Feedback \cup {None} /\ (Cleaned(x)' <=> Cleaned(x))
        BY <1>2, CleanerStays DEF IInv, Kept, Stored
      <3> QED
        BY <3>1, <2>1, <2>3, <2>5 DEF KeptFile, HasRow
    <2>7. Steady(c)
      <3> SUFFICES ASSUME NEW d \in Runs \ {c} PROVE Undisturbed(d)
        BY <2>3 DEF Steady
      <3>1. Task(d, run[d]) /\ run[d].lock \subseteq Files /\ run[c].lock \cap run[d].lock = {}
        BY <2>1 DEF IInv, RunInv, RunRows, LocksApart
      <3> QED
        BY <3>1, <2>1, <2>3, <2>5 DEF Task, Undisturbed
    <2>8. RunInv'
      BY <1>2, <2>1, <2>7, FreeFits, FreeTask, RunStep
    <2> QED
      BY <2>2, <2>4, <2>6, <2>8 DEF IInv
  <1> QED
    BY <1>1, <1>2 DEF CreateFeedback

-----------------------------------------------------------------------------
(* The cleanup command and the deadlines.                                  *)

LEMMA LockStaleStep == ASSUME IInv, LockStale PROVE IInv'
  <1> PICK found : found = {x \in run[Cleaner].todo : Unlocked(x) /\ StillStale(x)}
    OBVIOUS
  <1> PICK t : t = [Free EXCEPT !.pc = "clean", !.lock = found, !.todo = found]
    OBVIOUS
  <1>1. /\ Cleaner \in Runs /\ run[Cleaner] \in RunRows /\ run[Cleaner].pc = "list"
        /\ found \subseteq Files
    BY DEF IInv, RunInv, RunRows, Runs, LockStale
  <1>2. \A x \in found : Unlocked(x) /\ HasRow(x)
    BY DEF StillStale, Stale, HasRow
  <1>3. t \in RunRows /\ t.pc = "clean" /\ t.lock = found /\ t.todo = found
    BY <1>1 DEF Free, RunRows
  <1>4. /\ Set(Cleaner, t) /\ UNCHANGED queueVars
        /\ queue' = queue /\ files' = files /\ of' = of /\ bytes' = bytes
        /\ raced' = raced \cup {x \in found : ~Unsubmitted(x)}
    BY DEF LockStale, queueVars
  <1>5. Stored'
    BY <1>1, <1>4 DEF IInv, Stored
  <1>6. \A x : ~Cleaned(x)
    BY <1>1 DEF Cleaned
  <1>7. Kept'
    BY <1>4, <1>6 DEF IInv, Kept, KeptFile, HasRow
  <1>8. Steady(Cleaner)
    BY <1>4, UndisturbedSame DEF Steady
  <1>9. Task(Cleaner, t)'
    BY <1>2, <1>3, <1>4 DEF Task, Unsubmitted, HasRow, Uploads, AtFile
  <1>10. \A d \in Runs : t.lock \cap run[d].lock = {}
    BY <1>2, <1>3 DEF Unlocked
  <1> QED
    BY <1>1, <1>3, <1>4, <1>5, <1>7, <1>8, <1>9, <1>10, FileStep

\* The cleaner's row at its step.
LEMMA CleanerRow ==
    ASSUME IInv, run[Cleaner].pc = "clean"
    PROVE  /\ Cleaner \in Runs /\ run[Cleaner] \in RunRows
           /\ run[Cleaner].lock \subseteq Files /\ run[Cleaner].todo \subseteq run[Cleaner].lock
           /\ \A x \in run[Cleaner].lock : HasRow(x) /\ (x \in raced \/ of[x] = None)
           /\ \A x \in run[Cleaner].lock \ run[Cleaner].todo : x \notin bytes \/ x \in raced
           /\ \A d \in Runs \ {Cleaner} : \A x \in run[d].lock : x \notin run[Cleaner].lock
  BY DEF IInv, RunInv, RunRows, Runs, Task, LocksApart

LEMMA CleanOneStep == ASSUME IInv, CleanOne PROVE IInv'
  <1> PICK x \in run[Cleaner].todo :
         /\ bytes' = bytes \ {x}
         /\ Set(Cleaner, [run[Cleaner] EXCEPT !.todo = @ \ {x}])
    BY DEF CleanOne
  <1> PICK lock : lock = run[Cleaner].lock
    OBVIOUS
  <1> PICK t : t = [run[Cleaner] EXCEPT !.todo = @ \ {x}]
    OBVIOUS
  <1>1. /\ run[Cleaner].pc = "clean" /\ Cleaner \in Runs /\ run[Cleaner] \in RunRows
        /\ lock \subseteq Files /\ x \in lock
    BY CleanerRow DEF CleanOne
  <1>2. t \in RunRows /\ t.pc = "clean" /\ t.lock = lock /\ t.todo = run[Cleaner].todo \ {x}
    BY <1>1 DEF RunRows
  <1>3. /\ Set(Cleaner, t) /\ UNCHANGED queueVars
        /\ queue' = queue /\ files' = files /\ of' = of /\ raced' = raced
    BY DEF CleanOne, queueVars
  <1>4. \A d \in Runs \ {Cleaner} : \A y \in run[d].lock : y \notin lock
    BY <1>1, CleanerRow
  <1>5. Stored'
    BY <1>3 DEF IInv, Stored
  <1>6. \A y \in lock : Cleaned(y)'
    BY <1>1, <1>2, <1>3 DEF Cleaned, Set, IInv, RunInv
  <1>7. Kept'
    BY <1>1, <1>3, <1>6 DEF IInv, Kept, KeptFile, HasRow, Cleaned
  <1>8. Steady(Cleaner)
    <2> SUFFICES ASSUME NEW d \in Runs \ {Cleaner} PROVE Undisturbed(d)
      BY <1>3 DEF Steady
    <2>1. x \notin run[d].lock /\ Task(d, run[d])
      BY <1>1, <1>4 DEF IInv, RunInv
    <2> QED
      BY <2>1, <1>3 DEF Task, Uploads, Undisturbed
  <1>9. Task(Cleaner, t)'
    <2>1. /\ \A y \in lock : HasRow(y) /\ (y \in raced \/ of[y] = None)
          /\ t.todo \subseteq lock /\ \A y \in lock \ t.todo : y \notin bytes' \/ y \in raced
      BY <1>1, <1>2, CleanerRow
    <2> QED
      BY <2>1, <1>2, <1>3 DEF Task, HasRow, Uploads, AtFile
  <1> QED
    BY <1>1, <1>2, <1>3, <1>4, <1>5, <1>7, <1>8, <1>9, FileStep

\* What the cleaner lets go of loses its row, or is recorded if it lost its bytes.
LEMMA CommitCleanupStep == ASSUME IInv, CommitCleanup PROVE IInv'
  <1> PICK lock : lock = run[Cleaner].lock
    OBVIOUS
  <1>1. /\ run[Cleaner].pc = "clean" /\ Cleaner \in Runs /\ lock \subseteq Files
        /\ \A y \in lock : HasRow(y) /\ (y \in raced \/ of[y] = None) /\ (y \notin bytes \/ y \in raced)
        /\ \A d \in Runs \ {Cleaner} : \A y \in run[d].lock : y \notin lock
    BY CleanerRow DEF CommitCleanup
  <1>2. /\ Set(Cleaner, Free) /\ UNCHANGED queueVars
        /\ queue' = queue /\ of' = of /\ bytes' = bytes /\ raced' = raced
        /\ files' = [y \in Files |-> IF y \in lock /\ of[y] = None THEN Gone ELSE files[y]]
    BY DEF CommitCleanup, queueVars, Unsubmitted
  <1>3. Gone \in FileRows /\ Gone.status = "GONE"
    BY DEF Gone, NoFile, FileRows
  <1>4. Stored'
    BY <1>2, <1>3 DEF IInv, Stored
  <1>5. \A y \in Files : IF y \in lock /\ of[y] = None THEN files'[y].status = "GONE" ELSE files'[y] = files[y]
    BY <1>2, <1>3
  <1>6. Kept'
    <2> SUFFICES ASSUME NEW y \in Files PROVE KeptFile(y)'
      BY DEF Kept
    <2>1. KeptFile(y) /\ (Cleaned(y) => y \in lock)
      BY DEF IInv, Kept, Cleaned
    <2> QED
      BY <2>1, <1>1, <1>2, <1>5 DEF KeptFile, HasRow
  <1>7. Steady(Cleaner)
    <2> SUFFICES ASSUME NEW d \in Runs \ {Cleaner} PROVE Undisturbed(d)
      BY <1>2 DEF Steady
    <2>1. Task(d, run[d]) /\ run[d] \in RunRows /\ run[d].lock \subseteq Files
      BY DEF IInv, RunInv, RunRows
    <2> QED
      BY <2>1, <1>1, <1>2, <1>5 DEF Task, Undisturbed, HasRow, AtFile, Dropped
  <1> QED
    BY <1>1, <1>2, <1>4, <1>6, <1>7, FreeFits, FreeTask, FileStep

\* The rows are free again; what lost its bytes is recorded.
LEMMA CleanupLost ==
    ASSUME IInv, run[Cleaner].pc = "clean", NEW t \in RunRows, t.pc \in {"free", "cut"}, t.lock = {},
           Set(Cleaner, t), UNCHANGED <<queueVars, files, of, bytes>>,
           raced' = raced \cup (run[Cleaner].lock \ bytes)
    PROVE  IInv'
  <1>1. Cleaner \in Runs /\ run[Cleaner].lock \subseteq Files
    BY CleanerRow
  <1>2. UNCHANGED queueVars /\ queue' = queue /\ files' = files /\ of' = of /\ bytes' = bytes
    BY DEF queueVars
  <1>3. Stored'
    BY <1>1, <1>2 DEF IInv, Stored
  <1>4. Kept'
    BY <1>2 DEF IInv, Kept, KeptFile, HasRow, Cleaned
  <1>5. Steady(Cleaner)
    BY <1>2, UndisturbedSame DEF Steady
  <1>6. Task(Cleaner, t)'
    BY DEF Task, Uploads, AtFile
  <1> QED
    BY <1>1, <1>2, <1>3, <1>4, <1>5, <1>6, FileStep

LEMMA FailCleanupStep == ASSUME IInv, FailCleanup PROVE IInv'
  BY FreeFits, CleanupLost DEF FailCleanup

LEMMA DisconnectCleanupStep == ASSUME IInv, DisconnectCleanup PROVE IInv'
  <1> DEFINE t == [run[Cleaner] EXCEPT !.pc = "cut", !.lock = {}]
  <1>1. run[Cleaner] \in RunRows
    BY CleanerRow DEF DisconnectCleanup
  <1>2. t \in RunRows /\ t.pc = "cut" /\ t.lock = {}
    BY <1>1 DEF RunRows
  <1> HIDE DEF t
  <1> QED
    BY <1>2, CleanupLost DEF DisconnectCleanup, t

LEMMA CleanCutStep == ASSUME IInv, CleanCut PROVE IInv'
  <1> PICK x \in run[Cleaner].todo : bytes' = bytes \ {x} /\ raced' = raced \cup {x}
    BY DEF CleanCut
  <1>1. Cleaner \in Runs /\ x \in Files /\ run[Cleaner].pc = "cut"
    BY DEF CleanCut, Runs, IInv, RunInv, RunRows
  <1>2. /\ UNCHANGED queueVars /\ queue' = queue /\ files' = files /\ of' = of /\ Set(Cleaner, Free)
    BY DEF CleanCut, queueVars
  <1>3. Stored'
    BY <1>1, <1>2 DEF IInv, Stored
  <1>4. Kept'
    BY <1>1, <1>2 DEF IInv, Kept, KeptFile, HasRow, Cleaned
  <1>5. Steady(Cleaner)
    BY <1>2, UndisturbedSame DEF Steady
  <1> QED
    BY <1>1, <1>2, <1>3, <1>4, <1>5, FreeFits, FreeTask, FileStep

\* Nobody moves, and no file changes its status.
LEMMA StandStill ==
    ASSUME IInv, UNCHANGED <<of, bytes, run, raced>>, Stored', QueueInv', StatusKept,
           \A x \in Files : files'[x].status = files[x].status
    PROVE  IInv'
  <1>1. of' = of /\ bytes' = bytes /\ run' = run /\ raced' = raced
    OBVIOUS
  <1>2. Kept'
    BY <1>1 DEF IInv, Kept, KeptFile, HasRow, Cleaned, Stored, StatusKept
  <1>3. ASSUME NEW c \in Runs PROVE Task(c, run[c])'
    <2>1. Task(c, run[c]) /\ run[c] \in RunRows /\ run[c].lock \subseteq Files
      BY DEF IInv, RunInv, RunRows
    <2> QED
      BY <1>1, <2>1 DEF Task, StatusKept, HasRow, AtFile
  <1>4. RunInv'
    BY <1>1, <1>3 DEF IInv, RunInv, LocksApart
  <1> QED
    BY <1>2, <1>4 DEF IInv

\* One file's row changes, but not its status.
LEMMA RowStep ==
    ASSUME IInv, UNCHANGED <<queueVars, of, bytes, run, raced>>, NEW x \in Files, NEW row \in FileRows,
           files' = [files EXCEPT ![x] = row], row.status = files[x].status
    PROVE  IInv'
  <1>1. UNCHANGED queueVars /\ UNCHANGED <<of, bytes, run, raced>>
    OBVIOUS
  <1>2. Stored' /\ \A y \in Files : files'[y].status = files[y].status
    BY DEF IInv, Stored
  <1> QED
    BY <1>1, <1>2, StandStill, QueueStutter DEF IInv, StatusKept, queueVars

LEMMA DeadlinesStep == ASSUME IInv, Deadlines PROVE IInv'
  <1>1. UNCHANGED <<queueVars, of, bytes, run, raced>>
    BY DEF Deadlines
  <1> PICK x \in Files : Expires(x) \/ GrowsOld(x) \/ DayOver(x)
    BY DEF Deadlines
  <1>2. /\ [files[x] EXCEPT !.open = FALSE] \in FileRows
        /\ [files[x] EXCEPT !.old = TRUE] \in FileRows
        /\ [files[x] EXCEPT !.recent = FALSE] \in FileRows
    BY DEF IInv, Stored, FileRows
  <1>3. /\ [files[x] EXCEPT !.open = FALSE].status = files[x].status
        /\ [files[x] EXCEPT !.old = TRUE].status = files[x].status
        /\ [files[x] EXCEPT !.recent = FALSE].status = files[x].status
    BY DEF IInv, Stored, FileRows
  <1>4. \/ files' = [files EXCEPT ![x] = [files[x] EXCEPT !.open = FALSE]]
        \/ files' = [files EXCEPT ![x] = [files[x] EXCEPT !.old = TRUE]]
        \/ files' = [files EXCEPT ![x] = [files[x] EXCEPT !.recent = FALSE]]
    BY DEF Expires, GrowsOld, DayOver, IInv, Stored
  <1> QED
    BY <1>1, <1>2, <1>3, <1>4, RowStep

-----------------------------------------------------------------------------
(* The invariant holds, and what follows from it.                          *)

LEMMA StepInvariant == IInv /\ [Next]_feedbackVars => IInv'
  <1> SUFFICES ASSUME IInv, [Next]_feedbackVars PROVE IInv'
    OBVIOUS
  <1>1. ASSUME QueueNext, UNCHANGED fileVars PROVE IInv'
    <2>1. QueueInv' /\ StatusKept
      BY <1>1, QueueStep DEF IInv
    <2>2. UNCHANGED <<of, bytes, run, raced>> /\ files' = files
      BY <1>1 DEF fileVars
    <2>3. Stored'
      BY <2>2 DEF IInv, Stored
    <2> QED
      BY <2>1, <2>2, <2>3, StandStill
  <1>2. ASSUME NEW c \in Clients, ClientStep(c) PROVE IInv'
    BY <1>2, CountActiveStep, InitiateAttachmentStep, BeginUploadStep, LockUploadStep, StoreBodyStep,
       CommitUploadStep, MarkFailsStep, CommitUploadFailsStep, UndoUploadStep, DisconnectStep,
       LookToRemoveStep, RemoveAttachmentStep, UnlinkStep, CountRecentStep, LockReadyFilesStep,
       CreateFeedbackStep, FailStep DEF ClientStep
  <1>3. ASSUME Cleanup PROVE IInv'
    BY <1>3, LookForStaleStep, LockStaleStep, CleanOneStep, CommitCleanupStep, FailCleanupStep,
       DisconnectCleanupStep, CleanCutStep, EndCutStep DEF Cleanup
  <1>4. ASSUME Deadlines PROVE IInv'
    BY <1>4, DeadlinesStep
  <1>5. ASSUME UNCHANGED feedbackVars PROVE IInv'
    <2>1. UNCHANGED queueVars /\ UNCHANGED <<of, bytes, run, raced>> /\ files' = files
      BY <1>5 DEF feedbackVars, fileVars
    <2>2. Stored' /\ StatusKept
      BY <2>1 DEF IInv, Stored, StatusKept, queueVars
    <2> QED
      BY <2>1, <2>2, StandStill, QueueStutter DEF IInv
  <1> QED
    BY <1>1, <1>2, <1>3, <1>4, <1>5 DEF Next

\* The invariant the theorems below rest on.
THEOREM Invariance == Spec => []IInv
  BY InitInvariant, StepInvariant, PTL DEF Spec

\* OneIssueEach: a lease, a search before each creation and a retry after a lost
\* answer make one issue of a feedback, whatever the publishers' number
\* (feedback_publisher.go, ClaimAppFeedbackForPublishing).
THEOREM OneIssue == Spec => []OneIssueEach
  <1>1. IInv => OneIssueEach
    <2> SUFFICES ASSUME IInv, NEW f \in Feedback, {<<f, "missed">>, <<f, "slow">>} \cap exposed = {}
                 PROVE  issues[f].made <= 1
      BY DEF OneIssueEach
    <2> QED
      BY DEF IInv, QueueInv, Fresh, Slow, Missed
  <1> QED
    BY <1>1, Invariance, PTL

\* SubmittedKept: a submitted screenshot keeps its row READY and its bytes, but for
\* the accidents raced records: a removal or cleanup that had looked at it before it
\* was submitted; a cleanup rolled back or cut off after it deleted bytes; an upload
\* that stored or deleted bytes without its row lock, its commit failed, its answer
\* lost or its connection broken (LockUnsubmittedAppFeedbackFile,
\* ListStaleAppFeedbackFiles, UploadFeedbackAttachment).
THEOREM SubmittedStay == Spec => []SubmittedKept
  <1>1. IInv => SubmittedKept
    <2> SUFFICES ASSUME IInv, NEW x \in Files \ raced, of[x] # None
                 PROVE  files[x].status = "READY" /\ x \in bytes
      BY DEF SubmittedKept
    <2>1. files[x].status = "READY" /\ (x \in bytes \/ Cleaned(x))
      BY DEF IInv, Kept, KeptFile
    <2>2. ~Cleaned(x)
      BY CleanerRow DEF Cleaned
    <2> QED
      BY <2>1, <2>2
  <1> QED
    BY <1>1, Invariance, PTL

\* BytesHaveRows: no upload, removal or cleanup leaves bytes whose row is gone, but
\* for the same accidents; the cleanup of rows is all that finds such bytes
\* (UploadFeedbackAttachment, CleanupStaleFeedbackAttachments).
THEOREM BytesStayOwned == Spec => []BytesHaveRows
  <1>1. IInv => BytesHaveRows
    BY DEF IInv, Stored, Kept, KeptFile, BytesHaveRows
  <1> QED
    BY <1>1, Invariance, PTL

\* TypeOK: the rows' types; a lock has one holder, and what is submitted has the
\* row of its file and of its feedback.
THEOREM TypeCorrect == Spec => []TypeOK
  <1>1. IInv => TypeOK
    <2> SUFFICES ASSUME IInv PROVE TypeOK
      OBVIOUS
    <2>1. \A f \in Feedback :
            /\ queue[f].status \in {"UNUSED", "ABSENT", "PENDING", "PROCESSING", "PUBLISHED", "FAILED"}
            /\ queue[f].attempts \in 0..MaxAttempts
      BY DEF IInv, QueueInv, QueueTypes, QueueRows, Attempts
    <2>2. QueueTypeOK
      BY <2>1 DEF QueueTypeOK, IInv, QueueInv, Recorded
    <2> DEFINE Rows(x) == /\ files[x].status \in {"UNUSED", "ABSENT", "PENDING", "READY", "DELETED", "GONE"}
                          /\ of[x] # None => queue[of[x]].status # "ABSENT" /\ HasRow(x)
               Apart(c, d) == c # d => run[c].lock \cap run[d].lock = {}
    <2>3. \A x \in Files : Rows(x)
      BY DEF IInv, Stored, FileRows, Kept, KeptFile
    <2>4. bytes \subseteq Files /\ raced \subseteq Files
      BY DEF IInv, Stored
    <2>5. \A c, d \in Runs : Apart(c, d)
      BY Zenon DEF IInv, RunInv, LocksApart
    <2> QED
      BY <2>2, <2>3, <2>4, <2>5, Zenon DEF TypeOK
  <1> QED
    BY <1>1, Invariance, PTL

=============================================================================
