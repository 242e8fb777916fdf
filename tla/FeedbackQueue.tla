---------------------------- MODULE FeedbackQueue ----------------------------
(***************************************************************************)
(* The lease queue that publishes feedback as GitHub issues                *)
(* (internal/domains/app/feedback_publisher.go, the queries of             *)
(* db/queries/app_feedback.sql, internal/integrations/githubissues).       *)
(*                                                                         *)
(* A publisher claims a row for a lease, asks GitHub for an issue with the *)
(* row's marker, creates one if the search finds none, and records it.     *)
(* GitHub's search lags behind its issues and an answer may be lost.       *)
(***************************************************************************)
EXTENDS Naturals, FiniteSets

CONSTANTS
    Feedback,     \* identifiers of feedback
    Publishers,   \* servers that may run a publisher
    MaxAttempts,  \* attempts per feedback (10 in the code)
    None

ASSUME QueueAssumption == MaxAttempts \in Nat \ {0}

VARIABLES
    queue,   \* app_feedback
    issues,  \* what GitHub has for each feedback: issues made, and whether its search finds one
    pub,     \* what each publisher is doing
    exposed  \* accidents: feedback whose issue the search missed, whose publisher was slower than
             \* its lease, or whose publisher stopped during the last attempt

queueVars == <<queue, issues, pub, exposed>>

\* due: next_attempt_at has come; leased: lease_until has not.  recent: less
\* than a day old.
NoRow == [status |-> "ABSENT", attempts |-> 0, due |-> FALSE, leased |-> FALSE, recent |-> FALSE]
Inserted == [status |-> "PENDING", attempts |-> 0, due |-> TRUE, leased |-> FALSE, recent |-> TRUE]

Resting == [pc |-> "rest", feedback |-> None, attempt |-> 0, failure |-> "none"]

Off == [Resting EXCEPT !.pc = "off"]

\* on: the servers whose configuration starts a publisher; wanted: the feedback
\* there will be.
QueueInit(on, wanted) ==
    /\ queue = [f \in Feedback |-> IF f \in wanted THEN NoRow ELSE [NoRow EXCEPT !.status = "UNUSED"]]
    /\ issues = [f \in Feedback |-> [made |-> 0, found |-> FALSE]]
    /\ pub = [p \in Publishers |-> IF p \in on THEN Resting ELSE Off]
    /\ exposed = {}

Claimable_Mutant(f) ==
    /\ queue[f].status \in {"PENDING", "PROCESSING"}
    /\ queue[f].due /\ queue[f].attempts < MaxAttempts
Claimable(f) ==
    /\ queue[f].status = "PENDING" \/ (queue[f].status = "PROCESSING" /\ ~queue[f].leased)
    /\ queue[f].due /\ queue[f].attempts < MaxAttempts

Claimed(row) == [row EXCEPT !.status = "PROCESSING", !.attempts = @ + 1, !.leased = TRUE]

\* The statement skips rows other publishers are claiming, and commits at once.
Claim(p) ==
    /\ pub[p].pc = "rest"
    /\ \E f \in Feedback :
         /\ Claimable(f)
         /\ queue' = [queue EXCEPT ![f] = Claimed(@)]
         /\ pub' = [pub EXCEPT ![p] = [pc |-> "find", feedback |-> f, attempt |-> queue[f].attempts + 1,
                                       failure |-> "none"]]
    /\ UNCHANGED <<issues, exposed>>

Work(p, pc) == pub[p].pc = pc
Go(p, pc) == pub' = [pub EXCEPT ![p].pc = pc]
GiveUp(p, failure) == pub' = [pub EXCEPT ![p].pc = "reschedule", ![p].failure = failure]

FindByMarker(p) ==
    /\ Work(p, "find")
    /\ LET f == pub[p].feedback
       IN  IF issues[f].found THEN Go(p, "mark") /\ UNCHANGED exposed
           ELSE Go(p, "create") /\ exposed' = IF issues[f].made > 0 THEN exposed \cup {<<f, "missed">>} ELSE exposed
    /\ UNCHANGED <<queue, issues>>

\* The request fails in a way that may pass or for good, or is answered.
RequestFails(p, failure) ==
    /\ pub[p].pc \in {"find", "create"}
    /\ GiveUp(p, failure)
    /\ UNCHANGED <<queue, issues, exposed>>

Create(p) ==
    /\ Work(p, "create")
    /\ issues' = [issues EXCEPT ![pub[p].feedback].made = @ + 1]
    /\ Go(p, "mark") \/ GiveUp(p, "transient")
    /\ UNCHANGED <<queue, exposed>>

\* Both updates ask for a row still PROCESSING, by whomever; a publisher that
\* finds none stops, and its server with it.
MarkPublished(p) ==
    /\ Work(p, "mark")
    /\ LET f == pub[p].feedback
       IN  IF queue[f].status # "PROCESSING" THEN Go(p, "stopped") /\ UNCHANGED queue
           ELSE /\ queue' = [queue EXCEPT ![f].status = "PUBLISHED", ![f].leased = FALSE]
                /\ pub' = [pub EXCEPT ![p] = Resting]
    /\ UNCHANGED <<issues, exposed>>

\* feedbackFailure
StatusAfter_Mutant(attempt, failure) == "PENDING"
StatusAfter(attempt, failure) ==
    IF failure = "permanent" \/ attempt >= MaxAttempts THEN "FAILED" ELSE "PENDING"

Reschedule(p) ==
    /\ Work(p, "reschedule")
    /\ LET f == pub[p].feedback
           status == StatusAfter(pub[p].attempt, pub[p].failure)
       IN  IF queue[f].status # "PROCESSING" THEN Go(p, "stopped") /\ UNCHANGED queue
           ELSE /\ queue' = [queue EXCEPT ![f].status = status, ![f].due = (status = "FAILED"),
                                          ![f].leased = FALSE]
                /\ pub' = [pub EXCEPT ![p] = Resting]
    /\ UNCHANGED <<issues, exposed>>

Working(p) == pub[p].pc \notin {"rest", "stopped", "off"}

\* The server is stopped or crashes; somebody starts it again.
StopServer(p) ==
    /\ Working(p)
    /\ Go(p, "stopped")
    /\ exposed' = IF pub[p].attempt = MaxAttempts THEN exposed \cup {<<pub[p].feedback, "stopped">>} ELSE exposed
    /\ UNCHANGED <<queue, issues>>
StartServer(p) == /\ pub[p].pc = "stopped" /\ pub' = [pub EXCEPT ![p] = Resting]
                  /\ UNCHANGED <<queue, issues, exposed>>

\* The back-off is over; the lease is; a day is; GitHub's search has caught up.
DueAgain(f) ==
    /\ queue[f].status = "PENDING" /\ ~queue[f].due
    /\ queue' = [queue EXCEPT ![f].due = TRUE] /\ UNCHANGED <<issues, pub, exposed>>

WorkedOn(f) == \E p \in Publishers : Working(p) /\ pub[p].feedback = f

LeaseEnds(f) ==
    /\ queue[f].status = "PROCESSING" /\ queue[f].leased
    /\ queue' = [queue EXCEPT ![f].leased = FALSE]
    /\ exposed' = IF WorkedOn(f) THEN exposed \cup {<<f, "slow">>} ELSE exposed
    /\ UNCHANGED <<issues, pub>>

DayPasses(f) ==
    /\ queue[f].recent
    /\ queue' = [queue EXCEPT ![f].recent = FALSE] /\ UNCHANGED <<issues, pub, exposed>>

Index(f) ==
    /\ issues[f].made > 0 /\ ~issues[f].found
    /\ issues' = [issues EXCEPT ![f].found = TRUE] /\ UNCHANGED <<queue, pub, exposed>>

Publish(p) ==
    \/ Claim(p) \/ FindByMarker(p) \/ (\E failure \in {"transient", "permanent"} : RequestFails(p, failure))
    \/ Create(p) \/ MarkPublished(p) \/ Reschedule(p)

Passes(f) == DueAgain(f) \/ LeaseEnds(f) \/ DayPasses(f) \/ Index(f)

QueueNext ==
    \/ \E p \in Publishers : Publish(p) \/ StopServer(p) \/ StartServer(p)
    \/ \E f \in Feedback : Passes(f)

\* Servers keep working and are started again, and time passes.
QueueFairness ==
    /\ \A p \in Publishers : WF_queueVars(Publish(p)) /\ WF_queueVars(StartServer(p))
    /\ \A f \in Feedback : WF_queueVars(DueAgain(f)) /\ WF_queueVars(LeaseEnds(f))

-----------------------------------------------------------------------------
(* Properties.                                                             *)

QueueTypeOK ==
    /\ \A f \in Feedback :
         /\ queue[f].status \in {"UNUSED", "ABSENT", "PENDING", "PROCESSING", "PUBLISHED", "FAILED"}
         /\ queue[f].attempts \in 0..MaxAttempts
         /\ queue[f].leased => queue[f].status = "PROCESSING"
         /\ queue[f].status = "PUBLISHED" => issues[f].made > 0
    /\ \A p \in Publishers : Working(p) => pub[p].feedback \in Feedback

\* Two issues are made of one feedback only if the search missed the first or
\* a publisher was slower than its lease: claims, retries, lost answers and
\* restarts alone never do it (FindByMarker and the lease of
\* ClaimAppFeedbackForPublishing).
OneIssueEach ==
    \A f \in Feedback : {<<f, "missed">>, <<f, "slow">>} \cap exposed = {} => issues[f].made <= 1

\* Rows the claim no longer takes after an accident: the last attempt began, and
\* its publisher stopped, or one that had outlived its lease put the row back.
Stranded(f) ==
    /\ queue[f].attempts = MaxAttempts /\ ~WorkedOn(f)
    /\ {<<f, "slow">>, <<f, "stopped">>} \cap exposed # {}

\* Where a server has a publisher, every feedback is published or fails in the
\* end, or is left with all its attempts made and nobody at work on it, which a
\* publisher stopped in the last attempt or slower than its lease must have
\* caused: a slow publisher alone exempts nothing, as long as attempts remain
\* (ClaimAppFeedbackForPublishing, RescheduleAppFeedback, feedbackFailure).
EveryFeedbackEnds ==
    \A f \in Feedback : queue[f].status = "PENDING" /\ (\E p \in Publishers : pub[p].pc # "off") ~>
        queue[f].status \in {"PUBLISHED", "FAILED"} \/ Stranded(f)
=============================================================================
