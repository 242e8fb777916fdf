-------------------------------- MODULE BobTx --------------------------------
(***************************************************************************)
(* Requests to base objects as the READ COMMITTED transactions they are    *)
(* (internal/domains/bob/service.go, the triggers of migrations 00006 and  *)
(* 00010), and the transactions of vouchers and workflows that resolve a   *)
(* reference.                                                              *)
(*                                                                         *)
(* A request locks its own object FOR UPDATE, then each object it refers   *)
(* to FOR SHARE, writes, and at commit the deferred constraints run under  *)
(* advisory locks.  Between two statements other transactions commit.  A   *)
(* statement that locks a row first reads it as committed ("Look"), waits, *)
(* and then tests its conditions on the locked row again ("Take").         *)
(***************************************************************************)
EXTENDS BobObjects

CONSTANTS
    Clients,      \* requests under way at the same time
    Stories,      \* initial rows and the requests made (model checking)
    MaxVersions,  \* bound on the versions of an object (model checking)
    MaxRevision   \* bound on the revision of a version (model checking)

VARIABLES
    rows,    \* bob_objects, bob_versions and details as committed
    tx,      \* the transaction of each client
    story    \* which requests this behavior makes

bobVars == <<rows, tx, story>>

Ops == {"create", "save", "submit", "approve", "reject", "edit", "delete", "resolve", "current"}

\* A story starts from what earlier requests may have left.
ASSUME StoriesAssumption ==
    \A s \in Stories :
        /\ DOMAIN s.rows \subseteq Objects /\ s.rows \in [DOMAIN s.rows -> Rows] /\ Sound(s.rows)
        /\ \A ask \in s.asks : /\ ask.op \in Ops /\ ask.object \in DOMAIN s.rows
                               /\ Merged(Blank, ask.input) \in Details

\* pc: "object" wants its own object, "look" reads the next reference, "take"
\* waits for it, "keys" checks foreign keys, "check" the other deferred
\* constraints, "commit" holds all it needs.
Idle == [pc |-> "idle", op |-> "none", object |-> None, actor |-> None, input |-> << >>,
         seen |-> << >>, locked |-> FALSE, shared |-> {}, advisory |-> << >>, todo |-> {},
         want |-> None, held |-> {}, work |-> Absent]

Init ==
    /\ story \in Stories
    /\ rows = story.rows
    /\ tx = [c \in Clients |-> Idle]

-----------------------------------------------------------------------------
(* Row locks and advisory locks, as the transactions hold them.            *)

Objs == DOMAIN rows

Others(c) == Clients \ {c}

\* FOR UPDATE waits for every other lock of the row, FOR SHARE (and the key
\* lock of a foreign key) for FOR UPDATE.
\* The slip: readers do not hold writers back.
FreeForUpdate_Mutant(c, o) == \A e \in Others(c) : ~(tx[e].locked /\ tx[e].object = o)
FreeForUpdate(c, o) ==
    \A e \in Others(c) : ~(tx[e].locked /\ tx[e].object = o) /\ o \notin tx[e].shared
FreeForShare(c, o) == \A e \in Others(c) : ~(tx[e].locked /\ tx[e].object = o)

Set(c, t) == tx' = [tx EXCEPT ![c] = t] /\ UNCHANGED <<rows, story>>

\* Rolled back: an error, a conflict or a broken connection.
Refuse(c) == Set(c, Idle)

\* The references are locked one by one; a self-reference is refused.
LockReferences(c, t) ==
    LET d == Top(t.work).detail
    IN  IF ~Complete(KindOf[t.object], d) THEN Refuse(c)
        ELSE Set(c, [t EXCEPT !.todo = References(d), !.pc = "look"])

-----------------------------------------------------------------------------
(* One action per statement.                                               *)

\* A client that has read the object asks for something to be done to it.
Begin(c) ==
    /\ tx[c].pc = "idle"
    /\ \E ask \in story.asks, actor \in Actors :
         LET o == ask.object
             t == [Idle EXCEPT !.op = ask.op, !.object = o, !.actor = actor, !.input = ask.input]
         IN  IF ask.op = "create"
             THEN /\ rows[o] = Absent
                  /\ \A e \in Others(c) : ~(tx[e].op = "create" /\ tx[e].object = o)
                  /\ Allowed(KindOf[o], ask.input)
                  /\ LockReferences(c, [t EXCEPT !.work =
                         Created(Normalized(Merged(Defaults(KindOf[o]), ask.input)))])
             ELSE /\ rows[o] # Absent
                  /\ ask.op = "save" => Allowed(KindOf[o], ask.input)
                  /\ ask.op \in {"resolve", "current"} => Effective(rows[o])
                  /\ Set(c, [t EXCEPT !.seen = Shown(rows[o]),
                         !.todo = IF ask.op \in {"resolve", "current"}
                                  THEN {[field |-> ask.op, object |-> o]} ELSE {},
                         !.pc = IF ask.op \in {"resolve", "current"} THEN "look" ELSE "object"])

\* Some version of some object refers to o.
IsReferenced(o) ==
    \E p \in Objs : \E n \in DOMAIN rows[p].versions :
        \E f \in RefFields : rows[p].versions[n].detail[f] = o

LockTarget(c) == tx[c].pc = "object" /\ FreeForUpdate(c, tx[c].object)

Locked(c) == [tx[c] EXCEPT !.locked = TRUE]

Save(c) ==
    /\ LockTarget(c) /\ tx[c].op = "save"
    /\ LET o == tx[c].object
           d == Normalized(Merged(Top(rows[o]).detail, tx[c].input))
           retargets == KindOf[o] = "category" /\ d["target"] # Top(rows[o]).detail["target"]
       IN  IF rows[o] = Absent \/ ~CanSave(rows[o], tx[c].seen) \/ (retargets /\ IsReferenced(o))
           THEN Refuse(c)
           ELSE /\ Top(rows[o]).revision < MaxRevision
                /\ LockReferences(c, [Locked(c) EXCEPT !.work = Saved(rows[o], d)])

Submit(c) ==
    /\ LockTarget(c) /\ tx[c].op = "submit"
    /\ LET row == rows[tx[c].object]
       IN  IF row = Absent \/ ~CanSubmit(row, tx[c].seen) THEN Refuse(c)
           ELSE /\ Top(row).revision < MaxRevision
                /\ LockReferences(c, [Locked(c) EXCEPT !.work = Submitted(row, tx[c].actor)])

Approve(c) ==
    /\ LockTarget(c) /\ tx[c].op = "approve"
    /\ LET row == rows[tx[c].object]
       IN  IF row = Absent \/ ~CanReview(row, tx[c].seen, tx[c].actor) THEN Refuse(c)
           ELSE LockReferences(c, [Locked(c) EXCEPT !.work = Approved(row)])

Reject(c) ==
    /\ LockTarget(c) /\ tx[c].op = "reject"
    /\ LET row == rows[tx[c].object]
       IN  IF row = Absent \/ ~CanReview(row, tx[c].seen, tx[c].actor) THEN Refuse(c)
           ELSE /\ Top(row).revision < MaxRevision
                /\ Set(c, [Locked(c) EXCEPT !.work = Rejected(row), !.pc = "commit"])

Edit(c) ==
    /\ LockTarget(c) /\ tx[c].op = "edit"
    /\ LET row == rows[tx[c].object]
       IN  IF row = Absent \/ ~CanEdit(row, tx[c].seen) THEN Refuse(c)
           ELSE /\ Len(row.versions) < MaxVersions
                /\ Set(c, [Locked(c) EXCEPT !.work = Edited(row), !.pc = "keys",
                              !.todo = References(Top(row).detail)])

Delete(c) ==
    /\ LockTarget(c) /\ tx[c].op = "delete"
    /\ LET o == tx[c].object
       IN  IF rows[o] = Absent \/ ~CanDelete(rows[o], tx[c].seen) \/ IsReferenced(o) THEN Refuse(c)
           ELSE Set(c, [Locked(c) EXCEPT !.work = Absent, !.pc = "commit"])

\* What the transaction's own version says; a consumer has none.
OwnDetail(t) == IF t.work = Absent THEN Blank ELSE Top(t.work).detail

\* The condition of the statement for a reference, on a committed row.
Found(t, ref) ==
    /\ ref.object \in Objs
    /\ ref.object = t.object => t.op \in {"resolve", "current"}
    /\ CASE ref.field = "resolve" -> rows[ref.object].effective = t.seen.version
         [] ref.field = "current" -> Effective(rows[ref.object])
         [] OTHER -> Suits(ref, KindOf[t.object], OwnDetail(t), rows[ref.object], KindOf[ref.object])

\* The statement for the next reference starts: it finds what has been
\* committed so far.
Look(c) ==
    /\ tx[c].pc = "look"
    /\ \E ref \in First(tx[c].todo) :
         IF Found(tx[c], ref)
         THEN Set(c, [tx[c] EXCEPT !.pc = "take", !.todo = @ \ {ref},
                        !.want = [field |-> ref.field, object |-> ref.object,
                                  version |-> rows[ref.object].effective]])
         ELSE Refuse(c)

\* A row that changed while the statement waited is tested again, except by
\* ResolveBobEffectiveReference: it compares the columns of the view, whose
\* own copy of the object row is neither locked nor read again.
\* The slip: no condition is tested again.
StillSuits_Mutant(want, row) == TRUE
StillSuits(want, row) ==
    want.field = "resolve" \/ (Effective(row) /\ row.effective = want.version)

\* A resolved vehicle brings its platform.
Brings(want) ==
    IF want.field \in {"resolve", "current"} /\ KindOf[want.object] = "vehicle"
    THEN {[field |-> "platform",
           object |-> rows[want.object].versions[want.version].detail["platform"]]}
    ELSE {}

Take(c) ==
    /\ tx[c].pc = "take"
    /\ LET want == tx[c].want
       IN  /\ FreeForShare(c, want.object)
           /\ IF StillSuits(want, rows[want.object])
              THEN Set(c, [tx[c] EXCEPT !.pc = "look", !.want = None, !.shared = @ \cup {want.object},
                             !.todo = @ \cup Brings(want), !.held = @ \cup {want}])
              ELSE Refuse(c)

\* All references are locked; details that were written have constraints.
EndReferences(c) ==
    /\ tx[c].pc = "look" /\ tx[c].todo = {}
    /\ Set(c, [tx[c] EXCEPT !.pc = IF tx[c].op \in {"create", "save"} THEN "check" ELSE "commit"])

\* The copied detail of an edit is checked by its foreign keys only, which
\* wait for whoever is changing the object referred to.
TakeKey(c) ==
    /\ tx[c].pc = "keys"
    /\ \/ tx[c].todo = {} /\ Set(c, [tx[c] EXCEPT !.pc = "check"])
       \/ \E ref \in tx[c].todo :
            /\ FreeForShare(c, ref.object)
            /\ Set(c, [tx[c] EXCEPT !.todo = @ \ {ref}, !.shared = @ \cup {ref.object}])

-----------------------------------------------------------------------------
(* The deferred constraint triggers.                                       *)

\* The advisory lock a detail is checked under; the slip: identifiers are compared without a lock.
AdvisoryOf_Mutant(kind, d) == IF kind \in {"category", "department"} THEN <<"tree", kind>> ELSE << >>
AdvisoryOf(kind, d) ==
    IF kind \in {"category", "department"} THEN <<"tree", kind>>
    ELSE IF d["key"] # None THEN <<kind, d["key"]>> ELSE << >>

\* The slip: both take the advisory lock.
AdvisoryFree_Mutant(c, a) == TRUE
AdvisoryFree(c, a) == a = << >> \/ \A e \in Others(c) : tx[e].advisory # a

\* bob_validate_category_tree, bob_validate_department_tree
TreeHolds(o, d) ==
    /\ d["target"] # CurrentDetail(IF rows[o] = Absent THEN Created(d) ELSE rows[o])["target"] => ~IsReferenced(o)
    /\ d["parent"] # None =>
         /\ d["parent"] # o
         /\ Effective(rows[d["parent"]])
         /\ CurrentDetail(rows[d["parent"]])["target"] = d["target"]
         /\ o \notin Ancestors(rows, d["parent"])

\* bob_validate_current_detail_unique, bob_validate_current_vehicle_plate
KeyHolds(o, d) ==
    d["key"] # None =>
        \A p \in Objs \ {o} :
            KindOf[p] = KindOf[o] /\ rows[p] # Absent => CurrentDetail(rows[p])["key"] # d["key"]

\* bob_prevent_platform_type_downgrade
TypeHolds(o, d) ==
    d["type"] = "GENERAL" =>
        \A p \in Objs : rows[p] # Absent => CurrentDetail(rows[p])["platform"] # o

Check(c) ==
    /\ tx[c].pc = "check"
    /\ LET o == tx[c].object
           d == OwnDetail(tx[c])
           a == AdvisoryOf(KindOf[o], d)
       IN  /\ AdvisoryFree(c, a)
           /\ IF TreeHolds(o, d) /\ KeyHolds(o, d) /\ TypeHolds(o, d)
              THEN Set(c, [tx[c] EXCEPT !.pc = "commit", !.advisory = a])
              ELSE Refuse(c)

Commit(c) ==
    /\ tx[c].pc = "commit"
    /\ rows' = IF tx[c].op \in {"resolve", "current"} THEN rows
               ELSE [rows EXCEPT ![tx[c].object] = tx[c].work]
    /\ tx' = [tx EXCEPT ![c] = Idle]
    /\ UNCHANGED story

\* The request is cancelled, its connection breaks, or PostgreSQL picks it as
\* the victim of a deadlock.
Fail(c) == tx[c].pc # "idle" /\ Refuse(c)

Next ==
    \E c \in Clients :
        \/ Begin(c) \/ Save(c) \/ Submit(c) \/ Approve(c) \/ Reject(c) \/ Edit(c) \/ Delete(c)
        \/ Look(c) \/ Take(c) \/ EndReferences(c) \/ TakeKey(c) \/ Check(c) \/ Commit(c) \/ Fail(c)

Spec == Init /\ [][Next]_bobVars

-----------------------------------------------------------------------------
(* Properties.                                                             *)

\* Rows are rows of the tables and agree with each other, whatever the order
\* of the requests to an object (service.go).
TypeOK ==
    /\ rows \in [Objs -> Rows]
    /\ \A o \in Objs : Legal(KindOf[o], rows[o])
    /\ \A c \in Clients : tx[c].op \in Ops \cup {"none"} /\ tx[c].shared \subseteq Objs

\* A reference a transaction has locked stays effective until it ends, so what
\* is approved, submitted or saved never refers to an object that was being
\* edited at that moment (LockEffectiveBobReference and its kin).
HeldReferencesEffective ==
    \A c \in Clients : \A h \in tx[c].held :
        h.field # "resolve" => rows[h.object].effective = h.version

\* The same of the references vouchers and workflows resolve, as the comment
\* above ResolveEffectiveReference (service.go) says.
ResolvedStayEffective ==
    \A c \in Clients : \A h \in tx[c].held :
        h.field = "resolve" => rows[h.object].effective = h.version

\* The parents of categories and departments form trees, also when several
\* requests move branches of one tree at the same time
\* (bob_validate_department_tree runs before either of them commits).
TreesHaveNoCycle == Acyclic(rows)

\* No two current versions of a kind have one identifier
\* (bob_validate_current_detail_unique), and identifiers are stored in their
\* canonical form.
CurrentKeysUnique == Identified(rows)

\* What other objects rely on stays: nothing that is referred to is deleted, a
\* category keeps the target it was chosen for by any version of any object,
\* and the platform of a current vehicle remains a logistics platform, although
\* the two are written by different requests that share no row they both change.
RolesKept == Linked(rows) /\ Suited(rows)
=============================================================================
