---------------------------- MODULE BobTx_proofs ----------------------------
(***************************************************************************)
(* Proofs about BobTx, for any number of objects, clients and versions.    *)
(*                                                                         *)
(* First, that what a transaction holds stays as it found it: a row is     *)
(* written by a transaction that has locked it for update, or by the one   *)
(* that creates it; a reference is held under a share lock, which keeps    *)
(* the former away, and on a row that exists, which cannot be the          *)
(* latter's (IInv).                                                        *)
(*                                                                         *)
(* Then, that the rows agree with each other whatever is committed         *)
(* (JInv).  Good says what each transaction may rely on meanwhile: what it *)
(* writes follows from its row as it is (Follows), each reference it       *)
(* brings is held and fits (Backed), nobody refers to what it deletes or   *)
(* rededicates (Bare), and what the triggers found still holds (Checked).  *)
(* SoundAfter: a commit of such a transaction leaves the rows sound.       *)
(* CommitKeeps: it takes nothing from another, because the two share no    *)
(* row or no advisory lock.                                                *)
(***************************************************************************)
EXTENDS BobTx, TLAPS

Consumers == {"resolve", "current"}

TxFields == {"pc", "op", "object", "actor", "input", "seen", "locked", "shared", "advisory", "todo",
           "want", "held", "work"}

\* How far a transaction has come, and with what.
Fit(t) ==
    /\ DOMAIN t = TxFields
    /\ t.pc \in {"idle", "object"} => t.held = {} /\ t.shared = {}
    /\ t.pc \in {"idle", "object"} => ~t.locked
    /\ t.pc \notin {"idle", "object"} /\ t.op \notin Consumers \cup {"create"} => t.locked
    /\ t.locked => t.op # "create"
    /\ \A h \in t.held : h.object \in t.shared

Fits ==
    /\ DOMAIN tx = Clients
    /\ \A c \in Clients : Fit(tx[c])

\* Nobody else shares or locks what a transaction has locked for update.
Exclusive ==
    \A c, d \in Clients : c # d /\ tx[c].locked =>
        /\ tx[c].object \notin tx[d].shared
        /\ ~(tx[d].locked /\ tx[d].object = tx[c].object)

Creating(c) == tx[c].op = "create" /\ tx[c].pc # "idle"

\* What is created is not there yet and created once; what is locked is there.
Presence ==
    \A c \in Clients :
        /\ Creating(c) => /\ rows[tx[c].object] = Absent
                          /\ \A d \in Clients \ {c} : ~(Creating(d) /\ tx[d].object = tx[c].object)
        /\ tx[c].locked => rows[tx[c].object] # Absent
        /\ \A h \in tx[c].held : h.field # "resolve" => h.version # 0

\* What a transaction is about has a row, present or absent.
Placed(t) ==
    /\ t.pc # "idle" => t.object \in Objs
    /\ t.pc = "take" => t.want.object \in Objs
    /\ \A h \in t.held : h.object \in Objs

World ==
    /\ story \in Stories /\ Objs = DOMAIN story.rows
    /\ \A c \in Clients : Placed(tx[c])

IInv == Fits /\ Exclusive /\ Presence /\ World /\ HeldReferencesEffective

-----------------------------------------------------------------------------
LEMMA IdleFits == Fit(Idle) /\ Idle.pc = "idle" /\ Idle.held = {} /\ Idle.shared = {} /\ ~Idle.locked
  BY DEF Fit, Idle, TxFields

LEMMA InitInvariant == Init => IInv
  <1> SUFFICES ASSUME Init
               PROVE  IInv
    OBVIOUS
  <1>1. DOMAIN tx = Clients /\ \A c \in Clients : tx[c] = Idle
    BY DEF Init
  <1> QED
    BY <1>1, IdleFits DEF Init, Objs, World, Placed, IInv, Fits, Exclusive, Presence, Creating,
                         HeldReferencesEffective

\* A transaction moves on and leaves the rows alone.
LEMMA SetStep ==
    ASSUME IInv, NEW c \in Clients, NEW t, Set(c, t), Fit(t), Placed(t),
           t.locked => /\ rows[t.object] # Absent
                       /\ \A d \in Clients \ {c} : /\ t.object \notin tx[d].shared
                                                   /\ ~(tx[d].locked /\ tx[d].object = t.object),
           \A d \in Clients \ {c} : tx[d].locked => tx[d].object \notin t.shared,
           t.op = "create" /\ t.pc # "idle" =>
               /\ rows[t.object] = Absent
               /\ \A d \in Clients \ {c} : ~(Creating(d) /\ tx[d].object = t.object),
           \A h \in t.held : h.field # "resolve" =>
               h.version # 0 /\ rows[h.object].effective = h.version
    PROVE  IInv'
  <1>1. /\ DOMAIN tx' = Clients /\ tx'[c] = t
        /\ \A d \in Clients \ {c} : tx'[d] = tx[d]
        /\ rows' = rows /\ story' = story
    BY DEF Set, IInv, Fits
  <1>2. Fits'
    BY <1>1 DEF IInv, Fits
  <1>3. Exclusive'
    BY <1>1 DEF IInv, Exclusive
  <1>4. Presence'
    BY <1>1 DEF IInv, Presence, Creating
  <1>5. HeldReferencesEffective'
    BY <1>1 DEF IInv, HeldReferencesEffective
  <1>6. World'
    BY <1>1 DEF IInv, World, Placed, Objs
  <1> QED
    BY <1>2, <1>3, <1>4, <1>5, <1>6 DEF IInv

LEMMA RefuseInvariant ==
    ASSUME IInv, NEW c \in Clients, Refuse(c)
    PROVE  IInv'
  BY SetStep, IdleFits DEF Refuse, Placed

\* One that keeps its object and its locks, and goes on past the object's.
LEMMA OnwardStep ==
    ASSUME IInv, NEW c \in Clients, NEW t, Set(c, t), DOMAIN t = TxFields,
           tx[c].pc \notin {"idle", "object"}, t.pc \notin {"idle", "object"},
           t.pc = "take" => t.want.object \in Objs,
           t.op = tx[c].op, t.object = tx[c].object, t.locked = tx[c].locked,
           t.shared = tx[c].shared, t.held = tx[c].held
    PROVE  IInv'
  <1>1. Fit(t)
    BY DEF IInv, Fits, Fit
  <1>2. Placed(t)
    BY DEF IInv, World, Placed
  <1> QED
    BY <1>1, <1>2, SetStep DEF IInv, Exclusive, Presence, Creating, HeldReferencesEffective

LEMMA LockReferencesStep ==
    ASSUME IInv, NEW c \in Clients, NEW t, LockReferences(c, t), DOMAIN t = TxFields,
           t.held = {}, t.shared = {}, t.object \in Objs,
           t.op \notin Consumers,
           t.locked <=> t.op # "create",
           t.locked => /\ rows[t.object] # Absent
                       /\ \A d \in Clients \ {c} : /\ t.object \notin tx[d].shared
                                                   /\ ~(tx[d].locked /\ tx[d].object = t.object),
           t.op = "create" =>
               /\ rows[t.object] = Absent
               /\ \A d \in Clients \ {c} : ~(Creating(d) /\ tx[d].object = t.object)
    PROVE  IInv'
  <1>1. CASE Refuse(c)
    BY <1>1, RefuseInvariant
  <1>2. ASSUME NEW todo, Set(c, [t EXCEPT !.todo = todo, !.pc = "look"])
        PROVE  IInv'
    <2> DEFINE q == [t EXCEPT !.todo = todo, !.pc = "look"]
    <2>1. /\ DOMAIN q = TxFields /\ q.pc = "look" /\ q.op = t.op /\ q.object = t.object
          /\ q.locked = t.locked /\ q.shared = {} /\ q.held = {}
      BY DEF TxFields
    <2> HIDE DEF q
    <2>2. Fit(q)
      BY <2>1 DEF Fit
    <2>3. Placed(q)
      BY <2>1 DEF Placed
    <2> QED
      BY <1>2, <2>1, <2>2, <2>3, SetStep DEF q
  <1> QED
    BY <1>1, <1>2 DEF LockReferences

-----------------------------------------------------------------------------
(* The object's own lock.                                                  *)

LEMMA TargetFree ==
    ASSUME IInv, NEW c \in Clients, LockTarget(c)
    PROVE  /\ tx[c].pc = "object" /\ tx[c].object \in Objs
           /\ DOMAIN tx[c] = TxFields /\ tx[c].held = {} /\ tx[c].shared = {}
           /\ \A d \in Clients \ {c} : /\ tx[c].object \notin tx[d].shared
                                       /\ ~(tx[d].locked /\ tx[d].object = tx[c].object)
  <1>1. /\ tx[c].pc = "object" /\ tx[c].object \in Objs
        /\ DOMAIN tx[c] = TxFields /\ tx[c].held = {} /\ tx[c].shared = {}
    BY DEF IInv, Fits, Fit, World, Placed, LockTarget
  <1> QED
    BY <1>1 DEF LockTarget, FreeForUpdate, Others

LEMMA TargetStep ==
    ASSUME IInv, NEW c \in Clients, LockTarget(c), rows[tx[c].object] # Absent,
           tx[c].op \notin Consumers \cup {"create"},
           NEW t, Set(c, t), DOMAIN t = TxFields, t.locked, t.op = tx[c].op, t.object = tx[c].object,
           t.shared = {}, t.held = {}, t.pc \in {"commit", "keys"}
    PROVE  IInv'
  <1>1. Fit(t)
    BY DEF Fit
  <1>2. Placed(t)
    BY TargetFree DEF Placed
  <1>3. /\ rows[t.object] # Absent
        /\ \A d \in Clients \ {c} : /\ t.object \notin tx[d].shared
                                    /\ ~(tx[d].locked /\ tx[d].object = t.object)
    BY TargetFree
  <1> QED
    BY <1>1, <1>2, <1>3, SetStep

LEMMA TargetReferences ==
    ASSUME IInv, NEW c \in Clients, LockTarget(c), rows[tx[c].object] # Absent,
           tx[c].op \notin Consumers \cup {"create"},
           NEW work, LockReferences(c, [Locked(c) EXCEPT !.work = work])
    PROVE  IInv'
  <1> DEFINE q == [Locked(c) EXCEPT !.work = work]
  <1>1. /\ DOMAIN q = TxFields /\ q.locked /\ q.op = tx[c].op /\ q.object = tx[c].object
        /\ q.shared = {} /\ q.held = {}
    BY TargetFree DEF Locked, TxFields
  <1>2. LockReferences(c, q)
    OBVIOUS
  <1> HIDE DEF q
  <1>3. /\ rows[q.object] # Absent
        /\ \A d \in Clients \ {c} : /\ q.object \notin tx[d].shared
                                    /\ ~(tx[d].locked /\ tx[d].object = q.object)
    BY <1>1, TargetFree
  <1> QED
    BY <1>1, <1>2, <1>3, TargetFree, LockReferencesStep

LEMMA SaveInvariant ==
    ASSUME IInv, NEW c \in Clients, Save(c)
    PROVE  IInv'
  <1>1. CASE Refuse(c)
    BY <1>1, RefuseInvariant
  <1>2. ASSUME NEW work, rows[tx[c].object] # Absent,
               LockReferences(c, [Locked(c) EXCEPT !.work = work])
        PROVE  IInv'
    BY <1>2, TargetReferences DEF Save, Consumers
  <1> QED
    BY <1>1, <1>2 DEF Save

LEMMA SubmitInvariant ==
    ASSUME IInv, NEW c \in Clients, Submit(c)
    PROVE  IInv'
  <1>1. CASE Refuse(c)
    BY <1>1, RefuseInvariant
  <1>2. ASSUME NEW work, rows[tx[c].object] # Absent,
               LockReferences(c, [Locked(c) EXCEPT !.work = work])
        PROVE  IInv'
    BY <1>2, TargetReferences DEF Submit, Consumers
  <1> QED
    BY <1>1, <1>2 DEF Submit

LEMMA ApproveInvariant ==
    ASSUME IInv, NEW c \in Clients, Approve(c)
    PROVE  IInv'
  <1>1. CASE Refuse(c)
    BY <1>1, RefuseInvariant
  <1>2. ASSUME NEW work, rows[tx[c].object] # Absent,
               LockReferences(c, [Locked(c) EXCEPT !.work = work])
        PROVE  IInv'
    BY <1>2, TargetReferences DEF Approve, Consumers
  <1> QED
    BY <1>1, <1>2 DEF Approve

LEMMA RejectInvariant ==
    ASSUME IInv, NEW c \in Clients, Reject(c)
    PROVE  IInv'
  <1>1. CASE Refuse(c)
    BY <1>1, RefuseInvariant
  <1>2. ASSUME NEW work, rows[tx[c].object] # Absent,
               Set(c, [Locked(c) EXCEPT !.work = work, !.pc = "commit"])
        PROVE  IInv'
    <2> DEFINE q == [Locked(c) EXCEPT !.work = work, !.pc = "commit"]
    <2>1. /\ DOMAIN q = TxFields /\ q.locked /\ q.op = tx[c].op /\ q.object = tx[c].object
          /\ q.shared = {} /\ q.held = {} /\ q.pc = "commit"
      BY TargetFree DEF Reject, Locked, TxFields
    <2>2. Set(c, q)
      BY <1>2
    <2> HIDE DEF q
    <2> QED
      BY <1>2, <2>1, <2>2, TargetStep DEF Reject, Consumers
  <1> QED
    BY <1>1, <1>2 DEF Reject

LEMMA EditInvariant ==
    ASSUME IInv, NEW c \in Clients, Edit(c)
    PROVE  IInv'
  <1>1. CASE Refuse(c)
    BY <1>1, RefuseInvariant
  <1>2. ASSUME NEW work, NEW todo, rows[tx[c].object] # Absent,
               Set(c, [Locked(c) EXCEPT !.work = work, !.pc = "keys", !.todo = todo])
        PROVE  IInv'
    <2> DEFINE q == [Locked(c) EXCEPT !.work = work, !.pc = "keys", !.todo = todo]
    <2>1. /\ DOMAIN q = TxFields /\ q.locked /\ q.op = tx[c].op /\ q.object = tx[c].object
          /\ q.shared = {} /\ q.held = {} /\ q.pc = "keys"
      BY TargetFree DEF Edit, Locked, TxFields
    <2>2. Set(c, q)
      BY <1>2
    <2> HIDE DEF q
    <2> QED
      BY <1>2, <2>1, <2>2, TargetStep DEF Edit, Consumers
  <1> QED
    BY <1>1, <1>2 DEF Edit

LEMMA DeleteInvariant ==
    ASSUME IInv, NEW c \in Clients, Delete(c)
    PROVE  IInv'
  <1>1. CASE Refuse(c)
    BY <1>1, RefuseInvariant
  <1>2. ASSUME NEW work, rows[tx[c].object] # Absent,
               Set(c, [Locked(c) EXCEPT !.work = work, !.pc = "commit"])
        PROVE  IInv'
    <2> DEFINE q == [Locked(c) EXCEPT !.work = work, !.pc = "commit"]
    <2>1. /\ DOMAIN q = TxFields /\ q.locked /\ q.op = tx[c].op /\ q.object = tx[c].object
          /\ q.shared = {} /\ q.held = {} /\ q.pc = "commit"
      BY TargetFree DEF Delete, Locked, TxFields
    <2>2. Set(c, q)
      BY <1>2
    <2> HIDE DEF q
    <2> QED
      BY <1>2, <2>1, <2>2, TargetStep DEF Delete, Consumers
  <1> QED
    BY <1>1, <1>2 DEF Delete

-----------------------------------------------------------------------------
(* References.                                                             *)

LEMMA LookInvariant ==
    ASSUME IInv, NEW c \in Clients, Look(c)
    PROVE  IInv'
  <1>1. CASE Refuse(c)
    BY <1>1, RefuseInvariant
  <1>2. ASSUME NEW todo, NEW want, want.object \in Objs,
               Set(c, [tx[c] EXCEPT !.pc = "take", !.todo = todo, !.want = want])
        PROVE  IInv'
    <2> DEFINE q == [tx[c] EXCEPT !.pc = "take", !.todo = todo, !.want = want]
    <2>1. /\ DOMAIN tx[c] = TxFields /\ tx[c].pc = "look"
      BY DEF Look, IInv, Fits, Fit
    <2>2. /\ DOMAIN q = TxFields /\ q.locked = tx[c].locked /\ q.op = tx[c].op
          /\ q.object = tx[c].object /\ q.shared = tx[c].shared /\ q.held = tx[c].held
          /\ q.pc = "take" /\ q.want = want
      BY <2>1 DEF TxFields
    <2>3. Set(c, q)
      BY <1>2
    <2> HIDE DEF q
    <2> QED
      BY <1>2, <2>1, <2>2, <2>3, OnwardStep
  <1>3. PICK ref \in First(tx[c].todo) :
          IF Found(tx[c], ref)
          THEN Set(c, [tx[c] EXCEPT !.pc = "take", !.todo = @ \ {ref},
                         !.want = [field |-> ref.field, object |-> ref.object,
                                   version |-> rows[ref.object].effective]])
          ELSE Refuse(c)
    BY DEF Look
  <1>4. CASE Found(tx[c], ref)
    <2>1. ref.object \in Objs
      BY <1>4 DEF Found
    <2>2. PICK want : want = [field |-> ref.field, object |-> ref.object, version |-> rows[ref.object].effective]
      OBVIOUS
    <2>3. PICK todo : todo = tx[c].todo \ {ref}
      OBVIOUS
    <2>4. want.object \in Objs
      BY <2>1, <2>2
    <2>5. Set(c, [tx[c] EXCEPT !.pc = "take", !.todo = todo, !.want = want])
      BY <1>3, <1>4, <2>2, <2>3
    <2> QED
      BY <1>2, <2>4, <2>5
  <1> QED
    BY <1>1, <1>3, <1>4

LEMMA EndReferencesInvariant ==
    ASSUME IInv, NEW c \in Clients, EndReferences(c)
    PROVE  IInv'
  <1>1. PICK pc \in {"check", "commit"} : Set(c, [tx[c] EXCEPT !.pc = pc])
    BY DEF EndReferences
  <1> DEFINE q == [tx[c] EXCEPT !.pc = pc]
  <1>2. /\ DOMAIN tx[c] = TxFields /\ tx[c].pc = "look"
    BY DEF EndReferences, IInv, Fits, Fit
  <1>3. /\ DOMAIN q = TxFields /\ q.locked = tx[c].locked /\ q.op = tx[c].op
        /\ q.object = tx[c].object /\ q.shared = tx[c].shared /\ q.held = tx[c].held
        /\ q.pc = pc
    BY <1>2 DEF TxFields
  <1>4. Set(c, q)
    BY <1>1
  <1> HIDE DEF q
  <1> QED
    BY <1>2, <1>3, <1>4, OnwardStep

LEMMA CheckInvariant ==
    ASSUME IInv, NEW c \in Clients, Check(c)
    PROVE  IInv'
  <1>1. CASE Refuse(c)
    BY <1>1, RefuseInvariant
  <1>2. ASSUME NEW a, Set(c, [tx[c] EXCEPT !.pc = "commit", !.advisory = a])
        PROVE  IInv'
    <2> DEFINE q == [tx[c] EXCEPT !.pc = "commit", !.advisory = a]
    <2>1. /\ DOMAIN tx[c] = TxFields /\ tx[c].pc = "check"
      BY DEF Check, IInv, Fits, Fit
    <2>2. /\ DOMAIN q = TxFields /\ q.locked = tx[c].locked /\ q.op = tx[c].op
          /\ q.object = tx[c].object /\ q.shared = tx[c].shared /\ q.held = tx[c].held
          /\ q.pc = "commit"
      BY <2>1 DEF TxFields
    <2>3. Set(c, q)
      BY <1>2
    <2> HIDE DEF q
    <2> QED
      BY <2>1, <2>2, <2>3, OnwardStep
  <1> QED
    BY <1>1, <1>2 DEF Check

\* A share lock is added, with what it was taken for.
LEMMA SharingStep ==
    ASSUME IInv, NEW c \in Clients, NEW o, FreeForShare(c, o), NEW t, Set(c, t), DOMAIN t = TxFields,
           tx[c].pc \notin {"idle", "object"}, t.pc \in {"look", "keys"},
           t.op = tx[c].op, t.object = tx[c].object, t.locked = tx[c].locked,
           t.shared = tx[c].shared \cup {o},
           \A h \in t.held \ tx[c].held :
               /\ h.object = o /\ o \in Objs
               /\ h.field # "resolve" => h.version # 0 /\ rows[o].effective = h.version
    PROVE  IInv'
  <1>1. Fit(t)
    BY DEF IInv, Fits, Fit
  <1>2. Placed(t)
    BY DEF IInv, World, Placed
  <1>3. \A d \in Clients \ {c} : tx[d].locked => tx[d].object \notin t.shared
    BY DEF FreeForShare, Others, IInv, Exclusive
  <1>4. t.locked => /\ rows[t.object] # Absent
                    /\ \A d \in Clients \ {c} : /\ t.object \notin tx[d].shared
                                                /\ ~(tx[d].locked /\ tx[d].object = t.object)
    BY DEF IInv, Exclusive, Presence
  <1>5. t.op = "create" /\ t.pc # "idle" =>
               /\ rows[t.object] = Absent
               /\ \A d \in Clients \ {c} : ~(Creating(d) /\ tx[d].object = t.object)
    BY DEF IInv, Presence, Creating
  <1>6. \A h \in t.held : h.field # "resolve" =>
               h.version # 0 /\ rows[h.object].effective = h.version
    BY DEF IInv, Presence, HeldReferencesEffective
  <1> QED
    BY <1>1, <1>2, <1>3, <1>4, <1>5, <1>6, SetStep

LEMMA TakeKeyInvariant ==
    ASSUME IInv, NEW c \in Clients, TakeKey(c)
    PROVE  IInv'
  <1>1. /\ DOMAIN tx[c] = TxFields /\ tx[c].pc = "keys"
    BY DEF TakeKey, IInv, Fits, Fit
  <1>2. CASE Set(c, [tx[c] EXCEPT !.pc = "check"])
    <2> DEFINE q == [tx[c] EXCEPT !.pc = "check"]
    <2>1. /\ DOMAIN q = TxFields /\ q.locked = tx[c].locked /\ q.op = tx[c].op
          /\ q.object = tx[c].object /\ q.shared = tx[c].shared /\ q.held = tx[c].held
          /\ q.pc = "check"
      BY <1>1 DEF TxFields
    <2>2. Set(c, q)
      BY <1>2
    <2> HIDE DEF q
    <2> QED
      BY <1>1, <2>1, <2>2, OnwardStep
  <1>3. ASSUME NEW o, NEW todo, FreeForShare(c, o),
               Set(c, [tx[c] EXCEPT !.todo = todo, !.shared = @ \cup {o}])
        PROVE  IInv'
    <2> DEFINE q == [tx[c] EXCEPT !.todo = todo, !.shared = @ \cup {o}]
    <2>1. /\ DOMAIN q = TxFields /\ q.locked = tx[c].locked /\ q.op = tx[c].op
          /\ q.object = tx[c].object /\ q.shared = tx[c].shared \cup {o} /\ q.held = tx[c].held
          /\ q.pc = "keys"
      BY <1>1 DEF TxFields
    <2>2. Set(c, q)
      BY <1>3
    <2> HIDE DEF q
    <2> QED
      BY <1>1, <1>3, <2>1, <2>2, SharingStep
  <1> QED
    BY <1>2, <1>3 DEF TakeKey

LEMMA TakeInvariant ==
    ASSUME IInv, NEW c \in Clients, Take(c)
    PROVE  IInv'
  <1> DEFINE want == tx[c].want
  <1>1. /\ DOMAIN tx[c] = TxFields /\ tx[c].pc = "take" /\ want.object \in Objs
    BY DEF Take, IInv, Fits, Fit, World, Placed
  <1>2. CASE ~StillSuits(want, rows[want.object])
    BY <1>2, RefuseInvariant DEF Take
  <1>3. CASE StillSuits(want, rows[want.object])
    <2> DEFINE q == [tx[c] EXCEPT !.pc = "look", !.want = None, !.shared = @ \cup {want.object},
                                  !.todo = @ \cup Brings(want), !.held = @ \cup {want}]
    <2>1. Set(c, q) /\ FreeForShare(c, want.object)
      BY <1>3 DEF Take
    <2>2. /\ DOMAIN q = TxFields /\ q.locked = tx[c].locked /\ q.op = tx[c].op
          /\ q.object = tx[c].object /\ q.shared = tx[c].shared \cup {want.object}
          /\ q.held = tx[c].held \cup {want} /\ q.pc = "look"
      BY <1>1 DEF TxFields
    <2>3. want.field # "resolve" => want.version # 0 /\ rows[want.object].effective = want.version
      BY <1>3 DEF StillSuits, Effective
    <2>4. PICK w : w = want
      OBVIOUS
    <2> HIDE DEF q, want
    <2>5. \A g \in q.held \ tx[c].held :
               /\ g.object = w.object /\ w.object \in Objs
               /\ g.field # "resolve" => g.version # 0 /\ rows[w.object].effective = g.version
      BY <1>1, <2>2, <2>3, <2>4
    <2> QED
      BY <1>1, <2>1, <2>2, <2>4, <2>5, SharingStep
  <1> QED
    BY <1>2, <1>3

-----------------------------------------------------------------------------
(* Beginning and committing.                                               *)

LEMMA BeginInvariant ==
    ASSUME IInv, NEW c \in Clients, Begin(c)
    PROVE  IInv'
  <1> PICK ask \in story.asks, actor \in Actors :
        LET o == ask.object
            t == [Idle EXCEPT !.op = ask.op, !.object = o, !.actor = actor, !.input = ask.input]
        IN  IF ask.op = "create"
            THEN /\ rows[o] = Absent
                 /\ \A e \in Others(c) : ~(tx[e].op = "create" /\ tx[e].object = o)
                 /\ Allowed(KindOf[o], ask.input)
                 /\ LockReferences(c, [t EXCEPT !.work =
                        Created(Normalized(Merged(Defaults(KindOf[o]), ask.input)))])
            ELSE /\ rows[o] # Absent
                 /\ ask.op = "save" => Allowed(KindOf[o], ask.input)
                 /\ ask.op \in {"resolve", "current"} => Effective(rows[o])
                 /\ Set(c, [t EXCEPT !.seen = Shown(rows[o]),
                        !.todo = IF ask.op \in {"resolve", "current"}
                                 THEN {[field |-> ask.op, object |-> o]} ELSE {},
                        !.pc = IF ask.op \in {"resolve", "current"} THEN "look" ELSE "object"])
    BY DEF Begin
  <1> DEFINE t == [Idle EXCEPT !.op = ask.op, !.object = ask.object, !.actor = actor, !.input = ask.input]
  <1>1. ask.object \in Objs
    BY StoriesAssumption DEF IInv, World
  <1>2. /\ DOMAIN t = TxFields /\ t.op = ask.op /\ t.object = ask.object /\ t.pc = "idle"
        /\ t.held = {} /\ t.shared = {} /\ ~t.locked
    BY DEF Idle, TxFields
  <1>3. ASSUME ask.op = "create", NEW work, LockReferences(c, [t EXCEPT !.work = work])
        PROVE  IInv'
    <2> DEFINE q == [t EXCEPT !.work = work]
    <2>1. LockReferences(c, q)
      BY <1>3
    <2>2. /\ rows[ask.object] = Absent
          /\ \A e \in Clients \ {c} : ~(tx[e].op = "create" /\ tx[e].object = ask.object)
      BY <1>3 DEF Others
    <2> HIDE DEF t
    <2>3. /\ DOMAIN q = TxFields /\ q.op = "create" /\ q.object = ask.object
          /\ q.held = {} /\ q.shared = {} /\ ~q.locked
      BY <1>2, <1>3 DEF TxFields
    <2> HIDE DEF q
    <2>4. \A d \in Clients \ {c} : ~(Creating(d) /\ tx[d].object = q.object)
      BY <2>2, <2>3 DEF Creating
    <2> QED
      BY <1>1, <2>1, <2>2, <2>3, <2>4, LockReferencesStep DEF Consumers
  <1>4. ASSUME ask.op # "create", NEW seen, NEW todo, NEW pc, pc \in {"look", "object"},
               pc = "look" => ask.op \in Consumers,
               Set(c, [t EXCEPT !.seen = seen, !.todo = todo, !.pc = pc])
        PROVE  IInv'
    <2> DEFINE q == [t EXCEPT !.seen = seen, !.todo = todo, !.pc = pc]
    <2>1. Set(c, q)
      BY <1>4
    <2> HIDE DEF t
    <2>2. /\ DOMAIN q = TxFields /\ q.op = ask.op /\ q.object = ask.object /\ q.pc = pc
          /\ q.held = {} /\ q.shared = {} /\ ~q.locked
      BY <1>2 DEF TxFields
    <2> HIDE DEF q
    <2>3. Fit(q)
      BY <1>4, <2>2 DEF Fit
    <2>4. Placed(q)
      BY <1>1, <1>4, <2>2 DEF Placed
    <2> QED
      BY <1>4, <2>1, <2>2, <2>3, <2>4, SetStep
  <1>5. CASE ask.op = "create"
    BY <1>3, <1>5
  <1>6. CASE ask.op # "create"
    BY <1>4, <1>6 DEF Consumers
  <1> QED
    BY <1>5, <1>6

\* Only a row the transaction has locked, or is creating, is written.
LEMMA CommitInvariant ==
    ASSUME IInv, NEW c \in Clients, Commit(c)
    PROVE  IInv'
  <1> DEFINE o == tx[c].object
  <1>1. /\ DOMAIN tx' = Clients /\ tx'[c] = Idle
        /\ \A d \in Clients \ {c} : tx'[d] = tx[d]
        /\ DOMAIN rows' = DOMAIN rows /\ story' = story
    BY DEF Commit, IInv, Fits
  <1>2. Fits'
    BY <1>1, IdleFits DEF IInv, Fits
  <1>3. Exclusive'
    BY <1>1, IdleFits DEF IInv, Exclusive
  <1>4. World'
    BY <1>1, IdleFits DEF IInv, World, Placed, Objs
  <1>5. \/ rows' = rows
        \/ /\ tx[c].locked \/ Creating(c)
           /\ \A p \in Objs : p # o => rows'[p] = rows[p]
    <2>1. tx[c].op \in Consumers \/ tx[c].locked \/ tx[c].op = "create"
      BY DEF Commit, IInv, Fits, Fit
    <2>2. tx[c].op \in Consumers => rows' = rows
      BY DEF Commit, Consumers
    <2>3. tx[c].op \notin Consumers => rows' = [rows EXCEPT ![tx[c].object] = tx[c].work]
      BY DEF Commit, Consumers
    <2>4. tx[c].op \notin Consumers => \A p \in Objs : p # o => rows'[p] = rows[p]
      BY <2>3 DEF Objs
    <2> QED
      BY <2>1, <2>2, <2>4 DEF Creating, Commit
  <1>6. ASSUME NEW d \in Clients \ {c}
        PROVE  /\ Creating(d) => rows'[tx[d].object] = Absent
               /\ tx[d].locked => rows'[tx[d].object] # Absent
    <2>1. Creating(d) \/ tx[d].locked => tx[d].object \in Objs
      BY DEF IInv, World, Placed, Fits, Fit, Creating
    <2>2. Creating(d) /\ (tx[c].locked \/ Creating(c)) => tx[d].object # o
      BY DEF IInv, Presence
    <2>3. tx[d].locked /\ (tx[c].locked \/ Creating(c)) => tx[d].object # o
      BY DEF IInv, Presence, Exclusive
    <2> QED
      BY <1>5, <2>1, <2>2, <2>3 DEF IInv, Presence
  <1>7. Presence'
    BY <1>1, <1>6, IdleFits DEF IInv, Presence, Creating
  <1>8. ASSUME NEW d \in Clients \ {c}, NEW h \in tx[d].held, h.field # "resolve"
        PROVE  rows'[h.object].effective = h.version
    <2>1. h.object \in Objs /\ h.object \in tx[d].shared
      BY DEF IInv, World, Placed, Fits, Fit
    <2>2. rows[h.object].effective = h.version /\ h.version # 0
      BY <1>8 DEF IInv, Presence, HeldReferencesEffective
    <2>3. tx[c].locked => h.object # o
      BY <2>1 DEF IInv, Exclusive
    <2>4. Creating(c) => h.object # o
      <3>1. Absent.effective = 0
        BY DEF Absent
      <3> QED
        BY <2>2, <3>1 DEF IInv, Presence
    <2> QED
      BY <1>5, <2>1, <2>2, <2>3, <2>4
  <1>9. HeldReferencesEffective'
    BY <1>1, <1>8, IdleFits DEF HeldReferencesEffective
  <1> QED
    BY <1>2, <1>3, <1>4, <1>7, <1>9 DEF IInv

LEMMA StepInvariant == IInv /\ [Next]_bobVars => IInv'
  <1> SUFFICES ASSUME IInv, [Next]_bobVars
               PROVE  IInv'
    OBVIOUS
  <1>1. CASE UNCHANGED bobVars
    BY <1>1 DEF bobVars, IInv, Fits, Exclusive, Presence, Creating, World, Objs, Placed,
                HeldReferencesEffective
  <1>2. ASSUME NEW c \in Clients,
               \/ Begin(c) \/ Save(c) \/ Submit(c) \/ Approve(c) \/ Reject(c) \/ Edit(c) \/ Delete(c)
               \/ Look(c) \/ Take(c) \/ EndReferences(c) \/ TakeKey(c) \/ Check(c) \/ Commit(c) \/ Fail(c)
        PROVE  IInv'
    <2>1. CASE Begin(c)
      BY <2>1, BeginInvariant
    <2>2. CASE Save(c)
      BY <2>2, SaveInvariant
    <2>3. CASE Submit(c)
      BY <2>3, SubmitInvariant
    <2>4. CASE Approve(c)
      BY <2>4, ApproveInvariant
    <2>5. CASE Reject(c)
      BY <2>5, RejectInvariant
    <2>6. CASE Edit(c)
      BY <2>6, EditInvariant
    <2>7. CASE Delete(c)
      BY <2>7, DeleteInvariant
    <2>8. CASE Look(c)
      BY <2>8, LookInvariant
    <2>9. CASE Take(c)
      BY <2>9, TakeInvariant
    <2>10. CASE EndReferences(c)
      BY <2>10, EndReferencesInvariant
    <2>11. CASE TakeKey(c)
      BY <2>11, TakeKeyInvariant
    <2>12. CASE Check(c)
      BY <2>12, CheckInvariant
    <2>13. CASE Commit(c)
      BY <2>13, CommitInvariant
    <2>14. CASE Fail(c)
      BY <2>14, RefuseInvariant DEF Fail
    <2> QED
      BY <1>2, <2>1, <2>2, <2>3, <2>4, <2>5, <2>6, <2>7, <2>8, <2>9, <2>10, <2>11, <2>12, <2>13, <2>14
  <1> QED
    BY <1>1, <1>2 DEF Next

LEMMA Invariance == Spec => []IInv
  BY InitInvariant, StepInvariant, PTL DEF Spec

\* What is saved, submitted or approved refers to versions that are effective
\* at that moment and until the transaction ends: nobody can edit, approve or
\* delete an object whose row another transaction holds FOR SHARE
\* (LockEffectiveBobReference and its kin), however many requests run at once.
THEOREM HeldStayEffective == Spec => []HeldReferencesEffective
  <1>1. IInv => HeldReferencesEffective
    BY DEF IInv
  <1> QED
    BY <1>1, Invariance, PTL

-----------------------------------------------------------------------------
(* The rows of one object.                                                 *)

LEMMA Nothingness ==
    /\ Absent \in Rows /\ Absent.current = 0 /\ Absent.effective = 0 /\ DOMAIN Absent.versions = {}
    /\ \A kind : Legal(kind, Absent)
  <1>1. /\ Absent \in Rows /\ Absent.current = 0 /\ Absent.effective = 0
        /\ Absent.versions = << >> /\ DOMAIN Absent.versions = {} /\ Len(Absent.versions) = 0
    BY DEF Absent, Rows
  <1>2. Coherent(Absent)
    BY <1>1 DEF Coherent
  <1> QED
    BY <1>1, <1>2 DEF Legal

LEMMA LegalRow ==
    ASSUME NEW kind, NEW row, Legal(kind, row)
    PROVE  /\ row \in Rows /\ row.current \in Nat /\ row.effective \in Nat /\ row.revision \in Nat
           /\ row.versions \in Seq(Versions)
           /\ Len(row.versions) = row.current /\ DOMAIN row.versions = 1..row.current
           /\ row = Absent <=> row.current = 0
           /\ \A n \in DOMAIN row.versions : /\ row.versions[n] \in Versions
                                             /\ row.versions[n].detail \in Details
                                             /\ Complete(kind, row.versions[n].detail)
  <1>1. row \in Rows /\ Coherent(row)
    BY DEF Legal
  <1>2. /\ row.current \in Nat /\ row.effective \in Nat /\ row.revision \in Nat
        /\ row.versions \in Seq(Versions)
    BY <1>1 DEF Rows
  <1>3. Len(row.versions) = row.current /\ DOMAIN row.versions = 1..row.current
    BY <1>1, <1>2 DEF Coherent
  <1>4. \A n \in DOMAIN row.versions : row.versions[n] \in Versions
    BY <1>2
  <1> QED
    BY <1>1, <1>2, <1>3, <1>4 DEF Legal, Coherent, Versions

LEMMA LegalTop ==
    ASSUME NEW kind, NEW row, Legal(kind, row), row # Absent
    PROVE  /\ row.current \in DOMAIN row.versions /\ Top(row) = row.versions[row.current]
           /\ Top(row) \in Versions /\ Top(row).detail = CurrentDetail(row)
           /\ CurrentDetail(row) \in Details /\ Complete(kind, CurrentDetail(row))
           /\ row.current # 0
           /\ row.effective # 0 <=> Top(row).status = "EFFECTIVE"
           /\ row.effective \in {0, row.current}
           /\ Top(row).status # "INVALID" /\ (Top(row).status = "PENDING" => Top(row).by # None)
  <1>1. row.current \in DOMAIN row.versions /\ row.current # 0
    BY LegalRow
  <1> QED
    BY <1>1, LegalRow DEF Top, CurrentDetail, Legal, Coherent

\* Row m is row with version k restated.
Restated(row, m, k, status, by, d) ==
    /\ m \in Rows
    /\ m.current = row.current /\ m.effective = row.effective /\ m.revision = row.revision
    /\ m.versions \in Seq(Versions)
    /\ DOMAIN m.versions = DOMAIN row.versions /\ Len(m.versions) = Len(row.versions)
    /\ \A n \in DOMAIN row.versions \ {k} : m.versions[n] = row.versions[n]
    /\ m.versions[k].status = status /\ m.versions[k].by = by /\ m.versions[k].detail = d

LEMMA MovedRow ==
    ASSUME NEW row \in Rows, row.versions \in Seq(Versions), NEW k \in DOMAIN row.versions,
           NEW status \in Statuses, NEW by \in Actors \cup {None}, NEW d \in Details
    PROVE  Restated(row, Moved(row, k, status, by, d), k, status, by, d)
  <1>0. PICK m : m = Moved(row, k, status, by, d)
    OBVIOUS
  <1>1. row.versions[k] \in Versions /\ row.versions[k].revision \in Nat
    <2>1. row.versions[k] \in Versions
      OBVIOUS
    <2> QED
      BY <2>1 DEF Versions
  <1>2. PICK v : v = [status |-> status, revision |-> row.versions[k].revision + 1, by |-> by, detail |-> d]
    OBVIOUS
  <1>3. v \in Versions /\ v.status = status /\ v.by = by /\ v.detail = d
    BY <1>1, <1>2 DEF Versions
  <1>4. PICK vs : vs = [row.versions EXCEPT ![k] = v]
    OBVIOUS
  <1>5. /\ vs \in Seq(Versions) /\ DOMAIN vs = DOMAIN row.versions /\ Len(vs) = Len(row.versions)
        /\ vs[k] = v /\ \A n \in DOMAIN row.versions \ {k} : vs[n] = row.versions[n]
    BY <1>3, <1>4
  <1>6. m = [row EXCEPT !.versions = vs]
    BY <1>0, <1>2, <1>4 DEF Moved, Rows
  <1>7. Restated(row, m, k, status, by, d)
    BY <1>3, <1>5, <1>6 DEF Rows, Restated
  <1> QED
    BY <1>0, <1>7

\* What a request leaves of a row: the version it worked on moves on.
MovesOn(kind, row, m, d) ==
    /\ Legal(kind, m) /\ m # Absent /\ m.current = row.current
    /\ CurrentDetail(m) = d
    /\ \A n \in DOMAIN m.versions : n # m.current =>
         n \in DOMAIN row.versions /\ m.versions[n].detail = row.versions[n].detail

LEMMA MovesOnRow ==
    ASSUME NEW kind, NEW row, Legal(kind, row), row # Absent, row.effective = 0,
           NEW status \in {"DRAFT", "PENDING", "REJECTED"}, NEW by \in Actors \cup {None},
           status = "PENDING" => by # None,
           NEW d \in Details, Complete(kind, d)
    PROVE  MovesOn(kind, row, Moved(row, row.current, status, by, d), d)
  <1>2. PICK k : k = row.current
    OBVIOUS
  <1>1. PICK m : m = Moved(row, k, status, by, d)
    OBVIOUS
  <1>3. row \in Rows /\ row.versions \in Seq(Versions) /\ k \in DOMAIN row.versions
    BY <1>2, LegalRow, LegalTop
  <1>4. status \in Statuses
    BY DEF Statuses
  <1>5. /\ m \in Rows
        /\ m.current = k /\ m.effective = row.effective
        /\ DOMAIN m.versions = DOMAIN row.versions /\ Len(m.versions) = Len(row.versions)
        /\ \A n \in DOMAIN row.versions \ {k} : m.versions[n] = row.versions[n]
        /\ m.versions[k].status = status /\ m.versions[k].by = by /\ m.versions[k].detail = d
    <2>1. Restated(row, m, k, status, by, d)
      BY <1>1, <1>3, <1>4, MovedRow
    <2> QED
      BY <1>2, <2>1 DEF Restated
  <1>6. m # Absent /\ m.current # 0 /\ Top(m) = m.versions[k] /\ CurrentDetail(m) = d
    BY <1>2, <1>5, LegalTop, Nothingness DEF Top, CurrentDetail
  <1>7. Coherent(m)
    <2>1. m.current = Len(m.versions) /\ m.effective = 0 /\ Len(m.versions) \in Nat
      BY <1>2, <1>5, LegalRow
    <2>2. Top(m).status \notin {"EFFECTIVE", "INVALID"} /\ (Top(m).status = "PENDING" => Top(m).by # None)
      BY <1>5, <1>6
    <2>3. \A n \in 1..Len(m.versions) - 1 : m.versions[n].status = "INVALID"
      <3>1. \A n \in 1..Len(row.versions) - 1 : row.versions[n].status = "INVALID"
        BY DEF Legal, Coherent
      <3>2. \A n \in 1..Len(m.versions) - 1 : n \in DOMAIN row.versions \ {k}
        BY <1>2, <1>5, LegalRow
      <3> QED
        BY <1>5, <3>1, <3>2
    <2> QED
      BY <1>6, <2>1, <2>2, <2>3 DEF Coherent
  <1>8. \A n \in DOMAIN m.versions : Complete(kind, m.versions[n].detail)
    BY <1>5, LegalRow
  <1> QED
    BY <1>1, <1>2, <1>5, <1>6, <1>7, <1>8 DEF MovesOn, Legal

\* Approval: the version becomes effective.
LEMMA ApprovedRow ==
    ASSUME NEW kind, NEW row, Legal(kind, row), row # Absent, row.effective = 0,
           Top(row).status = "PENDING"
    PROVE  MovesOn(kind, row, Approved(row), CurrentDetail(row))
  <1>2. PICK k : k = row.current
    OBVIOUS
  <1>1. PICK m : m = Moved(row, k, "EFFECTIVE", Top(row).by, Top(row).detail)
    OBVIOUS
  <1>3. /\ row \in Rows /\ row.versions \in Seq(Versions) /\ k \in DOMAIN row.versions
        /\ k \in Nat /\ k # 0 /\ row.revision \in Nat /\ Len(row.versions) = k
        /\ Top(row).by \in Actors \cup {None} /\ Top(row).detail \in Details
        /\ "EFFECTIVE" \in Statuses
    BY <1>2, LegalRow, LegalTop DEF Statuses, Versions
  <1>5. /\ m \in Rows
        /\ m.current = k /\ m.revision = row.revision
        /\ DOMAIN m.versions = DOMAIN row.versions /\ Len(m.versions) = Len(row.versions)
        /\ \A n \in DOMAIN row.versions \ {k} : m.versions[n] = row.versions[n]
        /\ m.versions[k].status = "EFFECTIVE" /\ m.versions[k].detail = Top(row).detail
    <2>1. Restated(row, m, k, "EFFECTIVE", Top(row).by, Top(row).detail)
      BY <1>1, <1>3, MovedRow
    <2> QED
      BY <1>2, <2>1 DEF Restated
  <1>6. PICK a : a = [m EXCEPT !.effective = k, !.revision = row.revision + 1]
    OBVIOUS
  <1>7. /\ a \in Rows /\ a.current = k /\ a.effective = k /\ a.versions = m.versions
    <2>1. PICK r : r = row.revision + 1
      OBVIOUS
    <2>2. r \in Nat /\ k \in Nat
      BY <1>3, <2>1
    <2>3. a = [m EXCEPT !.effective = k, !.revision = r]
      BY <1>6, <2>1
    <2> QED
      BY <1>5, <2>2, <2>3 DEF Rows
  <1>8. Approved(row) = a
    BY <1>1, <1>2, <1>5, <1>6 DEF Approved
  <1>9. /\ a # Absent /\ Top(a) = m.versions[k] /\ CurrentDetail(a) = CurrentDetail(row)
    BY <1>3, <1>5, <1>7, LegalTop, Nothingness DEF Top, CurrentDetail
  <1>10. Coherent(a)
    <2>1. a.current = Len(a.versions) /\ a.effective = a.current /\ Len(a.versions) \in Nat
      BY <1>3, <1>5, <1>7
    <2>2. Top(a).status = "EFFECTIVE"
      BY <1>5, <1>9
    <2>3. \A n \in 1..Len(a.versions) - 1 : a.versions[n].status = "INVALID"
      <3>1. \A n \in 1..Len(row.versions) - 1 : row.versions[n].status = "INVALID"
        BY DEF Legal, Coherent
      <3>2. \A n \in 1..Len(a.versions) - 1 : n \in DOMAIN row.versions \ {k}
        BY <1>3, <1>5, <1>7
      <3> QED
        BY <1>5, <1>7, <3>1, <3>2
    <2> QED
      BY <1>3, <1>7, <1>9, <2>1, <2>2, <2>3 DEF Coherent
  <1>11. \A n \in DOMAIN a.versions : Complete(kind, a.versions[n].detail)
    BY <1>2, <1>3, <1>5, <1>7, LegalRow, LegalTop
  <1> QED
    BY <1>2, <1>5, <1>7, <1>8, <1>9, <1>10, <1>11 DEF MovesOn, Legal

LEMMA NewRow ==
    ASSUME NEW kind, NEW d \in Details, Complete(kind, d)
    PROVE  /\ Legal(kind, Created(d)) /\ Created(d) # Absent /\ Created(d).current = 1
           /\ DOMAIN Created(d).versions = {1} /\ CurrentDetail(Created(d)) = d
  <1>1. PICK v : v = NewVersion(d)
    OBVIOUS
  <1>2. v \in Versions /\ v.status = "DRAFT" /\ v.detail = d
    BY <1>1 DEF NewVersion, Versions, Statuses
  <1>3. PICK row : row = Created(d)
    OBVIOUS
  <1>4. /\ row.current = 1 /\ row.effective = 0 /\ row.versions = <<v>> /\ row \in Rows
    BY <1>1, <1>2, <1>3 DEF Created, Rows
  <1>5. /\ Len(row.versions) = 1 /\ DOMAIN row.versions = {1} /\ row.versions[1] = v
    BY <1>4
  <1>6. row # Absent /\ Top(row) = v /\ CurrentDetail(row) = d
    BY <1>2, <1>4, <1>5, Nothingness DEF Top, CurrentDetail
  <1>7. Coherent(row)
    BY <1>2, <1>4, <1>5, <1>6 DEF Coherent
  <1> QED
    BY <1>2, <1>3, <1>4, <1>5, <1>6, <1>7 DEF Legal

\* Editing: a copy of the effective version follows it.
Reopens(kind, row, e) ==
    /\ Legal(kind, e) /\ e # Absent /\ e.current = row.current + 1
    /\ CurrentDetail(e) = CurrentDetail(row)
    /\ \A n \in DOMAIN e.versions : n # e.current =>
         n \in DOMAIN row.versions /\ e.versions[n].detail = row.versions[n].detail

LEMMA EditedRow ==
    ASSUME NEW kind, NEW row, Legal(kind, row), row # Absent
    PROVE  Reopens(kind, row, Edited(row))
  <1>2. PICK k : k = row.current
    OBVIOUS
  <1>1. PICK m : m = Moved(row, k, "INVALID", Top(row).by, Top(row).detail)
    OBVIOUS
  <1>3. /\ row \in Rows /\ row.versions \in Seq(Versions) /\ k \in DOMAIN row.versions
        /\ k \in Nat /\ k # 0 /\ row.revision \in Nat /\ Len(row.versions) = k
        /\ DOMAIN row.versions = 1..k
        /\ Top(row).by \in Actors \cup {None} /\ Top(row).detail \in Details
        /\ Top(row).detail = CurrentDetail(row) /\ Top(row).detail = row.versions[k].detail
        /\ Complete(kind, CurrentDetail(row))
        /\ "INVALID" \in Statuses
    BY <1>2, LegalRow, LegalTop DEF Statuses, Versions
  <1>5. /\ m \in Rows
        /\ m.current = k /\ m.revision = row.revision
        /\ m.versions \in Seq(Versions)
        /\ DOMAIN m.versions = DOMAIN row.versions /\ Len(m.versions) = Len(row.versions)
        /\ \A n \in DOMAIN row.versions \ {k} : m.versions[n] = row.versions[n]
        /\ m.versions[k].status = "INVALID" /\ m.versions[k].detail = Top(row).detail
    <2>1. Restated(row, m, k, "INVALID", Top(row).by, Top(row).detail)
      BY <1>1, <1>3, MovedRow
    <2> QED
      BY <1>2, <2>1 DEF Restated
  <1>6. PICK v : v = Copied(row)
    OBVIOUS
  <1>7. v \in Versions /\ v.status = "DRAFT" /\ v.detail = CurrentDetail(row)
    BY <1>3, <1>6 DEF Copied, NewVersion, Versions, Statuses
  <1>8. PICK vs : vs = Append(m.versions, v)
    OBVIOUS
  <1>9. /\ vs \in Seq(Versions) /\ Len(vs) = k + 1 /\ DOMAIN vs = 1..(k + 1)
        /\ vs[k + 1] = v /\ \A n \in 1..k : vs[n] = m.versions[n]
    BY <1>3, <1>5, <1>7, <1>8
  <1>10. PICK a : a = [m EXCEPT !.versions = vs, !.current = k + 1, !.effective = 0, !.revision = row.revision + 1]
    OBVIOUS
  <1>11. a \in Rows /\ a.current = k + 1 /\ a.effective = 0 /\ a.versions = vs
    <2>1. PICK r, j : r = row.revision + 1 /\ j = k + 1
      OBVIOUS
    <2>2. r \in Nat /\ j \in Nat /\ 0 \in Nat
      BY <1>3, <2>1
    <2>3. a = [m EXCEPT !.versions = vs, !.current = j, !.effective = 0, !.revision = r]
      BY <1>10, <2>1
    <2>4. a \in Rows /\ a.current = j /\ a.effective = 0 /\ a.versions = vs
      BY <1>5, <1>9, <2>2, <2>3 DEF Rows
    <2> QED
      BY <2>1, <2>4
  <1>12. Edited(row) = a
    BY <1>1, <1>2, <1>5, <1>6, <1>8, <1>10 DEF Edited, Invalidated
  <1>13. a # Absent /\ Top(a) = v /\ CurrentDetail(a) = CurrentDetail(row)
    BY <1>3, <1>7, <1>9, <1>11, Nothingness DEF Top, CurrentDetail
  <1>14. Coherent(a)
    <2>1. \A n \in 1..(k - 1) : row.versions[n].status = "INVALID"
      BY <1>3 DEF Legal, Coherent
    <2>2. \A n \in 1..k : vs[n].status = "INVALID"
      <3> SUFFICES ASSUME NEW n \in 1..k PROVE vs[n].status = "INVALID"
        OBVIOUS
      <3>1. CASE n = k
        BY <1>5, <1>9, <3>1
      <3>2. CASE n # k
        BY <1>3, <1>5, <1>9, <2>1, <3>2
      <3> QED
        BY <3>1, <3>2
    <2>3. Len(a.versions) - 1 = k /\ a.current = Len(a.versions) /\ a.current # 0
      BY <1>3, <1>9, <1>11
    <2> QED
      BY <1>7, <1>11, <1>13, <2>2, <2>3 DEF Coherent
  <1>15. \A n \in 1..k : vs[n].detail = row.versions[n].detail
    <2> SUFFICES ASSUME NEW n \in 1..k PROVE vs[n].detail = row.versions[n].detail
      OBVIOUS
    <2>1. CASE n = k
      BY <1>3, <1>5, <1>9, <2>1
    <2>2. CASE n # k
      BY <1>3, <1>5, <1>9, <2>2
    <2> QED
      BY <2>1, <2>2
  <1>16. \A n \in DOMAIN a.versions : n # k + 1 => n \in 1..k
    BY <1>3, <1>9, <1>11
  <1>17. \A n \in DOMAIN a.versions : Complete(kind, a.versions[n].detail)
    <2>1. \A n \in 1..k : Complete(kind, row.versions[n].detail)
      BY <1>3, LegalRow
    <2> QED
      BY <1>3, <1>7, <1>9, <1>11, <1>15, <1>16, <2>1
  <1> QED
    BY <1>2, <1>3, <1>11, <1>12, <1>13, <1>14, <1>15, <1>16, <1>17 DEF Legal, Reopens


-----------------------------------------------------------------------------
(* What a transaction may rely on, given the committed rows.               *)

Entering == {"create", "save"}                          \* bring a detail of their own
Restating == {"submit", "approve", "reject", "edit"}    \* keep the current one

Own(t) == CurrentDetail(t.work)

Writes(t) == t.pc \notin {"idle", "object"} /\ t.op \notin Consumers
Enters(t) == Writes(t) /\ t.op \in Entering

Referred(state, o) ==
    \E p \in DOMAIN state : \E n \in DOMAIN state[p].versions :
        \E f \in RefFields : state[p].versions[n].detail[f] = o

Typed(state, t) ==
    /\ t.op \in Ops \cup {"none"} /\ t.shared \subseteq DOMAIN state
    /\ t.pc # "idle" => t.op \in Ops /\ t.actor \in Actors
    /\ t.pc = "object" => Merged(Blank, t.input) \in Details
    /\ t.pc \in {"look", "take"} => t.op # "edit"
    /\ t.pc = "keys" => \A ref \in t.todo : ref.object \in DOMAIN state

\* What it leaves of its row follows from the row as it is.
Follows(state, t) ==
    LET row == state[t.object]
    IN  Writes(t) =>
        /\ t.op # "edit" => row.effective = 0
        /\ t.op = "delete" => t.work = Absent /\ row.current = 1
        /\ t.op # "delete" =>
             /\ Legal(KindOf[t.object], t.work) /\ t.work # Absent
             /\ \A n \in DOMAIN t.work.versions : n # t.work.current =>
                  n \in DOMAIN row.versions /\ t.work.versions[n].detail = row.versions[n].detail
             /\ t.op \in Restating => Own(t) = CurrentDetail(row)
             /\ t.work.current = row.current + (IF t.op \in {"create", "edit"} THEN 1 ELSE 0)
             /\ Own(t)["key"] # None => Own(t)["key"] = Canonical[Own(t)["key"]]

Fitting(state, t, ref) ==
    /\ ref.object \in DOMAIN state /\ ref.object # t.object
    /\ Suits(ref, KindOf[t.object], Own(t), state[ref.object], KindOf[ref.object])

\* Every reference it brings is held and fits, or is still to be locked.
Backed(state, t) ==
    Enters(t) =>
        /\ t.pc \in {"look", "take", "check", "commit"}
        /\ t.pc = "take" => [field |-> t.want.field, object |-> t.want.object] \in References(Own(t))
        /\ t.todo \subseteq References(Own(t))
        /\ t.pc \in {"check", "commit"} => t.todo = {}
        /\ \A ref \in References(Own(t)) \ t.todo :
             \/ t.pc = "take" /\ ref.field = t.want.field /\ ref.object = t.want.object
             \/ ref.object \in t.shared /\ Fitting(state, t, ref)

\* What a statement found while it waits is still so, or will never be again.
WantKept(state, t) ==
    t.pc = "take" /\ t.want.field # "resolve" =>
        LET row == state[t.want.object]
        IN  /\ t.want.object \in DOMAIN state
            /\ t.want.version \in Nat \ {0} /\ row.current >= t.want.version
            /\ row.current = t.want.version =>
                 row.effective = t.want.version /\ (Enters(t) => Fitting(state, t, t.want))

\* What it deletes, or chooses for something else, nobody has chosen.
Bare(state, t) ==
    \/ ~Writes(t) \/ ~Referred(state, t.object)
    \/ /\ t.op # "delete"
       /\ t.op = "save" /\ KindOf[t.object] = "category" =>
            Own(t)["target"] = CurrentDetail(state[t.object])["target"]

KeyFree(state, o, d) ==
    d["key"] # None =>
        \A p \in DOMAIN state \ {o} :
            KindOf[p] = KindOf[o] /\ state[p] # Absent => CurrentDetail(state[p])["key"] # d["key"]

TypeFree(state, o, d) ==
    d["type"] = "GENERAL" =>
        \A p \in DOMAIN state : state[p] # Absent => CurrentDetail(state[p])["platform"] # o

Above(state, o, d) ==
    d["parent"] # None =>
        d["parent"] \in DOMAIN state /\ d["parent"] # o /\ o \notin Ancestors(state, d["parent"])

\* What the triggers found holds until the commit.
Checked(state, t) ==
    /\ t.pc # "commit" => t.advisory = << >>
    /\ t.pc = "commit" /\ t.op \in {"create", "save", "edit"} =>
         LET o == t.object
             d == Own(t)
         IN  /\ t.advisory = AdvisoryOf(KindOf[o], d)
             /\ KeyFree(state, o, d) /\ TypeFree(state, o, d) /\ Above(state, o, d)

Good(state, t) ==
    /\ Typed(state, t) /\ Follows(state, t) /\ Backed(state, t)
    /\ WantKept(state, t) /\ Bare(state, t) /\ Checked(state, t)

-----------------------------------------------------------------------------
(* Trees.                                                                  *)

Closed(state, o, S) == \A p \in S \cup {o} : ParentOf(state, p) \in S \cup {None}

Parented(state) == \A p \in DOMAIN state : ParentOf(state, p) \in DOMAIN state \cup {None}

LEMMA LeastAncestors ==
    ASSUME NEW state, NEW o, NEW S \in SUBSET DOMAIN state, Closed(state, o, S)
    PROVE  Ancestors(state, o) \subseteq S
  BY DEF Ancestors, Closed

LEMMA AncestorsClosed ==
    ASSUME NEW state, Parented(state), NEW o \in DOMAIN state
    PROVE  Ancestors(state, o) \in SUBSET DOMAIN state /\ Closed(state, o, Ancestors(state, o))
  <1> DEFINE A == Ancestors(state, o)
  <1>1. A \in SUBSET DOMAIN state
    BY DEF Ancestors
  <1>2. ASSUME NEW p \in A \cup {o}, ParentOf(state, p) # None
        PROVE  ParentOf(state, p) \in A
    <2>1. ParentOf(state, p) \in DOMAIN state
      BY <1>1, <1>2 DEF Parented
    <2>2. ASSUME NEW S \in SUBSET DOMAIN state, Closed(state, o, S)
          PROVE  ParentOf(state, p) \in S
      <3>1. p \in S \cup {o}
        BY <2>2, LeastAncestors
      <3> QED
        BY <1>2, <2>2, <3>1 DEF Closed
    <2> QED
      BY <2>1, <2>2 DEF Ancestors, Closed
  <1> QED
    BY <1>1, <1>2 DEF Closed

LEMMA AncestorsInclude ==
    ASSUME NEW state, Parented(state), NEW q \in DOMAIN state, NEW x \in Ancestors(state, q)
    PROVE  Ancestors(state, x) \subseteq Ancestors(state, q)
  <1>1. Closed(state, x, Ancestors(state, q)) /\ Ancestors(state, q) \in SUBSET DOMAIN state
    BY AncestorsClosed DEF Closed
  <1> QED
    BY <1>1, LeastAncestors

\* A parent that is not below o makes no cycle.
LEMMA StaysAcyclic ==
    ASSUME NEW state, NEW next, Parented(state), Acyclic(state), DOMAIN next = DOMAIN state,
           NEW o \in DOMAIN state,
           \A p \in DOMAIN state \ {o} : ParentOf(next, p) = ParentOf(state, p),
           NEW q, q = ParentOf(next, o),
           q # None => q \in DOMAIN state /\ q # o /\ o \notin Ancestors(state, q)
    PROVE  Acyclic(next)
  <1> SUFFICES ASSUME NEW x \in DOMAIN state
               PROVE  x \notin Ancestors(next, x)
    BY DEF Acyclic
  <1> DEFINE Q == IF q = None THEN {} ELSE {q} \cup Ancestors(state, q)
             A == Ancestors(state, x)
  <1>1. Q \in SUBSET DOMAIN state /\ o \notin Q
    BY AncestorsClosed
  <1>2. \A p \in Q : ParentOf(next, p) \in Q \cup {None}
    BY <1>1, AncestorsClosed DEF Closed
  <1>3. q \in Q \cup {None}
    OBVIOUS
  <1>4. A \in SUBSET DOMAIN state /\ Closed(state, x, A) /\ x \notin A
    BY AncestorsClosed DEF Acyclic
  <1>5. CASE x = o
    <2>1. Closed(next, x, Q)
      BY <1>2, <1>3, <1>5 DEF Closed
    <2> HIDE DEF Q
    <2> QED
      BY <1>1, <1>5, <2>1, LeastAncestors
  <1>6. CASE x # o /\ o \notin A
    <2>1. Closed(next, x, A)
      BY <1>4, <1>6 DEF Closed
    <2> HIDE DEF A
    <2> QED
      BY <1>4, <2>1, LeastAncestors
  <1>7. CASE x # o /\ o \in A
    <2>1. x \notin Q
      <3>1. q # None => x # q
        BY <1>7
      <3>2. q # None => x \notin Ancestors(state, q)
        BY <1>7, AncestorsInclude
      <3> QED
        BY <3>1, <3>2
    <2> HIDE DEF A, Q
    <2>2. Closed(next, x, A \cup Q)
      BY <1>1, <1>2, <1>3, <1>4, <1>7 DEF Closed
    <2> QED
      BY <1>1, <1>4, <2>1, <2>2, LeastAncestors
  <1> QED
    BY <1>5, <1>6, <1>7


-----------------------------------------------------------------------------
(* A commit, seen on the rows alone.                                       *)

Consistent(state) ==
    /\ DOMAIN state \subseteq Objects /\ state \in [DOMAIN state -> Rows] /\ Sound(state)

Committing(state, t) ==
    /\ Consistent(state) /\ Good(state, t)
    /\ t.pc = "commit" /\ t.op \in Entering \cup Restating \cup {"delete"}
    /\ t.object \in DOMAIN state /\ (t.op = "create" <=> state[t.object] = Absent)

LEMMA Enumerated ==
    /\ Ops = Entering \cup Restating \cup {"delete"} \cup Consumers
    /\ (Entering \cup Restating \cup {"delete"}) \cap Consumers = {}
    /\ Entering \cap Restating = {} /\ "delete" \notin Entering \cup Restating
  BY DEF Ops, Entering, Restating, Consumers

LEMMA KindFields ==
    ASSUME NEW kind \in Kinds, NEW d \in Details, Complete(kind, d)
    PROVE  /\ d["parent"] # None => kind \in {"category", "department"}
           /\ d["target"] # None => kind = "category"
           /\ d["type"] # None => kind = "supplier"
           /\ d["platform"] # None => kind = "vehicle"
           /\ d["key"] # None => kind \notin {"category", "department"}
           /\ kind = "category" => d["target"] \in Kinds
           /\ kind = "supplier" => d["type"] \in {"GENERAL", "LOGISTICS_PLATFORM"}
  <1>1. \A f \in Fields : d[f] # None => f \in FieldsOf(kind)
    BY DEF Complete
  <1>2. {"parent", "target", "type", "platform", "key"} \subseteq Fields
    BY DEF Fields, RefFields
  <1>3. /\ "parent" \in FieldsOf(kind) => kind \in {"category", "department"}
        /\ "target" \in FieldsOf(kind) => kind = "category"
        /\ "type" \in FieldsOf(kind) => kind = "supplier"
        /\ "platform" \in FieldsOf(kind) => kind = "vehicle"
        /\ "key" \in FieldsOf(kind) => kind \notin {"category", "department"}
    BY DEF FieldsOf, Kinds, CustomerFields, SupplierFields, EmployeeFields, ProductFields, ServiceFields,
           WarehouseFields, VehicleFields, FundAccountFields, CategoryFields, DepartmentFields,
           PositionFields, SettlementMethodFields
  <1>4. /\ kind = "category" => d["target"] \in Kinds
        /\ kind = "supplier" => d["type"] \in {"GENERAL", "LOGISTICS_PLATFORM"}
    BY DEF Complete
  <1> QED
    BY <1>1, <1>2, <1>3, <1>4

LEMMA NoneIsNone == None \notin Objects /\ None \notin Keys /\ None \notin Kinds
                    /\ None # "GENERAL" /\ None # "LOGISTICS_PLATFORM"
  BY BobAssumption

\* What a committed version says.
LEMMA Version ==
    ASSUME NEW state, Consistent(state), NEW p \in DOMAIN state, NEW n \in DOMAIN state[p].versions,
           NEW d, d = state[p].versions[n].detail
    PROVE  /\ state[p] # Absent /\ KindOf[p] \in Kinds /\ d \in Details /\ Complete(KindOf[p], d)
           /\ \A f \in RefFields : d[f] # None => d[f] \in DOMAIN state /\ state[d[f]] # Absent
           /\ d["parent"] # None => KindOf[d["parent"]] = KindOf[p]
           /\ d["category"] # None => CurrentDetail(state[d["category"]])["target"] = KindOf[p]
           /\ KindOf[p] = "category" /\ d["parent"] # None =>
                CurrentDetail(state[d["parent"]])["target"] = d["target"]
           /\ d["platform"] # None /\ n = state[p].current =>
                CurrentDetail(state[d["platform"]])["type"] = "LOGISTICS_PLATFORM"
  <1>1. Legal(KindOf[p], state[p]) /\ Linked(state) /\ Suited(state)
    BY DEF Consistent, Sound
  <1>2. state[p] # Absent
    BY Nothingness
  <1>3. d \in Details /\ Complete(KindOf[p], d)
    BY <1>1, LegalRow
  <1>4. KindOf[p] \in Kinds
    BY BobAssumption DEF Consistent
  <1> QED
    BY <1>1, <1>2, <1>3, <1>4 DEF Linked, Suited

LEMMA Current ==
    ASSUME NEW state, Consistent(state), NEW p \in DOMAIN state, state[p] # Absent
    PROVE  /\ state[p].current \in DOMAIN state[p].versions
           /\ CurrentDetail(state[p]) = state[p].versions[state[p].current].detail
           /\ ParentOf(state, p) = CurrentDetail(state[p])["parent"]
  BY LegalTop DEF Consistent, Sound, CurrentDetail, ParentOf

LEMMA SoundParents ==
    ASSUME NEW state, Consistent(state)
    PROVE  /\ Parented(state)
           /\ \A p \in DOMAIN state : ParentOf(state, p) # None => KindOf[ParentOf(state, p)] = KindOf[p]
  <1> SUFFICES ASSUME NEW p \in DOMAIN state, ParentOf(state, p) # None
               PROVE  /\ ParentOf(state, p) \in DOMAIN state
                      /\ KindOf[ParentOf(state, p)] = KindOf[p]
    BY DEF Parented
  <1>1. state[p] # Absent
    BY DEF ParentOf
  <1>2. PICK n, d : n = state[p].current /\ d = state[p].versions[n].detail
    OBVIOUS
  <1>3. n \in DOMAIN state[p].versions /\ ParentOf(state, p) = d["parent"]
    BY <1>1, <1>2, Current
  <1>4. "parent" \in RefFields
    BY DEF RefFields
  <1> QED
    BY <1>2, <1>3, <1>4, Version

\* The row left behind.
LEMMA Left ==
    ASSUME NEW state, NEW t, Committing(state, t), NEW o, o = t.object, NEW next,
           next = [state EXCEPT ![t.object] = t.work]
    PROVE  /\ o \in DOMAIN state /\ DOMAIN next = DOMAIN state /\ next[o] = t.work
           /\ \A p \in DOMAIN state \ {o} : next[p] = state[p]
           /\ Writes(t) /\ KindOf[o] \in Kinds
           /\ t.op = "delete" => t.work = Absent /\ ~Referred(state, o)
           /\ t.op # "delete" =>
                /\ Legal(KindOf[o], t.work) /\ t.work # Absent
                /\ \A n \in DOMAIN t.work.versions : n # t.work.current =>
                     n \in DOMAIN state[o].versions /\ t.work.versions[n].detail = state[o].versions[n].detail
                /\ t.work.current \in DOMAIN t.work.versions
                /\ t.work.versions[t.work.current].detail = Own(t)
                /\ Own(t) \in Details /\ Complete(KindOf[o], Own(t))
           /\ t.op \in Restating => Own(t) = CurrentDetail(state[o]) /\ state[o] # Absent
  <1>1. /\ o \in DOMAIN state /\ DOMAIN next = DOMAIN state /\ next[o] = t.work
        /\ \A p \in DOMAIN state \ {o} : next[p] = state[p]
    BY DEF Committing
  <1>2. Writes(t) /\ KindOf[o] \in Kinds
    BY Enumerated, BobAssumption DEF Committing, Writes, Consistent
  <1>3. Follows(state, t) /\ Bare(state, t)
    BY DEF Committing, Good
  <1>4. t.op # "delete" => Legal(KindOf[o], t.work) /\ t.work # Absent
    BY <1>2, <1>3 DEF Follows
  <1>5. t.op # "delete" => /\ t.work.current \in DOMAIN t.work.versions
                           /\ t.work.versions[t.work.current].detail = Own(t)
                           /\ Own(t) \in Details /\ Complete(KindOf[o], Own(t))
    BY <1>4, LegalTop DEF Own, CurrentDetail
  <1>6. t.op \in Restating => state[o] # Absent
    BY DEF Committing, Restating
  <1>7. t.op \in Restating => t.op # "delete"
    BY DEF Restating
  <1> QED
    BY <1>1, <1>2, <1>3, <1>4, <1>5, <1>6, <1>7 DEF Follows, Bare

\* Where a detail found after the commit comes from.
LEMMA Origin ==
    ASSUME NEW state, NEW t, Committing(state, t), NEW o, o = t.object, NEW next,
           next = [state EXCEPT ![t.object] = t.work],
           NEW p \in DOMAIN next, NEW n \in DOMAIN next[p].versions,
           NEW d, d = next[p].versions[n].detail
    PROVE  \/ \E m \in DOMAIN state[p].versions :
                d = state[p].versions[m].detail /\ (n = next[p].current => m = state[p].current)
           \/ p = o /\ t.op \in Entering /\ n = next[p].current /\ d = Own(t)
  <1>1. CASE p # o
    BY <1>1, Left
  <1>2. CASE p = o /\ n # t.work.current
    <2>1. next[p] = t.work
      BY <1>2, Left
    <2>2. t.op # "delete"
      BY <2>1, Left, Nothingness
    <2> QED
      BY <1>2, <2>1, <2>2, Left
  <1>3. CASE p = o /\ n = t.work.current
    <2>1. next[p] = t.work
      BY <1>3, Left
    <2>2. t.op # "delete"
      BY <2>1, Left, Nothingness
    <2>3. d = Own(t)
      BY <1>3, <2>1, <2>2, Left
    <2>4. CASE t.op \in Entering
      BY <1>3, <2>1, <2>3, <2>4
    <2>5. CASE t.op \in Restating
      <3>1. state[o] # Absent /\ d = CurrentDetail(state[o])
        BY <2>3, <2>5, Left
      <3>2. state[o].current \in DOMAIN state[o].versions
            /\ CurrentDetail(state[o]) = state[o].versions[state[o].current].detail
        BY <3>1, Left, Current DEF Committing
      <3> QED
        BY <1>3, <3>1, <3>2
    <2> QED
      BY <2>2, <2>4, <2>5 DEF Committing
  <1> QED
    BY <1>1, <1>2, <1>3

\* What a detail that is brought refers to.
LEMMA Brought ==
    ASSUME NEW state, NEW t, Committing(state, t), t.op \in Entering,
           NEW d, d = Own(t), NEW f \in RefFields, d[f] # None, NEW x, x = d[f]
    PROVE  /\ x \in DOMAIN state /\ x # t.object /\ x \in t.shared /\ state[x] # Absent
           /\ f = "parent" => KindOf[x] = KindOf[t.object]
           /\ f = "category" => CurrentDetail(state[x])["target"] = KindOf[t.object]
           /\ f = "parent" /\ KindOf[t.object] = "category" =>
                CurrentDetail(state[x])["target"] = d["target"]
           /\ f = "platform" => CurrentDetail(state[x])["type"] = "LOGISTICS_PLATFORM"
  <1>1. PICK ref : ref = [field |-> f, object |-> x]
    OBVIOUS
  <1>2. ref \in References(d) /\ ref.field = f /\ ref.object = x
    BY <1>1 DEF References
  <1>3. Enters(t)
    BY Enumerated DEF Enters, Writes, Committing
  <1>4. ref \in References(Own(t)) \ t.todo /\ t.pc = "commit"
    BY <1>2, <1>3 DEF Committing, Good, Backed
  <1>5. x \in t.shared /\ Fitting(state, t, ref)
    BY <1>2, <1>3, <1>4 DEF Committing, Good, Backed
  <1>6. /\ x \in DOMAIN state /\ x # t.object
        /\ Suits(ref, KindOf[t.object], d, state[x], KindOf[x])
    BY <1>2, <1>5 DEF Fitting
  <1>7. state[x] # Absent
    BY <1>6, Nothingness DEF Suits, Effective
  <1>8. f = "category" => CurrentDetail(state[x])["target"] = KindOf[t.object]
    BY <1>2, <1>6 DEF Suits
  <1>9. f = "platform" => CurrentDetail(state[x])["type"] = "LOGISTICS_PLATFORM"
    BY <1>2, <1>6 DEF Suits
  <1>10. f = "parent" /\ KindOf[t.object] = "category" =>
           CurrentDetail(state[x])["target"] = d["target"] /\ KindOf[x] = "category"
    BY <1>2, <1>6 DEF Suits
  <1>11. f = "parent" => KindOf[x] = KindOf[t.object]
    <2>1. KindOf[t.object] \in Kinds /\ d \in Details /\ Complete(KindOf[t.object], d)
      <3>1. PICK next : next = [state EXCEPT ![t.object] = t.work]
        OBVIOUS
      <3>2. t.op # "delete"
        BY DEF Entering
      <3> QED
        BY <3>1, <3>2, Left
    <2>2. f = "parent" => KindOf[t.object] \in {"category", "department"}
      BY <2>1, KindFields
    <2>3. f = "parent" /\ KindOf[t.object] = "department" => KindOf[x] = "department"
      BY <1>2, <1>6 DEF Suits, KindFor
    <2> QED
      BY <1>10, <2>2, <2>3
  <1> QED
    BY <1>5, <1>6, <1>7, <1>8, <1>9, <1>10, <1>11


\* What is chosen stays, with its target; what a current vehicle has chosen
\* stays a platform.
LEMMA ChosenStays ==
    ASSUME NEW state, NEW t, Committing(state, t), NEW o, o = t.object, NEW next,
           next = [state EXCEPT ![t.object] = t.work],
           NEW p \in DOMAIN state, NEW m \in DOMAIN state[p].versions,
           NEW d, d = state[p].versions[m].detail, NEW f \in RefFields, d[f] # None, NEW x, x = d[f]
    PROVE  /\ x \in DOMAIN state /\ next[x] # Absent
           /\ CurrentDetail(state[x])["target"] # None =>
                CurrentDetail(next[x])["target"] = CurrentDetail(state[x])["target"]
           /\ f = "platform" /\ m = state[p].current =>
                CurrentDetail(next[x])["type"] = "LOGISTICS_PLATFORM"
  <1>0. Consistent(state)
    BY DEF Committing
  <1>1. /\ x \in DOMAIN state /\ state[x] # Absent /\ state[p] # Absent
        /\ f = "platform" /\ m = state[p].current =>
             CurrentDetail(state[x])["type"] = "LOGISTICS_PLATFORM"
    BY <1>0, Version
  <1>2. CASE x # o
    BY <1>1, <1>2, Left
  <1>3. CASE x = o
    <2>1. Referred(state, o)
      BY <1>3 DEF Referred
    <2>2. t.op \notin {"delete", "create"} /\ next[o] = t.work
      BY <1>1, <1>3, <2>1, Left DEF Committing
    <2>3. t.op \in Restating \cup {"save"}
      BY <2>2 DEF Committing, Entering
    <2>4. next[x] # Absent /\ CurrentDetail(next[x]) = Own(t)
      BY <1>3, <2>2, Left DEF Own
    <2>5. CASE t.op \in Restating
      BY <1>1, <1>3, <2>4, <2>5, Left
    <2>6. CASE t.op = "save"
      <3>1. PICK e : e = CurrentDetail(state[o])
        OBVIOUS
      <3>2. e \in Details /\ Complete(KindOf[o], e) /\ KindOf[o] \in Kinds
        <4>1. PICK k : k = state[o].current
          OBVIOUS
        <4> QED
          BY <1>0, <1>1, <1>3, <3>1, <4>1, Current, Version
      <3>3. e["target"] # None => Own(t)["target"] = e["target"]
        <4>1. e["target"] # None => KindOf[o] = "category"
          BY <3>2, KindFields
        <4>2. Bare(state, t) /\ Writes(t)
          BY Left DEF Committing, Good
        <4> QED
          BY <2>1, <2>6, <3>1, <4>1, <4>2 DEF Bare
      <3>4. e["type"] # None => Own(t)["type"] \in {"GENERAL", "LOGISTICS_PLATFORM"}
        <4>1. e["type"] # None => KindOf[o] = "supplier"
          BY <3>2, KindFields
        <4>2. Own(t) \in Details /\ Complete(KindOf[o], Own(t))
          BY <2>6, Left
        <4> QED
          BY <3>2, <4>1, <4>2, KindFields
      <3>5. f = "platform" /\ m = state[p].current => Own(t)["type"] # "GENERAL"
        <4>1. TypeFree(state, o, Own(t))
          BY <2>6 DEF Committing, Good, Checked
        <4>2. m = state[p].current => CurrentDetail(state[p]) = d
          BY <1>0, <1>1, Current
        <4> QED
          BY <1>1, <1>3, <4>1, <4>2 DEF TypeFree
      <3> QED
        BY <1>1, <1>3, <2>4, <3>1, <3>3, <3>4, <3>5, NoneIsNone
    <2> QED
      BY <2>3, <2>5, <2>6
  <1> QED
    BY <1>2, <1>3

LEMMA LegalAfter ==
    ASSUME NEW state, NEW t, Committing(state, t), NEW next,
           next = [state EXCEPT ![t.object] = t.work]
    PROVE  /\ DOMAIN next \subseteq Objects /\ next \in [DOMAIN next -> Rows]
           /\ \A p \in DOMAIN next : Legal(KindOf[p], next[p])
  <1>1. PICK o : o = t.object
    OBVIOUS
  <1>2. \A p \in DOMAIN state : Legal(KindOf[p], state[p])
    BY DEF Committing, Consistent, Sound
  <1>3. Legal(KindOf[o], next[o])
    BY <1>1, Left, Nothingness
  <1>4. \A p \in DOMAIN next : Legal(KindOf[p], next[p])
    BY <1>1, <1>2, <1>3, Left
  <1>5. DOMAIN next = DOMAIN state /\ DOMAIN next \subseteq Objects
    BY <1>1, Left DEF Committing, Consistent
  <1>6. \A p \in DOMAIN next : next[p] \in Rows
    BY <1>4 DEF Legal
  <1> QED
    BY <1>4, <1>5, <1>6

LEMMA LinkedAfter ==
    ASSUME NEW state, NEW t, Committing(state, t), NEW next,
           next = [state EXCEPT ![t.object] = t.work]
    PROVE  Linked(next) /\ Suited(next)
  <1>1. PICK o : o = t.object
    OBVIOUS
  <1>2. DOMAIN next = DOMAIN state
    BY <1>1, Left
  <1>3. ASSUME NEW p \in DOMAIN next, NEW n \in DOMAIN next[p].versions,
               NEW d, d = next[p].versions[n].detail
        PROVE  /\ \A f \in RefFields : d[f] # None => d[f] \in DOMAIN next /\ next[d[f]] # Absent
               /\ d["parent"] # None => KindOf[d["parent"]] = KindOf[p]
               /\ d["category"] # None => CurrentDetail(next[d["category"]])["target"] = KindOf[p]
               /\ KindOf[p] = "category" /\ d["parent"] # None =>
                    CurrentDetail(next[d["parent"]])["target"] = d["target"]
               /\ d["platform"] # None /\ n = next[p].current =>
                    CurrentDetail(next[d["platform"]])["type"] = "LOGISTICS_PLATFORM"
    <2>0. {"parent", "category", "platform"} \subseteq RefFields
      BY DEF RefFields
    <2>1. CASE \E m \in DOMAIN state[p].versions :
                 d = state[p].versions[m].detail /\ (n = next[p].current => m = state[p].current)
      <3>1. PICK m \in DOMAIN state[p].versions :
                 d = state[p].versions[m].detail /\ (n = next[p].current => m = state[p].current)
        BY <2>1
      <3>2. Consistent(state) /\ p \in DOMAIN state
        BY <1>2 DEF Committing
      <3>3. /\ KindOf[p] \in Kinds /\ d \in Details /\ Complete(KindOf[p], d)
            /\ d["parent"] # None => KindOf[d["parent"]] = KindOf[p]
            /\ d["category"] # None => CurrentDetail(state[d["category"]])["target"] = KindOf[p]
            /\ KindOf[p] = "category" /\ d["parent"] # None =>
                 CurrentDetail(state[d["parent"]])["target"] = d["target"]
        BY <3>1, <3>2, Version
      <3>4. \A f \in RefFields : d[f] # None =>
              /\ d[f] \in DOMAIN state /\ next[d[f]] # Absent
              /\ CurrentDetail(state[d[f]])["target"] # None =>
                   CurrentDetail(next[d[f]])["target"] = CurrentDetail(state[d[f]])["target"]
              /\ f = "platform" /\ m = state[p].current =>
                   CurrentDetail(next[d[f]])["type"] = "LOGISTICS_PLATFORM"
        BY <1>1, <3>1, <3>2, ChosenStays
      <3>5. KindOf[p] = "category" => d["target"] # None
        BY <3>3, KindFields, NoneIsNone
      <3>6. KindOf[p] # None
        BY <3>3, NoneIsNone
      <3> QED
        BY <1>2, <2>0, <3>1, <3>3, <3>4, <3>5, <3>6
    <2>2. CASE p = o /\ t.op \in Entering /\ n = next[p].current /\ d = Own(t)
      <3>1. \A f \in RefFields : d[f] # None =>
              /\ d[f] \in DOMAIN state /\ d[f] # o /\ state[d[f]] # Absent
              /\ f = "parent" => KindOf[d[f]] = KindOf[o]
              /\ f = "category" => CurrentDetail(state[d[f]])["target"] = KindOf[o]
              /\ f = "parent" /\ KindOf[o] = "category" =>
                   CurrentDetail(state[d[f]])["target"] = d["target"]
              /\ f = "platform" => CurrentDetail(state[d[f]])["type"] = "LOGISTICS_PLATFORM"
        BY <1>1, <2>2, Brought
      <3>2. \A x \in DOMAIN state : x # o => next[x] = state[x]
        BY <1>1, Left
      <3>3. \A f \in RefFields : d[f] # None => d[f] \in DOMAIN state /\ next[d[f]] = state[d[f]]
        BY <3>1, <3>2
      <3>4. \A f \in RefFields : d[f] # None => d[f] \in DOMAIN next /\ next[d[f]] # Absent
        BY <1>2, <3>1, <3>3
      <3>5. d["parent"] # None => KindOf[d["parent"]] = KindOf[p]
        BY <2>0, <2>2, <3>1, <3>3
      <3>8. KindOf[p] = "category" /\ d["parent"] # None =>
              CurrentDetail(next[d["parent"]])["target"] = d["target"]
        BY <2>0, <2>2, <3>1, <3>3
      <3>6. d["category"] # None => CurrentDetail(next[d["category"]])["target"] = KindOf[p]
        BY <2>0, <2>2, <3>1, <3>3
      <3>7. d["platform"] # None => CurrentDetail(next[d["platform"]])["type"] = "LOGISTICS_PLATFORM"
        BY <2>0, <2>2, <3>1, <3>3
      <3> QED
        BY <3>4, <3>5, <3>6, <3>7, <3>8
    <2>3. \/ \E m \in DOMAIN state[p].versions :
                d = state[p].versions[m].detail /\ (n = next[p].current => m = state[p].current)
          \/ p = o /\ t.op \in Entering /\ n = next[p].current /\ d = Own(t)
      BY <1>1, <1>3, Origin
    <2> QED
      BY <2>1, <2>2, <2>3
  <1> QED
    BY <1>3 DEF Linked, Suited

LEMMA IdentifiedAfter ==
    ASSUME NEW state, NEW t, Committing(state, t), NEW next,
           next = [state EXCEPT ![t.object] = t.work]
    PROVE  Identified(next)
  <1>1. PICK o : o = t.object
    OBVIOUS
  <1> DEFINE key(s, q) == CurrentDetail(s[q])["key"]
  <1>2. Identified(state)
    BY DEF Committing, Consistent, Sound
  <1>3. \A q \in DOMAIN state \ {o} : next[q] = state[q]
    BY <1>1, Left
  <1>4. DOMAIN next = DOMAIN state /\ (t.op # "delete" => CurrentDetail(next[o]) = Own(t))
        /\ (t.op = "delete" => next[o] = Absent) /\ o \in DOMAIN state
    BY <1>1, Left DEF Own
  <1>5. next[o] # Absent /\ key(next, o) # None =>
          /\ key(next, o) = Canonical[key(next, o)]
          /\ \A q \in DOMAIN state \ {o} :
               state[q] # Absent /\ KindOf[q] = KindOf[o] => key(state, q) # key(next, o)
    <2> SUFFICES ASSUME next[o] # Absent, key(next, o) # None
                 PROVE  /\ key(next, o) = Canonical[key(next, o)]
                        /\ \A q \in DOMAIN state \ {o} :
                             state[q] # Absent /\ KindOf[q] = KindOf[o] => key(state, q) # key(next, o)
      OBVIOUS
    <2>1. t.op # "delete"
      BY <1>4
    <2>2. key(next, o) = Own(t)["key"]
      BY <1>4, <2>1
    <2>3. key(next, o) = Canonical[key(next, o)]
      BY <1>1, <2>1, <2>2, Left DEF Committing, Good, Follows
    <2>4. CASE t.op \in Restating
      <3>1. state[o] # Absent /\ key(state, o) = key(next, o)
        BY <1>1, <2>2, <2>4, Left
      <3> QED
        BY <1>2, <1>4, <2>3, <3>1 DEF Identified
    <2>5. CASE t.op \in Entering
      <3>1. KeyFree(state, o, Own(t))
        BY <1>1, <2>5 DEF Committing, Good, Checked, Entering
      <3> QED
        BY <2>2, <2>3, <3>1 DEF KeyFree
    <2> QED
      BY <2>1, <2>4, <2>5 DEF Committing
  <1> SUFFICES ASSUME NEW p \in DOMAIN next, NEW q \in DOMAIN next, next[p] # Absent, next[q] # Absent,
                      key(next, p) # None
               PROVE  /\ key(next, p) = Canonical[key(next, p)]
                      /\ p # q /\ KindOf[p] = KindOf[q] => key(next, p) # key(next, q)
    BY DEF Identified
  <1>6. CASE p = o
    BY <1>3, <1>4, <1>5, <1>6
  <1>7. CASE p # o /\ q = o
    <2>1. key(next, p) = key(state, p) /\ state[p] # Absent /\ p \in DOMAIN state
      BY <1>3, <1>4, <1>7
    <2>2. key(next, p) = Canonical[key(next, p)]
      BY <1>2, <2>1 DEF Identified
    <2> QED
      BY <1>5, <1>7, <2>1, <2>2
  <1>8. CASE p # o /\ q # o
    <2>1. next[p] = state[p] /\ next[q] = state[q] /\ p \in DOMAIN state /\ q \in DOMAIN state
      BY <1>3, <1>4, <1>8
    <2> QED
      BY <1>2, <2>1 DEF Identified
  <1> QED
    BY <1>6, <1>7, <1>8

LEMMA AcyclicAfter ==
    ASSUME NEW state, NEW t, Committing(state, t), NEW next,
           next = [state EXCEPT ![t.object] = t.work]
    PROVE  Acyclic(next)
  <1>1. PICK o : o = t.object
    OBVIOUS
  <1>2. PICK q : q = ParentOf(next, o)
    OBVIOUS
  <1>3. /\ o \in DOMAIN state /\ DOMAIN next = DOMAIN state
        /\ \A p \in DOMAIN state \ {o} : ParentOf(next, p) = ParentOf(state, p)
    BY <1>1, Left DEF ParentOf
  <1>4. Consistent(state) /\ Acyclic(state) /\ Parented(state)
    BY SoundParents DEF Committing, Consistent, Sound
  <1>5. q # None => q \in DOMAIN state /\ q # o /\ o \notin Ancestors(state, q)
    <2>1. CASE t.op = "delete"
      BY <1>1, <1>2, <2>1, Left DEF ParentOf
    <2>2. CASE t.op \in Restating
      <3>1. q = ParentOf(state, o)
        BY <1>1, <1>2, <2>2, Left DEF ParentOf, Own, Restating
      <3>2. o \notin Ancestors(state, o) /\ Closed(state, o, Ancestors(state, o))
            /\ Ancestors(state, o) \in SUBSET DOMAIN state
        BY <1>3, <1>4, AncestorsClosed DEF Acyclic
      <3>3. q # None => q \in Ancestors(state, o)
        BY <3>1, <3>2 DEF Closed
      <3> QED
        BY <1>3, <1>4, <3>2, <3>3, AncestorsInclude
    <2>3. CASE t.op \in Entering
      <3>1. Above(state, o, Own(t))
        BY <1>1, <2>3 DEF Committing, Good, Checked, Entering
      <3>2. q = Own(t)["parent"]
        BY <1>1, <1>2, <2>3, Left DEF ParentOf, Own, Entering
      <3> QED
        BY <3>1, <3>2 DEF Above
    <2> QED
      BY <2>1, <2>2, <2>3 DEF Committing
  <1> QED
    BY <1>2, <1>3, <1>4, <1>5, StaysAcyclic

LEMMA SoundAfter ==
    ASSUME NEW state, NEW t, Committing(state, t), NEW next,
           next = [state EXCEPT ![t.object] = t.work]
    PROVE  Consistent(next)
  BY LegalAfter, LinkedAfter, IdentifiedAfter, AcyclicAfter DEF Consistent, Sound


-----------------------------------------------------------------------------
(* A commit, seen by another transaction.                                  *)

\* What keeps u apart from t, which commits.
Beside(state, t, u) ==
    /\ Consistent(state) /\ Good(state, u)
    /\ Writes(u) => /\ u.object \in DOMAIN state /\ u.object # t.object
                    /\ u.op \in Entering \cup Restating \cup {"delete"}
                    /\ u.op = "create" <=> state[u.object] = Absent
                    /\ u.object \in t.shared => state[u.object] = Absent
    /\ t.object \in u.shared => state[t.object] = Absent
    /\ t.advisory # << >> => t.advisory # u.advisory

LEMMA BackedStays ==
    ASSUME NEW state, NEW t, Committing(state, t), NEW next, next = [state EXCEPT ![t.object] = t.work],
           NEW u, Beside(state, t, u)
    PROVE  Typed(next, u) /\ Follows(next, u) /\ Backed(next, u)
  <1>1. PICK o : o = t.object
    OBVIOUS
  <1>2. DOMAIN next = DOMAIN state /\ \A p \in DOMAIN state \ {o} : next[p] = state[p]
    BY <1>1, Left
  <1>3. Typed(next, u)
    BY <1>2 DEF Beside, Good, Typed
  <1>4. Writes(u) => next[u.object] = state[u.object]
    BY <1>1, <1>2 DEF Beside
  <1>5. Follows(next, u)
    BY <1>4 DEF Beside, Good, Follows
  <1>6. ASSUME NEW ref, ref.object \in u.shared, Fitting(state, u, ref)
        PROVE  Fitting(next, u, ref)
    <2>1. ref.object \in DOMAIN state /\ Effective(state[ref.object])
      BY <1>6 DEF Fitting, Suits
    <2>2. state[ref.object] # Absent
      BY <2>1, Nothingness DEF Effective
    <2>3. next[ref.object] = state[ref.object]
      BY <1>1, <1>2, <1>6, <2>1, <2>2 DEF Beside
    <2> QED
      BY <1>2, <1>6, <2>3 DEF Fitting
  <1>7. Backed(next, u)
    BY <1>6 DEF Beside, Good, Backed
  <1> QED
    BY <1>3, <1>5, <1>7

LEMMA WantStays ==
    ASSUME NEW state, NEW t, Committing(state, t), NEW next, next = [state EXCEPT ![t.object] = t.work],
           NEW u, Beside(state, t, u)
    PROVE  WantKept(next, u)
  <1> SUFFICES ASSUME u.pc = "take", u.want.field # "resolve"
               PROVE  LET row == next[u.want.object]
                      IN  /\ u.want.object \in DOMAIN next
                          /\ u.want.version \in Nat \ {0} /\ row.current >= u.want.version
                          /\ row.current = u.want.version =>
                               row.effective = u.want.version /\ (Enters(u) => Fitting(next, u, u.want))
    BY DEF WantKept
  <1>1. PICK o, x, v : o = t.object /\ x = u.want.object /\ v = u.want.version
    OBVIOUS
  <1>2. DOMAIN next = DOMAIN state /\ \A p \in DOMAIN state \ {o} : next[p] = state[p]
    BY <1>1, Left
  <1>3. /\ x \in DOMAIN state /\ v \in Nat \ {0} /\ state[x].current >= v
        /\ state[x].current = v => state[x].effective = v /\ (Enters(u) => Fitting(state, u, u.want))
    BY <1>1 DEF Beside, Good, WantKept
  <1>4. CASE x # o
    <2>1. next[x] = state[x]
      BY <1>2, <1>3, <1>4
    <2>2. Enters(u) /\ Fitting(state, u, u.want) => Fitting(next, u, u.want)
      BY <1>1, <1>2, <2>1 DEF Fitting
    <2> QED
      BY <1>1, <1>2, <1>3, <2>1, <2>2
  <1>5. CASE x = o
    <2>1. state[o].current \in Nat /\ state[o].effective \in Nat /\ (state[o] = Absent <=> state[o].current = 0)
      BY <1>3, <1>5, LegalRow DEF Beside, Consistent, Sound
    <2>2. state[o] # Absent
      BY <1>3, <1>5, <2>1
    <2>3. t.op # "create"
      BY <1>1, <2>2 DEF Committing
    <2>4. Follows(state, t) /\ Writes(t) /\ next[o] = t.work
      BY <1>1, Left DEF Committing, Good
    <2>5. t.op # "edit" => state[o].effective = 0
      BY <1>1, <2>4 DEF Follows
    <2>6. t.op # "edit" => state[o].current > v
      BY <1>3, <1>5, <2>1, <2>5
    <2>7. t.op # "delete"
      <3>1. t.op = "delete" => state[o].current = 1
        BY <1>1, <2>4 DEF Follows
      <3> QED
        BY <1>3, <2>6, <3>1
    <2>8. next[o].current = state[o].current + (IF t.op \in {"create", "edit"} THEN 1 ELSE 0)
      BY <1>1, <2>4, <2>7 DEF Follows
    <2>9. next[o].current > v
      BY <1>3, <1>5, <2>1, <2>3, <2>6, <2>8
    <2>10. next[o].current >= v /\ next[o].current # v
      <3>1. v \in Nat /\ next[o].current \in Nat
        BY <1>3, <2>1, <2>8
      <3> QED
        BY <2>9, <3>1
    <2> QED
      BY <1>1, <1>2, <1>3, <1>5, <2>10
  <1> QED
    BY <1>4, <1>5

\* Nobody chooses what another is about to delete or to rededicate.
LEMMA BareStays ==
    ASSUME NEW state, NEW t, Committing(state, t), NEW next, next = [state EXCEPT ![t.object] = t.work],
           NEW u, Beside(state, t, u)
    PROVE  Bare(next, u)
  <1>1. PICK o, y : o = t.object /\ y = u.object
    OBVIOUS
  <1>2. Writes(u) => next[y] = state[y] /\ y \in DOMAIN state
    BY <1>1, Left DEF Beside
  <1>3. ASSUME Writes(u), u.op \in {"delete", "save"}, Referred(next, y)
        PROVE  Referred(state, y)
    <2>0. PICK p \in DOMAIN next : \E n \in DOMAIN next[p].versions : \E f \in RefFields :
            next[p].versions[n].detail[f] = y
      BY <1>3 DEF Referred
    <2>1. PICK n \in DOMAIN next[p].versions, f \in RefFields : next[p].versions[n].detail[f] = y
      BY <2>0
    <2>2. PICK d : d = next[p].versions[n].detail
      OBVIOUS
    <2>3. CASE \E m \in DOMAIN state[p].versions : d = state[p].versions[m].detail
      <3>1. p \in DOMAIN state
        BY <1>1, <2>1, Left
      <3> QED
        BY <2>1, <2>2, <2>3, <3>1 DEF Referred
    <2>4. CASE t.op \in Entering /\ d = Own(t)
      <3>1. y # None
        BY <1>2, <1>3, NoneIsNone DEF Beside, Consistent
      <3>2. d[f] # None /\ y = d[f]
        BY <2>1, <2>2, <3>1
      <3>3. y \in t.shared /\ state[y] # Absent
        BY <2>4, <3>2, Brought
      <3> QED
        BY <1>1, <1>3, <3>3 DEF Beside
    <2>5. \/ \E m \in DOMAIN state[p].versions :
                d = state[p].versions[m].detail /\ (n = next[p].current => m = state[p].current)
          \/ p = o /\ t.op \in Entering /\ n = next[p].current /\ d = Own(t)
      BY <1>1, <2>1, <2>2, Origin
    <2> QED
      BY <2>3, <2>4, <2>5
  <1> QED
    BY <1>1, <1>2, <1>3 DEF Beside, Good, Bare

\* At its commit the other may be treated as one that commits.
LEMMA AlsoCommitting ==
    ASSUME NEW state, NEW t, NEW u, Beside(state, t, u), Writes(u), u.pc = "commit"
    PROVE  Committing(state, u)
  BY DEF Beside, Committing

LEMMA KeyStays ==
    ASSUME NEW state, NEW t, Committing(state, t), NEW next, next = [state EXCEPT ![t.object] = t.work],
           NEW u, Beside(state, t, u), Writes(u), u.pc = "commit", u.op \in {"create", "save", "edit"}
    PROVE  KeyFree(next, u.object, Own(u))
  <1>1. PICK o, y, d : o = t.object /\ y = u.object /\ d = Own(u)
    OBVIOUS
  <1>2. DOMAIN next = DOMAIN state /\ \A p \in DOMAIN state \ {o} : next[p] = state[p]
    BY <1>1, Left
  <1>3. KeyFree(state, y, d) /\ u.advisory = AdvisoryOf(KindOf[y], d)
    BY <1>1 DEF Beside, Good, Checked
  <1> SUFFICES ASSUME d["key"] # None, NEW p \in DOMAIN next \ {y}, KindOf[p] = KindOf[y], next[p] # Absent,
                      CurrentDetail(next[p])["key"] = d["key"]
               PROVE  FALSE
    BY <1>1 DEF KeyFree
  <1>4. p = o
    BY <1>2, <1>3 DEF KeyFree
  <1>5. t.op # "delete" /\ CurrentDetail(next[o]) = Own(t) /\ Own(t)["key"] = d["key"]
    BY <1>1, <1>4, Left DEF Own
  <1>6. CASE t.op \in Restating
    <2>1. state[o] # Absent /\ CurrentDetail(state[o])["key"] = d["key"]
      BY <1>1, <1>5, <1>6, Left
    <2> QED
      BY <1>2, <1>3, <1>4, <2>1 DEF KeyFree
  <1>7. CASE t.op \in Entering
    <2>1. t.advisory = AdvisoryOf(KindOf[o], Own(t))
      BY <1>1, <1>7 DEF Committing, Good, Checked, Entering
    <2>2. Own(t) \in Details /\ Complete(KindOf[o], Own(t)) /\ KindOf[o] \in Kinds
      BY <1>1, <1>5, Left
    <2>3. KindOf[o] \notin {"category", "department"}
      BY <1>5, <2>2, KindFields
    <2>4. t.advisory = <<KindOf[o], d["key"]>> /\ u.advisory = <<KindOf[o], d["key"]>>
      BY <1>3, <1>4, <1>5, <2>1, <2>3 DEF AdvisoryOf
    <2> QED
      BY <2>4 DEF Beside
  <1> QED
    BY <1>5, <1>6, <1>7 DEF Committing

LEMMA TypeStays ==
    ASSUME NEW state, NEW t, Committing(state, t), NEW next, next = [state EXCEPT ![t.object] = t.work],
           NEW u, Beside(state, t, u), Writes(u), u.pc = "commit", u.op \in {"create", "save", "edit"}
    PROVE  TypeFree(next, u.object, Own(u))
  <1>1. PICK o, y, d : o = t.object /\ y = u.object /\ d = Own(u)
    OBVIOUS
  <1>2. DOMAIN next = DOMAIN state /\ \A p \in DOMAIN state \ {o} : next[p] = state[p]
    BY <1>1, Left
  <1>3. TypeFree(state, y, d)
    BY <1>1 DEF Beside, Good, Checked
  <1> SUFFICES ASSUME d["type"] = "GENERAL", NEW p \in DOMAIN next, next[p] # Absent,
                      CurrentDetail(next[p])["platform"] = y
               PROVE  FALSE
    BY <1>1 DEF TypeFree
  <1>4. p = o
    BY <1>2, <1>3 DEF TypeFree
  <1>5. t.op # "delete" /\ CurrentDetail(next[o]) = Own(t) /\ Own(t)["platform"] = y
    BY <1>1, <1>4, Left DEF Own
  <1>6. CASE t.op \in Restating
    <2>1. state[o] # Absent /\ CurrentDetail(state[o])["platform"] = y
      BY <1>1, <1>5, <1>6, Left
    <2> QED
      BY <1>2, <1>3, <1>4, <2>1 DEF TypeFree
  <1>7. CASE t.op \in Entering
    <2>1. y # None
      BY <1>1, NoneIsNone DEF Beside, Consistent
    <2>2. PICK e, f : e = Own(t) /\ f = "platform"
      OBVIOUS
    <2>3. f \in RefFields /\ e[f] # None /\ y = e[f]
      BY <1>5, <2>1, <2>2 DEF RefFields
    <2>4. y \in t.shared /\ state[y] # Absent
      BY <1>7, <2>2, <2>3, Brought
    <2> QED
      BY <1>1, <2>4 DEF Beside
  <1> QED
    BY <1>5, <1>6, <1>7 DEF Committing

LEMMA AboveStays ==
    ASSUME NEW state, NEW t, Committing(state, t), NEW next, next = [state EXCEPT ![t.object] = t.work],
           NEW u, Beside(state, t, u), Writes(u), u.pc = "commit", u.op \in {"create", "save", "edit"}
    PROVE  Above(next, u.object, Own(u))
  <1>1. PICK o, y, d, q : o = t.object /\ y = u.object /\ d = Own(u) /\ q = d["parent"]
    OBVIOUS
  <1> SUFFICES ASSUME q # None
               PROVE  q \in DOMAIN next /\ q # y /\ y \notin Ancestors(next, q)
    BY <1>1 DEF Above
  <1>2. /\ DOMAIN next = DOMAIN state /\ o \in DOMAIN state /\ KindOf[o] \in Kinds
        /\ \A p \in DOMAIN state \ {o} : ParentOf(next, p) = ParentOf(state, p)
    BY <1>1, Left DEF ParentOf
  <1>3. q \in DOMAIN state /\ q # y /\ y \notin Ancestors(state, q)
        /\ u.advisory = AdvisoryOf(KindOf[y], d)
    BY <1>1 DEF Beside, Good, Checked, Above
  <1>4. Consistent(state) /\ Parented(state)
        /\ \A p \in DOMAIN state : ParentOf(state, p) # None => KindOf[ParentOf(state, p)] = KindOf[p]
    BY SoundParents DEF Beside
  <1> DEFINE S == Ancestors(state, q)
  <1>5. S \in SUBSET DOMAIN state /\ Closed(state, q, S)
    BY <1>3, <1>4, AncestorsClosed
  <1>6. KindOf[q] = KindOf[y]
    <2>1. Committing(state, u) /\ u.op # "delete"
      BY AlsoCommitting
    <2>2. CASE u.op \in Entering
      <3>1. PICK f : f = "parent"
        OBVIOUS
      <3>2. f \in RefFields /\ q = d[f] /\ d[f] # None
        BY <1>1, <3>1 DEF RefFields
      <3> QED
        BY <1>1, <2>1, <2>2, <3>1, <3>2, Brought
    <2>3. CASE u.op \in Restating
      <3>1. PICK n2 : n2 = [state EXCEPT ![u.object] = u.work]
        OBVIOUS
      <3>2. d = CurrentDetail(state[y]) /\ state[y] # Absent /\ y \in DOMAIN state
        BY <1>1, <2>1, <2>3, <3>1, Left
      <3>3. ParentOf(state, y) = q
        BY <1>1, <3>2 DEF ParentOf
      <3> QED
        BY <1>4, <3>2, <3>3
    <2> QED
      BY <2>1, <2>2, <2>3 DEF Committing
  <1>7. CASE ParentOf(next, o) \in {ParentOf(state, o), None}
    <2>1. ASSUME NEW p \in S \cup {q}
          PROVE  ParentOf(next, p) \in S \cup {None}
      <3>1. ParentOf(state, p) \in S \cup {None} /\ p \in DOMAIN state
        BY <1>3, <1>5 DEF Closed
      <3> QED
        BY <1>2, <1>7, <3>1
    <2>2. Closed(next, q, S)
      BY <2>1 DEF Closed
    <2>3. y \notin S /\ S \in SUBSET DOMAIN next
      BY <1>2, <1>3, <1>5
    <2> HIDE DEF S
    <2>4. Ancestors(next, q) \subseteq S
      BY <2>2, <2>3, LeastAncestors
    <2> QED
      BY <1>2, <1>3, <2>3, <2>4
  <1>8. CASE KindOf[o] # KindOf[y]
    <2> DEFINE R == {p \in S : KindOf[p] = KindOf[y]}
    <2>1. R \in SUBSET DOMAIN next /\ y \notin R
      BY <1>2, <1>3, <1>5
    <2>2. ASSUME NEW p \in R \cup {q}
          PROVE  ParentOf(next, p) \in R \cup {None}
      <3>1. p \in DOMAIN state /\ KindOf[p] = KindOf[y] /\ p # o /\ p \in S \cup {q}
        BY <1>3, <1>5, <1>6, <1>8
      <3>2. ParentOf(next, p) = ParentOf(state, p)
        BY <1>2, <3>1
      <3>3. ParentOf(state, p) \in S \cup {None}
        BY <1>5, <3>1 DEF Closed
      <3> QED
        BY <1>4, <3>1, <3>2, <3>3
    <2>3. Closed(next, q, R)
      BY <2>2 DEF Closed
    <2> HIDE DEF R
    <2> QED
      BY <1>2, <1>3, <2>1, <2>3, LeastAncestors
  <1>9. CASE KindOf[o] = KindOf[y] /\ ParentOf(next, o) \notin {ParentOf(state, o), None}
    <2>1. t.op # "delete" /\ ParentOf(next, o) = Own(t)["parent"]
      BY <1>1, <1>9, Left DEF ParentOf, Own
    <2>2. t.op \notin Restating
      BY <1>1, <1>9, <2>1, Left DEF ParentOf
    <2>3. t.op \in Entering
      BY <2>1, <2>2 DEF Committing
    <2>4. t.advisory = AdvisoryOf(KindOf[o], Own(t))
      BY <1>1, <2>3 DEF Committing, Good, Checked, Entering
    <2>5. Own(t) \in Details /\ Complete(KindOf[o], Own(t))
      BY <1>1, <2>1, Left
    <2>6. KindOf[o] \in {"category", "department"}
      BY <1>2, <1>9, <2>1, <2>5, KindFields
    <2>7. t.advisory = <<"tree", KindOf[o]>> /\ u.advisory = <<"tree", KindOf[o]>>
      BY <1>3, <1>9, <2>4, <2>6 DEF AdvisoryOf
    <2> QED
      BY <2>7 DEF Beside
  <1> QED
    BY <1>2, <1>3, <1>7, <1>8, <1>9

LEMMA CommitKeeps ==
    ASSUME NEW state, NEW t, Committing(state, t), NEW next, next = [state EXCEPT ![t.object] = t.work],
           NEW u, Beside(state, t, u)
    PROVE  Good(next, u)
  <1>1. u.pc = "commit" /\ u.op \in {"create", "save", "edit"} => Writes(u)
    BY DEF Writes, Consumers
  <1>2. u.pc = "commit" /\ u.op \in {"create", "save", "edit"} =>
          /\ KeyFree(next, u.object, Own(u)) /\ TypeFree(next, u.object, Own(u))
          /\ Above(next, u.object, Own(u))
    BY <1>1, KeyStays, TypeStays, AboveStays
  <1>3. Checked(next, u)
    BY <1>2 DEF Beside, Good, Checked
  <1> QED
    BY <1>3, BackedStays, WantStays, BareStays DEF Good


-----------------------------------------------------------------------------
(* The rows agree, whatever the transactions do.                           *)

\* An advisory lock has one holder.
Alone ==
    \A c, e \in Clients : c # e /\ tx[c].advisory # << >> => tx[c].advisory # tx[e].advisory

Agreeing == Consistent(rows) /\ (\A c \in Clients : Good(rows, tx[c])) /\ Alone

JInv == IInv /\ Agreeing

LEMMA IdleGood == \A state : Good(state, Idle)
  <1>1. /\ Idle.pc = "idle" /\ Idle.op = "none" /\ Idle.shared = {} /\ Idle.advisory = << >>
        /\ ~Writes(Idle) /\ ~Enters(Idle)
    BY DEF Idle, Writes, Enters
  <1> SUFFICES ASSUME NEW state
               PROVE  Good(state, Idle)
    OBVIOUS
  <1>2. Typed(state, Idle)
    BY <1>1 DEF Typed
  <1>3. Follows(state, Idle) /\ Backed(state, Idle) /\ Bare(state, Idle)
    BY <1>1 DEF Follows, Backed, Bare
  <1>4. WantKept(state, Idle) /\ Checked(state, Idle)
    BY <1>1 DEF WantKept, Checked
  <1> QED
    BY <1>2, <1>3, <1>4 DEF Good

LEMMA InitAgreeing == Init => Agreeing
  <1> SUFFICES ASSUME Init
               PROVE  Agreeing
    OBVIOUS
  <1>1. story \in Stories /\ rows = story.rows /\ \A c \in Clients : tx[c] = Idle
    BY DEF Init
  <1>2. Consistent(rows)
    BY <1>1, StoriesAssumption DEF Consistent
  <1>3. Alone
    <2>1. Idle.advisory = << >>
      BY DEF Idle
    <2> QED
      BY <1>1, <2>1 DEF Alone
  <1> QED
    BY <1>1, <1>2, <1>3, IdleGood DEF Agreeing

LEMMA SetAgreeing ==
    ASSUME IInv, Agreeing, NEW c \in Clients, NEW t, Set(c, t), Good(rows, t),
           t.advisory = << >> \/ \A d \in Clients \ {c} : tx[d].advisory # t.advisory
    PROVE  Agreeing'
  <1>1. /\ tx'[c] = t /\ rows' = rows
        /\ \A d \in Clients \ {c} : tx'[d] = tx[d]
    BY DEF Set, IInv, Fits
  <1>2. Consistent(rows')
    BY <1>1 DEF Agreeing
  <1>3. \A d \in Clients : Good(rows', tx'[d])
    BY <1>1 DEF Agreeing
  <1>4. Alone'
    BY <1>1 DEF Agreeing, Alone
  <1> QED
    BY <1>2, <1>3, <1>4 DEF Agreeing

LEMMA RefuseAgreeing ==
    ASSUME IInv, Agreeing, NEW c \in Clients, Refuse(c)
    PROVE  Agreeing'
  <1>1. Idle.advisory = << >>
    BY DEF Idle
  <1> QED
    BY <1>1, SetAgreeing, IdleGood DEF Refuse

\* What the request leaves of its row.
Leaves(state, t) ==
    LET row == state[t.object]
    IN  /\ Legal(KindOf[t.object], t.work) /\ t.work # Absent
        /\ \A n \in DOMAIN t.work.versions : n # t.work.current =>
             n \in DOMAIN row.versions /\ t.work.versions[n].detail = row.versions[n].detail
        /\ t.op \in Restating => Own(t) = CurrentDetail(row)
        /\ t.work.current = row.current + (IF t.op \in {"create", "edit"} THEN 1 ELSE 0)
        /\ Own(t)["key"] # None => Own(t)["key"] = Canonical[Own(t)["key"]]

LEMMA LockReferencesAgreeing ==
    ASSUME IInv, Agreeing, NEW c \in Clients, NEW t, LockReferences(c, t), DOMAIN t = TxFields,
           t.shared = {}, t.advisory = << >>, t.actor \in Actors,
           t.op \in {"create", "save", "submit", "approve"},
           rows[t.object].effective = 0,
           Complete(KindOf[t.object], Own(t)) => Leaves(rows, t),
           t.op = "save" /\ KindOf[t.object] = "category"
             /\ Own(t)["target"] # CurrentDetail(rows[t.object])["target"] => ~Referred(rows, t.object)
    PROVE  Agreeing'
  <1>1. PICK d : d = Own(t)
    OBVIOUS
  <1>2. Top(t.work).detail = d
    BY <1>1 DEF Own, CurrentDetail, Top
  <1>3. CASE ~Complete(KindOf[t.object], d)
    BY <1>2, <1>3, RefuseAgreeing DEF LockReferences
  <1>4. CASE Complete(KindOf[t.object], d)
    <2>1. PICK q : q = [t EXCEPT !.todo = References(d), !.pc = "look"]
      OBVIOUS
    <2>2. Set(c, q)
      BY <1>2, <1>4, <2>1 DEF LockReferences
    <2>3. /\ q.pc = "look" /\ q.todo = References(d) /\ q.op = t.op /\ q.object = t.object
          /\ q.work = t.work /\ q.shared = {} /\ q.advisory = << >> /\ q.actor \in Actors
          /\ Own(q) = d
      BY <1>1, <2>1 DEF TxFields, Own
    <2>4. Typed(rows, q)
      BY <2>3 DEF Typed, Ops
    <2>5. Follows(rows, q)
      BY <1>1, <1>4, <2>3 DEF Follows, Leaves
    <2>6. Backed(rows, q)
      BY <2>3 DEF Backed
    <2>7. WantKept(rows, q) /\ Checked(rows, q)
      BY <2>3 DEF WantKept, Checked
    <2>8. Bare(rows, q)
      <3>1. q.op # "delete"
        BY <2>3
      <3>2. q.op = "save" /\ KindOf[q.object] = "category"
              /\ Own(q)["target"] # CurrentDetail(rows[q.object])["target"] => ~Referred(rows, q.object)
        BY <1>1, <2>3
      <3> QED
        BY <3>1, <3>2 DEF Bare
    <2> QED
      BY <2>2, <2>3, <2>4, <2>5, <2>6, <2>7, <2>8, SetAgreeing DEF Good
  <1> QED
    BY <1>3, <1>4

-----------------------------------------------------------------------------
(* Details as they come in.                                                *)

LEMMA DetailIs ==
    /\ \A d \in Details : d \in [Fields -> UNION {ValuesOf(f) : f \in Fields}] /\ \A f \in Fields : d[f] \in ValuesOf(f)
    /\ \A d : d = [f \in Fields |-> d[f]] /\ (\A f \in Fields : d[f] \in ValuesOf(f)) => d \in Details
  <1>1. ASSUME NEW d, d = [f \in Fields |-> d[f]], \A f \in Fields : d[f] \in ValuesOf(f)
        PROVE  d \in Details
    <2>1. \A f \in Fields : d[f] \in UNION {ValuesOf(g) : g \in Fields}
      BY <1>1
    <2>2. d \in [Fields -> UNION {ValuesOf(f) : f \in Fields}]
      BY <1>1, <2>1
    <2> QED
      BY <1>1, <2>2 DEF Details
  <1> QED
    BY <1>1 DEF Details

LEMMA DefaultsAreDetails == \A kind : Defaults(kind) \in Details
  <1>1. \A f \in Fields : None \in ValuesOf(f)
    BY DEF Fields, RefFields, ValuesOf
  <1>2. "GENERAL" \in ValuesOf("type") /\ "type" \in Fields
    BY DEF Fields, RefFields, ValuesOf
  <1>3. Blank \in Details
    BY <1>1, DetailIs DEF Blank
  <1>4. PICK g : g = [Blank EXCEPT !["type"] = "GENERAL"]
    OBVIOUS
  <1>5. g = [f \in Fields |-> g[f]] /\ \A f \in Fields : g[f] \in ValuesOf(f)
    BY <1>1, <1>2, <1>4 DEF Blank
  <1>6. g \in Details
    BY <1>5, DetailIs
  <1> QED
    BY <1>3, <1>4, <1>6 DEF Defaults

LEMMA MergedDetail ==
    ASSUME NEW d \in Details, NEW input, Merged(Blank, input) \in Details,
           NEW m, m = Normalized(Merged(d, input))
    PROVE  m \in Details /\ (m["key"] # None => m["key"] = Canonical[m["key"]])
  <1>1. PICK e : e = Merged(d, input)
    OBVIOUS
  <1>2. \A f \in Fields : e[f] \in ValuesOf(f)
    <2> SUFFICES ASSUME NEW f \in Fields
                 PROVE  e[f] \in ValuesOf(f)
      OBVIOUS
    <2>1. CASE f \in DOMAIN input
      <3>1. e[f] = Merged(Blank, input)[f]
        BY <1>1, <2>1 DEF Merged
      <3> QED
        BY <3>1, DetailIs
    <2>2. CASE f \notin DOMAIN input
      <3>1. e[f] = d[f]
        BY <1>1, <2>2 DEF Merged
      <3> QED
        BY <3>1, DetailIs
    <2> QED
      BY <2>1, <2>2
  <1>3. "key" \in Fields /\ ValuesOf("key") = Keys \cup {None}
    BY DEF Fields, RefFields, ValuesOf
  <1>4. PICK k : k = IF e["key"] = None THEN None ELSE Canonical[e["key"]]
    OBVIOUS
  <1>5. k \in Keys \cup {None} /\ (k # None => k = Canonical[k])
    BY <1>2, <1>3, <1>4, BobAssumption
  <1>6. e = [f \in Fields |-> e[f]]
    BY <1>1 DEF Merged
  <1>7. m = [e EXCEPT !["key"] = k]
    BY <1>1, <1>4 DEF Normalized
  <1>8. m = [f \in Fields |-> m[f]] /\ m["key"] = k /\ \A f \in Fields \ {"key"} : m[f] = e[f]
    BY <1>3, <1>6, <1>7
  <1>9. \A f \in Fields : m[f] \in ValuesOf(f)
    BY <1>2, <1>3, <1>5, <1>8
  <1> QED
    BY <1>5, <1>8, <1>9, DetailIs

\* A stored identifier is canonical already.
LEMMA StoredKey ==
    ASSUME NEW state, Consistent(state), NEW o \in DOMAIN state, state[o] # Absent,
           NEW k, k = CurrentDetail(state[o])["key"], k # None
    PROVE  k = Canonical[k]
  BY DEF Consistent, Sound, Identified

-----------------------------------------------------------------------------
(* The object's own lock.                                                  *)

LEMMA AtTarget ==
    ASSUME IInv, Agreeing, NEW c \in Clients, LockTarget(c), NEW o, o = tx[c].object,
           NEW row, row = rows[o], row # Absent
    PROVE  /\ Consistent(rows) /\ o \in DOMAIN rows /\ KindOf[o] \in Kinds /\ Legal(KindOf[o], row)
           /\ tx[c].op \in Ops /\ tx[c].actor \in Actors /\ Merged(Blank, tx[c].input) \in Details
           /\ tx[c].pc = "object" /\ tx[c].shared = {} /\ tx[c].advisory = << >> /\ DOMAIN tx[c] = TxFields
           /\ CurrentDetail(row)["key"] # None => CurrentDetail(row)["key"] = Canonical[CurrentDetail(row)["key"]]
           /\ CurrentDetail(row) \in Details /\ Complete(KindOf[o], CurrentDetail(row))
           /\ Top(row).detail = CurrentDetail(row) /\ Top(row).by \in Actors \cup {None}
  <1>1. /\ tx[c].pc = "object" /\ o \in DOMAIN rows /\ DOMAIN tx[c] = TxFields /\ tx[c].shared = {}
    BY TargetFree DEF Objs
  <1>2. Consistent(rows) /\ Good(rows, tx[c])
    BY DEF Agreeing
  <1>3. Legal(KindOf[o], row) /\ KindOf[o] \in Kinds
    BY <1>1, <1>2, BobAssumption DEF Consistent, Sound
  <1>4. /\ tx[c].op \in Ops /\ tx[c].actor \in Actors /\ Merged(Blank, tx[c].input) \in Details
        /\ tx[c].advisory = << >>
    BY <1>1, <1>2 DEF Good, Typed, Checked
  <1>5. CurrentDetail(row)["key"] # None => CurrentDetail(row)["key"] = Canonical[CurrentDetail(row)["key"]]
    BY <1>1, <1>2, StoredKey
  <1>6. /\ CurrentDetail(row) \in Details /\ Complete(KindOf[o], CurrentDetail(row))
        /\ Top(row).detail = CurrentDetail(row) /\ Top(row) \in Versions
    BY <1>3, LegalTop
  <1> QED
    BY <1>1, <1>2, <1>3, <1>4, <1>5, <1>6 DEF Versions

LEMMA TargetLeaves ==
    ASSUME IInv, Agreeing, NEW c \in Clients, LockTarget(c), NEW o, o = tx[c].object,
           NEW row, row = rows[o], row # Absent, row.effective = 0,
           tx[c].op \in {"save", "submit", "approve"},
           NEW work, LockReferences(c, [Locked(c) EXCEPT !.work = work]),
           NEW d, d = CurrentDetail(work), Complete(KindOf[o], d) => MovesOn(KindOf[o], row, work, d),
           tx[c].op # "save" => d = CurrentDetail(row),
           d["key"] # None => d["key"] = Canonical[d["key"]],
           tx[c].op = "save" /\ KindOf[o] = "category" /\ d["target"] # CurrentDetail(row)["target"] =>
             ~Referred(rows, o)
    PROVE  Agreeing'
  <1>1. PICK q : q = [Locked(c) EXCEPT !.work = work]
    OBVIOUS
  <1>2. /\ tx[c].shared = {} /\ tx[c].advisory = << >> /\ DOMAIN tx[c] = TxFields /\ tx[c].actor \in Actors
    BY AtTarget
  <1>3. /\ DOMAIN q = TxFields /\ q.op = tx[c].op /\ q.object = o /\ q.shared = {} /\ q.advisory = << >>
        /\ q.actor \in Actors /\ q.work = work
    BY <1>1, <1>2 DEF Locked, TxFields
  <1>4. Own(q) = d
    BY <1>3 DEF Own
  <1>5. Complete(KindOf[q.object], Own(q)) => Leaves(rows, q)
    <2> SUFFICES ASSUME Complete(KindOf[o], d)
                 PROVE  Leaves(rows, q)
      BY <1>3, <1>4
    <2>1. /\ Legal(KindOf[o], work) /\ work # Absent /\ work.current = row.current
          /\ \A n \in DOMAIN work.versions : n # work.current =>
               n \in DOMAIN row.versions /\ work.versions[n].detail = row.versions[n].detail
      BY DEF MovesOn
    <2>2. work.current = row.current + 0
      <3>1. row.current \in Nat
        BY AtTarget, LegalRow
      <3> QED
        BY <2>1, <3>1
    <2>3. q.op \in Restating => Own(q) = CurrentDetail(row)
      BY <1>3, <1>4 DEF Restating
    <2>4. q.op \notin {"create", "edit"}
      BY <1>3
    <2> QED
      BY <1>3, <1>4, <2>1, <2>2, <2>3, <2>4 DEF Leaves
  <1>6. q.op = "save" /\ KindOf[q.object] = "category"
          /\ Own(q)["target"] # CurrentDetail(rows[q.object])["target"] => ~Referred(rows, q.object)
    BY <1>3, <1>4
  <1>7. LockReferences(c, q) /\ rows[q.object].effective = 0
        /\ q.op \in {"create", "save", "submit", "approve"}
    BY <1>1, <1>3
  <1> QED
    BY <1>3, <1>5, <1>6, <1>7, LockReferencesAgreeing

LEMMA SaveAgreeing ==
    ASSUME IInv, Agreeing, NEW c \in Clients, Save(c)
    PROVE  Agreeing'
  <1>1. PICK o, row : o = tx[c].object /\ row = rows[o]
    OBVIOUS
  <1>2. PICK d : d = Normalized(Merged(Top(row).detail, tx[c].input))
    OBVIOUS
  <1>3. CASE Refuse(c)
    BY <1>3, RefuseAgreeing
  <1>4. CASE ~Refuse(c)
    <2>1. LockTarget(c) /\ tx[c].op = "save"
      BY DEF Save
    <2>2. /\ row # Absent /\ CanSave(row, tx[c].seen)
          /\ KindOf[o] = "category" /\ d["target"] # Top(row).detail["target"] => ~IsReferenced(o)
          /\ LockReferences(c, [Locked(c) EXCEPT !.work = Saved(row, d)])
      BY <1>1, <1>2, <1>4 DEF Save
    <2>3. row.effective = 0 /\ Top(row).status \in {"DRAFT", "REJECTED"}
      BY <2>2 DEF CanSave, IsCurrent
    <2>4. /\ Legal(KindOf[o], row) /\ Merged(Blank, tx[c].input) \in Details
          /\ CurrentDetail(row) \in Details /\ Top(row).detail = CurrentDetail(row)
          /\ Top(row).by \in Actors \cup {None}
      BY <1>1, <2>1, <2>2, AtTarget
    <2>5. d \in Details /\ (d["key"] # None => d["key"] = Canonical[d["key"]])
      BY <1>2, <2>4, MergedDetail
    <2>6. PICK work : work = Saved(row, d)
      OBVIOUS
    <2>7. PICK k, status, by : k = row.current /\ status = Top(row).status /\ by = Top(row).by
      OBVIOUS
    <2>8. work = Moved(row, k, status, by, d)
      BY <2>6, <2>7 DEF Saved
    <2>9. d = CurrentDetail(work)
      <3>1. row \in Rows /\ row.versions \in Seq(Versions) /\ k \in DOMAIN row.versions /\ status \in Statuses
        BY <2>2, <2>3, <2>4, <2>7, LegalRow, LegalTop DEF Statuses
      <3>2. Restated(row, work, k, status, by, d)
        BY <2>4, <2>5, <2>7, <2>8, <3>1, MovedRow
      <3> QED
        BY <2>7, <3>2 DEF Restated, CurrentDetail
    <2>10. Complete(KindOf[o], d) => MovesOn(KindOf[o], row, work, d)
      <3>1. status \in {"DRAFT", "PENDING", "REJECTED"} /\ status # "PENDING"
        BY <2>3, <2>7
      <3> QED
        BY <2>2, <2>3, <2>4, <2>5, <2>7, <2>8, <3>1, MovesOnRow
    <2>11. KindOf[o] = "category" /\ d["target"] # CurrentDetail(row)["target"] => ~Referred(rows, o)
      BY <2>2, <2>4 DEF IsReferenced, Referred, Objs
    <2>12. LockReferences(c, [Locked(c) EXCEPT !.work = work])
      BY <2>2, <2>6
    <2> QED
      BY <1>1, <2>1, <2>2, <2>3, <2>5, <2>9, <2>10, <2>11, <2>12, TargetLeaves
  <1> QED
    BY <1>3, <1>4

LEMMA SubmitAgreeing ==
    ASSUME IInv, Agreeing, NEW c \in Clients, Submit(c)
    PROVE  Agreeing'
  <1>1. PICK o, row : o = tx[c].object /\ row = rows[o]
    OBVIOUS
  <1>2. PICK d : d = CurrentDetail(row)
    OBVIOUS
  <1>3. CASE Refuse(c)
    BY <1>3, RefuseAgreeing
  <1>4. CASE ~Refuse(c)
    <2>1. LockTarget(c) /\ tx[c].op = "submit"
      BY DEF Submit
    <2>2. /\ row # Absent /\ CanSubmit(row, tx[c].seen)
          /\ LockReferences(c, [Locked(c) EXCEPT !.work = Submitted(row, tx[c].actor)])
      BY <1>1, <1>4 DEF Submit
    <2>3. row.effective = 0
      BY <2>2 DEF CanSubmit, IsCurrent
    <2>4. /\ Legal(KindOf[o], row) /\ d \in Details /\ Complete(KindOf[o], d)
          /\ Top(row).detail = d /\ tx[c].actor \in Actors
          /\ d["key"] # None => d["key"] = Canonical[d["key"]]
      BY <1>1, <1>2, <2>1, <2>2, AtTarget
    <2>5. PICK work, status, by : work = Submitted(row, tx[c].actor) /\ status = "PENDING" /\ by = tx[c].actor
      OBVIOUS
    <2>6. by \in Actors \cup {None} /\ by # None /\ status \in {"DRAFT", "PENDING", "REJECTED"}
      BY <2>4, <2>5, BobAssumption
    <2>7. work = Moved(row, row.current, status, by, d)
      BY <2>4, <2>5 DEF Submitted
    <2>8. MovesOn(KindOf[o], row, work, d)
      BY <2>2, <2>3, <2>4, <2>6, <2>7, MovesOnRow
    <2>9. d = CurrentDetail(work)
      BY <2>8 DEF MovesOn
    <2>10. LockReferences(c, [Locked(c) EXCEPT !.work = work])
      BY <2>2, <2>5
    <2> QED
      BY <1>1, <1>2, <2>1, <2>2, <2>3, <2>4, <2>8, <2>9, <2>10, TargetLeaves
  <1> QED
    BY <1>3, <1>4

LEMMA ApproveAgreeing ==
    ASSUME IInv, Agreeing, NEW c \in Clients, Approve(c)
    PROVE  Agreeing'
  <1>1. PICK o, row : o = tx[c].object /\ row = rows[o]
    OBVIOUS
  <1>2. PICK d : d = CurrentDetail(row)
    OBVIOUS
  <1>3. CASE Refuse(c)
    BY <1>3, RefuseAgreeing
  <1>4. CASE ~Refuse(c)
    <2>1. LockTarget(c) /\ tx[c].op = "approve"
      BY DEF Approve
    <2>2. /\ row # Absent /\ CanReview(row, tx[c].seen, tx[c].actor)
          /\ LockReferences(c, [Locked(c) EXCEPT !.work = Approved(row)])
      BY <1>1, <1>4 DEF Approve
    <2>3. row.effective = 0 /\ Top(row).status = "PENDING"
      BY <2>2 DEF CanReview, IsCurrent
    <2>4. /\ Legal(KindOf[o], row)
          /\ d["key"] # None => d["key"] = Canonical[d["key"]]
      BY <1>1, <1>2, <2>1, <2>2, AtTarget
    <2>5. PICK work : work = Approved(row)
      OBVIOUS
    <2>8. MovesOn(KindOf[o], row, work, d)
      BY <1>2, <2>2, <2>3, <2>4, <2>5, ApprovedRow
    <2>9. d = CurrentDetail(work)
      BY <2>8 DEF MovesOn
    <2>10. LockReferences(c, [Locked(c) EXCEPT !.work = work])
      BY <2>2, <2>5
    <2> QED
      BY <1>1, <1>2, <2>1, <2>2, <2>3, <2>4, <2>8, <2>9, <2>10, TargetLeaves
  <1> QED
    BY <1>3, <1>4

LEMMA RejectAgreeing ==
    ASSUME IInv, Agreeing, NEW c \in Clients, Reject(c)
    PROVE  Agreeing'
  <1>1. PICK o, row, d : o = tx[c].object /\ row = rows[o] /\ d = CurrentDetail(row)
    OBVIOUS
  <1>2. CASE Refuse(c)
    BY <1>2, RefuseAgreeing
  <1>3. CASE ~Refuse(c)
    <2>1. LockTarget(c) /\ tx[c].op = "reject"
      BY DEF Reject
    <2>2. /\ row # Absent /\ CanReview(row, tx[c].seen, tx[c].actor)
          /\ Set(c, [Locked(c) EXCEPT !.work = Rejected(row), !.pc = "commit"])
      BY <1>1, <1>3 DEF Reject
    <2>3. row.effective = 0
      BY <2>2 DEF CanReview, IsCurrent
    <2>4. /\ Legal(KindOf[o], row) /\ d \in Details /\ Complete(KindOf[o], d)
          /\ Top(row).detail = d /\ Top(row).by \in Actors \cup {None}
          /\ d["key"] # None => d["key"] = Canonical[d["key"]]
          /\ tx[c].shared = {} /\ tx[c].advisory = << >> /\ DOMAIN tx[c] = TxFields /\ tx[c].actor \in Actors
      BY <1>1, <2>1, <2>2, AtTarget
    <2>5. PICK work, status, by : work = Rejected(row) /\ status = "REJECTED" /\ by = Top(row).by
      OBVIOUS
    <2>6. work = Moved(row, row.current, status, by, d)
      BY <2>4, <2>5 DEF Rejected
    <2>7. MovesOn(KindOf[o], row, work, d)
      <3>1. status \in {"DRAFT", "PENDING", "REJECTED"} /\ status # "PENDING" /\ by \in Actors \cup {None}
        BY <2>4, <2>5
      <3> QED
        BY <2>2, <2>3, <2>4, <2>6, <3>1, MovesOnRow
    <2>8. PICK q : q = [Locked(c) EXCEPT !.work = work, !.pc = "commit"]
      OBVIOUS
    <2>9. Set(c, q)
      BY <2>2, <2>5, <2>8
    <2>10. /\ q.op = "reject" /\ q.object = o /\ q.shared = {} /\ q.advisory = << >>
           /\ q.actor \in Actors /\ q.work = work /\ q.pc = "commit" /\ Own(q) = d
      BY <1>1, <2>1, <2>4, <2>7, <2>8 DEF Locked, TxFields, Own, MovesOn
    <2>11. Typed(rows, q)
      BY <2>10 DEF Typed, Ops
    <2>12. Follows(rows, q)
      <3>1. work.current = row.current + 0
        <4>1. row.current \in Nat /\ work.current = row.current
          BY <2>4, <2>7, LegalRow DEF MovesOn
        <4> QED
          BY <4>1
      <3>2. q.op \notin {"create", "edit", "delete"}
        BY <2>10
      <3> QED
        BY <1>1, <2>3, <2>4, <2>7, <2>10, <3>1, <3>2 DEF Follows, MovesOn
    <2>13. Backed(rows, q) /\ Bare(rows, q)
      BY <2>10 DEF Backed, Bare, Enters, Entering
    <2>14. WantKept(rows, q) /\ Checked(rows, q)
      BY <2>10 DEF WantKept, Checked
    <2> QED
      BY <2>9, <2>10, <2>11, <2>12, <2>13, <2>14, SetAgreeing DEF Good
  <1> QED
    BY <1>2, <1>3

LEMMA EditAgreeing ==
    ASSUME IInv, Agreeing, NEW c \in Clients, Edit(c)
    PROVE  Agreeing'
  <1>1. PICK o, row, d : o = tx[c].object /\ row = rows[o] /\ d = CurrentDetail(row)
    OBVIOUS
  <1>2. CASE Refuse(c)
    BY <1>2, RefuseAgreeing
  <1>3. CASE ~Refuse(c)
    <2>1. LockTarget(c) /\ tx[c].op = "edit"
      BY DEF Edit
    <2>2. /\ row # Absent
          /\ Set(c, [Locked(c) EXCEPT !.work = Edited(row), !.pc = "keys", !.todo = References(Top(row).detail)])
      BY <1>1, <1>3 DEF Edit
    <2>3. /\ Consistent(rows) /\ o \in DOMAIN rows
          /\ Legal(KindOf[o], row) /\ Top(row).detail = d
          /\ d["key"] # None => d["key"] = Canonical[d["key"]]
          /\ tx[c].shared = {} /\ tx[c].advisory = << >> /\ DOMAIN tx[c] = TxFields /\ tx[c].actor \in Actors
      BY <1>1, <2>1, <2>2, AtTarget
    <2>4. PICK work, todo : work = Edited(row) /\ todo = References(d)
      OBVIOUS
    <2>5. /\ Legal(KindOf[o], work) /\ work # Absent /\ work.current = row.current + 1
          /\ CurrentDetail(work) = d
          /\ \A n \in DOMAIN work.versions : n # work.current =>
               n \in DOMAIN row.versions /\ work.versions[n].detail = row.versions[n].detail
      <3>1. Reopens(KindOf[o], row, work)
        BY <2>2, <2>3, <2>4, EditedRow
      <3> QED
        BY <1>1, <3>1 DEF Reopens
    <2>6. \A ref \in todo : ref.object \in DOMAIN rows
      <3>1. PICK n : n = row.current
        OBVIOUS
      <3>2. n \in DOMAIN rows[o].versions /\ d = rows[o].versions[n].detail
        BY <1>1, <2>2, <2>3, <3>1, Current
      <3>3. \A f \in RefFields : d[f] # None => d[f] \in DOMAIN rows
        BY <2>3, <3>2, Version
      <3> QED
        BY <2>4, <3>3 DEF References
    <2>8. PICK q : q = [Locked(c) EXCEPT !.work = work, !.pc = "keys", !.todo = todo]
      OBVIOUS
    <2>9. Set(c, q)
      BY <2>2, <2>3, <2>4, <2>8
    <2>10. /\ q.op = "edit" /\ q.object = o /\ q.shared = {} /\ q.advisory = << >> /\ q.todo = todo
           /\ q.actor \in Actors /\ q.work = work /\ q.pc = "keys" /\ Own(q) = d
      BY <1>1, <2>1, <2>3, <2>5, <2>8 DEF Locked, TxFields, Own
    <2>11. Typed(rows, q)
      BY <2>6, <2>10 DEF Typed, Ops
    <2>12. Follows(rows, q)
      BY <1>1, <2>3, <2>5, <2>10 DEF Follows
    <2>13. Backed(rows, q) /\ Bare(rows, q)
      BY <2>10 DEF Backed, Bare, Enters, Entering
    <2>14. WantKept(rows, q) /\ Checked(rows, q)
      BY <2>10 DEF WantKept, Checked
    <2> QED
      BY <2>9, <2>10, <2>11, <2>12, <2>13, <2>14, SetAgreeing DEF Good
  <1> QED
    BY <1>2, <1>3

LEMMA DeleteAgreeing ==
    ASSUME IInv, Agreeing, NEW c \in Clients, Delete(c)
    PROVE  Agreeing'
  <1>1. PICK o, row : o = tx[c].object /\ row = rows[o]
    OBVIOUS
  <1>2. CASE Refuse(c)
    BY <1>2, RefuseAgreeing
  <1>3. CASE ~Refuse(c)
    <2>1. LockTarget(c) /\ tx[c].op = "delete"
      BY DEF Delete
    <2>2. /\ row # Absent /\ CanDelete(row, tx[c].seen) /\ ~IsReferenced(o)
          /\ Set(c, [Locked(c) EXCEPT !.work = Absent, !.pc = "commit"])
      BY <1>1, <1>3 DEF Delete
    <2>3. /\ Legal(KindOf[o], row)
          /\ tx[c].shared = {} /\ tx[c].advisory = << >> /\ DOMAIN tx[c] = TxFields /\ tx[c].actor \in Actors
      BY <1>1, <2>1, <2>2, AtTarget
    <2>4. row.effective = 0 /\ row.current = 1
      BY <2>2, <2>3, LegalRow DEF CanDelete, IsCurrent
    <2>5. ~Referred(rows, o)
      BY <2>2 DEF IsReferenced, Referred, Objs
    <2>8. PICK q : q = [Locked(c) EXCEPT !.work = Absent, !.pc = "commit"]
      OBVIOUS
    <2>9. Set(c, q)
      BY <2>2, <2>8
    <2>10. /\ q.op = "delete" /\ q.object = o /\ q.shared = {} /\ q.advisory = << >>
           /\ q.actor \in Actors /\ q.work = Absent /\ q.pc = "commit"
      BY <1>1, <2>1, <2>3, <2>8 DEF Locked, TxFields
    <2>11. Typed(rows, q)
      BY <2>10 DEF Typed, Ops
    <2>12. Follows(rows, q) /\ Bare(rows, q)
      BY <1>1, <2>4, <2>5, <2>10 DEF Follows, Bare
    <2>13. Backed(rows, q)
      BY <2>10 DEF Backed, Enters, Entering
    <2>14. WantKept(rows, q) /\ Checked(rows, q)
      BY <2>10 DEF WantKept, Checked
    <2> QED
      BY <2>9, <2>10, <2>11, <2>12, <2>13, <2>14, SetAgreeing DEF Good
  <1> QED
    BY <1>2, <1>3

-----------------------------------------------------------------------------
(* References and constraints.                                             *)

\* A transaction that goes on with the work it has.
LEMMA SameWork ==
    ASSUME NEW state, NEW t, Good(state, t), t.pc \notin {"idle", "object"},
           NEW q, q.op = t.op, q.object = t.object, q.work = t.work
    PROVE  /\ Follows(state, q) /\ Bare(state, q) /\ Own(q) = Own(t)
           /\ Writes(q) => Writes(t)
           /\ Enters(q) => Enters(t)
  <1>1. Own(q) = Own(t)
    BY DEF Own
  <1>2. (Writes(q) => Writes(t)) /\ (Enters(q) => Enters(t))
    BY DEF Writes, Enters
  <1>3. Follows(state, q)
    BY <1>1, <1>2 DEF Good, Follows
  <1>4. Bare(state, q)
    BY <1>1, <1>2 DEF Good, Bare
  <1> QED
    BY <1>1, <1>2, <1>3, <1>4

LEMMA OwnIsOwn ==
    ASSUME NEW state, NEW t, Good(state, t), Writes(t), t.op # "delete"
    PROVE  OwnDetail(t) = Own(t)
  BY DEF Good, Follows, OwnDetail, Own, Top, CurrentDetail

LEMMA EndReferencesAgreeing ==
    ASSUME IInv, Agreeing, NEW c \in Clients, EndReferences(c)
    PROVE  Agreeing'
  <1>1. PICK t, pc : t = tx[c] /\ pc = IF tx[c].op \in {"create", "save"} THEN "check" ELSE "commit"
    OBVIOUS
  <1>2. PICK q : q = [t EXCEPT !.pc = pc]
    OBVIOUS
  <1>3. t.pc = "look" /\ t.todo = {} /\ Set(c, q) /\ DOMAIN t = TxFields /\ Good(rows, t)
    BY <1>1, <1>2 DEF EndReferences, IInv, Fits, Fit, Agreeing
  <1>4. /\ q.op = t.op /\ q.object = t.object /\ q.work = t.work /\ q.shared = t.shared
        /\ q.advisory = t.advisory /\ q.todo = {} /\ q.actor = t.actor /\ q.pc = pc
    BY <1>2, <1>3 DEF TxFields
  <1>5. /\ Follows(rows, q) /\ Bare(rows, q) /\ Own(q) = Own(t) /\ (Enters(q) => Enters(t))
    BY <1>3, <1>4, SameWork
  <1>6. t.advisory = << >> /\ t.op # "edit" /\ t.op \in Ops /\ t.actor \in Actors /\ t.shared \subseteq DOMAIN rows
    BY <1>3 DEF Good, Checked, Typed
  <1>7. Typed(rows, q)
    BY <1>1, <1>4, <1>6 DEF Typed
  <1>8. Backed(rows, q)
    <2> SUFFICES ASSUME Enters(q)
                 PROVE  Backed(rows, q)
      BY DEF Backed
    <2>1. \A ref \in References(Own(t)) : ref.object \in t.shared /\ Fitting(rows, t, ref)
      BY <1>3, <1>5 DEF Good, Backed
    <2>2. \A ref : Fitting(rows, t, ref) => Fitting(rows, q, ref)
      BY <1>4, <1>5 DEF Fitting
    <2>3. q.pc \in {"check", "commit"}
      BY <1>1, <1>4
    <2> QED
      BY <1>4, <1>5, <2>1, <2>2, <2>3 DEF Backed
  <1>9. WantKept(rows, q) /\ Checked(rows, q)
    BY <1>1, <1>4, <1>6 DEF WantKept, Checked
  <1> QED
    BY <1>3, <1>4, <1>5, <1>6, <1>7, <1>8, <1>9, SetAgreeing DEF Good

LEMMA TakeKeyAgreeing ==
    ASSUME IInv, Agreeing, NEW c \in Clients, TakeKey(c)
    PROVE  Agreeing'
  <1>1. PICK t : t = tx[c]
    OBVIOUS
  <1>2. t.pc = "keys" /\ DOMAIN t = TxFields /\ Good(rows, t)
    BY <1>1 DEF TakeKey, IInv, Fits, Fit, Agreeing
  <1>3. ~Enters(t)
    BY <1>2 DEF Good, Backed
  <1>4. /\ t.advisory = << >> /\ t.op \in Ops /\ t.actor \in Actors /\ t.shared \subseteq DOMAIN rows
        /\ \A ref \in t.todo : ref.object \in DOMAIN rows
    BY <1>2 DEF Good, Checked, Typed
  <1>5. ASSUME NEW q, Set(c, q), q.pc \in {"keys", "check"}, q.op = t.op, q.object = t.object, q.work = t.work,
               q.advisory = t.advisory, q.actor = t.actor, q.todo \subseteq t.todo,
               q.shared \subseteq t.shared \cup {ref.object : ref \in t.todo}
        PROVE  Agreeing'
    <2>1. Follows(rows, q) /\ Bare(rows, q) /\ ~Enters(q)
      BY <1>2, <1>3, <1>5, SameWork
    <2>2. Typed(rows, q)
      BY <1>4, <1>5 DEF Typed
    <2>3. Backed(rows, q) /\ WantKept(rows, q) /\ Checked(rows, q)
      BY <1>4, <1>5, <2>1 DEF Backed, WantKept, Checked
    <2> QED
      BY <1>4, <1>5, <2>1, <2>2, <2>3, SetAgreeing DEF Good
  <1>6. CASE Set(c, [t EXCEPT !.pc = "check"])
    <2>1. PICK q : q = [t EXCEPT !.pc = "check"]
      OBVIOUS
    <2>2. /\ q.op = t.op /\ q.object = t.object /\ q.work = t.work /\ q.shared = t.shared
          /\ q.advisory = t.advisory /\ q.todo = t.todo /\ q.actor = t.actor /\ q.pc = "check"
      BY <1>2, <2>1 DEF TxFields
    <2> QED
      BY <1>5, <1>6, <2>1, <2>2
  <1>7. ASSUME NEW ref \in t.todo, Set(c, [t EXCEPT !.todo = @ \ {ref}, !.shared = @ \cup {ref.object}])
        PROVE  Agreeing'
    <2>1. PICK q : q = [t EXCEPT !.todo = @ \ {ref}, !.shared = @ \cup {ref.object}]
      OBVIOUS
    <2>2. /\ q.op = t.op /\ q.object = t.object /\ q.work = t.work /\ q.shared = t.shared \cup {ref.object}
          /\ q.advisory = t.advisory /\ q.todo = t.todo \ {ref} /\ q.actor = t.actor /\ q.pc = "keys"
      BY <1>2, <2>1 DEF TxFields
    <2> QED
      BY <1>5, <1>7, <2>1, <2>2
  <1> QED
    BY <1>1, <1>6, <1>7 DEF TakeKey

LEMMA CheckAgreeing ==
    ASSUME IInv, Agreeing, NEW c \in Clients, Check(c)
    PROVE  Agreeing'
  <1>1. PICK t, o, d : t = tx[c] /\ o = t.object /\ d = OwnDetail(t)
    OBVIOUS
  <1>2. PICK a : a = AdvisoryOf(KindOf[o], d)
    OBVIOUS
  <1>3. CASE Refuse(c)
    BY <1>3, RefuseAgreeing
  <1>4. CASE ~Refuse(c)
    <2>1. PICK q : q = [t EXCEPT !.pc = "commit", !.advisory = a]
      OBVIOUS
    <2>2. t.pc = "check" /\ DOMAIN t = TxFields /\ Good(rows, t) /\ Consistent(rows)
      BY <1>1 DEF Check, IInv, Fits, Fit, Agreeing
    <2>3. /\ AdvisoryFree(c, a) /\ Set(c, q)
          /\ TreeHolds(o, d) /\ KeyHolds(o, d) /\ TypeHolds(o, d)
      BY <1>1, <1>2, <1>4, <2>1 DEF Check
    <2>4. /\ q.op = t.op /\ q.object = t.object /\ q.work = t.work /\ q.shared = t.shared
          /\ q.advisory = a /\ q.todo = t.todo /\ q.actor = t.actor /\ q.pc = "commit"
      BY <2>1, <2>2 DEF TxFields
    <2>5. /\ Follows(rows, q) /\ Bare(rows, q) /\ Own(q) = Own(t) /\ (Enters(q) => Enters(t))
      BY <2>2, <2>4, SameWork
    <2>6. Typed(rows, q)
      BY <2>2, <2>4 DEF Good, Typed
    <2>7. Backed(rows, q)
      <3> SUFFICES ASSUME Enters(q)
                   PROVE  Backed(rows, q)
        BY DEF Backed
      <3>1. t.todo = {} /\ \A ref \in References(Own(t)) : ref.object \in t.shared /\ Fitting(rows, t, ref)
        BY <2>2, <2>5 DEF Good, Backed
      <3>2. \A ref : Fitting(rows, t, ref) => Fitting(rows, q, ref)
        BY <2>4, <2>5 DEF Fitting
      <3> QED
        BY <2>4, <2>5, <3>1, <3>2 DEF Backed
    <2>8. ASSUME t.op \in {"create", "save", "edit"}
          PROVE  Checked(rows, q)
      <3>1. Writes(t)
        BY <2>2, <2>8 DEF Writes, Consumers
      <3>2. d = Own(t) /\ d = Own(q)
        BY <1>1, <2>2, <2>5, <2>8, <3>1, OwnIsOwn
      <3>3. KeyFree(rows, o, d) /\ TypeFree(rows, o, d)
        BY <2>3 DEF KeyHolds, TypeHolds, KeyFree, TypeFree, Objs
      <3>4. d["parent"] # None => d["parent"] \in DOMAIN rows
        <4>1. CASE t.op \in Entering
          <5>1. Enters(t)
            BY <2>2, <3>1, <4>1 DEF Enters
          <5>2. t.todo = {} /\ \A ref \in References(d) : Fitting(rows, t, ref)
            BY <2>2, <3>2, <5>1 DEF Good, Backed
          <5>3. d["parent"] # None => [field |-> "parent", object |-> d["parent"]] \in References(d)
            BY DEF References, RefFields
          <5> QED
            BY <5>2, <5>3 DEF Fitting
        <4>2. CASE t.op = "edit"
          <5>1. o \in DOMAIN rows /\ rows[o] # Absent
            BY <1>1, <2>2, <4>2 DEF IInv, Fits, Fit, Presence, World, Placed, Objs, Consumers
          <5>2. d = CurrentDetail(rows[o])
            BY <1>1, <2>2, <3>1, <3>2, <4>2 DEF Good, Follows, Restating
          <5>3. ParentOf(rows, o) = d["parent"]
            BY <5>1, <5>2 DEF ParentOf
          <5> QED
            BY <2>2, <5>1, <5>3, SoundParents DEF Parented
        <4> QED
          BY <2>8, <4>1, <4>2 DEF Entering
      <3>5. Above(rows, o, d)
        BY <2>3, <3>4 DEF TreeHolds, Above
      <3> QED
        BY <1>1, <1>2, <2>4, <3>2, <3>3, <3>5 DEF Checked
    <2>9. WantKept(rows, q)
      BY <2>4 DEF WantKept
    <2>10. Checked(rows, q)
      <3>1. CASE t.op \in {"create", "save", "edit"}
        BY <2>8, <3>1
      <3>2. CASE t.op \notin {"create", "save", "edit"}
        BY <2>4, <3>2 DEF Checked
      <3> QED
        BY <3>1, <3>2
    <2>11. q.advisory = << >> \/ \A e \in Clients \ {c} : tx[e].advisory # q.advisory
      BY <2>3, <2>4 DEF AdvisoryFree, Others
    <2> QED
      BY <2>3, <2>5, <2>6, <2>7, <2>9, <2>10, <2>11, SetAgreeing DEF Good
  <1> QED
    BY <1>3, <1>4

\* What a statement finds is effective, unless the view decides.
LEMMA LookAgreeing ==
    ASSUME IInv, Agreeing, NEW c \in Clients, Look(c)
    PROVE  Agreeing'
  <1>1. PICK t : t = tx[c]
    OBVIOUS
  <1>2. PICK ref \in First(t.todo) :
          IF Found(t, ref)
          THEN Set(c, [t EXCEPT !.pc = "take", !.todo = @ \ {ref},
                         !.want = [field |-> ref.field, object |-> ref.object,
                                   version |-> rows[ref.object].effective]])
          ELSE Refuse(c)
    BY <1>1 DEF Look
  <1>3. t.pc = "look" /\ DOMAIN t = TxFields /\ Good(rows, t) /\ Consistent(rows)
    BY <1>1 DEF Look, IInv, Fits, Fit, Agreeing
  <1>4. CASE ~Found(t, ref)
    BY <1>2, <1>4, RefuseAgreeing
  <1>5. CASE Found(t, ref)
    <2>1. PICK want : want = [field |-> ref.field, object |-> ref.object, version |-> rows[ref.object].effective]
      OBVIOUS
    <2>2. PICK q : q = [t EXCEPT !.pc = "take", !.todo = @ \ {ref}, !.want = want]
      OBVIOUS
    <2>3. Set(c, q) /\ ref \in t.todo
      BY <1>2, <1>5, <2>1, <2>2 DEF First
    <2>4. /\ q.op = t.op /\ q.object = t.object /\ q.work = t.work /\ q.shared = t.shared
          /\ q.advisory = t.advisory /\ q.todo = t.todo \ {ref} /\ q.actor = t.actor /\ q.pc = "take"
          /\ q.want = want
      BY <1>3, <2>2 DEF TxFields
    <2>5. /\ Follows(rows, q) /\ Bare(rows, q) /\ Own(q) = Own(t) /\ (Enters(q) => Enters(t))
      BY <1>3, <2>4, SameWork
    <2>6. t.advisory = << >>
      BY <1>3 DEF Good, Checked
    <2>7. Typed(rows, q) /\ Checked(rows, q)
      BY <1>3, <2>4, <2>6 DEF Good, Typed, Checked
    <2>8. want.field = ref.field /\ want.object = ref.object /\ want.version = rows[ref.object].effective
      BY <2>1
    <2>9. Enters(t) => /\ ref \in References(Own(t)) /\ ref = [field |-> ref.field, object |-> ref.object]
                       /\ ref.field \in RefFields /\ t.todo \subseteq References(Own(t))
      BY <1>3, <2>3 DEF Good, Backed, References
    <2>10. Backed(rows, q)
      <3> SUFFICES ASSUME Enters(q)
                   PROVE  Backed(rows, q)
        BY DEF Backed
      <3>1. \A r \in References(Own(t)) \ t.todo : r.object \in t.shared /\ Fitting(rows, t, r)
        BY <1>3, <2>5 DEF Good, Backed
      <3>2. \A r : Fitting(rows, t, r) => Fitting(rows, q, r)
        BY <2>4, <2>5 DEF Fitting
      <3>3. [field |-> q.want.field, object |-> q.want.object] \in References(Own(q))
        BY <2>4, <2>5, <2>8, <2>9
      <3>4. \A r \in References(Own(q)) \ q.todo :
              \/ r.field = q.want.field /\ r.object = q.want.object
              \/ r.object \in q.shared /\ Fitting(rows, q, r)
        BY <2>4, <2>5, <2>8, <3>1, <3>2
      <3>5. q.todo \subseteq References(Own(q))
        BY <2>4, <2>5, <2>9
      <3> QED
        BY <2>4, <3>3, <3>4, <3>5 DEF Backed
    <2>11. WantKept(rows, q)
      <3> SUFFICES ASSUME ref.field # "resolve"
                   PROVE  WantKept(rows, q)
        BY <2>4, <2>8 DEF WantKept
      <3>1. PICK x : x = ref.object
        OBVIOUS
      <3>2. x \in DOMAIN rows
        BY <1>5, <3>1 DEF Found, Objs
      <3>3. Effective(rows[x])
        BY <1>5, <3>1 DEF Found, Suits
      <3>4. rows[x].current \in Nat /\ rows[x].effective \in Nat
        BY <1>3, <3>2, LegalRow DEF Consistent, Sound
      <3>5. /\ want.version \in Nat \ {0} /\ rows[x].current = want.version
            /\ rows[x].effective = want.version
        BY <2>8, <3>1, <3>3, <3>4 DEF Effective
      <3>6. Enters(q) => Fitting(rows, q, want)
        <4> SUFFICES ASSUME Enters(q)
                     PROVE  Fitting(rows, q, want)
          OBVIOUS
        <4>1. ref.field \in RefFields /\ Writes(t)
          BY <2>5, <2>9 DEF Enters
        <4>2. /\ x \in DOMAIN rows /\ (x = t.object => t.op \in Consumers)
              /\ Suits(ref, KindOf[t.object], OwnDetail(t), rows[x], KindOf[x])
          BY <1>5, <3>1, <4>1 DEF Found, RefFields, Objs, Consumers
        <4>3. OwnDetail(t) = Own(t) /\ t.op \notin Consumers
          <5>1. t.op \in Entering
            BY <2>5 DEF Enters
          <5> QED
            BY <1>3, <4>1, <5>1, OwnIsOwn DEF Entering, Consumers
        <4>4. Suits(want, KindOf[t.object], Own(t), rows[x], KindOf[x])
          BY <2>8, <4>2, <4>3 DEF Suits
        <4> QED
          BY <2>4, <2>5, <2>8, <3>1, <4>2, <4>3, <4>4 DEF Fitting
      <3>7. rows[x].current >= want.version
        BY <3>4, <3>5
      <3> QED
        BY <2>4, <2>8, <3>1, <3>2, <3>5, <3>6, <3>7 DEF WantKept
    <2> QED
      BY <2>3, <2>4, <2>5, <2>6, <2>7, <2>10, <2>11, SetAgreeing DEF Good
  <1> QED
    BY <1>4, <1>5

LEMMA TakeAgreeing ==
    ASSUME IInv, Agreeing, NEW c \in Clients, Take(c)
    PROVE  Agreeing'
  <1>1. PICK t, want, x : t = tx[c] /\ want = t.want /\ x = want.object
    OBVIOUS
  <1>2. t.pc = "take" /\ DOMAIN t = TxFields /\ Good(rows, t) /\ Consistent(rows) /\ x \in DOMAIN rows
    BY <1>1 DEF Take, IInv, Fits, Fit, Agreeing, World, Placed, Objs
  <1>3. CASE ~StillSuits(want, rows[x])
    BY <1>1, <1>3, RefuseAgreeing DEF Take
  <1>4. CASE StillSuits(want, rows[x])
    <2>1. PICK todo, shared, held : /\ todo = t.todo \cup Brings(want) /\ shared = t.shared \cup {x}
                                    /\ held = t.held \cup {want}
      OBVIOUS
    <2>2. PICK q : q = [t EXCEPT !.pc = "look", !.want = None, !.shared = shared, !.todo = todo, !.held = held]
      OBVIOUS
    <2>3. Set(c, q)
      BY <1>1, <1>4, <2>1, <2>2 DEF Take
    <2>4. /\ q.op = t.op /\ q.object = t.object /\ q.work = t.work /\ q.shared = shared
          /\ q.advisory = t.advisory /\ q.todo = todo /\ q.actor = t.actor /\ q.pc = "look"
      BY <1>2, <2>2 DEF TxFields
    <2>5. /\ Follows(rows, q) /\ Bare(rows, q) /\ Own(q) = Own(t) /\ (Enters(q) => Enters(t))
      BY <1>2, <2>4, SameWork
    <2>6. t.advisory = << >> /\ t.op # "edit" /\ t.op \in Ops /\ t.actor \in Actors /\ t.shared \subseteq DOMAIN rows
      BY <1>2 DEF Good, Checked, Typed
    <2>7. Typed(rows, q)
      BY <1>2, <2>1, <2>4, <2>6 DEF Typed
    <2>8. WantKept(rows, q) /\ Checked(rows, q)
      BY <2>4, <2>6 DEF WantKept, Checked
    <2>9. Backed(rows, q)
      <3> SUFFICES ASSUME Enters(q)
                   PROVE  Backed(rows, q)
        BY DEF Backed
      <3>1. /\ [field |-> want.field, object |-> x] \in References(Own(t))
            /\ t.todo \subseteq References(Own(t))
            /\ \A r \in References(Own(t)) \ t.todo :
                 \/ r.field = want.field /\ r.object = x
                 \/ r.object \in t.shared /\ Fitting(rows, t, r)
        BY <1>1, <1>2, <2>5 DEF Good, Backed
      <3>2. want.field \in RefFields
        BY <3>1 DEF References
      <3>3. want.field \notin {"resolve", "current"}
        BY <3>2 DEF RefFields
      <3>4. todo = t.todo
        BY <2>1, <3>3 DEF Brings
      <3>5. rows[x].current = want.version
        BY <1>4, <3>3 DEF StillSuits, Effective
      <3>6. Fitting(rows, t, want)
        BY <1>1, <1>2, <2>5, <3>3, <3>5 DEF Good, WantKept
      <3>7. \A r : r.field = want.field /\ r.object = x => Fitting(rows, t, r)
        BY <1>1, <3>6 DEF Fitting, Suits
      <3>8. \A r : Fitting(rows, t, r) => Fitting(rows, q, r)
        BY <2>4, <2>5 DEF Fitting
      <3>9. \A r \in References(Own(q)) \ q.todo : r.object \in q.shared /\ Fitting(rows, q, r)
        BY <2>1, <2>4, <2>5, <3>1, <3>4, <3>7, <3>8
      <3> QED
        BY <2>4, <2>5, <3>1, <3>4, <3>9 DEF Backed
    <2> QED
      BY <2>3, <2>4, <2>5, <2>6, <2>7, <2>8, <2>9, SetAgreeing DEF Good
  <1> QED
    BY <1>3, <1>4

-----------------------------------------------------------------------------
(* Beginning and committing, once more.                                    *)

LEMMA BeginAgreeing ==
    ASSUME IInv, Agreeing, NEW c \in Clients, Begin(c)
    PROVE  Agreeing'
  <1>1. PICK ask \in story.asks, actor \in Actors :
        LET o == ask.object
            t == [Idle EXCEPT !.op = ask.op, !.object = o, !.actor = actor, !.input = ask.input]
        IN  IF ask.op = "create"
            THEN /\ rows[o] = Absent
                 /\ \A e \in Others(c) : ~(tx[e].op = "create" /\ tx[e].object = o)
                 /\ Allowed(KindOf[o], ask.input)
                 /\ LockReferences(c, [t EXCEPT !.work =
                        Created(Normalized(Merged(Defaults(KindOf[o]), ask.input)))])
            ELSE /\ rows[o] # Absent
                 /\ ask.op = "save" => Allowed(KindOf[o], ask.input)
                 /\ ask.op \in {"resolve", "current"} => Effective(rows[o])
                 /\ Set(c, [t EXCEPT !.seen = Shown(rows[o]),
                        !.todo = IF ask.op \in {"resolve", "current"}
                                 THEN {[field |-> ask.op, object |-> o]} ELSE {},
                        !.pc = IF ask.op \in {"resolve", "current"} THEN "look" ELSE "object"])
    BY DEF Begin
  <1>2. PICK t : t = [Idle EXCEPT !.op = ask.op, !.object = ask.object, !.actor = actor, !.input = ask.input]
    OBVIOUS
  <1>3. ask.op \in Ops /\ ask.object \in DOMAIN rows /\ Merged(Blank, ask.input) \in Details /\ Consistent(rows)
    BY StoriesAssumption DEF IInv, World, Objs, Agreeing
  <1>4. /\ DOMAIN t = TxFields /\ t.op = ask.op /\ t.object = ask.object /\ t.actor = actor /\ t.input = ask.input
        /\ t.shared = {} /\ t.advisory = << >>
    BY <1>2 DEF Idle, TxFields
  <1>5. CASE ask.op = "create"
    <2>1. PICK kind, row, d : /\ kind = KindOf[ask.object] /\ row = rows[ask.object]
                              /\ d = Normalized(Merged(Defaults(kind), ask.input))
      OBVIOUS
    <2>2. PICK work : work = Created(d)
      OBVIOUS
    <2>3. PICK q : q = [t EXCEPT !.work = work]
      OBVIOUS
    <2>4. row = Absent /\ LockReferences(c, q)
      BY <1>1, <1>2, <1>5, <2>1, <2>2, <2>3
    <2>5. /\ DOMAIN q = TxFields /\ q.op = "create" /\ q.object = ask.object /\ q.actor \in Actors
          /\ q.shared = {} /\ q.advisory = << >> /\ q.work = work
      BY <1>4, <1>5, <2>3 DEF TxFields
    <2>6. d \in Details /\ (d["key"] # None => d["key"] = Canonical[d["key"]])
      BY <1>3, <2>1, DefaultsAreDetails, MergedDetail
    <2>7. Own(q) = d
      BY <2>2, <2>5 DEF Own, CurrentDetail, Created, NewVersion
    <2>8. Complete(kind, d) => Leaves(rows, q)
      <3> SUFFICES ASSUME Complete(kind, d)
                   PROVE  Leaves(rows, q)
        OBVIOUS
      <3>1. Legal(kind, work) /\ work # Absent /\ work.current = 1 /\ DOMAIN work.versions = {1}
        BY <2>2, <2>6, NewRow
      <3>2. work.current = row.current + 1
        BY <2>4, <3>1, Nothingness
      <3> QED
        BY <2>1, <2>5, <2>6, <2>7, <3>1, <3>2 DEF Leaves, Restating
    <2>9. rows[q.object].effective = 0 /\ q.op \in {"create", "save", "submit", "approve"} /\ q.op # "save"
      BY <2>1, <2>4, <2>5, Nothingness
    <2>10. Complete(KindOf[q.object], Own(q)) => Leaves(rows, q)
      BY <2>1, <2>5, <2>7, <2>8
    <2> QED
      BY <2>4, <2>5, <2>9, <2>10, LockReferencesAgreeing
  <1>6. CASE ask.op # "create"
    <2>1. PICK seen, todo, pc :
            /\ seen = Shown(rows[ask.object])
            /\ todo = IF ask.op \in {"resolve", "current"}
                      THEN {[field |-> ask.op, object |-> ask.object]} ELSE {}
            /\ pc = IF ask.op \in {"resolve", "current"} THEN "look" ELSE "object"
      OBVIOUS
    <2>2. PICK q : q = [t EXCEPT !.seen = seen, !.todo = todo, !.pc = pc]
      OBVIOUS
    <2>3. Set(c, q)
      BY <1>1, <1>2, <1>6, <2>1, <2>2
    <2>4. /\ q.op = ask.op /\ q.object = ask.object /\ q.actor \in Actors /\ q.input = ask.input
          /\ q.shared = {} /\ q.advisory = << >> /\ q.pc = pc
      BY <1>4, <2>2 DEF TxFields
    <2>5. pc = "object" \/ (pc = "look" /\ q.op \in Consumers)
      BY <2>1, <2>4 DEF Consumers
    <2>6. ~Writes(q) /\ ~Enters(q)
      BY <2>4, <2>5 DEF Writes, Enters
    <2>7. Typed(rows, q)
      BY <1>3, <2>4, <2>5 DEF Typed, Consumers
    <2>8. Follows(rows, q) /\ Backed(rows, q) /\ Bare(rows, q)
      BY <2>6 DEF Follows, Backed, Bare
    <2>9. WantKept(rows, q) /\ Checked(rows, q)
      BY <2>4, <2>5 DEF WantKept, Checked
    <2> QED
      BY <2>3, <2>4, <2>7, <2>8, <2>9, SetAgreeing DEF Good
  <1> QED
    BY <1>5, <1>6

\* Two transactions that write have different objects, and neither shares the
\* other's, unless that is not there yet.
LEMMA WritersApart ==
    ASSUME IInv, Agreeing, NEW c \in Clients, tx[c].pc = "commit", tx[c].op \notin Consumers,
           NEW d \in Clients \ {c}, NEW t, t = tx[c], NEW u, u = tx[d]
    PROVE  Beside(rows, t, u)
  <1>1. \A e \in Clients : Writes(tx[e]) =>
          /\ tx[e].op \in Entering \cup Restating \cup {"delete"} /\ tx[e].object \in DOMAIN rows
          /\ tx[e].locked \/ Creating(e)
          /\ tx[e].locked => tx[e].op # "create"
    <2> SUFFICES ASSUME NEW e \in Clients, Writes(tx[e])
                 PROVE  /\ tx[e].op \in Entering \cup Restating \cup {"delete"} /\ tx[e].object \in DOMAIN rows
                        /\ tx[e].locked \/ Creating(e)
                        /\ tx[e].locked => tx[e].op # "create"
      OBVIOUS
    <2>1. tx[e].pc \notin {"idle", "object"} /\ tx[e].op \notin Consumers
      BY DEF Writes
    <2>2. tx[e].op \in Ops
      BY <2>1 DEF Agreeing, Good, Typed
    <2>3. tx[e].object \in DOMAIN rows
      BY <2>1 DEF IInv, World, Placed, Objs
    <2>4. (tx[e].locked \/ Creating(e)) /\ (tx[e].locked => tx[e].op # "create")
      BY <2>1 DEF IInv, Fits, Fit, Creating
    <2> QED
      BY <2>1, <2>2, <2>3, <2>4, Enumerated
  <1>2. \A e \in Clients : Writes(tx[e]) => (tx[e].op = "create" <=> rows[tx[e].object] = Absent)
    <2> SUFFICES ASSUME NEW e \in Clients, Writes(tx[e])
                 PROVE  tx[e].op = "create" <=> rows[tx[e].object] = Absent
      OBVIOUS
    <2>1. tx[e].locked \/ Creating(e)
      BY <1>1
    <2>2. tx[e].locked => tx[e].op # "create" /\ rows[tx[e].object] # Absent
      BY <1>1 DEF IInv, Presence
    <2>3. Creating(e) => tx[e].op = "create" /\ rows[tx[e].object] = Absent
      BY DEF IInv, Presence, Creating
    <2> QED
      BY <2>1, <2>2, <2>3
  <1>3. Writes(t)
    BY DEF Writes
  <1>4. Consistent(rows) /\ Good(rows, u)
    BY DEF Agreeing
  <1>5. t.object \in u.shared => rows[t.object] = Absent
    BY <1>1, <1>3 DEF IInv, Exclusive, Presence
  <1>6. Writes(u) => (u.object \in t.shared => rows[u.object] = Absent)
    BY <1>1 DEF IInv, Exclusive, Presence
  <1>7. Writes(u) => u.object # t.object
    <2> SUFFICES ASSUME Writes(u), u.object = t.object
                 PROVE  FALSE
      OBVIOUS
    <2>1. (tx[c].locked \/ Creating(c)) /\ (tx[d].locked \/ Creating(d))
      BY <1>1, <1>3
    <2>2. ~(tx[c].locked /\ tx[d].locked)
      BY DEF IInv, Exclusive
    <2>3. ~(Creating(c) /\ Creating(d))
      BY DEF IInv, Presence
    <2>4. ~(tx[c].locked /\ Creating(d)) /\ ~(Creating(c) /\ tx[d].locked)
      BY DEF IInv, Presence
    <2> QED
      BY <2>1, <2>2, <2>3, <2>4
  <1>8. t.advisory # << >> => t.advisory # u.advisory
    BY DEF Agreeing, Alone
  <1> QED
    BY <1>1, <1>2, <1>4, <1>5, <1>6, <1>7, <1>8 DEF Beside

LEMMA CommitAgreeing ==
    ASSUME IInv, Agreeing, NEW c \in Clients, Commit(c)
    PROVE  Agreeing'
  <1>1. PICK t : t = tx[c]
    OBVIOUS
  <1>2. /\ t.pc = "commit" /\ tx'[c] = Idle
        /\ \A d \in Clients \ {c} : tx'[d] = tx[d]
    BY <1>1 DEF Commit, IInv, Fits
  <1>3. Alone'
    <2>1. Idle.advisory = << >>
      BY DEF Idle
    <2> QED
      BY <1>2, <2>1 DEF Agreeing, Alone
  <1>4. CASE t.op \in Consumers
    <2>1. rows' = rows
      BY <1>1, <1>4 DEF Commit, Consumers
    <2>2. Consistent(rows') /\ \A d \in Clients : Good(rows', tx'[d])
      BY <1>2, <2>1, IdleGood DEF Agreeing
    <2> QED
      BY <1>3, <2>2 DEF Agreeing
  <1>5. CASE t.op \notin Consumers
    <2>1. PICK next : next = [rows EXCEPT ![t.object] = t.work]
      OBVIOUS
    <2>2. rows' = next
      BY <1>1, <1>5, <2>1 DEF Commit, Consumers
    <2>3. Committing(rows, t)
      <3>1. Writes(t)
        BY <1>2, <1>5 DEF Writes
      <3>2. /\ t.op \in Ops /\ t.object \in DOMAIN rows /\ Consistent(rows) /\ Good(rows, t)
            /\ (t.locked \/ Creating(c)) /\ (t.locked => t.op # "create")
        BY <1>1, <1>2, <1>5 DEF Agreeing, Good, Typed, IInv, World, Placed, Objs, Fits, Fit, Creating
      <3>3. t.locked => rows[t.object] # Absent
        BY <1>1 DEF IInv, Presence
      <3>4. Creating(c) => t.op = "create" /\ rows[t.object] = Absent
        BY <1>1 DEF IInv, Presence, Creating
      <3> QED
        BY <1>2, <1>5, <3>2, <3>3, <3>4, Enumerated DEF Committing
    <2>4. Consistent(next)
      BY <2>1, <2>3, SoundAfter
    <2>5. \A d \in Clients \ {c} : Good(next, tx[d])
      <3> SUFFICES ASSUME NEW d \in Clients \ {c}
                   PROVE  Good(next, tx[d])
        OBVIOUS
      <3>1. PICK u : u = tx[d]
        OBVIOUS
      <3>2. Beside(rows, t, u)
        BY <1>1, <1>2, <1>5, <3>1, WritersApart
      <3> QED
        BY <2>1, <2>3, <3>1, <3>2, CommitKeeps
    <2>6. \A d \in Clients : Good(rows', tx'[d])
      BY <1>2, <2>2, <2>5, IdleGood
    <2> QED
      BY <1>3, <2>2, <2>4, <2>6 DEF Agreeing
  <1> QED
    BY <1>4, <1>5

LEMMA StepAgreeing == IInv /\ Agreeing /\ [Next]_bobVars => Agreeing'
  <1> SUFFICES ASSUME IInv, Agreeing, [Next]_bobVars
               PROVE  Agreeing'
    OBVIOUS
  <1>1. CASE UNCHANGED bobVars
    BY <1>1 DEF bobVars, Agreeing, Alone
  <1>2. ASSUME NEW c \in Clients,
               \/ Begin(c) \/ Save(c) \/ Submit(c) \/ Approve(c) \/ Reject(c) \/ Edit(c) \/ Delete(c)
               \/ Look(c) \/ Take(c) \/ EndReferences(c) \/ TakeKey(c) \/ Check(c) \/ Commit(c) \/ Fail(c)
        PROVE  Agreeing'
    <2>1. CASE Begin(c)
      BY <2>1, BeginAgreeing
    <2>2. CASE Save(c)
      BY <2>2, SaveAgreeing
    <2>3. CASE Submit(c)
      BY <2>3, SubmitAgreeing
    <2>4. CASE Approve(c)
      BY <2>4, ApproveAgreeing
    <2>5. CASE Reject(c)
      BY <2>5, RejectAgreeing
    <2>6. CASE Edit(c)
      BY <2>6, EditAgreeing
    <2>7. CASE Delete(c)
      BY <2>7, DeleteAgreeing
    <2>8. CASE Look(c)
      BY <2>8, LookAgreeing
    <2>9. CASE Take(c)
      BY <2>9, TakeAgreeing
    <2>10. CASE EndReferences(c)
      BY <2>10, EndReferencesAgreeing
    <2>11. CASE TakeKey(c)
      BY <2>11, TakeKeyAgreeing
    <2>12. CASE Check(c)
      BY <2>12, CheckAgreeing
    <2>13. CASE Commit(c)
      BY <2>13, CommitAgreeing
    <2>14. CASE Fail(c)
      BY <2>14, RefuseAgreeing DEF Fail
    <2> QED
      BY <1>2, <2>1, <2>2, <2>3, <2>4, <2>5, <2>6, <2>7, <2>8, <2>9, <2>10, <2>11, <2>12, <2>13, <2>14
  <1> QED
    BY <1>1, <1>2 DEF Next

LEMMA Agreement == Spec => []JInv
  <1>1. Init => JInv
    BY InitInvariant, InitAgreeing DEF JInv
  <1>2. JInv /\ [Next]_bobVars => JInv'
    BY StepInvariant, StepAgreeing DEF JInv
  <1> QED
    BY <1>1, <1>2, PTL DEF Spec

\* Rows are rows of the tables, their pointers and the statuses of their
\* versions agree and every version is complete, whatever the order of the
\* requests and however they interleave (service.go).
THEOREM TypesKept == Spec => []TypeOK
  <1>1. JInv => TypeOK
    <2> SUFFICES ASSUME JInv
                 PROVE  TypeOK
      OBVIOUS
    <2>1. Consistent(rows)
      BY DEF JInv, Agreeing
    <2>2. \A c \in Clients : tx[c].op \in Ops \cup {"none"} /\ tx[c].shared \subseteq Objs
      BY DEF JInv, Agreeing, Good, Typed, Objs
    <2> QED
      BY <2>1, <2>2 DEF TypeOK, Consistent, Sound, Objs
  <1> QED
    BY <1>1, Agreement, PTL

\* However many requests move branches of the category and department trees at
\* the same time, no object ends up above itself
\* (bob_validate_category_tree, bob_validate_department_tree).
THEOREM TreesStayAcyclic == Spec => []TreesHaveNoCycle
  <1>1. JInv => TreesHaveNoCycle
    BY DEF JInv, Agreeing, Consistent, Sound, TreesHaveNoCycle
  <1> QED
    BY <1>1, Agreement, PTL

\* However many requests give an identifier at the same time, no two current
\* versions of a kind have the same (bob_validate_current_detail_unique,
\* bob_validate_current_vehicle_plate).
THEOREM KeysStayUnique == Spec => []CurrentKeysUnique
  <1>1. JInv => CurrentKeysUnique
    BY DEF JInv, Agreeing, Consistent, Sound, CurrentKeysUnique
  <1> QED
    BY <1>1, Agreement, PTL

\* What is chosen is not deleted and keeps the role it was chosen for, whoever
\* chooses it while another request changes it (LockEffectiveBobReference and
\* its kin, bob_prevent_platform_type_downgrade, the checks of Save and Delete).
THEOREM RolesStayKept == Spec => []RolesKept
  <1>1. JInv => RolesKept
    BY DEF JInv, Agreeing, Consistent, Sound, RolesKept
  <1> QED
    BY <1>1, Agreement, PTL

=============================================================================
