------------------------------ MODULE AppAccess ------------------------------
(***************************************************************************)
(* Sign-ins, sessions and changes of users and roles as concurrent         *)
(* requests (internal/domains/app: auth_service.go, user_service.go,       *)
(* role_service.go).                                                       *)
(*                                                                         *)
(* A request of a session is authorized in statements of its own, then     *)
(* does its work in one transaction.  Changes of who may do what take one  *)
(* advisory lock first; sign-ins and password changes do not.  Password    *)
(* changes lock the user row FOR UPDATE, which waits for the key lock of a *)
(* session being inserted; changes of status and roles do not wait for it. *)
(***************************************************************************)
EXTENDS AppAuthorization

CONSTANTS
    Requests,     \* requests under way at the same time
    Sessions,     \* identifiers of sessions (model checking)
    None,
    Stories,      \* initial tables and the requests made (model checking)
    MaxRevision,  \* bound on the revision of a user or role (model checking)
    MaxAttempts   \* bound on the sign-ins of a behavior (model checking)

VARIABLES users, roles, sessions,
          req,      \* the request each process serves
          attempts, \* sign-ins so far
          story     \* which requests this behavior makes

tables == <<users, roles, sessions>>
accessVars == <<users, roles, sessions, req, attempts, story>>

NoSession == [user |-> None, hash |-> 0, overtaken |-> FALSE, revoked |-> FALSE, idle |-> FALSE, over |-> FALSE]

\* pc: "permit" has read its session, "admitted" may do its work, "lock" wants
\* the authorization lock or the user row, "change" has checked and written,
\* "open" has inserted a session.  overtaken: the user was given another password
\* before the sign-in, which had verified the old one, inserted its session, or
\* was disabled before the sign-in committed.
Idle == [pc |-> "idle", op |-> "none", session |-> None, actor |-> None, target |-> None, given |-> {},
         revision |-> 0, hash |-> 0, revoking |-> {}, overtaken |-> FALSE]

PathOf(op) ==
    CASE op = "signout" -> Signout          [] op = "password" -> "/app/user/change-password"
      [] op = "profile" -> "/app/user/profile"
      [] op = "create user" -> "/app/user/create" [] op = "save user" -> "/app/user/save"
      [] op = "enable user" -> "/app/user/enable" [] op = "disable user" -> "/app/user/disable"
      [] op = "create role" -> "/app/role/create" [] op = "save role" -> RoleSave
      [] op = "enable role" -> "/app/role/enable" [] op = "disable role" -> "/app/role/disable"

UserOps == {"create user", "save user", "enable user", "disable user"}
RoleOps == {"create role", "save role", "enable role", "disable role"}
SessionOps == {"signout", "password", "profile", "restore"}

Status == {"ABSENT", "ENABLED", "DISABLED"}

UserRows == [status : Status, hash : Nat, failed : Nat, locked : BOOLEAN, roles : SUBSET Roles,
             revision : 0..MaxRevision]

RoleRows == [status : Status, permissions : SUBSET Paths, revision : 0..MaxRevision]

SessionRows == [user : Users \cup {None}, hash : Nat, overtaken : BOOLEAN, revoked : BOOLEAN,
                idle : BOOLEAN, over : BOOLEAN]

Asks ==
    [op : SessionOps, target : {None}, given : {{}}]
        \cup [op : UserOps, target : Users, given : SUBSET Roles]
        \cup [op : RoleOps, target : Roles, given : SUBSET Paths]

RequestRows ==
    [pc : {"idle", "signin", "failed", "open", "permit", "admitted", "lock", "change"},
     op : UserOps \cup RoleOps \cup SessionOps \cup {"none", "signin"},
     session : Sessions \cup {None}, actor : Users \cup {None},
     target : Users \cup Roles \cup {None}, given : SUBSET (Roles \cup Paths),
     revision : 0..MaxRevision, hash : Nat, revoking : SUBSET Sessions, overtaken : BOOLEAN]

\* A story starts from tables the program has made.
ASSUME StoriesAssumption ==
    /\ None \notin Users
    /\ MaxRevision \in Nat
    /\ \A s \in Stories :
         /\ s.users \in [Users -> UserRows]
         /\ s.roles \in [Roles -> RoleRows]
         /\ s.sessions \in [Sessions -> SessionRows]
         /\ s.signins \subseteq Users
         /\ s.asks \subseteq Asks
         /\ EnsureGlobalSafety(s.users, s.roles)
         /\ \A u \in Users : ~s.users[u].locked
         /\ \A r \in Roles \ {Superadmin} :
              s.roles[r].permissions # {} => ValidPermissions(s.roles[r].permissions)
         /\ \A x \in Sessions :
              LET row == s.sessions[x]
              IN  /\ ~row.over
                  /\ row.user # None =>
                        s.users[row.user].status = "ENABLED" /\ s.users[row.user].hash = row.hash

Init ==
    /\ story \in Stories
    /\ users = story.users /\ roles = story.roles /\ sessions = story.sessions
    /\ req = [c \in Requests |-> Idle]
    /\ attempts = 0

Set(c, t) == req' = [req EXCEPT ![c] = t]
End(c) == Set(c, Idle)

\* Answered with an error, or rolled back by one.
Refuse(c) == End(c) /\ UNCHANGED <<users, roles, sessions, attempts, story>>

Step(c, t) == Set(c, t) /\ UNCHANGED <<users, roles, sessions, attempts, story>>

-----------------------------------------------------------------------------
(* Locks, as the requests hold them.                                       *)

\* The user whose row a transaction has locked for writing.
Writes(c) ==
    IF req[c].pc = "change" /\ req[c].op \in UserOps \ {"create user"} THEN {req[c].target}
    ELSE IF req[c].pc = "change" /\ req[c].op = "password" THEN {req[c].actor}
    ELSE IF req[c].pc = "open" /\ ToReset(users[req[c].actor]) THEN {req[c].actor} ELSE {}

Refers(c) == IF req[c].pc = "open" THEN {req[c].actor} ELSE {}

ForUpdate(c) == IF req[c].op = "password" THEN Writes(c) ELSE {}

FreeToWrite(c, u) == \A d \in Requests \ {c} : u \notin Writes(d)
FreeForUpdate_Mutant(c, u) == \A d \in Requests \ {c} : u \notin Writes(d)
FreeForUpdate(c, u) == \A d \in Requests \ {c} : u \notin Writes(d) \cup Refers(d)
FreeToRefer(c, u) == \A d \in Requests \ {c} : u \notin ForUpdate(d)

HoldsAuthority(c) == req[c].pc = "change" /\ req[c].op \in UserOps \cup RoleOps

AuthorityFree_Mutant(c) == TRUE
AuthorityFree(c) == \A d \in Requests \ {c} : ~HoldsAuthority(d)

\* Sign-ins of u are overtaken: by a new password those that have verified the old
\* one and not inserted their session, as one that has keeps the row locked; by the
\* disabling of u those as well.
Overtake(u, where) ==
    [c \in Requests |-> IF req[c].pc \in where /\ req[c].actor = u
                        THEN [req[c] EXCEPT !.overtaken = TRUE] ELSE req[c]]

BeingDisabled(u) == \E c \in Requests : req[c].pc = "change" /\ req[c].op = "disable user" /\ req[c].target = u

-----------------------------------------------------------------------------
(* Sign-in.                                                                *)

\* The user row and the password are looked at before the transaction.
Signin(c) ==
    /\ req[c].pc = "idle" /\ attempts < MaxAttempts
    /\ \E u \in story.signins, right \in BOOLEAN :
         LET row == users[u]
             t == [Idle EXCEPT !.op = "signin", !.actor = u, !.hash = row.hash]
         IN  /\ row.status = "ENABLED" /\ ~row.locked
             /\ Set(c, [t EXCEPT !.pc = IF right THEN "signin" ELSE "failed"])
    /\ attempts' = attempts + 1
    /\ UNCHANGED <<users, roles, sessions, story>>

RecordSigninFailure(c) ==
    /\ req[c].pc = "failed" /\ FreeToWrite(c, req[c].actor)
    /\ users[req[c].actor].revision < MaxRevision
    /\ users' = [users EXCEPT ![req[c].actor] = RecordFailure(@)]
    /\ End(c) /\ UNCHANGED <<roles, sessions, attempts, story>>

\* Permissions are checked, failures reset and the session inserted.
OpenSession(c) ==
    /\ req[c].pc = "signin"
    /\ LET u == req[c].actor
       IN  IF ~EnsureSafeSignout(users, roles, u) THEN Refuse(c)
           ELSE /\ ToReset(users[u]) => FreeToWrite(c, u)
                /\ FreeToRefer(c, u)
                /\ Step(c, [req[c] EXCEPT !.pc = "open"])

CommitSignin(c) ==
    /\ req[c].pc = "open"
    /\ LET u == req[c].actor
           overtaken == req[c].overtaken \/ BeingDisabled(u)
       IN  \E s \in Sessions :
             /\ sessions[s] = NoSession
             /\ ToReset(users[u]) => users[u].revision < MaxRevision
             /\ users' = [users EXCEPT ![u] = ResetFailures(@)]
             /\ sessions' = [sessions EXCEPT ![s] =
                  [NoSession EXCEPT !.user = u, !.hash = req[c].hash, !.overtaken = overtaken, !.idle = TRUE]]
    /\ End(c) /\ UNCHANGED <<roles, attempts, story>>

-----------------------------------------------------------------------------
(* A request of a session: its authorization.                              *)

Usable(s) ==
    LET row == sessions[s]
    IN  row.user # None /\ ~row.revoked /\ row.idle /\ ~row.over /\ users[row.user].status = "ENABLED"

Revision(op, o) ==
    IF op \in UserOps THEN users[o].revision ELSE IF op \in RoleOps THEN roles[o].revision ELSE 0

\* loadPrincipal reads the session with the status of its user, ...
LoadPrincipal(c) ==
    /\ req[c].pc = "idle"
    /\ \E s \in Sessions, ask \in story.asks :
         /\ Usable(s)
         /\ Step(c, [Idle EXCEPT !.pc = "permit", !.op = ask.op, !.session = s, !.actor = sessions[s].user,
                       !.target = ask.target, !.given = ask.given, !.revision = Revision(ask.op, ask.target)])

Revoked(row) == [row EXCEPT !.revoked = TRUE]

\* The idle end moves on, but never past the absolute end.
Touched_Mutant(row) == IF row.revoked THEN row ELSE [row EXCEPT !.idle = TRUE]
Touched(row) == IF row.revoked THEN row ELSE [row EXCEPT !.idle = ~row.over]

\* ... then the permissions; a session that could not be left is revoked.
\* Restoring a session rotates its CSRF token, if it is still alive.
Authorize(c) ==
    /\ req[c].pc = "permit"
    /\ LET s == req[c].session
           permissions == PermissionsOf(users, roles, req[c].actor)
       IN  IF Signout \notin permissions
           THEN sessions' = [sessions EXCEPT ![s] = Revoked(@)] /\ End(c)
           ELSE IF req[c].op = "restore"
           THEN sessions' = sessions /\ End(c)
           ELSE IF PathOf(req[c].op) \notin permissions
           THEN sessions' = sessions /\ End(c)
           ELSE /\ sessions' = [sessions EXCEPT ![s] = Touched(@)]
                /\ Set(c, [req[c] EXCEPT !.pc = "admitted"])
    /\ UNCHANGED <<users, roles, attempts, story>>

Do(c, op) == req[c].pc = "admitted" /\ req[c].op = op

SignoutSession(c) ==
    /\ Do(c, "signout")
    /\ sessions' = [sessions EXCEPT ![req[c].session] = Revoked(@)]
    /\ End(c) /\ UNCHANGED <<users, roles, attempts, story>>

SaveProfile(c) ==
    /\ Do(c, "profile")
    /\ LET u == req[c].actor
       IN  IF users[u].status # "ENABLED" THEN Refuse(c)
           ELSE /\ FreeForUpdate(c, u) /\ users[u].revision < MaxRevision
                /\ users' = [users EXCEPT ![u].revision = @ + 1]
                /\ End(c) /\ UNCHANGED <<roles, sessions, attempts, story>>

-----------------------------------------------------------------------------
(* Password change.                                                        *)

RevokeUserSessions(u) ==
    [s \in Sessions |-> IF sessions[s].user = u THEN Revoked(sessions[s]) ELSE sessions[s]]

\* The current password is verified before the transaction, ...
VerifyPassword(c) ==
    /\ Do(c, "password")
    /\ LET row == users[req[c].actor]
       IN  IF row.status # "ENABLED" THEN Refuse(c)
           ELSE Step(c, [req[c] EXCEPT !.pc = "lock", !.hash = row.hash, !.revision = row.revision])

\* ... and the row must still be the one that was read once it is locked.
Unchanged_Mutant(c) == users[req[c].actor].status = "ENABLED"
Unchanged(c) ==
    LET row == users[req[c].actor]
    IN  row.status = "ENABLED" /\ row.revision = req[c].revision /\ row.hash = req[c].hash

LockPasswordUser(c) ==
    /\ req[c].pc = "lock" /\ req[c].op = "password" /\ FreeForUpdate(c, req[c].actor)
    /\ IF Unchanged(c) THEN Step(c, [req[c] EXCEPT !.pc = "change"]) ELSE Refuse(c)

CommitPassword(c) ==
    /\ req[c].pc = "change" /\ req[c].op = "password"
    /\ users[req[c].actor].revision < MaxRevision
    /\ users' = [users EXCEPT ![req[c].actor] = UpdatePassword(@)]
    /\ sessions' = RevokeUserSessions(req[c].actor)
    /\ req' = [Overtake(req[c].actor, {"signin"}) EXCEPT ![c] = Idle]
    /\ UNCHANGED <<roles, attempts, story>>

-----------------------------------------------------------------------------
(* Changes of users and roles.                                             *)

\* The tables as the transaction has made them.
UsersAfter(c) ==
    LET o == req[c].target
    IN  CASE req[c].op = "create user" -> [users EXCEPT ![o] = InsertUser(req[c].given)]
          [] req[c].op = "save user" -> [users EXCEPT ![o] = UpdateUser(@, req[c].given)]
          [] req[c].op = "enable user" -> [users EXCEPT ![o] = WithStatus(@, "ENABLED")]
          [] req[c].op = "disable user" -> [users EXCEPT ![o] = WithStatus(@, "DISABLED")]
          [] OTHER -> users

RolesAfter(c) ==
    LET o == req[c].target
    IN  CASE req[c].op = "create role" -> [roles EXCEPT ![o] = InsertRole(req[c].given)]
          [] req[c].op = "save role" -> [roles EXCEPT ![o] = UpdateRole(o, @, req[c].given)]
          [] req[c].op = "enable role" -> [roles EXCEPT ![o] = WithStatus(@, "ENABLED")]
          [] req[c].op = "disable role" -> [roles EXCEPT ![o] = WithStatus(@, "DISABLED")]
          [] OTHER -> roles

CreateUserAllowed(c) ==
    /\ users[req[c].target] = NoUser /\ ValidRoles(roles, req[c].given)
    /\ EnsureSafeSignout(UsersAfter(c), roles, req[c].target)

SaveUserAllowed(c) ==
    /\ ValidRoles(roles, req[c].given)
    /\ users[req[c].target].revision = req[c].revision
    /\ EnsureSafeSignout(UsersAfter(c), roles, req[c].target)
    /\ EnsureGlobalSafety(UsersAfter(c), roles)

SetUserStatusAllowed(c, status) ==
    LET u == req[c].target
    IN  /\ status = "DISABLED" => OthersWith(users, roles, RoleSave, u) # {}
        /\ status = "ENABLED" => EnsureSafeSignout(users, roles, u)
        /\ users[u].revision = req[c].revision /\ users[u].status # status

CreateRoleAllowed(c) ==
    /\ roles[req[c].target] = NoRole /\ req[c].target # Superadmin
    /\ ValidPermissions(req[c].given)

SaveRoleAllowed(c) ==
    /\ req[c].target # Superadmin => ValidPermissions(req[c].given)
    /\ roles[req[c].target].revision = req[c].revision
    /\ EnsureGlobalSafety(users, RolesAfter(c))

SetRoleStatusAllowed(c, status) ==
    LET r == req[c].target
    IN  /\ status = "DISABLED" => WithoutRole(users, roles, RoleSave, r) # {}
        /\ roles[r].revision = req[c].revision /\ roles[r].status # status
        /\ EnsureGlobalSafety(users, RolesAfter(c))

ChangeAllowed(c) ==
    CASE req[c].op = "create user" -> CreateUserAllowed(c)
      [] req[c].op = "save user" -> SaveUserAllowed(c)
      [] req[c].op = "enable user" -> SetUserStatusAllowed(c, "ENABLED")
      [] req[c].op = "disable user" -> SetUserStatusAllowed(c, "DISABLED")
      [] req[c].op = "create role" -> CreateRoleAllowed(c)
      [] req[c].op = "save role" -> SaveRoleAllowed(c)
      [] req[c].op = "enable role" -> SetRoleStatusAllowed(c, "ENABLED")
      [] req[c].op = "disable role" -> SetRoleStatusAllowed(c, "DISABLED")

\* Under the authorization lock: the row is written and the rules are checked
\* on what the transaction sees.  A disabled user's sessions are revoked as far
\* as they are committed.
AcquireAuthority(c) ==
    /\ req[c].pc = "admitted" /\ req[c].op \in UserOps \cup RoleOps
    /\ AuthorityFree(c)
    /\ req[c].op \in UserOps => FreeToWrite(c, req[c].target)
    /\ IF ~ChangeAllowed(c) THEN Refuse(c)
       ELSE Step(c, [req[c] EXCEPT !.pc = "change",
              !.revoking = IF req[c].op = "disable user"
                           THEN {s \in Sessions : sessions[s].user = req[c].target} ELSE {}])

CommitChange(c) ==
    /\ HoldsAuthority(c)
    /\ req[c].op \in UserOps => users[req[c].target].revision < MaxRevision
    /\ req[c].op \in RoleOps => roles[req[c].target].revision < MaxRevision
    /\ users' = UsersAfter(c) /\ roles' = RolesAfter(c)
    /\ sessions' = [s \in Sessions |-> IF s \in req[c].revoking THEN Revoked(sessions[s]) ELSE sessions[s]]
    /\ req' = IF req[c].op = "disable user" THEN [Overtake(req[c].target, {"signin", "open"}) EXCEPT ![c] = Idle]
              ELSE [req EXCEPT ![c] = Idle]
    /\ UNCHANGED <<attempts, story>>

\* The connection breaks, an audit row cannot be written.
Fail(c) == req[c].pc \notin {"idle", "admitted", "permit"} /\ Refuse(c)

-----------------------------------------------------------------------------
(* Time.                                                                   *)

IdlePasses(s) == sessions[s].idle /\ sessions' = [sessions EXCEPT ![s].idle = FALSE]

AbsolutePasses(s) ==
    /\ sessions[s].user # None /\ ~sessions[s].over
    /\ sessions' = [sessions EXCEPT ![s].idle = FALSE, ![s].over = TRUE]

LockPasses(u) == users[u].locked /\ users' = [users EXCEPT ![u].locked = FALSE]

Tick ==
    /\ story.timed
    /\ \/ (\E s \in Sessions : IdlePasses(s) \/ AbsolutePasses(s)) /\ UNCHANGED users
       \/ (\E u \in Users : LockPasses(u)) /\ UNCHANGED sessions
    /\ UNCHANGED <<roles, req, attempts, story>>

Next ==
    \/ \E c \in Requests :
         \/ Signin(c) \/ RecordSigninFailure(c) \/ OpenSession(c) \/ CommitSignin(c)
         \/ LoadPrincipal(c) \/ Authorize(c) \/ SignoutSession(c) \/ SaveProfile(c)
         \/ VerifyPassword(c) \/ LockPasswordUser(c) \/ CommitPassword(c)
         \/ AcquireAuthority(c) \/ CommitChange(c) \/ Fail(c)
    \/ Tick

Spec == Init /\ [][Next]_accessVars

-----------------------------------------------------------------------------
(* Properties.                                                             *)

\* Types; an account is locked only after enough failures, a session past its
\* absolute end is past its idle end, and a role that grants a permission
\* grants the reading one along with it.
TypeOK ==
    /\ users \in [Users -> UserRows]
    /\ roles \in [Roles -> RoleRows]
    /\ sessions \in [Sessions -> SessionRows]
    /\ req \in [Requests -> RequestRows]
    /\ \A u \in Users : users[u].locked => users[u].failed >= LockThreshold
    /\ \A r \in Roles \ {Superadmin} : \A p \in roles[r].permissions : ReadOf(p) \in roles[r].permissions
    /\ \A s \in Sessions : sessions[s].over => ~sessions[s].idle

\* However changes of users and roles overlap, somebody enabled may still
\* change roles and everybody enabled may sign out (docs/domains/app.md: the
\* last authorization administrator; ensureGlobalAuthorizationSafety).  Each
\* request checks it, but on what it sees of the others.
NobodyLockedOut ==
    /\ \E u \in Users : users[u].status = "ENABLED" /\ RoleSave \in PermissionsOf(users, roles, u)
    /\ \A u \in Users : users[u].status = "ENABLED" => Signout \in PermissionsOf(users, roles, u)

\* A session not revoked was opened with the password its user has now, and its
\* user is enabled: a password change waits for sessions inserted and not yet
\* committed, so that it finds and revokes them all (RevokeAppUserSessions, the
\* row locked FOR UPDATE).  Exempt are sign-ins that had verified the old password
\* and not inserted their session when it changed, which commit one all the same,
\* and those not committed when the user was disabled: loadPrincipal asks the
\* user's status again, but not the password.
LiveSessionsAreCurrent ==
    \A s \in Sessions :
        LET row == sessions[s]
        IN  row.user # None /\ ~row.revoked /\ ~row.overtaken =>
              users[row.user].hash = row.hash /\ users[row.user].status = "ENABLED"

\* A password is replaced only by a request that verified that very password:
\* of two changes made at once the later one is refused (ChangePassword reads
\* and verifies before its transaction).
PasswordChangesInTurn ==
    [][\A u \in Users : users[u].status # "ABSENT" /\ users[u].hash' # users[u].hash =>
         \E c \in Requests : req[c].op = "password" /\ req[c].actor = u /\ req[c].hash = users[u].hash]_accessVars
=============================================================================
