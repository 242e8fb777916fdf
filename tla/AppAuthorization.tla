-------------------------- MODULE AppAuthorization --------------------------
(***************************************************************************)
(* Users, roles and the permissions they add up to                         *)
(* (internal/domains/app/authorization_rules.go and the queries of         *)
(* db/queries/app.sql), as operators on the two tables.                    *)
(***************************************************************************)
EXTENDS Naturals, FiniteSets

CONSTANTS
    Users, Roles,
    Superadmin,     \* the role with the reserved code superadmin
    LockThreshold   \* failed sign-ins that lock an account

ASSUME AccessAssumption == Superadmin \in Roles /\ LockThreshold \in Nat \ {0}

Signout == "/app/user/signout"
RoleSave == "/app/role/save"

OwnPaths == {Signout, "/app/user/change-password", "/app/user/profile"}
UserPaths == {"/app/user/query", "/app/user/create", "/app/user/save", "/app/user/enable", "/app/user/disable"}
RolePaths == {"/app/role/query", "/app/role/create", RoleSave, "/app/role/enable", "/app/role/disable"}

Paths == OwnPaths \cup UserPaths \cup RolePaths

\* The reading permission that a role must grant along with another one.
ReadOf(p) ==
    IF p \in UserPaths THEN "/app/user/query" ELSE IF p \in RolePaths THEN "/app/role/query" ELSE p

NoUser == [status |-> "ABSENT", hash |-> 0, failed |-> 0, locked |-> FALSE, roles |-> {}, revision |-> 0]
NoRole == [status |-> "ABSENT", permissions |-> {}, revision |-> 0]

-----------------------------------------------------------------------------
(* us and rs are the rows of the users (with their roles) and of the roles.*)

PermissionsOf(us, rs, u) ==
    UNION {IF r = Superadmin THEN Paths ELSE rs[r].permissions :
             r \in {q \in us[u].roles : rs[q].status = "ENABLED"}}

Enabled(us) == {u \in Users : us[u].status = "ENABLED"}

EnabledWith(us, rs, path) == {u \in Enabled(us) : path \in PermissionsOf(us, rs, u)}

OthersWith(us, rs, path, u) == EnabledWith(us, rs, path) \ {u}

WithoutRole(us, rs, path, r) ==
    EnabledWith([u \in Users |-> [us[u] EXCEPT !.roles = @ \ {r}]], rs, path)

EnsureSafeSignout(us, rs, u) == Signout \in PermissionsOf(us, rs, u)

EnsureGlobalSafety(us, rs) ==
    EnabledWith(us, rs, RoleSave) # {} /\ Enabled(us) \subseteq EnabledWith(us, rs, Signout)

ValidRoles(rs, given) == given # {} /\ \A r \in given : rs[r].status = "ENABLED"

ValidPermissions(given) == given # {} /\ \A p \in given : ReadOf(p) \in given

-----------------------------------------------------------------------------
(* What the write statements make of a row.                                *)

InsertUser(given) ==
    [status |-> "ENABLED", hash |-> 1, failed |-> 0, locked |-> FALSE, roles |-> given, revision |-> 1]

InsertRole(given) == [status |-> "ENABLED", permissions |-> given, revision |-> 1]

UpdateUser(row, given) == [row EXCEPT !.roles = given, !.revision = @ + 1]

UpdateRole(r, row, given) ==
    [row EXCEPT !.permissions = IF r = Superadmin THEN {} ELSE given, !.revision = @ + 1]

WithStatus(row, status) == [row EXCEPT !.status = status, !.revision = @ + 1]

RecordFailure(row) ==
    [row EXCEPT !.failed = @ + 1, !.revision = @ + 1,
                !.locked = IF row.failed + 1 >= LockThreshold THEN TRUE ELSE @]

ToReset(row) == row.failed # 0 \/ row.locked

ResetFailures(row) ==
    IF ToReset(row) THEN [row EXCEPT !.failed = 0, !.locked = FALSE, !.revision = @ + 1] ELSE row

UpdatePassword(row) ==
    [row EXCEPT !.hash = @ + 1, !.failed = 0, !.locked = FALSE, !.revision = @ + 1]
=============================================================================
