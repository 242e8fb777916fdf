----------------------------- MODULE MCAppAccess -----------------------------
(***************************************************************************)
(* Two users, a superadmin role and a staff role for AppAccess.            *)
(***************************************************************************)
EXTENDS AppAccess, TLC

CONSTANTS ann, bob, cat, super, staff, extra, s1, s2, s3, r1, r2

Interchangeable == Permutations({r1, r2})

Basic == {Signout, "/app/user/change-password", "/app/user/profile"}
Admin == Basic \cup RolePaths

U(status, given) == [InsertUser(given) EXCEPT !.status = status]
S(u) == [NoSession EXCEPT !.user = u, !.hash = 1, !.idle = TRUE]
Ask(op, o, given) == [op |-> op, target |-> o, given |-> given]
Own(op) == Ask(op, None, {})

Both ==
    [users |-> ann :> U("ENABLED", {super}) @@ bob :> U("ENABLED", {staff}) @@ cat :> NoUser,
     roles |-> super :> InsertRole({}) @@ staff :> InsertRole(Admin) @@ extra :> NoRole,
     sessions |-> s1 :> S(ann) @@ s2 :> NoSession @@ s3 :> NoSession,
     signins |-> {}, timed |-> FALSE, asks |-> {}]

\* Two administrators by different roles, each of which may be taken away.
Authority ==
    [Both EXCEPT !.sessions[s2] = S(bob),
       !.asks = {Ask("disable user", ann, {}), Ask("disable user", bob, {}), Ask("enable user", bob, {}),
                 Ask("save user", ann, {staff}), Ask("save user", bob, {super}),
                 Ask("save role", staff, Basic), Ask("save role", staff, RolePaths \ {"/app/role/query"}),
                 Ask("disable role", super, {}), Ask("disable role", staff, {}), Ask("enable role", super, {})}]

\* New users and roles while roles lose permissions.
Growth ==
    [Both EXCEPT !.asks = {Ask("create role", extra, Basic), Ask("create role", extra, RolePaths),
                 Ask("create user", cat, {extra}), Ask("create user", cat, {staff}),
                 Ask("save user", bob, {extra}), Ask("save role", extra, RolePaths),
                 Ask("save role", super, {}), Ask("disable role", extra, {})}]

\* Sign-ins, wrong passwords and password changes of one user.
Passwords ==
    [Both EXCEPT !.sessions[s2] = S(bob), !.signins = {bob},
       !.asks = {Own("password"), Own("signout"), Own("profile"), Own("restore")}]

\* Sign-ins of a user who is disabled and enabled, and time.
Disabling ==
    [Both EXCEPT !.signins = {bob}, !.timed = TRUE,
       !.asks = {Ask("disable user", bob, {}), Ask("enable user", bob, {})}]

AllStories == {Authority, Growth, Passwords, Disabling}
=============================================================================
