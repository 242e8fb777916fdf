-------------------------- MODULE AppAccess_proofs --------------------------
(***************************************************************************)
(* Proofs about AppAccess, for any number of users, roles, sessions and    *)
(* requests.                                                               *)
(*                                                                         *)
(* A change of users and roles checks what it will leave and commits       *)
(* later.  That stays true in between because everything else that may     *)
(* happen leaves status and roles of the rows alone (Alike), so the tables *)
(* it will leave are as safe as when they were checked (AuthorityHeld).    *)
(* Sessions and sign-ins are current because whatever changes a password   *)
(* or disables a user revokes the sessions it finds and overtakes the      *)
(* sign-ins under way (CarefulStep).  A session inserted and not committed *)
(* is not among those a password change overtakes: while one holds its     *)
(* user's row, the other cannot (KeysHeld).                                *)
(***************************************************************************)
EXTENDS AppAccess, TLAPS

\* What NobodyLockedOut says of any two tables.
Governed(us, rs) ==
    /\ \E u \in Users : us[u].status = "ENABLED" /\ RoleSave \in PermissionsOf(us, rs, u)
    /\ \A u \in Users : us[u].status = "ENABLED" => Signout \in PermissionsOf(us, rs, u)

\* Tables that differ in nothing that permissions depend on.
Alike(us, vs) == \A u \in Users : us[u].status = vs[u].status /\ us[u].roles = vs[u].roles

-----------------------------------------------------------------------------
(* The rules (AppAuthorization).                                           *)

LEMMA RulesGovern ==
    ASSUME NEW us, NEW rs
    PROVE  EnsureGlobalSafety(us, rs) <=> Governed(us, rs)
  BY DEF EnsureGlobalSafety, Governed, EnabledWith, Enabled

LEMMA PermissionsMember ==
    ASSUME NEW us, NEW rs, NEW u, NEW p
    PROVE  p \in PermissionsOf(us, rs, u) <=>
             \E r \in us[u].roles :
                 rs[r].status = "ENABLED" /\ (IF r = Superadmin THEN p \in Paths ELSE p \in rs[r].permissions)
  BY DEF PermissionsOf

LEMMA AlikeGoverned ==
    ASSUME NEW us, NEW vs, NEW rs, Alike(us, vs), Governed(us, rs)
    PROVE  Governed(vs, rs)
  <1>1. \A u \in Users : PermissionsOf(us, rs, u) = PermissionsOf(vs, rs, u)
    BY DEF Alike, PermissionsOf
  <1> QED
    BY <1>1 DEF Governed, Alike

\* Roles that only grant more.
LEMMA MoreGoverned ==
    ASSUME NEW us, NEW rs, NEW qs, Governed(us, rs),
           \A u \in Users : PermissionsOf(us, rs, u) \subseteq PermissionsOf(us, qs, u)
    PROVE  Governed(us, qs)
  BY DEF Governed

-----------------------------------------------------------------------------
(* A change that was allowed leaves tables in which nobody is locked out.  *)

LEMMA CreatedUserGoverned ==
    ASSUME TypeOK, NobodyLockedOut, NEW o \in Users, NEW given,
           users[o] = NoUser,
           EnsureSafeSignout([users EXCEPT ![o] = InsertUser(given)], roles, o)
    PROVE  Governed([users EXCEPT ![o] = InsertUser(given)], roles)
  <1> DEFINE vs == [users EXCEPT ![o] = InsertUser(given)]
  <1>1. /\ \A u \in Users \ {o} : vs[u] = users[u]
        /\ users[o].status = "ABSENT"
    BY DEF TypeOK, NoUser
  <1>2. \A u \in Users \ {o} : PermissionsOf(vs, roles, u) = PermissionsOf(users, roles, u)
    BY <1>1 DEF PermissionsOf
  <1> HIDE DEF vs
  <1>3. Signout \in PermissionsOf(vs, roles, o)
    BY DEF EnsureSafeSignout, vs
  <1> QED
    BY <1>1, <1>2, <1>3 DEF Governed, NobodyLockedOut, vs

LEMMA StatusGoverned ==
    ASSUME TypeOK, NobodyLockedOut, NEW o \in Users, NEW s \in {"ENABLED", "DISABLED"},
           s = "DISABLED" => OthersWith(users, roles, RoleSave, o) # {},
           s = "ENABLED" => EnsureSafeSignout(users, roles, o)
    PROVE  Governed([users EXCEPT ![o] = WithStatus(@, s)], roles)
  <1> DEFINE vs == [users EXCEPT ![o] = WithStatus(@, s)]
  <1>1. /\ \A u \in Users \ {o} : vs[u] = users[u]
        /\ vs[o].status = s /\ vs[o].roles = users[o].roles
    BY DEF TypeOK, WithStatus, UserRows
  <1>2. \A u \in Users : PermissionsOf(vs, roles, u) = PermissionsOf(users, roles, u)
    BY <1>1 DEF PermissionsOf
  <1>3. vs = [users EXCEPT ![o] = WithStatus(@, s)]
    OBVIOUS
  <1> HIDE DEF vs
  <1>4. \A u \in Users : vs[u].status = "ENABLED" => Signout \in PermissionsOf(vs, roles, u)
    BY <1>1, <1>2 DEF NobodyLockedOut, EnsureSafeSignout
  <1>5. \E u \in Users : vs[u].status = "ENABLED" /\ RoleSave \in PermissionsOf(vs, roles, u)
    BY <1>1, <1>2 DEF NobodyLockedOut, OthersWith, EnabledWith, Enabled
  <1> QED
    BY <1>3, <1>4, <1>5 DEF Governed

LEMMA CreatedRoleGoverned ==
    ASSUME TypeOK, NobodyLockedOut, NEW o \in Roles, NEW given, roles[o] = NoRole
    PROVE  Governed(users, [roles EXCEPT ![o] = InsertRole(given)])
  <1> DEFINE qs == [roles EXCEPT ![o] = InsertRole(given)]
  <1>1. \A r \in Roles \ {o} : qs[r] = roles[r]
    BY DEF TypeOK
  <1>2. roles[o].status # "ENABLED"
    BY DEF NoRole
  <1> HIDE DEF qs
  <1>3. ASSUME NEW u \in Users, NEW p \in PermissionsOf(users, roles, u)
        PROVE  p \in PermissionsOf(users, qs, u)
    <2>1. PICK r \in users[u].roles :
            roles[r].status = "ENABLED"
              /\ (IF r = Superadmin THEN p \in Paths ELSE p \in roles[r].permissions)
      BY <1>3, PermissionsMember
    <2>2. r \in Roles \ {o}
      BY <1>2, <2>1 DEF TypeOK, UserRows
    <2> QED
      BY <1>1, <2>1, <2>2, PermissionsMember
  <1> QED
    BY <1>3, MoreGoverned DEF Governed, NobodyLockedOut, qs

\* The tables after the change depend on nothing else that may happen before it.
LEMMA AllowedGoverned ==
    ASSUME TypeOK, NobodyLockedOut, NEW c \in Requests,
           req[c].op \in UserOps => req[c].target \in Users,
           req[c].op \in RoleOps => req[c].target \in Roles,
           req[c].op \in UserOps \cup RoleOps,
           ChangeAllowed(c)
    PROVE  Governed(UsersAfter(c), RolesAfter(c))
  <1>1. CASE req[c].op = "create user"
    BY <1>1, CreatedUserGoverned
    DEF ChangeAllowed, CreateUserAllowed, UsersAfter, RolesAfter, UserOps
  <1>2. CASE req[c].op = "save user"
    BY <1>2, RulesGovern DEF ChangeAllowed, SaveUserAllowed, UsersAfter, RolesAfter
  <1>3. CASE req[c].op = "enable user"
    BY <1>3, StatusGoverned
    DEF ChangeAllowed, SetUserStatusAllowed, UsersAfter, RolesAfter, UserOps
  <1>4. CASE req[c].op = "disable user"
    BY <1>4, StatusGoverned
    DEF ChangeAllowed, SetUserStatusAllowed, UsersAfter, RolesAfter, UserOps
  <1>5. CASE req[c].op = "create role"
    BY <1>5, CreatedRoleGoverned
    DEF ChangeAllowed, CreateRoleAllowed, UsersAfter, RolesAfter, RoleOps
  <1>6. CASE req[c].op = "save role"
    BY <1>6, RulesGovern DEF ChangeAllowed, SaveRoleAllowed, UsersAfter, RolesAfter
  <1>7. CASE req[c].op = "enable role"
    BY <1>7, RulesGovern DEF ChangeAllowed, SetRoleStatusAllowed, UsersAfter, RolesAfter
  <1>8. CASE req[c].op = "disable role"
    BY <1>8, RulesGovern DEF ChangeAllowed, SetRoleStatusAllowed, UsersAfter, RolesAfter
  <1> QED
    BY <1>1, <1>2, <1>3, <1>4, <1>5, <1>6, <1>7, <1>8 DEF UserOps, RoleOps

-----------------------------------------------------------------------------
(* The inductive invariant.                                                *)

LocksOwnRow(c) == req[c].pc = "change" /\ req[c].op = "password"

\* What a request holds.
Fit(t) ==
    /\ t.pc # "idle" => t.actor \in Users
    /\ t.pc \in {"signin", "failed", "open"} <=> t.op = "signin"
    /\ t.pc \in {"permit", "admitted"} => t.session \in Sessions
    /\ t.pc = "lock" => t.op = "password"
    /\ t.op \in UserOps => t.target \in Users /\ t.given \subseteq Roles
    /\ t.op \in RoleOps => t.target \in Roles /\ t.given \subseteq Paths

Fits == \A c \in Requests : Fit(req[c])

\* Nobody works for a user who was never created.
Present ==
    /\ \A s \in Sessions : sessions[s].user # None => users[sessions[s].user].status # "ABSENT"
    /\ \A c \in Requests : req[c].pc # "idle" => users[req[c].actor].status # "ABSENT"

\* A sign-in under way that was not overtaken verified the present password.
SigninsCurrent ==
    \A c \in Requests : req[c].pc \in {"signin", "open"} /\ ~req[c].overtaken =>
        users[req[c].actor].hash = req[c].hash /\ users[req[c].actor].status = "ENABLED"

\* While a user row is locked for a new password it keeps the one verified.
PasswordsHeld ==
    \A c \in Requests : LocksOwnRow(c) =>
        /\ req[c].hash = users[req[c].actor].hash
        /\ \A d \in Requests : LocksOwnRow(d) /\ req[d].actor = req[c].actor => d = c

\* Nor does it come upon a session being inserted for its user.
KeysHeld ==
    \A c, d \in Requests : LocksOwnRow(c) /\ req[d].pc = "open" => req[d].actor # req[c].actor

\* While a change of users and roles is under way, it remains the only one, and
\* the tables it will leave are safe whatever other requests do meanwhile.
AuthorityHeld ==
    \A c \in Requests : HoldsAuthority(c) =>
        /\ \A d \in Requests : HoldsAuthority(d) => d = c
        /\ Governed(UsersAfter(c), RolesAfter(c))
        /\ req[c].op = "create user" => users[req[c].target].status = "ABSENT"
        /\ req[c].op = "enable user" => users[req[c].target].status # "ENABLED"
        /\ req[c].op \in {"create role", "save role"} /\ req[c].target # Superadmin =>
             ValidPermissions(req[c].given)
        /\ req[c].op = "disable user" =>
             \A s \in Sessions : sessions[s].user = req[c].target =>
                 s \in req[c].revoking \/ sessions[s].overtaken

IInv ==
    /\ story \in Stories
    /\ TypeOK
    /\ Fits
    /\ Present
    /\ SigninsCurrent
    /\ PasswordsHeld
    /\ AuthorityHeld
    /\ NobodyLockedOut
    /\ LiveSessionsAreCurrent

LEMMA IdleFits == Idle \in RequestRows /\ Fit(Idle) /\ Idle.pc = "idle"
  BY StoriesAssumption DEF Idle, RequestRows, Fit, UserOps, RoleOps

LEMMA InitInvariant == Init => IInv
  <1> SUFFICES ASSUME Init
               PROVE  IInv
    OBVIOUS
  <1> USE DEF Init
  <1>1. \A c \in Requests : req[c] = Idle
    OBVIOUS
  <1>2. /\ req \in [Requests -> RequestRows]
        /\ Fits /\ SigninsCurrent /\ PasswordsHeld /\ AuthorityHeld
    BY <1>1, IdleFits DEF Fits, SigninsCurrent, PasswordsHeld, LocksOwnRow, AuthorityHeld, HoldsAuthority
  <1>3. TypeOK
    BY <1>2, StoriesAssumption DEF TypeOK, ValidPermissions
  <1>4. NobodyLockedOut
    BY StoriesAssumption, RulesGovern DEF Governed, NobodyLockedOut
  <1>5. Present /\ LiveSessionsAreCurrent
    BY <1>1, IdleFits, StoriesAssumption DEF Present, LiveSessionsAreCurrent
  <1> QED
    BY <1>2, <1>3, <1>4, <1>5 DEF IInv

-----------------------------------------------------------------------------
(* Steps that touch nothing the rules depend on.                           *)

\* A request that relies on nothing but what the tables say, and changes neither
\* users nor roles.
Sound(t) ==
    /\ t \in RequestRows /\ Fit(t)
    /\ t.pc # "idle" => users[t.actor].status # "ABSENT"
    /\ t.pc \in {"signin", "open"} /\ ~t.overtaken =>
         users[t.actor].hash = t.hash /\ users[t.actor].status = "ENABLED"
    /\ t.pc = "change" => t.op = "password" /\ t.hash = users[t.actor].hash

\* A session that still belongs to its user, or is revoked by now.
Lesser(new, old) ==
    /\ new \in SessionRows
    /\ new.user = old.user /\ new.hash = old.hash /\ new.overtaken = old.overtaken
    /\ old.revoked => new.revoked

\* A session opened with the present password.
Fresh(new) ==
    /\ new \in SessionRows
    /\ new.user \in Users /\ users[new.user].status # "ABSENT"
    /\ ~new.overtaken =>
         /\ users[new.user].hash = new.hash /\ users[new.user].status = "ENABLED"
         /\ ~BeingDisabled(new.user)

LEMMA UpdatedRow ==
    ASSUME NEW row \in UserRows, NEW given
    PROVE  /\ UpdateUser(row, given).status = row.status /\ UpdateUser(row, given).roles = given
           /\ UpdateUser(row, given).hash = row.hash
  BY DEF UpdateUser, UserRows

LEMMA StatusRow ==
    ASSUME NEW row \in UserRows, NEW s
    PROVE  /\ WithStatus(row, s).status = s /\ WithStatus(row, s).roles = row.roles
           /\ WithStatus(row, s).hash = row.hash
  BY DEF WithStatus, UserRows

\* What a change will leave does not depend on rows that stay alike.
LEMMA AfterAlike ==
    ASSUME TypeOK, NEW c \in Requests, users' \in [Users -> UserRows],
           Alike(users, users'), roles' = roles, req'[c] = req[c], Fit(req[c])
    PROVE  Alike(UsersAfter(c), UsersAfter(c)') /\ RolesAfter(c)' = RolesAfter(c)
  <1>1. RolesAfter(c)' = RolesAfter(c)
    BY DEF RolesAfter
  <1> DEFINE o == req[c].target
  <1>o. req[c].op \in UserOps => o \in Users /\ users[o] \in UserRows /\ users'[o] \in UserRows
    BY DEF TypeOK, Fit
  <1>2. CASE req[c].op = "create user"
    BY <1>1, <1>2 DEF UsersAfter, Alike, TypeOK
  <1>3. CASE req[c].op = "save user"
    <2>1. /\ UsersAfter(c) = [users EXCEPT ![o] = UpdateUser(@, req[c].given)]
          /\ UsersAfter(c)' = [users' EXCEPT ![o] = UpdateUser(@, req[c].given)]
      BY <1>3 DEF UsersAfter
    <2>2. /\ UpdateUser(users[o], req[c].given).status = UpdateUser(users'[o], req[c].given).status
          /\ UpdateUser(users[o], req[c].given).roles = UpdateUser(users'[o], req[c].given).roles
      <3>1. /\ users[o] \in UserRows /\ users'[o] \in UserRows
            /\ users[o].status = users'[o].status /\ users[o].roles = users'[o].roles
        BY <1>o, <1>3 DEF Alike, UserOps
      <3> QED
        BY <3>1, UpdatedRow
    <2> QED
      BY <1>1, <2>1, <2>2 DEF Alike, TypeOK
  <1>4. CASE req[c].op = "enable user"
    <2>1. /\ UsersAfter(c) = [users EXCEPT ![o] = WithStatus(@, "ENABLED")]
          /\ UsersAfter(c)' = [users' EXCEPT ![o] = WithStatus(@, "ENABLED")]
      BY <1>4 DEF UsersAfter
    <2>2. /\ WithStatus(users[o], "ENABLED").status = WithStatus(users'[o], "ENABLED").status
          /\ WithStatus(users[o], "ENABLED").roles = WithStatus(users'[o], "ENABLED").roles
      <3>1. /\ users[o] \in UserRows /\ users'[o] \in UserRows
            /\ users[o].status = users'[o].status /\ users[o].roles = users'[o].roles
        BY <1>o, <1>4 DEF Alike, UserOps
      <3> QED
        BY <3>1, StatusRow
    <2> QED
      BY <1>1, <2>1, <2>2 DEF Alike, TypeOK
  <1>5. CASE req[c].op = "disable user"
    <2>1. /\ UsersAfter(c) = [users EXCEPT ![o] = WithStatus(@, "DISABLED")]
          /\ UsersAfter(c)' = [users' EXCEPT ![o] = WithStatus(@, "DISABLED")]
      BY <1>5 DEF UsersAfter
    <2>2. /\ WithStatus(users[o], "DISABLED").status = WithStatus(users'[o], "DISABLED").status
          /\ WithStatus(users[o], "DISABLED").roles = WithStatus(users'[o], "DISABLED").roles
      <3>1. /\ users[o] \in UserRows /\ users'[o] \in UserRows
            /\ users[o].status = users'[o].status /\ users[o].roles = users'[o].roles
        BY <1>o, <1>5 DEF Alike, UserOps
      <3> QED
        BY <3>1, StatusRow
    <2> QED
      BY <1>1, <2>1, <2>2 DEF Alike, TypeOK
  <1>6. CASE req[c].op \notin UserOps
    BY <1>1, <1>6 DEF UsersAfter, UserOps, Alike
  <1> QED
    BY <1>2, <1>3, <1>4, <1>5, <1>6 DEF UserOps

\* A request that has written a change of users or roles.
Changing(t) ==
    /\ t \in RequestRows /\ Fit(t)
    /\ t.pc = "change" /\ t.op # "password"
    /\ users[t.actor].status # "ABSENT"

\* An overtaken sign-in.
OvertakenNow(c) == req[c].op = "signin" /\ req'[c] = [req[c] EXCEPT !.overtaken = TRUE]

\* Steps that may give the users of a set another password or status, if the
\* sessions and sign-ins of those users no longer count.
LEMMA CarefulStep ==
    ASSUME IInv, NEW set \in SUBSET Users,
           users' \in [Users -> UserRows],
           \A u \in Users : users[u].status # "ABSENT" => users'[u].status # "ABSENT",
           \A u \in Users \ set : users'[u].hash = users[u].hash /\ users'[u].status = users[u].status,
           \A u \in Users : users'[u].locked => users'[u].failed >= LockThreshold,
           roles' \in [Roles -> RoleRows],
           \A r \in Roles \ {Superadmin} : \A p \in roles'[r].permissions : ReadOf(p) \in roles'[r].permissions,
           sessions' \in [Sessions -> SessionRows],
           \A s \in Sessions : Lesser(sessions'[s], sessions[s]) \/ Fresh(sessions'[s]),
           \A s \in Sessions :
               sessions'[s].user \in set => sessions'[s].revoked \/ sessions'[s].overtaken,
           \A s \in Sessions : sessions'[s].over => ~sessions'[s].idle,
           req' \in [Requests -> RequestRows],
           \A c \in Requests : req'[c] = req[c] \/ Sound(req'[c]) \/ OvertakenNow(c) \/ Changing(req'[c]),
           \A c \in Requests : req'[c].pc \in {"signin", "open"} /\ req'[c].actor \in set =>
               req'[c].overtaken,
           \A c \in Requests : LocksOwnRow(c)' =>
               users'[req'[c].actor].hash = users[req'[c].actor].hash,
           \A c, d \in Requests : LocksOwnRow(c)' /\ LocksOwnRow(d)' /\ c # d =>
               req'[c].actor # req'[d].actor
    PROVE  (TypeOK /\ Fits /\ Present /\ SigninsCurrent /\ PasswordsHeld /\ LiveSessionsAreCurrent)'
  <1> USE DEF IInv
  <1>1. TypeOK'
    BY DEF TypeOK
  <1>2. ASSUME NEW c \in Requests, OvertakenNow(c)
        PROVE  /\ Fit(req'[c]) /\ req'[c].overtaken
               /\ req'[c].pc = req[c].pc /\ req'[c].op = "signin" /\ req'[c].actor = req[c].actor
    <2>1. req[c] \in RequestRows /\ Fit(req[c])
      BY DEF TypeOK, Fits
    <2> QED
      BY <1>2, <2>1 DEF OvertakenNow, RequestRows, Fit
  <1>3. Fits'
    BY <1>2 DEF Fits, Sound, Changing
  <1>4. Present'
    <2>1. ASSUME NEW s \in Sessions, sessions'[s].user # None
          PROVE  users'[sessions'[s].user].status # "ABSENT"
      <3>1. CASE Lesser(sessions'[s], sessions[s])
        <4>1. sessions'[s].user = sessions[s].user /\ sessions[s].user \in Users
          BY <2>1, <3>1 DEF Lesser, TypeOK, SessionRows
        <4> QED
          BY <2>1, <4>1 DEF Present
      <3>2. CASE Fresh(sessions'[s])
        BY <3>2 DEF Fresh
      <3> QED
        BY <3>1, <3>2
    <2>2. ASSUME NEW c \in Requests, req'[c].pc # "idle"
          PROVE  users'[req'[c].actor].status # "ABSENT"
      <3>1. req'[c].actor \in Users
        BY <1>2, <2>2 DEF Fits, Fit, Sound, Changing
      <3>2. users[req'[c].actor].status # "ABSENT"
        BY <1>2, <2>2 DEF Present, Sound, Changing
      <3> QED
        BY <3>1, <3>2
    <2> QED
      BY <2>1, <2>2 DEF Present
  <1>5. SigninsCurrent'
    <2> SUFFICES ASSUME NEW c \in Requests, req'[c].pc \in {"signin", "open"}, ~req'[c].overtaken
                 PROVE  /\ users'[req'[c].actor].hash = req'[c].hash
                        /\ users'[req'[c].actor].status = "ENABLED"
      BY DEF SigninsCurrent
    <2>1. req'[c].actor \in Users \ set
      BY <1>2 DEF Sound, Fits, Fit, Changing
    <2>2. users[req'[c].actor].hash = req'[c].hash /\ users[req'[c].actor].status = "ENABLED"
      BY <1>2 DEF Sound, SigninsCurrent, Changing
    <2> QED
      BY <2>1, <2>2
  <1>6. PasswordsHeld'
    <2> SUFFICES ASSUME NEW c \in Requests, LocksOwnRow(c)'
                 PROVE  req'[c].hash = users[req'[c].actor].hash
      BY DEF PasswordsHeld
    <2> QED
      BY <1>2 DEF LocksOwnRow, Sound, PasswordsHeld, Changing
  <1>7. LiveSessionsAreCurrent'
    <2> SUFFICES ASSUME NEW s \in Sessions, sessions'[s].user # None, ~sessions'[s].revoked,
                        ~sessions'[s].overtaken
                 PROVE  /\ users'[sessions'[s].user].hash = sessions'[s].hash
                        /\ users'[sessions'[s].user].status = "ENABLED"
      BY DEF LiveSessionsAreCurrent
    <2>1. sessions'[s].user \in Users \ set
      BY DEF SessionRows
    <2>2. CASE Lesser(sessions'[s], sessions[s])
      BY <2>1, <2>2 DEF LiveSessionsAreCurrent, Lesser
    <2>3. CASE Fresh(sessions'[s])
      BY <2>1, <2>3 DEF Fresh
    <2> QED
      BY <2>2, <2>3
  <1> QED
    BY <1>1, <1>3, <1>4, <1>5, <1>6, <1>7

\* A change under way is not disturbed by steps that leave status and roles.
LEMMA AuthorityUndisturbed ==
    ASSUME IInv,
           users' \in [Users -> UserRows], Alike(users, users'), roles' = roles,
           \A s \in Sessions : Lesser(sessions'[s], sessions[s]) \/ Fresh(sessions'[s]),
           \A c \in Requests : req'[c] = req[c] \/ Sound(req'[c]) \/ OvertakenNow(c)
    PROVE  (AuthorityHeld /\ NobodyLockedOut)'
  <1> USE DEF IInv
  <1>a. AuthorityHeld'
    <2>1. \A c \in Requests : HoldsAuthority(c)' => HoldsAuthority(c) /\ req'[c] = req[c]
      <3>1. ASSUME NEW c \in Requests, OvertakenNow(c)
            PROVE  req'[c].op = "signin"
        BY <3>1 DEF OvertakenNow, TypeOK, RequestRows
      <3> QED
        BY <3>1 DEF HoldsAuthority, Sound, UserOps, RoleOps
    <2> SUFFICES ASSUME NEW c \in Requests, HoldsAuthority(c)'
                 PROVE  (/\ \A d \in Requests : HoldsAuthority(d) => d = c
                         /\ Governed(UsersAfter(c), RolesAfter(c))
                         /\ req[c].op = "create user" => users[req[c].target].status = "ABSENT"
                         /\ req[c].op = "enable user" => users[req[c].target].status # "ENABLED"
                         /\ req[c].op \in {"create role", "save role"} /\ req[c].target # Superadmin =>
                              ValidPermissions(req[c].given)
                         /\ req[c].op = "disable user" =>
                              \A s \in Sessions : sessions[s].user = req[c].target =>
                                  s \in req[c].revoking \/ sessions[s].overtaken)'
      BY DEF AuthorityHeld
    <2> HoldsAuthority(c) /\ req'[c] = req[c]
      BY <2>1
    <2>2. \A d \in Requests : HoldsAuthority(d)' => d = c
      BY <2>1 DEF AuthorityHeld
    <2>3. Governed(UsersAfter(c), RolesAfter(c))'
      <3>1. Alike(UsersAfter(c), UsersAfter(c)') /\ RolesAfter(c)' = RolesAfter(c)
        BY AfterAlike DEF Fits
      <3>2. Governed(UsersAfter(c), RolesAfter(c))
        BY DEF AuthorityHeld
      <3>3. Governed(UsersAfter(c)', RolesAfter(c)')
        BY <3>1, <3>2, AlikeGoverned
      <3> QED
        BY <3>3
    <2>4. /\ req[c].op = "create user" => users'[req[c].target].status = "ABSENT"
          /\ req[c].op = "enable user" => users'[req[c].target].status # "ENABLED"
      <3>1. req[c].op \in {"create user", "enable user"} => req[c].target \in Users
        BY DEF Fits, Fit, UserOps
      <3> QED
        BY <3>1 DEF AuthorityHeld, Alike
    <2>5. req[c].op = "disable user" =>
             \A s \in Sessions : sessions'[s].user = req[c].target =>
                 s \in req[c].revoking \/ sessions'[s].overtaken
      <3> SUFFICES ASSUME req[c].op = "disable user",
                          NEW s \in Sessions, sessions'[s].user = req[c].target
                   PROVE  s \in req[c].revoking \/ sessions'[s].overtaken
        OBVIOUS
      <3>1. CASE Lesser(sessions'[s], sessions[s])
        BY <3>1 DEF AuthorityHeld, Lesser
      <3>2. CASE Fresh(sessions'[s])
        BY <3>2 DEF Fresh, BeingDisabled, HoldsAuthority
      <3> QED
        BY <3>1, <3>2
    <2> QED
      BY <2>2, <2>3, <2>4, <2>5 DEF AuthorityHeld
  <1>b. NobodyLockedOut'
    BY AlikeGoverned DEF Governed, NobodyLockedOut
  <1> QED
    BY <1>a, <1>b

LEMMA QuietStep ==
    ASSUME IInv,
           story' = story,
           users' \in [Users -> UserRows],
           Alike(users, users'),
           \A u \in Users : users'[u].hash = users[u].hash,
           \A u \in Users : users'[u].locked => users'[u].failed >= LockThreshold,
           roles' = roles,
           sessions' \in [Sessions -> SessionRows],
           \A s \in Sessions : Lesser(sessions'[s], sessions[s]) \/ Fresh(sessions'[s]),
           \A s \in Sessions : sessions'[s].over => ~sessions'[s].idle,
           req' \in [Requests -> RequestRows],
           \A c \in Requests : req'[c] = req[c] \/ Sound(req'[c]),
           \A c, d \in Requests : LocksOwnRow(c)' /\ LocksOwnRow(d)' /\ c # d =>
               req'[c].actor # req'[d].actor
    PROVE  IInv'
  <1>1. (TypeOK /\ Fits /\ Present /\ SigninsCurrent /\ PasswordsHeld /\ LiveSessionsAreCurrent)'
    <2>1. \A u \in Users : users[u].status # "ABSENT" => users'[u].status # "ABSENT"
      BY DEF Alike
    <2>2. \A u \in Users : users'[u].status = users[u].status
      BY DEF Alike
    <2>3. \A c \in Requests : LocksOwnRow(c)' =>
            users'[req'[c].actor].hash = users[req'[c].actor].hash
      BY DEF LocksOwnRow, Sound, IInv, Fits, Fit
    <2>4. /\ roles' \in [Roles -> RoleRows]
          /\ \A r \in Roles \ {Superadmin} : \A p \in roles'[r].permissions :
                ReadOf(p) \in roles'[r].permissions
      BY DEF IInv, TypeOK
    <2> DEFINE none == {}
    <2>5. none \in SUBSET Users /\ \A x : x \notin none
      OBVIOUS
    <2> HIDE DEF none
    <2> QED
      BY <2>1, <2>2, <2>3, <2>4, <2>5, CarefulStep
  <1>2. (AuthorityHeld /\ NobodyLockedOut)'
    BY AuthorityUndisturbed
  <1> QED
    BY <1>1, <1>2 DEF IInv

-----------------------------------------------------------------------------
(* One request moves on.                                                   *)

LEMMA RequestStep ==
    ASSUME IInv, NEW c \in Requests, NEW t,
           Set(c, t), Sound(t), t.pc # "change",
           story' = story,
           users' \in [Users -> UserRows],
           Alike(users, users'),
           \A u \in Users : users'[u].hash = users[u].hash,
           \A u \in Users : users'[u].locked => users'[u].failed >= LockThreshold,
           roles' = roles,
           sessions' \in [Sessions -> SessionRows],
           \A s \in Sessions : Lesser(sessions'[s], sessions[s]) \/ Fresh(sessions'[s]),
           \A s \in Sessions : sessions'[s].over => ~sessions'[s].idle
    PROVE  IInv'
  <1>1. /\ req' \in [Requests -> RequestRows]
        /\ req'[c] = t
        /\ \A d \in Requests \ {c} : req'[d] = req[d]
    BY DEF Set, IInv, TypeOK, Sound
  <1>2. \A d, e \in Requests : LocksOwnRow(d)' /\ LocksOwnRow(e)' /\ d # e =>
            req'[d].actor # req'[e].actor
    BY <1>1 DEF LocksOwnRow, IInv, PasswordsHeld
  <1> QED
    BY <1>1, <1>2, QuietStep

LEMMA LesserSelf ==
    ASSUME TypeOK, NEW s \in Sessions
    PROVE  Lesser(sessions[s], sessions[s]) /\ Lesser(Revoked(sessions[s]), sessions[s])
  <1>1. sessions[s] \in SessionRows
    BY DEF TypeOK
  <1> QED
    BY <1>1 DEF Lesser, Revoked, SessionRows

LEMMA SameTables ==
    ASSUME IInv
    PROVE  /\ users \in [Users -> UserRows]
           /\ Alike(users, users)
           /\ \A u \in Users : users[u].locked => users[u].failed >= LockThreshold
           /\ sessions \in [Sessions -> SessionRows]
           /\ \A s \in Sessions : Lesser(sessions[s], sessions[s])
           /\ \A s \in Sessions : sessions[s].over => ~sessions[s].idle
  BY LesserSelf DEF IInv, TypeOK, Alike

\* A step that only changes what the request holds.
LEMMA PlainStep ==
    ASSUME IInv, NEW c \in Requests, NEW t, Step(c, t), Sound(t), t.pc # "change"
    PROVE  IInv'
  BY SameTables, RequestStep DEF Step

LEMMA SoundIdle == Sound(Idle) /\ Idle.pc # "change"
  BY IdleFits DEF Sound, Idle

LEMMA RefuseInvariant ==
    ASSUME IInv, NEW c \in Requests, Refuse(c)
    PROVE  IInv'
  <1>1. Step(c, Idle)
    BY DEF Refuse, Step, End
  <1> QED
    BY <1>1, PlainStep, SoundIdle

LEMMA FailInvariant ==
    ASSUME IInv, NEW c \in Requests, Fail(c)
    PROVE  IInv'
  BY RefuseInvariant DEF Fail

\* Ended with a row of a user written that permissions do not depend on.
LEMMA RowStep ==
    ASSUME IInv, NEW c \in Requests, NEW u \in Users, NEW row \in UserRows,
           row.status = users[u].status, row.roles = users[u].roles, row.hash = users[u].hash,
           row.locked => row.failed >= LockThreshold,
           users' = [users EXCEPT ![u] = row],
           \/ sessions' = sessions
           \/ /\ sessions' \in [Sessions -> SessionRows]
              /\ \A s \in Sessions : Lesser(sessions'[s], sessions[s]) \/ Fresh(sessions'[s])
              /\ \A s \in Sessions : sessions'[s].over => ~sessions'[s].idle,
           End(c), UNCHANGED <<roles, story>>
    PROVE  IInv'
  <1>1. /\ users' \in [Users -> UserRows]
        /\ users'[u] = row
        /\ \A v \in Users \ {u} : users'[v] = users[v]
    BY DEF IInv, TypeOK
  <1>2. /\ Alike(users, users')
        /\ \A v \in Users : users'[v].hash = users[v].hash
        /\ \A v \in Users : users'[v].locked => users'[v].failed >= LockThreshold
    BY <1>1 DEF Alike, IInv, TypeOK
  <1>3. Set(c, Idle)
    BY DEF End
  <1> QED
    BY <1>1, <1>2, <1>3, SameTables, RequestStep, SoundIdle

-----------------------------------------------------------------------------
(* Sign-in.                                                                *)

LEMMA SigninInvariant ==
    ASSUME IInv, NEW c \in Requests, Signin(c)
    PROVE  IInv'
  <1>1. PICK u \in story.signins, right \in BOOLEAN :
          /\ users[u].status = "ENABLED"
          /\ Set(c, [[Idle EXCEPT !.op = "signin", !.actor = u, !.hash = users[u].hash]
                       EXCEPT !.pc = IF right THEN "signin" ELSE "failed"])
    BY DEF Signin
  <1> DEFINE t == [[Idle EXCEPT !.op = "signin", !.actor = u, !.hash = users[u].hash]
                       EXCEPT !.pc = IF right THEN "signin" ELSE "failed"]
  <1>2. u \in Users /\ users[u].hash \in Nat
    BY StoriesAssumption DEF IInv, TypeOK, UserRows
  <1>3. /\ t \in RequestRows
        /\ t.pc \in {"signin", "failed"} /\ t.op = "signin" /\ t.actor = u /\ t.hash = users[u].hash
    BY <1>2, IdleFits DEF Idle, RequestRows
  <1>4. Set(c, t) /\ UNCHANGED <<users, roles, sessions, story>>
    BY <1>1 DEF Signin
  <1> HIDE DEF t
  <1>5. Sound(t) /\ t.pc # "change"
    BY <1>1, <1>2, <1>3 DEF Sound, Fit, UserOps, RoleOps
  <1> QED
    BY <1>4, <1>5, SameTables, RequestStep

LEMMA RecordSigninFailureInvariant ==
    ASSUME IInv, NEW c \in Requests, RecordSigninFailure(c)
    PROVE  IInv'
  <1> DEFINE u == req[c].actor
             row == RecordFailure(users[u])
  <1>1. u \in Users /\ users[u] \in UserRows
    BY DEF RecordSigninFailure, IInv, Fits, Fit, TypeOK
  <1>2. users[u].revision + 1 \in 0..MaxRevision
    BY <1>1, StoriesAssumption DEF RecordSigninFailure, UserRows
  <1>3. /\ row \in UserRows
        /\ row.status = users[u].status /\ row.roles = users[u].roles /\ row.hash = users[u].hash
        /\ row.locked => row.failed >= LockThreshold
    <2>1. /\ users[u].failed \in Nat /\ users[u].failed + 1 \in Nat /\ LockThreshold \in Nat
          /\ users[u].locked => users[u].failed >= LockThreshold
          /\ users[u].locked \in BOOLEAN
      BY <1>1, AccessAssumption DEF UserRows, IInv, TypeOK
    <2>2. /\ row.status = users[u].status /\ row.roles = users[u].roles /\ row.hash = users[u].hash
          /\ row.failed = users[u].failed + 1 /\ row.revision = users[u].revision + 1
          /\ row.locked = IF users[u].failed + 1 >= LockThreshold THEN TRUE ELSE users[u].locked
          /\ row \in UserRows
      BY <1>1, <1>2, <2>1 DEF RecordFailure, UserRows
    <2>3. CASE users[u].failed + 1 >= LockThreshold
      BY <2>2, <2>3
    <2>4. CASE ~(users[u].failed + 1 >= LockThreshold)
      <3>1. row.locked = users[u].locked
        BY <2>2, <2>4
      <3>2. ~(users[u].failed >= LockThreshold)
        BY <2>1, <2>4
      <3>3. ~users[u].locked
        BY <2>1, <3>2
      <3> QED
        BY <2>2, <3>1, <3>3
    <2> QED
      BY <2>2, <2>3, <2>4
  <1>4. /\ users' = [users EXCEPT ![u] = row]
        /\ sessions' = sessions /\ End(c) /\ UNCHANGED <<roles, story>>
    BY DEF RecordSigninFailure
  <1> HIDE DEF row, u
  <1> QED
    BY <1>1, <1>3, <1>4, RowStep

LEMMA OpenSessionInvariant ==
    ASSUME IInv, NEW c \in Requests, OpenSession(c)
    PROVE  IInv'
  <1> DEFINE t == [req[c] EXCEPT !.pc = "open"]
  <1>1. CASE Refuse(c)
    BY <1>1, RefuseInvariant
  <1>2. CASE Step(c, t)
    <2>1. req[c] \in RequestRows /\ Fit(req[c]) /\ req[c].pc = "signin"
      BY DEF OpenSession, IInv, TypeOK, Fits
    <2>2. /\ t \in RequestRows /\ t.pc = "open" /\ t.op = req[c].op /\ t.actor = req[c].actor
          /\ t.hash = req[c].hash /\ t.overtaken = req[c].overtaken
      BY <2>1 DEF RequestRows
    <2> HIDE DEF t
    <2>3. Sound(t) /\ t.pc # "change"
      BY <2>1, <2>2 DEF Sound, Fit, UserOps, RoleOps, IInv, Present, SigninsCurrent
    <2> QED
      BY <1>2, <2>3, PlainStep
  <1> QED
    BY <1>1, <1>2 DEF OpenSession

LEMMA CommitSigninInvariant ==
    ASSUME IInv, NEW c \in Requests, CommitSignin(c)
    PROVE  IInv'
  <1> DEFINE u == req[c].actor
             row == ResetFailures(users[u])
             overtaken == req[c].overtaken \/ BeingDisabled(u)
             opened == [NoSession EXCEPT !.user = u, !.hash = req[c].hash, !.overtaken = overtaken,
                                         !.idle = TRUE]
  <1>1. /\ u \in Users /\ users[u] \in UserRows /\ users[u].status # "ABSENT"
        /\ req[c].hash \in Nat /\ req[c].overtaken \in BOOLEAN
    BY DEF CommitSignin, IInv, Fits, Fit, TypeOK, Present, RequestRows
  <1>2. PICK s \in Sessions :
          /\ sessions[s] = NoSession
          /\ ToReset(users[u]) => users[u].revision < MaxRevision
          /\ users' = [users EXCEPT ![u] = row]
          /\ sessions' = [sessions EXCEPT ![s] = opened]
    BY DEF CommitSignin
  <1>3. /\ row \in UserRows
        /\ row.status = users[u].status /\ row.roles = users[u].roles /\ row.hash = users[u].hash
        /\ row.locked => row.failed >= LockThreshold
    <2>1. CASE ToReset(users[u])
      <3>1. users[u].revision + 1 \in 0..MaxRevision
        BY <1>1, <1>2, <2>1, StoriesAssumption DEF UserRows
      <3> QED
        BY <1>1, <2>1, <3>1 DEF ResetFailures, UserRows
    <2>2. CASE ~ToReset(users[u])
      BY <1>1, <2>2 DEF ResetFailures, IInv, TypeOK
    <2> QED
      BY <2>1, <2>2
  <1>4. /\ opened \in SessionRows
        /\ opened.user = u /\ opened.hash = req[c].hash /\ opened.overtaken = overtaken
        /\ ~opened.over
    BY <1>1 DEF NoSession, SessionRows, BeingDisabled
  <1>5. ~overtaken => /\ users[u].hash = req[c].hash /\ users[u].status = "ENABLED"
                      /\ ~BeingDisabled(u)
    BY DEF CommitSignin, IInv, SigninsCurrent
  <1> HIDE DEF row, u, opened, overtaken
  <1>6. Fresh(opened)
    BY <1>1, <1>4, <1>5 DEF Fresh
  <1>7. /\ sessions' \in [Sessions -> SessionRows]
        /\ sessions'[s] = opened
        /\ \A x \in Sessions \ {s} : sessions'[x] = sessions[x]
    BY <1>2, <1>4 DEF IInv, TypeOK
  <1>8. /\ \A x \in Sessions : Lesser(sessions'[x], sessions[x]) \/ Fresh(sessions'[x])
        /\ \A x \in Sessions : sessions'[x].over => ~sessions'[x].idle
    BY <1>4, <1>6, <1>7, SameTables
  <1>9. End(c) /\ UNCHANGED <<roles, story>>
    BY DEF CommitSignin
  <1> QED
    BY <1>1, <1>2, <1>3, <1>7, <1>8, <1>9, RowStep

-----------------------------------------------------------------------------
(* Requests of a session.                                                  *)

\* The request that LoadPrincipal lets in.
Permit(op, s, u, o, given, n) ==
    [Idle EXCEPT !.pc = "permit", !.op = op, !.session = s, !.actor = u, !.target = o,
                 !.given = given, !.revision = n]

LEMMA PermitRecord ==
    ASSUME NEW op \in UserOps \cup RoleOps \cup SessionOps, NEW s \in Sessions, NEW u \in Users,
           NEW o \in Users \cup Roles \cup {None}, NEW given \in SUBSET (Roles \cup Paths),
           NEW n \in 0..MaxRevision
    PROVE  /\ Permit(op, s, u, o, given, n) \in RequestRows
           /\ Permit(op, s, u, o, given, n).pc = "permit"
           /\ Permit(op, s, u, o, given, n).op = op
           /\ Permit(op, s, u, o, given, n).session = s
           /\ Permit(op, s, u, o, given, n).actor = u
           /\ Permit(op, s, u, o, given, n).target = o
           /\ Permit(op, s, u, o, given, n).given = given
  BY IdleFits DEF Permit, Idle, RequestRows

LEMMA LoadPrincipalInvariant ==
    ASSUME IInv, NEW c \in Requests, LoadPrincipal(c)
    PROVE  IInv'
  <1>1. PICK s \in Sessions, ask \in story.asks :
          /\ Usable(s)
          /\ Step(c, Permit(ask.op, s, sessions[s].user, ask.target, ask.given,
                             Revision(ask.op, ask.target)))
    BY DEF LoadPrincipal, Permit
  <1> DEFINE t == Permit(ask.op, s, sessions[s].user, ask.target, ask.given,
                         Revision(ask.op, ask.target))
  <1>2. sessions[s].user \in Users /\ users[sessions[s].user].status # "ABSENT"
    BY <1>1 DEF Usable, IInv, TypeOK, SessionRows
  <1>3. ask \in Asks
    BY StoriesAssumption DEF IInv
  <1>4. /\ ask.op \in UserOps \cup RoleOps \cup SessionOps
        /\ ask.target \in Users \cup Roles \cup {None}
        /\ ask.given \in SUBSET (Roles \cup Paths)
        /\ ask.op \in UserOps => ask.target \in Users /\ ask.given \subseteq Roles
        /\ ask.op \in RoleOps => ask.target \in Roles /\ ask.given \subseteq Paths
    <2>1. CASE ask \in [op : SessionOps, target : {None}, given : {{}}]
      BY <2>1 DEF SessionOps, UserOps, RoleOps
    <2>2. CASE ask \in [op : UserOps, target : Users, given : SUBSET Roles]
      BY <2>2 DEF UserOps, RoleOps
    <2>3. CASE ask \in [op : RoleOps, target : Roles, given : SUBSET Paths]
      BY <2>3 DEF UserOps, RoleOps
    <2> QED
      BY <1>3, <2>1, <2>2, <2>3 DEF Asks
  <1>5. Revision(ask.op, ask.target) \in 0..MaxRevision
    <2>1. \A u \in Users : users[u].revision \in 0..MaxRevision
      BY DEF IInv, TypeOK, UserRows
    <2>2. \A r \in Roles : roles[r].revision \in 0..MaxRevision
      BY DEF IInv, TypeOK, RoleRows
    <2>3. 0 \in 0..MaxRevision
      BY StoriesAssumption
    <2> QED
      BY <1>4, <2>1, <2>2, <2>3 DEF Revision
  <1>6. /\ t \in RequestRows
        /\ t.pc = "permit" /\ t.op = ask.op /\ t.session = s /\ t.actor = sessions[s].user
        /\ t.target = ask.target /\ t.given = ask.given
    BY <1>2, <1>4, <1>5, PermitRecord
  <1> HIDE DEF t
  <1>7. Sound(t) /\ t.pc # "change"
    BY <1>2, <1>4, <1>6 DEF Sound, Fit, UserOps, RoleOps, SessionOps
  <1> QED
    BY <1>1, <1>7, PlainStep DEF t

\* A request that goes on with what it holds.
LEMMA OnwardSound ==
    ASSUME IInv, NEW c \in Requests, NEW t \in RequestRows,
           req[c].pc \in {"permit", "admitted"},
           t.pc \in {"admitted", "lock"}, t.pc = "lock" => req[c].op = "password",
           t.op = req[c].op, t.session = req[c].session, t.actor = req[c].actor,
           t.target = req[c].target, t.given = req[c].given
    PROVE  Sound(t) /\ t.pc # "change"
  <1>1. Fit(req[c]) /\ users[req[c].actor].status # "ABSENT"
    BY DEF IInv, Fits, Present
  <1> QED
    BY <1>1 DEF Sound, Fit

\* Ended, or admitted, with sessions revoked or used on.
LEMMA SessionsStep ==
    ASSUME IInv, NEW c \in Requests, NEW t, Set(c, t), Sound(t), t.pc # "change",
           UNCHANGED <<users, roles, story>>,
           NEW s \in Sessions, NEW row \in SessionRows,
           Lesser(row, sessions[s]), row.over => ~row.idle,
           sessions' = sessions \/ sessions' = [sessions EXCEPT ![s] = row]
    PROVE  IInv'
  <1>1. /\ sessions' \in [Sessions -> SessionRows]
        /\ \A x \in Sessions : sessions'[x] = sessions[x] \/ (x = s /\ sessions'[x] = row)
    BY DEF IInv, TypeOK
  <1>2. /\ \A x \in Sessions : Lesser(sessions'[x], sessions[x]) \/ Fresh(sessions'[x])
        /\ \A x \in Sessions : sessions'[x].over => ~sessions'[x].idle
    BY <1>1, SameTables
  <1> QED
    BY <1>1, <1>2, SameTables, RequestStep

LEMMA AuthorizeInvariant ==
    ASSUME IInv, NEW c \in Requests, Authorize(c)
    PROVE  IInv'
  <1> DEFINE s == req[c].session
             t == [req[c] EXCEPT !.pc = "admitted"]
  <1>1. /\ s \in Sessions /\ sessions[s] \in SessionRows /\ req[c] \in RequestRows
        /\ sessions[s].over => ~sessions[s].idle
    BY DEF Authorize, IInv, Fits, Fit, TypeOK
  <1>2. /\ Revoked(sessions[s]) \in SessionRows /\ Lesser(Revoked(sessions[s]), sessions[s])
        /\ Revoked(sessions[s]).over => ~Revoked(sessions[s]).idle
    BY <1>1 DEF Revoked, SessionRows, Lesser
  <1>3. /\ Touched(sessions[s]) \in SessionRows /\ Lesser(Touched(sessions[s]), sessions[s])
        /\ Touched(sessions[s]).over => ~Touched(sessions[s]).idle
    BY <1>1 DEF Touched, SessionRows, Lesser
  <1>4. Sound(t) /\ t.pc # "change"
    <2>1. /\ t \in RequestRows /\ t.pc = "admitted" /\ t.op = req[c].op /\ t.session = s
          /\ t.actor = req[c].actor /\ t.target = req[c].target /\ t.given = req[c].given
      BY <1>1 DEF RequestRows
    <2> HIDE DEF t
    <2> QED
      BY <2>1, OnwardSound DEF Authorize
  <1>5. CASE sessions' = [sessions EXCEPT ![s] = Revoked(@)] /\ End(c)
    BY <1>1, <1>2, <1>5, SoundIdle, SessionsStep DEF Authorize, End
  <1>6. CASE sessions' = sessions /\ End(c)
    BY <1>1, <1>2, <1>6, SoundIdle, SessionsStep DEF Authorize, End
  <1>7. CASE sessions' = [sessions EXCEPT ![s] = Touched(@)] /\ Set(c, t)
    BY <1>1, <1>3, <1>4, <1>7, SessionsStep DEF Authorize
  <1> QED
    BY <1>5, <1>6, <1>7 DEF Authorize

LEMMA SignoutSessionInvariant ==
    ASSUME IInv, NEW c \in Requests, SignoutSession(c)
    PROVE  IInv'
  <1> DEFINE s == req[c].session
  <1>1. /\ s \in Sessions /\ sessions[s] \in SessionRows
        /\ sessions[s].over => ~sessions[s].idle
    BY DEF SignoutSession, Do, IInv, Fits, Fit, TypeOK
  <1>2. /\ Revoked(sessions[s]) \in SessionRows /\ Lesser(Revoked(sessions[s]), sessions[s])
        /\ Revoked(sessions[s]).over => ~Revoked(sessions[s]).idle
    BY <1>1 DEF Revoked, SessionRows, Lesser
  <1> QED
    BY <1>1, <1>2, SoundIdle, SessionsStep DEF SignoutSession, End

LEMMA SaveProfileInvariant ==
    ASSUME IInv, NEW c \in Requests, SaveProfile(c)
    PROVE  IInv'
  <1> DEFINE u == req[c].actor
             row == [users[u] EXCEPT !.revision = @ + 1]
  <1>1. CASE Refuse(c)
    BY <1>1, RefuseInvariant
  <1>2. CASE /\ users[u].revision < MaxRevision /\ users' = [users EXCEPT ![u].revision = @ + 1]
             /\ End(c) /\ UNCHANGED <<roles, sessions, attempts, story>>
    <2>1. /\ u \in Users /\ users[u] \in UserRows
          /\ users[u].locked => users[u].failed >= LockThreshold
      BY DEF SaveProfile, Do, IInv, Fits, Fit, TypeOK
    <2>2. users[u].revision + 1 \in 0..MaxRevision
      BY <1>2, <2>1, StoriesAssumption DEF UserRows
    <2>3. /\ row \in UserRows /\ row.locked = users[u].locked /\ row.failed = users[u].failed
          /\ row.status = users[u].status /\ row.roles = users[u].roles /\ row.hash = users[u].hash
      BY <2>1, <2>2 DEF UserRows
    <2>4. users' = [users EXCEPT ![u] = row]
      BY <1>2
    <2> HIDE DEF row, u
    <2> QED
      BY <1>2, <2>1, <2>3, <2>4, RowStep
  <1> QED
    BY <1>1, <1>2 DEF SaveProfile

-----------------------------------------------------------------------------
(* Password change.                                                        *)

LEMMA VerifyPasswordInvariant ==
    ASSUME IInv, NEW c \in Requests, VerifyPassword(c)
    PROVE  IInv'
  <1> DEFINE u == req[c].actor
             t == [req[c] EXCEPT !.pc = "lock", !.hash = users[u].hash, !.revision = users[u].revision]
  <1>1. CASE Refuse(c)
    BY <1>1, RefuseInvariant
  <1>2. CASE Step(c, t)
    <2>1. /\ u \in Users /\ users[u] \in UserRows /\ req[c] \in RequestRows
          /\ req[c].pc = "admitted" /\ req[c].op = "password"
      BY DEF VerifyPassword, Do, IInv, Fits, Fit, TypeOK
    <2>2. users[u].hash \in Nat /\ users[u].revision \in 0..MaxRevision
      BY <2>1 DEF UserRows
    <2>3. /\ t \in RequestRows /\ t.pc = "lock" /\ t.op = req[c].op /\ t.session = req[c].session
          /\ t.actor = req[c].actor /\ t.target = req[c].target /\ t.given = req[c].given
      BY <2>1, <2>2 DEF RequestRows
    <2> HIDE DEF t
    <2>4. Sound(t) /\ t.pc # "change"
      BY <2>1, <2>3, OnwardSound
    <2> QED
      BY <1>2, <2>4, PlainStep
  <1> QED
    BY <1>1, <1>2 DEF VerifyPassword

LEMMA LockPasswordUserInvariant ==
    ASSUME IInv, NEW c \in Requests, LockPasswordUser(c)
    PROVE  IInv'
  <1> DEFINE t == [req[c] EXCEPT !.pc = "change"]
  <1>1. CASE Refuse(c)
    BY <1>1, RefuseInvariant
  <1>2. CASE Unchanged(c) /\ Step(c, t)
    <2>1. req[c] \in RequestRows /\ Fit(req[c]) /\ req[c].pc = "lock" /\ req[c].op = "password"
      BY DEF LockPasswordUser, IInv, TypeOK, Fits
    <2>2. /\ t \in RequestRows /\ t.pc = "change" /\ t.op = "password" /\ t.actor = req[c].actor
          /\ t.hash = req[c].hash
      BY <2>1 DEF RequestRows
    <2>3. req' = [req EXCEPT ![c] = t] /\ UNCHANGED <<users, roles, sessions, story>>
      BY <1>2 DEF Step, Set
    <2> HIDE DEF t
    <2>4. Sound(t)
      BY <1>2, <2>1, <2>2 DEF Sound, Fit, Unchanged, UserOps, RoleOps, IInv, Present
    <2>5. /\ req' \in [Requests -> RequestRows]
          /\ req'[c] = t
          /\ \A d \in Requests \ {c} : req'[d] = req[d]
      BY <2>2, <2>3 DEF IInv, TypeOK
    <2>6. \A d \in Requests \ {c} : LocksOwnRow(d) => req[d].actor # req[c].actor
      BY DEF LockPasswordUser, FreeForUpdate, Writes, LocksOwnRow, UserOps
    <2>7. \A d, e \in Requests : LocksOwnRow(d)' /\ LocksOwnRow(e)' /\ d # e =>
              req'[d].actor # req'[e].actor
      BY <2>2, <2>5, <2>6 DEF LocksOwnRow, IInv, PasswordsHeld
    <2> QED
      BY <2>3, <2>4, <2>5, <2>7, SameTables, QuietStep
  <1> QED
    BY <1>1, <1>2 DEF LockPasswordUser

\* What Overtake leaves of the requests that do not end.
LEMMA OvertakeLeaves ==
    ASSUME IInv, NEW c \in Requests, NEW u, NEW where \in SUBSET {"signin", "open"},
           req' = [Overtake(u, where) EXCEPT ![c] = Idle]
    PROVE  /\ req' \in [Requests -> RequestRows]
           /\ req'[c] = Idle
           /\ \A d \in Requests \ {c} :
                /\ req'[d] = req[d] \/ OvertakenNow(d)
                /\ req'[d].pc = req[d].pc /\ req'[d].op = req[d].op /\ req'[d].actor = req[d].actor
                /\ req'[d].pc \in where /\ req'[d].actor = u => req'[d].overtaken
  <1>1. \A d \in Requests : req[d] \in RequestRows /\ Fit(req[d])
    BY DEF IInv, TypeOK, Fits
  <1>2. ASSUME NEW t \in RequestRows
        PROVE  [t EXCEPT !.overtaken = TRUE] \in RequestRows
    BY DEF RequestRows
  <1>3. /\ req' \in [Requests -> RequestRows] /\ req'[c] = Idle
        /\ \A d \in Requests \ {c} :
              req'[d] = IF req[d].pc \in where /\ req[d].actor = u
                        THEN [req[d] EXCEPT !.overtaken = TRUE] ELSE req[d]
    BY <1>1, <1>2, IdleFits DEF Overtake
  <1>4. ASSUME NEW d \in Requests \ {c}
        PROVE  /\ req'[d] = req[d] \/ OvertakenNow(d)
               /\ req'[d].pc = req[d].pc /\ req'[d].op = req[d].op /\ req'[d].actor = req[d].actor
               /\ req'[d].pc \in where /\ req'[d].actor = u => req'[d].overtaken
    <2>1. CASE req[d].pc \in where /\ req[d].actor = u
      <3>1. req'[d] = [req[d] EXCEPT !.overtaken = TRUE] /\ req[d] \in RequestRows
        BY <1>1, <1>3, <2>1
      <3>2. req[d].op = "signin"
        BY <1>1, <2>1 DEF Fit
      <3> QED
        BY <3>1, <3>2 DEF OvertakenNow, RequestRows
    <2>2. CASE ~(req[d].pc \in where /\ req[d].actor = u)
      BY <1>3, <2>2
    <2> QED
      BY <2>1, <2>2
  <1> QED
    BY <1>3, <1>4

LEMMA CommitPasswordInvariant ==
    ASSUME IInv, KeysHeld, NEW c \in Requests, CommitPassword(c)
    PROVE  IInv'
  <1> DEFINE u == req[c].actor
             row == UpdatePassword(users[u])
             set == {u}
  <1>1. /\ u \in Users /\ users[u] \in UserRows /\ req[c].op = "password"
        /\ req[c].pc = "change" /\ users[u].revision < MaxRevision
    BY DEF CommitPassword, IInv, Fits, Fit, TypeOK
  <1>2. users[u].revision + 1 \in 0..MaxRevision
    BY <1>1, StoriesAssumption DEF UserRows
  <1>3. /\ row \in UserRows /\ ~row.locked
        /\ row.status = users[u].status /\ row.roles = users[u].roles
    <2>1. users[u].hash \in Nat /\ users[u].hash + 1 \in Nat
      BY <1>1 DEF UserRows
    <2> QED
      BY <1>1, <1>2, <2>1 DEF UpdatePassword, UserRows
  <1>4. users' = [users EXCEPT ![u] = row]
    BY DEF CommitPassword
  <1>5. /\ req' \in [Requests -> RequestRows] /\ req'[c] = Idle
        /\ \A d \in Requests \ {c} :
             /\ req'[d] = req[d] \/ OvertakenNow(d)
             /\ req'[d].pc \in {"signin", "open"} /\ req'[d].actor = u => req'[d].overtaken
    <2>1. \A d \in Requests : req[d].pc = "open" => req[d].actor # u
      BY <1>1 DEF KeysHeld, LocksOwnRow
    <2>2. req' = [Overtake(u, {"signin"}) EXCEPT ![c] = Idle]
      BY DEF CommitPassword
    <2> HIDE DEF u
    <2>3. /\ req' \in [Requests -> RequestRows] /\ req'[c] = Idle
          /\ \A d \in Requests \ {c} :
               /\ req'[d] = req[d] \/ OvertakenNow(d)
               /\ req'[d].pc = req[d].pc /\ req'[d].actor = req[d].actor
               /\ req'[d].pc \in {"signin"} /\ req'[d].actor = u => req'[d].overtaken
      BY <2>2, OvertakeLeaves
    <2> QED
      BY <2>1, <2>3
  <1>6. /\ sessions' \in [Sessions -> SessionRows]
        /\ \A s \in Sessions : sessions'[s] = IF sessions[s].user = u THEN Revoked(sessions[s]) ELSE sessions[s]
    <2>1. \A s \in Sessions : Revoked(sessions[s]) \in SessionRows
      BY LesserSelf DEF IInv, Lesser
    <2> QED
      BY <2>1 DEF CommitPassword, RevokeUserSessions, IInv, TypeOK
  <1>7. UNCHANGED <<roles, story>>
    BY DEF CommitPassword
  <1> HIDE DEF row, u, set
  <1>8. /\ users' \in [Users -> UserRows] /\ users'[u] = row
        /\ \A v \in Users \ {u} : users'[v] = users[v]
    BY <1>1, <1>3, <1>4 DEF IInv, TypeOK
  <1>9. /\ Alike(users, users')
        /\ \A v \in Users : users'[v].locked => users'[v].failed >= LockThreshold
        /\ \A v \in Users : users[v].status # "ABSENT" => users'[v].status # "ABSENT"
        /\ \A v \in Users \ set : users'[v].hash = users[v].hash /\ users'[v].status = users[v].status
    BY <1>3, <1>8 DEF Alike, IInv, TypeOK, set
  <1>10. /\ \A s \in Sessions : Lesser(sessions'[s], sessions[s])
         /\ \A s \in Sessions : sessions'[s].over => ~sessions'[s].idle
         /\ \A s \in Sessions : sessions'[s].user \in set => sessions'[s].revoked \/ sessions'[s].overtaken
    <2> SUFFICES ASSUME NEW s \in Sessions
                 PROVE  /\ Lesser(sessions'[s], sessions[s])
                        /\ sessions'[s].over => ~sessions'[s].idle
                        /\ sessions'[s].user \in set => sessions'[s].revoked \/ sessions'[s].overtaken
      OBVIOUS
    <2>1. sessions[s] \in SessionRows /\ (sessions[s].over => ~sessions[s].idle)
      BY DEF IInv, TypeOK
    <2>2. CASE sessions[s].user = u
      BY <1>6, <2>1, <2>2 DEF Revoked, SessionRows, Lesser
    <2>3. CASE sessions[s].user # u
      BY <1>6, <2>1, <2>3 DEF SessionRows, Lesser, set
    <2> QED
      BY <2>2, <2>3
  <1>11. \A d \in Requests : LocksOwnRow(d)' => d # c /\ LocksOwnRow(d) /\ req'[d] = req[d]
    <2>1. \A d \in Requests : OvertakenNow(d) => req'[d].op = "signin"
      BY DEF OvertakenNow, IInv, TypeOK, RequestRows
    <2> QED
      BY <1>5, <2>1, SoundIdle DEF LocksOwnRow
  <1>12. \A d \in Requests : LocksOwnRow(d)' => req'[d].actor \in Users \ {u}
    BY <1>1, <1>11 DEF IInv, PasswordsHeld, LocksOwnRow, Fits, Fit, u
  <1>13. /\ \A d \in Requests : LocksOwnRow(d)' =>
              users'[req'[d].actor].hash = users[req'[d].actor].hash
         /\ \A d, e \in Requests : LocksOwnRow(d)' /\ LocksOwnRow(e)' /\ d # e =>
              req'[d].actor # req'[e].actor
    BY <1>8, <1>11, <1>12 DEF IInv, PasswordsHeld
  <1>14. /\ \A d \in Requests : req'[d] = req[d] \/ Sound(req'[d]) \/ OvertakenNow(d)
         /\ \A d \in Requests : req'[d].pc \in {"signin", "open"} /\ req'[d].actor \in set =>
                req'[d].overtaken
    BY <1>5, SoundIdle, IdleFits DEF set
  <1>15. /\ roles' \in [Roles -> RoleRows]
         /\ \A r \in Roles \ {Superadmin} : \A p \in roles'[r].permissions :
                ReadOf(p) \in roles'[r].permissions
    BY <1>7 DEF IInv, TypeOK
  <1>16. set \in SUBSET Users
    BY <1>1 DEF set
  <1>17. (TypeOK /\ Fits /\ Present /\ SigninsCurrent /\ PasswordsHeld /\ LiveSessionsAreCurrent)'
    BY <1>6, <1>8, <1>9, <1>10, <1>5, <1>13, <1>14, <1>15, <1>16, CarefulStep
  <1>18. (AuthorityHeld /\ NobodyLockedOut)'
    BY <1>7, <1>8, <1>9, <1>10, <1>14, AuthorityUndisturbed
  <1> QED
    BY <1>7, <1>17, <1>18 DEF IInv

-----------------------------------------------------------------------------
(* Changes of users and roles.                                             *)

LEMMA AcquireAuthorityInvariant ==
    ASSUME IInv, NEW c \in Requests, AcquireAuthority(c)
    PROVE  IInv'
  <1> DEFINE revoking == IF req[c].op = "disable user"
                         THEN {s \in Sessions : sessions[s].user = req[c].target} ELSE {}
             t == [req[c] EXCEPT !.pc = "change", !.revoking = revoking]
  <1>1. CASE Refuse(c)
    BY <1>1, RefuseInvariant
  <1>2. CASE ChangeAllowed(c) /\ Step(c, t)
    <2>1. /\ req[c] \in RequestRows /\ Fit(req[c]) /\ users[req[c].actor].status # "ABSENT"
          /\ req[c].op \in UserOps \cup RoleOps /\ req[c].pc = "admitted"
      BY DEF AcquireAuthority, IInv, TypeOK, Fits, Present
    <2>2. /\ t \in RequestRows /\ t.pc = "change" /\ t.op = req[c].op /\ t.actor = req[c].actor
          /\ t.target = req[c].target /\ t.given = req[c].given /\ t.revoking = revoking
      BY <2>1 DEF RequestRows
    <2>3. req' = [req EXCEPT ![c] = t] /\ UNCHANGED <<users, roles, sessions, story>>
      BY <1>2 DEF Step, Set
    <2> HIDE DEF t, revoking
    <2>4. Changing(t)
      BY <2>1, <2>2 DEF Changing, Fit, UserOps, RoleOps
    <2>5. /\ req' \in [Requests -> RequestRows]
          /\ req'[c] = t
          /\ \A d \in Requests \ {c} : req'[d] = req[d]
      BY <2>2, <2>3 DEF IInv, TypeOK
    <2>6. \A d \in Requests : LocksOwnRow(d)' => d # c /\ LocksOwnRow(d) /\ req'[d] = req[d]
      BY <2>4, <2>5 DEF LocksOwnRow, Changing
    <2>7. (TypeOK /\ Fits /\ Present /\ SigninsCurrent /\ PasswordsHeld /\ LiveSessionsAreCurrent)'
      <3> DEFINE none == {}
      <3>1. none \in SUBSET Users /\ \A x : x \notin none
        OBVIOUS
      <3> HIDE DEF none
      <3>2. \A d, e \in Requests : LocksOwnRow(d)' /\ LocksOwnRow(e)' /\ d # e =>
                req'[d].actor # req'[e].actor
        BY <2>6 DEF IInv, PasswordsHeld
      <3>3. /\ roles' \in [Roles -> RoleRows]
            /\ \A r \in Roles \ {Superadmin} : \A p \in roles'[r].permissions :
                  ReadOf(p) \in roles'[r].permissions
        BY <2>3 DEF IInv, TypeOK
      <3> QED
        BY <2>3, <2>4, <2>5, <3>1, <3>2, <3>3, SameTables, CarefulStep
    <2>8. AuthorityHeld'
      <3>1. \A d \in Requests : HoldsAuthority(d)' => d = c
        <4>1. \A d \in Requests \ {c} : ~HoldsAuthority(d)
          BY DEF AcquireAuthority, AuthorityFree
        <4> QED
          BY <2>5, <4>1 DEF HoldsAuthority
      <3>2. Governed(UsersAfter(c), RolesAfter(c))
        BY <1>2, <2>1, AllowedGoverned DEF Fit, IInv
      <3>3. UsersAfter(c)' = UsersAfter(c) /\ RolesAfter(c)' = RolesAfter(c)
        BY <2>2, <2>3, <2>5 DEF UsersAfter, RolesAfter
      <3>4. Governed(UsersAfter(c), RolesAfter(c))'
        BY <3>2, <3>3
      <3>5. req[c].op = "create user" => users[req[c].target].status = "ABSENT"
        <4>1. NoUser.status = "ABSENT"
          BY DEF NoUser
        <4>2. req[c].op = "create user" => CreateUserAllowed(c)
          BY <1>2 DEF ChangeAllowed
        <4> QED
          BY <4>1, <4>2 DEF CreateUserAllowed
      <3>8. req[c].op = "enable user" => users[req[c].target].status # "ENABLED"
        BY <1>2 DEF ChangeAllowed, SetUserStatusAllowed
      <3>6. req[c].op \in {"create role", "save role"} /\ req[c].target # Superadmin =>
              ValidPermissions(req[c].given)
        BY <1>2 DEF ChangeAllowed, CreateRoleAllowed, SaveRoleAllowed
      <3>7. req[c].op = "disable user" =>
              \A s \in Sessions : sessions[s].user = req[c].target => s \in revoking
        BY DEF revoking
      <3> QED
        BY <2>2, <2>3, <2>5, <3>1, <3>4, <3>5, <3>6, <3>7, <3>8 DEF AuthorityHeld
    <2>9. NobodyLockedOut'
      BY <2>3 DEF IInv, NobodyLockedOut, PermissionsOf
    <2> QED
      BY <2>3, <2>7, <2>8, <2>9 DEF IInv
  <1> QED
    BY <1>1, <1>2 DEF AcquireAuthority

\* The rows of users that a change leaves.
UserRowsFine(c) ==
    /\ UsersAfter(c) \in [Users -> UserRows]
    /\ \A u \in Users : UsersAfter(c)[u].locked => UsersAfter(c)[u].failed >= LockThreshold
    /\ \A u \in Users : users[u].status # "ABSENT" =>
         UsersAfter(c)[u].status # "ABSENT" /\ UsersAfter(c)[u].hash = users[u].hash
    /\ \A u \in Users :
         \/ UsersAfter(c)[u].hash = users[u].hash /\ UsersAfter(c)[u].status = users[u].status
         \/ u = req[c].target /\ req[c].op \in {"create user", "enable user", "disable user"}
    /\ req[c].op = "enable user" => UsersAfter(c)[req[c].target].status = "ENABLED"

LEMMA UsersAfterFine ==
    ASSUME IInv, NEW c \in Requests, HoldsAuthority(c),
           req[c].op \in UserOps => users[req[c].target].revision < MaxRevision
    PROVE  UserRowsFine(c)
  <1> USE DEF UserRowsFine
  <1> DEFINE o == req[c].target
  <1>1. CASE req[c].op \notin UserOps
    <2>1. UsersAfter(c) = users
      BY <1>1 DEF UsersAfter, UserOps
    <2> QED
      BY <1>1, <2>1 DEF IInv, TypeOK, UserOps
  <1>2. CASE req[c].op \in UserOps
    <2>1. /\ o \in Users /\ users[o] \in UserRows /\ req[c].given \in SUBSET Roles
          /\ users[o].locked => users[o].failed >= LockThreshold
      BY <1>2 DEF IInv, TypeOK, Fits, Fit
    <2>2. users[o].revision + 1 \in 0..MaxRevision /\ 1 \in 0..MaxRevision
      BY <1>2, <2>1, StoriesAssumption DEF UserRows
    <2>3. ASSUME NEW row \in UserRows, UsersAfter(c) = [users EXCEPT ![o] = row]
          PROVE  /\ UsersAfter(c) \in [Users -> UserRows]
                 /\ UsersAfter(c)[o] = row
                 /\ \A u \in Users \ {o} :
                      UsersAfter(c)[u] = users[u] /\ (users[u].locked => users[u].failed >= LockThreshold)
      BY <2>1, <2>3 DEF IInv, TypeOK
    <2>4. CASE req[c].op = "create user"
      <3> DEFINE row == InsertUser(req[c].given)
      <3>1. row \in UserRows /\ ~row.locked
        BY <2>1, <2>2 DEF InsertUser, UserRows, Status
      <3>2. UsersAfter(c) = [users EXCEPT ![o] = row]
        BY <2>4 DEF UsersAfter
      <3>3. users[o].status = "ABSENT"
        BY <2>4 DEF IInv, AuthorityHeld
      <3> HIDE DEF row
      <3> QED
        BY <2>1, <2>3, <2>4, <3>1, <3>2, <3>3
    <2>5. CASE req[c].op = "save user"
      <3> DEFINE row == UpdateUser(users[o], req[c].given)
      <3>1. /\ row \in UserRows /\ row.status = users[o].status /\ row.hash = users[o].hash
            /\ row.locked = users[o].locked /\ row.failed = users[o].failed
        BY <2>1, <2>2 DEF UpdateUser, UserRows
      <3>2. UsersAfter(c) = [users EXCEPT ![o] = row]
        BY <2>5 DEF UsersAfter
      <3> HIDE DEF row, o
      <3> QED
        BY <2>1, <2>3, <2>5, <3>1, <3>2 DEF o
    <2>6. ASSUME NEW s \in {"ENABLED", "DISABLED"},
                 req[c].op = IF s = "ENABLED" THEN "enable user" ELSE "disable user"
          PROVE  UserRowsFine(c)
      <3> DEFINE row == WithStatus(users[o], s)
      <3>1. /\ row \in UserRows /\ row.status = s /\ row.hash = users[o].hash
            /\ row.locked = users[o].locked /\ row.failed = users[o].failed
        BY <2>1, <2>2 DEF WithStatus, UserRows, Status
      <3>2. UsersAfter(c) = [users EXCEPT ![o] = row]
        BY <2>6 DEF UsersAfter
      <3> HIDE DEF row, o
      <3> QED
        BY <2>1, <2>3, <2>6, <3>1, <3>2 DEF o
    <2> QED
      BY <1>2, <2>4, <2>5, <2>6 DEF UserOps
  <1> QED
    BY <1>1, <1>2

LEMMA RolesAfterFine ==
    ASSUME IInv, NEW c \in Requests, HoldsAuthority(c),
           req[c].op \in RoleOps => roles[req[c].target].revision < MaxRevision
    PROVE  /\ RolesAfter(c) \in [Roles -> RoleRows]
           /\ \A r \in Roles \ {Superadmin} : \A p \in RolesAfter(c)[r].permissions :
                ReadOf(p) \in RolesAfter(c)[r].permissions
  <1> DEFINE o == req[c].target
             closed == \A r \in Roles \ {Superadmin} : \A p \in RolesAfter(c)[r].permissions :
                           ReadOf(p) \in RolesAfter(c)[r].permissions
  <1>1. CASE req[c].op \notin RoleOps
    <2>1. RolesAfter(c) = roles
      BY <1>1 DEF RolesAfter, RoleOps
    <2> QED
      BY <2>1 DEF IInv, TypeOK
  <1>2. CASE req[c].op \in RoleOps
    <2>1. /\ o \in Roles /\ roles[o] \in RoleRows /\ req[c].given \in SUBSET Paths
          /\ o # Superadmin => \A p \in roles[o].permissions : ReadOf(p) \in roles[o].permissions
      BY <1>2 DEF IInv, TypeOK, Fits, Fit
    <2>2. roles[o].revision + 1 \in 0..MaxRevision /\ 1 \in 0..MaxRevision
      BY <1>2, <2>1, StoriesAssumption DEF RoleRows
    <2>3. ASSUME NEW row \in RoleRows, RolesAfter(c) = [roles EXCEPT ![o] = row],
                 o # Superadmin => \A p \in row.permissions : ReadOf(p) \in row.permissions
          PROVE  RolesAfter(c) \in [Roles -> RoleRows] /\ closed
      <3>1. /\ RolesAfter(c) \in [Roles -> RoleRows] /\ RolesAfter(c)[o] = row
            /\ \A r \in Roles \ {o} : RolesAfter(c)[r] = roles[r]
        BY <2>1, <2>3 DEF IInv, TypeOK
      <3> QED
        BY <2>3, <3>1 DEF IInv, TypeOK
    <2>4. req[c].op \in {"create role", "save role"} /\ o # Superadmin =>
            \A p \in req[c].given : ReadOf(p) \in req[c].given
      BY DEF IInv, AuthorityHeld, ValidPermissions
    <2> HIDE DEF closed
    <2>5. CASE req[c].op = "create role"
      <3> DEFINE row == InsertRole(req[c].given)
      <3>1. row \in RoleRows /\ row.permissions = req[c].given
        BY <2>1, <2>2 DEF InsertRole, RoleRows, Status
      <3>2. RolesAfter(c) = [roles EXCEPT ![o] = row]
        BY <2>5 DEF RolesAfter
      <3> HIDE DEF row, o
      <3> QED
        BY <2>3, <2>4, <2>5, <3>1, <3>2 DEF closed
    <2>6. CASE req[c].op = "save role"
      <3> DEFINE row == UpdateRole(o, roles[o], req[c].given)
      <3>1. row \in RoleRows /\ (o # Superadmin => row.permissions = req[c].given)
        BY <2>1, <2>2 DEF UpdateRole, RoleRows
      <3>2. RolesAfter(c) = [roles EXCEPT ![o] = row]
        BY <2>6 DEF RolesAfter
      <3> HIDE DEF row, o
      <3> QED
        BY <2>3, <2>4, <2>6, <3>1, <3>2 DEF closed
    <2>7. ASSUME NEW s \in {"ENABLED", "DISABLED"},
                 req[c].op = IF s = "ENABLED" THEN "enable role" ELSE "disable role"
          PROVE  RolesAfter(c) \in [Roles -> RoleRows] /\ closed
      <3> DEFINE row == WithStatus(roles[o], s)
      <3>1. row \in RoleRows /\ row.permissions = roles[o].permissions
        BY <2>1, <2>2 DEF WithStatus, RoleRows, Status
      <3>2. RolesAfter(c) = [roles EXCEPT ![o] = row]
        BY <2>7 DEF RolesAfter
      <3> HIDE DEF row, o
      <3> QED
        BY <2>1, <2>3, <3>1, <3>2 DEF closed, o
    <2> QED
      BY <1>2, <2>5, <2>6, <2>7 DEF RoleOps, closed
  <1> QED
    BY <1>1, <1>2

LEMMA CommitChangeInvariant ==
    ASSUME IInv, NEW c \in Requests, CommitChange(c)
    PROVE  IInv'
  <1> DEFINE o == req[c].target
             op == req[c].op
             set == IF op \in {"create user", "enable user", "disable user"} THEN {o} ELSE {}
  <1>1. /\ HoldsAuthority(c) /\ op # "signin" /\ op # "password" /\ op \in UserOps \cup RoleOps
        /\ req[c].pc = "change" /\ req[c] \in RequestRows
    BY DEF CommitChange, HoldsAuthority, UserOps, RoleOps, IInv, TypeOK
  <1>2. /\ UserRowsFine(c)
        /\ RolesAfter(c) \in [Roles -> RoleRows]
        /\ \A r \in Roles \ {Superadmin} : \A p \in RolesAfter(c)[r].permissions :
                ReadOf(p) \in RolesAfter(c)[r].permissions
    BY <1>1, UsersAfterFine, RolesAfterFine DEF CommitChange
  <1>3. users' = UsersAfter(c) /\ roles' = RolesAfter(c) /\ story' = story
    BY DEF CommitChange
  <1>4. /\ req' \in [Requests -> RequestRows] /\ req'[c] = Idle
        /\ \A d \in Requests \ {c} : req'[d] = req[d] \/ OvertakenNow(d)
        /\ op = "disable user" => \A d \in Requests \ {c} :
              req'[d].pc \in {"signin", "open"} /\ req'[d].actor = o => req'[d].overtaken
        /\ op # "disable user" => \A d \in Requests \ {c} : req'[d] = req[d]
    <2>1. CASE op = "disable user"
      BY <1>1, <2>1, OvertakeLeaves DEF CommitChange
    <2>2. CASE op # "disable user"
      BY <2>2, IdleFits DEF CommitChange, IInv, TypeOK
    <2> QED
      BY <2>1, <2>2
  <1>5. /\ sessions' \in [Sessions -> SessionRows]
        /\ \A s \in Sessions :
             sessions'[s] = IF s \in req[c].revoking THEN Revoked(sessions[s]) ELSE sessions[s]
    <2>1. \A s \in Sessions : Revoked(sessions[s]) \in SessionRows
      BY LesserSelf DEF IInv, Lesser
    <2> QED
      BY <2>1 DEF CommitChange, IInv, TypeOK
  <1>6. op \in UserOps => o \in Users
    BY DEF IInv, Fits, Fit
  <1>7. set \in SUBSET Users
    BY <1>6 DEF UserOps
  <1>8. ASSUME NEW s \in Sessions
        PROVE  /\ Lesser(sessions'[s], sessions[s])
               /\ sessions'[s].over => ~sessions'[s].idle
               /\ sessions'[s].user = sessions[s].user
               /\ sessions'[s].overtaken = sessions[s].overtaken
               /\ sessions[s].revoked => sessions'[s].revoked
               /\ s \in req[c].revoking => sessions'[s].revoked
    <2>1. sessions[s] \in SessionRows /\ (sessions[s].over => ~sessions[s].idle)
      BY DEF IInv, TypeOK
    <2>2. CASE s \in req[c].revoking
      BY <1>5, <2>1, <2>2 DEF Revoked, SessionRows, Lesser
    <2>3. CASE s \notin req[c].revoking
      BY <1>5, <2>1, <2>3 DEF SessionRows, Lesser
    <2> QED
      BY <2>2, <2>3
  <1>9. \A s \in Sessions : sessions'[s].user \in set => sessions'[s].revoked \/ sessions'[s].overtaken
    <2> SUFFICES ASSUME NEW s \in Sessions, sessions[s].user \in set
                 PROVE  sessions'[s].revoked \/ sessions'[s].overtaken
      BY <1>8
    <2>1. CASE op = "create user"
      BY <1>1, <1>6, <2>1, StoriesAssumption DEF IInv, Present, AuthorityHeld, UserOps
    <2>2. CASE op = "enable user"
      <3>1. users[o].status # "ENABLED"
        BY <1>1, <2>2 DEF IInv, AuthorityHeld
      <3> QED
        BY <1>6, <1>8, <2>2, <3>1, StoriesAssumption DEF IInv, LiveSessionsAreCurrent, UserOps
    <2>3. CASE op = "disable user"
      BY <1>1, <1>8, <2>3 DEF IInv, AuthorityHeld
    <2> QED
      BY <2>1, <2>2, <2>3
  <1>10. \A d \in Requests : req'[d].pc \in {"signin", "open"} /\ req'[d].actor \in set =>
             req'[d].overtaken
    <2> SUFFICES ASSUME NEW d \in Requests, req'[d].pc \in {"signin", "open"}, req'[d].actor \in set
                 PROVE  req'[d].overtaken
      OBVIOUS
    <2>1. d # c
      BY <1>4, SoundIdle, IdleFits
    <2>2. CASE op = "disable user"
      BY <1>4, <2>1, <2>2
    <2>3. CASE op = "enable user"
      <3>1. users[o].status # "ENABLED" /\ req'[d] = req[d]
        BY <1>1, <1>4, <2>1, <2>3 DEF IInv, AuthorityHeld
      <3> QED
        BY <2>3, <3>1 DEF IInv, SigninsCurrent
    <2>4. CASE op = "create user"
      <3>1. users[o].status = "ABSENT" /\ req'[d] = req[d]
        BY <1>1, <1>4, <2>1, <2>4 DEF IInv, AuthorityHeld
      <3> QED
        BY <2>4, <3>1 DEF IInv, Present
    <2> QED
      BY <2>2, <2>3, <2>4
  <1>11. \A d \in Requests : LocksOwnRow(d)' => LocksOwnRow(d) /\ req'[d] = req[d]
    <2>1. \A d \in Requests : OvertakenNow(d) => req'[d].op = "signin"
      BY DEF OvertakenNow, IInv, TypeOK, RequestRows
    <2> QED
      BY <1>4, <2>1, SoundIdle, IdleFits DEF LocksOwnRow
  <1>12. /\ \A d \in Requests : LocksOwnRow(d)' =>
              users'[req'[d].actor].hash = users[req'[d].actor].hash
         /\ \A d, e \in Requests : LocksOwnRow(d)' /\ LocksOwnRow(e)' /\ d # e =>
              req'[d].actor # req'[e].actor
    <2>1. \A d \in Requests : LocksOwnRow(d) =>
            req[d].actor \in Users /\ users[req[d].actor].status # "ABSENT"
      BY DEF LocksOwnRow, IInv, Fits, Fit, Present
    <2>2. \A u \in Users : users[u].status # "ABSENT" => users'[u].hash = users[u].hash
      BY <1>2, <1>3 DEF UserRowsFine
    <2>3. \A d \in Requests : LocksOwnRow(d)' =>
              users'[req'[d].actor].hash = users[req'[d].actor].hash
      BY <1>11, <2>1, <2>2
    <2>4. \A d, e \in Requests : LocksOwnRow(d)' /\ LocksOwnRow(e)' /\ d # e =>
              req'[d].actor # req'[e].actor
      BY <1>11 DEF IInv, PasswordsHeld
    <2> QED
      BY <2>3, <2>4
  <1>13. \A d \in Requests : req'[d] = req[d] \/ Sound(req'[d]) \/ OvertakenNow(d)
    BY <1>4, SoundIdle
  <1>14. \A u \in Users \ set : users'[u].hash = users[u].hash /\ users'[u].status = users[u].status
    BY <1>2, <1>3 DEF UserRowsFine
  <1>15. /\ users' \in [Users -> UserRows]
         /\ \A u \in Users : users[u].status # "ABSENT" => users'[u].status # "ABSENT"
         /\ \A u \in Users : users'[u].locked => users'[u].failed >= LockThreshold
    BY <1>2, <1>3 DEF UserRowsFine
  <1>16. (TypeOK /\ Fits /\ Present /\ SigninsCurrent /\ PasswordsHeld /\ LiveSessionsAreCurrent)'
    <2> HIDE DEF set, op, o
    <2> QED
      BY <1>2, <1>3, <1>4, <1>5, <1>7, <1>8, <1>9, <1>10, <1>12, <1>13, <1>14, <1>15, CarefulStep
  <1>17. AuthorityHeld'
    <2>1. \A d \in Requests : HoldsAuthority(d) => d = c
      BY <1>1 DEF IInv, AuthorityHeld
    <2>2. \A d \in Requests : ~HoldsAuthority(d)'
      <3>1. \A d \in Requests : OvertakenNow(d) => req'[d].op = "signin"
        BY DEF OvertakenNow, IInv, TypeOK, RequestRows
      <3> QED
        BY <1>4, <2>1, <3>1, SoundIdle DEF HoldsAuthority, UserOps, RoleOps, Idle
    <2> QED
      BY <2>2 DEF AuthorityHeld
  <1>18. NobodyLockedOut'
    <2>1. Governed(users', roles')
      BY <1>1, <1>3 DEF IInv, AuthorityHeld
    <2> QED
      BY <2>1 DEF Governed, NobodyLockedOut
  <1> QED
    BY <1>3, <1>16, <1>17, <1>18 DEF IInv

-----------------------------------------------------------------------------
(* Time, and the whole.                                                    *)

LEMMA TickInvariant ==
    ASSUME IInv, Tick
    PROVE  IInv'
  <1>1. \A c, d \in Requests : LocksOwnRow(c)' /\ LocksOwnRow(d)' /\ c # d =>
            req'[c].actor # req'[d].actor
    BY DEF Tick, LocksOwnRow, IInv, PasswordsHeld
  <1>2. req' = req /\ req \in [Requests -> RequestRows] /\ UNCHANGED <<roles, story>>
    BY DEF Tick, IInv, TypeOK
  <1>3. ASSUME NEW s \in Sessions, IdlePasses(s) \/ AbsolutePasses(s), users' = users
        PROVE  IInv'
    <2>1. sessions[s] \in SessionRows
      BY DEF IInv, TypeOK
    <2>2. ASSUME NEW new \in SessionRows, Lesser(new, sessions[s]), ~new.idle,
                 sessions' = [sessions EXCEPT ![s] = new]
          PROVE  IInv'
      <3>1. /\ sessions' \in [Sessions -> SessionRows] /\ sessions'[s] = new
            /\ \A x \in Sessions \ {s} : sessions'[x] = sessions[x]
        BY <2>2 DEF IInv, TypeOK
      <3>2. /\ \A x \in Sessions : Lesser(sessions'[x], sessions[x]) \/ Fresh(sessions'[x])
            /\ \A x \in Sessions : sessions'[x].over => ~sessions'[x].idle
        BY <2>2, <3>1, SameTables
      <3> QED
        BY <1>1, <1>2, <1>3, <3>1, <3>2, SameTables, QuietStep
    <2>3. CASE IdlePasses(s)
      <3> DEFINE new == [sessions[s] EXCEPT !.idle = FALSE]
      <3>1. new \in SessionRows /\ Lesser(new, sessions[s]) /\ ~new.idle
        BY <2>1 DEF SessionRows, Lesser
      <3>2. sessions' = [sessions EXCEPT ![s] = new]
        BY <2>3 DEF IdlePasses
      <3> HIDE DEF new
      <3> QED
        BY <2>2, <3>1, <3>2
    <2>4. CASE AbsolutePasses(s)
      <3> DEFINE new == [sessions[s] EXCEPT !.idle = FALSE, !.over = TRUE]
      <3>1. new \in SessionRows /\ Lesser(new, sessions[s]) /\ ~new.idle
        BY <2>1 DEF SessionRows, Lesser
      <3>2. sessions' = [sessions EXCEPT ![s] = new]
        BY <2>1, <2>4 DEF AbsolutePasses, IInv, TypeOK
      <3> HIDE DEF new
      <3> QED
        BY <2>2, <3>1, <3>2
    <2> QED
      BY <1>3, <2>3, <2>4
  <1>4. ASSUME NEW u \in Users, LockPasses(u), sessions' = sessions
        PROVE  IInv'
    <2> DEFINE row == [users[u] EXCEPT !.locked = FALSE]
    <2>1. users[u] \in UserRows
      BY DEF IInv, TypeOK
    <2>2. /\ row \in UserRows /\ ~row.locked
          /\ row.status = users[u].status /\ row.roles = users[u].roles /\ row.hash = users[u].hash
      BY <2>1 DEF UserRows
    <2>3. users' = [users EXCEPT ![u] = row]
      BY <1>4 DEF LockPasses
    <2> HIDE DEF row
    <2>4. /\ users' \in [Users -> UserRows] /\ users'[u] = row
          /\ \A v \in Users \ {u} : users'[v] = users[v]
      BY <2>2, <2>3 DEF IInv, TypeOK
    <2>5. /\ Alike(users, users')
          /\ \A v \in Users : users'[v].hash = users[v].hash
          /\ \A v \in Users : users'[v].locked => users'[v].failed >= LockThreshold
      BY <2>2, <2>4 DEF Alike, IInv, TypeOK
    <2> QED
      BY <1>1, <1>2, <1>4, <2>4, <2>5, SameTables, QuietStep
  <1> QED
    BY <1>3, <1>4 DEF Tick

\* Who locks the row of its own user was kept waiting by sessions being inserted,
\* and keeps them waiting.
LEMMA KeysStep == IInv /\ KeysHeld /\ [Next]_accessVars => KeysHeld'
  <1> SUFFICES ASSUME IInv, KeysHeld, [Next]_accessVars
               PROVE  KeysHeld'
    OBVIOUS
  <1> DEFINE Passive(t) == t.pc # "open" /\ ~(t.pc = "change" /\ t.op = "password")
  <1>1. ASSUME \A d \in Requests : \/ Passive(req'[d])
                                  \/ /\ req'[d].pc = req[d].pc /\ req'[d].op = req[d].op
                                     /\ req'[d].actor = req[d].actor
        PROVE  KeysHeld'
    BY <1>1 DEF KeysHeld, LocksOwnRow
  <1>2. ASSUME NEW c \in Requests, NEW t, Set(c, t)
        PROVE  req'[c] = t /\ \A d \in Requests \ {c} : req'[d] = req[d]
    BY <1>2 DEF Set, IInv, TypeOK
  <1>3. ASSUME NEW c \in Requests, NEW t, Set(c, t), Passive(t)
        PROVE  KeysHeld'
    BY <1>1, <1>2, <1>3
  <1>4. Passive(Idle)
    BY DEF Idle
  <1>5. ASSUME NEW c \in Requests, Refuse(c)
        PROVE  KeysHeld'
    BY <1>3, <1>4, <1>5 DEF Refuse, End
  <1>6. ASSUME UNCHANGED req
        PROVE  KeysHeld'
    BY <1>1, <1>6
  <1>7. \A c \in Requests : req[c] \in RequestRows
    BY DEF IInv, TypeOK
  <1>8. ASSUME NEW c \in Requests, OpenSession(c)
        PROVE  KeysHeld'
    <2>1. CASE Refuse(c)
      BY <2>1, <1>5
    <2>2. CASE FreeToRefer(c, req[c].actor) /\ Step(c, [req[c] EXCEPT !.pc = "open"])
      <3>1. /\ req'[c].pc = "open" /\ req'[c].actor = req[c].actor
            /\ \A d \in Requests \ {c} : req'[d] = req[d]
        BY <2>2, <1>2, <1>7 DEF Step, RequestRows
      <3>2. \A d \in Requests \ {c} : LocksOwnRow(d) => req[d].actor # req[c].actor
        BY <2>2 DEF FreeToRefer, ForUpdate, Writes, LocksOwnRow, UserOps
      <3> QED
        BY <3>1, <3>2 DEF KeysHeld, LocksOwnRow
    <2> QED
      BY <1>8, <2>1, <2>2 DEF OpenSession
  <1>9. ASSUME NEW c \in Requests, LockPasswordUser(c)
        PROVE  KeysHeld'
    <2>1. CASE Refuse(c)
      BY <2>1, <1>5
    <2>2. CASE Step(c, [req[c] EXCEPT !.pc = "change"])
      <3>1. /\ req'[c].pc = "change" /\ req'[c].actor = req[c].actor
            /\ \A d \in Requests \ {c} : req'[d] = req[d]
        BY <2>2, <1>2, <1>7 DEF Step, RequestRows
      <3>2. \A d \in Requests \ {c} : req[d].pc = "open" => req[d].actor # req[c].actor
        BY <1>9 DEF LockPasswordUser, FreeForUpdate, Refers
      <3> QED
        BY <3>1, <3>2 DEF KeysHeld, LocksOwnRow
    <2> QED
      BY <1>9, <2>1, <2>2 DEF LockPasswordUser
  <1>10. ASSUME NEW c \in Requests, CommitPassword(c)
         PROVE  KeysHeld'
    BY <1>1, <1>4, <1>10, OvertakeLeaves DEF CommitPassword
  <1>11. ASSUME NEW c \in Requests, CommitChange(c)
         PROVE  KeysHeld'
    <2>1. CASE req[c].op = "disable user"
      BY <1>1, <1>4, <1>11, <2>1, OvertakeLeaves DEF CommitChange
    <2>2. CASE req[c].op # "disable user"
      BY <1>3, <1>4, <1>11, <2>2 DEF CommitChange, Set
    <2> QED
      BY <2>1, <2>2
  <1>12. ASSUME NEW c \in Requests, AcquireAuthority(c)
         PROVE  KeysHeld'
    <2>1. CASE Refuse(c)
      BY <2>1, <1>5
    <2>2. ASSUME NEW revoking, Step(c, [req[c] EXCEPT !.pc = "change", !.revoking = revoking])
          PROVE  KeysHeld'
      <3>1. Passive([req[c] EXCEPT !.pc = "change", !.revoking = revoking])
        BY <1>7, <1>12 DEF AcquireAuthority, RequestRows, UserOps, RoleOps
      <3> QED
        BY <2>2, <3>1, <1>3 DEF Step
    <2> QED
      BY <1>12, <2>1, <2>2 DEF AcquireAuthority
  <1>13. ASSUME NEW c \in Requests,
                \/ Signin(c) \/ RecordSigninFailure(c) \/ CommitSignin(c) \/ LoadPrincipal(c)
                \/ Authorize(c) \/ SignoutSession(c) \/ SaveProfile(c) \/ VerifyPassword(c) \/ Fail(c)
         PROVE  KeysHeld'
    <2>1. CASE RecordSigninFailure(c) \/ CommitSignin(c) \/ SignoutSession(c) \/ SaveProfile(c) \/ Fail(c)
      BY <2>1, <1>3, <1>4, <1>5 DEF RecordSigninFailure, CommitSignin, SignoutSession, SaveProfile, Fail, End
    <2>2. CASE Signin(c)
      <3>1. PICK u \in story.signins, right \in BOOLEAN :
              Set(c, [[Idle EXCEPT !.op = "signin", !.actor = u, !.hash = users[u].hash]
                        EXCEPT !.pc = IF right THEN "signin" ELSE "failed"])
        BY <2>2 DEF Signin
      <3>2. Passive([[Idle EXCEPT !.op = "signin", !.actor = u, !.hash = users[u].hash]
                       EXCEPT !.pc = IF right THEN "signin" ELSE "failed"])
        BY DEF Idle
      <3> QED
        BY <3>1, <3>2, <1>3
    <2>3. CASE LoadPrincipal(c)
      <3>1. PICK s \in Sessions, ask \in story.asks :
              Set(c, Permit(ask.op, s, sessions[s].user, ask.target, ask.given, Revision(ask.op, ask.target)))
        BY <2>3 DEF LoadPrincipal, Permit, Step
      <3>2. Passive(Permit(ask.op, s, sessions[s].user, ask.target, ask.given, Revision(ask.op, ask.target)))
        BY DEF Permit, Idle
      <3> QED
        BY <3>1, <3>2, <1>3
    <2>4. CASE Authorize(c)
      <3>1. Passive([req[c] EXCEPT !.pc = "admitted"])
        BY <1>7 DEF RequestRows
      <3> QED
        BY <2>4, <3>1, <1>3, <1>4 DEF Authorize, End
    <2>5. CASE VerifyPassword(c)
      <3>1. Passive([req[c] EXCEPT !.pc = "lock", !.hash = users[req[c].actor].hash,
                                   !.revision = users[req[c].actor].revision])
        BY <1>7 DEF RequestRows
      <3> QED
        BY <2>5, <3>1, <1>3, <1>5 DEF VerifyPassword, Step
    <2> QED
      BY <1>13, <2>1, <2>2, <2>3, <2>4, <2>5
  <1> QED
    BY <1>6, <1>8, <1>9, <1>10, <1>11, <1>12, <1>13 DEF Next, Tick, accessVars

LEMMA StepInvariant == IInv /\ KeysHeld /\ [Next]_accessVars => IInv'
  <1> SUFFICES ASSUME IInv, KeysHeld, [Next]_accessVars
               PROVE  IInv'
    OBVIOUS
  <1>1. CASE UNCHANGED accessVars
    <2>1. UNCHANGED <<users, roles, sessions, req, story>>
      BY <1>1 DEF accessVars
    <2>2. /\ req' \in [Requests -> RequestRows]
          /\ \A c, d \in Requests : LocksOwnRow(c)' /\ LocksOwnRow(d)' /\ c # d =>
                 req'[c].actor # req'[d].actor
      BY <2>1 DEF LocksOwnRow, IInv, TypeOK, PasswordsHeld
    <2> QED
      BY <2>1, <2>2, SameTables, QuietStep
  <1>2. CASE Tick
    BY <1>2, TickInvariant
  <1>3. ASSUME NEW c \in Requests,
               \/ Signin(c) \/ RecordSigninFailure(c) \/ OpenSession(c) \/ CommitSignin(c)
               \/ LoadPrincipal(c) \/ Authorize(c) \/ SignoutSession(c) \/ SaveProfile(c)
               \/ VerifyPassword(c) \/ LockPasswordUser(c) \/ CommitPassword(c)
               \/ AcquireAuthority(c) \/ CommitChange(c) \/ Fail(c)
        PROVE  IInv'
    BY <1>3, SigninInvariant, RecordSigninFailureInvariant, OpenSessionInvariant,
       CommitSigninInvariant, LoadPrincipalInvariant, AuthorizeInvariant, SignoutSessionInvariant,
       SaveProfileInvariant, VerifyPasswordInvariant, LockPasswordUserInvariant,
       CommitPasswordInvariant, AcquireAuthorityInvariant, CommitChangeInvariant, FailInvariant
  <1> QED
    BY <1>1, <1>2, <1>3 DEF Next

LEMMA Invariance == Spec => []IInv
  <1>1. Init => KeysHeld
    BY IdleFits DEF Init, KeysHeld, LocksOwnRow
  <1>2. Init /\ [][Next]_accessVars => [](IInv /\ KeysHeld)
    BY <1>1, InitInvariant, StepInvariant, KeysStep, PTL
  <1> QED
    BY <1>2, PTL DEF Spec

\* Tables and requests keep their types, an account is locked only after enough
\* failures, and roles keep the reading permissions of what they grant.
THEOREM TypeCorrect == Spec => []TypeOK
  <1>1. IInv => TypeOK
    BY DEF IInv
  <1> QED
    BY <1>1, Invariance, PTL

\* However many requests change users and roles at once, somebody enabled may
\* still change roles and everybody enabled may sign out.
THEOREM SomebodyGoverns == Spec => []NobodyLockedOut
  <1>1. IInv => NobodyLockedOut
    BY DEF IInv
  <1> QED
    BY <1>1, Invariance, PTL

\* LiveSessionsAreCurrent: a session not revoked was opened with the present
\* password of an enabled user, unless its sign-in had verified another one and
\* not inserted the session when it changed, or had not committed when the user
\* was disabled (RevokeAppUserSessions, ChangePassword).
THEOREM SessionsCurrent == Spec => []LiveSessionsAreCurrent
  <1>1. IInv => LiveSessionsAreCurrent
    BY DEF IInv
  <1> QED
    BY <1>1, Invariance, PTL

\* A password is only replaced by a request that verified that password.
THEOREM PasswordsInTurn == Spec => PasswordChangesInTurn
  <1> DEFINE InTurn ==
        \A u \in Users : users[u].status # "ABSENT" /\ users[u].hash' # users[u].hash =>
            \E c \in Requests :
                req[c].op = "password" /\ req[c].actor = u /\ req[c].hash = users[u].hash
  <1>1. ASSUME IInv, [Next]_accessVars
        PROVE  InTurn
    <2> SUFFICES ASSUME NEW u \in Users, users[u].status # "ABSENT", users'[u].hash # users[u].hash
                 PROVE  \E c \in Requests :
                            req[c].op = "password" /\ req[c].actor = u /\ req[c].hash = users[u].hash
      OBVIOUS
    <2> users \in [Users -> UserRows] /\ users[u] \in UserRows
      BY <1>1 DEF IInv, TypeOK
    <2>1. ASSUME NEW c \in Requests, CommitPassword(c)
          PROVE  req[c].op = "password" /\ req[c].actor = u /\ req[c].hash = users[u].hash
      BY <1>1, <2>1 DEF CommitPassword, IInv, PasswordsHeld, LocksOwnRow
    <2>2. ASSUME NEW c \in Requests, CommitChange(c)
          PROVE  FALSE
      <3>1. HoldsAuthority(c) /\ users' = UsersAfter(c) /\ UserRowsFine(c)
        BY <1>1, <2>2, UsersAfterFine DEF CommitChange
      <3> QED
        BY <3>1 DEF UserRowsFine
    <2>3. ASSUME NEW c \in Requests, RecordSigninFailure(c) \/ CommitSignin(c) \/ SaveProfile(c)
          PROVE  FALSE
      <3>1. CASE RecordSigninFailure(c)
        BY <3>1 DEF RecordSigninFailure, RecordFailure, UserRows
      <3>2. CASE CommitSignin(c)
        BY <3>2 DEF CommitSignin, ResetFailures, UserRows
      <3>3. CASE SaveProfile(c)
        BY <3>3 DEF SaveProfile, Refuse, UserRows
      <3> QED
        BY <2>3, <3>1, <3>2, <3>3
    <2>4. ASSUME NEW c \in Requests,
                 \/ Signin(c) \/ OpenSession(c) \/ LoadPrincipal(c) \/ Authorize(c)
                 \/ SignoutSession(c) \/ VerifyPassword(c) \/ LockPasswordUser(c)
                 \/ AcquireAuthority(c) \/ Fail(c)
          PROVE  FALSE
      BY <2>4 DEF Signin, OpenSession, LoadPrincipal, Authorize, SignoutSession, VerifyPassword,
                  LockPasswordUser, AcquireAuthority, Fail, Refuse, Step
    <2>5. CASE Tick
      BY <2>5 DEF Tick, LockPasses, UserRows
    <2>6. CASE UNCHANGED accessVars
      BY <2>6 DEF accessVars
    <2> QED
      BY <1>1, <2>1, <2>2, <2>3, <2>4, <2>5, <2>6 DEF Next
  <1>2. IInv /\ [Next]_accessVars => [InTurn]_accessVars
    BY <1>1
  <1>3. [][InTurn]_accessVars <=> PasswordChangesInTurn
    BY DEF PasswordChangesInTurn
  <1> QED
    BY <1>2, <1>3, Invariance, PTL DEF Spec
=============================================================================
