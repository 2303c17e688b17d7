------------------------- MODULE AccessControlProofs -------------------------
(***************************************************************************)
(* What administrators and callers may rely on, for any processes, users,  *)
(* roles, bindings and documents, however start-ups, administration and    *)
(* the resolution of requests interleave.                                  *)
(*                                                                         *)
(* The properties speak of the history of bindings, of which the code reads*)
(* none, and of contexts that were put together in steps.  AccessInv says  *)
(* what each process knows at its step (Booting, Calling), what each       *)
(* request has been granted at its (Granted), and that rows which others   *)
(* refer to do not disappear (RowsStand).  TablesInv adds what each table  *)
(* holds: which names the roles have, and which workspaces are needed.     *)
(***************************************************************************)
EXTENDS AccessControl, FiniteSetTheorems, TLAPS

\* The tables are tables, and rows have the columns that are read.
Typed ==
    /\ \A r \in DOMAIN roles : roles[r] \in RoleRow
    /\ \A u \in DOMAIN users : users[u] \in UserRow
    /\ boot = [w \in Workers |-> boot[w]]
    /\ call = [w \in Workers |-> call[w]]
    /\ request = [q \in Clients |-> request[q]]

\* A binding, past or present, is of a user and a workspace that exist; a present one
\* of a role that exists.
RowsStand ==
    /\ bindings \subseteq ever /\ revoked \subseteq ever
    /\ \A b \in ever : b[1] \in DOMAIN users
    /\ \A b \in bindings : b[2] \in DOMAIN roles
    /\ \A c \in credentials : c[1] \in DOMAIN users

\* The built-in roles exist from the first transaction of a start-up on.
Booting ==
    \A w \in Workers : boot[w] \in {"seeded", "admin", "admitted", "demo", "up"} =>
        Builtin \subseteq DOMAIN roles

\* A call that is to commit was checked, and not revoked since; one that is to be
\* recorded did commit.
Calling(w) ==
    \/ call[w] = Idle
    \/ /\ call[w] = [phase |-> "commit", binding |-> call[w].binding]
       /\ call[w].binding \notin revoked
       /\ call[w].binding[1] \in DOMAIN users
    \/ /\ call[w] = [phase |-> "audit", binding |-> call[w].binding]
       /\ call[w].binding \in ever

\* The user was bound to the workspace at some time.
BoundTo(u, s) == \E b \in ever : b[1] = u /\ b[3] = s

\* What a request has, by the step it is at: a deleted user gets past no check, and a
\* context holds workspaces the user was bound to.
Granted(q) ==
    /\ request[q].phase \in {"token", "user", "roles"} =>
          request[q] = [phase |-> request[q].phase, user |-> request[q].user,
                        alive |-> request[q].alive]
    /\ request[q].phase \in {"token", "user"} =>
          /\ request[q].user \in DOMAIN users
          /\ request[q].alive \/ users[request[q].user].deleted
    /\ request[q].phase \in {"roles", "resolved"} => request[q].alive
    /\ request[q].phase = "resolved" =>
          /\ SystemWorkspace \notin request[q].spaces
          /\ request[q].spaces # {} => request[q].perms # {}
          /\ request[q].user # Admin =>
                /\ "*" \notin request[q].perms
                /\ \A s \in request[q].spaces : BoundTo(request[q].user, s)
    /\ request[q].phase = "answered" =>
          \A d \in request[q].docs :
             request[q].user \in {Admin, d.owner} \/ BoundTo(request[q].user, d.space)

AccessInv ==
    /\ Typed /\ RowsStand /\ Booting
    /\ \A w \in Workers : Calling(w)
    /\ \A q \in Clients : Granted(q)
    /\ AdministrationStands

-----------------------------------------------------------------------------
(* Lemmas                                                                  *)

\* Rows that are added leave the others as they were.
LEMMA ExtendFacts ==
    ASSUME NEW f, NEW g
    PROVE  /\ DOMAIN Extend(f, g) = DOMAIN f \cup DOMAIN g
           /\ \A x \in DOMAIN f : Extend(f, g)[x] = f[x]
           /\ \A x \in DOMAIN g \ DOMAIN f : Extend(f, g)[x] = g[x]
BY DEF Extend

\* An idle call or request is at none of the steps.
LEMMA IdleHasNoPhase == Idle.phase = "idle"
BY DEF Idle

LEMMA InvMeaning ==
    AccessInv => AdministrationStands /\ DeletedLockedOut /\ LimitedToGrants
BY DEF AccessInv, Granted, BoundTo, DeletedLockedOut, LimitedToGrants, NobodyElsesDocuments,
       NoWayIntoSystem

LEMMA AccessInit == Init => AccessInv
BY IdleHasNoPhase DEF Init, AccessInv, Typed, RowsStand, Booting, Calling, Granted, Idle,
       AdministrationStands, RevocationStands, RoleBindTruthful

\* Users keep their rows, and a deletion is for good.
UsersStand ==
    /\ DOMAIN users \subseteq DOMAIN users'
    /\ \A u \in DOMAIN users : users[u].deleted => users'[u].deleted

\* What does not touch requests takes nothing from them.
LEMMA RequestsKept ==
    ASSUME AccessInv, UNCHANGED request, UsersStand, ever \subseteq ever'
    PROVE  \A q \in Clients : Granted(q)'
BY DEF AccessInv, Granted, UsersStand, BoundTo

\* Nor from calls, unless it revokes what they are to commit.
LEMMA CallsKept ==
    ASSUME AccessInv, UNCHANGED call, UsersStand, ever \subseteq ever', revoked' \subseteq revoked
    PROVE  \A w \in Workers : Calling(w)'
BY DEF AccessInv, Calling, UsersStand

\* A step that touches one process's start-up does nothing else to phases.
LEMMA BootingKept ==
    ASSUME AccessInv, Builtin \cap DOMAIN roles \subseteq DOMAIN roles',
           NEW w \in Workers, NEW phase, boot' = [boot EXCEPT ![w] = phase],
           \/ phase = "down" \/ phase = "roles"
           \/ boot[w] \in {"seeded", "admin", "admitted", "demo", "up"}
           \/ Builtin \subseteq DOMAIN roles'
    PROVE  Booting' /\ boot' = [v \in Workers |-> boot'[v]]
BY DEF AccessInv, Booting, Typed

-----------------------------------------------------------------------------
(* The start-up                                                            *)

LEMMA LookUps ==
    ASSUME AccessInv, NEW w \in Workers, LookUpRoles(w) \/ LookUpAdmin(w) \/ LookUpDemo(w)
    PROVE  AccessInv'
<1> PICK from, to, seen : LookUp(w, from, to, seen) /\
          <<from, to>> \in {<<"down", "roles">>, <<"seeded", "admin">>, <<"admitted", "demo">>}
    BY DEF LookUpRoles, LookUpAdmin, LookUpDemo
<1> USE DEF LookUp, tables, Remaining
<1>1. UsersStand
    BY DEF UsersStand
<1>2. Booting' /\ boot' = [v \in Workers |-> boot'[v]]
    BY BootingKept
<1>3. (\A v \in Workers : Calling(v)') /\ \A q \in Clients : Granted(q)'
    BY <1>1, RequestsKept, CallsKept
<1>4. Typed' /\ RowsStand' /\ AdministrationStands'
    BY <1>2 DEF AccessInv, Typed, RowsStand, AdministrationStands, RevocationStands,
                RoleBindTruthful
<1> QED
    BY <1>2, <1>3, <1>4 DEF AccessInv

LEMMA SeedRowTyped ==
    ASSUME AccessInv, AccessAssumption, NEW b \in Builtin
    PROVE  SeedRow(b) \in RoleRow
<1>1. SeedPerms[b] \subseteq Permissions
    BY DEF AccessAssumption
<1>2. CASE b \in DOMAIN roles
  <2>1. PICK row \in RoleRow : row = roles[b]
      BY <1>2 DEF AccessInv, Typed
  <2>2. SeedRow(b) = [row EXCEPT !.perms = @ \cup SeedPerms[b], !.enabled = @ /\ b # Auditor]
      BY <1>2, <2>1 DEF SeedRow
  <2>3. SeedRow(b) = [name |-> row.name, enabled |-> row.enabled /\ b # Auditor,
                      perms |-> row.perms \cup SeedPerms[b]]
      BY <2>2 DEF RoleRow
  <2> QED
      BY <1>1, <2>3 DEF RoleRow
<1>3. CASE b \notin DOMAIN roles
    BY <1>1, <1>3 DEF SeedRow, RoleRow
<1> QED
    BY <1>2, <1>3

LEMMA RolesSeeded ==
    ASSUME AccessInv, AccessAssumption, NEW w \in Workers, SeedRoles(w)
    PROVE  AccessInv'
<1> USE DEF SeedRoles, tables, Remaining, Proceed, Refused
<1>1. UsersStand /\ UNCHANGED <<users, bindings, ever, revoked, recorded, credentials, call, request>>
    BY DEF UsersStand
<1>2. (\A v \in Workers : Calling(v)') /\ \A q \in Clients : Granted(q)'
    BY <1>1, RequestsKept, CallsKept
<1>3. CASE Refused(w)
  <2>1. UNCHANGED roles
      BY <1>3
  <2>2. Booting' /\ boot' = [v \in Workers |-> boot'[v]]
      BY <1>3, <2>1, BootingKept
  <2> QED
      BY <1>1, <1>2, <2>1, <2>2 DEF AccessInv, Typed, RowsStand, AdministrationStands,
                                    RevocationStands, RoleBindTruthful
<1>4. CASE roles' = Extend([b \in Builtin |-> SeedRow(b)], roles) /\ Proceed(w, "seeded")
  <2>1. /\ DOMAIN roles' = Builtin \cup DOMAIN roles
        /\ \A b \in Builtin : roles'[b] = SeedRow(b)
        /\ \A r \in DOMAIN roles \ Builtin : roles'[r] = roles[r]
    <3> DEFINE new == [b \in Builtin |-> SeedRow(b)]
    <3>1. DOMAIN new = Builtin /\ \A b \in Builtin : new[b] = SeedRow(b)
        OBVIOUS
    <3>2. roles' = Extend(new, roles)
        BY <1>4
    <3> HIDE DEF new
    <3>3. /\ DOMAIN Extend(new, roles) = DOMAIN new \cup DOMAIN roles
          /\ \A x \in DOMAIN new : Extend(new, roles)[x] = new[x]
          /\ \A x \in DOMAIN roles \ DOMAIN new : Extend(new, roles)[x] = roles[x]
        BY ONLY ExtendFacts
    <3> QED
        BY ONLY <3>1, <3>2, <3>3
  <2>2. Booting' /\ boot' = [v \in Workers |-> boot'[v]]
      BY <1>4, <2>1, BootingKept
  <2>3. \A r \in DOMAIN roles' : roles'[r] \in RoleRow
      BY <2>1, SeedRowTyped DEF AccessInv, Typed
  <2>4. Typed' /\ RowsStand' /\ AdministrationStands'
      BY <1>1, <2>1, <2>2, <2>3 DEF AccessInv, Typed, RowsStand, AdministrationStands,
                                    RevocationStands, RoleBindTruthful
  <2> QED
      BY <1>2, <2>2, <2>4 DEF AccessInv
<1> QED
    BY <1>3, <1>4

LEMMA AdminSeeded ==
    ASSUME AccessInv, AccessAssumption, NEW w \in Workers, SeedAdmin(w)
    PROVE  AccessInv'
<1> USE DEF SeedAdmin, tables, Remaining, Proceed, Refused
<1>1. UNCHANGED <<roles, workspaces, revoked, recorded, credentials, call, request>>
    OBVIOUS
<1>2. Booting' /\ boot' = [v \in Workers |-> boot'[v]]
  <2>1. PICK phase \in {"down", "admitted"} : boot' = [boot EXCEPT ![w] = phase]
      OBVIOUS
  <2> QED
      BY <1>1, <2>1, BootingKept
<1>3. CASE UNCHANGED <<users, bindings, ever>>
  <2>1. UsersStand
      BY <1>3 DEF UsersStand
  <2>2. (\A v \in Workers : Calling(v)') /\ \A q \in Clients : Granted(q)'
      BY <1>1, <1>3, <2>1, RequestsKept, CallsKept
  <2> QED
      BY <1>1, <1>2, <1>3, <2>2 DEF AccessInv, Typed, RowsStand, AdministrationStands,
                                    RevocationStands, RoleBindTruthful
<1>4. CASE /\ Admin \notin DOMAIN users
           /\ users' = Extend(users, [u \in {Admin} |-> Account])
           /\ Bind({AdminBinding})
  <2>1. /\ DOMAIN users' = DOMAIN users \cup {Admin}
        /\ \A u \in DOMAIN users : users'[u] = users[u]
        /\ users'[Admin] = Account
      BY <1>4 DEF Extend
  <2>2. UsersStand
      BY <2>1 DEF UsersStand
  <2>3. bindings' = bindings \cup {AdminBinding} /\ ever' = ever \cup {AdminBinding}
      BY <1>4 DEF Bind
  <2>4. AdminBinding[1] = Admin /\ AdminBinding[2] \in Builtin
      BY DEF AccessAssumption
  <2>5. AdminBinding \notin revoked
      BY <1>4, <2>4 DEF AccessInv, RowsStand
  <2>6. AdminBinding[2] \in DOMAIN roles
      BY <2>4 DEF AccessInv, Booting
  <2>7. RowsStand' /\ AdministrationStands'
      BY <1>1, <2>1, <2>3, <2>4, <2>5, <2>6
         DEF AccessInv, RowsStand, AdministrationStands, RevocationStands, RoleBindTruthful
  <2>8. Typed'
    <3>1. Account \in UserRow
        BY DEF Account, UserRow
    <3>2. \A u \in DOMAIN users' : users'[u] \in UserRow
        BY <2>1, <3>1 DEF AccessInv, Typed
    <3> QED
        BY <1>1, <1>2, <3>2 DEF AccessInv, Typed
  <2>9. (\A v \in Workers : Calling(v)') /\ \A q \in Clients : Granted(q)'
      BY <1>1, <2>2, <2>3, RequestsKept, CallsKept
  <2> QED
      BY <1>2, <2>7, <2>8, <2>9 DEF AccessInv
<1> QED
    BY <1>3, <1>4

LEMMA DemoSeeded ==
    ASSUME AccessInv, AccessAssumption, NEW w \in Workers, SeedDemo(w)
    PROVE  AccessInv'
<1> USE DEF SeedDemo, tables, Remaining, Proceed, Refused
<1>1. UNCHANGED <<roles, revoked, recorded, credentials, call, request>>
    OBVIOUS
<1>2. Booting' /\ boot' = [v \in Workers |-> boot'[v]]
  <2>1. PICK phase \in {"down", "up"} : boot' = [boot EXCEPT ![w] = phase]
      OBVIOUS
  <2> QED
      BY <1>1, <2>1, BootingKept
<1>3. CASE UNCHANGED <<users, bindings, ever>>
  <2>1. UsersStand
      BY <1>3 DEF UsersStand
  <2>2. (\A v \in Workers : Calling(v)') /\ \A q \in Clients : Granted(q)'
      BY <1>1, <1>3, <2>1, RequestsKept, CallsKept
  <2> QED
      BY <1>1, <1>2, <1>3, <2>2 DEF AccessInv, Typed, RowsStand, AdministrationStands,
                                    RevocationStands, RoleBindTruthful
<1>4. CASE /\ users' = Extend(users, [u \in DemoUsers |-> Account])
           /\ Bind(DemoBindings \ found[w].bound)
  <2> DEFINE new == DemoBindings \ found[w].bound
  <2>1. /\ DOMAIN users' = DOMAIN users \cup DemoUsers
        /\ \A u \in DOMAIN users : users'[u] = users[u]
        /\ \A u \in DemoUsers \ DOMAIN users : users'[u] = Account
      BY <1>4 DEF Extend
  <2>2. UsersStand
      BY <2>1 DEF UsersStand
  <2>3. bindings' = bindings \cup new /\ ever' = ever \cup new
      BY <1>4 DEF Bind
  <2>4. \A b \in new : b \in DemoBindings /\ b[1] \in DemoUsers /\ b[2] \in Builtin
      BY DEF AccessAssumption
  <2>5. Builtin \subseteq DOMAIN roles
      BY DEF AccessInv, Booting
  <2> HIDE DEF new
  <2>6. RowsStand'
      BY <1>1, <2>1, <2>3, <2>4, <2>5 DEF AccessInv, RowsStand
  <2>7. AdministrationStands'
      BY <1>1, <2>3, <2>4
         DEF AccessInv, AdministrationStands, RevocationStands, RoleBindTruthful
  <2>8. Typed'
    <3>1. Account \in UserRow
        BY DEF Account, UserRow
    <3>2. \A u \in DOMAIN users' : users'[u] \in UserRow
        BY <2>1, <3>1 DEF AccessInv, Typed
    <3> QED
        BY <1>1, <1>2, <3>2 DEF AccessInv, Typed
  <2>9. (\A v \in Workers : Calling(v)') /\ \A q \in Clients : Granted(q)'
      BY <1>1, <2>2, <2>3, RequestsKept, CallsKept
  <2> QED
      BY <1>2, <2>6, <2>7, <2>8, <2>9 DEF AccessInv
<1> QED
    BY <1>3, <1>4

LEMMA Killed ==
    ASSUME AccessInv, NEW w \in Workers, Kill(w)
    PROVE  AccessInv'
<1> USE DEF Kill, tables, history
<1>1. UNCHANGED <<roles, users, bindings, ever, revoked, recorded, credentials, request>>
    OBVIOUS
<1>2. Booting' /\ boot' = [v \in Workers |-> boot'[v]]
    BY <1>1, BootingKept
<1>3. \A v \in Workers : Calling(v)'
    BY <1>1 DEF AccessInv, Calling, Typed
<1>4. \A q \in Clients : Granted(q)'
    BY <1>1, RequestsKept DEF UsersStand
<1>5. Typed' /\ RowsStand' /\ AdministrationStands'
    BY <1>1, <1>2 DEF AccessInv, Typed, RowsStand, AdministrationStands, RevocationStands,
                      RoleBindTruthful
<1> QED
    BY <1>2, <1>3, <1>4, <1>5 DEF AccessInv

-----------------------------------------------------------------------------
(* Administration                                                          *)

\* An operation on roles, users or credentials alone.
LEMMA RowsChanged ==
    ASSUME AccessInv, UNCHANGED <<boot, call, request, recorded, ever, revoked>>, UsersStand,
           \A u \in DOMAIN users' : users'[u] \in UserRow,
           \A r \in DOMAIN roles' : roles'[r] \in RoleRow,
           Builtin \cap DOMAIN roles \subseteq DOMAIN roles',
           bindings' \subseteq bindings, \A b \in bindings' : b[2] \in DOMAIN roles',
           \A c \in credentials' : c[1] \in DOMAIN users'
    PROVE  AccessInv'
<1>1. (\A v \in Workers : Calling(v)') /\ \A q \in Clients : Granted(q)'
    BY RequestsKept, CallsKept
<1>2. Booting'
    BY DEF AccessInv, Booting
<1>3. Typed'
    BY DEF AccessInv, Typed
<1>4. RowsStand'
    BY DEF AccessInv, RowsStand, UsersStand
<1>5. AdministrationStands'
    BY DEF AccessInv, AdministrationStands, RevocationStands, RoleBindTruthful
<1> QED
    BY <1>1, <1>2, <1>3, <1>4, <1>5 DEF AccessInv

LEMMA UsersChanged ==
    ASSUME AccessInv, NEW w \in Workers, NEW u,
           \/ SoftDelete(w, u) \/ SetUserStatus(w, u) \/ Login(w, u) \/ IssueToken(w, u)
    PROVE  AccessInv'
<1> USE DEF SoftDelete, SetUserStatus, Login, IssueToken, Operate, Atomic, tables
<1>1. UNCHANGED <<roles, bindings, boot, call, request, recorded, ever, revoked>>
    OBVIOUS
<1>2. u \in DOMAIN users
    OBVIOUS
<1>3. PICK row \in UserRow : row = users[u]
    BY <1>2 DEF AccessInv, Typed
<1>4. PICK new \in UserRow :
        /\ row.deleted => new.deleted
        /\ DOMAIN users' = DOMAIN users /\ users'[u] = new
        /\ \A v \in DOMAIN users \ {u} : users'[v] = users[v]
  <2>1. CASE SoftDelete(w, u)
    <3>1. users' = [users EXCEPT ![u] = [row EXCEPT !.deleted = TRUE]]
        BY <2>1, <1>3
    <3>2. [row EXCEPT !.deleted = TRUE] \in UserRow /\ [row EXCEPT !.deleted = TRUE].deleted
        BY DEF UserRow
    <3> QED
        BY <1>2, <3>1, <3>2
  <2>2. CASE SetUserStatus(w, u)
    <3>1. users' = [users EXCEPT ![u] = [row EXCEPT !.enabled = ~@]]
        BY <2>2, <1>3
    <3>2. /\ [row EXCEPT !.enabled = ~@] \in UserRow
          /\ [row EXCEPT !.enabled = ~@].deleted = row.deleted
        BY DEF UserRow
    <3> QED
        BY <1>2, <3>1, <3>2
  <2>3. CASE Login(w, u) \/ IssueToken(w, u)
      BY <2>3, <1>3
  <2> QED
      BY <2>1, <2>2, <2>3
<1>5. \A v \in DOMAIN users' : users'[v] \in UserRow
    BY <1>4 DEF AccessInv, Typed
<1>6. UsersStand
    BY <1>3, <1>4 DEF UsersStand
<1>7. \A c \in credentials' : c[1] \in DOMAIN users'
    BY <1>2, <1>4 DEF AccessInv, RowsStand
<1> QED
    BY <1>1, <1>5, <1>6, <1>7, RowsChanged DEF AccessInv, Typed, RowsStand

LEMMA WorkspaceChanged ==
    ASSUME AccessInv, NEW w \in Workers, NEW s, SetWorkspaceStatus(w, s)
    PROVE  AccessInv'
BY RowsChanged DEF SetWorkspaceStatus, Operate, Atomic, AccessInv, Typed, RowsStand, UsersStand

LEMMA RoleCreated ==
    ASSUME AccessInv, NEW w \in Workers, NEW r \in CustomRoles, NEW name \in CustomNames,
           NEW p \in Permissions, CreateRole(w, r, name, {p})
    PROVE  AccessInv'
<1> DEFINE row == [name |-> name, enabled |-> TRUE, perms |-> {p}]
<1> USE DEF CreateRole, Operate, Atomic
<1>1. row \in RoleRow
    BY DEF RoleRow
<1>2. /\ DOMAIN roles' = DOMAIN roles \cup {r}
      /\ \A x \in DOMAIN roles : roles'[x] = roles[x]
      /\ roles'[r] = row
    BY DEF Extend
<1>3. \A x \in DOMAIN roles' : roles'[x] \in RoleRow
    BY <1>1, <1>2 DEF AccessInv, Typed
<1> QED
    BY <1>2, <1>3, RowsChanged DEF AccessInv, Typed, RowsStand, UsersStand

LEMMA RoleUpdated ==
    ASSUME AccessInv, NEW w \in Workers, NEW r, NEW row \in RoleRow, UpdateRole(w, r, row)
    PROVE  AccessInv'
<1> USE DEF UpdateRole, Operate, Atomic
<1>1. DOMAIN roles' = DOMAIN roles /\ \A x \in DOMAIN roles' : roles'[x] \in RoleRow
    BY DEF AccessInv, Typed
<1> QED
    BY <1>1, RowsChanged DEF AccessInv, Typed, RowsStand, UsersStand

LEMMA RoleDeleted ==
    ASSUME AccessInv, AccessAssumption, NEW w \in Workers, NEW r, DeleteRole(w, r)
    PROVE  AccessInv'
<1> USE DEF DeleteRole, Operate, Atomic
<1>1. /\ DOMAIN roles' = DOMAIN roles \ {r}
      /\ \A x \in DOMAIN roles' : roles'[x] = roles[x]
    BY DEF Restrict
<1>2. r \notin Builtin
    BY DEF AccessAssumption
<1> QED
    BY <1>1, <1>2, RowsChanged DEF AccessInv, Typed, RowsStand, UsersStand

\* What a call knows at its step.
LEMMA CallMeaning ==
    ASSUME AccessInv, NEW w \in Workers
    PROVE  /\ call[w].phase = "commit" =>
                /\ call[w] = [phase |-> "commit", binding |-> call[w].binding]
                /\ call[w].binding \notin revoked /\ call[w].binding[1] \in DOMAIN users
           /\ call[w].phase = "audit" => call[w].binding \in ever
<1> DEFINE b == call[w].binding
<1>1. [phase |-> "commit", binding |-> b].phase = "commit"
    OBVIOUS
<1>2. [phase |-> "audit", binding |-> b].phase = "audit"
    OBVIOUS
<1>3. CASE call[w] = Idle
    BY <1>3, IdleHasNoPhase
<1>4. CASE /\ call[w] = [phase |-> "commit", binding |-> b]
           /\ b \notin revoked /\ b[1] \in DOMAIN users
  <2>1. call[w].phase = "commit"
      BY <1>1, <1>4
  <2> QED
      BY <1>4, <2>1
<1>5. CASE call[w] = [phase |-> "audit", binding |-> b] /\ b \in ever
  <2>1. call[w].phase = "audit"
      BY <1>2, <1>5
  <2> QED
      BY <1>5, <2>1
<1> QED
    BY <1>3, <1>4, <1>5 DEF AccessInv, Calling

LEMMA AssignBegun ==
    ASSUME AccessInv, NEW w \in Workers, NEW b, BeginAssign(w, b)
    PROVE  AccessInv'
<1> USE DEF BeginAssign, Operate, tables
<1>1. UNCHANGED <<roles, users, bindings, ever, recorded, boot, credentials, request>>
    OBVIOUS
<1>2. b[1] \in DOMAIN users /\ revoked' = revoked \ {b}
    OBVIOUS
<1>3. /\ call' = [v \in Workers |-> call'[v]]
      /\ call'[w] = [phase |-> "commit", binding |-> b]
      /\ \A v \in Workers \ {w} : call'[v] = call[v]
    BY DEF AccessInv, Typed
<1>4. \A v \in Workers : Calling(v)'
    BY <1>1, <1>2, <1>3 DEF AccessInv, Calling
<1>5. \A q \in Clients : Granted(q)'
    BY <1>1, RequestsKept DEF UsersStand
<1>6. Typed' /\ RowsStand' /\ Booting' /\ AdministrationStands'
    BY <1>1, <1>2, <1>3 DEF AccessInv, Typed, RowsStand, Booting, AdministrationStands,
                            RevocationStands, RoleBindTruthful
<1> QED
    BY <1>4, <1>5, <1>6 DEF AccessInv

LEMMA AssignCommitted ==
    ASSUME AccessInv, NEW w \in Workers, CommitAssign(w)
    PROVE  AccessInv'
<1> USE DEF CommitAssign, InCall
<1> DEFINE b == call[w].binding
<1>1. UNCHANGED <<roles, users, revoked, recorded, boot, credentials, request>>
    OBVIOUS
<1>2. /\ call[w] = [phase |-> "commit", binding |-> b]
      /\ b \notin revoked /\ b[1] \in DOMAIN users
    BY CallMeaning
<1>3. /\ call' = [v \in Workers |-> call'[v]]
      /\ \A v \in Workers \ {w} : call'[v] = call[v]
    BY DEF AccessInv, Typed
<1>4. \/ /\ b[2] \in DOMAIN roles
         /\ bindings' = bindings \cup {b} /\ ever' = ever \cup {b}
         /\ call'[w] = [phase |-> "audit", binding |-> b]
      \/ UNCHANGED <<bindings, ever>> /\ call'[w] = Idle
    BY <1>2 DEF Bind, AccessInv, Typed
<1> HIDE DEF b
<1>5. \A v \in Workers : Calling(v)'
  <2>1. \A v \in Workers \ {w} : Calling(v)'
      BY <1>1, <1>3, <1>4 DEF AccessInv, Calling
  <2>2. Calling(w)'
      BY <1>4 DEF Calling
  <2> QED
      BY <2>1, <2>2
<1>6. \A q \in Clients : Granted(q)'
    BY <1>1, <1>4, RequestsKept DEF UsersStand
<1>7. Typed' /\ Booting'
    BY <1>1, <1>3 DEF AccessInv, Typed, Booting
<1>8. RowsStand' /\ AdministrationStands'
    BY <1>1, <1>2, <1>4 DEF AccessInv, RowsStand, AdministrationStands, RevocationStands,
                            RoleBindTruthful
<1> QED
    BY <1>5, <1>6, <1>7, <1>8 DEF AccessInv

LEMMA BindRecorded ==
    ASSUME AccessInv, NEW w \in Workers, RecordBind(w)
    PROVE  AccessInv'
<1> USE DEF RecordBind, InCall
<1>1. UNCHANGED <<roles, users, bindings, ever, revoked, boot, credentials, request>>
    OBVIOUS
<1>2. call[w].binding \in ever
    BY CallMeaning
<1>3. /\ call' = [v \in Workers |-> call'[v]]
      /\ call'[w] = Idle
      /\ \A v \in Workers \ {w} : call'[v] = call[v]
    BY DEF AccessInv, Typed
<1>4. \A v \in Workers : Calling(v)'
    BY <1>1, <1>3 DEF AccessInv, Calling
<1>5. \A q \in Clients : Granted(q)'
    BY <1>1, RequestsKept DEF UsersStand
<1>6. Typed' /\ RowsStand' /\ Booting' /\ AdministrationStands'
    BY <1>1, <1>2, <1>3 DEF AccessInv, Typed, RowsStand, Booting, AdministrationStands,
                            RevocationStands, RoleBindTruthful
<1> QED
    BY <1>4, <1>5, <1>6 DEF AccessInv

LEMMA Unassigned ==
    ASSUME AccessInv, NEW w \in Workers, NEW b \in bindings, Unassign(w, b)
    PROVE  AccessInv'
<1> USE DEF Unassign, Operate
<1>1. UNCHANGED <<roles, users, ever, recorded, boot, call, credentials, request>>
    OBVIOUS
<1>2. bindings' = bindings \ {b}
    OBVIOUS
<1>3. \/ revoked' = revoked
      \/ /\ revoked' = revoked \cup {b}
         /\ \A v \in Workers : call[v].phase = "commit" => call[v].binding # b
    OBVIOUS
<1>4. \A v \in Workers : Calling(v)'
    BY <1>1, <1>3 DEF AccessInv, Calling
<1>5. \A q \in Clients : Granted(q)'
    BY <1>1, RequestsKept DEF UsersStand
<1>6. Typed' /\ Booting'
    BY <1>1 DEF AccessInv, Typed, Booting
<1>7. RowsStand' /\ AdministrationStands'
    BY <1>1, <1>2, <1>3 DEF AccessInv, RowsStand, AdministrationStands, RevocationStands,
                            RoleBindTruthful
<1> QED
    BY <1>4, <1>5, <1>6, <1>7 DEF AccessInv

-----------------------------------------------------------------------------
(* Requests                                                                *)

\* One client's request changes, to one that has been granted what it holds.
LEMMA RequestChanged ==
    ASSUME AccessInv, NEW q \in Clients, UNCHANGED Elsewhere,
           NEW new, request' = [request EXCEPT ![q] = new], Granted(q)'
    PROVE  AccessInv'
<1> USE DEF Elsewhere, tables, history
<1>1. /\ request' = [c \in Clients |-> request'[c]]
      /\ \A c \in Clients \ {q} : request'[c] = request[c]
    BY DEF AccessInv, Typed
<1>2. \A c \in Clients : Granted(c)'
    BY <1>1 DEF AccessInv, Granted, BoundTo
<1>3. \A v \in Workers : Calling(v)'
    BY CallsKept DEF UsersStand
<1>4. Typed' /\ RowsStand' /\ Booting' /\ AdministrationStands'
    BY <1>1 DEF AccessInv, Typed, RowsStand, Booting, AdministrationStands, RevocationStands,
                RoleBindTruthful
<1> QED
    BY <1>2, <1>3, <1>4 DEF AccessInv

\* A request that is over holds nothing.
LEMMA RequestOver ==
    ASSUME AccessInv, NEW q \in Clients, UNCHANGED Elsewhere,
           request' = [request EXCEPT ![q] = Idle]
    PROVE  AccessInv'
<1>1. request'[q] = Idle
    BY DEF AccessInv, Typed
<1>2. Granted(q)'
    BY <1>1, IdleHasNoPhase DEF Granted
<1> QED
    BY <1>2, RequestChanged

LEMMA Presented ==
    ASSUME AccessInv, NEW q \in Clients, NEW u, NEW scheme, Present(q, u, scheme)
    PROVE  AccessInv'
<1> DEFINE new == [phase |-> IF scheme = "sk" THEN "token" ELSE "user",
                   user |-> u, alive |-> ~users[u].deleted]
<1>1. request' = [request EXCEPT ![q] = new] /\ UNCHANGED Elsewhere
    BY DEF Present
<1>2. request'[q] = new
    BY <1>1 DEF AccessInv, Typed
<1>3. u \in DOMAIN users /\ UNCHANGED users
    BY DEF Present, AccessInv, RowsStand, Elsewhere, tables
<1>4. Granted(q)'
  <2>1. new.phase \in {"token", "user"} /\ new.user = u /\ new.alive = ~users[u].deleted
      OBVIOUS
  <2> HIDE DEF new
  <2>2. new = [phase |-> new.phase, user |-> new.user, alive |-> new.alive]
      BY DEF new
  <2> QED
      BY <1>2, <1>3, <2>1, <2>2 DEF Granted
<1> QED
    BY <1>1, <1>4, RequestChanged

LEMMA Checked ==
    ASSUME AccessInv, NEW q \in Clients, CheckToken(q) \/ CheckUser(q)
    PROVE  AccessInv'
<1> DEFINE u == request[q].user
<1>1. /\ request[q].phase \in {"token", "user"}
      /\ UNCHANGED Elsewhere
      /\ \/ request' = [request EXCEPT ![q] = Idle]
         \/ /\ Live(u)
            /\ \E phase \in {"user", "roles"} :
                  request' = [request EXCEPT ![q] = [request[q] EXCEPT !.phase = phase]]
    BY DEF CheckToken, CheckUser
<1>2. CASE /\ Live(u)
           /\ \E phase \in {"user", "roles"} :
                  request' = [request EXCEPT ![q] = [request[q] EXCEPT !.phase = phase]]
  <2>1. PICK phase \in {"user", "roles"} :
            request' = [request EXCEPT ![q] = [request[q] EXCEPT !.phase = phase]]
      BY <1>2
  <2>2. /\ request[q] = [phase |-> request[q].phase, user |-> u, alive |-> request[q].alive]
        /\ u \in DOMAIN users
        /\ request[q].alive \/ users[u].deleted
      BY <1>1 DEF AccessInv, Granted
  <2>3. request[q].alive
      BY <1>2, <2>2 DEF Live
  <2> DEFINE new == [phase |-> phase, user |-> u, alive |-> request[q].alive]
  <2>4. [request[q] EXCEPT !.phase = phase] = new
      BY <2>2
  <2>5. request' = [request EXCEPT ![q] = new]
      BY <2>1, <2>4
  <2>6. request'[q] = new
      BY <2>5 DEF AccessInv, Typed
  <2>7. Granted(q)'
    <3>1. new.phase = phase /\ new.user = u /\ new.alive
        BY <2>3
    <3> HIDE DEF new
    <3>2. new = [phase |-> new.phase, user |-> new.user, alive |-> new.alive]
        BY DEF new
    <3> QED
        BY <1>1, <2>2, <2>6, <3>1, <3>2 DEF Granted, Elsewhere, tables
  <2> QED
      BY <1>1, <2>5, <2>7, RequestChanged
<1> QED
    BY <1>1, <1>2, RequestOver

\* What the statements of _resolve_user_context() return at one time.
LEMMA ContextRead ==
    ASSUME AccessInv, AccessAssumption, NEW u
    PROVE  /\ SystemWorkspace \notin SpacesOf(u)
           /\ SpacesOf(u) # {} => PermsOf(u) # {}
           /\ u # Admin => "*" \notin PermsOf(u) /\ \A s \in SpacesOf(u) : BoundTo(u, s)
<1>1. SystemWorkspace \notin SpacesOf(u)
    BY DEF SpacesOf
<1>2. CASE u = Admin
    BY <1>1, <1>2 DEF PermsOf
<1>3. CASE u # Admin
  <2>1. \A b \in Effective(u) :
            /\ b \in bindings /\ b[1] = u
            /\ roles[b[2]].perms # {} /\ roles[b[2]] \in RoleRow
      BY DEF Effective, AccessInv, Typed, RowsStand
  <2>2. \A b \in Effective(u) : roles[b[2]].perms \subseteq Permissions
      BY <2>1 DEF RoleRow
  <2>3. \A p \in PermsOf(u) : \E b \in Effective(u) : p \in roles[b[2]].perms
      BY <1>3 DEF PermsOf
  <2>4. \A b \in Effective(u) : roles[b[2]].perms \subseteq PermsOf(u)
      BY <1>3 DEF PermsOf
  <2>5. "*" \notin PermsOf(u)
      BY <2>2, <2>3 DEF AccessAssumption
  <2>6. \A s \in SpacesOf(u) : \E b \in Effective(u) : b[3] = s
      BY <1>3 DEF SpacesOf
  <2>7. SpacesOf(u) # {} => PermsOf(u) # {}
      BY <2>1, <2>4, <2>6
  <2>8. \A s \in SpacesOf(u) : BoundTo(u, s)
      BY <2>1, <2>6 DEF BoundTo, AccessInv, RowsStand
  <2> QED
      BY <1>1, <2>5, <2>7, <2>8
<1> QED
    BY <1>2, <1>3

LEMMA Resolved ==
    ASSUME AccessInv, AccessAssumption, NEW q \in Clients, ReadRoles(q)
    PROVE  AccessInv'
<1>1. PICK u, new :
        /\ u = request[q].user
        /\ new = [phase |-> "resolved", user |-> u, alive |-> request[q].alive,
                  perms |-> PermsOf(u), spaces |-> SpacesOf(u)]
    OBVIOUS
<1>2. /\ request[q].phase = "roles"
      /\ request' = [request EXCEPT ![q] = new] /\ UNCHANGED Elsewhere
    BY <1>1 DEF ReadRoles
<1>3. request'[q] = new
    BY <1>2 DEF AccessInv, Typed
<1>4. request[q].alive
    BY <1>2 DEF AccessInv, Granted
<1>5. /\ new.phase = "resolved" /\ new.user = u /\ new.alive = request[q].alive
      /\ new.perms = PermsOf(u) /\ new.spaces = SpacesOf(u)
    BY <1>1
<1>6. /\ SystemWorkspace \notin SpacesOf(u)
      /\ SpacesOf(u) # {} => PermsOf(u) # {}
      /\ u # Admin => "*" \notin PermsOf(u) /\ \A s \in SpacesOf(u) : BoundTo(u, s)
    BY ContextRead
<1>7. UNCHANGED ever
    BY <1>2 DEF Elsewhere, history
<1>8. /\ new.alive /\ SystemWorkspace \notin new.spaces
      /\ new.spaces # {} => new.perms # {}
      /\ new.user # Admin =>
            "*" \notin new.perms /\ \A s \in new.spaces : BoundTo(new.user, s)'
    BY <1>4, <1>5, <1>6, <1>7 DEF BoundTo
<1>9. Granted(q)'
    BY <1>3, <1>5, <1>8 DEF Granted
<1> QED
    BY <1>2, <1>9, RequestChanged

LEMMA Searched ==
    ASSUME AccessInv, NEW q \in Clients, NEW aclFails, Search(q, aclFails)
    PROVE  AccessInv'
<1> DEFINE ctx == request[q]
           new == [phase |-> "answered", user |-> ctx.user, alive |-> ctx.alive,
                   docs |-> UserFilter(ctx, aclFails)]
<1>1. /\ ctx.phase = "resolved"
      /\ request' = [request EXCEPT ![q] = new] /\ UNCHANGED Elsewhere
    BY DEF Search
<1>2. request'[q] = new
    BY <1>1 DEF AccessInv, Typed
<1>3. \A d \in UserFilter(ctx, aclFails) :
          \/ "*" \in ctx.perms
          \/ d.space \in ctx.spaces \/ d.owner = ctx.user
    BY DEF UserFilter
<1>4. ctx.user # Admin =>
          "*" \notin ctx.perms /\ \A s \in ctx.spaces : BoundTo(ctx.user, s)
    BY <1>1 DEF AccessInv, Granted
<1>5. \A d \in UserFilter(ctx, aclFails) :
          ctx.user \in {Admin, d.owner} \/ BoundTo(ctx.user, d.space)
    BY <1>3, <1>4
<1>6. new.phase = "answered" /\ new.user = ctx.user /\ new.docs = UserFilter(ctx, aclFails)
    OBVIOUS
<1> HIDE DEF new
<1>7. Granted(q)'
    BY <1>1, <1>2, <1>5, <1>6 DEF Granted, BoundTo, Elsewhere, history
<1> QED
    BY <1>1, <1>7, RequestChanged

LEMMA Answered ==
    ASSUME AccessInv, NEW q \in Clients, Answer(q)
    PROVE  AccessInv'
BY RequestOver DEF Answer

-----------------------------------------------------------------------------
(* The theorems                                                            *)

LEMMA AccessInductive ==
    ASSUME AccessAssumption
    PROVE  AccessInv /\ [Next]_vars => AccessInv'
<1> SUFFICES ASSUME AccessInv, [Next]_vars PROVE AccessInv'
    OBVIOUS
<1>1. CASE UNCHANGED vars
  <2>1. UsersStand /\ UNCHANGED <<boot, call, request, recorded, ever, revoked, roles, users,
                                  bindings, credentials>>
      BY <1>1 DEF vars, tables, history, UsersStand
  <2> QED
      BY <2>1, RowsChanged DEF AccessInv, Typed, RowsStand
<1>2. ASSUME NEW w \in Workers, Start(w) PROVE AccessInv'
    BY <1>2, LookUps, RolesSeeded, AdminSeeded, DemoSeeded DEF Start
<1>3. ASSUME NEW w \in Workers, Kill(w) PROVE AccessInv'
    BY <1>3, Killed
<1>4. ASSUME NEW w \in Workers, Administer(w) PROVE AccessInv'
  <2>1. CASE \E u \in UserIds :
                SoftDelete(w, u) \/ SetUserStatus(w, u) \/ Login(w, u) \/ IssueToken(w, u)
      BY <2>1, UsersChanged
  <2>2. CASE \E s \in WorkspaceIds : SetWorkspaceStatus(w, s)
      BY <2>2, WorkspaceChanged
  <2>3. CASE \E r \in CustomRoles, name \in CustomNames :
                \E p \in Permissions : CreateRole(w, r, name, {p})
      BY <2>3, RoleCreated
  <2>4. CASE \E r \in RoleIds, row \in RoleRow : UpdateRole(w, r, row)
      BY <2>4, RoleUpdated
  <2>5. CASE \E r \in RoleIds : DeleteRole(w, r)
      BY <2>5, RoleDeleted
  <2>6. CASE \E b \in Requested : BeginAssign(w, b)
      BY <2>6, AssignBegun
  <2>7. CASE \E b \in bindings : Unassign(w, b)
      BY <2>7, Unassigned
  <2>8. CASE CommitAssign(w) \/ RecordBind(w)
      BY <2>8, AssignCommitted, BindRecorded
  <2> QED
      BY <1>4, <2>1, <2>2, <2>3, <2>4, <2>5, <2>6, <2>7, <2>8 DEF Administer
<1>5. ASSUME NEW q \in Clients, Resolve(q) PROVE AccessInv'
    BY <1>5, Presented, Checked, Resolved, Searched, Answered DEF Resolve
<1> QED
    BY <1>1, <1>2, <1>3, <1>4, <1>5 DEF Next

THEOREM AccessInvariant == Spec => []AccessInv
<1>1. AccessInv /\ [Next]_vars => AccessInv'
    BY AccessInductive, AccessAssumption
<1> QED
    BY AccessInit, <1>1, PTL DEF Spec

\* A removed binding stays removed, but for the demo data, and every role_bind event is
\* of a binding that was made: for any number of processes that start, die and assign.
THEOREM RevokedStaysRevoked == Spec => []AdministrationStands
BY AccessInvariant, InvMeaning, PTL

\* No request that starts after its user was deleted is resolved to a context.
THEOREM DeletedAreOut == Spec => []DeletedLockedOut
BY AccessInvariant, InvMeaning, PTL

\* Zero documents leak: nobody but the admin finds a document that is neither the
\* user's own nor in a workspace the user was bound to at some time.
THEOREM NoDocumentLeaks == Spec => []LimitedToGrants
BY AccessInvariant, InvMeaning, PTL

-----------------------------------------------------------------------------
(* The tables are sound                                                    *)

\* The parts of TypeOK; what the rows of roles and users are is in AccessInv.
CallType == {Idle} \cup [phase : {"commit", "audit"}, binding : Requested]
RequestType ==
    {Idle}
    \cup [phase : {"token", "user", "roles"}, user : UserIds, alive : BOOLEAN]
    \cup [phase : {"resolved"}, user : UserIds, alive : BOOLEAN,
          perms : SUBSET (Permissions \cup {"*"}), spaces : SUBSET WorkspaceIds]
    \cup [phase : {"answered"}, user : UserIds, alive : BOOLEAN, docs : SUBSET Documents]

TableTypes ==
    /\ DOMAIN roles \subseteq RoleIds /\ DOMAIN users \subseteq UserIds
    /\ DOMAIN workspaces \subseteq WorkspaceIds
    /\ \A s \in DOMAIN workspaces : workspaces[s] \in BOOLEAN
    /\ bindings \subseteq Bindings
    /\ credentials \subseteq UserIds \X Schemes
ProcessTypes ==
    /\ boot \in [Workers -> {"down", "roles", "seeded", "admin", "admitted", "demo", "up"}]
    /\ found \in [Workers -> [present : BOOLEAN, bound : SUBSET Bindings]]
    /\ call \in [Workers -> CallType]
CountTypes ==
    /\ recorded \subseteq Bindings /\ ever \subseteq Bindings /\ revoked \subseteq Bindings
    /\ ops \in 0 .. MaxOps /\ kills \in 0 .. MaxKills

AllTyped == TableTypes /\ ProcessTypes /\ request \in [Clients -> RequestType] /\ CountTypes

LEMMA TypeParts == AccessInv /\ AllTyped => TypeOK
BY DEF AccessInv, Typed, AllTyped, TableTypes, ProcessTypes, CountTypes, CallType, RequestType,
       TypeOK, Range

LEMMA SeedTypes ==
    /\ AdminBinding \in Bindings /\ DemoBindings \subseteq Bindings
    /\ Requested \subseteq Bindings /\ Builtin \subseteq RoleIds /\ CustomRoles \subseteq RoleIds
    /\ Nothing \in [present : BOOLEAN, bound : SUBSET Bindings]
BY AccessAssumption DEF Bindings, UserIds, RoleIds, WorkspaceIds, Nothing

LEMMA StartTypes ==
    ASSUME AllTyped, NEW w \in Workers, Start(w)
    PROVE  AllTyped'
<1> USE DEF AllTyped, Remaining, tables
<1>1. CountTypes' /\ request' \in [Clients -> RequestType] /\ UNCHANGED <<credentials, call>>
  <2>1. UNCHANGED <<recorded, revoked, ops, kills, request, credentials, call>>
      BY DEF Start, LookUpRoles, LookUpAdmin, LookUpDemo, LookUp, SeedRoles, SeedAdmin, SeedDemo
  <2>2. ever' \subseteq ever \cup {AdminBinding} \cup DemoBindings
      BY DEF Start, LookUpRoles, LookUpAdmin, LookUpDemo, LookUp, SeedRoles, SeedAdmin, SeedDemo,
             Refused, Bind
  <2> QED
      BY <2>1, <2>2, SeedTypes DEF CountTypes
<1>2. ProcessTypes'
  <2>1. \E phase \in {"down", "roles", "seeded", "admin", "admitted", "demo", "up"} :
            boot' = [boot EXCEPT ![w] = phase]
      BY DEF Start, LookUpRoles, LookUpAdmin, LookUpDemo, LookUp, SeedRoles, SeedAdmin, SeedDemo,
             Refused, Proceed
  <2>2. \E seen \in [present : BOOLEAN, bound : SUBSET Bindings] : found' = [found EXCEPT ![w] = seen]
    <3>1. CASE SeedRoles(w) \/ SeedAdmin(w) \/ SeedDemo(w)
      <4>1. found' = [found EXCEPT ![w] = Nothing]
          BY <3>1 DEF SeedRoles, SeedAdmin, SeedDemo
      <4> QED
          BY <4>1, SeedTypes
    <3>2. CASE LookUpRoles(w)
      <4> DEFINE seen == [present |-> SystemWorkspace \in DOMAIN workspaces, bound |-> {}]
      <4>1. seen \in [present : BOOLEAN, bound : SUBSET Bindings]
          OBVIOUS
      <4> QED
          BY <3>2, <4>1 DEF LookUpRoles, LookUp
    <3>3. CASE LookUpAdmin(w)
      <4> DEFINE seen == [present |-> Admin \in DOMAIN users, bound |-> {}]
      <4>1. seen \in [present : BOOLEAN, bound : SUBSET Bindings]
          OBVIOUS
      <4> QED
          BY <3>3, <4>1 DEF LookUpAdmin, LookUp
    <3>4. CASE LookUpDemo(w)
      <4> DEFINE seen == [present |-> DemoUsers \subseteq DOMAIN users,
                          bound |-> bindings \cap DemoBindings]
      <4>1. seen \in [present : BOOLEAN, bound : SUBSET Bindings]
          BY DEF TableTypes
      <4> QED
          BY <3>4, <4>1 DEF LookUpDemo, LookUp
    <3> QED
        BY <3>1, <3>2, <3>3, <3>4 DEF Start
  <2> QED
      BY <1>1, <2>1, <2>2 DEF ProcessTypes
<1>3. TableTypes'
  <2>1. CASE UNCHANGED tables
      BY <1>1, <2>1 DEF TableTypes
  <2>2. CASE SeedRoles(w) /\ ~Refused(w)
    <3>1. UNCHANGED <<users, bindings>> /\ DOMAIN roles' = Builtin \cup DOMAIN roles
        BY <2>2 DEF SeedRoles, Extend
    <3>2. workspaces' = Extend(workspaces, [s \in {SystemWorkspace} |-> TRUE])
        BY <2>2 DEF SeedRoles
    <3>3. /\ DOMAIN workspaces' = DOMAIN workspaces \cup {SystemWorkspace}
          /\ \A s \in DOMAIN workspaces' : workspaces'[s] \in BOOLEAN
        BY <3>2 DEF Extend, TableTypes
    <3> QED
        BY <1>1, <3>1, <3>3, SeedTypes DEF TableTypes, WorkspaceIds
  <2>3. CASE SeedAdmin(w) /\ ~Refused(w)
    <3>1. /\ UNCHANGED <<roles, workspaces>>
          /\ DOMAIN users' \subseteq DOMAIN users \cup {Admin}
          /\ bindings' \subseteq bindings \cup {AdminBinding}
        BY <2>3 DEF SeedAdmin, Extend, Bind
    <3> QED
        BY <1>1, <3>1, SeedTypes DEF TableTypes, UserIds
  <2>4. CASE SeedDemo(w) /\ ~Refused(w)
    <3>1. /\ UNCHANGED roles
          /\ DOMAIN users' = DOMAIN users \cup DemoUsers
          /\ bindings' \subseteq bindings \cup DemoBindings
          /\ workspaces' = Extend(workspaces, [s \in DemoWorkspaces |-> TRUE])
        BY <2>4 DEF SeedDemo, Extend, Bind
    <3>2. /\ DOMAIN workspaces' = DOMAIN workspaces \cup DemoWorkspaces
          /\ \A s \in DOMAIN workspaces' : workspaces'[s] \in BOOLEAN
        BY <3>1 DEF Extend, TableTypes
    <3> QED
        BY <1>1, <3>1, <3>2, SeedTypes DEF TableTypes, UserIds, WorkspaceIds
  <2> QED
      BY <2>1, <2>2, <2>3, <2>4
         DEF Start, LookUpRoles, LookUpAdmin, LookUpDemo, LookUp, SeedRoles, SeedAdmin, SeedDemo, Refused
<1> QED
    BY <1>1, <1>2, <1>3
LEMMA KillTypes ==
    ASSUME AllTyped, NEW w \in Workers, Kill(w)
    PROVE  AllTyped'
<1> USE DEF Kill, tables, history
<1>1. kills' \in 0 .. MaxKills
    BY AccessAssumption DEF AllTyped, CountTypes
<1> QED
    BY <1>1, SeedTypes DEF AllTyped, TableTypes, ProcessTypes, CountTypes, CallType

\* What an operation on the tables, complete in one step, has to leave in order.
LEMMA AtomicTypes ==
    ASSUME AllTyped, NEW w \in Workers, Operate(w), Atomic, TableTypes'
    PROVE  AllTyped'
<1> USE DEF Operate, Atomic
<1>1. ops' \in 0 .. MaxOps
    BY AccessAssumption DEF AllTyped, CountTypes
<1> QED
    BY <1>1 DEF AllTyped, ProcessTypes, CountTypes

LEMMA RowTypes ==
    ASSUME AllTyped, NEW w \in Workers,
           \/ \E u \in UserIds : SoftDelete(w, u) \/ SetUserStatus(w, u) \/ Login(w, u) \/ IssueToken(w, u)
           \/ \E s \in WorkspaceIds : SetWorkspaceStatus(w, s)
           \/ \E r \in CustomRoles, name \in CustomNames : \E p \in Permissions : CreateRole(w, r, name, {p})
           \/ \E r \in RoleIds, row \in RoleRow : UpdateRole(w, r, row)
           \/ \E r \in RoleIds : DeleteRole(w, r)
    PROVE  AllTyped'
<1> USE DEF AllTyped, TableTypes, tables
<1>1. CASE \E u \in UserIds : SoftDelete(w, u) \/ SetUserStatus(w, u)
    BY <1>1, AtomicTypes DEF SoftDelete, SetUserStatus
<1>2. CASE \E u \in UserIds : Login(w, u) \/ IssueToken(w, u)
  <2>1. PICK u \in UserIds, scheme \in Schemes :
            credentials' = credentials \cup {<<u, scheme>>} /\ UNCHANGED tables
      BY <1>2 DEF Login, IssueToken, Schemes
  <2>2. TableTypes'
      BY <2>1
  <2> QED
      BY <1>2, <2>2, AtomicTypes DEF Login, IssueToken
<1>3. CASE \E s \in WorkspaceIds : SetWorkspaceStatus(w, s)
    BY <1>3, AtomicTypes DEF SetWorkspaceStatus
<1>4. CASE \E r \in CustomRoles, name \in CustomNames : \E p \in Permissions : CreateRole(w, r, name, {p})
  <2>1. PICK r \in CustomRoles, name \in CustomNames, p \in Permissions : CreateRole(w, r, name, {p})
      BY <1>4
  <2>2. DOMAIN roles' = DOMAIN roles \cup {r}
      BY <2>1 DEF CreateRole, Extend
  <2>3. TableTypes'
      BY <2>1, <2>2, SeedTypes DEF CreateRole
  <2> QED
      BY <2>1, <2>3, AtomicTypes DEF CreateRole
<1>5. CASE \E r \in RoleIds, row \in RoleRow : UpdateRole(w, r, row)
    BY <1>5, AtomicTypes DEF UpdateRole
<1>6. CASE \E r \in RoleIds : DeleteRole(w, r)
    BY <1>6, AtomicTypes DEF DeleteRole, Restrict
<1> QED
    BY <1>1, <1>2, <1>3, <1>4, <1>5, <1>6

LEMMA CallTypes ==
    ASSUME AllTyped, NEW w \in Workers,
           \/ \E b \in Requested : BeginAssign(w, b)
           \/ \E b \in bindings : Unassign(w, b)
           \/ CommitAssign(w) \/ RecordBind(w)
    PROVE  AllTyped'
<1> USE DEF AllTyped
<1>1. CASE \E b \in Requested : BeginAssign(w, b)
  <2>1. PICK b \in Requested : BeginAssign(w, b)
      BY <1>1
  <2>2. [phase |-> "commit", binding |-> b] \in CallType
      BY DEF CallType
  <2>3. ops' \in 0 .. MaxOps
      BY <2>1, AccessAssumption DEF BeginAssign, Operate, CountTypes
  <2> QED
      BY <2>1, <2>2, <2>3, SeedTypes
         DEF BeginAssign, Operate, tables, TableTypes, ProcessTypes, CountTypes
<1>2. CASE \E b \in bindings : Unassign(w, b)
  <2>1. PICK b \in bindings : Unassign(w, b)
      BY <1>2
  <2>2. ops' \in 0 .. MaxOps
      BY <2>1, AccessAssumption DEF Unassign, Operate, CountTypes
  <2>3. revoked' \subseteq revoked \cup {b} /\ bindings' \subseteq bindings
      BY <2>1 DEF Unassign
  <2> QED
      BY <2>1, <2>2, <2>3 DEF Unassign, Operate, TableTypes, ProcessTypes, CountTypes
<1>3. CASE CommitAssign(w) \/ RecordBind(w)
  <2> DEFINE b == call[w].binding
  <2>1. call[w] \in CallType /\ call[w].phase \in {"commit", "audit"}
      BY <1>3 DEF CommitAssign, RecordBind, ProcessTypes
  <2>2. b \in Requested
      BY <2>1, IdleHasNoPhase DEF CallType
  <2>3. [phase |-> "audit", binding |-> b] \in CallType /\ Idle \in CallType
      BY <2>2 DEF CallType
  <2>4. CASE CommitAssign(w)
    <3>1. call[w].phase = "commit" => [call[w] EXCEPT !.phase = "audit"] = [phase |-> "audit", binding |-> b]
        BY <2>1, IdleHasNoPhase DEF CallType
    <3>2. \E new \in CallType : call' = [call EXCEPT ![w] = new]
        BY <2>3, <2>4, <3>1 DEF CommitAssign
    <3>3. bindings' \subseteq bindings \cup {b} /\ ever' \subseteq ever \cup {b}
        BY <2>4 DEF CommitAssign, Bind
    <3> HIDE DEF b
    <3> QED
        BY <2>2, <2>4, <3>2, <3>3, SeedTypes
           DEF CommitAssign, InCall, TableTypes, ProcessTypes, CountTypes
  <2>5. CASE RecordBind(w)
    <3>1. recorded' = recorded \cup {b} /\ call' = [call EXCEPT ![w] = Idle]
        BY <2>5 DEF RecordBind
    <3> HIDE DEF b
    <3> QED
        BY <2>2, <2>3, <2>5, <3>1, SeedTypes
           DEF RecordBind, InCall, TableTypes, ProcessTypes, CountTypes
  <2> QED
      BY <1>3, <2>4, <2>5
<1> QED
    BY <1>1, <1>2, <1>3

LEMMA RequestTypes ==
    ASSUME AccessInv, AllTyped, NEW q \in Clients, Resolve(q)
    PROVE  AllTyped'
<1>1. UNCHANGED Elsewhere
    BY DEF Resolve, Present, CheckToken, CheckUser, ReadRoles, Search, Answer
<1>2. \E new \in RequestType : request' = [request EXCEPT ![q] = new]
  <2>1. request[q] \in RequestType /\ Idle \in RequestType
      BY DEF AllTyped, RequestType
  <2>2. ASSUME NEW u \in UserIds, NEW scheme \in Schemes, Present(q, u, scheme)
        PROVE  \E new \in RequestType : request' = [request EXCEPT ![q] = new]
    <3> DEFINE new == [phase |-> IF scheme = "sk" THEN "token" ELSE "user",
                       user |-> u, alive |-> ~users[u].deleted]
    <3>1. new \in RequestType
        BY DEF RequestType
    <3> QED
        BY <2>2, <3>1 DEF Present
  <2>3. ASSUME CheckToken(q) \/ CheckUser(q)
        PROVE  \E new \in RequestType : request' = [request EXCEPT ![q] = new]
    <3>1. request[q] \in [phase : {"token", "user", "roles"}, user : UserIds, alive : BOOLEAN]
        BY <2>1, <2>3, IdleHasNoPhase DEF RequestType, CheckToken, CheckUser
    <3>2. PICK row \in [phase : {"token", "user", "roles"}, user : UserIds, alive : BOOLEAN] :
              row = request[q]
        BY <3>1
    <3>3. \A phase \in {"user", "roles"} : [row EXCEPT !.phase = phase] \in RequestType
        BY DEF RequestType
    <3> QED
        BY <2>1, <2>3, <3>2, <3>3 DEF CheckToken, CheckUser
  <2>4. ASSUME ReadRoles(q)
        PROVE  \E new \in RequestType : request' = [request EXCEPT ![q] = new]
    <3>1. PICK row \in [phase : {"token", "user", "roles"}, user : UserIds, alive : BOOLEAN] :
              row = request[q]
        BY <2>1, <2>4, IdleHasNoPhase DEF RequestType, ReadRoles
    <3> DEFINE u == row.user
    <3>2. \A b \in Effective(u) : b \in Bindings /\ roles[b[2]] \in RoleRow
        BY DEF Effective, AccessInv, Typed, RowsStand, AllTyped, TableTypes
    <3>3. \A b \in Effective(u) : b[3] \in WorkspaceIds /\ roles[b[2]].perms \subseteq Permissions
        BY <3>2 DEF Bindings, RoleRow
    <3>4. PermsOf(u) \in SUBSET (Permissions \cup {"*"})
        BY <3>3 DEF PermsOf
    <3>5. SpacesOf(u) \in SUBSET WorkspaceIds
        BY <3>3 DEF SpacesOf, AllTyped, TableTypes
    <3> DEFINE new == [phase |-> "resolved", user |-> u, alive |-> row.alive,
                       perms |-> PermsOf(u), spaces |-> SpacesOf(u)]
    <3>6. new \in RequestType
        BY <3>4, <3>5 DEF RequestType
    <3>7. request' = [request EXCEPT ![q] = new]
        BY <2>4, <3>1 DEF ReadRoles
    <3> QED
        BY <3>6, <3>7
  <2>5. ASSUME NEW aclFails \in BOOLEAN, Search(q, aclFails)
        PROVE  \E new \in RequestType : request' = [request EXCEPT ![q] = new]
    <3>1. PICK row \in [phase : {"resolved"}, user : UserIds, alive : BOOLEAN,
                        perms : SUBSET (Permissions \cup {"*"}), spaces : SUBSET WorkspaceIds] :
              row = request[q]
        BY <2>1, <2>5, IdleHasNoPhase DEF RequestType, Search
    <3> DEFINE new == [phase |-> "answered", user |-> row.user, alive |-> row.alive,
                       docs |-> UserFilter(row, aclFails)]
    <3>2. UserFilter(row, aclFails) \in SUBSET Documents
        BY DEF UserFilter
    <3>3. new \in RequestType
        BY <3>2 DEF RequestType
    <3>4. request' = [request EXCEPT ![q] = new]
        BY <2>5, <3>1 DEF Search
    <3> QED
        BY <3>3, <3>4
  <2> QED
      BY <2>1, <2>2, <2>3, <2>4, <2>5 DEF Resolve, Answer
<1> QED
    BY <1>1, <1>2 DEF AllTyped, TableTypes, ProcessTypes, CountTypes, Elsewhere, tables, history
\* The built-in roles come together and keep what seed.py gives them; the other roles
\* have other names, and no two roles the same.
RolesInv ==
    /\ DOMAIN roles \cap Builtin \in {{}, Builtin}
    /\ \A b \in DOMAIN roles \cap Builtin :
          /\ roles[b].name = b /\ roles[b].perms = SeedPerms[b]
          /\ roles[b].enabled \/ b = Auditor
    /\ \A r \in DOMAIN roles \ Builtin : roles[r].name \notin Builtin
    /\ \A r, s \in DOMAIN roles : roles[r].name = roles[s].name => r = s

\* A workspace that a binding, a call or the rest of a start-up refers to exists.
PlacesInv ==
    /\ \A b \in bindings : b[3] \in DOMAIN workspaces
    /\ \A w \in Workers :
          call[w].phase = "commit" => call[w].binding[3] \in DOMAIN workspaces
    /\ \A w \in Workers : boot[w] \in {"seeded", "admin", "admitted", "demo", "up"} =>
          SystemWorkspace \in DOMAIN workspaces

TablesInv == AccessInv /\ AllTyped /\ RolesInv /\ PlacesInv

LEMMA TablesMeaning == TablesInv => TablesSound
<1> SUFFICES ASSUME TablesInv PROVE TablesSound
    OBVIOUS
<1> USE DEF TablesInv
<1>1. \A r \in DOMAIN roles : Named(roles[r].name) = {r}
    BY DEF RolesInv, Named
<1>2. \A r \in DOMAIN roles : Cardinality(Named(roles[r].name)) = 1
    BY <1>1, FS_Singleton
<1>3. BuiltinsIntact
    BY <1>1, <1>2 DEF RolesInv, BuiltinsIntact
<1>4. BindingsResolve
    BY DEF BindingsResolve, AccessInv, RowsStand, PlacesInv
<1> QED
    BY <1>3, <1>4, TypeParts DEF TablesSound

LEMMA TablesInit == Init => TablesInv
<1> SUFFICES ASSUME Init PROVE TablesInv
    OBVIOUS
<1> USE DEF Init
<1>1. AllTyped
    BY SeedTypes, AccessAssumption
       DEF AllTyped, TableTypes, ProcessTypes, CountTypes, CallType, RequestType
<1>2. RolesInv /\ PlacesInv
    BY IdleHasNoPhase DEF RolesInv, PlacesInv
<1> QED
    BY <1>1, <1>2, AccessInit DEF TablesInv

LEMMA TypesInductive ==
    ASSUME AccessInv, AllTyped, [Next]_vars
    PROVE  AllTyped'
<1>1. CASE UNCHANGED vars
    BY <1>1 DEF vars, tables, history, AllTyped, TableTypes, ProcessTypes, CountTypes
<1>2. ASSUME NEW w \in Workers, Administer(w) PROVE AllTyped'
    BY <1>2, RowTypes, CallTypes DEF Administer
<1> QED
    BY <1>1, <1>2, StartTypes, KillTypes, RequestTypes DEF Next

\* A built-in row is what the seeding makes of it again, but for the auditor's status.
LEMMA SeedRowBuiltin ==
    ASSUME AccessInv, RolesInv, NEW b \in Builtin
    PROVE  /\ SeedRow(b).name = b /\ SeedRow(b).perms = SeedPerms[b]
           /\ SeedRow(b).enabled \/ b = Auditor
<1>1. CASE b \in DOMAIN roles
  <2>1. PICK row \in RoleRow : row = roles[b]
      BY <1>1 DEF AccessInv, Typed
  <2>2. SeedRow(b) = [row EXCEPT !.perms = @ \cup SeedPerms[b], !.enabled = @ /\ b # Auditor]
      BY <1>1, <2>1 DEF SeedRow
  <2>3. SeedRow(b) = [name |-> row.name, enabled |-> row.enabled /\ b # Auditor,
                      perms |-> row.perms \cup SeedPerms[b]]
      BY <2>2 DEF RoleRow
  <2>4. row.name = b /\ row.perms = SeedPerms[b] /\ (row.enabled \/ b = Auditor)
      BY <1>1, <2>1 DEF RolesInv
  <2>5. SeedRow(b).name = b /\ SeedRow(b).perms = SeedPerms[b]
      BY <2>3, <2>4
  <2>6. b # Auditor => SeedRow(b).enabled
    <3>1. PICK on \in BOOLEAN : on = (row.enabled /\ b # Auditor)
        OBVIOUS
    <3>2. SeedRow(b) = [name |-> row.name, enabled |-> on, perms |-> row.perms \cup SeedPerms[b]]
        BY ONLY <2>3, <3>1, Zenon
    <3>3. SeedRow(b).enabled = on
        BY ONLY <3>2
    <3> QED
        BY ONLY <2>4, <3>1, <3>3, Zenon
  <2> QED
      BY <2>5, <2>6
<1>2. CASE b \notin DOMAIN roles
    BY <1>2 DEF SeedRow
<1> QED
    BY <1>1, <1>2

LEMMA RolesInductive ==
    ASSUME AccessInv, RolesInv, [Next]_vars
    PROVE  RolesInv'
<1>1. CASE UNCHANGED roles
    BY <1>1 DEF RolesInv
<1>2. ASSUME NEW w \in Workers, SeedRoles(w), ~UNCHANGED roles PROVE RolesInv'
  <2> DEFINE new == [b \in Builtin |-> SeedRow(b)]
  <2>1. roles' = Extend(new, roles)
      BY <1>2 DEF SeedRoles, Refused, tables
  <2>2. DOMAIN new = Builtin /\ \A b \in Builtin : new[b] = SeedRow(b)
      OBVIOUS
  <2> HIDE DEF new
  <2>3. /\ DOMAIN roles' = Builtin \cup DOMAIN roles
        /\ \A b \in Builtin : roles'[b] = SeedRow(b)
        /\ \A r \in DOMAIN roles \ Builtin : roles'[r] = roles[r]
    <3>1. /\ DOMAIN Extend(new, roles) = DOMAIN new \cup DOMAIN roles
          /\ \A x \in DOMAIN new : Extend(new, roles)[x] = new[x]
          /\ \A x \in DOMAIN roles \ DOMAIN new : Extend(new, roles)[x] = roles[x]
        BY ONLY ExtendFacts
    <3> QED
        BY ONLY <2>1, <2>2, <3>1
  <2>4. \A b \in Builtin :
            /\ roles'[b].name = b /\ roles'[b].perms = SeedPerms[b]
            /\ roles'[b].enabled \/ b = Auditor
      BY <2>3, SeedRowBuiltin
  <2> QED
      BY <2>3, <2>4 DEF RolesInv
<1>3. ASSUME NEW w \in Workers, NEW r \in CustomRoles, NEW name \in CustomNames,
             NEW p \in Permissions, CreateRole(w, r, name, {p})
      PROVE  RolesInv'
  <2>1. /\ DOMAIN roles' = DOMAIN roles \cup {r} /\ r \notin DOMAIN roles
        /\ \A x \in DOMAIN roles : roles'[x] = roles[x]
        /\ roles'[r].name = name
      BY <1>3 DEF CreateRole, Extend
  <2>2. name \notin Builtin /\ \A x \in DOMAIN roles : roles[x].name # name
      BY <1>3 DEF CreateRole, Named
  <2>3. r \notin Builtin
      BY AccessAssumption
  <2> QED
      BY <2>1, <2>2, <2>3 DEF RolesInv
<1>4. ASSUME NEW w \in Workers, NEW r \in RoleIds, NEW row \in RoleRow, UpdateRole(w, r, row)
      PROVE  RolesInv'
  <2>1. /\ r \in DOMAIN roles /\ DOMAIN roles' = DOMAIN roles /\ roles'[r] = row
        /\ \A x \in DOMAIN roles \ {r} : roles'[x] = roles[x]
      BY <1>4 DEF UpdateRole
  <2>2. CASE r \in Builtin
    <3>1. row.name = roles[r].name /\ row.enabled /\ row.perms = roles[r].perms
        BY <1>4, <2>2 DEF UpdateRole
    <3> QED
        BY <2>1, <2>2, <3>1 DEF RolesInv
  <2>3. CASE r \notin Builtin
    <3>1. \/ row.name = roles[r].name
          \/ row.name \notin Builtin /\ \A x \in DOMAIN roles : roles[x].name # row.name
        BY <1>4 DEF UpdateRole, Named
    <3> QED
        BY <2>1, <2>3, <3>1 DEF RolesInv
  <2> QED
      BY <2>2, <2>3
<1>5. ASSUME NEW w \in Workers, NEW r \in RoleIds, DeleteRole(w, r) PROVE RolesInv'
  <2>1. /\ DOMAIN roles' = DOMAIN roles \ {r} /\ r \notin Builtin
        /\ \A x \in DOMAIN roles' : roles'[x] = roles[x]
      BY <1>5, AccessAssumption DEF DeleteRole, Restrict
  <2> QED
      BY <2>1 DEF RolesInv
<1>6. ASSUME NEW w \in Workers, Start(w), ~SeedRoles(w) PROVE UNCHANGED roles
    BY <1>6 DEF Start, LookUpRoles, LookUpAdmin, LookUpDemo, LookUp, SeedAdmin, SeedDemo, Refused,
                tables
<1>7. ASSUME NEW w \in Workers, Administer(w),
             ~\E r \in CustomRoles, name \in CustomNames : \E p \in Permissions :
                  CreateRole(w, r, name, {p}),
             ~\E r \in RoleIds, row \in RoleRow : UpdateRole(w, r, row),
             ~\E r \in RoleIds : DeleteRole(w, r)
      PROVE  UNCHANGED roles
    BY <1>7 DEF Administer, BeginAssign, CommitAssign, RecordBind, Unassign, SoftDelete,
                SetUserStatus, SetWorkspaceStatus, Login, IssueToken, InCall, tables
<1>8. ASSUME NEW q \in Clients, Resolve(q) PROVE UNCHANGED roles
    BY <1>8 DEF Resolve, Present, CheckToken, CheckUser, ReadRoles, Search, Answer, Elsewhere,
                tables
<1> QED
    BY <1>1, <1>2, <1>3, <1>4, <1>5, <1>6, <1>7, <1>8 DEF Next, Kill, vars, tables
\* Workspaces stay, and a start-up past its first transaction has the system's.
LEMMA PlacesStarted ==
    ASSUME AccessInv, PlacesInv, NEW w \in Workers, Start(w)
    PROVE  PlacesInv'
<1> USE DEF PlacesInv, Remaining, tables
<1>1. UNCHANGED call
    BY DEF Start, LookUpRoles, LookUpAdmin, LookUpDemo, LookUp, SeedRoles, SeedAdmin, SeedDemo
<1>2. ASSUME NEW phase, boot' = [boot EXCEPT ![w] = phase],
             DOMAIN workspaces \subseteq DOMAIN workspaces',
             \A b \in bindings' \ bindings : b[3] \in DOMAIN workspaces',
             \/ phase \in {"down", "roles"} \/ SystemWorkspace \in DOMAIN workspaces'
             \/ boot[w] \in {"seeded", "admin", "admitted", "demo", "up"}
      PROVE  PlacesInv'
    BY <1>1, <1>2 DEF AccessInv, Typed
<1>3. CASE LookUpRoles(w) \/ LookUpAdmin(w) \/ LookUpDemo(w)
    BY <1>2, <1>3 DEF LookUpRoles, LookUpAdmin, LookUpDemo, LookUp
<1>4. CASE UNCHANGED <<tables, ever>> /\ boot' = [boot EXCEPT ![w] = "down"]
    BY <1>2, <1>4
<1>5. CASE SeedRoles(w) /\ ~Refused(w)
  <2>1. /\ boot' = [boot EXCEPT ![w] = "seeded"] /\ UNCHANGED bindings
        /\ workspaces' = Extend(workspaces, [s \in {SystemWorkspace} |-> TRUE])
      BY <1>5 DEF SeedRoles, Proceed
  <2>2. DOMAIN workspaces' = DOMAIN workspaces \cup {SystemWorkspace}
      BY <2>1 DEF Extend
  <2> QED
      BY <1>2, <2>1, <2>2
<1>6. CASE SeedAdmin(w) /\ ~Refused(w)
  <2>1. /\ boot[w] = "admin" /\ boot' = [boot EXCEPT ![w] = "admitted"]
        /\ UNCHANGED workspaces /\ bindings' \subseteq bindings \cup {AdminBinding}
      BY <1>6 DEF SeedAdmin, Proceed, Bind
  <2>2. AdminBinding[3] = SystemWorkspace
      BY AccessAssumption
  <2> QED
      BY <1>2, <2>1, <2>2
<1>7. CASE SeedDemo(w) /\ ~Refused(w)
  <2>1. /\ boot[w] = "demo" /\ boot' = [boot EXCEPT ![w] = "up"]
        /\ workspaces' = Extend(workspaces, [s \in DemoWorkspaces |-> TRUE])
        /\ bindings' \subseteq bindings \cup DemoBindings
      BY <1>7 DEF SeedDemo, Proceed, Bind
  <2>2. \A b \in DemoBindings : b[3] \in DemoWorkspaces
      BY AccessAssumption
  <2>3. DOMAIN workspaces' = DOMAIN workspaces \cup DemoWorkspaces
      BY <2>1 DEF Extend
  <2> QED
      BY <1>2, <2>1, <2>2, <2>3
<1> QED
    BY <1>3, <1>4, <1>5, <1>6, <1>7 DEF Start, SeedRoles, SeedAdmin, SeedDemo, Refused

LEMMA PlacesInductive ==
    ASSUME AccessInv, PlacesInv, [Next]_vars
    PROVE  PlacesInv'
<1> USE DEF PlacesInv
<1>1. ASSUME UNCHANGED <<boot, call>>, DOMAIN workspaces' = DOMAIN workspaces,
             bindings' \subseteq bindings
      PROVE  PlacesInv'
    BY <1>1
<1>2. CASE UNCHANGED vars
    BY <1>1, <1>2 DEF vars, tables
<1>3. ASSUME NEW w \in Workers, Kill(w) PROVE PlacesInv'
    BY <1>3, IdleHasNoPhase DEF Kill, tables, AccessInv, Typed
<1>4. ASSUME NEW w \in Workers, NEW b \in Requested, BeginAssign(w, b) PROVE PlacesInv'
  <2>1. /\ UNCHANGED <<boot, bindings, workspaces>>
        /\ call' = [call EXCEPT ![w] = [phase |-> "commit", binding |-> b]]
        /\ b[3] \in DOMAIN workspaces
      BY <1>4 DEF BeginAssign, Operate, tables
  <2> QED
      BY <2>1 DEF AccessInv, Typed
<1>5. ASSUME NEW w \in Workers, CommitAssign(w) PROVE PlacesInv'
  <2> DEFINE b == call[w].binding
  <2>1. /\ UNCHANGED <<boot, workspaces>> /\ bindings' \subseteq bindings \cup {b}
        /\ b[3] \in DOMAIN workspaces
      BY <1>5 DEF CommitAssign, InCall, Bind
  <2>2. call[w] = [phase |-> "commit", binding |-> b]
      BY <1>5, CallMeaning DEF CommitAssign
  <2>3. [call[w] EXCEPT !.phase = "audit"] = [phase |-> "audit", binding |-> b]
      BY <2>2
  <2> HIDE DEF b
  <2>4. \E new : call' = [call EXCEPT ![w] = new] /\ new.phase # "commit"
    <3>1. \/ call' = [call EXCEPT ![w] = [call[w] EXCEPT !.phase = "audit"]]
          \/ call' = [call EXCEPT ![w] = Idle]
        BY <1>5 DEF CommitAssign
    <3> QED
        BY <2>3, <3>1, IdleHasNoPhase
  <2> QED
      BY <2>1, <2>4 DEF AccessInv, Typed
<1>6. ASSUME NEW w \in Workers, RecordBind(w) PROVE PlacesInv'
    BY <1>6, IdleHasNoPhase DEF RecordBind, InCall, AccessInv, Typed
<1>7. ASSUME NEW w \in Workers, Administer(w), ~\E b \in Requested : BeginAssign(w, b),
             ~CommitAssign(w), ~RecordBind(w)
      PROVE  PlacesInv'
  <2>1. UNCHANGED <<boot, call>> /\ bindings' \subseteq bindings
      BY <1>7 DEF Administer, Unassign, SoftDelete, SetUserStatus, SetWorkspaceStatus, Login,
                  IssueToken, CreateRole, UpdateRole, DeleteRole, Operate, Atomic, tables
  <2>2. DOMAIN workspaces' = DOMAIN workspaces
      BY <1>7 DEF Administer, Unassign, SoftDelete, SetUserStatus, SetWorkspaceStatus, Login,
                  IssueToken, CreateRole, UpdateRole, DeleteRole, tables
  <2> QED
      BY <1>1, <2>1, <2>2
<1>8. ASSUME NEW q \in Clients, Resolve(q) PROVE PlacesInv'
    BY <1>1, <1>8 DEF Resolve, Present, CheckToken, CheckUser, ReadRoles, Search, Answer,
                      Elsewhere, tables
<1> QED
    BY <1>2, <1>3, <1>4, <1>5, <1>6, <1>7, <1>8, PlacesStarted DEF Next

LEMMA TablesInductive == TablesInv /\ [Next]_vars => TablesInv'
BY AccessAssumption, AccessInductive, TypesInductive, RolesInductive, PlacesInductive DEF TablesInv

\* However processes start, are killed and administer: the state is of its type, the
\* built-in roles exist together with what seed.py gives them and names nobody else has,
\* and every binding is of a user, a role and a workspace that exist.
THEOREM TablesStaySound == Spec => []TablesSound
BY TablesInit, TablesInductive, TablesMeaning, PTL DEF Spec
=============================================================================
