--------------------------- MODULE AccessControl ---------------------------
(***************************************************************************)
(* Who may do what: the tables behind it, start-up, administration and the *)
(* resolution of a request's credentials.                                  *)
(*                                                                         *)
(* rbac/seed.py fills the tables whenever an API process starts            *)
(* (main.py, lifespan): built-in roles, the admin account, the demo data,  *)
(* each in a transaction that looks up what is missing and inserts it.     *)
(* Processes start at the same time, die and are started again.  rbac/     *)
(* roles.py, assignments.py and status.py change the tables while requests *)
(* resolve a JWT or an API token to a context (api_gateway/dependencies.py)*)
(* in several statements, each of which sees what is committed by then.    *)
(*                                                                         *)
(* A built-in role is identified with its name.  An operation that fails   *)
(* changes nothing and is not a step, except where it fails after a lookup.*)
(***************************************************************************)
EXTENDS Naturals, FiniteSets, Functions

CONSTANTS
    Workers,        \* API processes; each runs one administrative call at a time
    Clients,        \* requests that resolve their credentials at the same time
    Builtin,        \* the names of BUILTIN_ROLES
    Auditor,        \* the deprecated one
    SeedPerms,      \* permission_keys of each built-in role
    CustomRoles,    \* ids for custom roles
    CustomNames,    \* names given to them
    Permissions,    \* permission keys
    Admin, AdminBinding,        \* what seed_admin_user creates
    DemoUsers, DemoBindings,    \* what seed_demo_data creates
    SystemWorkspace, DemoWorkspaces,
    Requested,      \* bindings that administrators assign
    Documents,      \* indexed documents: their workspace and owner
    SystemCheck,    \* does roles have the CHECK of migration 0001, which no later one drops?
                    \* Tables made from the ORM classes, as the tests make them, have not.
    MaxOps, MaxKills            \* bounds

UserIds == DemoUsers \cup {Admin}
RoleIds == Builtin \cup CustomRoles
WorkspaceIds == DemoWorkspaces \cup {SystemWorkspace}
Bindings == UserIds \X RoleIds \X WorkspaceIds

ASSUME AccessAssumption ==
    /\ Auditor \in Builtin
    /\ Builtin \cap CustomRoles = {} /\ Builtin \cap CustomNames = {}
    /\ SeedPerms \in [Builtin -> SUBSET Permissions]
    /\ Admin \notin DemoUsers /\ SystemWorkspace \notin DemoWorkspaces
    /\ AdminBinding \in {Admin} \X Builtin \X {SystemWorkspace}
    /\ DemoBindings \subseteq DemoUsers \X Builtin \X DemoWorkspaces
    /\ Requested \subseteq Bindings
    /\ Documents \subseteq [space : WorkspaceIds, owner : UserIds]
    /\ SystemCheck \in BOOLEAN
    /\ "*" \notin Permissions     \* no role is given the wildcard of the admin's context
    /\ MaxOps \in Nat /\ MaxKills \in Nat

VARIABLES
    roles, users, workspaces, bindings, \* the tables: rows by id, and user_roles
    credentials,    \* JWTs and API tokens that have not expired
    boot, found,    \* how far each worker's start-up is, what it looked up
    call,           \* the assign_role() each worker is executing
    request,        \* the credentials each client is presenting
    recorded,       \* bindings with a role_bind audit event
    ever, revoked,  \* history: bindings committed; removed and not assigned since
    ops, kills      \* administrative operations and kills so far

tables == <<roles, users, workspaces, bindings>>
history == <<recorded, ever, revoked>>
vars == <<tables, credentials, boot, found, call, request, history, ops, kills>>

Idle == [phase |-> "idle"]
Nothing == [present |-> FALSE, bound |-> {}]

RoleRow == [name : Builtin \cup CustomNames, enabled : BOOLEAN, perms : SUBSET Permissions]
UserRow == [enabled : BOOLEAN, deleted : BOOLEAN]
Schemes == {"jwt", "sk"}

TypeOK ==
    /\ DOMAIN roles \subseteq RoleIds /\ Range(roles) \subseteq RoleRow
    /\ DOMAIN users \subseteq UserIds /\ Range(users) \subseteq UserRow
    /\ DOMAIN workspaces \subseteq WorkspaceIds /\ Range(workspaces) \subseteq BOOLEAN
    /\ bindings \subseteq Bindings
    /\ credentials \subseteq UserIds \X Schemes
    /\ boot \in [Workers -> {"down", "roles", "seeded", "admin", "admitted", "demo", "up"}]
    /\ found \in [Workers -> [present : BOOLEAN, bound : SUBSET Bindings]]
    /\ call \in [Workers -> {Idle} \cup [phase : {"commit", "audit"}, binding : Requested]]
    /\ request \in [Clients -> {Idle}
          \cup [phase : {"token", "user", "roles"}, user : UserIds, alive : BOOLEAN]
          \cup [phase : {"resolved"}, user : UserIds, alive : BOOLEAN,
                perms : SUBSET (Permissions \cup {"*"}), spaces : SUBSET WorkspaceIds]
          \cup [phase : {"answered"}, user : UserIds, alive : BOOLEAN, docs : SUBSET Documents]]
    /\ recorded \subseteq Bindings /\ ever \subseteq Bindings /\ revoked \subseteq Bindings
    /\ ops \in 0 .. MaxOps /\ kills \in 0 .. MaxKills

\* An empty database, with the tables of the migrations or those of the ORM classes.
Init ==
    /\ roles = <<>> /\ users = <<>> /\ workspaces = <<>> /\ bindings = {}
    /\ credentials = {}
    /\ boot = [w \in Workers |-> "down"] /\ found = [w \in Workers |-> Nothing]
    /\ call = [w \in Workers |-> Idle]
    /\ request = [q \in Clients |-> Idle]
    /\ recorded = {} /\ ever = {} /\ revoked = {}
    /\ ops = 0 /\ kills = 0

-----------------------------------------------------------------------------
(* Start-up: the lifespan of main.py.                                      *)

Remaining == <<credentials, call, request, recorded, revoked, ops, kills>>

\* A transaction of the start-up has looked up what is there already.
LookUp(w, from, to, seen) ==
    /\ boot[w] = from
    /\ boot' = [boot EXCEPT ![w] = to]
    /\ found' = [found EXCEPT ![w] = seen]
    /\ UNCHANGED <<tables, ever, Remaining>>

LookUpRoles(w) ==
    LookUp(w, "down", "roles",
           [present |-> SystemWorkspace \in DOMAIN workspaces, bound |-> {}])
LookUpAdmin(w) ==
    LookUp(w, "seeded", "admin", [present |-> Admin \in DOMAIN users, bound |-> {}])
LookUpDemo(w) ==
    LookUp(w, "admitted", "demo",
           [present |-> DemoUsers \subseteq DOMAIN users, bound |-> bindings \cap DemoBindings])

\* An IntegrityError leaves lifespan(): the process exits, to be started again.
Refused(w) ==
    /\ boot' = [boot EXCEPT ![w] = "down"]
    /\ UNCHANGED <<tables, ever>>

\* The rows of a table and those of new whose id it does not have.
Extend(table, new) ==
    [x \in DOMAIN table \cup DOMAIN new |-> IF x \in DOMAIN table THEN table[x] ELSE new[x]]

Proceed(w, phase) == boot' = [boot EXCEPT ![w] = phase]

SeedRow(b) ==
    IF b \in DOMAIN roles
    THEN [roles[b] EXCEPT !.perms = @ \cup SeedPerms[b], !.enabled = @ /\ b # Auditor]
    ELSE [name |-> b, enabled |-> b # Auditor, perms |-> SeedPerms[b]]

\* seed_builtin_roles().  What another process inserted after the lookup violates a
\* unique constraint; disabling the auditor role, which is_system, violates the CHECK
\* that the migrations leave in the schema, so there no start-up gets past this point.
SeedRoles(w) ==
    /\ boot[w] = "roles"
    /\ IF SystemCheck \/ (~found[w].present /\ SystemWorkspace \in DOMAIN workspaces)
       THEN Refused(w)
       ELSE /\ roles' = Extend([b \in Builtin |-> SeedRow(b)], roles)
            /\ workspaces' = Extend(workspaces, [s \in {SystemWorkspace} |-> TRUE])
            /\ Proceed(w, "seeded")
            /\ UNCHANGED <<users, bindings, ever>>
    /\ found' = [found EXCEPT ![w] = Nothing]
    /\ UNCHANGED Remaining

\* A new account.
Account == [enabled |-> TRUE, deleted |-> FALSE]

Bind(new) ==
    /\ bindings' = bindings \cup new
    /\ ever' = ever \cup new

\* Mutant of SeedAdmin: the binding is ensured even if the account exists.
SeedAdminAgain(w) ==
    /\ boot[w] = "admin"
    /\ IF ~found[w].present /\ Admin \in DOMAIN users
       THEN Refused(w)
       ELSE /\ users' = Extend(users, [u \in {Admin} |-> Account])
            /\ Bind({AdminBinding})
            /\ Proceed(w, "admitted")
            /\ UNCHANGED <<roles, workspaces>>
    /\ found' = [found EXCEPT ![w] = Nothing]
    /\ UNCHANGED Remaining

\* seed_admin_user(): account and binding in one transaction, unless it exists.
SeedAdmin(w) ==
    /\ boot[w] = "admin"
    /\ IF ~found[w].present /\ Admin \in DOMAIN users
       THEN Refused(w)
       ELSE /\ IF found[w].present
               THEN UNCHANGED <<users, bindings, ever>>
               ELSE users' = Extend(users, [u \in {Admin} |-> Account]) /\ Bind({AdminBinding})
            /\ Proceed(w, "admitted")
            /\ UNCHANGED <<roles, workspaces>>
    /\ found' = [found EXCEPT ![w] = Nothing]
    /\ UNCHANGED Remaining

\* Mutant of SeedDemo: a failed seeding is retried with what it looked up before.
SeedDemoStale(w) ==
    /\ boot[w] = "demo"
    /\ IF ~found[w].present /\ DemoUsers \subseteq DOMAIN users
       THEN UNCHANGED <<tables, ever, boot, found>>
       ELSE /\ users' = Extend(users, [u \in DemoUsers |-> Account])
            /\ workspaces' = Extend(workspaces, [s \in DemoWorkspaces |-> TRUE])
            /\ Bind(DemoBindings \ found[w].bound)
            /\ Proceed(w, "up")
            /\ found' = [found EXCEPT ![w] = Nothing]
            /\ UNCHANGED roles
    /\ UNCHANGED Remaining

\* seed_demo_data(): accounts and workspaces unless they exist, and every binding
\* that is missing, whoever removed it.
SeedDemo(w) ==
    /\ boot[w] = "demo"
    /\ IF \/ ~found[w].present /\ DemoUsers \subseteq DOMAIN users
          \/ (bindings \cap DemoBindings) \ found[w].bound # {}
       THEN Refused(w)
       ELSE /\ users' = Extend(users, [u \in DemoUsers |-> Account])
            /\ workspaces' = Extend(workspaces, [s \in DemoWorkspaces |-> TRUE])
            /\ Bind(DemoBindings \ found[w].bound)
            /\ Proceed(w, "up")
            /\ UNCHANGED roles
    /\ found' = [found EXCEPT ![w] = Nothing]
    /\ UNCHANGED Remaining

\* The process is killed, at start-up or later, with the call it executes.
Kill(w) ==
    /\ boot[w] # "down" /\ kills < MaxKills
    /\ kills' = kills + 1
    /\ boot' = [boot EXCEPT ![w] = "down"]
    /\ found' = [found EXCEPT ![w] = Nothing]
    /\ call' = [call EXCEPT ![w] = Idle]
    /\ UNCHANGED <<tables, credentials, request, history, ops>>

-----------------------------------------------------------------------------
(* Administration.                                                         *)

\* A worker that is up takes another administrative operation.
Operate(w) ==
    /\ boot[w] = "up" /\ call[w] = Idle /\ ops < MaxOps
    /\ ops' = ops + 1
    /\ UNCHANGED <<boot, found, request, kills>>

Atomic == UNCHANGED <<call, recorded, ever, revoked>>

\* assign_role(): the checks.
BeginAssign(w, b) ==
    LET u == b[1] r == b[2] s == b[3] IN
    /\ Operate(w)
    /\ r \in DOMAIN roles /\ roles[r].enabled
    /\ s \in DOMAIN workspaces /\ workspaces[s]
    /\ u \in DOMAIN users /\ ~users[u].deleted
    /\ b \notin bindings
    /\ call' = [call EXCEPT ![w] = [phase |-> "commit", binding |-> b]]
    /\ revoked' = revoked \ {b}
    /\ UNCHANGED <<tables, credentials, recorded, ever>>

InCall == <<roles, users, workspaces, credentials, boot, found, request, revoked, ops, kills>>

\* The commit.  The primary key refuses a binding that was made in between, the
\* foreign key a role that was deleted; what else was checked is not checked again.
CommitAssign(w) ==
    LET b == call[w].binding IN
    /\ call[w].phase = "commit"
    /\ IF b[2] \in DOMAIN roles /\ b \notin bindings
       THEN /\ Bind({b})
            /\ call' = [call EXCEPT ![w].phase = "audit"]
       ELSE /\ call' = [call EXCEPT ![w] = Idle]
            /\ UNCHANGED <<bindings, ever>>
    /\ UNCHANGED <<recorded, InCall>>

RecordBind(w) ==
    /\ call[w].phase = "audit"
    /\ recorded' = recorded \cup {call[w].binding}
    /\ call' = [call EXCEPT ![w] = Idle]
    /\ UNCHANGED <<bindings, ever, InCall>>

\* unassign_role().  The history forgets a removal that races an assignment.
Unassign(w, b) ==
    /\ Operate(w)
    /\ b \in bindings
    /\ bindings' = bindings \ {b}
    /\ revoked' = IF \E v \in Workers : call[v].phase = "commit" /\ call[v].binding = b
                  THEN revoked ELSE revoked \cup {b}
    /\ UNCHANGED <<roles, users, workspaces, credentials, call, recorded, ever>>

\* soft_delete_user(): the row and its bindings stay.
SoftDelete(w, u) ==
    /\ Operate(w)
    /\ u \in DOMAIN users /\ ~users[u].deleted
    /\ users' = [users EXCEPT ![u].deleted = TRUE]
    /\ UNCHANGED <<roles, workspaces, bindings, credentials>> /\ Atomic

SetUserStatus(w, u) ==
    /\ Operate(w)
    /\ u \in DOMAIN users
    /\ users' = [users EXCEPT ![u].enabled = ~@]
    /\ UNCHANGED <<roles, workspaces, bindings, credentials>> /\ Atomic

SetWorkspaceStatus(w, s) ==
    /\ Operate(w)
    /\ s \in DOMAIN workspaces
    /\ workspaces' = [workspaces EXCEPT ![s] = ~@]
    /\ UNCHANGED <<roles, users, bindings, credentials>> /\ Atomic

Named(name) == {r \in DOMAIN roles : roles[r].name = name}

\* create_custom_role().
CreateRole(w, r, name, perms) ==
    /\ Operate(w)
    /\ r \in CustomRoles \ DOMAIN roles
    /\ name \notin Builtin /\ Named(name) = {}
    /\ roles' = Extend(roles, [x \in {r} |-> [name |-> name, enabled |-> TRUE, perms |-> perms]])
    /\ UNCHANGED <<users, workspaces, bindings, credentials>> /\ Atomic

\* update_role(): name, status and permissions of a custom role; of a built-in one
\* nothing but its being enabled.
UpdateRole(w, r, row) ==
    /\ Operate(w)
    /\ r \in DOMAIN roles
    /\ row # roles[r]
    /\ row.name # roles[r].name => r \notin Builtin /\ row.name \notin Builtin /\ Named(row.name) = {}
    /\ r \in Builtin => row.enabled /\ row.perms = roles[r].perms
    /\ roles' = [roles EXCEPT ![r] = row]
    /\ UNCHANGED <<users, workspaces, bindings, credentials>> /\ Atomic

\* Mutant of DeleteRole: the bindings are left to another cleanup.
DeleteRoleOnly(w, r) ==
    /\ Operate(w)
    /\ r \in DOMAIN roles \cap CustomRoles
    /\ roles' = Restrict(roles, DOMAIN roles \ {r})
    /\ UNCHANGED <<users, workspaces, bindings, credentials>> /\ Atomic

\* delete_role(): bindings and permissions go with it (ON DELETE CASCADE).
DeleteRole(w, r) ==
    /\ Operate(w)
    /\ r \in DOMAIN roles \cap CustomRoles
    /\ roles' = Restrict(roles, DOMAIN roles \ {r})
    /\ bindings' = {b \in bindings : b[2] # r}
    /\ UNCHANGED <<users, workspaces, credentials>> /\ Atomic

\* POST /auth/login gives a JWT, issue_api_token() a token.
Login(w, u) ==
    /\ Operate(w)
    /\ u \in DOMAIN users /\ ~users[u].deleted /\ users[u].enabled
    /\ credentials' = credentials \cup {<<u, "jwt">>}
    /\ UNCHANGED tables /\ Atomic

IssueToken(w, u) ==
    /\ Operate(w)
    /\ u \in DOMAIN users
    /\ credentials' = credentials \cup {<<u, "sk">>}
    /\ UNCHANGED tables /\ Atomic

-----------------------------------------------------------------------------
(* A request: get_current_user().                                          *)

Elsewhere == <<tables, credentials, boot, found, call, history, ops, kills>>

Present(q, u, scheme) ==
    /\ request[q] = Idle
    /\ \E w \in Workers : boot[w] = "up"
    /\ <<u, scheme>> \in credentials
    /\ request' = [request EXCEPT ![q] =
            [phase |-> IF scheme = "sk" THEN "token" ELSE "user",
             user |-> u, alive |-> ~users[u].deleted]]
    /\ UNCHANGED Elsewhere

Live(u) == users[u].enabled /\ ~users[u].deleted

\* lookup_active_token(), then the user's row in _resolve_user_context().
CheckToken(q) ==
    /\ request[q].phase = "token"
    /\ request' = [request EXCEPT ![q] = IF Live(@.user) THEN [@ EXCEPT !.phase = "user"] ELSE Idle]
    /\ UNCHANGED Elsewhere

\* Mutant of CheckUser: the status alone is checked.
CheckUserStatus(q) ==
    /\ request[q].phase = "user"
    /\ request' = [request EXCEPT ![q] =
                     IF users[@.user].enabled THEN [@ EXCEPT !.phase = "roles"] ELSE Idle]
    /\ UNCHANGED Elsewhere

CheckUser(q) ==
    /\ request[q].phase = "user"
    /\ request' = [request EXCEPT ![q] = IF Live(@.user) THEN [@ EXCEPT !.phase = "roles"] ELSE Idle]
    /\ UNCHANGED Elsewhere

\* The bindings of a user that count: those whose role is enabled.  The join with
\* the permissions drops a role that has none, and the membership with it.
Effective(u) == {b \in bindings : b[1] = u /\ roles[b[2]].enabled /\ roles[b[2]].perms # {}}
PermsOf(u) == IF u = Admin THEN {"*"} ELSE UNION {roles[b[2]].perms : b \in Effective(u)}
SpacesOf(u) ==
    (IF u = Admin THEN DOMAIN workspaces ELSE {b[3] : b \in Effective(u)}) \ {SystemWorkspace}

ReadRoles(q) ==
    LET u == request[q].user IN
    /\ request[q].phase = "roles"
    /\ request' = [request EXCEPT ![q] =
            [phase |-> "resolved", user |-> u, alive |-> @.alive,
             perms |-> PermsOf(u), spaces |-> SpacesOf(u)]]
    /\ UNCHANGED Elsewhere

\* build_user_filter(): no restriction for a super-admin, else the workspaces of the
\* context and the user's own documents, and nothing at all if the query of the ACL
\* rows fails.  (The payload fields the ACL rows are matched with are never written.)
UserFilter(ctx, aclFails) ==
    IF "*" \in ctx.perms THEN Documents
    ELSE IF aclFails THEN {}
    ELSE {d \in Documents : d.space \in ctx.spaces \/ d.owner = ctx.user}

\* Mutant of Search: a failing filter is left out.
SearchUnfiltered(q, aclFails) ==
    /\ request[q].phase = "resolved"
    /\ request' = [request EXCEPT ![q] =
            [phase |-> "answered", user |-> @.user, alive |-> @.alive,
             docs |-> IF aclFails THEN Documents ELSE UserFilter(@, FALSE)]]
    /\ UNCHANGED Elsewhere

\* The context is used: documents are searched with its filter.  (Points without
\* owner_id, which is how this revision indexes, only make the answer smaller.)
Search(q, aclFails) ==
    /\ request[q].phase = "resolved"
    /\ request' = [request EXCEPT ![q] =
            [phase |-> "answered", user |-> @.user, alive |-> @.alive,
             docs |-> UserFilter(@, aclFails)]]
    /\ UNCHANGED Elsewhere

Answer(q) ==
    /\ request[q].phase = "answered"
    /\ request' = [request EXCEPT ![q] = Idle]
    /\ UNCHANGED Elsewhere

-----------------------------------------------------------------------------
Start(w) ==
    \/ LookUpRoles(w) \/ SeedRoles(w) \/ LookUpAdmin(w) \/ SeedAdmin(w)
    \/ LookUpDemo(w) \/ SeedDemo(w)

Administer(w) ==
    \/ \E b \in Requested : BeginAssign(w, b)
    \/ \E b \in bindings : Unassign(w, b)
    \/ \E u \in UserIds : SoftDelete(w, u) \/ SetUserStatus(w, u) \/ Login(w, u) \/ IssueToken(w, u)
    \/ \E s \in WorkspaceIds : SetWorkspaceStatus(w, s)
    \/ \E r \in CustomRoles, name \in CustomNames : \E p \in Permissions : CreateRole(w, r, name, {p})
    \/ \E r \in RoleIds, row \in RoleRow : UpdateRole(w, r, row)
    \/ \E r \in RoleIds : DeleteRole(w, r)
    \/ CommitAssign(w) \/ RecordBind(w)

Resolve(q) ==
    \/ \E u \in UserIds, scheme \in Schemes : Present(q, u, scheme)
    \/ CheckToken(q) \/ CheckUser(q) \/ ReadRoles(q)
    \/ \E aclFails \in BOOLEAN : Search(q, aclFails)
    \/ Answer(q)

Next ==
    \/ \E w \in Workers : Start(w) \/ Kill(w) \/ Administer(w)
    \/ \E q \in Clients : Resolve(q)

Spec == Init /\ [][Next]_vars

\* A process that exits is started again, and a start-up does not pause for ever.
FairSpec == Spec /\ \A w \in Workers : WF_vars(Start(w))

-----------------------------------------------------------------------------
(* Properties                                                              *)

\* Start-up is atomic and administration leaves the built-in roles alone: all of them
\* exist or none, with the permissions of seed.py, enabled (but for the auditor), and
\* no other role bears their names or one another's.
BuiltinsIntact ==
    /\ DOMAIN roles \cap Builtin \in {{}, Builtin}
    /\ \A b \in DOMAIN roles \cap Builtin :
          /\ roles[b].perms = SeedPerms[b]
          /\ roles[b].enabled \/ b = Auditor
          /\ Named(b) = {b}
    /\ \A r \in DOMAIN roles : Cardinality(Named(roles[r].name)) = 1

\* Whatever is deleted while something else refers to it, every binding refers to rows
\* that exist: a resolution never meets a role or a workspace that is gone.
BindingsResolve ==
    \A b \in bindings :
        b[1] \in DOMAIN users /\ b[2] \in DOMAIN roles /\ b[3] \in DOMAIN workspaces

\* However processes start, are killed and administer, the tables stay consistent.
TablesSound == TypeOK /\ BuiltinsIntact /\ BindingsResolve

\* "Unassign removes the binding" (assignments.py): a binding that was removed while
\* nobody was assigning it comes back by a new assignment only; but every start-up
\* restores the bindings of the demo data.
RevocationStands == revoked \cap bindings \subseteq DemoBindings

\* A role_bind event is recorded "AFTER the binding commits" (assignments.py): also of
\* two calls that assign the same binding at once, only the one that made it is shown.
RoleBindTruthful == recorded \subseteq ever

\* What an administrator was told of a binding holds: a removed one stays removed, and
\* a recorded one was made.
AdministrationStands == RevocationStands /\ RoleBindTruthful

\* "The user immediately loses access" (soft_delete_user): whatever credential is
\* presented, and even if roles are bound to the user by a call that was under way, a
\* request that starts after the deletion is not resolved to a context.
DeletedLockedOut == \A q \in Clients : request[q].phase = "resolved" => request[q].alive

\* "Zero documents leak" (acl_filter): whatever is revoked, disabled or fails while the
\* context is built, a user finds a document only if it is the user's own or lies in a
\* workspace the user was bound to at some time; the admin alone finds all.
NobodyElsesDocuments ==
    \A q \in Clients : request[q].phase = "answered" =>
        \A d \in request[q].docs :
            \/ request[q].user \in {Admin, d.owner}
            \/ \E b \in ever : b[1] = request[q].user /\ b[3] = d.space

\* The system workspace carries permissions but is no place to go: no context lists it,
\* and a context with a workspace has a permission that brought it there.
NoWayIntoSystem ==
    \A q \in Clients : request[q].phase = "resolved" =>
        /\ SystemWorkspace \notin request[q].spaces
        /\ request[q].spaces # {} => request[q].perms # {}

\* A caller finds no document, and no workspace, beyond what the caller was granted.
LimitedToGrants == NobodyElsesDocuments /\ NoWayIntoSystem

\* The start-up is "safe to invoke from dev reloads, tests, and prod boots alike"
\* (main.py, lifespan): processes that start at the same time on an empty database, lose
\* the race for a row, are killed half-way and start again are all up in the end.  So it
\* is on tables made from the ORM classes; on migrated ones no process ever comes up,
\* because the seed disables a role that the CHECK of migration 0001 wants enabled.
WorkersComeUp == \A w \in Workers : []<>(boot[w] = "up")
=============================================================================
