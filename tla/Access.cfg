SPECIFICATION FairSpec
CONSTANTS
    alice = alice
    admin = admin
    hq = hq
    system = system
    custom = custom
    Workers = {w1, w2}
    Clients = {q1}
    Builtin <- BuiltinRoles
    Auditor = "auditor"
    SeedPerms <- Seeded
    CustomRoles = {custom}
    CustomNames = {"team"}
    Permissions <- Keys
    Admin = admin
    AdminBinding <- AdminIsBound
    DemoUsers = {alice}
    DemoBindings <- Demo
    SystemWorkspace = system
    DemoWorkspaces = {hq}
    Requested <- Wanted
    Documents <- Corpus
    SystemCheck = FALSE
    MaxOps = 3
    MaxKills = 1
INVARIANTS
    TablesSound
    AdministrationStands
    DeletedLockedOut
    LimitedToGrants
PROPERTIES
    WorkersComeUp
CHECK_DEADLOCK FALSE
