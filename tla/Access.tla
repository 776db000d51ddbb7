-------------------------------- MODULE Access --------------------------------
(***************************************************************************)
(* Who may do what in a tenant: its users and their roles, the roles       *)
(* themselves, the tokens that carry a role for as long as they live, and  *)
(* the repair pass a deployment makes over the schema at boot, which moves *)
(* users out of the roles that were given up and seeds the permissions.    *)
(* Two APIs assign roles: the tenant's own and the platform's, which       *)
(* still offers the old ones.  A handler is statements without a           *)
(* transaction: what it checked may be over when it writes.  A role is a   *)
(* value of the enum type user_role, so that renaming it renames it for    *)
(* everyone.  What a permission says is left out: no handler decides by    *)
(* it.                                                                     *)
(***************************************************************************)
EXTENDS Integers, Sequences, FiniteSetsExt

CONSTANTS
    Users,
    Founder,        \* the user seeded with the tenant
    Names,          \* role names requests use
    Builds,         \* deployed versions, each with its fingerprint of the DDL
    Sessions,       \* requests in flight at the same time
    MaxRequests     \* bound: requests made

\* common/roles.ts; the enum as the schema declares it; the roles given up.
ROLE == {"OWNER", "ADMIN", "MANAGER", "AGENT", "STAFF", "CUSTOMER"}
USER_ADMIN_ROLES == {"OWNER", "ADMIN"}
Declared == <<"OWNER", "MANAGER", "ADMIN", "LOAN_OFFICER", "COLLECTOR", "VIEWER",
              "AGENT", "STAFF", "CUSTOMER">>
Legacy == {"LOAN_OFFICER", "COLLECTOR", "VIEWER"}
\* What the tenant's API and the platform's accept without asking the tables.
AssignableRoles == {"ADMIN", "MANAGER", "AGENT", "STAFF"}
PlatformRoles == {"OWNER", "MANAGER", "ADMIN"} \cup Legacy

ASSUME AccessAssumption ==
    /\ Founder \in Users
    /\ Builds \subseteq Nat \ {0}
    /\ MaxRequests \in Nat

VARIABLES
    labels,     \* user_role: the name of each value, which is never removed
    matrix,     \* roles that have rows in role_permissions
    users,      \* users; role 0 is a user who does not exist
    tokens,     \* what the token of each user lets him do
    recorded,   \* tenant_schema_repair: the build last applied whole, 0 for none
    req,        \* per session: its step and what it was asked
    begun,      \* requests made
    history     \* what happened that the properties make exceptions for

vars == <<labels, matrix, users, tokens, recorded, req, begun, history>>

Roles == DOMAIN labels
Steps == {"idle", "creating", "updating", "adding", "labelled", "renaming", "deleting", "allowing",
          "migrating", "seeding", "recording"}
Requests == [at : Steps, actor : Users, user : Users, name : Names \cup {"none"},
             to : Names \cup {"none"}, build : Builds \cup {0}, dirty : BOOLEAN]
Idle == [at |-> "idle", actor |-> Founder, user |-> Founder, name |-> "none", to |-> "none",
         build |-> 0, dirty |-> FALSE]
\* "crossed": users given a role while the roles were being changed, or whose role was
\* renamed while they were; "late": users the platform gave an old role after the users had
\* been moved out of them; "abdicated": an administrator gave his role up, or one acted who
\* was none any more.
Histories == [crossed : SUBSET Users, late : SUBSET Users, abdicated : BOOLEAN]

(***************************************************************************)
(* Type correctness.                                                       *)
(***************************************************************************)
TypeOK ==
    /\ labels \in Seq(Names \cup ROLE \cup Legacy)
    /\ matrix \subseteq Roles
    /\ users \in [Users -> [role : Roles \cup {0}, active : BOOLEAN]]
    /\ tokens \in [Users -> {"none", "user", "admin"}]
    /\ recorded \in Builds \cup {0}
    /\ req \in [Sessions -> Requests]
    /\ begun \in 0..MaxRequests
    /\ history \in Histories

IsLabel(n) == \E r \in Roles : labels[r] = n
RoleNamed(n) == CHOOSE r \in Roles : labels[r] = n

\* A tenant from before the matrix: its users may hold the old roles.
Init ==
    /\ labels = Declared
    /\ matrix = {}
    /\ \E held \in [Users \ {Founder} -> {0} \cup {r \in Roles : labels[r] \in Legacy \cap Names}] :
          users = [u \in Users |->
                      IF u = Founder THEN [role |-> RoleNamed("ADMIN"), active |-> TRUE]
                      ELSE [role |-> held[u], active |-> held[u] # 0]]
    /\ tokens = [u \in Users |-> "none"]
    /\ recorded = 0
    /\ req = [s \in Sessions |-> Idle]
    /\ begun = 0
    /\ history = [crossed |-> {}, late |-> {}, abdicated |-> FALSE]

-----------------------------------------------------------------------------
(* Tokens: buildTokenResponse, TenantJwtStrategy.validate *)

MayAdminister(u) == users[u].active /\ labels[users[u].role] \in USER_ADMIN_ROLES

\* A login that was verified: the token says what the role is now.
SignIn(u) ==
    /\ users[u].active
    /\ tokens' = [tokens EXCEPT ![u] = IF labels[users[u].role] \in USER_ADMIN_ROLES THEN "admin"
                                       ELSE "user"]
    /\ UNCHANGED <<labels, matrix, users, recorded, req, begun, history>>

\* Eight hours later.
Expire(u) ==
    /\ tokens[u] # "none"
    /\ tokens' = [tokens EXCEPT ![u] = "none"]
    /\ UNCHANGED <<labels, matrix, users, recorded, req, begun, history>>

-----------------------------------------------------------------------------
(* Steps every handler is built from. *)

Known(r) == labels[r] \in ROLE \/ r \in matrix
\* knownRoles, by name
KnownName(n) == n \in ROLE \/ \E r \in matrix : labels[r] = n

NewRequest == begun < MaxRequests /\ begun' = begun + 1

\* assertManager, assertAdmin: the token decides, no table is asked.
Allowed(a) == tokens[a] = "admin"

\* A request that gives somebody a role, and one that changes what the roles are, are marked
\* when they overlap.
Assigning == {"creating", "updating"}
ChangingRoles == {"adding", "labelled", "renaming", "deleting"}
RolesChanging == \E s \in Sessions : req[s].at \in ChangingRoles

Begin(s, r) ==
    /\ req[s].at = "idle"
    /\ NewRequest
    /\ req' = [t \in Sessions |->
          IF t = s THEN [r EXCEPT !.dirty = r.at \in Assigning \cup {"renaming"} /\ RolesChanging]
          ELSE [req[t] EXCEPT !.dirty = @ \/ /\ r.at \in ChangingRoles
                                             /\ req[t].at \in Assigning \cup {"renaming"}]]
    /\ UNCHANGED <<labels, matrix, users, tokens, recorded, history>>

Ends(s) == req' = [req EXCEPT ![s] = Idle]
NoWrite == UNCHANGED <<labels, matrix, users, tokens, recorded, begun, history>>

\* A name that is no value of the enum is an error of the database, and so is a new name
\* that is one.
NameGone(s) ==
    /\ \/ /\ req[s].at \in {"creating", "updating", "labelled", "renaming", "deleting", "allowing"}
          /\ ~IsLabel(req[s].name)
       \/ req[s].at = "renaming" /\ IsLabel(req[s].to)
    /\ Ends(s) /\ NoWrite

\* The process dies between two statements.
Dies(s) == req[s].at # "idle" /\ Ends(s) /\ NoWrite

\* A role was assigned: what becomes of the users the properties make exceptions for.
Assigned(u, dirty) == [history EXCEPT !.crossed = IF dirty THEN @ \cup {u} ELSE @ \ {u},
                                      !.late = @ \ {u}]
\* The actor takes his own role, or is not what his token says any more.
Abdicates(a, u, role) ==
    \/ ~MayAdminister(a)
    \/ a = u /\ labels[role] \notin USER_ADMIN_ROLES

-----------------------------------------------------------------------------
(* TenantUsersService: create, update, setActive *)

\* assertAssignableRole
Assignable(n) ==
    \/ n \in AssignableRoles
    \/ n \notin {"OWNER", "CUSTOMER"} /\ \E r \in matrix : labels[r] = n

CreateRead(s, a, u, n) ==
    /\ Allowed(a) /\ Assignable(n) /\ users[u].role = 0
    /\ Begin(s, [Idle EXCEPT !.at = "creating", !.actor = a, !.user = u, !.name = n])

\* UNIQUE (email): the second of two creations is refused.
CreateInsert(s) ==
    LET r == req[s]
    IN  /\ r.at = "creating" /\ IsLabel(r.name)
        /\ IF users[r.user].role # 0 THEN UNCHANGED <<users, history>>
           ELSE /\ users' = [users EXCEPT ![r.user] = [role |-> RoleNamed(r.name), active |-> TRUE]]
                /\ history' = Assigned(r.user, r.dirty)
        /\ Ends(s)
        /\ UNCHANGED <<labels, matrix, tokens, recorded, begun>>

UpdateRead(s, a, u, n) ==
    /\ Allowed(a) /\ Assignable(n) /\ users[u].role # 0
    /\ Begin(s, [Idle EXCEPT !.at = "updating", !.actor = a, !.user = u, !.name = n])

UpdateWrite(s) ==
    LET r == req[s]
        role == RoleNamed(r.name)
    IN  /\ r.at = "updating" /\ IsLabel(r.name)
        /\ users' = [users EXCEPT ![r.user].role = role]
        /\ history' = [Assigned(r.user, r.dirty) EXCEPT
                          !.abdicated = @ \/ Abdicates(r.actor, r.user, role)]
        /\ Ends(s)
        /\ UNCHANGED <<labels, matrix, tokens, recorded, begun>>

\* Mutant: a user may deactivate himself.
OthersAndSelf(a) == Users
Others(a) == Users \ {a}

\* One UPDATE, of anyone but oneself.
SetActive(a, u, active) ==
    /\ Allowed(a) /\ u \in Others(a) /\ users[u].role # 0
    /\ NewRequest
    /\ users' = [users EXCEPT ![u].active = active]
    /\ history' = [history EXCEPT !.abdicated = @ \/ ~MayAdminister(a)]
    /\ UNCHANGED <<labels, matrix, tokens, recorded, req>>

\* createTenantUser of the platform, whose list of roles is older than the tenants'.
PlatformCreate(u, n) ==
    /\ n \in PlatformRoles /\ IsLabel(n) /\ users[u].role = 0
    /\ NewRequest
    /\ users' = [users EXCEPT ![u] = [role |-> RoleNamed(n), active |-> TRUE]]
    /\ history' = [Assigned(u, RolesChanging) EXCEPT
          !.late = IF n \in Legacy /\ (recorded # 0 \/ \E s \in Sessions : req[s].at \in {"seeding", "recording"})
                   THEN @ \cup {u} ELSE @]
    /\ UNCHANGED <<labels, matrix, tokens, recorded, req>>

-----------------------------------------------------------------------------
(* TenantPermissionsService: addRole, renameRole, deleteRole, updateMatrix *)

AddRead(s, a, n) ==
    /\ Allowed(a) /\ ~KnownName(n)
    /\ Begin(s, [Idle EXCEPT !.at = "adding", !.actor = a, !.name = n])

\* ALTER TYPE user_role ADD VALUE IF NOT EXISTS: the name of a deleted role is there still.
AddLabel(s) ==
    /\ req[s].at = "adding"
    /\ labels' = IF IsLabel(req[s].name) THEN labels ELSE Append(labels, req[s].name)
    /\ req' = [req EXCEPT ![s].at = "labelled"]
    /\ UNCHANGED <<matrix, users, tokens, recorded, begun, history>>

\* INSERT ... ON CONFLICT DO NOTHING, permission by permission
AddRows(s) ==
    /\ req[s].at = "labelled" /\ IsLabel(req[s].name)
    /\ matrix' = matrix \cup {RoleNamed(req[s].name)}
    /\ Ends(s)
    /\ UNCHANGED <<labels, users, tokens, recorded, begun, history>>

RenameRead(s, a, n, to) ==
    /\ Allowed(a) /\ n \notin ROLE /\ n # to
    /\ KnownName(n) /\ ~KnownName(to)
    /\ Begin(s, [Idle EXCEPT !.at = "renaming", !.actor = a, !.name = n, !.to = to])

Holders(n) == {u \in Users : users[u].role # 0 /\ labels[users[u].role] = n}

\* ALTER TYPE user_role RENAME VALUE, an error if the new name is taken, by a deleted role
\* say.  Renamed under a deletion's hands, an old role is lost for those who hold it.
RenameLabel(s) ==
    LET r == req[s]
    IN  /\ r.at = "renaming" /\ IsLabel(r.name) /\ ~IsLabel(r.to)
        /\ labels' = [labels EXCEPT ![RoleNamed(r.name)] = r.to]
        /\ history' = [history EXCEPT !.crossed = IF r.dirty THEN @ \cup Holders(r.name) ELSE @]
        /\ Ends(s)
        /\ UNCHANGED <<matrix, users, tokens, recorded, begun>>

\* Mutant: only active users count.
InUseActive(n) == \E u \in Holders(n) : users[u].active
InUse(n) == Holders(n) # {}

DeleteRead(s, a, n) ==
    /\ Allowed(a) /\ n \notin ROLE /\ KnownName(n) /\ ~InUse(n)
    /\ Begin(s, [Idle EXCEPT !.at = "deleting", !.actor = a, !.name = n])

DeleteRows(s) ==
    /\ req[s].at = "deleting" /\ IsLabel(req[s].name)
    /\ matrix' = matrix \ {RoleNamed(req[s].name)}
    /\ Ends(s)
    /\ UNCHANGED <<labels, users, tokens, recorded, begun, history>>

AllowRead(s, a, n) ==
    /\ Allowed(a) /\ n # "OWNER" /\ KnownName(n)
    /\ Begin(s, [Idle EXCEPT !.at = "allowing", !.actor = a, !.name = n])

\* INSERT ... ON CONFLICT DO UPDATE: a role deleted meanwhile has rows again.
AllowUpsert(s) ==
    /\ req[s].at = "allowing" /\ IsLabel(req[s].name)
    /\ matrix' = matrix \cup {RoleNamed(req[s].name)}
    /\ Ends(s)
    /\ UNCHANGED <<labels, users, tokens, recorded, begun, history>>

-----------------------------------------------------------------------------
(* TenantSchemaRepairService at boot: repairTenantSchema *)

\* The build's fingerprint is compared with the recorded one.
RepairBegin(s, b) ==
    /\ recorded # b
    /\ Begin(s, [Idle EXCEPT !.at = "migrating", !.build = b])

\* Names that are no value of the enum any more, renamed as a role of the tenant's own,
\* make the statement an error.
CanMove(n) == IF n = "VIEWER" THEN IsLabel(n) ELSE IsLabel("LOAN_OFFICER") /\ IsLabel("COLLECTOR")
ToBeMoved(u) == users[u].role # 0 /\ labels[users[u].role] \in {n \in Legacy : CanMove(n)}
MovedRole(n) == RoleNamed(IF n = "VIEWER" THEN "STAFF" ELSE "AGENT")

\* A statement that fails is noted, and the next one is run all the same.
Goes(s, at, failed) == req' = [req EXCEPT ![s].at = at, ![s].dirty = @ \/ failed]

\* UPDATE users SET role = ... WHERE role = an old one
RepairMigrate(s) ==
    /\ req[s].at = "migrating"
    /\ users' = [u \in Users |-> IF ToBeMoved(u) THEN [users[u] EXCEPT !.role = MovedRole(labels[@])]
                                ELSE users[u]]
    /\ history' = [history EXCEPT !.late = {u \in @ : ~ToBeMoved(u)}]
    /\ Goes(s, "seeding", \E n \in Legacy : ~CanMove(n))
    /\ UNCHANGED <<labels, matrix, tokens, recorded, begun>>

BuiltIn == {r \in Roles : labels[r] \in ROLE}

\* INSERT INTO role_permissions ... ON CONFLICT DO NOTHING
RepairSeed(s) ==
    /\ req[s].at = "seeding"
    /\ matrix' = matrix \cup BuiltIn
    /\ Goes(s, "recording", FALSE)
    /\ UNCHANGED <<labels, users, tokens, recorded, begun, history>>

RepairFails(s) ==
    /\ \/ req[s].at = "migrating" /\ Goes(s, "seeding", TRUE)
       \/ req[s].at = "seeding" /\ Goes(s, "recording", TRUE)
    /\ NoWrite

\* Mutant: a pass is recorded whether or not its statements failed.
CleanAnyway(r) == TRUE
Clean(r) == ~r.dirty

RepairRecord(s) ==
    /\ req[s].at = "recording"
    /\ recorded' = IF Clean(req[s]) THEN req[s].build ELSE recorded
    /\ Ends(s)
    /\ UNCHANGED <<labels, matrix, users, tokens, begun, history>>

Next ==
    \/ \E u \in Users : SignIn(u) \/ Expire(u)
    \/ \E a, u \in Users, active \in BOOLEAN : SetActive(a, u, active)
    \/ \E u \in Users, n \in Names : PlatformCreate(u, n)
    \/ \E s \in Sessions :
         \/ \E a, u \in Users, n \in Names : CreateRead(s, a, u, n) \/ UpdateRead(s, a, u, n)
         \/ CreateInsert(s) \/ UpdateWrite(s)
         \/ \E a \in Users, n \in Names : AddRead(s, a, n) \/ DeleteRead(s, a, n) \/ AllowRead(s, a, n)
         \/ \E a \in Users, n, to \in Names : RenameRead(s, a, n, to)
         \/ AddLabel(s) \/ AddRows(s) \/ RenameLabel(s) \/ DeleteRows(s) \/ AllowUpsert(s)
         \/ \E b \in Builds : RepairBegin(s, b)
         \/ RepairMigrate(s) \/ RepairSeed(s) \/ RepairFails(s) \/ RepairRecord(s)
         \/ NameGone(s) \/ Dies(s)

Spec == Init /\ [][Next]_vars

-----------------------------------------------------------------------------
(* Properties. *)

(***************************************************************************)
(* A role somebody holds is one the matrix knows: it is built in, or it    *)
(* has rows, or it is an old one the repair has still to take him out of.  *)
(* A deletion that was checked before, or run after, an assignment beside  *)
(* it leaves the user with a role that is gone, until he is given another. *)
(***************************************************************************)
RolesInUseAreKnown ==
    \A u \in Users : users[u].role # 0 =>
        \/ Known(users[u].role)
        \/ labels[users[u].role] \in Legacy
        \/ u \in history.crossed

(***************************************************************************)
(* A schema whose repair was recorded needs none: the built-in roles have  *)
(* their permissions, and nobody is left in an old role but whom the       *)
(* platform's API put there afterwards, or who holds a role the tenant     *)
(* itself added or deleted under an old one's name.  This holds however    *)
(* repairs of several builds overlap, fail in part or die.                 *)
(***************************************************************************)
RepairedSchemaIsCurrent ==
    recorded # 0 =>
        /\ BuiltIn \subseteq matrix
        /\ \A u \in Users : users[u].role # 0 /\ labels[users[u].role] \in Legacy =>
              u \in history.late \cup history.crossed \/ users[u].role \in matrix

(***************************************************************************)
(* A tenant keeps someone who can administer it, as long as nobody gives   *)
(* up his own role and nobody acts on a token that is out of date: two     *)
(* administrators who deactivate each other leave none, as the token of    *)
(* the first one deactivated is good for hours.                            *)
(***************************************************************************)
AdminRemains == ~history.abdicated => \E u \in Users : MayAdminister(u)
=============================================================================
