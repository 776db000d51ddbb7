---------------------------- MODULE TenantLifecycle ----------------------------
(***************************************************************************)
(* The organisations of the platform and the super-admin's operations on   *)
(* them, in TenantService: create, which registers a tenant, provisions    *)
(* its schema in autocommitted statements and marks it ACTIVE or FAILED;   *)
(* suspend, reactivate and softDelete, each of which reads the status and  *)
(* then writes it by id.  A server crash ends the requests under way and   *)
(* leaves what they have written.                                          *)
(***************************************************************************)
EXTENDS Naturals

CONSTANTS
    Tenants,        \* subdomains; a subdomain names one tenant and its schema
    Founded,        \* the ones that are ACTIVE and provisioned at the start
    Failed,         \* the ones whose provisioning has failed before
    Registered,     \* e-mail addresses registered by then, those of failed creates too
    Emails,         \* admin e-mail addresses new tenants are asked for with
    Admins,         \* super-admin requests in flight at the same time
    Operated,       \* bound: the tenants super-admin requests are about
    MaxEvents       \* bound: super-admin requests and server crashes together

ASSUME TenantLifecycleAssumption ==
    /\ Tenants # {} /\ Emails # {}
    /\ Founded \subseteq Tenants /\ Failed \subseteq Tenants \ Founded
    /\ Registered \subseteq Emails /\ Operated \subseteq Tenants
    /\ MaxEvents \in Nat

VARIABLES
    tenants,        \* per subdomain: status of its row, "none" without one
    row,            \* per subdomain: how many rows it has had; the id of the present one
    schema,         \* per subdomain: how much of its schema exists
    emails,         \* e-mail addresses in the platform's users table
    ops,            \* per admin: the request under way
    events,         \* how many requests and crashes there have been
    suspendedEarly  \* history: subdomains suspended while PROVISIONING or FAILED

tenantVars == <<tenants, row, schema, emails, ops, events, suspendedEarly>>

TenantStatus == {"PROVISIONING", "ACTIVE", "SUSPENDED", "FAILED", "DELETED"}
Schemas == {"none", "partial", "complete"}
Stages == {"idle", "replacing", "checked", "registered", "staffed", "provisioned", "failing",
           "suspending", "reactivating", "deleting"}
Ops == [at : Stages, tenant : Tenants, id : Nat, email : Emails]
NoRequest == [at |-> "idle", tenant |-> CHOOSE t \in Tenants : TRUE, id |-> 0,
              email |-> CHOOSE e \in Emails : TRUE]

(***************************************************************************)
(* Type correctness.                                                       *)
(***************************************************************************)
TenantTypeOK ==
    /\ tenants \in [Tenants -> TenantStatus \cup {"none"}]
    /\ row \in [Tenants -> Nat]
    /\ schema \in [Tenants -> Schemas]
    /\ emails \subseteq Emails
    /\ ops \in [Admins -> Ops]
    /\ events \in 0..MaxEvents
    /\ suspendedEarly \subseteq Tenants

TenantInit ==
    /\ tenants = [t \in Tenants |-> CASE t \in Founded -> "ACTIVE" [] t \in Failed -> "FAILED"
                                      [] OTHER -> "none"]
    /\ row = [t \in Tenants |-> IF t \in Founded \cup Failed THEN 1 ELSE 0]
    /\ schema = [t \in Tenants |-> CASE t \in Founded -> "complete" [] t \in Failed -> "partial"
                                     [] OTHER -> "none"]
    /\ emails = Registered
    /\ ops = [a \in Admins |-> NoRequest]
    /\ events = 0
    /\ suspendedEarly = {}

-----------------------------------------------------------------------------
(* Steps requests are built from. *)

BeginOp(a, op) ==
    /\ ops[a].at = "idle" /\ events < MaxEvents
    /\ events' = events + 1
    /\ ops' = [ops EXCEPT ![a] = op]
    /\ UNCHANGED <<tenants, row, schema, emails, suspendedEarly>>

Advance(a, at) == ops' = [ops EXCEPT ![a].at = at] /\ UNCHANGED events
EndOp(a) == ops' = [ops EXCEPT ![a] = NoRequest] /\ UNCHANGED events

\* tenant.update({ where: { id } }): the row read earlier, whatever it has become.
RowStands(a) == row[ops[a].tenant] = ops[a].id /\ tenants[ops[a].tenant] # "none"
SetStatus(a, status) == tenants' = [tenants EXCEPT ![ops[a].tenant] = status]

-----------------------------------------------------------------------------
(* create *)

\* Only a FAILED tenant's subdomain is free again.
CreateTenantRead(a, t, e) ==
    /\ tenants[t] \in {"none", "FAILED"}
    /\ BeginOp(a, [at |-> IF tenants[t] = "FAILED" THEN "replacing" ELSE "checked",
                   tenant |-> t, id |-> row[t], email |-> e])

\* tenant.delete, by id: a row someone else has deleted since is an error.
DeleteFailed(a) ==
    /\ ops[a].at = "replacing"
    /\ IF RowStands(a) THEN SetStatus(a, "none") /\ Advance(a, "checked")
                       ELSE EndOp(a) /\ UNCHANGED tenants
    /\ UNCHANGED <<row, schema, emails, suspendedEarly>>

Free(a) == ops[a].email \notin emails /\ tenants[ops[a].tenant] = "none"

\* The e-mail is not registered; the row is inserted as PROVISIONING, the subdomain UNIQUE.
CreateTenant(a) ==
    LET t == ops[a].tenant
    IN  /\ ops[a].at = "checked" /\ Free(a)
        /\ SetStatus(a, "PROVISIONING")
        /\ row' = [row EXCEPT ![t] = @ + 1]
        /\ ops' = [ops EXCEPT ![a].at = "registered", ![a].id = row[t] + 1]
        /\ UNCHANGED <<schema, emails, events, suspendedEarly>>

\* "Admin email is already registered", or the UNIQUE subdomain; nothing is put back.
CreateRefused(a) ==
    /\ ops[a].at = "checked" /\ ~Free(a)
    /\ EndOp(a)
    /\ UNCHANGED <<tenants, row, schema, emails, suspendedEarly>>

\* INSERT INTO users, whose e-mail is UNIQUE.
AddAdmin(a) ==
    /\ ops[a].at = "registered"
    /\ emails' = emails \cup {ops[a].email}
    /\ Advance(a, IF ops[a].email \in emails THEN "failing" ELSE "staffed")
    /\ UNCHANGED <<tenants, row, schema, suspendedEarly>>

\* provisionSchema and seedTenantAdmin: idempotent statements, each committed on its own.
Provision(a) ==
    /\ ops[a].at = "staffed"
    /\ schema' = [schema EXCEPT ![ops[a].tenant] = "complete"]
    /\ Advance(a, "provisioned")
    /\ UNCHANGED <<tenants, row, emails, suspendedEarly>>

\* Mutant: a statement that fails is logged and passed over.
FailureIgnored == "provisioned"
\* An exception ends the try block.
OnFailure == "failing"

\* One of the statements fails: what the ones before it created stays.
ProvisionFails(a) ==
    /\ ops[a].at = "staffed"
    /\ schema' = [schema EXCEPT ![ops[a].tenant] = IF @ = "complete" THEN @ ELSE "partial"]
    /\ Advance(a, OnFailure)
    /\ UNCHANGED <<tenants, row, emails, suspendedEarly>>

\* UPDATE ... SET status = 'ACTIVE' WHERE id = ...
Activate(a) ==
    /\ ops[a].at = "provisioned" /\ RowStands(a)
    /\ SetStatus(a, "ACTIVE") /\ EndOp(a)
    /\ UNCHANGED <<row, schema, emails, suspendedEarly>>

\* The catch block: UPDATE ... SET status = 'FAILED' WHERE id = ...
Fail(a) ==
    /\ ops[a].at = "failing" /\ RowStands(a)
    /\ SetStatus(a, "FAILED") /\ EndOp(a)
    /\ UNCHANGED <<row, schema, emails, suspendedEarly>>

-----------------------------------------------------------------------------
(* suspend, reactivate, softDelete *)

SuspendRead(a, t) ==
    /\ tenants[t] \in TenantStatus \ {"DELETED", "SUSPENDED"}
    /\ ops[a].at = "idle" /\ events < MaxEvents
    /\ events' = events + 1
    /\ ops' = [ops EXCEPT ![a] = [NoRequest EXCEPT !.at = "suspending", !.tenant = t, !.id = row[t]]]
    /\ suspendedEarly' = suspendedEarly \cup (IF tenants[t] = "ACTIVE" THEN {} ELSE {t})
    /\ UNCHANGED <<tenants, row, schema, emails>>

ReactivateRead(a, t) ==
    /\ tenants[t] = "SUSPENDED"
    /\ BeginOp(a, [NoRequest EXCEPT !.at = "reactivating", !.tenant = t, !.id = row[t]])

SoftDeleteRead(a, t) ==
    /\ tenants[t] \in TenantStatus \ {"DELETED"}
    /\ BeginOp(a, [NoRequest EXCEPT !.at = "deleting", !.tenant = t, !.id = row[t]])

Written == [at \in {"suspending", "reactivating", "deleting"} |->
               CASE at = "suspending" -> "SUSPENDED" [] at = "reactivating" -> "ACTIVE"
                 [] at = "deleting" -> "DELETED"]

WriteStatus(a) ==
    /\ ops[a].at \in DOMAIN Written /\ RowStands(a)
    /\ SetStatus(a, Written[ops[a].at])
    /\ EndOp(a)
    /\ UNCHANGED <<row, schema, emails, suspendedEarly>>

\* The row was deleted meanwhile, by a create that replaces it: an error.
RowGone(a) ==
    /\ ops[a].at \in DOMAIN Written /\ ~RowStands(a)
    /\ EndOp(a)
    /\ UNCHANGED <<tenants, row, schema, emails, suspendedEarly>>

TenantCrash ==
    /\ events < MaxEvents
    /\ events' = events + 1
    /\ ops' = [a \in Admins |-> NoRequest]
    /\ UNCHANGED <<tenants, row, schema, emails, suspendedEarly>>

TenantStep ==
    \E a \in Admins :
      \/ \E t \in Operated :
           \/ \E e \in Emails : CreateTenantRead(a, t, e)
           \/ SuspendRead(a, t) \/ ReactivateRead(a, t) \/ SoftDeleteRead(a, t)
      \/ DeleteFailed(a) \/ CreateTenant(a) \/ CreateRefused(a) \/ AddAdmin(a)
      \/ Provision(a) \/ ProvisionFails(a) \/ Activate(a) \/ Fail(a)
      \/ WriteStatus(a) \/ RowGone(a)

-----------------------------------------------------------------------------
(* Properties. *)

(***************************************************************************)
(* A tenant that can be logged in to has its whole schema, unless someone  *)
(* suspended it before create was done with it, or after create failed:    *)
(* then reactivate makes it ACTIVE whatever there is of the schema.        *)
(***************************************************************************)
ActiveIsProvisioned ==
    \A t \in Tenants :
        tenants[t] = "ACTIVE" /\ schema[t] # "complete" => t \in suspendedEarly
=============================================================================
