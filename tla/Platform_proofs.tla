----------------------------- MODULE Platform_proofs -----------------------------
(***************************************************************************)
(* What TLAPS proves of the platform beside the loans' books: the users    *)
(* and roles of a tenant (Access), the tenants themselves and the daily    *)
(* ageing of their loans (TenantLifecycle, OverdueAgeing); for any number  *)
(* of users, tenants, requests in flight and runs of the job, any role     *)
(* names and builds, any terms, totals and thresholds.                     *)
(*                                                                         *)
(* Every handler writes on the strength of what it read before, so the     *)
(* invariants say how long that is good for.  In Access, a request not     *)
(* marked as crossed still finds the role it was checked against, everyone *)
(* who came to hold a role that is being deleted is marked, and a repair   *)
(* that has not failed yet leaves behind it what its statements did.  In   *)
(* TenantLifecycle, a request about to make a tenant ACTIVE or SUSPENDED   *)
(* knows of a schema that is whole, or of a suspension that came early.    *)
(***************************************************************************)
EXTENDS Access, OverdueAgeing, SumTheorems, SequenceTheorems

-----------------------------------------------------------------------------
(* Users and roles: the inductive invariant, in the parts that are proved one by one. *)

\* No two values of the enum have one name, and the built-in names are never given up.
LabelsHold ==
    /\ \A q, r \in Roles : labels[q] = labels[r] => q = r
    /\ \A n \in ROLE : IsLabel(n)

\* Only a user who exists can sign in.
ActiveExist == \A u \in Users : users[u].active => users[u].role # 0

HoldsLegacy(u) == users[u].role # 0 /\ labels[users[u].role] \in Legacy
\* Nobody is left in an old role without a reason the properties name.
LegacyLeft ==
    \A u \in Users : HoldsLegacy(u) =>
        u \in history.late \cup history.crossed \/ users[u].role \in matrix

\* What a request was asked.
Asked(s) ==
    /\ req[s].at = "adding" => req[s].name \in Names
    /\ req[s].at = "renaming" => req[s].to \in Names
    /\ req[s].at \in {"renaming", "deleting"} => req[s].name \notin ROLE
    /\ req[s].at \in {"migrating", "seeding", "recording"} => req[s].build # 0

\* What it read and did is good for.
Unmarked(s) == req[s].at \in Assigning \cup {"renaming"} /\ ~req[s].dirty
Crossing(s) ==
    /\ Unmarked(s) => /\ KnownName(req[s].name)
                      /\ \A t \in Sessions \ {s} : req[t].at \notin ChangingRoles
    /\ req[s].at = "deleting" => Holders(req[s].name) \subseteq history.crossed
Repairing(s) ==
    /\ req[s].at \in {"seeding", "recording"} /\ ~req[s].dirty => LegacyLeft
    /\ req[s].at = "recording" /\ ~req[s].dirty => BuiltIn \subseteq matrix

AccessInv ==
    /\ TypeOK /\ LabelsHold /\ ActiveExist
    /\ \A s \in Sessions : Asked(s) /\ Crossing(s)

-----------------------------------------------------------------------------
(* Roles and requests. *)

LEMMA RoleNamedIs ==
    ASSUME NEW n, IsLabel(n)
    PROVE  RoleNamed(n) \in Roles /\ labels[RoleNamed(n)] = n
BY DEF IsLabel, RoleNamed

LEMMA RolesTyped ==
    ASSUME TypeOK
    PROVE  /\ Roles = 1..Len(labels) /\ Len(labels) \in Nat /\ 0 \notin Roles
           /\ \A r \in Roles : labels[r] \in Names \cup ROLE \cup Legacy
           /\ \A u \in Users : /\ users[u] \in [role : Roles \cup {0}, active : BOOLEAN]
                               /\ users[u].role \in Roles \cup {0} /\ users[u].active \in BOOLEAN
BY DEF TypeOK, Roles

LEMMA IdleTyped ==
    Idle \in Requests /\ Idle.at = "idle" /\ ~Idle.dirty
BY AccessAssumption DEF Idle, Requests, Steps

LEMMA AssignedTyped ==
    ASSUME TypeOK, NEW u \in Users, NEW dirty \in BOOLEAN
    PROVE  /\ Assigned(u, dirty) \in Histories
           /\ Assigned(u, dirty).crossed =
                IF dirty THEN history.crossed \cup {u} ELSE history.crossed \ {u}
           /\ Assigned(u, dirty).late = history.late \ {u}
           /\ Assigned(u, dirty).abdicated = history.abdicated
<1> DEFINE S == IF dirty THEN history.crossed \cup {u} ELSE history.crossed \ {u}
           one == [history EXCEPT !.crossed = S]
<1>1. history \in Histories /\ history.crossed \in SUBSET Users /\ history.late \in SUBSET Users
  BY DEF TypeOK, Histories
<1>2. S \in SUBSET Users /\ history.late \ {u} \in SUBSET Users
  BY <1>1
<1>3. Assigned(u, dirty) = [one EXCEPT !.late = history.late \ {u}]
  BY <1>1 DEF Assigned, Histories
<1>4. one \in Histories /\ one.crossed = S /\ one.late = history.late /\ one.abdicated = history.abdicated
  <2> HIDE DEF S
  <2>1. QED
    BY <1>1, <1>2 DEF Histories
<1> HIDE DEF one, S
<1>5. /\ Assigned(u, dirty) \in Histories /\ Assigned(u, dirty).crossed = S
      /\ Assigned(u, dirty).late = history.late \ {u}
      /\ Assigned(u, dirty).abdicated = history.abdicated
  BY <1>2, <1>3, <1>4 DEF Histories
<1>6. QED
  BY <1>5 DEF S

-----------------------------------------------------------------------------
(* Requests that begin. *)

\* What begins, and what has been asked of it.
MayBegin(r) ==
    /\ r.at \in Steps \ {"idle", "labelled", "seeding", "recording"}
    /\ r.at = "adding" => r.name \in Names
    /\ r.at = "renaming" => r.to \in Names
    /\ r.at \in {"renaming", "deleting"} => r.name \notin ROLE
    /\ r.at = "deleting" => ~InUse(r.name)
    /\ r.at \in Assigning \cup {"renaming"} => KnownName(r.name)
    /\ r.at = "migrating" => r.build # 0

\* A repair that has not failed yet is where it was.
Steady(t) ==
    req'[t].at \in {"seeding", "recording"} /\ ~req'[t].dirty =>
        req[t].at = req'[t].at /\ ~req[t].dirty

LEMMA MarkedTyped ==
    ASSUME NEW q \in Requests, NEW b \in BOOLEAN
    PROVE  /\ [q EXCEPT !.dirty = b] \in Requests /\ [q EXCEPT !.dirty = b].at = q.at
           /\ [q EXCEPT !.dirty = b].name = q.name /\ [q EXCEPT !.dirty = b].to = q.to
           /\ [q EXCEPT !.dirty = b].build = q.build /\ [q EXCEPT !.dirty = b].dirty = b
           /\ q.dirty \in BOOLEAN
BY DEF Requests

LEMMA BeginIs ==
    ASSUME TypeOK, NEW s \in Sessions, NEW r \in Requests, Begin(s, r)
    PROVE  /\ req[s].at = "idle" /\ req' \in [Sessions -> Requests]
           /\ req'[s].at = r.at /\ req'[s].name = r.name /\ req'[s].to = r.to
           /\ req'[s].build = r.build
           /\ req'[s].dirty = (r.at \in Assigning \cup {"renaming"} /\ RolesChanging)
           /\ \A t \in Sessions \ {s} :
                 /\ req'[t].at = req[t].at /\ req'[t].name = req[t].name
                 /\ req'[t].to = req[t].to /\ req'[t].build = req[t].build
                 /\ req'[t].dirty = (req[t].dirty \/ /\ r.at \in ChangingRoles
                                                     /\ req[t].at \in Assigning \cup {"renaming"})
           /\ begun' \in 0..MaxRequests
           /\ UNCHANGED <<labels, matrix, users, tokens, recorded, history>>
<1> DEFINE first == r.at \in Assigning \cup {"renaming"} /\ RolesChanging
           heard(t) == r.at \in ChangingRoles /\ req[t].at \in Assigning \cup {"renaming"}
<1>1. /\ req[s].at = "idle" /\ begun < MaxRequests /\ begun' = begun + 1
      /\ req' = [t \in Sessions |-> IF t = s THEN [r EXCEPT !.dirty = first]
                                    ELSE [req[t] EXCEPT !.dirty = req[t].dirty \/ heard(t)]]
      /\ UNCHANGED <<labels, matrix, users, tokens, recorded, history>>
  BY DEF Begin, NewRequest, TypeOK, Requests
<1>2. first \in BOOLEAN /\ \A t \in Sessions : (req[t].dirty \/ heard(t)) \in BOOLEAN
  OBVIOUS
<1> HIDE DEF first, heard
<1>3. /\ [r EXCEPT !.dirty = first] \in Requests /\ req'[s] = [r EXCEPT !.dirty = first]
      /\ \A t \in Sessions \ {s} : req'[t] = [req[t] EXCEPT !.dirty = req[t].dirty \/ heard(t)]
  BY <1>1, <1>2, MarkedTyped
<1>4. \A t \in Sessions : req[t] \in Requests
  BY DEF TypeOK
<1>5. \A t \in Sessions : [req[t] EXCEPT !.dirty = req[t].dirty \/ heard(t)] \in Requests
  BY <1>2, <1>4, MarkedTyped
<1>6. req' \in [Sessions -> Requests]
  BY <1>1, <1>3, <1>5
<1>7. /\ req'[s].at = r.at /\ req'[s].name = r.name /\ req'[s].to = r.to
      /\ req'[s].build = r.build /\ req'[s].dirty = first
  BY <1>2, <1>3, MarkedTyped
<1>8. ASSUME NEW t \in Sessions \ {s}
      PROVE  /\ req'[t].at = req[t].at /\ req'[t].name = req[t].name /\ req'[t].to = req[t].to
             /\ req'[t].build = req[t].build /\ req'[t].dirty = (req[t].dirty \/ heard(t))
  <2> DEFINE b == req[t].dirty \/ heard(t)
  <2>1. b \in BOOLEAN /\ req[t] \in Requests
    BY <1>2, <1>4
  <2>2. req'[t] = [req[t] EXCEPT !.dirty = b]
    BY <1>3
  <2> HIDE DEF b
  <2>3. /\ req'[t].at = req[t].at /\ req'[t].name = req[t].name /\ req'[t].to = req[t].to
        /\ req'[t].build = req[t].build /\ req'[t].dirty = b
    BY <2>1, <2>2, MarkedTyped
  <2>4. QED
    BY <2>3 DEF b
<1>9. begun' \in 0..MaxRequests
  BY <1>1, AccessAssumption DEF TypeOK
<1>10. QED
  BY <1>1, <1>6, <1>7, <1>8, <1>9 DEF first, heard

(* What a read leaves alone stays as it was.                               *)
LEMMA SameRoles ==
    ASSUME UNCHANGED <<labels, users, history>>, matrix \subseteq matrix'
    PROVE  /\ Roles' = Roles /\ BuiltIn' = BuiltIn
           /\ \A n : IsLabel(n)' = IsLabel(n) /\ Holders(n)' = Holders(n)
           /\ \A n : KnownName(n) => KnownName(n)'
           /\ LabelsHold => LabelsHold'
           /\ ActiveExist => ActiveExist'
           /\ LegacyLeft => LegacyLeft'
           /\ RolesInUseAreKnown => RolesInUseAreKnown'
           /\ AdminRemains => AdminRemains'
<1>1. /\ Roles' = Roles /\ BuiltIn' = BuiltIn
      /\ \A n : IsLabel(n)' = IsLabel(n) /\ Holders(n)' = Holders(n)
  BY DEF Roles, BuiltIn, IsLabel, Holders
<1>2. \A n : KnownName(n) => KnownName(n)'
  BY DEF KnownName
<1>3. /\ LabelsHold => LabelsHold'
      /\ ActiveExist => ActiveExist'
  BY <1>1 DEF LabelsHold, ActiveExist
<1>4. LegacyLeft => LegacyLeft'
  BY DEF LegacyLeft, HoldsLegacy
<1>5. RolesInUseAreKnown => RolesInUseAreKnown'
  BY DEF RolesInUseAreKnown, Known
<1>6. AdminRemains => AdminRemains'
  BY DEF AdminRemains, MayAdminister
<1>7. QED
  BY <1>1, <1>2, <1>3, <1>4, <1>5, <1>6

LEMMA BeginKeeps ==
    ASSUME AccessInv, NEW s \in Sessions, NEW r \in Requests, Begin(s, r), MayBegin(r)
    PROVE  AccessInv' /\ \A t \in Sessions : Steady(t)
<1>1. TypeOK /\ LabelsHold /\ ActiveExist
  BY DEF AccessInv
<1>2. /\ req[s].at = "idle" /\ req' \in [Sessions -> Requests]
      /\ req'[s].at = r.at /\ req'[s].name = r.name /\ req'[s].to = r.to
      /\ req'[s].build = r.build
      /\ req'[s].dirty = (r.at \in Assigning \cup {"renaming"} /\ RolesChanging)
      /\ \A t \in Sessions \ {s} :
            /\ req'[t].at = req[t].at /\ req'[t].name = req[t].name
            /\ req'[t].to = req[t].to /\ req'[t].build = req[t].build
            /\ req'[t].dirty = (req[t].dirty \/ /\ r.at \in ChangingRoles
                                                /\ req[t].at \in Assigning \cup {"renaming"})
      /\ begun' \in 0..MaxRequests
      /\ UNCHANGED <<labels, matrix, users, tokens, recorded, history>>
  BY <1>1, BeginIs
<1>3. /\ Roles' = Roles /\ LabelsHold' /\ ActiveExist'
      /\ \A n : Holders(n)' = Holders(n)
      /\ \A n : KnownName(n) => KnownName(n)'
  BY <1>1, <1>2, SameRoles
<1>4. TypeOK'
  BY <1>1, <1>2, <1>3 DEF TypeOK
<1>5. \A t \in Sessions : Asked(t)'
  BY <1>2 DEF AccessInv, Asked, MayBegin
<1>6. ASSUME NEW t \in Sessions PROVE Crossing(t)'
  <2>1. CASE t = s
    <3>1. r.at = "deleting" => Holders(r.name) = {}
      BY DEF MayBegin, InUse
    <3>2. Unmarked(s)' => KnownName(r.name) /\ \A u \in Sessions \ {s} : req'[u].at \notin ChangingRoles
      BY <1>2 DEF Unmarked, MayBegin, RolesChanging
    <3>3. QED
      BY <1>2, <1>3, <2>1, <3>1, <3>2 DEF Crossing
  <2>2. CASE t # s
    <3>1. Crossing(t)
      BY DEF AccessInv
    <3>2. Unmarked(t)' => Unmarked(t) /\ r.at \notin ChangingRoles
      BY <1>2, <2>2 DEF Unmarked
    <3>3. QED
      BY <1>2, <1>3, <2>2, <3>1, <3>2 DEF Crossing
  <2>3. QED
    BY <2>1, <2>2
<1>7. \A t \in Sessions : Steady(t)
  BY <1>2 DEF Steady, MayBegin
<1>8. QED
  BY <1>3, <1>4, <1>5, <1>6, <1>7 DEF AccessInv

(* Every read begins a request that may.                                   *)
LEMMA ReadsBegin ==
    ASSUME NEW s \in Sessions,
           \/ \E a, u \in Users, n \in Names : CreateRead(s, a, u, n) \/ UpdateRead(s, a, u, n)
           \/ \E a \in Users, n \in Names : AddRead(s, a, n) \/ DeleteRead(s, a, n) \/ AllowRead(s, a, n)
           \/ \E a \in Users, n, to \in Names : RenameRead(s, a, n, to)
           \/ \E b \in Builds : RepairBegin(s, b)
    PROVE  \E r \in Requests : Begin(s, r) /\ MayBegin(r)
<1>1. CASE \E a, u \in Users, n \in Names : CreateRead(s, a, u, n) \/ UpdateRead(s, a, u, n)
  <2>1. PICK a \in Users, u \in Users, n \in Names : CreateRead(s, a, u, n) \/ UpdateRead(s, a, u, n)
    BY <1>1
  <2>2. PICK at \in Assigning : Begin(s, [Idle EXCEPT !.at = at, !.actor = a, !.user = u, !.name = n])
    BY <2>1 DEF CreateRead, UpdateRead, Assigning
  <2> DEFINE r == [Idle EXCEPT !.at = at, !.actor = a, !.user = u, !.name = n]
  <2>3. r \in Requests /\ r.at = at /\ r.name = n
    BY AccessAssumption DEF Idle, Requests, Steps, Assigning
  <2>4. KnownName(n)
    BY <2>1 DEF CreateRead, UpdateRead, Assignable, KnownName, AssignableRoles, ROLE
  <2> HIDE DEF r
  <2>5. MayBegin(r)
    BY <2>3, <2>4 DEF MayBegin, Assigning, Steps
  <2>6. QED
    BY <2>2, <2>3, <2>5 DEF r
<1>2. CASE \E a \in Users, n \in Names : AddRead(s, a, n) \/ DeleteRead(s, a, n) \/ AllowRead(s, a, n)
  <2>1. PICK a \in Users, n \in Names : AddRead(s, a, n) \/ DeleteRead(s, a, n) \/ AllowRead(s, a, n)
    BY <1>2
  <2>2. PICK at \in {"adding", "deleting", "allowing"} :
           /\ Begin(s, [Idle EXCEPT !.at = at, !.actor = a, !.name = n])
           /\ at = "deleting" => n \notin ROLE /\ ~InUse(n)
    BY <2>1 DEF AddRead, DeleteRead, AllowRead
  <2> DEFINE r == [Idle EXCEPT !.at = at, !.actor = a, !.name = n]
  <2>3. r \in Requests /\ r.at = at /\ r.name = n
    BY AccessAssumption DEF Idle, Requests, Steps
  <2> HIDE DEF r
  <2>4. MayBegin(r)
    BY <2>2, <2>3 DEF MayBegin, Assigning, Steps
  <2>5. QED
    BY <2>2, <2>3, <2>4 DEF r
<1>3. CASE \E a \in Users, n, to \in Names : RenameRead(s, a, n, to)
  <2>1. PICK a \in Users, n \in Names, to \in Names : RenameRead(s, a, n, to)
    BY <1>3
  <2> DEFINE r == [Idle EXCEPT !.at = "renaming", !.actor = a, !.name = n, !.to = to]
  <2>2. Begin(s, r) /\ n \notin ROLE /\ KnownName(n)
    BY <2>1 DEF RenameRead
  <2>3. r \in Requests /\ r.at = "renaming" /\ r.name = n /\ r.to = to
    BY AccessAssumption DEF Idle, Requests, Steps
  <2> HIDE DEF r
  <2>4. MayBegin(r)
    BY <2>2, <2>3 DEF MayBegin, Assigning, Steps
  <2>5. QED
    BY <2>2, <2>3, <2>4
<1>4. CASE \E b \in Builds : RepairBegin(s, b)
  <2>1. PICK b \in Builds : RepairBegin(s, b)
    BY <1>4
  <2> DEFINE r == [Idle EXCEPT !.at = "migrating", !.build = b]
  <2>2. Begin(s, r) /\ b # 0
    BY <2>1, AccessAssumption DEF RepairBegin
  <2>3. r \in Requests /\ r.at = "migrating" /\ r.build = b
    BY AccessAssumption DEF Idle, Requests, Steps
  <2> HIDE DEF r
  <2>4. MayBegin(r)
    BY <2>2, <2>3 DEF MayBegin, Assigning, Steps
  <2>5. QED
    BY <2>2, <2>3, <2>4
<1>5. QED
  BY <1>1, <1>2, <1>3, <1>4

-----------------------------------------------------------------------------
(* Steps that leave users, names and histories alone. *)

LEMMA PlainKeeps ==
    ASSUME AccessInv, UNCHANGED <<labels, users, history>>,
           matrix \subseteq matrix', matrix' \subseteq Roles,
           req' \in [Sessions -> Requests], tokens' \in [Users -> {"none", "user", "admin"}],
           recorded' \in Builds \cup {0}, begun' \in 0..MaxRequests,
           \A t \in Sessions :
              \/ req'[t] = req[t]
              \/ /\ req'[t].at \in {"idle", "migrating", "seeding", "recording"}
                 /\ req'[t].at # "idle" => req'[t].build # 0
    PROVE  AccessInv'
<1>1. TypeOK /\ LabelsHold /\ ActiveExist
  BY DEF AccessInv
<1>2. /\ Roles' = Roles /\ LabelsHold' /\ ActiveExist'
      /\ \A n : Holders(n)' = Holders(n)
      /\ \A n : KnownName(n) => KnownName(n)'
  BY <1>1, SameRoles
<1>3. TypeOK'
  BY <1>1, <1>2 DEF TypeOK
<1>4. \A t \in Sessions : req'[t].at \in ChangingRoles \cup Assigning => req'[t] = req[t]
  BY DEF ChangingRoles, Assigning
<1>5. ASSUME NEW t \in Sessions PROVE Asked(t)' /\ Crossing(t)'
  <2>1. Asked(t) /\ Crossing(t)
    BY DEF AccessInv
  <2>2. Asked(t)'
    BY <2>1 DEF Asked
  <2>3. Crossing(t)'
    BY <1>2, <1>4, <2>1 DEF Crossing, Unmarked, ChangingRoles
  <2>4. QED
    BY <2>2, <2>3
<1>6. QED
  BY <1>2, <1>3, <1>5 DEF AccessInv

LEMMA EndKeeps ==
    ASSUME AccessInv, NEW s \in Sessions, Ends(s), UNCHANGED <<labels, users, history>>,
           matrix \subseteq matrix', matrix' \subseteq Roles, UNCHANGED <<tokens, begun>>,
           recorded' \in Builds \cup {0}
    PROVE  AccessInv' /\ \A t \in Sessions : Steady(t)
<1>1. TypeOK /\ req' = [req EXCEPT ![s] = Idle]
  BY DEF AccessInv, Ends
<1>2. /\ req' \in [Sessions -> Requests] /\ req'[s].at = "idle"
      /\ \A t \in Sessions \ {s} : req'[t] = req[t]
  BY <1>1, IdleTyped DEF TypeOK
<1>3. \A t \in Sessions : Steady(t)
  BY <1>2 DEF Steady
<1>4. tokens' \in [Users -> {"none", "user", "admin"}] /\ begun' \in 0..MaxRequests
  BY <1>1 DEF TypeOK
<1>5. QED
  BY <1>2, <1>3, <1>4, PlainKeeps

(* A request that ends without having written, or has only added rows.     *)
LEMMA EndsKeep ==
    ASSUME AccessInv, NEW s \in Sessions,
           \/ NameGone(s) \/ Dies(s) \/ AddRows(s) \/ AllowUpsert(s) \/ RepairRecord(s)
    PROVE  /\ AccessInv' /\ (\A t \in Sessions : Steady(t))
           /\ UNCHANGED <<labels, users, history>> /\ matrix \subseteq matrix'
<1>1. TypeOK /\ matrix \subseteq Roles /\ recorded \in Builds \cup {0} /\ req[s] \in Requests
  BY DEF AccessInv, TypeOK
<1>2. Ends(s) /\ UNCHANGED <<labels, users, history, tokens, begun>>
  BY DEF NameGone, Dies, AddRows, AllowUpsert, RepairRecord, NoWrite
<1>3. matrix \subseteq matrix' /\ matrix' \subseteq Roles
  <2>1. CASE AddRows(s) \/ AllowUpsert(s)
    <3>1. IsLabel(req[s].name) /\ matrix' = matrix \cup {RoleNamed(req[s].name)}
      BY <2>1 DEF AddRows, AllowUpsert
    <3>2. QED
      BY <1>1, <3>1, RoleNamedIs
  <2>2. CASE NameGone(s) \/ Dies(s) \/ RepairRecord(s)
    BY <1>1, <2>2 DEF NameGone, Dies, RepairRecord, NoWrite
  <2>3. QED
    BY <2>1, <2>2
<1>4. recorded' \in Builds \cup {0}
  <2>1. CASE RepairRecord(s)
    <3>1. req[s].build \in Builds \cup {0}
      BY <1>1 DEF Requests
    <3>2. QED
      BY <1>1, <2>1, <3>1 DEF RepairRecord
  <2>2. CASE NameGone(s) \/ Dies(s) \/ AddRows(s) \/ AllowUpsert(s)
    BY <1>1, <2>2 DEF NameGone, Dies, AddRows, AllowUpsert, NoWrite
  <2>3. QED
    BY <2>1, <2>2
<1>5. QED
  BY <1>2, <1>3, <1>4, EndKeeps

LEMMA TokensKeep ==
    ASSUME AccessInv, UNCHANGED vars \/ \E u \in Users : SignIn(u) \/ Expire(u)
    PROVE  /\ AccessInv' /\ (\A t \in Sessions : Steady(t))
           /\ UNCHANGED <<labels, users, history>> /\ matrix \subseteq matrix'
<1>1. TypeOK
  BY DEF AccessInv
<1>2. UNCHANGED <<labels, matrix, users, recorded, req, begun, history>>
  BY DEF vars, SignIn, Expire
<1>3. tokens' \in [Users -> {"none", "user", "admin"}]
  BY <1>1 DEF vars, SignIn, Expire, TypeOK
<1>4. \A t \in Sessions : Steady(t)
  BY <1>2 DEF Steady
<1>5. /\ matrix' \subseteq Roles /\ req' \in [Sessions -> Requests]
      /\ recorded' \in Builds \cup {0} /\ begun' \in 0..MaxRequests
  BY <1>1, <1>2 DEF TypeOK
<1>6. QED
  BY <1>2, <1>3, <1>4, <1>5, PlainKeeps

LEMMA GoesIs ==
    ASSUME TypeOK, NEW s \in Sessions, NEW at \in Steps, NEW failed \in BOOLEAN, Goes(s, at, failed)
    PROVE  /\ req' \in [Sessions -> Requests] /\ req'[s].at = at
           /\ req'[s].build = req[s].build /\ req'[s].dirty = (req[s].dirty \/ failed)
           /\ \A t \in Sessions \ {s} : req'[t] = req[t]
<1> DEFINE one == [req[s] EXCEPT !.at = at]
           r == [one EXCEPT !.dirty = req[s].dirty \/ failed]
<1>1. req[s] \in Requests
  BY DEF TypeOK
<1>2. req' = [req EXCEPT ![s] = r]
  BY <1>1 DEF Goes, TypeOK, Requests
<1>3. one \in Requests /\ one.at = at /\ one.build = req[s].build
  BY <1>1 DEF Requests
<1>4. (req[s].dirty \/ failed) \in BOOLEAN
  BY <1>1 DEF Requests
<1> HIDE DEF one
<1>5. r \in Requests /\ r.at = at /\ r.build = req[s].build /\ r.dirty = (req[s].dirty \/ failed)
  BY <1>3, <1>4 DEF Requests
<1> HIDE DEF r
<1>6. QED
  BY <1>2, <1>5 DEF TypeOK

(* The repair seeds the rows of the built-in roles, or fails to.           *)
LEMMA SeedingKeeps ==
    ASSUME AccessInv, NEW s \in Sessions, RepairSeed(s) \/ RepairFails(s)
    PROVE  /\ AccessInv'
           /\ \A t \in Sessions : Steady(t) \/ (t = s /\ RepairSeed(s))
           /\ UNCHANGED <<labels, users, history, recorded>> /\ matrix \subseteq matrix'
<1>1. TypeOK /\ Asked(s)
  BY DEF AccessInv
<1>2. PICK at \in {"seeding", "recording"}, failed \in BOOLEAN :
         /\ Goes(s, at, failed)
         /\ RepairSeed(s) \/ failed
         /\ req[s].at \in {"migrating", "seeding"}
  BY DEF RepairSeed, RepairFails
<1>3. /\ req' \in [Sessions -> Requests] /\ req'[s].at = at
      /\ req'[s].build = req[s].build /\ req'[s].dirty = (req[s].dirty \/ failed)
      /\ \A t \in Sessions \ {s} : req'[t] = req[t]
  BY <1>1, <1>2, GoesIs DEF Steps
<1>4. /\ UNCHANGED <<labels, users, history, tokens, recorded, begun>>
      /\ matrix' = matrix \/ matrix' = matrix \cup BuiltIn
  BY DEF RepairSeed, RepairFails, NoWrite
<1>5. matrix \subseteq matrix' /\ matrix' \subseteq Roles
  BY <1>1, <1>4 DEF TypeOK, BuiltIn
<1>6. \A t \in Sessions : Steady(t) \/ (t = s /\ RepairSeed(s))
  BY <1>2, <1>3 DEF Steady
<1>7. req'[s].build # 0
  BY <1>1, <1>2, <1>3 DEF Asked
<1>8. /\ tokens' \in [Users -> {"none", "user", "admin"}] /\ recorded' \in Builds \cup {0}
      /\ begun' \in 0..MaxRequests
  BY <1>1, <1>4 DEF TypeOK
<1>9. AccessInv'
  BY <1>3, <1>4, <1>5, <1>7, <1>8, PlainKeeps
<1>10. QED
  BY <1>4, <1>5, <1>6, <1>9

-----------------------------------------------------------------------------
(* Steps that change the roles. *)

LEMMA EndsIs ==
    ASSUME TypeOK, NEW s \in Sessions, Ends(s)
    PROVE  /\ req' \in [Sessions -> Requests] /\ req'[s].at = "idle"
           /\ \A t \in Sessions \ {s} : req'[t] = req[t]
           /\ \A t \in Sessions : Steady(t)
BY IdleTyped DEF Ends, TypeOK, Steady

(* A request that ends leaves the others as they were asked.               *)
LEMMA EndsAsked ==
    ASSUME AccessInv, NEW s \in Sessions, Ends(s)
    PROVE  /\ \A t \in Sessions : Asked(t)'
           /\ \A t \in Sessions : req'[t].at \in ChangingRoles => req[t].at \in ChangingRoles
<1>1. /\ req'[s].at = "idle" /\ \A t \in Sessions \ {s} : req'[t] = req[t]
  BY EndsIs DEF AccessInv
<1>2. QED
  BY <1>1 DEF AccessInv, Asked, ChangingRoles

(* A deletion, which nobody unmarked overlaps.                             *)
LEMMA DeleteRowsKeeps ==
    ASSUME AccessInv, NEW s \in Sessions, DeleteRows(s)
    PROVE  AccessInv' /\ \A t \in Sessions : Steady(t)
<1>1. TypeOK /\ LabelsHold /\ ActiveExist
  BY DEF AccessInv
<1>2. /\ req[s].at = "deleting" /\ Ends(s)
      /\ matrix' = matrix \ {RoleNamed(req[s].name)}
      /\ UNCHANGED <<labels, users, tokens, recorded, begun, history>>
  BY DEF DeleteRows
<1>3. /\ req' \in [Sessions -> Requests] /\ req'[s].at = "idle"
      /\ \A t \in Sessions \ {s} : req'[t] = req[t]
      /\ \A t \in Sessions : Steady(t)
  BY <1>1, <1>2, EndsIs
<1>4. /\ Roles' = Roles /\ LabelsHold' /\ ActiveExist'
      /\ \A n : Holders(n)' = Holders(n)
  BY <1>1, <1>2 DEF Roles, LabelsHold, IsLabel, ActiveExist, Holders
<1>5. TypeOK'
  BY <1>1, <1>2, <1>3, <1>4 DEF TypeOK
<1>6. ASSUME NEW t \in Sessions PROVE Crossing(t)'
  <2>1. CASE t = s
    BY <1>3, <2>1 DEF Crossing, Unmarked, Assigning
  <2>2. CASE t # s
    <3>1. Crossing(t) /\ ~Unmarked(t)
      BY <1>2, <2>2 DEF AccessInv, Crossing, ChangingRoles
    <3>2. QED
      BY <1>2, <1>3, <1>4, <2>2, <3>1 DEF Crossing, Unmarked
  <2>3. QED
    BY <2>1, <2>2
<1>7. QED
  BY <1>2, <1>3, <1>4, <1>5, <1>6, EndsAsked DEF AccessInv

(* A renaming: who holds the renamed role holds the new name.              *)
LEMMA RenameIs ==
    ASSUME AccessInv, NEW s \in Sessions, RenameLabel(s)
    PROVE  LET q == RoleNamed(req[s].name)
           IN  /\ q \in Roles /\ labels[q] = req[s].name /\ req[s].name \notin ROLE
               /\ req[s].to \notin ROLE /\ req[s].to \in Names /\ ~IsLabel(req[s].to)
               /\ Roles' = Roles /\ labels'[q] = req[s].to
               /\ \A r \in Roles \ {q} : labels'[r] = labels[r]
               /\ labels' \in Seq(Names \cup ROLE \cup Legacy)
               /\ Holders(req[s].name) \in SUBSET Users
               /\ history' \in Histories
               /\ history'.crossed = IF req[s].dirty THEN history.crossed \cup Holders(req[s].name)
                                     ELSE history.crossed
               /\ history'.late = history.late /\ history'.abdicated = history.abdicated
<1> DEFINE q == RoleNamed(req[s].name)
           S == IF req[s].dirty THEN history.crossed \cup Holders(req[s].name) ELSE history.crossed
<1>1. TypeOK /\ LabelsHold /\ Asked(s)
  BY DEF AccessInv
<1>2. /\ req[s].at = "renaming" /\ IsLabel(req[s].name) /\ ~IsLabel(req[s].to)
      /\ labels' = [labels EXCEPT ![q] = req[s].to]
      /\ history' = [history EXCEPT !.crossed = S]
  BY DEF RenameLabel
<1>3. /\ q \in Roles /\ labels[q] = req[s].name /\ req[s].name \notin ROLE /\ req[s].to \in Names
      /\ req[s].to \notin ROLE
  BY <1>1, <1>2, RoleNamedIs DEF Asked, LabelsHold
<1>4. /\ Roles' = Roles /\ labels'[q] = req[s].to
      /\ \A r \in Roles \ {q} : labels'[r] = labels[r]
      /\ labels' \in Seq(Names \cup ROLE \cup Legacy)
  BY <1>1, <1>2, <1>3 DEF TypeOK, Roles
<1>5. Holders(req[s].name) \in SUBSET Users /\ history \in Histories
  BY <1>1 DEF Holders, TypeOK
<1>6. S \in SUBSET Users
  BY <1>5 DEF Histories
<1> HIDE DEF S
<1>7. /\ history' \in Histories /\ history'.crossed = S
      /\ history'.late = history.late /\ history'.abdicated = history.abdicated
  BY <1>2, <1>5, <1>6 DEF Histories
<1>8. QED
  BY <1>2, <1>3, <1>4, <1>5, <1>7 DEF S

LEMMA RenameLabelKeeps ==
    ASSUME AccessInv, NEW s \in Sessions, RenameLabel(s)
    PROVE  AccessInv' /\ \A t \in Sessions : Steady(t)
<1> DEFINE q == RoleNamed(req[s].name)
<1>1. TypeOK /\ LabelsHold /\ ActiveExist
  BY DEF AccessInv
<1>2. /\ req[s].at = "renaming" /\ Ends(s)
      /\ UNCHANGED <<matrix, users, tokens, recorded, begun>>
  BY DEF RenameLabel
<1>3. /\ q \in Roles /\ labels[q] = req[s].name /\ req[s].name \notin ROLE
      /\ req[s].to \in Names /\ ~IsLabel(req[s].to) /\ Roles' = Roles /\ labels'[q] = req[s].to
      /\ \A r \in Roles \ {q} : labels'[r] = labels[r]
      /\ labels' \in Seq(Names \cup ROLE \cup Legacy)
      /\ history' \in Histories
      /\ history'.crossed = IF req[s].dirty THEN history.crossed \cup Holders(req[s].name)
                            ELSE history.crossed
  BY RenameIs
<1> HIDE DEF q
<1>4. /\ req' \in [Sessions -> Requests] /\ req'[s].at = "idle"
      /\ \A t \in Sessions \ {s} : req'[t] = req[t]
      /\ \A t \in Sessions : Steady(t)
  BY <1>1, <1>2, EndsIs
<1>5. TypeOK'
  BY <1>1, <1>2, <1>3, <1>4 DEF TypeOK
<1>6. LabelsHold'
  <2>1. ASSUME NEW p \in Roles, NEW r \in Roles, labels'[p] = labels'[r] PROVE p = r
    BY <1>1, <1>3, <2>1 DEF LabelsHold, IsLabel
  <2>2. ASSUME NEW n \in ROLE PROVE IsLabel(n)'
    <3>1. PICK r \in Roles : labels[r] = n
      BY <1>1 DEF LabelsHold, IsLabel
    <3>2. labels'[r] = n
      BY <1>3, <3>1
    <3>3. QED
      BY <1>3, <3>2 DEF IsLabel
  <2>3. QED
    BY <1>3, <2>1, <2>2 DEF LabelsHold
<1>7. ActiveExist'
  BY <1>1, <1>2 DEF ActiveExist
<1>8. \A n : Holders(n)' \subseteq Holders(n) \cup Holders(req[s].name)
  BY <1>1, <1>2, <1>3, RolesTyped DEF Holders
<1>9. ASSUME NEW t \in Sessions PROVE Crossing(t)'
  <2>1. CASE t = s
    BY <1>4, <2>1 DEF Crossing, Unmarked, Assigning
  <2>2. CASE t # s
    <3>1. Crossing(t) /\ ~Unmarked(t) /\ Crossing(s)
      BY <1>2, <2>2 DEF AccessInv, Crossing, ChangingRoles
    <3>2. req[t].at = "deleting" => req[s].dirty
      BY <1>2, <2>2, <3>1 DEF Crossing, Unmarked, ChangingRoles
    <3>3. QED
      BY <1>3, <1>4, <1>8, <2>2, <3>1, <3>2 DEF Crossing, Unmarked
  <2>3. QED
    BY <2>1, <2>2
<1>10. QED
  BY <1>2, <1>4, <1>5, <1>6, <1>7, <1>9, EndsAsked DEF AccessInv

(* A value added to the enum is held by nobody and is no built-in role.    *)
LEMMA AddLabelIs ==
    ASSUME AccessInv, NEW s \in Sessions, AddLabel(s)
    PROVE  /\ Roles \subseteq Roles' /\ \A r \in Roles : labels'[r] = labels[r]
           /\ LabelsHold' /\ labels' \in Seq(Names \cup ROLE \cup Legacy)
           /\ BuiltIn' = BuiltIn /\ \A n : Holders(n)' = Holders(n)
           /\ UNCHANGED <<matrix, users, tokens, recorded, begun, history>>
<1> DEFINE n == req[s].name
<1>1. TypeOK /\ LabelsHold /\ Asked(s)
  BY DEF AccessInv
<1>2. /\ req[s].at = "adding" /\ labels' = IF IsLabel(n) THEN labels ELSE Append(labels, n)
      /\ UNCHANGED <<matrix, users, tokens, recorded, begun, history>>
  BY DEF AddLabel
<1>3. n \in Names
  BY <1>1, <1>2 DEF Asked
<1> HIDE DEF n
<1>4. CASE IsLabel(n)
  <2>1. labels' = labels
    BY <1>2, <1>4
  <2>2. QED
    BY <1>1, <1>2, <2>1 DEF Roles, LabelsHold, IsLabel, BuiltIn, Holders, TypeOK
<1>5. CASE ~IsLabel(n)
  <2> DEFINE q == Len(labels) + 1
  <2>1. Roles' = Roles \cup {q} /\ q \notin Roles /\ labels'[q] = n /\ \A r \in Roles : labels'[r] = labels[r]
    BY <1>1, <1>2, <1>5 DEF TypeOK, Roles
  <2>2. labels' \in Seq(Names \cup ROLE \cup Legacy)
    BY <1>1, <1>2, <1>3, <1>5 DEF TypeOK
  <2> HIDE DEF q
  <2>3. n \notin ROLE /\ \A r \in Roles : labels[r] # n
    BY <1>1, <1>5 DEF LabelsHold, IsLabel
  <2>4. LabelsHold'
    BY <1>1, <2>1, <2>3 DEF LabelsHold, IsLabel
  <2>5. BuiltIn' = BuiltIn
    BY <2>1, <2>3 DEF BuiltIn
  <2>6. \A m : Holders(m)' = Holders(m)
    BY <1>1, <1>2, <2>1, RolesTyped DEF Holders
  <2>7. QED
    BY <1>2, <2>1, <2>2, <2>4, <2>5, <2>6
<1>6. QED
  BY <1>4, <1>5

LEMMA AddLabelKeeps ==
    ASSUME AccessInv, NEW s \in Sessions, AddLabel(s)
    PROVE  AccessInv' /\ \A t \in Sessions : Steady(t)
<1> DEFINE r == [req[s] EXCEPT !.at = "labelled"]
<1>1. TypeOK /\ ActiveExist /\ req[s] \in Requests
  BY DEF AccessInv, TypeOK
<1>2. req[s].at = "adding" /\ req' = [req EXCEPT ![s] = r]
  BY DEF AddLabel
<1>3. r \in Requests /\ r.at = "labelled" /\ r.dirty = req[s].dirty
  BY <1>1 DEF Requests, Steps
<1> HIDE DEF r
<1>4. /\ req' \in [Sessions -> Requests] /\ req'[s].at = "labelled"
      /\ \A t \in Sessions \ {s} : req'[t] = req[t]
  BY <1>1, <1>2, <1>3 DEF TypeOK
<1>5. /\ Roles \subseteq Roles' /\ \A q \in Roles : labels'[q] = labels[q]
      /\ LabelsHold' /\ labels' \in Seq(Names \cup ROLE \cup Legacy)
      /\ \A n : Holders(n)' = Holders(n)
      /\ UNCHANGED <<matrix, users, tokens, recorded, begun, history>>
  BY AddLabelIs
<1>6. TypeOK'
  <2>1. users' \in [Users -> [role : (Roles \cup {0})', active : BOOLEAN]]
    BY <1>1, <1>5 DEF TypeOK
  <2>2. QED
    BY <1>1, <1>4, <1>5, <2>1 DEF TypeOK
<1>7. ActiveExist'
  BY <1>1, <1>5 DEF ActiveExist
<1>8. ASSUME NEW t \in Sessions PROVE Asked(t)' /\ Crossing(t)' /\ Steady(t)
  <2>1. CASE t = s
    BY <1>4, <2>1 DEF Asked, Crossing, Unmarked, Assigning, Steady
  <2>2. CASE t # s
    <3>1. Asked(t) /\ Crossing(t) /\ ~Unmarked(t)
      BY <1>2, <2>2 DEF AccessInv, Crossing, ChangingRoles
    <3>2. QED
      BY <1>4, <1>5, <2>2, <3>1 DEF Asked, Crossing, Unmarked, Steady
  <2>3. QED
    BY <2>1, <2>2
<1>9. QED
  BY <1>5, <1>6, <1>7, <1>8 DEF AccessInv

-----------------------------------------------------------------------------
(* Steps that change the users. *)

\* Old roles have been moved out of, or are about to be by a pass that has done so.
Migrated == recorded # 0 \/ \E s \in Sessions : req[s].at \in {"seeding", "recording"}

\* User u is given the role named n, while the roles are being changed, or while they are
\* not and the role is known, or an old one that the platform offers.
Gives(u, n) ==
    /\ IsLabel(n) /\ users'[u].role = RoleNamed(n)
    /\ \A v \in Users \ {u} : /\ users'[v] = users[v]
                              /\ v \in history'.crossed <=> v \in history.crossed
                              /\ v \in history'.late <=> v \in history.late
    /\ \/ u \in history'.crossed
       \/ ~RolesChanging /\ KnownName(n)
       \/ ~RolesChanging /\ n \in Legacy /\ (Migrated => u \in history'.late)
    /\ UNCHANGED <<labels, matrix, recorded>>

(* Users and histories stay of their types.                                *)
UsersTyped ==
    /\ users' \in [Users -> [role : Roles \cup {0}, active : BOOLEAN]]
    /\ history' \in Histories
    /\ begun' \in 0..MaxRequests /\ UNCHANGED tokens

LEMMA UserTyped ==
    ASSUME NEW q, q \in [role : Roles \cup {0}, active : BOOLEAN], NEW r \in Roles, NEW b \in BOOLEAN
    PROVE  /\ [q EXCEPT !.role = r] \in [role : Roles \cup {0}, active : BOOLEAN]
           /\ [q EXCEPT !.role = r].role = r /\ [q EXCEPT !.role = r].active = q.active
           /\ [q EXCEPT !.active = b] \in [role : Roles \cup {0}, active : BOOLEAN]
           /\ [q EXCEPT !.active = b].role = q.role /\ [q EXCEPT !.active = b].active = b
OBVIOUS

(* A request that assigns writes what it was allowed to.                   *)
LEMMA AssignmentGives ==
    ASSUME AccessInv, NEW s \in Sessions, req[s].at \in Assigning, IsLabel(req[s].name),
           users'[req[s].user].role = RoleNamed(req[s].name),
           \A v \in Users \ {req[s].user} : users'[v] = users[v],
           history'.crossed = Assigned(req[s].user, req[s].dirty).crossed,
           history'.late = Assigned(req[s].user, req[s].dirty).late,
           UNCHANGED <<labels, matrix, recorded>>
    PROVE  Gives(req[s].user, req[s].name)
<1> DEFINE u == req[s].user
<1>1. TypeOK /\ u \in Users /\ req[s].dirty \in BOOLEAN /\ Crossing(s)
  BY DEF AccessInv, TypeOK, Requests
<1>2. /\ history'.crossed = IF req[s].dirty THEN history.crossed \cup {u} ELSE history.crossed \ {u}
      /\ history'.late = history.late \ {u}
  BY <1>1, AssignedTyped
<1>3. ~req[s].dirty => KnownName(req[s].name) /\ ~RolesChanging
  <2>1. ~req[s].dirty => /\ KnownName(req[s].name)
                         /\ \A t \in Sessions \ {s} : req[t].at \notin ChangingRoles
    BY <1>1 DEF Crossing, Unmarked
  <2>2. req[s].at \notin ChangingRoles
    BY DEF Assigning, ChangingRoles
  <2>3. QED
    BY <2>1, <2>2 DEF RolesChanging
<1> HIDE DEF u
<1>4. QED
  BY <1>2, <1>3 DEF Gives, u

LEMMA CreateGives ==
    ASSUME AccessInv, NEW s \in Sessions, CreateInsert(s), users[req[s].user].role = 0
    PROVE  /\ Gives(req[s].user, req[s].name) /\ req[s].user \in Users
           /\ UsersTyped /\ Ends(s) /\ history'.abdicated = history.abdicated
           /\ users'[req[s].user].active
<1> DEFINE u == req[s].user
           new == [role |-> RoleNamed(req[s].name), active |-> TRUE]
<1>1. TypeOK /\ req[s] \in Requests
  BY DEF AccessInv, TypeOK
<1>2. u \in Users /\ req[s].dirty \in BOOLEAN
  BY <1>1 DEF Requests
<1>3. /\ req[s].at = "creating" /\ IsLabel(req[s].name) /\ Ends(s)
      /\ users' = [users EXCEPT ![u] = new] /\ history' = Assigned(u, req[s].dirty)
      /\ UNCHANGED <<labels, matrix, tokens, recorded, begun>>
  BY DEF CreateInsert
<1>4. RoleNamed(req[s].name) \in Roles
  BY <1>3, RoleNamedIs
<1>5. new \in [role : Roles \cup {0}, active : BOOLEAN] /\ new.role = RoleNamed(req[s].name)
  BY <1>4
<1>6. users'[u].active
  BY <1>1, <1>2, <1>3 DEF TypeOK
<1> HIDE DEF new
<1>7. /\ users' \in [Users -> [role : Roles \cup {0}, active : BOOLEAN]]
      /\ users'[u].role = RoleNamed(req[s].name)
      /\ \A v \in Users \ {u} : users'[v] = users[v]
  BY <1>1, <1>2, <1>3, <1>5 DEF TypeOK
<1>8. history' \in Histories /\ history'.abdicated = history.abdicated
  BY <1>1, <1>2, <1>3, AssignedTyped
<1>9. UsersTyped
  BY <1>1, <1>3, <1>7, <1>8 DEF UsersTyped, TypeOK
<1>10. Gives(u, req[s].name)
  BY <1>3, <1>7, AssignmentGives DEF Assigning
<1>11. QED
  BY <1>2, <1>3, <1>6, <1>8, <1>9, <1>10

LEMMA UpdateGives ==
    ASSUME AccessInv, NEW s \in Sessions, UpdateWrite(s)
    PROVE  /\ Gives(req[s].user, req[s].name) /\ req[s].user \in Users /\ req[s].actor \in Users
           /\ UsersTyped /\ Ends(s)
           /\ history'.abdicated =
                (history.abdicated \/ Abdicates(req[s].actor, req[s].user, RoleNamed(req[s].name)))
           /\ users'[req[s].user].active = users[req[s].user].active
<1> DEFINE u == req[s].user
           role == RoleNamed(req[s].name)
           h == Assigned(u, req[s].dirty)
           b == history.abdicated \/ Abdicates(req[s].actor, u, role)
<1>1. TypeOK /\ req[s] \in Requests /\ history \in Histories
  BY DEF AccessInv, TypeOK
<1>2. u \in Users /\ req[s].actor \in Users /\ req[s].dirty \in BOOLEAN
  BY <1>1 DEF Requests
<1>3. /\ h \in Histories /\ h.abdicated = history.abdicated
  BY <1>1, <1>2, AssignedTyped
<1>4. /\ req[s].at = "updating" /\ IsLabel(req[s].name) /\ Ends(s)
      /\ users' = [users EXCEPT ![u] = [users[u] EXCEPT !.role = role]]
      /\ history' = [h EXCEPT !.abdicated = h.abdicated \/ Abdicates(req[s].actor, u, role)]
      /\ UNCHANGED <<labels, matrix, tokens, recorded, begun>>
  <2>1. history' = [h EXCEPT !.abdicated = h.abdicated \/ Abdicates(req[s].actor, u, role)]
    BY <1>3 DEF UpdateWrite, Histories
  <2>2. users' = [users EXCEPT ![u] = [users[u] EXCEPT !.role = role]]
    BY DEF UpdateWrite
  <2>3. QED
    BY <2>1, <2>2 DEF UpdateWrite
<1>5. role \in Roles
  BY <1>4, RoleNamedIs
<1>6. b \in BOOLEAN
  BY <1>1 DEF Abdicates, Histories
<1>7. /\ users' \in [Users -> [role : Roles \cup {0}, active : BOOLEAN]]
      /\ users'[u].role = role /\ users'[u].active = users[u].active
      /\ \A v \in Users \ {u} : users'[v] = users[v]
  <2> DEFINE q == [users[u] EXCEPT !.role = role]
  <2>1. /\ q \in [role : Roles \cup {0}, active : BOOLEAN] /\ q.role = role
        /\ q.active = users[u].active
    <3>1. users[u] \in [role : Roles \cup {0}, active : BOOLEAN]
      BY <1>1, <1>2, RolesTyped
    <3> HIDE DEF role
    <3>2. QED
      BY <1>5, <3>1
  <2> HIDE DEF q, role
  <2>2. QED
    BY <1>1, <1>2, <1>4, <2>1 DEF TypeOK, q
<1> HIDE DEF h
<1>8. /\ history' \in Histories /\ history'.abdicated = b
      /\ history'.crossed = h.crossed /\ history'.late = h.late
  <2>1. history' = [h EXCEPT !.abdicated = b]
    BY <1>3, <1>4
  <2> HIDE DEF b
  <2>2. QED
    BY <1>3, <1>6, <2>1 DEF Histories
<1>9. UsersTyped
  BY <1>1, <1>4, <1>7, <1>8 DEF UsersTyped, TypeOK
<1>10. Gives(u, req[s].name)
  BY <1>4, <1>7, <1>8, AssignmentGives DEF Assigning, h
<1>11. QED
  BY <1>2, <1>4, <1>7, <1>8, <1>9, <1>10

LEMMA PlatformGives ==
    ASSUME AccessInv, NEW u \in Users, NEW n, PlatformCreate(u, n)
    PROVE  /\ Gives(u, n) /\ UsersTyped /\ users[u].role = 0 /\ UNCHANGED req
           /\ history'.abdicated = history.abdicated /\ users'[u].active
<1> DEFINE new == [role |-> RoleNamed(n), active |-> TRUE]
           h == Assigned(u, RolesChanging)
           late == IF n \in Legacy /\ Migrated THEN h.late \cup {u} ELSE h.late
<1>1. TypeOK /\ RolesChanging \in BOOLEAN
  BY DEF AccessInv, RolesChanging
<1>2. /\ h \in Histories /\ h.abdicated = history.abdicated /\ h.late = history.late \ {u}
      /\ h.crossed = IF RolesChanging THEN history.crossed \cup {u} ELSE history.crossed \ {u}
  BY <1>1, AssignedTyped
<1>3. /\ n \in PlatformRoles /\ IsLabel(n) /\ users[u].role = 0 /\ begun < MaxRequests
      /\ begun' = begun + 1 /\ users' = [users EXCEPT ![u] = new]
      /\ UNCHANGED <<labels, matrix, tokens, recorded, req>>
  BY DEF PlatformCreate, NewRequest
<1>4. history' = [h EXCEPT !.late = late]
  <2>1. history' = [h EXCEPT !.late = IF n \in Legacy /\ (recorded # 0 \/ \E s \in Sessions :
                                             req[s].at \in {"seeding", "recording"})
                                      THEN h.late \cup {u} ELSE h.late]
    <3> HIDE DEF h
    <3>1. QED
      BY <1>2 DEF PlatformCreate, h, Histories
  <2>2. QED
    BY <2>1 DEF Migrated
<1>5. /\ new \in [role : Roles \cup {0}, active : BOOLEAN] /\ new.role = RoleNamed(n)
      /\ new.active
  BY <1>3, RoleNamedIs
<1> HIDE DEF new
<1>6. /\ users' \in [Users -> [role : Roles \cup {0}, active : BOOLEAN]]
      /\ users'[u].role = RoleNamed(n) /\ users'[u].active
      /\ \A v \in Users \ {u} : users'[v] = users[v]
  BY <1>1, <1>3, <1>5 DEF TypeOK
<1> HIDE DEF h
<1>7. late \in SUBSET Users
  BY <1>2 DEF Histories
<1>8. /\ late \ {u} = history.late \ {u} /\ (n \in Legacy /\ Migrated => u \in late)
  BY <1>2
<1> HIDE DEF late
<1>9. /\ history' \in Histories /\ history'.crossed = h.crossed /\ history'.late = late
      /\ history'.abdicated = history.abdicated
  BY <1>2, <1>4, <1>7 DEF Histories
<1>10. begun' \in 0..MaxRequests
  BY <1>1, <1>3, AccessAssumption DEF TypeOK
<1>11. UsersTyped
  BY <1>3, <1>6, <1>9, <1>10 DEF UsersTyped
<1>12. n \in ROLE \/ n \in Legacy
  BY <1>3 DEF PlatformRoles, ROLE, Legacy
<1>13. n \in ROLE => KnownName(n)
  BY DEF KnownName
<1>14. u \in history'.crossed \/ ~RolesChanging
  BY <1>2, <1>9
<1>15. \A v \in Users \ {u} : /\ v \in history'.crossed <=> v \in history.crossed
                              /\ v \in history'.late <=> v \in history.late
  BY <1>2, <1>8, <1>9
<1>16. Gives(u, n)
  BY <1>3, <1>6, <1>8, <1>9, <1>12, <1>13, <1>14, <1>15 DEF Gives
<1>17. QED
  BY <1>3, <1>6, <1>9, <1>11, <1>16

LEMMA GivesKeeps ==
    ASSUME AccessInv, NEW u \in Users, NEW n, Gives(u, n), UsersTyped,
           UNCHANGED req \/ \E s \in Sessions : Ends(s)
    PROVE  AccessInv' /\ \A t \in Sessions : Steady(t)
<1>1. TypeOK /\ LabelsHold /\ ActiveExist
  BY DEF AccessInv
<1>2. /\ IsLabel(n) /\ users'[u].role = RoleNamed(n)
      /\ \A v \in Users \ {u} : /\ users'[v] = users[v]
                                /\ v \in history'.crossed <=> v \in history.crossed
      /\ u \in history'.crossed \/ ~RolesChanging
      /\ UNCHANGED <<labels, matrix, recorded, tokens>>
  BY DEF Gives, UsersTyped
<1>3. /\ req' \in [Sessions -> Requests]
      /\ \A t \in Sessions : req'[t] = req[t] \/ req'[t].at = "idle"
      /\ \A t \in Sessions : Asked(t)' /\ Steady(t)
      /\ \A t \in Sessions : req'[t].at \in ChangingRoles => req[t].at \in ChangingRoles
  <2>1. CASE UNCHANGED req
    BY <1>1, <2>1 DEF TypeOK, AccessInv, Asked, Steady
  <2>2. CASE \E s \in Sessions : Ends(s)
    <3>1. PICK s \in Sessions : Ends(s)
      BY <2>2
    <3>2. QED
      BY <1>1, <3>1, EndsIs, EndsAsked
  <2>3. QED
    BY <2>1, <2>2
<1>4. Roles' = Roles /\ LabelsHold' /\ \A m : KnownName(m)' = KnownName(m)
  BY <1>1, <1>2 DEF Roles, LabelsHold, IsLabel, KnownName
<1>5. TypeOK'
  BY <1>1, <1>2, <1>3, <1>4 DEF TypeOK, UsersTyped
<1>6. ActiveExist'
  <2>1. users'[u].role # 0
    BY <1>1, <1>2, RoleNamedIs, RolesTyped
  <2>2. QED
    BY <1>1, <1>2, <2>1 DEF ActiveExist
<1>7. \A m : Holders(m)' \subseteq Holders(m) \cup {u}
  BY <1>2 DEF Holders
<1>8. ASSUME NEW t \in Sessions PROVE Crossing(t)'
  <2>1. CASE req'[t].at = "idle"
    BY <2>1 DEF Crossing, Unmarked, Assigning
  <2>2. CASE req'[t] = req[t]
    <3>1. Crossing(t)
      BY DEF AccessInv
    <3>2. req[t].at = "deleting" => u \in history'.crossed
      BY <1>2 DEF RolesChanging, ChangingRoles
    <3>3. ASSUME req[t].at = "deleting", NEW v \in Holders(req[t].name)'
          PROVE  v \in history'.crossed
      <4>1. Holders(req[t].name) \subseteq history.crossed
        BY <3>1, <3>3 DEF Crossing
      <4>2. v \in Users /\ (v = u \/ v \in Holders(req[t].name))
        BY <1>7, <2>2, <3>3 DEF Holders
      <4>3. QED
        BY <1>2, <3>2, <3>3, <4>1, <4>2
    <3>4. QED
      BY <1>3, <1>4, <2>2, <3>1, <3>3 DEF Crossing, Unmarked
  <2>3. QED
    BY <1>3, <2>1, <2>2
<1>9. QED
  BY <1>3, <1>4, <1>5, <1>6, <1>8 DEF AccessInv

(* A user is deactivated, or activated again, by another.                  *)
LEMMA SetActiveIs ==
    ASSUME AccessInv, NEW a \in Users, NEW u \in Users, NEW active \in BOOLEAN, SetActive(a, u, active)
    PROVE  /\ a # u /\ users[u].role # 0 /\ UsersTyped
           /\ \A v \in Users : users'[v].role = users[v].role
           /\ \A v \in Users \ {u} : users'[v] = users[v]
           /\ history'.crossed = history.crossed /\ history'.late = history.late
           /\ history'.abdicated = (history.abdicated \/ ~MayAdminister(a))
           /\ UNCHANGED <<labels, matrix, recorded, req>>
<1> DEFINE b == history.abdicated \/ ~MayAdminister(a)
           q == [users[u] EXCEPT !.active = active]
<1>1. TypeOK /\ history \in Histories /\ users[u] \in [role : Roles \cup {0}, active : BOOLEAN]
  BY DEF AccessInv, TypeOK
<1>2. /\ a # u /\ users[u].role # 0 /\ begun < MaxRequests /\ begun' = begun + 1
      /\ users' = [users EXCEPT ![u] = q] /\ history' = [history EXCEPT !.abdicated = b]
      /\ UNCHANGED <<labels, matrix, tokens, recorded, req>>
  BY DEF SetActive, Others, NewRequest
<1>3. b \in BOOLEAN
  BY <1>1 DEF MayAdminister, Histories
<1>4. q \in [role : Roles \cup {0}, active : BOOLEAN] /\ q.role = users[u].role
  BY <1>1
<1> HIDE DEF b, q
<1>5. /\ users' \in [Users -> [role : Roles \cup {0}, active : BOOLEAN]]
      /\ \A v \in Users : users'[v].role = users[v].role
      /\ \A v \in Users \ {u} : users'[v] = users[v]
  BY <1>1, <1>2, <1>4 DEF TypeOK
<1>6. /\ history' \in Histories /\ history'.crossed = history.crossed
      /\ history'.late = history.late /\ history'.abdicated = b
  BY <1>1, <1>2, <1>3 DEF Histories
<1>7. begun' \in 0..MaxRequests
  BY <1>1, <1>2, AccessAssumption DEF TypeOK
<1>8. QED
  BY <1>2, <1>5, <1>6, <1>7 DEF UsersTyped, b

LEMMA SetActiveKeeps ==
    ASSUME AccessInv, NEW a \in Users, NEW u \in Users, NEW active \in BOOLEAN, SetActive(a, u, active)
    PROVE  AccessInv' /\ \A t \in Sessions : Steady(t)
<1>1. TypeOK /\ LabelsHold /\ ActiveExist
  BY DEF AccessInv
<1>2. /\ users[u].role # 0 /\ UsersTyped
      /\ \A v \in Users : users'[v].role = users[v].role
      /\ \A v \in Users \ {u} : users'[v] = users[v]
      /\ history'.crossed = history.crossed
      /\ UNCHANGED <<labels, matrix, recorded, req>>
  BY SetActiveIs
<1>3. /\ Roles' = Roles /\ LabelsHold' /\ \A m : KnownName(m)' = KnownName(m)
      /\ \A m : Holders(m)' = Holders(m)
  BY <1>1, <1>2 DEF Roles, LabelsHold, IsLabel, KnownName, Holders
<1>4. TypeOK'
  BY <1>1, <1>2, <1>3 DEF TypeOK, UsersTyped
<1>5. ActiveExist'
  BY <1>1, <1>2 DEF ActiveExist
<1>6. \A t \in Sessions : Asked(t)' /\ Crossing(t)' /\ Steady(t)
  BY <1>2, <1>3 DEF AccessInv, Asked, Crossing, Unmarked, Steady
<1>7. QED
  BY <1>3, <1>4, <1>5, <1>6 DEF AccessInv

(* The repair moves users out of the old roles: into built-in ones.        *)
LEMMA MigrateIs ==
    ASSUME AccessInv, NEW s \in Sessions, RepairMigrate(s)
    PROVE  /\ UsersTyped /\ UNCHANGED <<labels, matrix, recorded>>
           /\ history'.crossed = history.crossed /\ history'.abdicated = history.abdicated
           /\ history'.late = {u \in history.late : ~ToBeMoved(u)}
           /\ \A u \in Users :
                 IF ToBeMoved(u)
                 THEN /\ users'[u].role \in Roles /\ labels[users'[u].role] \in {"STAFF", "AGENT"}
                      /\ users'[u].active = users[u].active
                 ELSE users'[u] = users[u]
<1> DEFINE late == {u \in history.late : ~ToBeMoved(u)}
<1>1. TypeOK /\ LabelsHold /\ history \in Histories
  BY DEF AccessInv, TypeOK
<1>2. /\ users' = [u \in Users |-> IF ToBeMoved(u)
                                   THEN [users[u] EXCEPT !.role = MovedRole(labels[users[u].role])]
                                   ELSE users[u]]
      /\ history' = [history EXCEPT !.late = late]
      /\ UNCHANGED <<labels, matrix, tokens, recorded, begun>>
  <2>1. history' = [history EXCEPT !.late = late]
    BY <1>1 DEF RepairMigrate, Histories
  <2>2. users' = [u \in Users |-> IF ToBeMoved(u)
                                  THEN [users[u] EXCEPT !.role = MovedRole(labels[users[u].role])]
                                  ELSE users[u]]
    BY DEF RepairMigrate
  <2>3. QED
    BY <2>1, <2>2 DEF RepairMigrate
<1>3. late \in SUBSET Users
  BY <1>1 DEF Histories
<1> HIDE DEF late
<1>4. /\ history' \in Histories /\ history'.crossed = history.crossed /\ history'.late = late
      /\ history'.abdicated = history.abdicated
  BY <1>1, <1>2, <1>3 DEF Histories
<1>5. ASSUME NEW u \in Users
      PROVE  /\ users'[u] \in [role : Roles \cup {0}, active : BOOLEAN]
             /\ IF ToBeMoved(u)
                THEN /\ users'[u].role \in Roles /\ labels[users'[u].role] \in {"STAFF", "AGENT"}
                     /\ users'[u].active = users[u].active
                ELSE users'[u] = users[u]
  <2> DEFINE role == MovedRole(labels[users[u].role])
  <2>1. users[u] \in [role : Roles \cup {0}, active : BOOLEAN]
    BY <1>1, RolesTyped
  <2>2. role \in Roles /\ labels[role] \in {"STAFF", "AGENT"}
    <3>1. IsLabel("STAFF") /\ IsLabel("AGENT")
      BY <1>1 DEF LabelsHold, ROLE
    <3>2. QED
      BY <3>1, RoleNamedIs DEF MovedRole
  <2>3. users'[u] = IF ToBeMoved(u) THEN [users[u] EXCEPT !.role = role] ELSE users[u]
    BY <1>2
  <2> HIDE DEF role
  <2>4. QED
    BY <2>1, <2>2, <2>3
<1>6. users' \in [Users -> [role : Roles \cup {0}, active : BOOLEAN]]
  BY <1>2, <1>5
<1>7. QED
  BY <1>1, <1>2, <1>4, <1>5, <1>6 DEF UsersTyped, TypeOK, late

LEMMA MigrateKeeps ==
    ASSUME AccessInv, NEW s \in Sessions, RepairMigrate(s)
    PROVE  /\ AccessInv' /\ \A t \in Sessions \ {s} : Steady(t)
           /\ req'[s].at = "seeding"
           /\ ~req'[s].dirty => \A n \in Legacy : CanMove(n)
<1> DEFINE failed == \E n \in Legacy : ~CanMove(n)
<1>1. TypeOK /\ LabelsHold /\ ActiveExist
  BY DEF AccessInv
<1>2. req[s].at = "migrating" /\ Goes(s, "seeding", failed) /\ failed \in BOOLEAN
  BY DEF RepairMigrate
<1>3. /\ req' \in [Sessions -> Requests] /\ req'[s].at = "seeding"
      /\ req'[s].build = req[s].build /\ req'[s].dirty = (req[s].dirty \/ failed)
      /\ \A t \in Sessions \ {s} : req'[t] = req[t]
  <2> HIDE DEF failed
  <2>1. QED
    BY <1>1, <1>2, GoesIs DEF Steps
<1>4. /\ UsersTyped /\ UNCHANGED <<labels, matrix, recorded>>
      /\ history'.crossed = history.crossed
      /\ \A u \in Users :
            IF ToBeMoved(u)
            THEN /\ users'[u].role \in Roles /\ labels[users'[u].role] \in {"STAFF", "AGENT"}
                 /\ users'[u].active = users[u].active
            ELSE users'[u] = users[u]
  BY MigrateIs
<1>5. Roles' = Roles /\ LabelsHold' /\ \A n : KnownName(n)' = KnownName(n)
  BY <1>1, <1>4 DEF Roles, LabelsHold, IsLabel, KnownName
<1>6. TypeOK'
  BY <1>1, <1>3, <1>4, <1>5 DEF TypeOK, UsersTyped
<1>7. ActiveExist'
  BY <1>1, <1>4, RolesTyped DEF ActiveExist
<1>8. ASSUME NEW n, n \notin ROLE, NEW u \in Holders(n)' PROVE u \in Holders(n)
  <2>1. u \in Users /\ users'[u].role # 0 /\ labels[users'[u].role] = n
    BY <1>4 DEF Holders
  <2>2. ~ToBeMoved(u)
    BY <1>4, <1>8, <2>1 DEF ROLE
  <2>3. QED
    BY <1>4, <2>1, <2>2 DEF Holders
<1>9. ASSUME NEW t \in Sessions PROVE Asked(t)' /\ Crossing(t)'
  <2>1. Asked(t) /\ Crossing(t)
    BY DEF AccessInv
  <2>2. CASE t = s
    BY <1>2, <1>3, <2>1, <2>2 DEF Asked, Crossing, Unmarked, Assigning
  <2>3. CASE t # s
    <3>1. Asked(t)' /\ \A u \in Sessions : req'[u].at \in ChangingRoles => req[u].at \in ChangingRoles
      BY <1>3, <2>1, <2>3 DEF Asked, ChangingRoles
    <3>2. Unmarked(t)' => Unmarked(t) /\ KnownName(req[t].name)'
      BY <1>3, <1>5, <2>1, <2>3 DEF Unmarked, Crossing
    <3>3. req'[t].at = "deleting" => Holders(req[t].name)' \subseteq history'.crossed
      BY <1>3, <1>4, <1>8, <2>1, <2>3 DEF Asked, Crossing
    <3>4. QED
      BY <1>3, <2>1, <2>3, <3>1, <3>2, <3>3 DEF Crossing
  <2>4. QED
    BY <2>2, <2>3
<1>10. \A t \in Sessions \ {s} : Steady(t)
  BY <1>3 DEF Steady
<1>11. QED
  BY <1>3, <1>5, <1>6, <1>7, <1>9, <1>10 DEF AccessInv

-----------------------------------------------------------------------------
(* Every step, in classes. *)

LEMMA InitAccess == Init => AccessInv /\ AdminRemains /\ RolesInUseAreKnown /\ recorded = 0
<1> SUFFICES ASSUME Init PROVE AccessInv /\ AdminRemains /\ RolesInUseAreKnown /\ recorded = 0
  OBVIOUS
<1>1. /\ labels = Declared /\ matrix = {} /\ tokens = [u \in Users |-> "none"] /\ recorded = 0
      /\ req = [s \in Sessions |-> Idle] /\ begun = 0
      /\ history = [crossed |-> {}, late |-> {}, abdicated |-> FALSE]
  BY DEF Init
<1>2. /\ Len(labels) = 9 /\ Roles = 1..9
      /\ labels[1] = "OWNER" /\ labels[2] = "MANAGER" /\ labels[3] = "ADMIN"
      /\ labels[4] = "LOAN_OFFICER" /\ labels[5] = "COLLECTOR" /\ labels[6] = "VIEWER"
      /\ labels[7] = "AGENT" /\ labels[8] = "STAFF" /\ labels[9] = "CUSTOMER"
  BY <1>1 DEF Declared, Roles
<1>3. labels \in Seq(Names \cup ROLE \cup Legacy)
  <2>1. labels \in [1..9 -> ROLE \cup Legacy]
    BY <1>1, <1>2 DEF Declared, ROLE, Legacy
  <2>2. QED
    BY <1>1, <1>2, <2>1 DEF Declared, ROLE, Legacy
<1>4. LabelsHold
  <2>1. \A q, r \in Roles : labels[q] = labels[r] => q = r
    BY <1>2
  <2>2. \A n \in ROLE : IsLabel(n)
    BY <1>2 DEF ROLE, IsLabel
  <2>3. QED
    BY <2>1, <2>2 DEF LabelsHold
<1>5. RoleNamed("ADMIN") \in Roles /\ labels[RoleNamed("ADMIN")] = "ADMIN" /\ 0 \notin Roles
  BY <1>2, <1>4, RoleNamedIs DEF LabelsHold, ROLE
<1>6. PICK held \in [Users \ {Founder} -> {0} \cup {r \in Roles : labels[r] \in Legacy \cap Names}] :
         users = [u \in Users |->
                     IF u = Founder THEN [role |-> RoleNamed("ADMIN"), active |-> TRUE]
                     ELSE [role |-> held[u], active |-> held[u] # 0]]
  BY DEF Init
<1>7. /\ users[Founder].active /\ users[Founder].role = RoleNamed("ADMIN") /\ Founder \in Users
      /\ \A u \in Users : users[u] \in [role : Roles \cup {0}, active : BOOLEAN]
      /\ \A u \in Users : users[u].active => users[u].role # 0
      /\ \A u \in Users \ {Founder} : users[u].role # 0 => labels[users[u].role] \in Legacy
  BY <1>5, <1>6, AccessAssumption
<1>8. users \in [Users -> [role : Roles \cup {0}, active : BOOLEAN]]
  BY <1>6, <1>7
<1>9. TypeOK
  BY <1>1, <1>3, <1>8, IdleTyped, AccessAssumption DEF TypeOK, Histories
<1>10. \A s \in Sessions : Asked(s) /\ Crossing(s)
  BY <1>1, IdleTyped DEF Asked, Crossing, Unmarked, Assigning
<1>11. AdminRemains
  BY <1>5, <1>7 DEF AdminRemains, MayAdminister, USER_ADMIN_ROLES
<1>12. RolesInUseAreKnown
  BY <1>5, <1>7 DEF RolesInUseAreKnown, Known, ROLE
<1>13. QED
  BY <1>1, <1>4, <1>7, <1>9, <1>10, <1>11, <1>12 DEF AccessInv, ActiveExist

\* Steps of no consequence to the roles people hold.
Plain ==
    /\ \A t \in Sessions : Steady(t)
    /\ UNCHANGED <<labels, users, history>> /\ matrix \subseteq matrix'
    /\ UNCHANGED recorded \/ \E s \in Sessions : RepairRecord(s)

LEMMA StepsAre ==
    ASSUME AccessInv, [Next]_vars
    PROVE  \/ Plain /\ AccessInv'
           \/ \E s \in Sessions :
                 \/ RepairSeed(s)
                 \/ AddLabel(s) \/ RenameLabel(s) \/ DeleteRows(s)
                 \/ CreateInsert(s) /\ users[req[s].user].role = 0
                 \/ UpdateWrite(s) \/ RepairMigrate(s)
           \/ \E u \in Users, n \in Names : PlatformCreate(u, n)
           \/ \E a, u \in Users, active \in BOOLEAN : SetActive(a, u, active)
<1>1. CASE UNCHANGED vars \/ \E u \in Users : SignIn(u) \/ Expire(u)
  <2>1. UNCHANGED recorded
    BY <1>1 DEF vars, SignIn, Expire
  <2>2. QED
    BY <1>1, <2>1, TokensKeep DEF Plain
<1>2. ASSUME NEW s \in Sessions,
             \/ \E a, u \in Users, n \in Names : CreateRead(s, a, u, n) \/ UpdateRead(s, a, u, n)
             \/ \E a \in Users, n \in Names : AddRead(s, a, n) \/ DeleteRead(s, a, n) \/ AllowRead(s, a, n)
             \/ \E a \in Users, n, to \in Names : RenameRead(s, a, n, to)
             \/ \E b \in Builds : RepairBegin(s, b)
      PROVE  Plain /\ AccessInv'
  <2>1. PICK r \in Requests : Begin(s, r) /\ MayBegin(r)
    BY <1>2, ReadsBegin
  <2>2. UNCHANGED <<labels, matrix, users, recorded, history>>
    BY <2>1 DEF Begin
  <2>3. QED
    BY <2>1, <2>2, BeginKeeps DEF Plain
<1>3. ASSUME NEW s \in Sessions,
             \/ NameGone(s) \/ Dies(s) \/ AddRows(s) \/ AllowUpsert(s) \/ RepairRecord(s)
      PROVE  Plain /\ AccessInv'
  <2>1. UNCHANGED recorded \/ RepairRecord(s)
    BY <1>3 DEF NameGone, Dies, AddRows, AllowUpsert, NoWrite
  <2>2. QED
    BY <1>3, <2>1, EndsKeep DEF Plain
<1>4. ASSUME NEW s \in Sessions, RepairFails(s)
      PROVE  (Plain /\ AccessInv') \/ RepairSeed(s)
  BY <1>4, SeedingKeeps DEF Plain
<1>5. ASSUME NEW s \in Sessions, CreateInsert(s), users[req[s].user].role # 0
      PROVE  Plain /\ AccessInv'
  <2>1. Ends(s) /\ UNCHANGED <<users, history, labels, matrix, tokens, recorded, begun>>
    BY <1>5 DEF CreateInsert
  <2>2. matrix' \subseteq Roles /\ recorded' \in Builds \cup {0}
    BY <2>1 DEF AccessInv, TypeOK
  <2>3. QED
    BY <2>1, <2>2, EndKeeps DEF Plain
<1>6. QED
  BY <1>1, <1>2, <1>3, <1>4, <1>5 DEF Next

LEMMA NextAccess == ASSUME AccessInv, [Next]_vars PROVE AccessInv'
<1>1. ASSUME NEW s \in Sessions,
             \/ RepairSeed(s)
             \/ AddLabel(s) \/ RenameLabel(s) \/ DeleteRows(s)
             \/ CreateInsert(s) /\ users[req[s].user].role = 0
             \/ UpdateWrite(s) \/ RepairMigrate(s)
      PROVE  AccessInv'
  <2>1. CASE RepairSeed(s) \/ RepairMigrate(s)
    BY <2>1, SeedingKeeps, MigrateKeeps
  <2>2. CASE AddLabel(s) \/ RenameLabel(s) \/ DeleteRows(s)
    BY <2>2, AddLabelKeeps, RenameLabelKeeps, DeleteRowsKeeps
  <2>3. CASE UpdateWrite(s)
    BY <2>3, UpdateGives, GivesKeeps
  <2>4. CASE CreateInsert(s) /\ users[req[s].user].role = 0
    BY <2>4, CreateGives, GivesKeeps
  <2>5. QED
    BY <1>1, <2>1, <2>2, <2>3, <2>4
<1>2. ASSUME NEW u \in Users, NEW n \in Names, PlatformCreate(u, n) PROVE AccessInv'
  BY <1>2, PlatformGives, GivesKeeps
<1>3. ASSUME NEW a \in Users, NEW u \in Users, NEW active \in BOOLEAN, SetActive(a, u, active)
      PROVE  AccessInv'
  BY <1>3, SetActiveKeeps
<1>4. QED
  BY <1>1, <1>2, <1>3, StepsAre

(***************************************************************************)
(* The inductive invariant: whatever handlers overlap, fail in part or     *)
(* die, no two roles come to have one name, and what a request has read is *)
(* good for what AccessInv says it is.                                     *)
(***************************************************************************)
THEOREM AccessInvariant == Spec => []AccessInv
<1>1. Init => AccessInv
  BY InitAccess
<1>2. AccessInv /\ [Next]_vars => AccessInv'
  BY NextAccess
<1>3. QED
  BY <1>1, <1>2, PTL DEF Spec

(***************************************************************************)
(* Type correctness.                                                       *)
(***************************************************************************)
THEOREM AccessTypeCorrect == Spec => []TypeOK
<1>1. AccessInv => TypeOK
  BY DEF AccessInv
<1>2. QED
  BY <1>1, AccessInvariant, PTL

-----------------------------------------------------------------------------
(* The administrator. *)

(***************************************************************************)
(* A tenant keeps someone who can administer it as long as nobody gives up *)
(* his own role and nobody acts on a token that is out of date: no         *)
(* renaming, no deletion and no repair takes an administrator's role away. *)
(***************************************************************************)
THEOREM AnAdminRemains == Spec => []AdminRemains
<1>1. ASSUME AccessInv, AdminRemains, [Next]_vars
      PROVE  AdminRemains'
  <2> SUFFICES ASSUME ~history'.abdicated PROVE \E v \in Users : MayAdminister(v)'
    BY DEF AdminRemains
  <2>1. TypeOK /\ LabelsHold /\ ActiveExist
    BY <1>1 DEF AccessInv
  <2>2. \A v \in Users : MayAdminister(v) =>
            /\ users[v].active /\ users[v].role \in Roles
            /\ labels[users[v].role] \in USER_ADMIN_ROLES
    BY <2>1, RolesTyped DEF MayAdminister, ActiveExist
  <2>3. USER_ADMIN_ROLES \subseteq ROLE /\ USER_ADMIN_ROLES \cap Legacy = {}
    BY DEF USER_ADMIN_ROLES, ROLE, Legacy
  <2>4. ASSUME history'.abdicated = history.abdicated
        PROVE  \E v \in Users : MayAdminister(v)
    BY <1>1, <2>4 DEF AdminRemains
  <2>5. CASE Plain
    BY <1>1, <2>5, SameRoles DEF Plain, AdminRemains
  <2>6. ASSUME NEW s \in Sessions, RepairSeed(s) \/ DeleteRows(s)
        PROVE  \E v \in Users : MayAdminister(v)'
    BY <2>4, <2>6 DEF RepairSeed, DeleteRows, MayAdminister
  <2>7. ASSUME NEW s \in Sessions, AddLabel(s)
        PROVE  \E v \in Users : MayAdminister(v)'
    <3>1. UNCHANGED <<users, history>> /\ \A r \in Roles : labels'[r] = labels[r]
      BY <1>1, <2>7, AddLabelIs
    <3>2. PICK v \in Users : MayAdminister(v)
      BY <2>4, <3>1
    <3>3. QED
      BY <2>2, <3>1, <3>2 DEF MayAdminister
  <2>8. ASSUME NEW s \in Sessions, RenameLabel(s)
        PROVE  \E v \in Users : MayAdminister(v)'
    <3> DEFINE q == RoleNamed(req[s].name)
    <3>1. /\ labels[q] \notin ROLE /\ history'.abdicated = history.abdicated
          /\ \A r \in Roles \ {q} : labels'[r] = labels[r]
      BY <1>1, <2>8, RenameIs
    <3>2. UNCHANGED users
      BY <2>8 DEF RenameLabel
    <3> HIDE DEF q
    <3>3. PICK v \in Users : MayAdminister(v)
      BY <2>4, <3>1
    <3>4. users[v].role \in Roles \ {q}
      BY <2>2, <2>3, <3>1, <3>3
    <3>5. QED
      BY <2>2, <3>1, <3>2, <3>3, <3>4 DEF MayAdminister
  <2>9. ASSUME NEW u \in Users, users[u].role = 0, NEW n, Gives(u, n),
               history'.abdicated = history.abdicated
        PROVE  \E v \in Users : MayAdminister(v)'
    <3>1. PICK v \in Users : MayAdminister(v)
      BY <2>4, <2>9
    <3>2. v # u
      BY <2>1, <2>2, <2>9, <3>1, RolesTyped
    <3>3. users'[v] = users[v] /\ labels' = labels
      BY <2>9, <3>2 DEF Gives
    <3>4. QED
      BY <3>1, <3>3 DEF MayAdminister
  <2>10. ASSUME NEW s \in Sessions, UpdateWrite(s)
         PROVE  \E v \in Users : MayAdminister(v)'
    <3> DEFINE role == RoleNamed(req[s].name)
    <3>1. PICK a \in Users, u \in Users :
             /\ a = req[s].actor /\ u = req[s].user /\ Gives(u, req[s].name)
             /\ history'.abdicated = (history.abdicated \/ Abdicates(a, u, role))
             /\ users'[u].active = users[u].active
      BY <1>1, <2>10, UpdateGives
    <3>2. /\ users'[u].role = role /\ labels' = labels
          /\ \A v \in Users \ {u} : users'[v] = users[v]
      BY <3>1 DEF Gives
    <3> HIDE DEF role
    <3>3. MayAdminister(a) /\ (a = u => labels[role] \in USER_ADMIN_ROLES)
      BY <3>1 DEF Abdicates
    <3>4. MayAdminister(a)'
      BY <3>1, <3>2, <3>3 DEF MayAdminister
    <3>5. QED
      BY <3>1, <3>4
  <2>11. ASSUME NEW s \in Sessions, RepairMigrate(s)
         PROVE  \E v \in Users : MayAdminister(v)'
    <3>1. /\ history'.abdicated = history.abdicated /\ labels' = labels
          /\ \A v \in Users : ~ToBeMoved(v) => users'[v] = users[v]
      BY <1>1, <2>11, MigrateIs
    <3>2. PICK v \in Users : MayAdminister(v)
      BY <2>4, <3>1
    <3>3. ~ToBeMoved(v)
      BY <2>2, <2>3, <3>2 DEF ToBeMoved
    <3>4. QED
      BY <3>1, <3>2, <3>3 DEF MayAdminister
  <2>12. ASSUME NEW a \in Users, NEW u \in Users, NEW active \in BOOLEAN, SetActive(a, u, active)
         PROVE  \E v \in Users : MayAdminister(v)'
    <3>1. /\ a # u /\ \A v \in Users \ {u} : users'[v] = users[v]
          /\ history'.abdicated = (history.abdicated \/ ~MayAdminister(a))
          /\ labels' = labels
      BY <1>1, <2>12, SetActiveIs
    <3>2. MayAdminister(a)
      BY <3>1
    <3>3. MayAdminister(a)'
      BY <3>1, <3>2 DEF MayAdminister
    <3>4. QED
      BY <3>3
  <2>13. ASSUME NEW u \in Users, NEW n \in Names, PlatformCreate(u, n)
         PROVE  \E v \in Users : MayAdminister(v)'
    BY <1>1, <2>9, <2>13, PlatformGives
  <2>14. ASSUME NEW s \in Sessions, CreateInsert(s), users[req[s].user].role = 0
         PROVE  \E v \in Users : MayAdminister(v)'
    BY <1>1, <2>9, <2>14, CreateGives
  <2>15. QED
    BY <1>1, <2>5, <2>6, <2>7, <2>8, <2>10, <2>11, <2>12, <2>13, <2>14, StepsAre
<1>2. QED
  BY <1>1, InitAccess, AccessInvariant, PTL DEF Spec

-----------------------------------------------------------------------------
(* The roles in use. *)

\* The role of u is one the property allows.
KnownFor(u) ==
    users[u].role # 0 =>
        \/ Known(users[u].role)
        \/ labels[users[u].role] \in Legacy
        \/ u \in history.crossed

LEMMA GivenIsKnown ==
    ASSUME AccessInv, RolesInUseAreKnown, NEW u \in Users, NEW n, Gives(u, n)
    PROVE  RolesInUseAreKnown'
<1>1. /\ IsLabel(n) /\ users'[u].role = RoleNamed(n)
      /\ \A v \in Users \ {u} : /\ users'[v] = users[v]
                                /\ v \in history'.crossed <=> v \in history.crossed
      /\ u \in history'.crossed \/ KnownName(n) \/ n \in Legacy
      /\ UNCHANGED <<labels, matrix>>
  BY DEF Gives
<1>2. RoleNamed(n) \in Roles /\ labels[RoleNamed(n)] = n
  BY <1>1, RoleNamedIs
<1>3. KnownName(n) => Known(RoleNamed(n))
  <2>1. ASSUME NEW r \in matrix, labels[r] = n PROVE r = RoleNamed(n)
    BY <1>2, <2>1 DEF AccessInv, TypeOK, LabelsHold
  <2>2. QED
    BY <1>2, <2>1 DEF KnownName, Known
<1>4. KnownFor(u)'
  BY <1>1, <1>2, <1>3 DEF KnownFor, Known
<1>5. ASSUME NEW v \in Users \ {u} PROVE KnownFor(v)'
  BY <1>1 DEF KnownFor, Known, RolesInUseAreKnown
<1>6. QED
  BY <1>4, <1>5 DEF RolesInUseAreKnown, KnownFor

(***************************************************************************)
(* A role somebody holds is built in, or has rows in the matrix, or is an  *)
(* old one, unless it was given to him, or renamed, while the roles were   *)
(* being changed: a deletion sees everybody who holds the role, but those  *)
(* who came to hold it since it looked.                                    *)
(***************************************************************************)
THEOREM RolesStayKnown == Spec => []RolesInUseAreKnown
<1>1. ASSUME AccessInv, RolesInUseAreKnown, [Next]_vars
      PROVE  RolesInUseAreKnown'
  <2>1. TypeOK /\ LabelsHold /\ \A u \in Users : KnownFor(u)
    BY <1>1 DEF AccessInv, RolesInUseAreKnown, KnownFor
  <2>2. \A u \in Users : users[u].role \in Roles \cup {0}
    BY <2>1, RolesTyped
  <2>3. CASE Plain
    BY <1>1, <2>3, SameRoles DEF Plain
  <2>4. ASSUME NEW s \in Sessions, RepairSeed(s) PROVE RolesInUseAreKnown'
    BY <1>1, <2>4, SeedingKeeps, SameRoles
  <2>5. ASSUME NEW s \in Sessions, AddLabel(s) PROVE RolesInUseAreKnown'
    <3>1. UNCHANGED <<matrix, users, history>> /\ \A r \in Roles : labels'[r] = labels[r]
      BY <1>1, <2>5, AddLabelIs
    <3>2. ASSUME NEW u \in Users PROVE KnownFor(u)'
      BY <2>1, <2>2, <3>1 DEF KnownFor, Known
    <3>3. QED
      BY <3>2 DEF RolesInUseAreKnown, KnownFor
  <2>6. ASSUME NEW s \in Sessions, RenameLabel(s) PROVE RolesInUseAreKnown'
    <3> DEFINE q == RoleNamed(req[s].name)
    <3>1. /\ q \in Roles /\ labels[q] = req[s].name /\ req[s].name \notin ROLE
          /\ Roles' = Roles /\ \A r \in Roles \ {q} : labels'[r] = labels[r]
          /\ history'.crossed = IF req[s].dirty THEN history.crossed \cup Holders(req[s].name)
                                ELSE history.crossed
      BY <1>1, <2>6, RenameIs
    <3>2. UNCHANGED <<users, matrix>> /\ req[s].at = "renaming"
      BY <2>6 DEF RenameLabel
    <3>3. ~req[s].dirty => q \in matrix
      <4>1. ~req[s].dirty => KnownName(req[s].name)
        BY <1>1, <3>2 DEF AccessInv, Crossing, Unmarked
      <4>2. \A r \in matrix : labels[r] = req[s].name => r = q
        BY <2>1, <3>1 DEF TypeOK, LabelsHold
      <4>3. QED
        BY <3>1, <4>1, <4>2 DEF KnownName
    <3> HIDE DEF q
    <3>4. ASSUME NEW u \in Users PROVE KnownFor(u)'
      <4>1. CASE users[u].role = q
        <5>1. q # 0
          BY <2>1, <3>1, RolesTyped
        <5>2. u \in Holders(req[s].name)
          BY <3>1, <4>1, <5>1 DEF Holders
        <5>3. QED
          BY <3>1, <3>2, <3>3, <4>1, <5>2 DEF KnownFor, Known
      <4>2. CASE users[u].role # q
        BY <2>1, <2>2, <3>1, <3>2, <4>2 DEF KnownFor, Known
      <4>3. QED
        BY <4>1, <4>2
    <3>5. QED
      BY <3>4 DEF RolesInUseAreKnown, KnownFor
  <2>7. ASSUME NEW s \in Sessions, DeleteRows(s) PROVE RolesInUseAreKnown'
    <3> DEFINE q == RoleNamed(req[s].name)
    <3>1. /\ req[s].at = "deleting" /\ IsLabel(req[s].name)
          /\ matrix' = matrix \ {q} /\ UNCHANGED <<labels, users, history>>
      BY <2>7 DEF DeleteRows
    <3>2. labels[q] = req[s].name
      BY <3>1, RoleNamedIs
    <3>3. Holders(req[s].name) \subseteq history.crossed
      BY <1>1, <3>1 DEF AccessInv, Crossing
    <3> HIDE DEF q
    <3>4. ASSUME NEW u \in Users PROVE KnownFor(u)'
      <4>1. CASE users[u].role = q /\ users[u].role # 0
        <5>1. u \in Holders(req[s].name)
          BY <3>2, <4>1 DEF Holders
        <5>2. QED
          BY <3>1, <3>3, <5>1 DEF KnownFor
      <4>2. CASE users[u].role # q \/ users[u].role = 0
        BY <2>1, <3>1, <4>2 DEF KnownFor, Known
      <4>3. QED
        BY <4>1, <4>2
    <3>5. QED
      BY <3>4 DEF RolesInUseAreKnown, KnownFor
  <2>8. ASSUME NEW s \in Sessions, RepairMigrate(s) PROVE RolesInUseAreKnown'
    <3>1. /\ UNCHANGED <<labels, matrix>> /\ history'.crossed = history.crossed
          /\ \A u \in Users : IF ToBeMoved(u) THEN labels[users'[u].role] \in {"STAFF", "AGENT"}
                              ELSE users'[u] = users[u]
      BY <1>1, <2>8, MigrateIs
    <3>2. ASSUME NEW u \in Users PROVE KnownFor(u)'
      <4>1. CASE ToBeMoved(u)
        BY <3>1, <4>1 DEF KnownFor, Known, ROLE
      <4>2. CASE ~ToBeMoved(u)
        BY <2>1, <3>1, <4>2 DEF KnownFor, Known
      <4>3. QED
        BY <4>1, <4>2
    <3>3. QED
      BY <3>2 DEF RolesInUseAreKnown, KnownFor
  <2>9. ASSUME NEW a \in Users, NEW u \in Users, NEW active \in BOOLEAN, SetActive(a, u, active)
        PROVE  RolesInUseAreKnown'
    <3>1. /\ \A v \in Users : users'[v].role = users[v].role
          /\ history'.crossed = history.crossed /\ UNCHANGED <<labels, matrix>>
      BY <1>1, <2>9, SetActiveIs
    <3>2. \A v \in Users : KnownFor(v)'
      BY <2>1, <3>1 DEF KnownFor, Known
    <3>3. QED
      BY <3>2 DEF RolesInUseAreKnown, KnownFor
  <2>10. ASSUME NEW u \in Users, NEW n \in Names, PlatformCreate(u, n) PROVE RolesInUseAreKnown'
    BY <1>1, <2>10, PlatformGives, GivenIsKnown
  <2>11. ASSUME NEW s \in Sessions, UpdateWrite(s) PROVE RolesInUseAreKnown'
    BY <1>1, <2>11, UpdateGives, GivenIsKnown
  <2>12. ASSUME NEW s \in Sessions, CreateInsert(s), users[req[s].user].role = 0
         PROVE  RolesInUseAreKnown'
    BY <1>1, <2>12, CreateGives, GivenIsKnown
  <2>13. QED
    BY <1>1, <2>3, <2>4, <2>5, <2>6, <2>7, <2>8, <2>9, <2>10, <2>11, <2>12, StepsAre
<1>2. QED
  BY <1>1, InitAccess, AccessInvariant, PTL DEF Spec

-----------------------------------------------------------------------------
(* The repair of the schema. *)

(* What a repair has established stays so if the step takes nothing of it. *)
LEMMA CurrentKept ==
    ASSUME \A t \in Sessions : Repairing(t) /\ Steady(t), RepairedSchemaIsCurrent,
           recorded' # 0 =>
              recorded # 0 \/ \E t \in Sessions : req[t].at = "recording" /\ ~req[t].dirty,
           Migrated /\ LegacyLeft => LegacyLeft',
           BuiltIn \subseteq matrix => BuiltIn' \subseteq matrix'
    PROVE  (\A t \in Sessions : Repairing(t)') /\ RepairedSchemaIsCurrent'
<1>1. ASSUME NEW t \in Sessions PROVE Repairing(t)'
  BY DEF Repairing, Steady, Migrated
<1>2. ASSUME recorded' # 0 PROVE LegacyLeft' /\ BuiltIn' \subseteq matrix'
  <2>1. CASE recorded # 0
    BY <2>1 DEF RepairedSchemaIsCurrent, LegacyLeft, HoldsLegacy, Migrated
  <2>2. CASE \E t \in Sessions : req[t].at = "recording" /\ ~req[t].dirty
    BY <2>2 DEF Repairing, Migrated
  <2>3. QED
    BY <1>2, <2>1, <2>2
<1>3. RepairedSchemaIsCurrent'
  BY <1>2 DEF RepairedSchemaIsCurrent, LegacyLeft, HoldsLegacy
<1>4. QED
  BY <1>1, <1>3

\* User u is in no old role without a reason.
LeftFor(u) ==
    HoldsLegacy(u) => u \in history.late \cup history.crossed \/ users[u].role \in matrix

LEMMA GivenIsCurrent ==
    ASSUME AccessInv, Migrated, LegacyLeft, NEW u \in Users, NEW n, Gives(u, n)
    PROVE  LegacyLeft'
<1>1. /\ IsLabel(n) /\ users'[u].role = RoleNamed(n)
      /\ \A v \in Users \ {u} : /\ users'[v] = users[v]
                                /\ v \in history'.crossed <=> v \in history.crossed
                                /\ v \in history'.late <=> v \in history.late
      /\ u \in history'.crossed \/ KnownName(n) \/ u \in history'.late
      /\ UNCHANGED <<labels, matrix>>
  BY DEF Gives
<1>2. RoleNamed(n) \in Roles /\ labels[RoleNamed(n)] = n
  BY <1>1, RoleNamedIs
<1>3. KnownName(n) => n \notin Legacy \/ RoleNamed(n) \in matrix
  <2>1. ASSUME NEW r \in matrix, labels[r] = n PROVE r = RoleNamed(n)
    BY <1>2, <2>1 DEF AccessInv, TypeOK, LabelsHold
  <2>2. QED
    BY <1>2, <2>1 DEF KnownName, ROLE, Legacy
<1>4. LeftFor(u)'
  BY <1>1, <1>2, <1>3 DEF LeftFor, HoldsLegacy
<1>5. ASSUME NEW v \in Users \ {u} PROVE LeftFor(v)'
  BY <1>1 DEF LeftFor, LegacyLeft, HoldsLegacy
<1>6. QED
  BY <1>4, <1>5 DEF LegacyLeft, LeftFor

LEMMA AddLabelCurrent ==
    ASSUME AccessInv, LegacyLeft, NEW s \in Sessions, AddLabel(s)
    PROVE  LegacyLeft'
<1>1. UNCHANGED <<matrix, users, history>> /\ \A r \in Roles : labels'[r] = labels[r]
  BY AddLabelIs
<1>2. \A u \in Users : users[u].role \in Roles \cup {0}
  BY RolesTyped DEF AccessInv
<1>3. ASSUME NEW u \in Users PROVE LeftFor(u)'
  BY <1>1, <1>2 DEF LeftFor, LegacyLeft, HoldsLegacy
<1>4. QED
  BY <1>3 DEF LegacyLeft, LeftFor

LEMMA RenameLabelCurrent ==
    ASSUME AccessInv, NEW s \in Sessions, RenameLabel(s)
    PROVE  (LegacyLeft => LegacyLeft') /\ BuiltIn' = BuiltIn
<1> DEFINE q == RoleNamed(req[s].name)
<1>1. /\ q \in Roles /\ labels[q] = req[s].name /\ req[s].name \notin ROLE
      /\ req[s].to \notin ROLE /\ labels'[q] = req[s].to
      /\ Roles' = Roles /\ \A r \in Roles \ {q} : labels'[r] = labels[r]
      /\ history'.crossed = IF req[s].dirty THEN history.crossed \cup Holders(req[s].name)
                            ELSE history.crossed
      /\ history'.late = history.late
  BY RenameIs
<1>2. UNCHANGED <<users, matrix>> /\ req[s].at = "renaming"
  BY DEF RenameLabel
<1>3. TypeOK /\ LabelsHold /\ \A u \in Users : users[u].role \in Roles \cup {0}
  BY RolesTyped DEF AccessInv
<1>4. ~req[s].dirty => q \in matrix
  <2>1. ~req[s].dirty => KnownName(req[s].name)
    BY <1>2 DEF AccessInv, Crossing, Unmarked
  <2>2. \A r \in matrix : labels[r] = req[s].name => r = q
    BY <1>1, <1>3 DEF TypeOK, LabelsHold
  <2>3. QED
    BY <1>1, <2>1, <2>2 DEF KnownName
<1> HIDE DEF q
<1>5. ASSUME LegacyLeft, NEW u \in Users PROVE LeftFor(u)'
  <2>1. CASE users[u].role = q
    <3>1. q # 0
      BY <1>1, <1>3, RolesTyped
    <3>2. u \in Holders(req[s].name)
      BY <1>1, <2>1, <3>1 DEF Holders
    <3>3. QED
      BY <1>1, <1>2, <1>4, <2>1, <3>2 DEF LeftFor
  <2>2. CASE users[u].role # q
    BY <1>1, <1>2, <1>3, <1>5, <2>2 DEF LeftFor, LegacyLeft, HoldsLegacy
  <2>3. QED
    BY <2>1, <2>2
<1>6. BuiltIn' = BuiltIn
  BY <1>1 DEF BuiltIn
<1>7. QED
  BY <1>5, <1>6 DEF LegacyLeft, LeftFor

LEMMA DeleteRowsCurrent ==
    ASSUME AccessInv, NEW s \in Sessions, DeleteRows(s)
    PROVE  /\ LegacyLeft => LegacyLeft'
           /\ BuiltIn \subseteq matrix => BuiltIn' \subseteq matrix'
<1> DEFINE q == RoleNamed(req[s].name)
<1>1. /\ req[s].at = "deleting" /\ IsLabel(req[s].name)
      /\ matrix' = matrix \ {q} /\ UNCHANGED <<labels, users, history>>
  BY DEF DeleteRows
<1>2. labels[q] = req[s].name /\ req[s].name \notin ROLE
  BY <1>1, RoleNamedIs DEF AccessInv, Asked
<1>3. Holders(req[s].name) \subseteq history.crossed
  BY <1>1 DEF AccessInv, Crossing
<1> HIDE DEF q
<1>4. ASSUME LegacyLeft, NEW u \in Users PROVE LeftFor(u)'
  <2>1. CASE users[u].role = q /\ users[u].role # 0
    <3>1. u \in Holders(req[s].name)
      BY <1>2, <2>1 DEF Holders
    <3>2. QED
      BY <1>1, <1>3, <3>1 DEF LeftFor
  <2>2. CASE users[u].role # q \/ users[u].role = 0
    BY <1>1, <1>4, <2>2 DEF LeftFor, LegacyLeft, HoldsLegacy
  <2>3. QED
    BY <2>1, <2>2
<1>5. BuiltIn' = BuiltIn /\ q \notin BuiltIn
  BY <1>1, <1>2 DEF BuiltIn, Roles
<1>6. QED
  BY <1>1, <1>4, <1>5 DEF LegacyLeft, LeftFor

LEMMA MigrateCurrent ==
    ASSUME AccessInv, NEW s \in Sessions, RepairMigrate(s)
    PROVE  /\ LegacyLeft => LegacyLeft'
           /\ BuiltIn' = BuiltIn
           /\ (\A n \in Legacy : CanMove(n)) => LegacyLeft'
<1>1. /\ UNCHANGED <<labels, matrix>> /\ history'.crossed = history.crossed
      /\ history'.late = {u \in history.late : ~ToBeMoved(u)}
      /\ \A u \in Users : IF ToBeMoved(u) THEN labels[users'[u].role] \in {"STAFF", "AGENT"}
                          ELSE users'[u] = users[u]
  BY MigrateIs
<1>2. ASSUME NEW u \in Users, HoldsLegacy(u)'
      PROVE  ~ToBeMoved(u) /\ HoldsLegacy(u) /\ users'[u] = users[u]
  <2>1. ~ToBeMoved(u)
    BY <1>1, <1>2 DEF HoldsLegacy, Legacy
  <2>2. QED
    BY <1>1, <1>2, <2>1 DEF HoldsLegacy
<1>3. LegacyLeft => LegacyLeft'
  BY <1>1, <1>2 DEF LegacyLeft
<1>4. (\A n \in Legacy : CanMove(n)) => LegacyLeft'
  BY <1>2 DEF LegacyLeft, HoldsLegacy, ToBeMoved
<1>5. BuiltIn' = BuiltIn
  BY <1>1 DEF BuiltIn, Roles
<1>6. QED
  BY <1>3, <1>4, <1>5

(***************************************************************************)
(* A schema whose repair was recorded needs none, however repairs of       *)
(* several builds overlap, fail in part or die: what a pass that has not   *)
(* failed yet has established stays so until it is recorded, and after.    *)
(***************************************************************************)
THEOREM RepairedStaysCurrent == Spec => []RepairedSchemaIsCurrent
<1> DEFINE Done == (\A t \in Sessions : Repairing(t)) /\ RepairedSchemaIsCurrent
<1>1. Init => Done
  <2>1. Init => \A t \in Sessions : req[t].at = "idle"
    BY IdleTyped DEF Init
  <2>2. QED
    BY <2>1, InitAccess DEF Repairing, RepairedSchemaIsCurrent
<1>2. ASSUME AccessInv, Done, [Next]_vars
      PROVE  Done'
  <2>1. CASE Plain
    <3>1. recorded' # 0 =>
             recorded # 0 \/ \E t \in Sessions : req[t].at = "recording" /\ ~req[t].dirty
      BY <2>1 DEF Plain, RepairRecord, Clean
    <3>2. (LegacyLeft => LegacyLeft') /\ (BuiltIn \subseteq matrix => BuiltIn' \subseteq matrix')
      BY <2>1, SameRoles DEF Plain
    <3>3. \A t \in Sessions : Steady(t)
      BY <2>1 DEF Plain
    <3>4. QED
      BY <1>2, <3>1, <3>2, <3>3, CurrentKept
  <2>2. ASSUME NEW s \in Sessions, RepairSeed(s) PROVE Done'
    <3>1. /\ \A t \in Sessions \ {s} : Steady(t)
          /\ UNCHANGED <<labels, users, history, recorded>> /\ matrix \subseteq matrix'
      BY <1>2, <2>2, SeedingKeeps
    <3>2. BuiltIn' = BuiltIn /\ BuiltIn' \subseteq matrix' /\ (LegacyLeft => LegacyLeft')
      BY <2>2, <3>1, SameRoles DEF RepairSeed
    <3>3. req[s].at = "seeding" /\ req'[s].dirty = req[s].dirty
      <4>1. Goes(s, "recording", FALSE) /\ req[s].at = "seeding" /\ TypeOK
        BY <1>2, <2>2 DEF RepairSeed, AccessInv
      <4>2. req'[s].dirty = (req[s].dirty \/ FALSE) /\ req[s].dirty \in BOOLEAN
        BY <4>1, GoesIs DEF Steps, TypeOK, Requests
      <4>3. QED
        BY <4>1, <4>2
    <3>4. Repairing(s)'
      BY <1>2, <3>2, <3>3 DEF Repairing
    <3>5. \A t \in Sessions \ {s} : Repairing(t)'
      BY <1>2, <3>1, <3>2 DEF Repairing, Steady
    <3>6. RepairedSchemaIsCurrent'
      BY <1>2, <3>1, <3>2 DEF RepairedSchemaIsCurrent, LegacyLeft, HoldsLegacy
    <3>7. QED
      BY <3>4, <3>5, <3>6
  <2>3. ASSUME NEW s \in Sessions, AddLabel(s) \/ RenameLabel(s) \/ DeleteRows(s) PROVE Done'
    <3>1. \A t \in Sessions : Steady(t)
      BY <1>2, <2>3, AddLabelKeeps, RenameLabelKeeps, DeleteRowsKeeps
    <3>2. /\ LegacyLeft => LegacyLeft'
          /\ BuiltIn \subseteq matrix => BuiltIn' \subseteq matrix'
      <4>1. CASE AddLabel(s)
        BY <1>2, <4>1, AddLabelCurrent, AddLabelIs
      <4>2. CASE RenameLabel(s)
        BY <1>2, <4>2, RenameLabelCurrent DEF RenameLabel
      <4>3. CASE DeleteRows(s)
        BY <1>2, <4>3, DeleteRowsCurrent
      <4>4. QED
        BY <2>3, <4>1, <4>2, <4>3
    <3>3. UNCHANGED recorded
      BY <2>3 DEF AddLabel, RenameLabel, DeleteRows
    <3>4. QED
      BY <1>2, <3>1, <3>2, <3>3, CurrentKept
  <2>4. ASSUME NEW u \in Users, NEW n, Gives(u, n), \A t \in Sessions : Steady(t) PROVE Done'
    <3>1. UNCHANGED <<labels, matrix, recorded>>
      BY <2>4 DEF Gives
    <3>2. BuiltIn' = BuiltIn
      BY <3>1 DEF BuiltIn, Roles
    <3>3. Migrated /\ LegacyLeft => LegacyLeft'
      BY <1>2, <2>4, GivenIsCurrent
    <3>4. QED
      BY <1>2, <2>4, <3>1, <3>2, <3>3, CurrentKept
  <2>5. ASSUME NEW s \in Sessions, UpdateWrite(s) PROVE Done'
    BY <1>2, <2>4, <2>5, UpdateGives, GivesKeeps
  <2>6. ASSUME NEW s \in Sessions, CreateInsert(s), users[req[s].user].role = 0 PROVE Done'
    BY <1>2, <2>4, <2>6, CreateGives, GivesKeeps
  <2>7. ASSUME NEW u \in Users, NEW n \in Names, PlatformCreate(u, n) PROVE Done'
    BY <1>2, <2>4, <2>7, PlatformGives, GivesKeeps
  <2>8. ASSUME NEW a \in Users, NEW u \in Users, NEW active \in BOOLEAN, SetActive(a, u, active)
        PROVE  Done'
    <3>1. /\ \A v \in Users : users'[v].role = users[v].role
          /\ history'.crossed = history.crossed /\ history'.late = history.late
          /\ UNCHANGED <<labels, matrix, recorded>>
      BY <1>2, <2>8, SetActiveIs
    <3>2. (LegacyLeft => LegacyLeft') /\ BuiltIn' = BuiltIn
      BY <3>1 DEF LegacyLeft, HoldsLegacy, BuiltIn, Roles
    <3>3. \A t \in Sessions : Steady(t)
      BY <1>2, <2>8, SetActiveKeeps
    <3>4. QED
      BY <1>2, <3>1, <3>2, <3>3, CurrentKept
  <2>9. ASSUME NEW s \in Sessions, RepairMigrate(s) PROVE Done'
    <3>1. /\ \A t \in Sessions \ {s} : Steady(t)
          /\ req'[s].at = "seeding" /\ (~req'[s].dirty => \A n \in Legacy : CanMove(n))
          /\ UNCHANGED <<labels, matrix, recorded>>
      BY <1>2, <2>9, MigrateKeeps, MigrateIs
    <3>2. /\ LegacyLeft => LegacyLeft'
          /\ BuiltIn' = BuiltIn
          /\ (\A n \in Legacy : CanMove(n)) => LegacyLeft'
      BY <1>2, <2>9, MigrateCurrent
    <3>3. Repairing(s)'
      BY <3>1, <3>2 DEF Repairing
    <3>4. \A t \in Sessions \ {s} : Repairing(t)'
      BY <1>2, <3>1, <3>2 DEF Repairing, Steady
    <3>5. RepairedSchemaIsCurrent'
      BY <1>2, <3>1, <3>2 DEF RepairedSchemaIsCurrent, LegacyLeft, HoldsLegacy
    <3>6. QED
      BY <3>3, <3>4, <3>5
  <2>10. QED
    <3> HIDE DEF Done
    <3>1. QED
      BY <1>2, <2>1, <2>2, <2>3, <2>5, <2>6, <2>7, <2>8, <2>9, StepsAre
<1>3. QED
  BY <1>1, <1>2, AccessInvariant, PTL DEF Spec

-----------------------------------------------------------------------------
(* Tenants: the inductive invariant, and that every step keeps it. *)

\* What is logged in to, or may be again, is provisioned unless it was suspended early.
Provisioned(t) == schema[t] = "complete" \/ t \in suspendedEarly

StandingAreProvisioned ==
    \A t \in Tenants : tenants[t] \in {"ACTIVE", "SUSPENDED"} => Provisioned(t)

\* And so is the tenant of a request that will make it ACTIVE or SUSPENDED.
AskedAreProvisioned ==
    \A a \in Admins : ops[a].at \in {"provisioned", "suspending", "reactivating"} =>
        Provisioned(ops[a].tenant)

TenantInv == TenantTypeOK /\ StandingAreProvisioned /\ AskedAreProvisioned

(* What a session without a request has for one.                           *)
LEMMA NoRequestTyped == NoRequest \in Ops
BY TenantLifecycleAssumption DEF NoRequest, Ops, Stages

(* A request that is set to something typed leaves the requests typed.     *)
LEMMA OpsTyped ==
    ASSUME ops \in [Admins -> Ops], NEW a \in Admins, NEW op \in Ops, ops' = [ops EXCEPT ![a] = op]
    PROVE  /\ ops' \in [Admins -> Ops] /\ ops'[a] = op
           /\ \A b \in Admins \ {a} : ops'[b] = ops[b]
OBVIOUS

(* What a step of one request does to the invariant, by what it does to    *)
(* the rows, to the schemas and to the request.                            *)
LEMMA TenantRequestKeeps ==
    ASSUME TenantInv, NEW a \in Admins, NEW op \in Ops, ops' = [ops EXCEPT ![a] = op],
           tenants' \in [Tenants -> TenantStatus \cup {"none"}],
           row' \in [Tenants -> Nat], schema' \in [Tenants -> Schemas],
           emails' \subseteq Emails, events' \in 0..MaxEvents,
           suspendedEarly \subseteq suspendedEarly', suspendedEarly' \subseteq Tenants,
           \A t \in Tenants : schema[t] = "complete" => schema'[t] = "complete",
           \A t \in Tenants : tenants'[t] \in {"ACTIVE", "SUSPENDED"} =>
               tenants[t] \in {"ACTIVE", "SUSPENDED"} \/ Provisioned(t),
           op.at \in {"provisioned", "suspending", "reactivating"} =>
               schema'[op.tenant] = "complete" \/ op.tenant \in suspendedEarly'
    PROVE  TenantInv'
<1>1. /\ ops' \in [Admins -> Ops] /\ ops'[a] = op
      /\ \A b \in Admins \ {a} : ops'[b] = ops[b]
  BY OpsTyped DEF TenantInv, TenantTypeOK
<1>2. TenantTypeOK'
  BY <1>1 DEF TenantTypeOK
<1>3. \A t \in Tenants : Provisioned(t) => schema'[t] = "complete" \/ t \in suspendedEarly'
  BY DEF Provisioned
<1>4. StandingAreProvisioned'
  BY <1>3 DEF TenantInv, StandingAreProvisioned, Provisioned
<1>5. AskedAreProvisioned'
  <2> SUFFICES ASSUME NEW b \in Admins,
                      ops'[b].at \in {"provisioned", "suspending", "reactivating"}
               PROVE  schema'[ops'[b].tenant] = "complete" \/ ops'[b].tenant \in suspendedEarly'
    BY DEF AskedAreProvisioned, Provisioned
  <2>1. CASE b = a
    BY <1>1, <2>1
  <2>2. CASE b # a
    <3>1. ops'[b] = ops[b] /\ ops[b].tenant \in Tenants
      BY <1>1, <2>2 DEF TenantInv, TenantTypeOK, Ops
    <3>2. Provisioned(ops[b].tenant)
      BY <3>1 DEF TenantInv, AskedAreProvisioned
    <3>3. QED
      BY <1>3, <3>1, <3>2
  <2>3. QED
    BY <2>1, <2>2
<1>6. QED
  BY <1>2, <1>4, <1>5 DEF TenantInv

(* A request begins.                                                       *)
LEMMA BeginOpKeeps ==
    ASSUME TenantInv, NEW a \in Admins, NEW op \in Ops, BeginOp(a, op),
           op.at \in {"provisioned", "suspending", "reactivating"} => Provisioned(op.tenant)
    PROVE  TenantInv'
<1>1. /\ tenants' = tenants /\ row' = row /\ schema' = schema /\ emails' = emails
      /\ suspendedEarly' = suspendedEarly /\ ops' = [ops EXCEPT ![a] = op]
  BY DEF BeginOp
<1>2. events' \in 0..MaxEvents
  BY TenantLifecycleAssumption DEF BeginOp, TenantInv, TenantTypeOK
<1>3. QED
  BY <1>1, <1>2, TenantRequestKeeps DEF TenantInv, TenantTypeOK, Provisioned

(* Every step of the super-admin's requests keeps the invariant.           *)
LEMMA TenantStepKeeps == ASSUME TenantInv, TenantStep PROVE TenantInv'
<1> USE DEF TenantStatus, Schemas
<1>1. PICK a \in Admins :
         \/ \E t \in Operated :
              \/ \E e \in Emails : CreateTenantRead(a, t, e)
              \/ SuspendRead(a, t) \/ ReactivateRead(a, t) \/ SoftDeleteRead(a, t)
         \/ DeleteFailed(a) \/ CreateTenant(a) \/ CreateRefused(a) \/ AddAdmin(a)
         \/ Provision(a) \/ ProvisionFails(a) \/ Activate(a) \/ Fail(a)
         \/ WriteStatus(a) \/ RowGone(a)
  BY DEF TenantStep
<1>2. PICK now : now = ops[a]
  OBVIOUS
<1>3. now \in Ops /\ now.tenant \in Tenants
  BY <1>2 DEF TenantInv, TenantTypeOK, Ops
<1>4. /\ tenants \in [Tenants -> TenantStatus \cup {"none"}] /\ row \in [Tenants -> Nat]
      /\ schema \in [Tenants -> Schemas] /\ emails \subseteq Emails /\ events \in 0..MaxEvents
      /\ suspendedEarly \subseteq Tenants
  BY DEF TenantInv, TenantTypeOK
<1>5. ASSUME EndOp(a) PROVE ops' = [ops EXCEPT ![a] = NoRequest] /\ events' = events
  BY <1>5 DEF EndOp
<1>6. NoRequest \in Ops /\ NoRequest.at = "idle"
  BY NoRequestTyped DEF NoRequest
<1>7. ASSUME NEW at \in Stages, Advance(a, at)
      PROVE  \E op \in Ops : /\ ops' = [ops EXCEPT ![a] = op] /\ events' = events
                             /\ op.at = at /\ op.tenant = now.tenant
  <2>1. [now EXCEPT !.at = at] \in Ops
    BY <1>3, <1>7 DEF Ops
  <2>2. ops' = [ops EXCEPT ![a] = [now EXCEPT !.at = at]] /\ events' = events
    BY <1>2, <1>7 DEF Advance
  <2>3. [now EXCEPT !.at = at].at = at /\ [now EXCEPT !.at = at].tenant = now.tenant
    BY <1>3 DEF Ops
  <2>4. QED
    BY <2>1, <2>2, <2>3
<1>8. ASSUME NEW t \in Operated, NEW e \in Emails, CreateTenantRead(a, t, e) PROVE TenantInv'
  <2>1. t \in Tenants
    BY TenantLifecycleAssumption
  <2>2. PICK stage \in {"replacing", "checked"} :
           BeginOp(a, [at |-> stage, tenant |-> t, id |-> row[t], email |-> e])
    BY <1>8 DEF CreateTenantRead
  <2>3. [at |-> stage, tenant |-> t, id |-> row[t], email |-> e] \in Ops
    BY <1>4, <2>1, <2>2 DEF Ops, Stages
  <2>4. QED
    BY <2>2, <2>3, BeginOpKeeps
<1>9. ASSUME NEW t \in Operated, NEW at \in {"suspending", "reactivating", "deleting"}
      PROVE  /\ t \in Tenants
             /\ [NoRequest EXCEPT !.at = at, !.tenant = t, !.id = row[t]] \in Ops
             /\ [NoRequest EXCEPT !.at = at, !.tenant = t, !.id = row[t]].at = at
             /\ [NoRequest EXCEPT !.at = at, !.tenant = t, !.id = row[t]].tenant = t
  <2>1. t \in Tenants
    BY <1>9, TenantLifecycleAssumption
  <2>2. row[t] \in Nat
    BY <1>4, <2>1
  <2>3. QED
    BY <1>6, <1>9, <2>1, <2>2 DEF Ops, Stages
<1>10. ASSUME NEW t \in Operated, SuspendRead(a, t) PROVE TenantInv'
  <2>1. PICK op \in Ops : /\ op = [NoRequest EXCEPT !.at = "suspending", !.tenant = t, !.id = row[t]]
                          /\ op.tenant = t /\ t \in Tenants
    BY <1>9
  <2>2. /\ ops' = [ops EXCEPT ![a] = op] /\ tenants' = tenants /\ row' = row /\ schema' = schema
        /\ emails' = emails
    BY <1>10, <2>1 DEF SuspendRead
  <2>3. /\ suspendedEarly' = suspendedEarly \cup (IF tenants[t] = "ACTIVE" THEN {} ELSE {t})
        /\ events < MaxEvents /\ events' = events + 1
    BY <1>10 DEF SuspendRead
  <2>4. events' \in 0..MaxEvents
    BY <1>4, <2>3, TenantLifecycleAssumption
  <2>5. schema'[t] = "complete" \/ t \in suspendedEarly'
    <3>1. CASE tenants[t] = "ACTIVE"
      BY <2>1, <2>2, <2>3, <3>1 DEF TenantInv, StandingAreProvisioned, Provisioned
    <3>2. CASE tenants[t] # "ACTIVE"
      BY <2>3, <3>2
    <3>3. QED
      BY <3>1, <3>2
  <2>6. suspendedEarly \subseteq suspendedEarly' /\ suspendedEarly' \subseteq Tenants
    BY <1>4, <2>1, <2>3
  <2>7. QED
    BY <1>4, <2>1, <2>2, <2>4, <2>5, <2>6, TenantRequestKeeps
<1>11. ASSUME NEW t \in Operated, ReactivateRead(a, t) PROVE TenantInv'
  <2>1. PICK op \in Ops :
           /\ op = [NoRequest EXCEPT !.at = "reactivating", !.tenant = t, !.id = row[t]]
           /\ op.tenant = t /\ t \in Tenants
    BY <1>9
  <2>2. BeginOp(a, op) /\ tenants[t] = "SUSPENDED"
    BY <1>11, <2>1 DEF ReactivateRead
  <2>3. Provisioned(op.tenant)
    BY <2>1, <2>2 DEF TenantInv, StandingAreProvisioned
  <2>4. QED
    BY <2>2, <2>3, BeginOpKeeps
<1>12. ASSUME NEW t \in Operated, SoftDeleteRead(a, t) PROVE TenantInv'
  <2>1. PICK op \in Ops : op = [NoRequest EXCEPT !.at = "deleting", !.tenant = t, !.id = row[t]]
    BY <1>9
  <2>2. BeginOp(a, op)
    BY <1>12, <2>1 DEF SoftDeleteRead
  <2>3. op.at = "deleting"
    BY <1>9, <2>1
  <2>4. QED
    BY <2>2, <2>3, BeginOpKeeps
<1>13. ASSUME DeleteFailed(a) PROVE TenantInv'
  <2>1. row' = row /\ schema' = schema /\ emails' = emails /\ suspendedEarly' = suspendedEarly
    BY <1>13 DEF DeleteFailed
  <2>2. CASE SetStatus(a, "none") /\ Advance(a, "checked")
    <3>1. PICK op \in Ops : /\ ops' = [ops EXCEPT ![a] = op] /\ events' = events /\ op.at = "checked"
      BY <1>7, <2>2 DEF Stages
    <3>2. tenants' = [tenants EXCEPT ![now.tenant] = "none"]
      BY <1>2, <2>2 DEF SetStatus
    <3>3. /\ tenants' \in [Tenants -> TenantStatus \cup {"none"}]
          /\ \A t \in Tenants : tenants'[t] \in {"ACTIVE", "SUSPENDED"} => tenants'[t] = tenants[t]
      BY <1>3, <1>4, <3>2
    <3>4. QED
      BY <1>4, <2>1, <3>1, <3>3, TenantRequestKeeps
  <2>3. CASE EndOp(a) /\ UNCHANGED tenants
    BY <1>4, <1>5, <1>6, <2>1, <2>3, TenantRequestKeeps
  <2>4. QED
    BY <1>13, <2>2, <2>3 DEF DeleteFailed
<1>14. ASSUME CreateTenant(a) PROVE TenantInv'
  <2>1. /\ tenants' = [tenants EXCEPT ![now.tenant] = "PROVISIONING"]
        /\ row' = [row EXCEPT ![now.tenant] = @ + 1]
        /\ schema' = schema /\ emails' = emails /\ suspendedEarly' = suspendedEarly
        /\ events' = events
    BY <1>2, <1>14 DEF CreateTenant, SetStatus
  <2>2. /\ tenants' \in [Tenants -> TenantStatus \cup {"none"}]
        /\ \A t \in Tenants : tenants'[t] \in {"ACTIVE", "SUSPENDED"} => tenants'[t] = tenants[t]
    BY <1>3, <1>4, <2>1
  <2>3. row' \in [Tenants -> Nat] /\ row[now.tenant] + 1 \in Nat
    BY <1>3, <1>4, <2>1
  <2>4. PICK op : op = [now EXCEPT !.at = "registered", !.id = row[now.tenant] + 1]
    OBVIOUS
  <2>5. op \in Ops /\ op.at = "registered"
    BY <1>3, <2>3, <2>4 DEF Ops, Stages
  <2>6. ops' = [ops EXCEPT ![a] = op]
    BY <1>2, <1>14, <2>4 DEF CreateTenant
  <2>7. QED
    BY <1>4, <2>1, <2>2, <2>3, <2>5, <2>6, TenantRequestKeeps
<1>15. ASSUME CreateRefused(a) PROVE TenantInv'
  BY <1>4, <1>5, <1>6, <1>15, TenantRequestKeeps DEF CreateRefused
<1>16. ASSUME AddAdmin(a) PROVE TenantInv'
  <2>1. /\ tenants' = tenants /\ row' = row /\ schema' = schema
        /\ suspendedEarly' = suspendedEarly /\ emails' = emails \cup {now.email}
    BY <1>2, <1>16 DEF AddAdmin
  <2>2. emails' \subseteq Emails
    BY <1>3, <1>4, <2>1 DEF Ops
  <2>3. PICK at \in {"failing", "staffed"} : Advance(a, at)
    BY <1>16 DEF AddAdmin
  <2>4. PICK op \in Ops : ops' = [ops EXCEPT ![a] = op] /\ events' = events /\ op.at = at
    BY <1>7, <2>3 DEF Stages
  <2>5. QED
    BY <1>4, <2>1, <2>2, <2>4, TenantRequestKeeps
<1>17. ASSUME Provision(a) PROVE TenantInv'
  <2>1. /\ tenants' = tenants /\ row' = row /\ emails' = emails /\ suspendedEarly' = suspendedEarly
        /\ schema' = [schema EXCEPT ![now.tenant] = "complete"]
    BY <1>2, <1>17 DEF Provision
  <2>2. PICK op \in Ops : /\ ops' = [ops EXCEPT ![a] = op] /\ events' = events
                          /\ op.tenant = now.tenant
    BY <1>7, <1>17 DEF Provision, Stages
  <2>3. /\ schema' \in [Tenants -> Schemas] /\ schema'[op.tenant] = "complete"
        /\ \A t \in Tenants : schema[t] = "complete" => schema'[t] = "complete"
    BY <1>3, <1>4, <2>1, <2>2
  <2>4. QED
    BY <1>4, <2>1, <2>2, <2>3, TenantRequestKeeps
<1>18. ASSUME ProvisionFails(a) PROVE TenantInv'
  <2>1. /\ tenants' = tenants /\ row' = row /\ emails' = emails /\ suspendedEarly' = suspendedEarly
        /\ schema' = [schema EXCEPT ![now.tenant] = IF @ = "complete" THEN @ ELSE "partial"]
    BY <1>2, <1>18 DEF ProvisionFails
  <2>2. PICK op \in Ops : ops' = [ops EXCEPT ![a] = op] /\ events' = events /\ op.at = "failing"
    BY <1>7, <1>18 DEF ProvisionFails, OnFailure, Stages
  <2>3. /\ schema' \in [Tenants -> Schemas]
        /\ \A t \in Tenants : schema[t] = "complete" => schema'[t] = "complete"
    BY <1>3, <1>4, <2>1
  <2>4. QED
    BY <1>4, <2>1, <2>2, <2>3, TenantRequestKeeps
<1>19. ASSUME NEW status \in TenantStatus, SetStatus(a, status), EndOp(a),
              UNCHANGED <<row, schema, emails, suspendedEarly>>,
              status \in {"ACTIVE", "SUSPENDED"} => Provisioned(now.tenant)
       PROVE  TenantInv'
  <2>1. tenants' = [tenants EXCEPT ![now.tenant] = status]
    BY <1>2, <1>19 DEF SetStatus
  <2>2. /\ tenants' \in [Tenants -> TenantStatus \cup {"none"}]
        /\ \A t \in Tenants : tenants'[t] \in {"ACTIVE", "SUSPENDED"} =>
              tenants'[t] = tenants[t] \/ Provisioned(t)
    BY <1>3, <1>4, <1>19, <2>1
  <2>3. QED
    BY <1>4, <1>5, <1>6, <1>19, <2>2, TenantRequestKeeps
<1>20. ASSUME Activate(a) PROVE TenantInv'
  <2>1. Provisioned(now.tenant)
    BY <1>2, <1>20 DEF Activate, TenantInv, AskedAreProvisioned
  <2>2. QED
    BY <1>19, <1>20, <2>1 DEF Activate
<1>21. ASSUME Fail(a) PROVE TenantInv'
  BY <1>19, <1>21 DEF Fail
<1>22. ASSUME WriteStatus(a) PROVE TenantInv'
  <2>1. now.at \in {"suspending", "reactivating", "deleting"}
    BY <1>2, <1>22 DEF WriteStatus, Written
  <2>2. PICK status \in TenantStatus : status = Written[now.at]
    BY <2>1 DEF Written
  <2>3. status \in {"ACTIVE", "SUSPENDED"} => Provisioned(now.tenant)
    BY <1>2, <2>1, <2>2 DEF Written, TenantInv, AskedAreProvisioned
  <2>4. QED
    BY <1>2, <1>19, <1>22, <2>2, <2>3 DEF WriteStatus
<1>23. ASSUME RowGone(a) PROVE TenantInv'
  BY <1>4, <1>5, <1>6, <1>23, TenantRequestKeeps DEF RowGone
<1>24. QED
  BY <1>1, <1>8, <1>10, <1>11, <1>12, <1>13, <1>14, <1>15, <1>16, <1>17, <1>18, <1>20, <1>21,
     <1>22, <1>23

-----------------------------------------------------------------------------
(* The loans, their ageing and the days. *)

AgeingInv == TenantInv /\ AgeingTypeOK

(* A list of installments.                                                 *)
LEMMA ScheduleTyped ==
    ASSUME NEW k \in Nat, NEW insts \in [1..k -> Installment]
    PROVE  insts \in Seq(Installment) /\ Len(insts) = k
BY SeqDef

(* The installments a loan starts with.                                    *)
LEMMA NewSchedule ==
    ASSUME NEW terms \in Nat
    PROVE  /\ Schedule(terms) \in Seq(Installment) /\ Len(Schedule(terms)) = terms
           /\ \A n \in 1..terms : Schedule(terms)[n] = Due
           /\ Due \in Installment
<1>1. Due \in Installment
  BY OverdueAgeingAssumption DEF Due, Installment, Status
<1>2. Schedule(terms) \in [1..terms -> Installment]
  BY <1>1 DEF Schedule
<1>3. \A n \in 1..terms : Schedule(terms)[n] = Due
  BY DEF Schedule
<1>4. QED
  BY <1>1, <1>2, <1>3, ScheduleTyped

(* The initial tenants and loans.                                          *)
LEMMA AgeingStarts == AgeingInit => AgeingInv
<1> SUFFICES ASSUME AgeingInit PROVE AgeingInv
  OBVIOUS
<1>1. TenantTypeOK
  <2>1. tenants \in [Tenants -> TenantStatus \cup {"none"}] /\ schema \in [Tenants -> Schemas]
    BY DEF AgeingInit, TenantInit, TenantStatus, Schemas
  <2>2. row \in [Tenants -> Nat]
    BY DEF AgeingInit, TenantInit
  <2>3. ops \in [Admins -> Ops]
    BY NoRequestTyped DEF AgeingInit, TenantInit
  <2>4. emails \subseteq Emails /\ events \in 0..MaxEvents /\ suspendedEarly \subseteq Tenants
    BY TenantLifecycleAssumption DEF AgeingInit, TenantInit
  <2>5. QED
    BY <2>1, <2>2, <2>3, <2>4 DEF TenantTypeOK
<1>2. StandingAreProvisioned
  <2> SUFFICES ASSUME NEW t \in Tenants, tenants[t] \in {"ACTIVE", "SUSPENDED"}
               PROVE  schema[t] = "complete"
    BY DEF StandingAreProvisioned, Provisioned
  <2>1. t \in Founded
    BY DEF AgeingInit, TenantInit
  <2>2. QED
    BY <2>1 DEF AgeingInit, TenantInit
<1>3. AskedAreProvisioned
  BY DEF AskedAreProvisioned, AgeingInit, TenantInit, NoRequest
<1>4. AgeingTypeOK
  <2>1. installments \in [Tenants -> Seq(Installment)]
    <3>1. \A t \in Tenants : Schedule(Term[t]) \in Seq(Installment)
      BY NewSchedule, OverdueAgeingAssumption
    <3>2. QED
      BY <3>1 DEF AgeingInit
  <2>2. loan \in [Tenants -> LoanStatus] /\ marked \subseteq Tenants
    BY DEF AgeingInit, LoanStatus
  <2>3. firstDue \in [Tenants -> 1..LastDay] /\ today \in 1..LastDay
    BY OverdueAgeingAssumption DEF AgeingInit
  <2>4. termMonths \in [Tenants -> Nat] /\ threshold \in [Tenants -> Nat \ {0}]
    BY OverdueAgeingAssumption DEF AgeingInit
  <2>5. jobs \in [Runs -> [running : BOOLEAN, left : SUBSET Tenants]]
    BY DEF AgeingInit, NotRunning
  <2>6. QED
    BY <1>1, <2>1, <2>2, <2>3, <2>4, <2>5 DEF AgeingTypeOK
<1>5. QED
  BY <1>1, <1>2, <1>3, <1>4 DEF AgeingInv, TenantInv

(* What the types say of one loan.                                         *)
LEMMA LoanIs ==
    ASSUME AgeingInv, NEW t \in Tenants
    PROVE  /\ installments[t] \in Seq(Installment) /\ Len(installments[t]) \in Nat
           /\ \A n \in Numbers(t) : installments[t][n] \in Installment
           /\ termMonths[t] \in Nat /\ firstDue[t] \in Nat /\ threshold[t] \in Nat /\ today \in Nat
           /\ Total \in Nat \ {0}
<1>1. installments[t] \in Seq(Installment)
  BY DEF AgeingInv, AgeingTypeOK
<1>2. Len(installments[t]) \in Nat /\ \A n \in Numbers(t) : installments[t][n] \in Installment
  BY <1>1, LenProperties, ElementOfSeq DEF Numbers
<1>3. termMonths[t] \in Nat /\ firstDue[t] \in Nat /\ threshold[t] \in Nat /\ today \in Nat
  BY OverdueAgeingAssumption DEF AgeingInv, AgeingTypeOK
<1>4. QED
  BY <1>1, <1>2, <1>3, OverdueAgeingAssumption

(* The status a balance and a date have: PAID only if it is paid whole,    *)
(* and never WAIVED.                                                       *)
LEMMA StatusByIs ==
    ASSUME AgeingInv, NEW t, NEW n, NEW paid \in 0..Total
    PROVE  /\ StatusBy(t, n, paid) \in Status \ {"WAIVED"}
           /\ paid < Total => StatusBy(t, n, paid) # "PAID"
<1>1. paid \in Int /\ Total \in Int /\ 0 < Total /\ 0 <= paid /\ paid <= Total
  BY OverdueAgeingAssumption
<1>2. CASE paid >= Total
  BY <1>1, <1>2 DEF StatusBy, Status
<1>3. CASE paid > 0 /\ paid < Total
  BY <1>1, <1>3 DEF StatusBy, Status
<1>4. CASE paid = 0
  BY <1>1, <1>4 DEF StatusBy, Status
<1>5. QED
  BY <1>1, <1>2, <1>3, <1>4

(* Ageing changes no balance and settles nothing.                          *)
LEMMA AgedIs ==
    ASSUME AgeingInv, NEW t \in Tenants, NEW n \in Numbers(t)
    PROVE  /\ Aged(t, n) \in Installment
           /\ installments[t][n].status \notin {"PAID", "WAIVED"} =>
                 Aged(t, n).status \notin {"PAID", "WAIVED"}
<1>1. PICK inst \in Installment : inst = installments[t][n]
  BY LoanIs
<1>2. \/ Aged(t, n) = [inst EXCEPT !.status = "OVERDUE"]
      \/ Aged(t, n) = [inst EXCEPT !.status = "PENDING"]
      \/ Aged(t, n) = inst
  <2> DEFINE ages == NothingReceived(inst) /\ DueOn(t, n) < today /\ BeingCollected(t)
             heals == /\ inst.status = "OVERDUE" /\ inst.paid = 0
                      /\ DueOn(t, n) >= today /\ loan[t] # "DELETED"
  <2>1. CASE ages
    BY <1>1, <2>1 DEF Aged
  <2>2. CASE ~ages /\ heals
    BY <1>1, <2>2 DEF Aged
  <2>3. CASE ~ages /\ ~heals
    BY <1>1, <2>3 DEF Aged
  <2>4. QED
    BY <2>1, <2>2, <2>3
<1>3. QED
  BY <1>1, <1>2 DEF Status, Installment

\* An installment that is due goes on being due, unless it is paid whole or taken out.
GoesOn(t, n) ==
    installments[t][n].status \notin {"PAID", "WAIVED"} =>
        IF n \in Numbers(t)'
        THEN installments'[t][n].paid < Total => installments'[t][n].status \notin {"PAID", "WAIVED"}
        ELSE n > termMonths[t] \/ Rescheduled(t)

\* While the loan is being collected its dates are moved on by rescheduling it only.
KeepsDue(t) ==
    BeingCollected(t) /\ BeingCollected(t)' =>
        /\ \A n \in Numbers(t) : GoesOn(t, n)
        /\ firstDue'[t] <= firstDue[t] \/ Rescheduled(t)

Onward == AgeingInv' /\ today <= today' /\ \A t \in Tenants : KeepsDue(t)

\* What a step leaves as the type invariant wants it, installments apart.
OthersTyped ==
    /\ UNCHANGED tenantVars
    /\ loan' \in [Tenants -> LoanStatus] /\ termMonths' \in [Tenants -> Nat]
    /\ firstDue' \in [Tenants -> 1..LastDay] /\ marked' \subseteq Tenants
    /\ threshold' \in [Tenants -> Nat \ {0}] /\ today' \in 1..LastDay
    /\ jobs' \in [Runs -> [running : BOOLEAN, left : SUBSET Tenants]]

LEMMA AgeingTyped ==
    ASSUME AgeingInv, OthersTyped, installments' \in [Tenants -> Seq(Installment)]
    PROVE  AgeingInv'
<1>1. TenantInv'
  BY DEF AgeingInv, OthersTyped, TenantInv, TenantTypeOK, StandingAreProvisioned, AskedAreProvisioned,
         Provisioned, tenantVars
<1>2. QED
  BY <1>1 DEF AgeingInv, OthersTyped, AgeingTypeOK, TenantInv

(* A step that leaves the installments alone.                              *)
LEMMA SameInstallments ==
    ASSUME AgeingInv, OthersTyped, UNCHANGED <<installments, termMonths>>, today <= today',
           \A t \in Tenants : BeingCollected(t) => firstDue'[t] = firstDue[t]
    PROVE  Onward
<1>1. AgeingInv'
  BY AgeingTyped DEF AgeingInv, AgeingTypeOK
<1>2. ASSUME NEW t \in Tenants, BeingCollected(t) PROVE KeepsDue(t)
  <2>1. firstDue'[t] <= firstDue[t]
    BY <1>2, LoanIs
  <2>2. \A n \in Numbers(t) : GoesOn(t, n)
    BY DEF GoesOn, Numbers
  <2>3. QED
    BY <2>1, <2>2 DEF KeepsDue
<1>3. QED
  BY <1>1, <1>2 DEF Onward, KeepsDue

(* A step that replaces the installments of one loan.                      *)
LEMMA NewInstallments ==
    ASSUME AgeingInv, OthersTyped, NEW t \in Tenants, NEW insts \in Seq(Installment),
           SetInstallments(t, insts), UNCHANGED today,
           \A u \in Tenants \ {t} : firstDue'[u] = firstDue[u],
           BeingCollected(t) /\ BeingCollected(t)' =>
              /\ \A n \in Numbers(t) : GoesOn(t, n)
              /\ firstDue'[t] <= firstDue[t] \/ Rescheduled(t)
    PROVE  Onward
<1>1. installments' \in [Tenants -> Seq(Installment)] /\ \A u \in Tenants \ {t} : installments'[u] = installments[u]
  BY DEF AgeingInv, AgeingTypeOK, SetInstallments
<1>2. AgeingInv'
  BY <1>1, AgeingTyped
<1>3. ASSUME NEW u \in Tenants \ {t} PROVE KeepsDue(u)
  <2>1. firstDue'[u] <= firstDue[u]
    BY LoanIs
  <2>2. \A n \in Numbers(u) : GoesOn(u, n)
    BY <1>1 DEF GoesOn, Numbers
  <2>3. QED
    BY <2>1, <2>2 DEF KeepsDue
<1>4. KeepsDue(t)
  BY DEF KeepsDue
<1>5. today <= today'
  BY LoanIs
<1>6. QED
  BY <1>2, <1>3, <1>4, <1>5 DEF Onward

(* A step that changes installments one by one, and leaves the loan's terms.  *)
LEMMA EachInstallment ==
    ASSUME AgeingInv, OthersTyped, NEW t \in Tenants, NEW insts,
           insts \in [Numbers(t) -> Installment], SetInstallments(t, insts),
           SameTerms, UNCHANGED today,
           BeingCollected(t) /\ BeingCollected(t)' =>
              \A n \in Numbers(t) :
                 installments[t][n].status \notin {"PAID", "WAIVED"} =>
                    (insts[n].paid < Total => insts[n].status \notin {"PAID", "WAIVED"})
    PROVE  Onward
<1>1. insts \in Seq(Installment) /\ Len(insts) = Len(installments[t])
  BY LoanIs, ScheduleTyped DEF Numbers
<1>2. installments'[t] = insts /\ Numbers(t)' = Numbers(t)
  BY <1>1 DEF SetInstallments, Numbers, AgeingInv, AgeingTypeOK
<1>3. BeingCollected(t) /\ BeingCollected(t)' => \A n \in Numbers(t) : GoesOn(t, n)
  BY <1>2 DEF GoesOn
<1>4. \A u \in Tenants : firstDue'[u] = firstDue[u] /\ firstDue'[u] <= firstDue[u]
  BY LoanIs DEF SameTerms
<1>5. QED
  BY <1>1, <1>3, <1>4, NewInstallments

(* A step that changes one installment.                                    *)
LEMMA OneInstallment ==
    ASSUME AgeingInv, OthersTyped, NEW t \in Tenants, NEW n \in Numbers(t), NEW inst \in Installment,
           SetInstallment(t, n, inst), SameTerms, UNCHANGED today,
           inst.paid < Total => inst.status \notin {"PAID", "WAIVED"}
    PROVE  Onward
<1> DEFINE insts == [installments[t] EXCEPT ![n] = inst]
<1>1. installments[t] \in [Numbers(t) -> Installment]
  BY LoanIs, LenProperties DEF Numbers
<1>2. insts \in [Numbers(t) -> Installment]
  BY <1>1
<1>3. \A m \in Numbers(t) : installments[t][m].status \notin {"PAID", "WAIVED"} =>
           (insts[m].paid < Total => insts[m].status \notin {"PAID", "WAIVED"})
  BY <1>1
<1>4. SetInstallments(t, insts)
  BY DEF SetInstallment
<1> HIDE DEF insts
<1>5. QED
  BY <1>2, <1>3, <1>4, EachInstallment

(* A step that takes out the last installment, which was added.            *)
LEMMA LastRemoved ==
    ASSUME AgeingInv, OthersTyped, NEW t \in Tenants, NEW n \in Numbers(t), Removable(t, n),
           SetInstallments(t, WithoutLast(t)), SameTerms, UNCHANGED today
    PROVE  Onward
<1>1. installments[t] \in [1..Len(installments[t]) -> Installment] /\ Len(installments[t]) \in Nat \ {0}
  BY LoanIs, LenProperties DEF Numbers
<1>2. WithoutLast(t) \in [1..Len(installments[t]) - 1 -> Installment] /\ Len(installments[t]) - 1 \in Nat
  BY <1>1 DEF WithoutLast
<1>3. WithoutLast(t) \in Seq(Installment) /\ Len(WithoutLast(t)) = Len(installments[t]) - 1
  BY <1>2, ScheduleTyped
<1>4. installments'[t] = WithoutLast(t) /\ Numbers(t)' = 1..Len(installments[t]) - 1
  BY <1>3 DEF SetInstallments, Numbers, AgeingInv, AgeingTypeOK
<1>5. ASSUME NEW m \in Numbers(t) PROVE GoesOn(t, m)
  <2>1. CASE m = n
    BY <1>1, <1>4, <2>1 DEF GoesOn, Removable
  <2>2. CASE m # n
    <3>1. m \in Numbers(t)' /\ installments'[t][m] = installments[t][m]
      BY <1>1, <1>4, <2>2 DEF Removable, Numbers, WithoutLast
    <3>2. QED
      BY <3>1 DEF GoesOn
  <2>3. QED
    BY <2>1, <2>2
<1>6. \A u \in Tenants : firstDue'[u] = firstDue[u] /\ firstDue'[u] <= firstDue[u]
  BY LoanIs DEF SameTerms
<1>7. QED
  BY <1>3, <1>5, <1>6, NewInstallments

(* What leaves the rows of the tenants and the rules alone keeps types.    *)
LEMMA TypedBefore ==
    ASSUME AgeingInv
    PROVE  /\ loan \in [Tenants -> LoanStatus] /\ termMonths \in [Tenants -> Nat]
           /\ firstDue \in [Tenants -> 1..LastDay] /\ marked \subseteq Tenants
           /\ threshold \in [Tenants -> Nat \ {0}] /\ today \in 1..LastDay
           /\ jobs \in [Runs -> [running : BOOLEAN, left : SUBSET Tenants]]
           /\ LastDay \in Nat
BY OverdueAgeingAssumption DEF AgeingInv, AgeingTypeOK

(* An approval, a rejection and the deletion of a loan nobody collects.    *)
LEMMA DecisionKeeps ==
    ASSUME AgeingInv, UNCHANGED tenantVars, NEW t \in Tenants,
           Reject(t) \/ DeleteLoan(t) \/ \E first \in 1..LastDay : Approve(t, first)
    PROVE  Onward
<1>1. UNCHANGED <<installments, termMonths>> /\ SameRule
  BY DEF Reject, DeleteLoan, Approve, SameTerms
<1>2. loan' \in [Tenants -> LoanStatus]
  BY TypedBefore DEF Reject, DeleteLoan, Approve, SetLoan, LoanStatus
<1>3. /\ firstDue' \in [Tenants -> 1..LastDay]
      /\ \A u \in Tenants : BeingCollected(u) => firstDue'[u] = firstDue[u]
  BY TypedBefore DEF Reject, DeleteLoan, Approve, SameTerms, BeingCollected
<1>4. OthersTyped /\ today <= today'
  BY <1>1, <1>2, <1>3, TypedBefore DEF OthersTyped, SameRule
<1>5. QED
  BY <1>1, <1>3, <1>4, SameInstallments

(* A close and a reopening.                                                *)
LEMMA EndingKeeps ==
    ASSUME AgeingInv, UNCHANGED tenantVars, NEW t \in Tenants, Close(t) \/ Reopen(t)
    PROVE  Onward
<1>1. SameTerms /\ SameRule
  BY DEF Close, Reopen
<1>2. loan' \in [Tenants -> LoanStatus]
  BY TypedBefore DEF Close, Reopen, SetLoan, LoanStatus
<1>3. ~(BeingCollected(t) /\ BeingCollected(t)')
  BY TypedBefore DEF Close, Reopen, SetLoan, BeingCollected
<1>4. OthersTyped /\ UNCHANGED today
  BY <1>1, <1>2, TypedBefore DEF OthersTyped, SameRule, SameTerms
<1>5. CASE Close(t)
  <2> DEFINE insts == [n \in Numbers(t) |->
                         [installments[t][n] EXCEPT !.status = IF @ = "PAID" THEN @ ELSE "WAIVED"]]
  <2>1. insts \in [Numbers(t) -> Installment]
    <3> SUFFICES ASSUME NEW n \in Numbers(t)
                 PROVE  [installments[t][n] EXCEPT !.status = IF @ = "PAID" THEN @ ELSE "WAIVED"]
                            \in Installment
      OBVIOUS
    <3>1. PICK inst \in Installment : inst = installments[t][n]
      BY LoanIs
    <3>2. QED
      BY <3>1 DEF Installment, Status
  <2>2. SetInstallments(t, insts)
    BY <1>5 DEF Close
  <2> HIDE DEF insts
  <2>3. QED
    BY <1>1, <1>3, <1>4, <2>1, <2>2, EachInstallment
<1>6. CASE Reopen(t)
  <2> DEFINE insts == [n \in Numbers(t) |->
                         [installments[t][n] EXCEPT !.status =
                             IF @ = "WAIVED" THEN StatusBy(t, n, installments[t][n].paid) ELSE @]]
  <2>1. insts \in [Numbers(t) -> Installment]
    <3> SUFFICES ASSUME NEW n \in Numbers(t)
                 PROVE  [installments[t][n] EXCEPT !.status =
                             IF @ = "WAIVED" THEN StatusBy(t, n, installments[t][n].paid) ELSE @]
                            \in Installment
      OBVIOUS
    <3>1. PICK inst \in Installment : inst = installments[t][n]
      BY LoanIs
    <3>2. StatusBy(t, n, inst.paid) \in Status
      BY StatusByIs DEF Installment
    <3>3. QED
      BY <3>1, <3>2 DEF Installment
  <2>2. SetInstallments(t, insts)
    BY <1>6 DEF Reopen
  <2> HIDE DEF insts
  <2>3. QED
    BY <1>1, <1>3, <1>4, <2>1, <2>2, EachInstallment
<1>7. QED
  BY <1>5, <1>6

(* An edit, before any payment: the installments it takes out were added   *)
(* or the term is shorter.                                                 *)
LEMMA EditKeeps ==
    ASSUME AgeingInv, UNCHANGED tenantVars, NEW t \in Tenants, NEW terms \in Terms,
           NEW first \in 1..LastDay, Edit(t, terms, first)
    PROVE  Onward
<1>1. terms \in Nat /\ first \in Nat
  BY OverdueAgeingAssumption
<1>2. /\ SetInstallments(t, Schedule(terms)) /\ NothingOnFile(t)
      /\ termMonths' = [termMonths EXCEPT ![t] = terms]
      /\ firstDue' = [firstDue EXCEPT ![t] = first]
      /\ UNCHANGED loan /\ SameRule
  BY DEF Edit
<1>3. OthersTyped /\ UNCHANGED today
  BY <1>1, <1>2, TypedBefore DEF OthersTyped, SameRule
<1>4. /\ installments'[t] = Schedule(terms) /\ Numbers(t)' = 1..terms
      /\ termMonths'[t] = terms /\ firstDue'[t] = first
  BY <1>1, <1>2, NewSchedule, TypedBefore DEF SetInstallments, Numbers, AgeingInv, AgeingTypeOK
<1>5. ASSUME NEW n \in Numbers(t) PROVE GoesOn(t, n)
  <2>1. CASE n \in Numbers(t)'
    <3>1. installments'[t][n].status = "PENDING"
      BY <1>1, <1>4, <2>1, NewSchedule DEF Due
    <3>2. QED
      BY <2>1, <3>1 DEF GoesOn
  <2>2. CASE n \notin Numbers(t)'
    <3>1. n > terms
      BY <1>1, <1>4, <2>2 DEF Numbers
    <3>2. n \in Nat /\ termMonths[t] \in Nat
      BY LoanIs DEF Numbers
    <3>3. n > termMonths[t] \/ termMonths'[t] < termMonths[t]
      BY <1>1, <1>4, <3>1, <3>2
    <3>4. QED
      BY <1>2, <2>2, <3>3 DEF GoesOn, Rescheduled
  <2>3. QED
    BY <2>1, <2>2
<1>6. firstDue'[t] <= firstDue[t] \/ Rescheduled(t)
  BY <1>1, <1>2, <1>4, LoanIs DEF Rescheduled
<1>7. \A u \in Tenants \ {t} : firstDue'[u] = firstDue[u]
  BY <1>2, TypedBefore
<1>8. Schedule(terms) \in Seq(Installment)
  BY <1>1, NewSchedule
<1>9. QED
  BY <1>2, <1>3, <1>5, <1>6, <1>7, <1>8, NewInstallments

(* An installment added or removed.                                        *)
LEMMA ExtraKeeps ==
    ASSUME AgeingInv, UNCHANGED tenantVars, NEW t \in Tenants,
           AddInstallment(t) \/ \E n \in Numbers(t) : DeleteInstallment(t, n)
    PROVE  Onward
<1>1. UNCHANGED loan /\ SameTerms /\ SameRule
  BY DEF AddInstallment, DeleteInstallment
<1>2. OthersTyped /\ UNCHANGED today
  BY <1>1, TypedBefore DEF OthersTyped, SameRule, SameTerms
<1>3. CASE AddInstallment(t)
  <2> DEFINE insts == Append(installments[t], Due)
  <2>1. Due \in Installment /\ installments[t] \in Seq(Installment) /\ Len(installments[t]) \in Nat
    BY NewSchedule, LoanIs
  <2>2. /\ insts \in Seq(Installment) /\ Len(insts) = Len(installments[t]) + 1
        /\ \A n \in Numbers(t) : insts[n] = installments[t][n]
    BY <2>1, AppendProperties DEF Numbers
  <2>3. SetInstallments(t, insts)
    BY <1>3 DEF AddInstallment
  <2> HIDE DEF insts
  <2>4. installments'[t] = insts
    BY <2>3 DEF SetInstallments, AgeingInv, AgeingTypeOK
  <2>5. \A n \in Numbers(t) : n \in Numbers(t)' /\ installments'[t][n] = installments[t][n]
    BY <2>1, <2>2, <2>4 DEF Numbers
  <2>6. \A n \in Numbers(t) : GoesOn(t, n)
    BY <2>5 DEF GoesOn
  <2>7. \A u \in Tenants : firstDue'[u] = firstDue[u] /\ firstDue'[u] <= firstDue[u]
    BY <1>1, LoanIs DEF SameTerms
  <2>8. QED
    BY <1>2, <2>2, <2>3, <2>6, <2>7, NewInstallments
<1>4. CASE \E n \in Numbers(t) : DeleteInstallment(t, n)
  BY <1>1, <1>2, <1>4, LastRemoved DEF DeleteInstallment
<1>5. QED
  BY <1>3, <1>4

(* A payment and the two ways to undo one.                                 *)
LEMMA MoneyKeeps ==
    ASSUME AgeingInv, UNCHANGED tenantVars, NEW t \in Tenants, NEW n \in Numbers(t),
           NEW amount \in 1..Total,
           \/ Pay(t, n, amount) \/ UndoCollection(t, n, amount)
           \/ \E onFile \in BOOLEAN : UndoInstallmentPayment(t, n, amount, onFile)
    PROVE  Onward
<1>1. UNCHANGED loan /\ SameTerms /\ SameRule
  BY DEF Pay, UndoCollection, UndoInstallmentPayment
<1>2. OthersTyped /\ UNCHANGED today
  BY <1>1, TypedBefore DEF OthersTyped, SameRule, SameTerms
<1>3. PICK paid \in 0..Total : paid = installments[t][n].paid
  BY LoanIs DEF Installment
<1>4. amount \in Nat /\ amount > 0 /\ Total \in Nat \ {0}
  BY LoanIs
<1>5. CASE Pay(t, n, amount)
  <2> DEFINE inst == [status |-> IF paid + amount >= Total THEN "PAID" ELSE "PARTIALLY_PAID",
                      paid |-> paid + amount, onFile |-> TRUE]
  <2>1. paid + amount \in 0..Total /\ SetInstallment(t, n, inst)
    BY <1>3, <1>4, <1>5 DEF Pay
  <2>2. inst \in Installment /\ (inst.paid < Total => inst.status \notin {"PAID", "WAIVED"})
    BY <1>4, <2>1 DEF Installment, Status
  <2> HIDE DEF inst
  <2>3. QED
    BY <1>1, <1>2, <2>1, <2>2, OneInstallment
<1>6. Remaining(t, n, amount) \in 0..Total
  BY <1>3, <1>4 DEF Remaining
<1>7. ASSUME NEW onFile \in BOOLEAN, SetInstallment(t, n, TakenBack(t, n, amount, onFile))
      PROVE  Onward
  <2>1. /\ StatusBy(t, n, Remaining(t, n, amount)) \in Status \ {"WAIVED"}
        /\ Remaining(t, n, amount) < Total => StatusBy(t, n, Remaining(t, n, amount)) # "PAID"
    BY <1>6, StatusByIs
  <2>2. /\ TakenBack(t, n, amount, onFile) \in Installment
        /\ TakenBack(t, n, amount, onFile).paid < Total =>
              TakenBack(t, n, amount, onFile).status \notin {"PAID", "WAIVED"}
    BY <1>6, <2>1 DEF TakenBack, Installment
  <2>3. QED
    BY <1>1, <1>2, <1>7, <2>2, OneInstallment
<1>8. CASE UndoCollection(t, n, amount)
  BY <1>7, <1>8 DEF UndoCollection
<1>9. ASSUME NEW onFile \in BOOLEAN, UndoInstallmentPayment(t, n, amount, onFile) PROVE Onward
  <2>1. CASE Remaining(t, n, amount) = 0 /\ Removable(t, n)
    BY <1>1, <1>2, <1>9, <2>1, LastRemoved DEF UndoInstallmentPayment
  <2>2. CASE ~(Remaining(t, n, amount) = 0 /\ Removable(t, n))
    BY <1>7, <1>9, <2>2 DEF UndoInstallmentPayment
  <2>3. QED
    BY <2>1, <2>2
<1>10. QED
  BY <1>5, <1>8, <1>9

(* Marks, the threshold and the days.                                      *)
LEMMA RuleKeeps ==
    ASSUME AgeingInv, UNCHANGED tenantVars,
           \/ NextDay
           \/ \E t \in Tenants : \/ MarkNpa(t) \/ ClearNpa(t)
                                 \/ \E limit \in Thresholds : SetThreshold(t, limit)
    PROVE  Onward
<1>1. UNCHANGED <<loan, installments, jobs>> /\ SameTerms
  BY DEF NextDay, MarkNpa, ClearNpa, SetThreshold, loanVars, SameTerms
<1>2. marked' \subseteq Tenants /\ threshold' \in [Tenants -> Nat \ {0}]
  BY TypedBefore, OverdueAgeingAssumption DEF NextDay, MarkNpa, ClearNpa, SetThreshold, loanVars
<1>3. today' \in 1..LastDay /\ today <= today'
  BY TypedBefore DEF NextDay, MarkNpa, ClearNpa, SetThreshold
<1>4. OthersTyped
  BY <1>1, <1>2, <1>3, TypedBefore DEF OthersTyped, SameTerms
<1>5. QED
  BY <1>1, <1>3, <1>4, SameInstallments DEF SameTerms

(* What the staff does to the loan of one tenant.                          *)
LEMMA LoanStepKeeps ==
    ASSUME AgeingInv, LoanSteps, UNCHANGED tenantVars
    PROVE  Onward
BY DecisionKeeps, EndingKeeps, EditKeeps, ExtraKeeps, MoneyKeeps, RuleKeeps DEF LoanSteps

(* What the job and a crash do.                                            *)
LEMMA JobStepKeeps ==
    ASSUME AgeingInv, NEW r \in Runs, StartRun(r) \/ RunStep(r), UNCHANGED tenantVars
    PROVE  Onward
<1>1. ASSUME NEW job \in [running : BOOLEAN, left : SUBSET Tenants], jobs' = [jobs EXCEPT ![r] = job]
      PROVE  jobs' \in [Runs -> [running : BOOLEAN, left : SUBSET Tenants]]
  BY <1>1, TypedBefore
<1>2. ASSUME NEW job \in [running : BOOLEAN, left : SUBSET Tenants], jobs' = [jobs EXCEPT ![r] = job],
             UNCHANGED <<loanVars, today>>
      PROVE  Onward
  <2>1. OthersTyped /\ UNCHANGED <<installments, termMonths, firstDue>> /\ today <= today'
    BY <1>1, <1>2, TypedBefore DEF OthersTyped, loanVars
  <2>2. QED
    BY <2>1, SameInstallments
<1>3. CASE StartRun(r)
  <2>1. PICK job \in [running : BOOLEAN, left : SUBSET Tenants] :
           job = [running |-> TRUE, left |-> {t \in Tenants : tenants[t] = "ACTIVE"}]
    OBVIOUS
  <2>2. QED
    BY <1>2, <1>3, <2>1 DEF StartRun
<1>4. ASSUME NEW t \in Tenants, AgeTenant(r, t) PROVE Onward
  <2> DEFINE insts == [n \in Numbers(t) |-> Aged(t, n)]
  <2>1. insts \in [Numbers(t) -> Installment]
    BY AgedIs
  <2>2. \A n \in Numbers(t) : installments[t][n].status \notin {"PAID", "WAIVED"} =>
                               (insts[n].paid < Total => insts[n].status \notin {"PAID", "WAIVED"})
    BY AgedIs
  <2>3. /\ SetInstallments(t, insts) /\ SameTerms /\ UNCHANGED <<loan, marked, threshold, today>>
        /\ jobs' = [jobs EXCEPT ![r].left = @ \ {t}]
    BY <1>4 DEF AgeTenant
  <2> HIDE DEF insts
  <2>4. jobs' \in [Runs -> [running : BOOLEAN, left : SUBSET Tenants]]
    BY <2>3, TypedBefore
  <2>5. OthersTyped
    BY <2>3, <2>4, TypedBefore DEF OthersTyped, SameTerms
  <2>6. QED
    BY <2>1, <2>2, <2>3, <2>5, EachInstallment
<1>5. ASSUME NEW t \in Tenants, TenantFails(r, t) PROVE Onward
  <2>1. /\ jobs' = [jobs EXCEPT ![r].left = jobs[r].left \ {t}]
        /\ UNCHANGED <<loanVars, today>>
    BY <1>5 DEF TenantFails, LeftAfterFailure
  <2>2. jobs' \in [Runs -> [running : BOOLEAN, left : SUBSET Tenants]]
    BY <2>1, TypedBefore
  <2>3. OthersTyped /\ UNCHANGED <<installments, termMonths, firstDue>> /\ today <= today'
    BY <2>1, <2>2, TypedBefore DEF OthersTyped, loanVars
  <2>4. QED
    BY <2>3, SameInstallments
<1>6. CASE EndRun(r)
  BY <1>2, <1>6 DEF EndRun, NotRunning
<1>7. QED
  BY <1>3, <1>4, <1>5, <1>6 DEF RunStep

(* Loans, days and installments that stay as they are go on being due.     *)
LEMMA NothingMoves ==
    ASSUME AgeingInv, AgeingInv', UNCHANGED <<loanVars, today>>
    PROVE  Onward
<1>1. today <= today'
  BY TypedBefore
<1>2. ASSUME NEW t \in Tenants PROVE KeepsDue(t)
  BY LoanIs DEF KeepsDue, GoesOn, Numbers, loanVars
<1>3. QED
  BY <1>1, <1>2 DEF Onward

(* The server stops.                                                       *)
LEMMA CrashKeeps == ASSUME AgeingInv, Crash PROVE Onward
<1>1. /\ tenants' = tenants /\ row' = row /\ schema' = schema /\ emails' = emails
      /\ suspendedEarly' = suspendedEarly /\ ops' = [a \in Admins |-> NoRequest]
      /\ events < MaxEvents /\ events' = events + 1
  BY DEF Crash, TenantCrash
<1>2. events' \in 0..MaxEvents
  BY <1>1, TenantLifecycleAssumption DEF AgeingInv, TenantInv, TenantTypeOK
<1>3. TenantTypeOK'
  BY <1>1, <1>2, NoRequestTyped DEF AgeingInv, TenantInv, TenantTypeOK
<1>4. StandingAreProvisioned'
  BY <1>1 DEF AgeingInv, TenantInv, StandingAreProvisioned, Provisioned
<1>5. AskedAreProvisioned'
  BY <1>1 DEF AskedAreProvisioned, NoRequest
<1>6. UNCHANGED <<loanVars, today>>
  BY DEF Crash
<1>7. jobs' \in [Runs -> [running : BOOLEAN, left : SUBSET Tenants]]
  BY DEF Crash, NotRunning
<1>8. AgeingInv'
  BY <1>3, <1>4, <1>5, <1>6, <1>7 DEF AgeingInv, AgeingTypeOK, TenantInv, loanVars
<1>9. QED
  BY <1>6, <1>8, NothingMoves

(* Every step keeps the invariant, and ends no installment but by its      *)
(* balance, its removal or a new schedule.                                 *)
LEMMA AgeingNextKeeps == ASSUME AgeingInv, [AgeingNext]_allVars PROVE Onward
<1>1. CASE TenantStep /\ UNCHANGED ageingVars
  <2>1. TenantInv'
    BY <1>1, TenantStepKeeps DEF AgeingInv
  <2>2. UNCHANGED <<loanVars, today, jobs>>
    BY <1>1 DEF ageingVars
  <2>3. AgeingInv'
    BY <2>1, <2>2 DEF AgeingInv, AgeingTypeOK, TenantInv, loanVars
  <2>4. QED
    BY <2>2, <2>3, NothingMoves
<1>2. CASE LoanSteps /\ UNCHANGED tenantVars
  BY <1>2, LoanStepKeeps
<1>3. CASE \E r \in Runs : (StartRun(r) \/ RunStep(r)) /\ UNCHANGED tenantVars
  BY <1>3, JobStepKeeps
<1>4. CASE Crash
  BY <1>4, CrashKeeps
<1>5. CASE UNCHANGED allVars
  <2>1. UNCHANGED tenantVars /\ UNCHANGED <<loanVars, today, jobs>>
    BY <1>5 DEF allVars, ageingVars
  <2>2. OthersTyped /\ installments' = installments
    BY <2>1, TypedBefore DEF OthersTyped, loanVars
  <2>3. AgeingInv'
    BY <2>2, AgeingTyped DEF AgeingInv, AgeingTypeOK
  <2>4. QED
    BY <2>1, <2>3, NothingMoves
<1>6. QED
  BY <1>1, <1>2, <1>3, <1>4, <1>5 DEF AgeingNext

(* The inductive invariant: types, and the tenants that requests under way *)
(* will make ACTIVE or SUSPENDED are provisioned or were suspended early.  *)
THEOREM AgeingInvariant == AgeingSpec => []AgeingInv
<1>1. AgeingInit => AgeingInv
  BY AgeingStarts
<1>2. AgeingInv /\ [AgeingNext]_allVars => AgeingInv'
  BY AgeingNextKeeps DEF Onward
<1>3. QED
  BY <1>1, <1>2, PTL DEF AgeingSpec

(* Type correctness, of the tenants and of their loans.                    *)
THEOREM AgeingTypeCorrect == AgeingSpec => []AgeingTypeOK
<1>1. AgeingInv => AgeingTypeOK
  BY DEF AgeingInv
<1>2. QED
  BY <1>1, AgeingInvariant, PTL

(***************************************************************************)
(* create marks a tenant ACTIVE only when its schema is there, and suspend *)
(* and reactivate keep to that unless the tenant was suspended too early,  *)
(* however the requests of any number of super-admins interleave, replace  *)
(* one another's rows and die.                                             *)
(***************************************************************************)
THEOREM ActiveStaysProvisioned == AgeingSpec => []ActiveIsProvisioned
<1>1. AgeingInv => ActiveIsProvisioned
  BY DEF AgeingInv, TenantInv, StandingAreProvisioned, Provisioned, ActiveIsProvisioned
<1>2. QED
  BY <1>1, AgeingInvariant, PTL

(***************************************************************************)
(* A loan leaves the NPA list only by a settled installment or an added    *)
(* one removed, by an edit before any payment to a shorter term or later   *)
(* dates, by a cleared mark, a raised threshold or its end: for any terms, *)
(* thresholds and totals, and whatever the ageing job does or leaves       *)
(* undone.                                                                 *)
(***************************************************************************)
THEOREM NpaIsLeftOnPurpose == AgeingSpec => NpaIsNotShakenOff
<1>1. ASSUME AgeingInv, [AgeingNext]_allVars
      PROVE  [\A t \in Tenants : IsNpa(t) /\ ~IsNpa(t)' =>
                \/ Cleared(t) \/ Rescheduled(t)
                \/ t \in marked \ marked' \/ threshold'[t] > threshold[t]
                \/ ~BeingCollected(t)']_<<loanVars, today>>
  <2>1. Onward
    BY <1>1, AgeingNextKeeps
  <2> SUFFICES ASSUME NEW t \in Tenants, IsNpa(t), ~Cleared(t), ~Rescheduled(t),
                      t \notin marked \ marked', ~(threshold'[t] > threshold[t]),
                      BeingCollected(t)'
               PROVE  IsNpa(t)'
    OBVIOUS
  <2>2. PICK due, later : due = PastDue(t) /\ later = PastDue(t)'
    OBVIOUS
  <2>3. PICK before, after : before = (t \in marked) /\ after = (t \in marked')
    OBVIOUS
  <2>4. /\ Len(installments[t]) \in Nat /\ Len(installments'[t]) \in Nat
        /\ threshold[t] \in Nat /\ threshold'[t] \in Nat /\ Total \in Nat
        /\ firstDue[t] \in Nat /\ firstDue'[t] \in Nat /\ today \in Nat /\ today' \in Nat
    <3>1. /\ Len(installments[t]) \in Nat /\ threshold[t] \in Nat /\ Total \in Nat
          /\ firstDue[t] \in Nat /\ today \in Nat
      BY <1>1, LoanIs
    <3>2. installments'[t] \in Seq(Installment) /\ firstDue'[t] \in 1..LastDay
          /\ threshold'[t] \in Nat /\ today' \in 1..LastDay
      BY <2>1 DEF Onward, AgeingInv, AgeingTypeOK
    <3>3. QED
      BY <3>1, <3>2, LenProperties, OverdueAgeingAssumption
  <2>5. due \subseteq Numbers(t) /\ later \subseteq Numbers(t)'
    BY <2>2 DEF PastDue
  <2>6. IsFiniteSet(due) /\ IsFiniteSet(later) /\ due \in SUBSET Nat /\ later \in SUBSET Nat
    <3>1. \A k \in Nat : IsFiniteSet(1..k) /\ 1..k \subseteq Nat
      BY FS_Interval
    <3>2. QED
      BY <2>4, <2>5, <3>1, FS_Subset DEF Numbers
  <2>7. due \subseteq later
    <3> SUFFICES ASSUME NEW n \in Numbers(t), n \in PastDue(t)
                 PROVE  n \in PastDue(t)'
      BY <2>2, <2>5
    <3>1. /\ BeingCollected(t) /\ DueOn(t, n) < today
          /\ installments[t][n].status \notin {"PAID", "WAIVED"}
      BY DEF PastDue
    <3>2. GoesOn(t, n) /\ firstDue'[t] <= firstDue[t] /\ today <= today'
      BY <2>1, <3>1 DEF Onward, KeepsDue
    <3>3. n \in Numbers(t)' /\ installments'[t][n].paid # Total
      BY <3>1, <3>2 DEF GoesOn, Cleared
    <3>4. installments'[t][n].paid \in 0..Total
      <4>1. PICK insts \in Seq(Installment) : insts = installments'[t]
        BY <2>1 DEF Onward, AgeingInv, AgeingTypeOK
      <4>2. n \in 1..Len(insts)
        BY <3>3, <4>1 DEF Numbers
      <4>3. insts[n] \in Installment
        BY <4>2, ElementOfSeq
      <4>4. QED
        BY <4>1, <4>3 DEF Installment
    <3>5. installments'[t][n].paid < Total
      BY <2>4, <3>3, <3>4
    <3>6. installments'[t][n].status \notin {"PAID", "WAIVED"}
      BY <3>1, <3>2, <3>3, <3>5 DEF GoesOn
    <3>7. firstDue'[t] + n - 1 < today'
      BY <2>4, <3>1, <3>2 DEF DueOn, Numbers
    <3>8. QED
      BY <3>3, <3>5, <3>6, <3>7 DEF PastDue, DueOn
  <2>8. before => after
    <3>1. t \in marked => t \in marked'
      OBVIOUS
    <3>2. QED
      BY <2>3, <3>1
  <2>9. Npa(due, before, threshold[t])
    BY <2>2, <2>3 DEF IsNpa
  <2>10. threshold'[t] <= threshold[t]
    BY <2>4
  <2>11. Npa(later, after, threshold'[t])
    BY <2>4, <2>6, <2>7, <2>8, <2>9, <2>10, NpaIsMonotone
  <2>12. IsNpa(t)' = Npa(later, after, threshold'[t])
    BY <2>2, <2>3 DEF IsNpa
  <2>13. QED
    BY <2>11, <2>12
<1>2. QED
  BY <1>1, AgeingInvariant, PTL DEF AgeingSpec, NpaIsNotShakenOff
================================================================================
