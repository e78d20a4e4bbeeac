---------------------------- MODULE Eligibility ----------------------------
(***************************************************************************)
(* EligibilityService and BenefitEligibilityGuard: HR marks and unmarks    *)
(* collaborators, and a benefit route asks, before its handler runs,       *)
(* whether the account is in order and then whether the row is there.      *)
(* Every await is a step.  Accounts are switched on and off, and invites   *)
(* accepted, at any moment (module AuthSession says how).                  *)
(***************************************************************************)
EXTENDS AccessControl, Integers, FiniteSets

CONSTANTS
    Users,          \* accounts
    Tenants,
    TenantOf,       \* tenant of each account, None for those of the platform
    RolesOf,        \* roles of each account
    Pending,        \* accounts that have not accepted their invite at the start
    Rows,           \* pool of documents of employee_eligibility
    Requests,       \* requests that may be in flight together
    MaxMarks,       \* bound on the marks of one account
    FaultKinds,     \* bound: the kinds of faults injected, "error" and "crash"
    MaxFaults       \* bound on the number of faults

ASSUME EligibilityAssumption ==
    /\ None \notin Users \cup Tenants \cup Rows
    /\ TenantOf \in [Users -> Tenants \cup {None}]
    /\ RolesOf \in [Users -> SUBSET Roles]
    /\ Pending \subseteq Users
    /\ MaxMarks \in Nat /\ MaxFaults \in Nat
    /\ IsFiniteSet(Rows) /\ IsFiniteSet(Requests)

VARIABLES
    accounts,   \* collection tenant_users, what is read of it here
    rows,       \* collection employee_eligibility, by _id
    audit,      \* collection eligibility_audit_events: how many of each action
    req,        \* the requests in flight: where each is and what it has read
    faults,     \* number of faults injected so far
    unlogged,   \* history: accounts one of whose marks was not logged
    barred      \* history: what has stood in the way ever since a request arrived

state == <<accounts, rows, audit, req, faults, unlogged>>

vars == <<accounts, rows, audit, req, faults, unlogged, barred>>

-----------------------------------------------------------------------------
(* Documents *)

Row ==
    [state     : {"unused", "present", "deleted"},
     tenant    : Tenants \cup {None},
     user      : Users \cup {None},
     updatedBy : Users \cup {None}]

UnusedRow == [state |-> "unused", tenant |-> None, user |-> None, updatedBy |-> None]

\* findOne({ tenantId, userId }) and the key of the unique index
RowsFor(tenant, u) ==
    {i \in Rows : rows[i].state = "present" /\ rows[i].tenant = tenant /\ rows[i].user = u}

\* Mutant: the snapshot does not say whether the account is active.
AccountObstaclesUnlessInactive(u) ==
    {o \in {"pending"} : accounts[u].pending}

\* What getTenantUserBenefitSnapshot finds against an account.
AccountObstacles(u) ==
    {o \in {"inactive"} : ~accounts[u].active} \cup {o \in {"pending"} : accounts[u].pending}

Obstacles(tenant, u) ==
    {o \in {"inactive"} : ~accounts[u].active} \cup {o \in {"pending"} : accounts[u].pending}
      \cup {o \in {"norow"} : RowsFor(tenant, u) = {}}

-----------------------------------------------------------------------------
(* Requests *)

Points == {"idle", "find", "create", "save", "audit", "readback", "row", "handler"}

Codes == {"none", "ok", "FORBIDDEN", "NOT_FOUND", "CONFLICT", "NOT_ELIGIBLE",
          "not_eligible", "pending", "eligible", "error", "lost"}

Request ==
    [pc     : Points,
     op     : {"none", "mark", "remove", "status", "benefit"},
     actor  : Users \cup {None},
     tenant : Tenants \cup {None},
     user   : Users \cup {None},
     row    : Rows \cup {None},     \* the document findOne returned
     reply  : Codes]

Idle ==
    [pc |-> "idle", op |-> "none", actor |-> None, tenant |-> None, user |-> None,
     row |-> None, reply |-> "none"]

InFlight(r) == req[r].pc # "idle"

Reply(r, code) == req' = [req EXCEPT ![r] = [Idle EXCEPT !.reply = code]]

Goto(r, point) == req' = [req EXCEPT ![r].pc = point]

Arrive(r, point, op, actor, tenant, u) ==
    req' = [req EXCEPT ![r] =
       [Idle EXCEPT !.pc = point, !.op = op, !.actor = actor, !.tenant = tenant, !.user = u]]

\* The payloads of the access tokens there may be.  Login asks for an accepted
\* invite; the account may have been switched off since.
Sessions ==
    UNION {{Payload(u, TenantOf[u], RolesOf[u], c) : c \in SignsInTo(TenantOf[u], RolesOf[u])} :
           u \in {v \in Users : ~accounts[v].pending}}

Of(op, u) == {r \in Requests : req[r].op = op /\ req[r].user = u /\ req[r].pc = "audit"}

-----------------------------------------------------------------------------
(* markEligible *)

\* assertCollaboratorInTenant
CollaboratorInTenant(tenant, u) ==
    TenantOf[u] = tenant /\ accounts[u].active /\ "collaborator" \in RolesOf[u]

\* Bound: an account is marked at most MaxMarks times.
MarkLeft(u) ==
    audit[u].marked + Cardinality({r \in Requests : req[r].op = "mark" /\ req[r].user = u})
      < MaxMarks

BeginMark(r, p, tenant, u) ==
    /\ ~InFlight(r)
    /\ \/ ~PassesHrGuards(p, tenant) /\ Reply(r, "FORBIDDEN")
       \/ PassesHrGuards(p, tenant) /\ ~CollaboratorInTenant(tenant, u) /\ Reply(r, "NOT_FOUND")
       \/ /\ PassesHrGuards(p, tenant) /\ CollaboratorInTenant(tenant, u)
          /\ MarkLeft(u)
          /\ Arrive(r, "find", "mark", p.sub, tenant, u)
    /\ UNCHANGED <<accounts, rows, audit, faults, unlogged>>

FindRow(r) ==
    LET q == req[r] IN
    /\ q.pc = "find"
    /\ \/ RowsFor(q.tenant, q.user) = {} /\ Goto(r, "create")
       \/ \E i \in RowsFor(q.tenant, q.user) :
            req' = [req EXCEPT ![r].pc = "save", ![r].row = i]
    /\ UNCHANGED <<accounts, rows, audit, faults, unlogged>>

Insert(r, i) ==
    /\ rows[i].state = "unused"
    /\ rows' = [rows EXCEPT ![i] = [state |-> "present", tenant |-> req[r].tenant,
                                    user |-> req[r].user, updatedBy |-> req[r].actor]]
    /\ Goto(r, "audit")

\* Mutant: no unique index.
CreateTwice(r) ==
    /\ req[r].pc = "create"
    /\ \E i \in Rows : Insert(r, i)
    /\ UNCHANGED <<accounts, audit, faults, unlogged>>

\* The unique index rejects a second row; nothing maps its error.  Bound: the
\* pool must hold a document.
CreateRow(r) ==
    LET taken == RowsFor(req[r].tenant, req[r].user) # {} IN
    /\ req[r].pc = "create"
    /\ \/ taken /\ Reply(r, "error") /\ UNCHANGED rows
       \/ ~taken /\ \E i \in Rows : Insert(r, i)
    /\ UNCHANGED <<accounts, audit, faults, unlogged>>

\* existing.save(): by _id; a document that is gone is an error.
SaveRow(r) ==
    LET i == req[r].row IN
    /\ req[r].pc = "save"
    /\ \/ rows[i].state # "present" /\ Reply(r, "error") /\ UNCHANGED rows
       \/ /\ rows[i].state = "present"
          /\ rows' = [rows EXCEPT ![i].updatedBy = req[r].actor]
          /\ Goto(r, "audit")
    /\ UNCHANGED <<accounts, audit, faults, unlogged>>

\* writeAudit, of a mark and of a removal
WriteAudit(r) ==
    LET u == req[r].user IN
    /\ req[r].pc = "audit"
    /\ \/ /\ req[r].op = "mark"
          /\ audit' = [audit EXCEPT ![u].marked = @ + 1]
          /\ Goto(r, "readback")
       \/ /\ req[r].op = "remove"
          /\ audit' = [audit EXCEPT ![u].removed = @ + 1]
          /\ Reply(r, "ok")
    /\ UNCHANGED <<accounts, rows, faults, unlogged>>

ReadBack(r) ==
    /\ req[r].pc = "readback"
    /\ Reply(r, IF RowsFor(req[r].tenant, req[r].user) = {} THEN "CONFLICT" ELSE "ok")
    /\ UNCHANGED <<accounts, rows, audit, faults, unlogged>>

-----------------------------------------------------------------------------
(* removeEligible *)

\* Mutant: a removal that finds nothing is logged too.
RemoveAnyway(r, p, tenant, u) ==
    /\ ~InFlight(r)
    /\ PassesHrGuards(p, tenant)
    /\ rows' = [i \in Rows |-> IF i \in RowsFor(tenant, u)
                                 THEN [rows[i] EXCEPT !.state = "deleted"] ELSE rows[i]]
    /\ Arrive(r, "audit", "remove", p.sub, tenant, u)
    /\ UNCHANGED <<accounts, audit, faults, unlogged>>

\* Up to the result of deleteOne.
BeginRemove(r, p, tenant, u) ==
    /\ ~InFlight(r)
    /\ \/ ~PassesHrGuards(p, tenant) /\ Reply(r, "FORBIDDEN") /\ UNCHANGED rows
       \/ /\ PassesHrGuards(p, tenant) /\ RowsFor(tenant, u) = {}
          /\ Reply(r, "NOT_FOUND") /\ UNCHANGED rows
       \/ /\ PassesHrGuards(p, tenant)
          /\ \E i \in RowsFor(tenant, u) : rows' = [rows EXCEPT ![i].state = "deleted"]
          /\ Arrive(r, "audit", "remove", p.sub, tenant, u)
    /\ UNCHANGED <<accounts, audit, faults, unlogged>>

-----------------------------------------------------------------------------
(* assertBenefitAccessAllowed and getSelfEligibilityStatus *)

\* Up to the snapshot of the account; the guards have seen that it is a
\* collaborator of the tenant, and roles do not change.
BeginBenefit(r, p, tenant) ==
    /\ ~InFlight(r)
    /\ \/ ~PassesIcGuards(p, tenant) /\ Reply(r, "FORBIDDEN")
       \/ PassesIcGuards(p, tenant) /\ AccountObstacles(p.sub) # {} /\ Reply(r, "FORBIDDEN")
       \/ /\ PassesIcGuards(p, tenant) /\ AccountObstacles(p.sub) = {}
          /\ Arrive(r, "row", "benefit", p.sub, p.tenantId, p.sub)
    /\ UNCHANGED <<accounts, rows, audit, faults, unlogged>>

BeginStatus(r, p, tenant) ==
    /\ ~InFlight(r)
    /\ PassesIcGuards(p, tenant)
    /\ \/ /\ AccountObstacles(p.sub) # {}
          /\ Reply(r, IF "inactive" \in AccountObstacles(p.sub) THEN "not_eligible" ELSE "pending")
       \/ /\ AccountObstacles(p.sub) = {}
          /\ Arrive(r, "row", "status", p.sub, p.tenantId, p.sub)
    /\ UNCHANGED <<accounts, rows, audit, faults, unlogged>>

\* The second read of both.
ReadRow(r) ==
    LET q    == req[r]
        none == RowsFor(q.tenant, q.user) = {} IN
    /\ q.pc = "row"
    /\ \/ q.op = "benefit" /\ none /\ Reply(r, "NOT_ELIGIBLE")
       \/ q.op = "benefit" /\ ~none /\ Goto(r, "handler")
       \/ q.op = "status" /\ Reply(r, IF none THEN "not_eligible" ELSE "eligible")
    /\ UNCHANGED <<accounts, rows, audit, faults, unlogged>>

\* What the route does for an eligible employee.
Handle(r) ==
    /\ req[r].pc = "handler"
    /\ Reply(r, "ok")
    /\ UNCHANGED <<accounts, rows, audit, faults, unlogged>>

-----------------------------------------------------------------------------
(* Accounts and faults *)

SetActive(u, active) ==
    /\ accounts[u].active # active
    /\ accounts' = [accounts EXCEPT ![u].active = active]
    /\ UNCHANGED <<rows, audit, req, faults, unlogged>>

AcceptInvite(u) ==
    /\ accounts[u].pending
    /\ accounts' = [accounts EXCEPT ![u].pending = FALSE]
    /\ UNCHANGED <<rows, audit, req, faults, unlogged>>

\* The next operation is rejected, or the process dies before it.
Abort(r, kind) ==
    /\ InFlight(r)
    /\ kind \in FaultKinds /\ faults < MaxFaults
    /\ faults' = faults + 1
    /\ unlogged' = IF req[r].pc = "audit" /\ req[r].op = "mark"
                     THEN unlogged \cup {req[r].user} ELSE unlogged
    /\ Reply(r, IF kind = "crash" THEN "lost" ELSE "error")
    /\ UNCHANGED <<accounts, rows, audit>>

-----------------------------------------------------------------------------
Init ==
    /\ accounts = [u \in Users |-> [active |-> TRUE, pending |-> u \in Pending]]
    /\ rows = [i \in Rows |-> UnusedRow]
    /\ audit = [u \in Users |-> [marked |-> 0, removed |-> 0]]
    /\ req = [r \in Requests |-> Idle]
    /\ faults = 0
    /\ unlogged = {}
    /\ barred = [r \in Requests |-> {}]

Advance(r) ==
    \/ FindRow(r) \/ CreateRow(r) \/ SaveRow(r) \/ WriteAudit(r) \/ ReadBack(r)
    \/ ReadRow(r) \/ Handle(r)

\* The history of benefit requests: an obstacle counts for as long as it has
\* stood since the request arrived.
Observe ==
    barred' = [r \in Requests |->
        IF req'[r].op # "benefit" THEN {}
        ELSE LET now == Obstacles(req[r].tenant, req[r].user)' IN
             IF req[r].op # "benefit" THEN now ELSE barred[r] \cap now]

Step ==
    \/ \E r \in Requests :
         \/ Advance(r)
         \/ \E kind \in FaultKinds : Abort(r, kind)
         \/ \E p \in Sessions, tenant \in Tenants :
              \/ BeginBenefit(r, p, tenant) \/ BeginStatus(r, p, tenant)
              \/ \E u \in Users : BeginMark(r, p, tenant, u) \/ BeginRemove(r, p, tenant, u)
    \/ \E u \in Users : AcceptInvite(u) \/ \E active \in BOOLEAN : SetActive(u, active)

Next == Step /\ Observe

Spec == Init /\ [][Next]_vars

-----------------------------------------------------------------------------
(* Properties *)

\* Accounts, rows, counts of events and requests keep their shapes.
TypeOK ==
    /\ accounts \in [Users -> [active : BOOLEAN, pending : BOOLEAN]]
    /\ rows \in [Rows -> Row]
    /\ audit \in [Users -> [marked : Nat, removed : Nat]]
    /\ req \in [Requests -> Request]
    /\ faults \in Nat
    /\ unlogged \subseteq Users
    /\ barred \in [Requests -> SUBSET {"inactive", "pending", "norow"}]

\* Nobody is marked twice, however many marks race: removing the row removes the
\* benefit.
OneRowPerEmployee ==
    \A i, j \in Rows :
        /\ rows[i].state = "present" /\ rows[j].state = "present"
        /\ rows[i].tenant = rows[j].tenant /\ rows[i].user = rows[j].user
        => i = j

\* No eligibility crosses tenants: a row is of a collaborator of its tenant, and
\* only HR of that tenant has written it.
RowsStayInTenant ==
    \A i \in Rows : rows[i].state # "unused" =>
        LET d == rows[i] IN
        /\ TenantOf[d.user] = d.tenant /\ "collaborator" \in RolesOf[d.user]
        /\ TenantOf[d.updatedBy] = d.tenant /\ "hr_admin" \in RolesOf[d.updatedBy]

\* The log explains the rows: every removal in it, or about to be, and the row
\* there is, have a mark that is in it or about to be, unless a fault kept a mark
\* from being logged.
AuditExplainsRows ==
    \A u \in Users : u \notin unlogged =>
        audit[u].removed + Cardinality(Of("remove", u)) + Cardinality(RowsFor(TenantOf[u], u))
          =< audit[u].marked + Cardinality(Of("mark", u))

\* A benefit handler runs only if each obstacle (an inactive account, an open
\* invite, no row) was out of the way at some moment since the request arrived:
\* one that stood all the time, however the reads and writes fall, stops it.
NoEntryWhileBarred == \A r \in Requests : req[r].pc = "handler" => barred[r] = {}

-----------------------------------------------------------------------------
(* The inductive invariant of EligibilityProofs *)

\* What a request in flight carries: an actor of the tenant; to write with, HR, a
\* collaborator, and the row that was found.
Carries(q) ==
    /\ q.pc = "idle" => q.op = "none"
    /\ q.pc # "idle" => q.user \in Users /\ q.actor \in Users /\ q.tenant = TenantOf[q.actor]
    /\ q.pc \in {"find", "create", "save"} =>
         /\ q.op = "mark"
         /\ TenantOf[q.user] = q.tenant /\ "collaborator" \in RolesOf[q.user]
         /\ "hr_admin" \in RolesOf[q.actor]
    /\ q.pc = "save" =>
         q.row \in Rows /\ rows[q.row].state # "unused" /\ rows[q.row].tenant = q.tenant

RequestsCarry == \A r \in Requests : Carries(req[r])

RowsOwned ==
    \A i \in Rows : rows[i].state # "unused" => rows[i].user \in Users /\ rows[i].updatedBy \in Users

\* The snapshot has cleared the account; the second read clears the row.
BarsFall ==
    \A r \in Requests : req[r].pc = "row" /\ req[r].op = "benefit" => barred[r] \subseteq {"norow"}

IInv ==
    /\ TypeOK
    /\ RequestsCarry
    /\ RowsOwned
    /\ OneRowPerEmployee
    /\ RowsStayInTenant
    /\ BarsFall
    /\ NoEntryWhileBarred

=============================================================================
