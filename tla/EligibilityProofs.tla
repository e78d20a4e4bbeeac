------------------------- MODULE EligibilityProofs -------------------------
(***************************************************************************)
(* What Eligibility promises for any number of accounts, tenants, rows and *)
(* requests: one row per employee, no row across tenants, and no benefit   *)
(* for whom something stood in the way all along.                          *)
(***************************************************************************)
EXTENDS Eligibility, FiniteSetTheorems, TLAPS

-----------------------------------------------------------------------------
(* Who gets past the guards *)

LEMMA SessionsAreOwn ==
    ASSUME NEW p \in Sessions
    PROVE  /\ p.sub \in Users
           /\ p.tenantId = TenantOf[p.sub]
           /\ p.roles = RolesOf[p.sub]
BY DEF Sessions, Payload

LEMMA HrActsAtHome ==
    ASSUME NEW p \in Sessions, NEW tenant, PassesHrGuards(p, tenant)
    PROVE  p.sub \in Users /\ TenantOf[p.sub] = tenant /\ "hr_admin" \in RolesOf[p.sub]
BY SessionsAreOwn DEF PassesHrGuards, TenantIdParam, RequireRoles

-----------------------------------------------------------------------------
(* Typing of the pieces *)

LEMMA AnswerTyped ==
    ASSUME NEW code \in Codes
    PROVE  /\ [Idle EXCEPT !.reply = code] \in Request
           /\ [Idle EXCEPT !.reply = code].pc = "idle"
           /\ Carries([Idle EXCEPT !.reply = code])
           /\ Carries([Idle EXCEPT !.reply = code])'
BY DEF Idle, Request, Points, Codes, Carries

\* The invariant but for the history.
DataTyped ==
    /\ accounts \in [Users -> [active : BOOLEAN, pending : BOOLEAN]]
    /\ rows \in [Rows -> Row]
    /\ audit \in [Users -> [marked : Nat, removed : Nat]]
    /\ req \in [Requests -> Request]
    /\ faults \in Nat
    /\ unlogged \subseteq Users

Core == DataTyped /\ RequestsCarry /\ RowsOwned /\ OneRowPerEmployee /\ RowsStayInTenant

LEMMA CoreOfIInv == IInv => Core
BY DEF IInv, Core, TypeOK, DataTyped

-----------------------------------------------------------------------------
(* What steps have in common *)

\* No row is forgotten or moves to another tenant.
RowsMoveOn ==
    \A i \in Rows : rows[i].state # "unused" =>
        rows'[i].state # "unused" /\ rows'[i].tenant = rows[i].tenant

LEMMA OthersCarry ==
    ASSUME DataTyped, RequestsCarry, RowsMoveOn,
           NEW r \in Requests, NEW q \in Request,
           req' = [req EXCEPT ![r] = q], Carries(q)'
    PROVE  RequestsCarry'
<1>1. ASSUME NEW x \in Requests
      PROVE  Carries(req[x])'
  <2>1. CASE x = r
    BY <2>1 DEF DataTyped
  <2>2. CASE x # r
    <3>1. PICK y \in Request : y = req[x] /\ y = req'[x] /\ Carries(y)
      BY <2>2 DEF DataTyped, RequestsCarry
    <3> QED
      BY <3>1 DEF RowsMoveOn, Carries
  <2> QED
    BY <2>1, <2>2
<1> QED
  BY <1>1 DEF RequestsCarry

\* A request moves and the rows stay.
LEMMA MoveStep ==
    ASSUME Core, UNCHANGED rows, DataTyped',
           NEW r \in Requests, NEW q \in Request,
           req' = [req EXCEPT ![r] = q], Carries(q)
    PROVE  Core'
<1>1. RowsMoveOn /\ Carries(q)'
  BY DEF RowsMoveOn, Carries
<1>2. RequestsCarry'
  BY <1>1, OthersCarry DEF Core
<1>3. RowsOwned' /\ OneRowPerEmployee' /\ RowsStayInTenant'
  BY DEF Core, RowsOwned, OneRowPerEmployee, RowsStayInTenant
<1> QED
  BY <1>2, <1>3 DEF Core

LEMMA ReadStep ==
    ASSUME Core, UNCHANGED <<accounts, rows, audit, faults, unlogged>>,
           NEW r \in Requests, NEW q \in Request,
           req' = [req EXCEPT ![r] = q], Carries(q)
    PROVE  Core'
<1>1. DataTyped'
  BY DEF Core, DataTyped
<1> QED
  BY <1>1, MoveStep

LEMMA AnswerStep ==
    ASSUME Core, UNCHANGED <<accounts, rows, audit, faults, unlogged>>,
           NEW r \in Requests, NEW code \in Codes, Reply(r, code)
    PROVE  Core'
BY AnswerTyped, ReadStep DEF Reply

\* No row changes but one, which stays what it was or is deleted or renewed.
LEMMA RowStep ==
    ASSUME Core, UNCHANGED <<accounts, audit, faults, unlogged>>,
           NEW r \in Requests, NEW q \in Request,
           req' = [req EXCEPT ![r] = q], Carries(q)', q.pc = "audit",
           NEW i \in Rows, NEW d \in Row,
           rows' = [rows EXCEPT ![i] = d],
           d.state # "unused", d.user \in Users, d.updatedBy \in Users,
           rows[i].state # "unused" => d.tenant = rows[i].tenant,
           TenantOf[d.user] = d.tenant, "collaborator" \in RolesOf[d.user],
           TenantOf[d.updatedBy] = d.tenant, "hr_admin" \in RolesOf[d.updatedBy],
           d.state = "present" => RowsFor(d.tenant, d.user) \subseteq {i}
    PROVE  Core'
<1>1. DataTyped'
  BY DEF Core, DataTyped
<1>2. RowsMoveOn
  BY DEF RowsMoveOn, Core, DataTyped
<1>3. RequestsCarry'
  BY <1>2, OthersCarry DEF Core
<1>4. \A j \in Rows : rows'[j] = IF j = i THEN d ELSE rows[j]
  BY DEF Core, DataTyped
<1>5. RowsOwned' /\ RowsStayInTenant'
  BY <1>4 DEF Core, RowsOwned, RowsStayInTenant
<1>6. OneRowPerEmployee'
  BY <1>4 DEF Core, OneRowPerEmployee, RowsFor
<1> QED
  BY <1>1, <1>3, <1>5, <1>6 DEF Core

-----------------------------------------------------------------------------
(* One lemma per action *)

LEMMA BeginMarkStep ==
    ASSUME Core, NEW r \in Requests, NEW p \in Sessions, NEW tenant \in Tenants,
           NEW u \in Users, BeginMark(r, p, tenant, u)
    PROVE  Core'
<1>1. CASE Reply(r, "FORBIDDEN") \/ Reply(r, "NOT_FOUND")
  BY <1>1, AnswerStep DEF BeginMark, Codes
<1>2. CASE /\ PassesHrGuards(p, tenant) /\ CollaboratorInTenant(tenant, u)
           /\ Arrive(r, "find", "mark", p.sub, tenant, u)
  <2> DEFINE q == [Idle EXCEPT !.pc = "find", !.op = "mark", !.actor = p.sub,
                               !.tenant = tenant, !.user = u]
  <2>1. p.sub \in Users /\ TenantOf[p.sub] = tenant /\ "hr_admin" \in RolesOf[p.sub]
    BY <1>2, HrActsAtHome
  <2>2. q \in Request
    BY <2>1 DEF Idle, Request, Points, Codes
  <2>3. Carries(q)
    BY <1>2, <2>1 DEF Idle, Carries, CollaboratorInTenant
  <2> QED
    BY <1>2, <2>2, <2>3, ReadStep DEF Arrive, BeginMark
<1> QED
  BY <1>1, <1>2 DEF BeginMark

LEMMA FindRowStep ==
    ASSUME Core, NEW r \in Requests, FindRow(r)
    PROVE  Core'
<1>1. req[r] \in Request /\ Carries(req[r]) /\ req[r].pc = "find"
  BY DEF Core, DataTyped, RequestsCarry, FindRow
<1>2. CASE Goto(r, "create")
  <2>1. PICK q \in Request : q = [req[r] EXCEPT !.pc = "create"]
    BY <1>1 DEF Request, Points
  <2>2. Carries(q) /\ req' = [req EXCEPT ![r] = q]
    BY <1>1, <1>2, <2>1 DEF Carries, Goto, Request
  <2> QED
    BY <2>2, ReadStep DEF FindRow
<1>3. ASSUME NEW i \in RowsFor(req[r].tenant, req[r].user),
             req' = [req EXCEPT ![r].pc = "save", ![r].row = i]
      PROVE  Core'
  <2>1. PICK q \in Request : q = [req[r] EXCEPT !.pc = "save", !.row = i]
    BY <1>1 DEF Request, Points, RowsFor
  <2>2. Carries(q)
    BY <1>1, <2>1 DEF Carries, Request, RowsFor
  <2>3. req' = [req EXCEPT ![r] = q]
    BY <1>3, <2>1 DEF Core, DataTyped
  <2> QED
    BY <2>2, <2>3, ReadStep DEF FindRow
<1> QED
  BY <1>2, <1>3 DEF FindRow

LEMMA CreateRowStep ==
    ASSUME Core, NEW r \in Requests, CreateRow(r)
    PROVE  Core'
<1>1. /\ req[r] \in Request /\ Carries(req[r]) /\ req[r].pc = "create"
      /\ req[r].user \in Users /\ req[r].actor \in Users
  BY DEF Core, DataTyped, RequestsCarry, CreateRow, Carries
<1>2. CASE Reply(r, "error") /\ UNCHANGED rows
  BY <1>2, AnswerStep DEF CreateRow, Codes
<1>3. ASSUME RowsFor(req[r].tenant, req[r].user) = {}, NEW i \in Rows, Insert(r, i)
      PROVE  Core'
  <2>1. PICK q \in Request : q = [req[r] EXCEPT !.pc = "audit"]
    BY <1>1 DEF Request, Points
  <2>2. Carries(q)' /\ req' = [req EXCEPT ![r] = q] /\ q.pc = "audit"
    BY <1>1, <1>3, <2>1 DEF Carries, Goto, Request, Insert
  <2>3. PICK d \in Row : d = [state |-> "present", tenant |-> req[r].tenant,
                              user |-> req[r].user, updatedBy |-> req[r].actor]
    BY <1>1 DEF Row, Request
  <2>4. rows' = [rows EXCEPT ![i] = d] /\ rows[i].state = "unused"
    BY <1>3, <2>3 DEF Insert
  <2>5. /\ d.state = "present" /\ d.user \in Users /\ d.updatedBy \in Users
        /\ TenantOf[d.user] = d.tenant /\ "collaborator" \in RolesOf[d.user]
        /\ TenantOf[d.updatedBy] = d.tenant /\ "hr_admin" \in RolesOf[d.updatedBy]
        /\ RowsFor(d.tenant, d.user) \subseteq {i}
    BY <1>1, <1>3, <2>3 DEF Carries
  <2> QED
    BY <2>2, <2>4, <2>5, RowStep DEF CreateRow
<1> QED
  BY <1>2, <1>3 DEF CreateRow

LEMMA SaveRowStep ==
    ASSUME Core, NEW r \in Requests, SaveRow(r)
    PROVE  Core'
<1>1. req[r] \in Request /\ Carries(req[r]) /\ req[r].pc = "save"
  BY DEF Core, DataTyped, RequestsCarry, SaveRow
<1>2. PICK i \in Rows : i = req[r].row /\ rows[i].tenant = req[r].tenant
  BY <1>1 DEF Carries
<1>3. CASE Reply(r, "error") /\ UNCHANGED rows
  BY <1>3, AnswerStep DEF SaveRow, Codes
<1>4. CASE /\ rows[i].state = "present" /\ Goto(r, "audit")
           /\ rows' = [rows EXCEPT ![i].updatedBy = req[r].actor]
  <2>1. PICK q \in Request : q = [req[r] EXCEPT !.pc = "audit"]
    BY <1>1 DEF Request, Points
  <2>2. Carries(q)' /\ req' = [req EXCEPT ![r] = q] /\ q.pc = "audit"
    BY <1>1, <1>4, <2>1 DEF Carries, Goto, Request
  <2>3. rows[i] \in Row /\ req[r].actor \in Users
    BY <1>1 DEF Core, DataTyped, Carries
  <2>4. PICK d \in Row : d = [rows[i] EXCEPT !.updatedBy = req[r].actor]
    BY <2>3 DEF Row
  <2>5. rows' = [rows EXCEPT ![i] = d]
    BY <1>4, <2>4 DEF Core, DataTyped
  <2>6. /\ d.state = "present" /\ d.tenant = rows[i].tenant /\ d.user = rows[i].user
        /\ d.updatedBy = req[r].actor
    BY <1>4, <2>3, <2>4 DEF Row
  <2>7. /\ d.user \in Users /\ d.updatedBy \in Users
        /\ TenantOf[d.user] = d.tenant /\ "collaborator" \in RolesOf[d.user]
        /\ TenantOf[d.updatedBy] = d.tenant /\ "hr_admin" \in RolesOf[d.updatedBy]
    BY <1>1, <1>2, <1>4, <2>6 DEF Core, RowsOwned, RowsStayInTenant, Carries
  <2>8. RowsFor(d.tenant, d.user) \subseteq {i}
    BY <1>4, <2>6 DEF RowsFor, Core, OneRowPerEmployee
  <2> QED
    BY <1>4, <2>2, <2>5, <2>6, <2>7, <2>8, RowStep DEF SaveRow
<1> QED
  BY <1>2, <1>3, <1>4 DEF SaveRow

LEMMA BeginRemoveStep ==
    ASSUME Core, NEW r \in Requests, NEW p \in Sessions, NEW tenant \in Tenants,
           NEW u \in Users, BeginRemove(r, p, tenant, u)
    PROVE  Core'
<1>1. CASE (Reply(r, "FORBIDDEN") \/ Reply(r, "NOT_FOUND")) /\ UNCHANGED rows
  BY <1>1, AnswerStep DEF BeginRemove, Codes
<1>2. ASSUME PassesHrGuards(p, tenant), NEW i \in RowsFor(tenant, u),
             rows' = [rows EXCEPT ![i].state = "deleted"],
             Arrive(r, "audit", "remove", p.sub, tenant, u)
      PROVE  Core'
  <2> DEFINE q == [Idle EXCEPT !.pc = "audit", !.op = "remove", !.actor = p.sub,
                               !.tenant = tenant, !.user = u]
  <2>1. p.sub \in Users /\ TenantOf[p.sub] = tenant
    BY <1>2, HrActsAtHome
  <2>2. q \in Request /\ Carries(q)' /\ q.pc = "audit" /\ req' = [req EXCEPT ![r] = q]
    BY <1>2, <2>1 DEF Idle, Request, Points, Codes, Carries, Arrive
  <2> HIDE DEF q
  <2>3. i \in Rows /\ rows[i] \in Row /\ rows[i].state = "present"
    BY DEF RowsFor, Core, DataTyped
  <2>4. PICK d \in Row : d = [rows[i] EXCEPT !.state = "deleted"]
    BY <2>3 DEF Row
  <2>5. rows' = [rows EXCEPT ![i] = d]
    BY <1>2, <2>3, <2>4 DEF Core, DataTyped
  <2>6. /\ d.state = "deleted" /\ d.tenant = rows[i].tenant /\ d.user = rows[i].user
        /\ d.updatedBy = rows[i].updatedBy
    BY <2>3, <2>4 DEF Row
  <2>7. /\ d.user \in Users /\ d.updatedBy \in Users
        /\ TenantOf[d.user] = d.tenant /\ "collaborator" \in RolesOf[d.user]
        /\ TenantOf[d.updatedBy] = d.tenant /\ "hr_admin" \in RolesOf[d.updatedBy]
    BY <2>3, <2>6 DEF Core, RowsOwned, RowsStayInTenant
  <2> QED
    BY <2>2, <2>3, <2>5, <2>6, <2>7, RowStep DEF BeginRemove
<1> QED
  BY <1>1, <1>2 DEF BeginRemove

LEMMA WriteAuditStep ==
    ASSUME Core, NEW r \in Requests, WriteAudit(r)
    PROVE  Core'
<1>1. req[r] \in Request /\ Carries(req[r]) /\ req[r].pc = "audit" /\ req[r].user \in Users
  BY DEF Core, DataTyped, RequestsCarry, WriteAudit, Carries
<1>2. PICK q \in Request : req' = [req EXCEPT ![r] = q] /\ Carries(q)
  <2>1. CASE Goto(r, "readback")
    <3>1. PICK q \in Request : q = [req[r] EXCEPT !.pc = "readback"]
      BY <1>1 DEF Request, Points
    <3> QED
      BY <1>1, <2>1, <3>1 DEF Goto, Carries, Request
  <2>2. CASE Reply(r, "ok")
    BY <2>2, AnswerTyped DEF Reply, Codes
  <2> QED
    BY <2>1, <2>2 DEF WriteAudit
<1>3. audit' \in [Users -> [marked : Nat, removed : Nat]]
  <2> DEFINE u == req[r].user
  <2>1. u \in Users /\ audit[u] \in [marked : Nat, removed : Nat]
    BY <1>1 DEF Core, DataTyped
  <2>2. CASE audit' = [audit EXCEPT ![u].marked = @ + 1]
    BY <2>1, <2>2 DEF Core, DataTyped
  <2>3. CASE audit' = [audit EXCEPT ![u].removed = @ + 1]
    BY <2>1, <2>3 DEF Core, DataTyped
  <2> QED
    BY <2>2, <2>3 DEF WriteAudit
<1>4. DataTyped'
  BY <1>2, <1>3 DEF Core, DataTyped, WriteAudit
<1> QED
  BY <1>2, <1>4, MoveStep DEF WriteAudit

LEMMA BeginReadStep ==
    ASSUME Core, NEW r \in Requests, NEW p \in Sessions, NEW tenant \in Tenants,
           BeginBenefit(r, p, tenant) \/ BeginStatus(r, p, tenant)
    PROVE  Core'
<1> DEFINE q(op) == [Idle EXCEPT !.pc = "row", !.op = op, !.actor = p.sub,
                                 !.tenant = p.tenantId, !.user = p.sub]
<1>1. CASE Reply(r, "FORBIDDEN") \/ Reply(r, "not_eligible") \/ Reply(r, "pending")
  BY <1>1, AnswerStep DEF BeginBenefit, BeginStatus, Codes
<1>2. ASSUME NEW op \in {"status", "benefit"}, PassesIcGuards(p, tenant),
             Arrive(r, "row", op, p.sub, p.tenantId, p.sub)
      PROVE  Core'
  <2>1. p.sub \in Users /\ p.tenantId = TenantOf[p.sub] /\ p.tenantId = tenant
    BY <1>2, SessionsAreOwn DEF PassesIcGuards, TenantIdParam
  <2>2. q(op) \in Request /\ Carries(q(op))
    BY <2>1 DEF Idle, Request, Points, Codes, Carries
  <2> QED
    BY <1>2, <2>2, ReadStep DEF Arrive, BeginBenefit, BeginStatus
<1> QED
  BY <1>1, <1>2 DEF BeginBenefit, BeginStatus

LEMMA AnsweringSteps ==
    ASSUME Core, NEW r \in Requests, ReadBack(r) \/ ReadRow(r) \/ Handle(r)
    PROVE  Core'
<1>1. CASE \E code \in Codes : Reply(r, code)
  BY <1>1, AnswerStep DEF ReadBack, ReadRow, Handle
<1>2. CASE Goto(r, "handler") /\ ReadRow(r)
  <2>1. req[r] \in Request /\ Carries(req[r]) /\ req[r].pc = "row"
    BY <1>2 DEF Core, DataTyped, RequestsCarry, ReadRow
  <2>2. PICK q \in Request : q = [req[r] EXCEPT !.pc = "handler"]
    BY <2>1 DEF Request, Points
  <2>3. Carries(q) /\ req' = [req EXCEPT ![r] = q]
    BY <1>2, <2>1, <2>2 DEF Carries, Goto, Request
  <2> QED
    BY <1>2, <2>3, ReadStep DEF ReadRow
<1> QED
  BY <1>1, <1>2 DEF ReadBack, ReadRow, Handle, Codes

LEMMA AccountStep ==
    ASSUME Core, NEW u \in Users,
           AcceptInvite(u) \/ \E active \in BOOLEAN : SetActive(u, active)
    PROVE  Core'
<1>1. UNCHANGED <<rows, audit, req, faults, unlogged>>
  BY DEF AcceptInvite, SetActive
<1>2. accounts' \in [Users -> [active : BOOLEAN, pending : BOOLEAN]]
  <2>1. accounts \in [Users -> [active : BOOLEAN, pending : BOOLEAN]]
    BY DEF Core, DataTyped
  <2>2. CASE AcceptInvite(u)
    BY <2>1, <2>2 DEF AcceptInvite
  <2>3. ASSUME NEW active \in BOOLEAN, SetActive(u, active)
        PROVE  accounts' \in [Users -> [active : BOOLEAN, pending : BOOLEAN]]
    BY <2>1, <2>3 DEF SetActive
  <2> QED
    BY <2>2, <2>3
<1>3. RequestsCarry' /\ RowsOwned' /\ OneRowPerEmployee' /\ RowsStayInTenant'
  BY <1>1 DEF Core, RequestsCarry, Carries, RowsOwned, OneRowPerEmployee, RowsStayInTenant
<1> QED
  BY <1>1, <1>2, <1>3 DEF Core, DataTyped

LEMMA AbortStep ==
    ASSUME Core, NEW r \in Requests, NEW kind \in FaultKinds, Abort(r, kind)
    PROVE  Core'
<1>1. PICK q \in Request : req' = [req EXCEPT ![r] = q] /\ Carries(q)
  BY AnswerTyped DEF Abort, Reply, Codes
<1>2. req[r].user \in Users
  BY DEF Core, RequestsCarry, Carries, Abort, InFlight
<1>3. DataTyped'
  BY <1>1, <1>2 DEF Core, DataTyped, Abort
<1> QED
  BY <1>1, <1>3, MoveStep DEF Abort

LEMMA CoreStep ==
    ASSUME Core, Step
    PROVE  Core'
<1>1. ASSUME NEW r \in Requests, Advance(r) PROVE Core'
  BY <1>1, FindRowStep, CreateRowStep, SaveRowStep, WriteAuditStep, AnsweringSteps DEF Advance
<1>2. ASSUME NEW r \in Requests, NEW kind \in FaultKinds, Abort(r, kind) PROVE Core'
  BY <1>2, AbortStep
<1>3. ASSUME NEW r \in Requests, NEW p \in Sessions, NEW tenant \in Tenants,
             \/ BeginBenefit(r, p, tenant) \/ BeginStatus(r, p, tenant)
             \/ \E u \in Users : BeginMark(r, p, tenant, u) \/ BeginRemove(r, p, tenant, u)
      PROVE  Core'
  BY <1>3, BeginReadStep, BeginMarkStep, BeginRemoveStep
<1>4. ASSUME NEW u \in Users, AcceptInvite(u) \/ \E active \in BOOLEAN : SetActive(u, active)
      PROVE  Core'
  BY <1>4, AccountStep
<1> QED
  BY <1>1, <1>2, <1>3, <1>4 DEF Step

-----------------------------------------------------------------------------
(* The history of the obstacles *)

\* A benefit request moves to its second read only past the snapshot, and to its
\* handler only past that read.
Entering(r) ==
    \/ \E p \in Sessions, tenant \in Tenants :
         BeginBenefit(r, p, tenant) /\ AccountObstacles(p.sub) = {}
           /\ Arrive(r, "row", "benefit", p.sub, p.tenantId, p.sub)
    \/ ReadRow(r) /\ Goto(r, "handler")

LEMMA OnlyByTheReads ==
    ASSUME Core, Step, NEW r \in Requests,
           req'[r].op = "benefit", req'[r].pc \in {"row", "handler"}
    PROVE  req'[r] = req[r] \/ Entering(r)
<1>1. ASSUME NEW x \in Requests, NEW q, req' = [req EXCEPT ![x] = q],
             q.pc \notin {"row", "handler"} \/ q.op # "benefit"
      PROVE  req'[r] = req[r]
  BY <1>1 DEF Core, DataTyped
<1>2. ASSUME NEW x \in Requests, NEW code, Reply(x, code)
      PROVE  req'[r] = req[r]
  <2>1. PICK q : q = [Idle EXCEPT !.reply = code]
    OBVIOUS
  <2>2. q.pc = "idle" /\ req' = [req EXCEPT ![x] = q]
    BY <1>2, <2>1 DEF Idle, Reply
  <2> QED
    BY <1>1, <2>2
<1>3. ASSUME NEW x \in Requests, NEW point \in {"create", "audit", "readback"}, Goto(x, point)
      PROVE  req'[r] = req[r]
  <2>1. PICK q : q = [req[x] EXCEPT !.pc = point]
    OBVIOUS
  <2>2. q.pc = point /\ req' = [req EXCEPT ![x] = q]
    BY <1>3, <2>1 DEF Core, DataTyped, Request, Goto
  <2>3. point \notin {"row", "handler"}
    OBVIOUS
  <2> QED
    BY <1>1, <2>2, <2>3
<1>4. ASSUME NEW x \in Requests, NEW point, NEW op, NEW actor, NEW tenant, NEW u,
             Arrive(x, point, op, actor, tenant, u),
             point \notin {"row", "handler"} \/ op # "benefit"
      PROVE  req'[r] = req[r]
  <2>1. PICK q : q = [Idle EXCEPT !.pc = point, !.op = op, !.actor = actor,
                                  !.tenant = tenant, !.user = u]
    OBVIOUS
  <2>2. q.pc = point /\ q.op = op /\ req' = [req EXCEPT ![x] = q]
    BY <1>4, <2>1 DEF Idle, Arrive
  <2> QED
    BY <1>1, <1>4, <2>2
<1>5. ASSUME NEW x \in Requests, FindRow(x) PROVE req'[r] = req[r]
  <2>1. CASE Goto(x, "create")
    BY <1>3, <2>1
  <2>2. ASSUME NEW i \in Rows, req' = [req EXCEPT ![x].pc = "save", ![x].row = i]
        PROVE  req'[r] = req[r]
    <3>1. req'[x].pc = "save"
      BY <2>2 DEF Core, DataTyped, Request
    <3> QED
      BY <2>2, <3>1 DEF Core, DataTyped
  <2> QED
    BY <1>5, <2>1, <2>2 DEF FindRow, RowsFor
<1>6. ASSUME NEW x \in Requests, CreateRow(x) \/ SaveRow(x) \/ WriteAudit(x)
      PROVE  req'[r] = req[r]
  <2>1. Goto(x, "audit") \/ Goto(x, "readback") \/ Reply(x, "error") \/ Reply(x, "ok")
    BY <1>6 DEF CreateRow, SaveRow, WriteAudit, Insert
  <2> QED
    BY <1>2, <1>3, <2>1
<1>7. ASSUME NEW x \in Requests, ReadBack(x) \/ Handle(x)
      PROVE  req'[r] = req[r]
  BY <1>2, <1>7 DEF ReadBack, Handle
<1>8. ASSUME NEW x \in Requests, ReadRow(x)
      PROVE  req'[r] = req[r] \/ Entering(r)
  <2>1. CASE Goto(x, "handler")
    <3>1. CASE x = r
      BY <1>8, <2>1, <3>1 DEF Entering
    <3>2. CASE x # r
      BY <2>1, <3>2 DEF Goto, Core, DataTyped
    <3> QED
      BY <3>1, <3>2
  <2> QED
    BY <1>2, <1>8, <2>1 DEF ReadRow
<1>9. ASSUME NEW x \in Requests, NEW kind \in FaultKinds, Abort(x, kind)
      PROVE  req'[r] = req[r]
  BY <1>2, <1>9 DEF Abort
<1>10. ASSUME NEW x \in Requests, NEW p \in Sessions, NEW tenant \in Tenants, NEW u \in Users,
              BeginMark(x, p, tenant, u) \/ BeginRemove(x, p, tenant, u)
       PROVE  req'[r] = req[r]
  <2>1. \/ Reply(x, "FORBIDDEN") \/ Reply(x, "NOT_FOUND")
        \/ Arrive(x, "find", "mark", p.sub, tenant, u)
        \/ Arrive(x, "audit", "remove", p.sub, tenant, u)
    BY <1>10 DEF BeginMark, BeginRemove
  <2>2. "mark" # "benefit" /\ "remove" # "benefit"
    OBVIOUS
  <2> QED
    BY <1>2, <1>4, <2>1, <2>2
<1>11. ASSUME NEW x \in Requests, NEW p \in Sessions, NEW tenant \in Tenants,
              BeginStatus(x, p, tenant)
       PROVE  req'[r] = req[r]
  <2>1. \/ Reply(x, "not_eligible") \/ Reply(x, "pending")
        \/ Arrive(x, "row", "status", p.sub, p.tenantId, p.sub)
    BY <1>11 DEF BeginStatus
  <2>2. "status" # "benefit"
    OBVIOUS
  <2> QED
    BY <1>2, <1>4, <2>1, <2>2
<1>12. ASSUME NEW x \in Requests, NEW p \in Sessions, NEW tenant \in Tenants,
              BeginBenefit(x, p, tenant)
       PROVE  req'[r] = req[r] \/ Entering(r)
  <2>1. CASE Reply(x, "FORBIDDEN")
    BY <1>2, <2>1
  <2>2. CASE AccountObstacles(p.sub) = {} /\ Arrive(x, "row", "benefit", p.sub, p.tenantId, p.sub)
    <3>1. CASE x = r
      BY <1>12, <2>2, <3>1 DEF Entering
    <3>2. CASE x # r
      BY <2>2, <3>2 DEF Arrive, Core, DataTyped
    <3> QED
      BY <3>1, <3>2
  <2> QED
    BY <1>12, <2>1, <2>2 DEF BeginBenefit
<1>13. ASSUME NEW u \in Users, AcceptInvite(u) \/ \E active \in BOOLEAN : SetActive(u, active)
       PROVE  req'[r] = req[r]
  BY <1>13 DEF AcceptInvite, SetActive
<1> QED
  BY <1>5, <1>6, <1>7, <1>8, <1>9, <1>10, <1>11, <1>12, <1>13 DEF Step, Advance

LEMMA ObstaclesAfter ==
    ASSUME NEW tenant, NEW u
    PROVE  /\ Obstacles(tenant, u)' \subseteq {"inactive", "pending", "norow"}
           /\ accounts' = accounts /\ AccountObstacles(u) = {} =>
                Obstacles(tenant, u)' \subseteq {"norow"}
           /\ rows' = rows /\ RowsFor(tenant, u) # {} => "norow" \notin Obstacles(tenant, u)'
BY DEF Obstacles, AccountObstacles, RowsFor

LEMMA BarsStep ==
    ASSUME IInv, Core', Step, Observe
    PROVE  TypeOK' /\ BarsFall' /\ NoEntryWhileBarred'
<1>1. Core
  BY CoreOfIInv
<1>2. ASSUME NEW r \in Requests
      PROVE  \E now \in SUBSET {"inactive", "pending", "norow"} :
               /\ now = Obstacles(req[r].tenant, req[r].user)'
               /\ barred'[r] = IF req'[r].op # "benefit" THEN {}
                               ELSE IF req[r].op # "benefit" THEN now ELSE barred[r] \cap now
  <2>1. PICK t, u : t = req'[r].tenant /\ u = req'[r].user
    OBVIOUS
  <2>2. Obstacles(t, u)' = Obstacles(req[r].tenant, req[r].user)'
    BY <2>1 DEF Obstacles, RowsFor
  <2>3. Obstacles(t, u)' \subseteq {"inactive", "pending", "norow"}
    BY ObstaclesAfter
  <2>4. PICK now : now = Obstacles(req[r].tenant, req[r].user)'
    OBVIOUS
  <2>5. barred'[r] = IF req'[r].op # "benefit" THEN {}
                     ELSE IF req[r].op # "benefit" THEN now ELSE barred[r] \cap now
    BY <2>4 DEF Observe
  <2> QED
    BY <2>2, <2>3, <2>4, <2>5
<1>3. TypeOK'
  <2>1. ASSUME NEW r \in Requests
        PROVE  barred'[r] \in SUBSET {"inactive", "pending", "norow"}
    <3>1. PICK now \in SUBSET {"inactive", "pending", "norow"} :
            barred'[r] = IF req'[r].op # "benefit" THEN {}
                         ELSE IF req[r].op # "benefit" THEN now ELSE barred[r] \cap now
      BY <1>2
    <3> QED
      BY <3>1
  <2>2. barred' \in [Requests -> SUBSET {"inactive", "pending", "norow"}]
    BY <2>1 DEF Observe
  <2> QED
    BY <2>2 DEF Core, DataTyped, TypeOK
<1>4. ASSUME NEW r \in Requests, req'[r].pc \in {"row", "handler"}, req'[r].op = "benefit"
      PROVE  /\ req'[r].pc = "row" => barred'[r] \subseteq {"norow"}
             /\ req'[r].pc = "handler" => barred'[r] = {}
  <2>1. CASE req'[r] = req[r]
    BY <1>2, <1>4, <2>1 DEF IInv, BarsFall, NoEntryWhileBarred
  <2>2. ASSUME NEW p \in Sessions, NEW tenant \in Tenants,
               BeginBenefit(r, p, tenant), AccountObstacles(p.sub) = {},
               Arrive(r, "row", "benefit", p.sub, p.tenantId, p.sub)
        PROVE  req'[r].pc = "row" /\ barred'[r] \subseteq {"norow"}
    <3>1. PICK t, u : t = p.tenantId /\ u = p.sub
      OBVIOUS
    <3>2. /\ req'[r].pc = "row" /\ req'[r].tenant = t /\ req'[r].user = u
          /\ accounts' = accounts /\ AccountObstacles(u) = {}
      BY <1>1, <2>2, <3>1 DEF Arrive, BeginBenefit, Idle, Core, DataTyped
    <3>3. Obstacles(t, u)' \subseteq {"norow"}
      BY <3>2, ObstaclesAfter
    <3>4. Obstacles(req[r].tenant, req[r].user)' = Obstacles(t, u)'
      BY <3>2 DEF Obstacles, RowsFor
    <3>5. barred'[r] \subseteq Obstacles(t, u)'
      <4>1. PICK now \in SUBSET {"inactive", "pending", "norow"} :
              /\ now = Obstacles(req[r].tenant, req[r].user)'
              /\ barred'[r] = IF req'[r].op # "benefit" THEN {}
                              ELSE IF req[r].op # "benefit" THEN now ELSE barred[r] \cap now
        BY <1>2
      <4> QED
        BY <3>4, <4>1
    <3> QED
      BY <3>2, <3>3, <3>5
  <2>3. CASE ReadRow(r) /\ Goto(r, "handler")
    <3>1. PICK t, u : t = req[r].tenant /\ u = req[r].user
      OBVIOUS
    <3>2. /\ req'[r].pc = "handler" /\ req'[r].tenant = t /\ req'[r].user = u
          /\ req[r].op = "benefit" /\ req[r].pc = "row" /\ rows' = rows
      BY <1>1, <1>4, <2>3, <3>1 DEF Goto, ReadRow, Core, DataTyped, Request
    <3>3. RowsFor(t, u) # {}
      <4>1. ~ (\E code : Reply(r, code))
        BY <1>1, <3>2 DEF Reply, Idle, Core, DataTyped
      <4> QED
        BY <2>3, <3>1, <4>1 DEF ReadRow
    <3>4. "norow" \notin Obstacles(t, u)'
      BY <3>2, <3>3, ObstaclesAfter
    <3>5. Obstacles(req[r].tenant, req[r].user)' = Obstacles(t, u)'
      BY <3>2 DEF Obstacles, RowsFor
    <3>6. barred[r] \subseteq {"norow"}
      BY <3>2 DEF IInv, BarsFall
    <3> QED
      BY <1>2, <1>4, <3>2, <3>4, <3>5, <3>6
  <2> QED
    BY <1>1, <1>4, <2>1, <2>2, <2>3, OnlyByTheReads DEF Entering
<1>5. ASSUME NEW r \in Requests, req'[r].op # "benefit"
      PROVE  barred'[r] = {}
  BY <1>2, <1>5
<1> QED
  BY <1>3, <1>4, <1>5 DEF BarsFall, NoEntryWhileBarred

-----------------------------------------------------------------------------
(* The invariant *)

THEOREM InvariantHolds == Spec => []IInv
<1>1. Init => IInv
  <2> SUFFICES ASSUME Init PROVE IInv
    OBVIOUS
  <2>1. TypeOK
    BY EligibilityAssumption DEF Init, TypeOK, Idle, Request, Points, Codes, UnusedRow, Row
  <2>2. RequestsCarry /\ BarsFall /\ NoEntryWhileBarred
    BY DEF Init, RequestsCarry, Carries, BarsFall, NoEntryWhileBarred, Idle
  <2>3. RowsOwned /\ OneRowPerEmployee /\ RowsStayInTenant
    BY DEF Init, RowsOwned, OneRowPerEmployee, RowsStayInTenant, UnusedRow
  <2> QED
    BY <2>1, <2>2, <2>3 DEF IInv
<1>2. IInv /\ [Next]_vars => IInv'
  <2> SUFFICES ASSUME IInv, [Next]_vars PROVE IInv'
    OBVIOUS
  <2>1. CASE Next
    <3>1. Core'
      BY <2>1, CoreOfIInv, CoreStep DEF Next
    <3> QED
      BY <2>1, <3>1, BarsStep DEF Next, IInv, Core
  <2>2. CASE UNCHANGED vars
    BY <2>2 DEF vars, IInv, TypeOK, RequestsCarry, Carries, RowsOwned, OneRowPerEmployee,
       RowsStayInTenant, BarsFall, NoEntryWhileBarred
  <2> QED
    BY <2>1, <2>2
<1> QED
  BY <1>1, <1>2, PTL DEF Spec

\* Accounts, rows, counts of events and requests keep their shapes.
THEOREM TypeCorrect == Spec => []TypeOK
<1>1. IInv => TypeOK
  BY DEF IInv
<1> QED
  BY <1>1, InvariantHolds, PTL

\* markEligible and the unique index: one row per employee, so that one removal
\* takes the benefit away.
THEOREM OneRow == Spec => []OneRowPerEmployee
<1>1. IInv => OneRowPerEmployee
  BY DEF IInv
<1> QED
  BY <1>1, InvariantHolds, PTL

\* The guards of the HR routes and assertCollaboratorInTenant: rows are of
\* collaborators of their tenant and written by HR of that tenant.
THEOREM NoRowAcrossTenants == Spec => []RowsStayInTenant
<1>1. IInv => RowsStayInTenant
  BY DEF IInv
<1> QED
  BY <1>1, InvariantHolds, PTL

\* BenefitEligibilityGuard: what has stood in the way since a request arrived
\* keeps it from its handler.
THEOREM GuardHolds == Spec => []NoEntryWhileBarred
<1>1. IInv => NoEntryWhileBarred
  BY DEF IInv
<1> QED
  BY <1>1, InvariantHolds, PTL

-----------------------------------------------------------------------------
(* The log *)

\* What the log, with the marks still to be written, has left for an account once its
\* removals and its row are paid for.
Balance(u) ==
    audit[u].marked + Cardinality(Of("mark", u))
      - audit[u].removed - Cardinality(Of("remove", u)) - Cardinality(RowsFor(TenantOf[u], u))

Writes(q, op, u) == q.op = op /\ q.user = u /\ q.pc = "audit"

\* What a set has gained or lost when it differs from another in one element at most.
Turns(was, is, before, after) ==
    /\ (was <=> is) => after = before
    /\ was /\ ~is => after = before - 1
    /\ ~was /\ is => after = before + 1

LEMMA OneMore ==
    ASSUME NEW S, IsFiniteSet(S), NEW T, NEW x, T \ {x} = S \ {x}
    PROVE  /\ Cardinality(S) \in Nat /\ Cardinality(T) \in Nat
           /\ Turns(x \in S, x \in T, Cardinality(S), Cardinality(T))
<1>1. CASE x \in S /\ x \in T
  <2>1. S = T
    BY <1>1
  <2> QED
    BY <1>1, <2>1, FS_CardinalityType DEF Turns
<1>2. CASE x \notin S /\ x \notin T
  <2>1. S = T
    BY <1>2
  <2> QED
    BY <1>2, <2>1, FS_CardinalityType DEF Turns
<1>3. CASE x \in S /\ x \notin T
  <2>1. T = S \ {x}
    BY <1>3
  <2>2. Cardinality(T) = Cardinality(S) - 1 /\ Cardinality(S) \in Nat
    BY <1>3, <2>1, FS_RemoveElement, FS_CardinalityType
  <2>3. IsFiniteSet(T)
    BY <2>1, FS_RemoveElement
  <2>4. Cardinality(T) \in Nat
    BY <2>3, FS_CardinalityType
  <2> QED
    BY <1>3, <2>2, <2>4 DEF Turns
<1>4. CASE x \notin S /\ x \in T
  <2>1. T = S \cup {x}
    BY <1>4
  <2>2. Cardinality(T) = Cardinality(S) + 1 /\ Cardinality(S) \in Nat
    BY <1>4, <2>1, FS_AddElement, FS_CardinalityType
  <2> QED
    BY <1>4, <2>2 DEF Turns
<1> QED
  BY <1>1, <1>2, <1>3, <1>4

LEMMA SetsFinite ==
    ASSUME NEW op, NEW t, NEW u
    PROVE  /\ IsFiniteSet(Of(op, u)) /\ Cardinality(Of(op, u)) \in Nat
           /\ IsFiniteSet(RowsFor(t, u)) /\ Cardinality(RowsFor(t, u)) \in Nat
<1>1. Of(op, u) \subseteq Requests /\ RowsFor(t, u) \subseteq Rows
  BY DEF Of, RowsFor
<1> QED
  BY <1>1, EligibilityAssumption, FS_Subset, FS_CardinalityType

LEMMA OfMoves ==
    ASSUME DataTyped, NEW r \in Requests, NEW q, req' = [req EXCEPT ![r] = q], NEW op, NEW u
    PROVE  /\ Cardinality(Of(op, u)) \in Nat /\ Cardinality(Of(op, u))' \in Nat
           /\ Turns(Writes(req[r], op, u), Writes(q, op, u),
                    Cardinality(Of(op, u)), Cardinality(Of(op, u))')
<1>1. Of(op, u)' \ {r} = Of(op, u) \ {r}
  BY DEF Of, DataTyped
<1>2. /\ r \in Of(op, u) <=> Writes(req[r], op, u)
      /\ r \in Of(op, u)' <=> Writes(q, op, u)
  BY DEF Of, Writes, DataTyped
<1>3. PICK S, T : S = Of(op, u) /\ T = Of(op, u)'
  OBVIOUS
<1>4. IsFiniteSet(S) /\ T \ {r} = S \ {r}
  BY <1>1, <1>3, SetsFinite
<1>5. /\ Cardinality(S) \in Nat /\ Cardinality(T) \in Nat
      /\ Turns(r \in S, r \in T, Cardinality(S), Cardinality(T))
  BY <1>4, OneMore
<1> QED
  BY <1>2, <1>3, <1>5 DEF Turns

Is(d, t, u) == d.state = "present" /\ d.tenant = t /\ d.user = u

LEMMA RowsMove ==
    ASSUME DataTyped, NEW i \in Rows, NEW d, rows' = [rows EXCEPT ![i] = d], NEW t, NEW u
    PROVE  /\ Cardinality(RowsFor(t, u)) \in Nat /\ Cardinality(RowsFor(t, u))' \in Nat
           /\ Turns(i \in RowsFor(t, u), Is(d, t, u),
                    Cardinality(RowsFor(t, u)), Cardinality(RowsFor(t, u))')
<1>1. RowsFor(t, u)' \ {i} = RowsFor(t, u) \ {i}
  BY DEF RowsFor, DataTyped
<1>2. i \in RowsFor(t, u)' <=> Is(d, t, u)
  BY DEF RowsFor, Is, DataTyped
<1>3. PICK S, T : S = RowsFor(t, u) /\ T = RowsFor(t, u)'
  OBVIOUS
<1>4. IsFiniteSet(S) /\ T \ {i} = S \ {i}
  BY <1>1, <1>3, SetsFinite
<1>5. /\ Cardinality(S) \in Nat /\ Cardinality(T) \in Nat
      /\ Turns(i \in S, i \in T, Cardinality(S), Cardinality(T))
  BY <1>4, OneMore
<1> QED
  BY <1>2, <1>3, <1>5 DEF Turns

\* The parts of a balance are counts.
LEMMA Counts ==
    ASSUME DataTyped, NEW u \in Users
    PROVE  /\ audit[u].marked \in Nat /\ audit[u].removed \in Nat
           /\ Cardinality(Of("mark", u)) \in Nat /\ Cardinality(Of("remove", u)) \in Nat
           /\ Cardinality(RowsFor(TenantOf[u], u)) \in Nat
           /\ Balance(u) \in Int
<1>1. audit[u].marked \in Nat /\ audit[u].removed \in Nat
  BY DEF DataTyped
<1> QED
  BY <1>1, SetsFinite DEF Balance

\* The balance of u does not fall, or the mark that made it fall will never be logged.
Keeps(u) == u \in unlogged' \/ Balance(u)' >= Balance(u)

\* A step that neither comes to the log nor leaves it.
LEMMA QuietKeeps ==
    ASSUME DataTyped, NEW r \in Requests, NEW q, req' = [req EXCEPT ![r] = q],
           req[r].pc # "audit", q.pc # "audit", UNCHANGED <<rows, audit>>, NEW u \in Users
    PROVE  Keeps(u)
<1>2. \A op : Cardinality(Of(op, u))' = Cardinality(Of(op, u))
  <2> TAKE op
  <2>1. ~Writes(req[r], op, u) /\ ~Writes(q, op, u)
    BY DEF Writes
  <2>2. Turns(Writes(req[r], op, u), Writes(q, op, u),
              Cardinality(Of(op, u)), Cardinality(Of(op, u))')
    BY OfMoves
  <2> QED
    BY <2>1, <2>2 DEF Turns
<1>3. RowsFor(TenantOf[u], u)' = RowsFor(TenantOf[u], u)
  BY DEF RowsFor
<1>4. Balance(u)' = Balance(u)
  BY <1>2, <1>3 DEF Balance
<1> QED
  BY <1>4, Counts DEF Keeps

LEMMA AnswerKeeps ==
    ASSUME DataTyped, NEW r \in Requests, NEW code, Reply(r, code),
           req[r].pc # "audit", UNCHANGED <<rows, audit>>, NEW u \in Users
    PROVE  Keeps(u)
<1>1. PICK q : q = [Idle EXCEPT !.reply = code]
  OBVIOUS
<1>2. req' = [req EXCEPT ![r] = q] /\ q.pc # "audit"
  BY <1>1 DEF Reply, Idle
<1> QED
  BY <1>2, QuietKeeps

LEMMA ArriveKeeps ==
    ASSUME DataTyped, NEW r \in Requests, NEW point, NEW op, NEW actor, NEW tenant, NEW v,
           Arrive(r, point, op, actor, tenant, v), point # "audit",
           req[r].pc # "audit", UNCHANGED <<rows, audit>>, NEW u \in Users
    PROVE  Keeps(u)
<1>1. PICK q : q = [Idle EXCEPT !.pc = point, !.op = op, !.actor = actor, !.tenant = tenant, !.user = v]
  OBVIOUS
<1>2. req' = [req EXCEPT ![r] = q] /\ q.pc # "audit"
  BY <1>1 DEF Arrive, Idle
<1> QED
  BY <1>2, QuietKeeps

LEMMA GotoKeeps ==
    ASSUME DataTyped, NEW r \in Requests, NEW point, Goto(r, point), point # "audit",
           req[r].pc # "audit", UNCHANGED <<rows, audit>>, NEW u \in Users
    PROVE  Keeps(u)
<1>1. PICK q : q = [req[r] EXCEPT !.pc = point]
  OBVIOUS
<1>2. req' = [req EXCEPT ![r] = q] /\ q.pc # "audit"
  BY <1>1 DEF Goto, DataTyped, Request
<1> QED
  BY <1>2, QuietKeeps

\* A mark has written its row: the event still to be written pays for it.
LEMMA MarkedKeeps ==
    ASSUME Core, NEW r \in Requests, CreateRow(r) \/ SaveRow(r), NEW u \in Users
    PROVE  Keeps(u)
<1>0. DataTyped /\ req[r] \in Request /\ Carries(req[r]) /\ req[r].pc \in {"create", "save"}
  BY DEF Core, DataTyped, RequestsCarry, CreateRow, SaveRow
<1>1. CASE Reply(r, "error") /\ UNCHANGED rows
  BY <1>0, <1>1, AnswerKeeps DEF CreateRow, SaveRow
<1>2. ASSUME NEW i \in Rows, NEW d, rows' = [rows EXCEPT ![i] = d], Goto(r, "audit"),
             \/ d.user = req[r].user
             \/ /\ i \in RowsFor(TenantOf[u], u)
                /\ d.state = "present" /\ d.tenant = TenantOf[u] /\ d.user = u
             \/ ~(d.state = "present" /\ d.tenant = TenantOf[u] /\ d.user = u)
      PROVE  Keeps(u)
  <2>1. PICK q : q = [req[r] EXCEPT !.pc = "audit"]
    OBVIOUS
  <2>2. /\ req' = [req EXCEPT ![r] = q]
        /\ q.pc = "audit" /\ q.op = "mark" /\ q.user = req[r].user
    BY <1>0, <1>2, <2>1 DEF Goto, Request, Carries
  <2>3. /\ \A op : ~Writes(req[r], op, u)
        /\ Writes(q, "mark", u) <=> u = req[r].user
        /\ ~Writes(q, "remove", u)
    BY <1>0, <2>2 DEF Writes
  <2>4. /\ Cardinality(Of("mark", u))' \in Nat
        /\ Turns(FALSE, u = req[r].user, Cardinality(Of("mark", u)), Cardinality(Of("mark", u))')
    <3>1. /\ Cardinality(Of("mark", u))' \in Nat
          /\ Turns(Writes(req[r], "mark", u), Writes(q, "mark", u),
                   Cardinality(Of("mark", u)), Cardinality(Of("mark", u))')
      BY <1>0, <2>2, OfMoves
    <3> QED
      BY <2>3, <3>1 DEF Turns
  <2>5. Cardinality(Of("remove", u))' = Cardinality(Of("remove", u))
    <3>1. Turns(Writes(req[r], "remove", u), Writes(q, "remove", u),
                Cardinality(Of("remove", u)), Cardinality(Of("remove", u))')
      BY <1>0, <2>2, OfMoves
    <3> QED
      BY <2>3, <3>1 DEF Turns
  <2>6. /\ Cardinality(RowsFor(TenantOf[u], u))' \in Nat
        /\ Turns(i \in RowsFor(TenantOf[u], u), Is(d, TenantOf[u], u),
                 Cardinality(RowsFor(TenantOf[u], u)), Cardinality(RowsFor(TenantOf[u], u))')
    BY <1>0, <1>2, RowsMove
  <2>7. UNCHANGED audit
    BY DEF CreateRow, SaveRow
  <2>8. \/ u = req[r].user
        \/ i \in RowsFor(TenantOf[u], u) /\ Is(d, TenantOf[u], u)
        \/ ~Is(d, TenantOf[u], u)
    BY <1>2 DEF Is
  <2>9. Balance(u)' >= Balance(u)
    <3>1. CASE u = req[r].user
      <4>1. Cardinality(Of("mark", u))' = Cardinality(Of("mark", u)) + 1
        BY <2>4, <3>1 DEF Turns
      <4>2. Cardinality(RowsFor(TenantOf[u], u))' =< Cardinality(RowsFor(TenantOf[u], u)) + 1
        BY <1>0, <2>6, Counts DEF Turns
      <4> QED
        BY <1>0, <2>5, <2>6, <2>7, <4>1, <4>2, Counts DEF Balance
    <3>2. CASE u # req[r].user
      <4>1. Cardinality(Of("mark", u))' = Cardinality(Of("mark", u))
        BY <2>4, <3>2 DEF Turns
      <4>2. Cardinality(RowsFor(TenantOf[u], u))' =< Cardinality(RowsFor(TenantOf[u], u))
        BY <1>0, <2>6, <2>8, <3>2, Counts DEF Turns
      <4> QED
        BY <1>0, <2>5, <2>6, <2>7, <4>1, <4>2, Counts DEF Balance
    <3> QED
      BY <3>1, <3>2
  <2> QED
    BY <2>9 DEF Keeps
<1>3. CASE CreateRow(r)
  <2>1. ASSUME NEW i \in Rows, Insert(r, i)
        PROVE  Keeps(u)
    <3>1. PICK d : d = [state |-> "present", tenant |-> req[r].tenant,
                        user |-> req[r].user, updatedBy |-> req[r].actor]
      OBVIOUS
    <3> QED
      BY <1>2, <2>1, <3>1 DEF Insert
  <2> QED
    BY <1>1, <1>3, <2>1 DEF CreateRow
<1>4. CASE SaveRow(r)
  <2>1. CASE /\ rows[req[r].row].state = "present" /\ Goto(r, "audit")
             /\ rows' = [rows EXCEPT ![req[r].row].updatedBy = req[r].actor]
    <3>1. PICK i \in Rows : i = req[r].row
      BY <1>0, <1>4 DEF Carries, SaveRow
    <3>2. rows[i] \in Row
      BY <1>0 DEF DataTyped
    <3>3. PICK d : d = [rows[i] EXCEPT !.updatedBy = req[r].actor]
      OBVIOUS
    <3>4. d.state = rows[i].state /\ d.tenant = rows[i].tenant /\ d.user = rows[i].user
      BY <3>2, <3>3 DEF Row
    <3>5. rows' = [rows EXCEPT ![i] = d]
      BY <2>1, <3>1, <3>3 DEF Core, DataTyped
    <3> QED
      BY <1>2, <2>1, <3>4, <3>5 DEF RowsFor
  <2> QED
    BY <1>1, <1>4, <2>1 DEF SaveRow
<1> QED
  BY <1>3, <1>4

\* A removal has deleted a row: the event still to be written takes its place.
LEMMA RemovalKeeps ==
    ASSUME Core, NEW r \in Requests, NEW p \in Sessions, NEW tenant \in Tenants,
           NEW v \in Users, BeginRemove(r, p, tenant, v), NEW u \in Users
    PROVE  Keeps(u)
<1>0. DataTyped /\ req[r].pc = "idle" /\ UNCHANGED audit
  BY DEF Core, BeginRemove, InFlight
<1>1. CASE (Reply(r, "FORBIDDEN") \/ Reply(r, "NOT_FOUND")) /\ UNCHANGED rows
  BY <1>0, <1>1, AnswerKeeps
<1>2. ASSUME NEW i \in RowsFor(tenant, v), rows' = [rows EXCEPT ![i].state = "deleted"],
             Arrive(r, "audit", "remove", p.sub, tenant, v)
      PROVE  Keeps(u)
  <2>1. PICK q : q = [Idle EXCEPT !.pc = "audit", !.op = "remove", !.actor = p.sub,
                                  !.tenant = tenant, !.user = v]
    OBVIOUS
  <2>2. /\ req' = [req EXCEPT ![r] = q]
        /\ q.pc = "audit" /\ q.op = "remove" /\ q.user = v
    BY <1>2, <2>1 DEF Arrive, Idle
  <2>3. /\ \A op : ~Writes(req[r], op, u)
        /\ ~Writes(q, "mark", u)
        /\ Writes(q, "remove", u) <=> u = v
    BY <1>0, <2>2 DEF Writes
  <2>4. Cardinality(Of("mark", u))' = Cardinality(Of("mark", u))
    <3>1. Turns(Writes(req[r], "mark", u), Writes(q, "mark", u),
                Cardinality(Of("mark", u)), Cardinality(Of("mark", u))')
      BY <1>0, <2>2, OfMoves
    <3> QED
      BY <2>3, <3>1 DEF Turns
  <2>5. Turns(FALSE, u = v, Cardinality(Of("remove", u)), Cardinality(Of("remove", u))')
    <3>1. Turns(Writes(req[r], "remove", u), Writes(q, "remove", u),
                Cardinality(Of("remove", u)), Cardinality(Of("remove", u))')
      BY <1>0, <2>2, OfMoves
    <3> QED
      BY <2>3, <3>1 DEF Turns
  <2>6. i \in Rows /\ rows[i] \in Row /\ rows[i].state = "present" /\ rows[i].user = v
        /\ rows[i].tenant = tenant
    BY <1>0 DEF RowsFor, DataTyped
  <2>7. TenantOf[v] = tenant
    BY <2>6 DEF Core, RowsStayInTenant
  <2>8. PICK d : d = [rows[i] EXCEPT !.state = "deleted"]
    OBVIOUS
  <2>9. rows' = [rows EXCEPT ![i] = d] /\ d.state = "deleted"
    BY <1>0, <1>2, <2>6, <2>8 DEF DataTyped, Row
  <2>10. i \in RowsFor(TenantOf[u], u) <=> u = v
    BY <2>6, <2>7 DEF RowsFor
  <2>11. Turns(u = v, FALSE, Cardinality(RowsFor(TenantOf[u], u)), Cardinality(RowsFor(TenantOf[u], u))')
    <3>1. Turns(i \in RowsFor(TenantOf[u], u), Is(d, TenantOf[u], u),
                Cardinality(RowsFor(TenantOf[u], u)), Cardinality(RowsFor(TenantOf[u], u))')
      BY <1>0, <2>6, <2>9, RowsMove
    <3>2. ~Is(d, TenantOf[u], u)
      BY <2>9 DEF Is
    <3> QED
      BY <2>10, <3>1, <3>2 DEF Turns
  <2>12. Balance(u)' = Balance(u)
    BY <1>0, <2>4, <2>5, <2>11, Counts DEF Balance, Turns
  <2> QED
    BY <1>0, <2>12, Counts DEF Keeps
<1> QED
  BY <1>1, <1>2 DEF BeginRemove

LEMMA Replied ==
    ASSUME NEW r \in Requests, NEW code, Reply(r, code)
    PROVE  \E q : req' = [req EXCEPT ![r] = q] /\ q.pc # "audit"
<1>1. PICK q : q = [Idle EXCEPT !.reply = code]
  OBVIOUS
<1>2. q.pc # "audit"
  BY <1>1 DEF Idle
<1>3. req' = [req EXCEPT ![r] = q]
  BY <1>1 DEF Reply
<1> QED
  BY <1>2, <1>3

\* An event is written, and the request that wrote it moves on.
LEMMA LoggedKeeps ==
    ASSUME Core, NEW r \in Requests, WriteAudit(r), NEW u \in Users
    PROVE  Keeps(u)
<1> DEFINE v == req[r].user
<1>0. /\ DataTyped /\ req[r] \in Request /\ req[r].pc = "audit" /\ v \in Users
      /\ UNCHANGED rows
      /\ audit[u] \in [marked : Nat, removed : Nat] /\ audit[v] \in [marked : Nat, removed : Nat]
  BY DEF Core, DataTyped, RequestsCarry, WriteAudit, Carries
<1>1. \E q : req' = [req EXCEPT ![r] = q] /\ q.pc # "audit"
  <2>1. CASE Goto(r, "readback")
    <3>1. PICK q : q = [req[r] EXCEPT !.pc = "readback"]
      OBVIOUS
    <3>2. req' = [req EXCEPT ![r] = q]
      BY <2>1, <3>1 DEF Goto
    <3>3. q.pc # "audit"
      BY <1>0, <3>1 DEF Request
    <3> QED
      BY <3>2, <3>3
  <2>2. CASE Reply(r, "ok")
    BY <2>2, Replied
  <2> QED
    BY <2>1, <2>2 DEF WriteAudit
<1>2. PICK q : req' = [req EXCEPT ![r] = q] /\ q.pc # "audit"
  BY <1>1
<1>3. \A op : Turns(Writes(req[r], op, u), FALSE, Cardinality(Of(op, u)), Cardinality(Of(op, u))')
  <2> TAKE op
  <2>1. ~Writes(q, op, u)
    BY <1>2 DEF Writes
  <2>2. Turns(Writes(req[r], op, u), Writes(q, op, u),
              Cardinality(Of(op, u)), Cardinality(Of(op, u))')
    BY <1>0, <1>2, OfMoves
  <2> QED
    BY <2>1, <2>2 DEF Turns
<1>4. RowsFor(TenantOf[u], u)' = RowsFor(TenantOf[u], u)
  BY <1>0 DEF RowsFor
<1>5. CASE req[r].op = "mark" /\ audit' = [audit EXCEPT ![v].marked = @ + 1]
  <2>1. /\ u = v => audit'[u].marked = audit[u].marked + 1
        /\ u # v => audit'[u].marked = audit[u].marked
        /\ audit'[u].removed = audit[u].removed
    BY <1>0, <1>5 DEF DataTyped
  <2>2. ~Writes(req[r], "remove", u) /\ (Writes(req[r], "mark", u) <=> u = v)
    BY <1>0, <1>5 DEF Writes
  <2>3. /\ Cardinality(Of("remove", u))' = Cardinality(Of("remove", u))
        /\ u = v => Cardinality(Of("mark", u))' = Cardinality(Of("mark", u)) - 1
        /\ u # v => Cardinality(Of("mark", u))' = Cardinality(Of("mark", u))
    BY <1>3, <2>2 DEF Turns
  <2>4. Balance(u)' = Balance(u)
    <3>1. CASE u = v
      BY <1>0, <1>4, <2>1, <2>3, <3>1, Counts DEF Balance
    <3>2. CASE u # v
      BY <1>0, <1>4, <2>1, <2>3, <3>2, Counts DEF Balance
    <3> QED
      BY <3>1, <3>2
  <2> QED
    BY <1>0, <2>4, Counts DEF Keeps
<1>6. CASE req[r].op = "remove" /\ audit' = [audit EXCEPT ![v].removed = @ + 1]
  <2>1. /\ u = v => audit'[u].removed = audit[u].removed + 1
        /\ u # v => audit'[u].removed = audit[u].removed
        /\ audit'[u].marked = audit[u].marked
    BY <1>0, <1>6 DEF DataTyped
  <2>2. ~Writes(req[r], "mark", u) /\ (Writes(req[r], "remove", u) <=> u = v)
    BY <1>0, <1>6 DEF Writes
  <2>3. /\ Cardinality(Of("mark", u))' = Cardinality(Of("mark", u))
        /\ u = v => Cardinality(Of("remove", u))' = Cardinality(Of("remove", u)) - 1
        /\ u # v => Cardinality(Of("remove", u))' = Cardinality(Of("remove", u))
    BY <1>3, <2>2 DEF Turns
  <2>4. Balance(u)' = Balance(u)
    <3>1. CASE u = v
      BY <1>0, <1>4, <2>1, <2>3, <3>1, Counts DEF Balance
    <3>2. CASE u # v
      BY <1>0, <1>4, <2>1, <2>3, <3>2, Counts DEF Balance
    <3> QED
      BY <3>1, <3>2
  <2> QED
    BY <1>0, <2>4, Counts DEF Keeps
<1> QED
  BY <1>5, <1>6 DEF WriteAudit

\* A mark that fails before its event is written is remembered as unlogged; a removal
\* that does leaves the log with one removal less.
LEMMA AbortKeeps ==
    ASSUME Core, NEW r \in Requests, NEW kind \in FaultKinds, Abort(r, kind), NEW u \in Users
    PROVE  Keeps(u)
<1>0. DataTyped /\ UNCHANGED <<rows, audit>>
  BY DEF Core, Abort
<1>1. PICK q : req' = [req EXCEPT ![r] = q] /\ q.pc # "audit"
  BY Replied DEF Abort
<1>2. CASE Writes(req[r], "mark", u)
  BY <1>2 DEF Writes, Abort, Keeps
<1>3. CASE ~Writes(req[r], "mark", u)
  <2>1. \A op : ~Writes(q, op, u)
    BY <1>1 DEF Writes
  <2>2. Cardinality(Of("mark", u))' = Cardinality(Of("mark", u))
    <3>1. Turns(Writes(req[r], "mark", u), Writes(q, "mark", u),
                Cardinality(Of("mark", u)), Cardinality(Of("mark", u))')
      BY <1>0, <1>1, OfMoves
    <3> QED
      BY <1>3, <2>1, <3>1 DEF Turns
  <2>3. /\ Cardinality(Of("remove", u))' \in Nat
        /\ Cardinality(Of("remove", u))' =< Cardinality(Of("remove", u))
    <3>1. /\ Cardinality(Of("remove", u)) \in Nat /\ Cardinality(Of("remove", u))' \in Nat
          /\ Turns(Writes(req[r], "remove", u), Writes(q, "remove", u),
                   Cardinality(Of("remove", u)), Cardinality(Of("remove", u))')
      BY <1>0, <1>1, OfMoves
    <3> QED
      BY <2>1, <3>1 DEF Turns
  <2>4. RowsFor(TenantOf[u], u)' = RowsFor(TenantOf[u], u)
    BY <1>0 DEF RowsFor
  <2>5. Balance(u)' >= Balance(u)
    BY <1>0, <2>2, <2>3, <2>4, Counts DEF Balance
  <2> QED
    BY <2>5 DEF Keeps
<1> QED
  BY <1>2, <1>3

LEMMA ReadingKeeps ==
    ASSUME Core, NEW r \in Requests, NEW u \in Users,
           \/ FindRow(r) \/ ReadBack(r) \/ ReadRow(r) \/ Handle(r)
           \/ \E p \in Sessions, tenant \in Tenants :
                \/ BeginBenefit(r, p, tenant) \/ BeginStatus(r, p, tenant)
                \/ \E v \in Users : BeginMark(r, p, tenant, v)
    PROVE  Keeps(u)
<1>0. DataTyped /\ req[r].pc # "audit" /\ UNCHANGED <<rows, audit>>
  BY DEF Core, FindRow, ReadBack, ReadRow, Handle, BeginBenefit, BeginStatus, BeginMark, InFlight
<1>1. ASSUME NEW code, Reply(r, code) PROVE Keeps(u)
  BY <1>0, <1>1, AnswerKeeps
<1>2. ASSUME NEW point \in {"create", "handler"}, Goto(r, point) PROVE Keeps(u)
  BY <1>0, <1>2, GotoKeeps
<1>3. ASSUME NEW point \in {"find", "row"}, NEW op, NEW actor, NEW tenant, NEW v,
             Arrive(r, point, op, actor, tenant, v)
      PROVE  Keeps(u)
  BY <1>0, <1>3, ArriveKeeps
<1>4. ASSUME NEW i, req' = [req EXCEPT ![r].pc = "save", ![r].row = i] PROVE Keeps(u)
  <2>1. PICK q : q = [req[r] EXCEPT !.pc = "save", !.row = i]
    OBVIOUS
  <2>2. req' = [req EXCEPT ![r] = q]
    BY <1>0, <1>4, <2>1 DEF DataTyped
  <2>3. q.pc # "audit"
    BY <1>0, <2>1 DEF DataTyped, Request
  <2> QED
    BY <1>0, <2>2, <2>3, QuietKeeps
<1>5. CASE FindRow(r)
  BY <1>2, <1>4, <1>5 DEF FindRow
<1>6. CASE ReadBack(r) \/ ReadRow(r) \/ Handle(r)
  BY <1>1, <1>2, <1>6 DEF ReadBack, ReadRow, Handle
<1>7. ASSUME NEW p \in Sessions, NEW tenant \in Tenants,
             \/ BeginBenefit(r, p, tenant) \/ BeginStatus(r, p, tenant)
             \/ \E v \in Users : BeginMark(r, p, tenant, v)
      PROVE  Keeps(u)
  BY <1>1, <1>3, <1>7 DEF BeginBenefit, BeginStatus, BeginMark
<1> QED
  BY <1>5, <1>6, <1>7

LEMMA StepKeeps ==
    ASSUME Core, Step \/ UNCHANGED vars, NEW u \in Users
    PROVE  Keeps(u) /\ unlogged \subseteq unlogged'
<1>0. DataTyped
  BY DEF Core
<1>1. ASSUME UNCHANGED <<rows, audit, req>>
      PROVE  Keeps(u)
  <2>1. Balance(u)' = Balance(u)
    BY <1>1 DEF Balance, Of, RowsFor
  <2> QED
    BY <1>0, <2>1, Counts DEF Keeps
<1>2. Keeps(u)
  BY <1>1, MarkedKeeps, RemovalKeeps, LoggedKeeps, AbortKeeps, ReadingKeeps
     DEF Step, Advance, AcceptInvite, SetActive, vars
<1>3. unlogged \subseteq unlogged'
  <2>1. ASSUME NEW r \in Requests, NEW kind \in FaultKinds, Abort(r, kind)
        PROVE  unlogged \subseteq unlogged'
    BY <2>1 DEF Abort
  <2>2. ASSUME NEW r \in Requests, Advance(r)
        PROVE  UNCHANGED unlogged
    BY <2>2 DEF Advance, FindRow, CreateRow, SaveRow, WriteAudit, ReadBack, ReadRow, Handle
  <2>3. ASSUME NEW r \in Requests, NEW p \in Sessions, NEW tenant \in Tenants,
               \/ BeginBenefit(r, p, tenant) \/ BeginStatus(r, p, tenant)
               \/ \E v \in Users : BeginMark(r, p, tenant, v) \/ BeginRemove(r, p, tenant, v)
        PROVE  UNCHANGED unlogged
    BY <2>3 DEF BeginBenefit, BeginStatus, BeginMark, BeginRemove
  <2>4. ASSUME NEW v \in Users, AcceptInvite(v) \/ \E active \in BOOLEAN : SetActive(v, active)
        PROVE  UNCHANGED unlogged
    BY <2>4 DEF AcceptInvite, SetActive
  <2> QED
    BY <2>1, <2>2, <2>3, <2>4 DEF Step, vars
<1> QED
  BY <1>2, <1>3

\* writeAudit, after the write it is about: unless a fault comes between the two, the
\* log has a mark for every removal and for the row that is there.
THEOREM LogExplainsRows == Spec => []AuditExplainsRows
<1> DEFINE Paid == \A u \in Users : u \notin unlogged => Balance(u) >= 0
<1>1. Core => (AuditExplainsRows <=> Paid)
  BY Counts DEF Core, AuditExplainsRows, Balance
<1>2. Init => Paid
  <2> SUFFICES ASSUME Init, NEW u \in Users PROVE Balance(u) >= 0
    OBVIOUS
  <2>1. Of("mark", u) = {} /\ Of("remove", u) = {} /\ RowsFor(TenantOf[u], u) = {}
    BY DEF Init, Of, RowsFor, Idle, UnusedRow
  <2>2. audit[u].marked = 0 /\ audit[u].removed = 0
    BY DEF Init
  <2> QED
    BY <2>1, <2>2, FS_EmptySet DEF Balance
<1>3. IInv /\ Paid /\ [Next]_vars => Paid'
  <2> SUFFICES ASSUME IInv, Paid, [Next]_vars, NEW u \in Users, u \notin unlogged'
               PROVE  Balance(u)' >= 0
    OBVIOUS
  <2>1. Core
    BY CoreOfIInv
  <2>2. Balance(u)' >= Balance(u) /\ u \notin unlogged
    BY <2>1, StepKeeps DEF Next, Keeps
  <2>3. Balance(u) >= 0 /\ Balance(u) \in Int
    BY <2>1, <2>2, Counts DEF Core
  <2>4. Balance(u)' \in Int
    <3>1. DataTyped'
      BY <2>1, CoreStep DEF Core, Next, vars, DataTyped
    <3>2. audit'[u] \in [marked : Nat, removed : Nat]
      BY <3>1 DEF DataTyped
    <3>3. /\ Cardinality(Of("mark", u))' \in Nat /\ Cardinality(Of("remove", u))' \in Nat
          /\ Cardinality(RowsFor(TenantOf[u], u))' \in Nat
      <4>1. /\ Of("mark", u)' \subseteq Requests /\ Of("remove", u)' \subseteq Requests
            /\ RowsFor(TenantOf[u], u)' \subseteq Rows
        BY DEF Of, RowsFor
      <4> QED
        BY <4>1, EligibilityAssumption, FS_Subset, FS_CardinalityType
    <3> QED
      BY <3>2, <3>3 DEF Balance
  <2> QED
    BY <2>2, <2>3, <2>4
<1>4. IInv => Core
  BY CoreOfIInv
<1> QED
  BY <1>1, <1>2, <1>3, <1>4, InvariantHolds, PTL DEF Spec

=============================================================================
