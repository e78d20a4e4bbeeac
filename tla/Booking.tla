------------------------------ MODULE Booking ------------------------------
(***************************************************************************)
(* The bookings collection and the five handlers of SchedulingService that *)
(* write it: create, cancel and reschedule (collaborator), assign and      *)
(* close (consultant).                                                     *)
(*                                                                         *)
(* Every element of Requests is one HTTP request at a time.  A handler is  *)
(* cut at its awaits: between two steps of a request any other request may *)
(* run, on the same Node process or on another one.  A MongoDB operation   *)
(* on one document is atomic; nothing else is.  Two adjacent reads are one *)
(* step only where the first reads what no other step changes, or commutes *)
(* with every step between them (see README, "Grain of atomicity").        *)
(*                                                                         *)
(* `blocks`, the published availability, is only read here; the handlers   *)
(* that write it are in Availability, and Scheduling composes the two.     *)
(***************************************************************************)
EXTENDS Integers, FiniteSets

CONSTANTS
    Bookings,       \* pool of ObjectIds for rows of the bookings collection
    Requests,       \* requests that may be in flight together
    Employees, Consultants, Tenants,
    TenantOf,       \* the tenant of each employee
    ActiveConsultants, \* active platform users holding role planning_consultant
    Serves,         \* the tenants each consultant may serve (AD-SCHED-001)
    Slots,          \* the [start, end] pairs clients ask for
    Keys,           \* values of the Idempotency-Key header
    None,           \* a field that is not set, a header that is not sent
    ClosureCalls,   \* the <<outcome, reasonCode>> pairs consultants send
    BlockIds,       \* pool of ObjectIds for availability blocks
    Published,      \* the availability blocks published at the start
    MinNotice,      \* SCHED_BOOKING_MODIFY_MIN_HOURS_BEFORE
    Horizon,        \* bound: the clock stops here
    FaultKinds,     \* bound: the kinds of faults injected (see Fault)
    MaxFaults       \* bound on the number of faults

Outcomes == {"completed", "cancelled", "no_show"}

Reasons == {"delivered_completed", "client_cancelled", "consultant_cancelled",
            "no_show_employee", "no_show_other"}

ASSUME ConstantsAssumption ==
    /\ None \notin Bookings \cup Employees \cup Consultants \cup Keys
    /\ None \notin Slots /\ None \notin Reasons
    /\ TenantOf \in [Employees -> Tenants]
    /\ ActiveConsultants \subseteq Consultants
    /\ Serves \in [Consultants -> SUBSET Tenants]
    /\ Slots \subseteq [start : Int, end : Int]
    /\ ClosureCalls \subseteq Outcomes \X Reasons
    /\ Published \subseteq [id : BlockIds, consultant : Consultants,
                       tenant : Tenants, start : Int, end : Int]
    /\ MinNotice \in Nat
    /\ Horizon \in Nat
    /\ MaxFaults \in Nat

VARIABLES
    bookings,   \* collection bookings, by _id
    idem,       \* collection scheduling_idempotency
    audit,      \* collection scheduling_booking_audits
    blocks,     \* collection consultant_availability_blocks (read only here)
    req,        \* the requests in flight: where each is and what it has read
    now,        \* the server clock
    faults,     \* number of faults injected so far
    origin      \* history variable: the call that inserted each booking

vars == <<bookings, idem, audit, blocks, req, now, faults, origin>>

-----------------------------------------------------------------------------
(* Documents *)

\* "absent": the id is not used yet; "deleted": the row was removed.
States == Outcomes \cup {"confirmed", "absent", "deleted"}

\* tenantId is not kept in the row: it is the employee's, see BookingTenant.
BookingRow ==
    [state      : States,
     employee   : Employees \cup {None},
     consultant : Consultants \cup {None},
     slot       : Slots \cup {None},
     awaiting   : BOOLEAN,
     assigned   : Consultants \cup {None},
     closure    : Reasons \cup {None}]

AbsentRow ==
    [state |-> "absent", employee |-> None, consultant |-> None, slot |-> None,
     awaiting |-> FALSE, assigned |-> None, closure |-> None]

DeletedRow == [AbsentRow EXCEPT !.state = "deleted"]

\* What an idempotency key is compounded from.
Calls ==
    [op       : {"create", "reschedule"},
     employee : Employees,
     target   : Bookings \cup {None},
     key      : Keys \cup {None}]

IdemRow == [call : Calls, booking : Bookings]

AuditRow ==
    [booking : Bookings, actor : Consultants,
     action  : {"booking_assigned", "booking_closed"},
     outcome : Outcomes \cup {None}]

Block ==
    [id : BlockIds, consultant : Consultants, tenant : Tenants,
     start : Int, end : Int]

-----------------------------------------------------------------------------
(* Requests *)

Operations == {"create", "cancel", "reschedule", "assign", "close"}

\* The await each handler is suspended at.
Points == {"idle", "load", "check", "cancel", "insert", "record", "resolve",
           "undo", "recover", "restore", "claim", "audit"}

Codes == {"none", "ok", "SLOT_INVALID", "SLOT_TAKEN", "NOT_FOUND",
          "NOT_CANCELLABLE", "NOT_ASSIGNABLE", "ALREADY_CLAIMED",
          "OUT_OF_SCOPE", "INVALID_REASON", "NOT_CLOSABLE", "error", "lost"}

Snapshot == [awaiting : BOOLEAN, assigned : Consultants \cup {None}]

NoSnapshot == [awaiting |-> FALSE, assigned |-> None]

Request ==
    [pc         : Points,
     op         : Operations \cup {"none"},
     employee   : Employees \cup {None},
     consultant : Consultants \cup {None},
     slot       : Slots \cup {None},
     key        : Keys \cup {None},
     target     : Bookings \cup {None},   \* :bookingId of the route
     made       : Bookings \cup {None},   \* _id mongoose drew for the new row
     snapshot   : Snapshot,               \* assignmentSnapshot
     entry      : AuditRow \cup {None},   \* the audit row still to be written
     since      : Int,                    \* history: when the request arrived
     prior      : Bookings \cup {None},   \* the twin's booking, found by Resolve
     reply      : Codes]

Idle ==
    [pc |-> "idle", op |-> "none", employee |-> None, consultant |-> None,
     slot |-> None, key |-> None, target |-> None, made |-> None,
     snapshot |-> NoSnapshot, entry |-> None, since |-> 0,
     prior |-> None, reply |-> "none"]

InFlight(r) == req[r].pc # "idle"

Goto(r, p) == req' = [req EXCEPT ![r].pc = p]

Reply(r, code) == req' = [req EXCEPT ![r] = [Idle EXCEPT !.reply = code]]

-----------------------------------------------------------------------------
(* What the handlers ask of the collections *)

Exists(b) == bookings[b].state \notin {"absent", "deleted"}

Confirmed(b) == bookings[b].state = "confirmed"

BookingTenant(b) == TenantOf[bookings[b].employee]

\* Half-open intervals: a session may start when another one ends.
Overlaps(s, t) == s.start < t.end /\ t.start < s.end

\* Mutant: claimed sessions no longer clash.
ClashAwaitingOnly(c, t, s, ignored) ==
    \E b \in Bookings \ {ignored} :
        /\ Confirmed(b)
        /\ bookings[b].awaiting
        /\ bookings[b].consultant = c
        /\ BookingTenant(b) = t
        /\ Overlaps(bookings[b].slot, s)

\* The clash filter looks at the tenant's own bookings only.
Clash(c, t, s, ignored) ==
    \E b \in Bookings \ {ignored} :
        /\ Confirmed(b)
        /\ bookings[b].consultant = c
        /\ BookingTenant(b) = t
        /\ Overlaps(bookings[b].slot, s)

\* Inside one published block of that consultant for that tenant.
Offered(c, t, s) ==
    /\ s.start < s.end
    /\ \E k \in blocks : /\ k.consultant = c
                         /\ k.tenant = t
                         /\ k.start <= s.start
                         /\ s.end <= k.end

\* Mutant: the index is declared without `unique`.
IndexedNever(b, row) == FALSE

\* Partial unique index (consultantId, slotStartUtc) over confirmed rows: a
\* write that would make `row` confirmed under id b fails with E11000.
Indexed(b, row) ==
    \E x \in Bookings \ {b} :
        /\ Confirmed(x)
        /\ bookings[x].consultant = row.consultant
        /\ bookings[x].slot.start = row.slot.start

\* Mutant: the cutoff is forgotten.
MayModifyUntilStart(s) == now < s.start

\* assertMayModifyConfirmedBooking: before the session, and before its cutoff.
MayModify(s) == now < s.start /\ now < s.start - MinNotice

\* Mutant: the state is missing from the filter.
WithdrawableInAnyState(b, e) == Exists(b) /\ bookings[b].employee = e

\* Filter of the collaborator's reads and of both updates to 'cancelled'.
Withdrawable(b, e) == Confirmed(b) /\ bookings[b].employee = e

Claimable(b, c) ==
    Confirmed(b) /\ bookings[b].awaiting /\ bookings[b].consultant = c

\* Mutant: the slot's consultant may close without having claimed.
ClosableUnclaimed(b, c) == Confirmed(b) /\ bookings[b].consultant = c

Closable(b, c) ==
    Confirmed(b) /\ ~bookings[b].awaiting /\ bookings[b].assigned = c

ReasonMatches(outcome, reason) ==
    reason \in CASE outcome = "completed" -> {"delivered_completed"}
                 [] outcome = "cancelled" -> {"client_cancelled", "consultant_cancelled"}
                 [] outcome = "no_show"   -> {"no_show_employee", "no_show_other"}

\* Mutant: the employee is missing from the key.
KeyOfTenant(op, e, target, k) ==
    [op |-> op, employee |-> CHOOSE x \in Employees : TenantOf[x] = TenantOf[e],
     target |-> target, key |-> k]

\* createIdempotencyCompoundKey
CompoundKey(op, e, target, k) ==
    [op |-> op, employee |-> e, target |-> target, key |-> k]

CallOf(q) == CompoundKey(q.op, q.employee, q.target, q.key)

Recorded(call) == \E rec \in idem : rec.call = call

\* findOne({ key }) and then findById(rec.bookingId)
Prior(call) ==
    {b \in Bookings : [call |-> call, booking |-> b] \in idem /\ Exists(b)}

\* An ObjectId is drawn once and never drawn again.
Fresh(b) == bookings[b].state = "absent" /\ \A r \in Requests : req[r].made # b

-----------------------------------------------------------------------------
(* createCollaboratorBooking *)

\* A request arrives; with a key, the key is looked up and a recorded booking
\* is returned as it stands, without any further check.
BeginCreate(r, e, c, s, k) ==
    LET call == CompoundKey("create", e, None, k) IN
    /\ ~InFlight(r)
    /\ \/ Prior(call) # {} /\ Reply(r, "ok")
       \/ /\ Prior(call) = {}
          /\ \E b \in Bookings :
               /\ Fresh(b)
               /\ req' = [req EXCEPT ![r] =
                    [Idle EXCEPT !.pc = "check", !.op = "create", !.employee = e,
                                 !.consultant = c, !.slot = s, !.key = k,
                                 !.made = b, !.since = now]]
    /\ UNCHANGED <<bookings, idem, audit, blocks, now, faults, origin>>

\* assertIntervalBookable, for create and (ignoring the old row) reschedule.
Check(r) ==
    LET q == req[r]
        t == TenantOf[q.employee]
    IN
    /\ q.pc = "check"
    /\ \/ /\ ~Offered(q.consultant, t, q.slot)
          /\ Reply(r, "SLOT_INVALID")
       \/ /\ Offered(q.consultant, t, q.slot)
          /\ Clash(q.consultant, t, q.slot, q.target)
          /\ Reply(r, "SLOT_TAKEN")
       \/ /\ Offered(q.consultant, t, q.slot)
          /\ ~Clash(q.consultant, t, q.slot, q.target)
          /\ Goto(r, IF q.op = "create" THEN "insert" ELSE "cancel")
    /\ UNCHANGED <<bookings, idem, audit, blocks, now, faults, origin>>

\* The row both handlers create.
Draft(q) ==
    [state |-> "confirmed", employee |-> q.employee, consultant |-> q.consultant,
     slot |-> q.slot, awaiting |-> TRUE, assigned |-> None, closure |-> None]

\* The insert is accepted by the index.
Store(r) ==
    LET q == req[r] IN
    /\ q.pc = "insert"
    /\ ~Indexed(q.made, Draft(q))
    /\ bookings' = [bookings EXCEPT ![q.made] = Draft(q)]
    /\ origin' = [origin EXCEPT ![q.made] = CallOf(req[r])]

Insert(r) ==
    LET q == req[r] IN
    /\ Store(r)
    /\ IF q.key # None THEN Goto(r, "record") ELSE Reply(r, "ok")
    /\ UNCHANGED <<idem, audit, blocks, now, faults>>

\* E11000: a keyed create looks for the twin that won, a reschedule takes the
\* old session back, a create without key gives up.
InsertDuplicate(r) ==
    LET q == req[r] IN
    /\ q.pc = "insert"
    /\ Indexed(q.made, Draft(q))
    /\ \/ /\ q.op = "create"
          /\ IF q.key # None THEN Goto(r, "recover") ELSE Reply(r, "SLOT_TAKEN")
       \/ /\ q.op = "reschedule"
          /\ req' = [req EXCEPT ![r].pc = "restore", ![r].reply = "SLOT_TAKEN"]
    /\ UNCHANGED <<bookings, idem, audit, blocks, now, faults, origin>>

\* The unique index on `key` accepts the idempotency record.
StoreKey(r) ==
    /\ req[r].pc = "record"
    /\ ~Recorded(CallOf(req[r]))
    /\ idem' = idem \cup {[call |-> CallOf(req[r]), booking |-> req[r].made]}

Record(r) ==
    /\ StoreKey(r)
    /\ Reply(r, "ok")
    /\ UNCHANGED <<bookings, audit, blocks, now, faults, origin>>

\* A twin recorded the key first: a create yields to it, a reschedule ignores it.
RecordDuplicate(r) ==
    /\ req[r].pc = "record"
    /\ Recorded(CallOf(req[r]))
    /\ \/ req[r].op = "create" /\ Goto(r, "resolve")
       \/ req[r].op = "reschedule" /\ Reply(r, "ok")
    /\ UNCHANGED <<bookings, idem, audit, blocks, now, faults, origin>>

\* Mutant: the twin gives up at once instead of returning the winner's booking.
ResolveByRefusing(r) ==
    /\ req[r].pc = "resolve"
    /\ Reply(r, "SLOT_TAKEN")
    /\ UNCHANGED <<bookings, idem, audit, blocks, now, faults, origin>>

\* The inner catch reads the winner's booking; if it is gone the duplicate-key
\* error goes on to the outer catch, with this request's row still in place.
Resolve(r) ==
    /\ req[r].pc = "resolve"
    /\ \/ \E p \in Prior(CallOf(req[r])) :
            req' = [req EXCEPT ![r].pc = "undo", ![r].prior = p]
       \/ Prior(CallOf(req[r])) = {} /\ Goto(r, "recover")
    /\ UNCHANGED <<bookings, idem, audit, blocks, now, faults, origin>>

\* Mutant: the second row is left behind.
UndoNothing(r) ==
    /\ req[r].pc = "undo"
    /\ Reply(r, "ok")
    /\ UNCHANGED <<bookings, idem, audit, blocks, now, faults, origin>>

\* Mutant: the winner's row is deleted.
UndoWinner(r) ==
    /\ req[r].pc = "undo"
    /\ bookings' = [bookings EXCEPT ![req[r].prior] = DeletedRow]
    /\ Reply(r, "ok")
    /\ UNCHANGED <<idem, audit, blocks, now, faults, origin>>

\* deleteOne({ _id: created._id }), whatever has become of that row meanwhile.
Undo(r) ==
    /\ req[r].pc = "undo"
    /\ bookings' = [bookings EXCEPT ![req[r].made] = DeletedRow]
    /\ Reply(r, "ok")
    /\ UNCHANGED <<idem, audit, blocks, now, faults, origin>>

\* The outer catch: the twin's booking, or SLOT_TAKEN.
Recover(r) ==
    /\ req[r].pc = "recover"
    /\ \/ Prior(CallOf(req[r])) # {} /\ Reply(r, "ok")
       \/ Prior(CallOf(req[r])) = {} /\ Reply(r, "SLOT_TAKEN")
    /\ UNCHANGED <<bookings, idem, audit, blocks, now, faults, origin>>

-----------------------------------------------------------------------------
(* cancelCollaboratorBooking *)

BeginCancel(r, e, b) ==
    /\ ~InFlight(r)
    /\ \/ ~Withdrawable(b, e) /\ Reply(r, "NOT_FOUND")
       \/ /\ Withdrawable(b, e)
          /\ ~MayModify(bookings[b].slot)
          /\ Reply(r, "NOT_CANCELLABLE")
       \/ /\ Withdrawable(b, e)
          /\ MayModify(bookings[b].slot)
          /\ req' = [req EXCEPT ![r] =
                 [Idle EXCEPT !.pc = "cancel", !.op = "cancel", !.employee = e,
                              !.target = b, !.since = now]]
    /\ UNCHANGED <<bookings, idem, audit, blocks, now, faults, origin>>

\* findOneAndUpdate({ state: 'confirmed' }, { state: 'cancelled' })
Cancel(r) ==
    LET q == req[r] IN
    /\ q.pc = "cancel" /\ q.op = "cancel"
    /\ \/ /\ Withdrawable(q.target, q.employee)
          /\ bookings' = [bookings EXCEPT ![q.target].state = "cancelled"]
          /\ Reply(r, "ok")
       \/ /\ ~Withdrawable(q.target, q.employee)
          /\ Reply(r, "NOT_FOUND")
          /\ UNCHANGED bookings
    /\ UNCHANGED <<idem, audit, blocks, now, faults, origin>>

-----------------------------------------------------------------------------
(* rescheduleCollaboratorBooking *)

BeginReschedule(r, e, b, c, s, k) ==
    LET call == CompoundKey("reschedule", e, b, k) IN
    /\ ~InFlight(r)
    /\ \/ Prior(call) # {} /\ Reply(r, "ok")
       \/ /\ Prior(call) = {}
          /\ \E m \in Bookings :
               /\ Fresh(m) /\ m # b
               /\ req' = [req EXCEPT ![r] =
                    [Idle EXCEPT !.pc = "load", !.op = "reschedule", !.employee = e,
                                 !.consultant = c, !.slot = s, !.key = k,
                                 !.target = b, !.made = m, !.since = now]]
    /\ UNCHANGED <<bookings, idem, audit, blocks, now, faults, origin>>

\* Reads the old row, checks the cutoff and takes the assignment snapshot.
Load(r) ==
    LET q == req[r] IN
    /\ q.pc = "load"
    /\ \/ ~Withdrawable(q.target, q.employee) /\ Reply(r, "NOT_FOUND")
       \/ /\ Withdrawable(q.target, q.employee)
          /\ ~MayModify(bookings[q.target].slot)
          /\ Reply(r, "NOT_CANCELLABLE")
       \/ /\ Withdrawable(q.target, q.employee)
          /\ MayModify(bookings[q.target].slot)
          /\ req' = [req EXCEPT ![r].pc = "check",
                                ![r].snapshot =
                                   [awaiting |-> bookings[q.target].awaiting,
                                    assigned |-> bookings[q.target].assigned]]
    /\ UNCHANGED <<bookings, idem, audit, blocks, now, faults, origin>>

\* Mutant: goes on to the insert whether or not the update matched.
ReleaseUnchecked(r) ==
    LET q == req[r] IN
    /\ q.pc = "cancel" /\ q.op = "reschedule"
    /\ bookings' = IF Withdrawable(q.target, q.employee)
                     THEN [bookings EXCEPT ![q.target].state = "cancelled"]
                     ELSE bookings
    /\ Goto(r, "insert")
    /\ UNCHANGED <<idem, audit, blocks, now, faults, origin>>

\* updateOne({ state: 'confirmed' }, { state: 'cancelled' }); modifiedCount = 0
\* means somebody else changed the booking.
Release(r) ==
    LET q == req[r] IN
    /\ q.pc = "cancel" /\ q.op = "reschedule"
    /\ \/ /\ Withdrawable(q.target, q.employee)
          /\ bookings' = [bookings EXCEPT ![q.target].state = "cancelled"]
          /\ Goto(r, "insert")
       \/ /\ ~Withdrawable(q.target, q.employee)
          /\ Reply(r, "SLOT_TAKEN")
          /\ UNCHANGED bookings
    /\ UNCHANGED <<idem, audit, blocks, now, faults, origin>>

\* Mutant: the restored session goes back to the queue, still assigned.
RestoredHalf(q) ==
    [bookings[q.target] EXCEPT !.state = "confirmed", !.awaiting = TRUE]

\* Mutant: the restored session has lost its assignment.
RestoredUnclaimed(q) ==
    [bookings[q.target] EXCEPT !.state = "confirmed", !.awaiting = TRUE, !.assigned = None]

\* The old row with the assignment the handler saw before it began.
Restored(q) ==
    [bookings[q.target] EXCEPT !.state = "confirmed",
                               !.awaiting = q.snapshot.awaiting,
                               !.assigned = q.snapshot.assigned]

\* Mutant: the filter of the restore is the one of the release.
RestorableIfConfirmed(q) == Withdrawable(q.target, q.employee)

Restorable(q) ==
    /\ bookings[q.target].state = "cancelled"
    /\ bookings[q.target].employee = q.employee

\* The catch block.  It runs for every error, and its own update is subject to
\* the index: if the old slot has been taken it throws, and the handler ends in
\* that E11000 (an unmapped error).
Restore(r) ==
    LET q == req[r] IN
    /\ q.pc = "restore"
    /\ \/ /\ Restorable(q) /\ Indexed(q.target, Restored(q))
          /\ Reply(r, "error")
          /\ UNCHANGED bookings
       \/ /\ ~(Restorable(q) /\ Indexed(q.target, Restored(q)))
          /\ bookings' = IF Restorable(q)
                           THEN [bookings EXCEPT ![q.target] = Restored(q)]
                           ELSE bookings
          /\ Reply(r, q.reply)
    /\ UNCHANGED <<idem, audit, blocks, now, faults, origin>>

-----------------------------------------------------------------------------
(* assignUnassignedBookingToSelf and closeAssignedBookingAsConsultant *)

BeginAssign(r, c, b) ==
    LET waiting == Confirmed(b) /\ bookings[b].awaiting IN
    /\ ~InFlight(r)
    /\ \/ c \notin ActiveConsultants /\ Reply(r, "OUT_OF_SCOPE")
       \/ c \in ActiveConsultants /\ ~waiting /\ Reply(r, "NOT_ASSIGNABLE")
       \/ /\ c \in ActiveConsultants /\ waiting
          /\ BookingTenant(b) \notin Serves[c]
          /\ Reply(r, "OUT_OF_SCOPE")
       \/ /\ c \in ActiveConsultants /\ waiting
          /\ BookingTenant(b) \in Serves[c]
          /\ IF bookings[b].consultant = c
               THEN req' = [req EXCEPT ![r] =
                      [Idle EXCEPT !.pc = "claim", !.op = "assign", !.consultant = c,
                                   !.target = b, !.since = now]]
               ELSE Reply(r, "NOT_ASSIGNABLE")
    /\ UNCHANGED <<bookings, idem, audit, blocks, now, faults, origin>>

\* Mutant: the update takes the session off the queue and names no assignee.
ClaimUnassigned(r) ==
    LET q == req[r] IN
    /\ q.pc = "claim"
    /\ \/ /\ Claimable(q.target, q.consultant)
          /\ bookings' = [bookings EXCEPT ![q.target].awaiting = FALSE]
          /\ Reply(r, "ok")
       \/ /\ ~Claimable(q.target, q.consultant)
          /\ Reply(r, "ALREADY_CLAIMED")
          /\ UNCHANGED bookings
    /\ UNCHANGED <<idem, audit, blocks, now, faults, origin>>

\* findOneAndUpdate on { confirmed, awaitingAssignment, consultantId: me }
Claim(r) ==
    LET q == req[r] IN
    /\ q.pc = "claim"
    /\ \/ /\ Claimable(q.target, q.consultant)
          /\ bookings' = [bookings EXCEPT ![q.target].awaiting = FALSE,
                                          ![q.target].assigned = q.consultant]
          /\ req' = [req EXCEPT ![r].pc = "audit",
                                ![r].entry = [booking |-> q.target, actor |-> q.consultant,
                                              action |-> "booking_assigned", outcome |-> None]]
       \/ /\ ~Claimable(q.target, q.consultant)
          /\ Reply(r, "ALREADY_CLAIMED")
          /\ UNCHANGED bookings
    /\ UNCHANGED <<idem, audit, blocks, now, faults, origin>>

\* Mutant: the update swaps outcome and reason.
ClosedSwapped(row, outcome, reason) ==
    [row EXCEPT !.state = reason, !.closure = outcome]

Closed(row, outcome, reason) ==
    [row EXCEPT !.state = outcome, !.closure = reason]

Close(r, c, b, outcome, reason) ==
    /\ ~InFlight(r)
    /\ \/ /\ ~ReasonMatches(outcome, reason)
          /\ Reply(r, "INVALID_REASON")
          /\ UNCHANGED bookings
       \/ /\ ReasonMatches(outcome, reason) /\ c \notin ActiveConsultants
          /\ Reply(r, "OUT_OF_SCOPE")
          /\ UNCHANGED bookings
       \/ /\ ReasonMatches(outcome, reason) /\ c \in ActiveConsultants
          /\ ~Closable(b, c)
          /\ Reply(r, "NOT_CLOSABLE")
          /\ UNCHANGED bookings
       \/ /\ ReasonMatches(outcome, reason) /\ c \in ActiveConsultants
          /\ Closable(b, c)
          /\ bookings' = [bookings EXCEPT ![b] = Closed(@, outcome, reason)]
          /\ req' = [req EXCEPT ![r] =
                 [Idle EXCEPT !.pc = "audit", !.op = "close", !.consultant = c,
                              !.target = b, !.since = now,
                              !.entry = [booking |-> b, actor |-> c,
                                         action |-> "booking_closed", outcome |-> outcome]]]
    /\ UNCHANGED <<idem, audit, blocks, now, faults, origin>>

\* writeBookingAudit, after the booking itself has been updated.
WriteAudit(r) ==
    /\ req[r].pc = "audit"
    /\ audit' = audit \cup {req[r].entry}
    /\ Reply(r, "ok")
    /\ UNCHANGED <<bookings, idem, blocks, now, faults, origin>>

-----------------------------------------------------------------------------
(* Faults and time *)

\* "error", "unacknowledged", "crash" and "expiry", at most MaxFaults in all.
Fault(kind) ==
    /\ kind \in FaultKinds
    /\ faults < MaxFaults
    /\ faults' = faults + 1

\* An operation rejects with something other than E11000.  Only the reschedule
\* handler catches it, and only around its insert and its key.
Raise(r) ==
    IF req[r].op = "reschedule" /\ req[r].pc \in {"insert", "record"}
      THEN req' = [req EXCEPT ![r].pc = "restore", ![r].reply = "error"]
      ELSE Reply(r, "error")

\* The operation was not applied.
StorageError(r) ==
    /\ InFlight(r)
    /\ Fault("error")
    /\ Raise(r)
    /\ UNCHANGED <<bookings, idem, audit, blocks, now, origin>>

\* The write was applied and its acknowledgement was lost.  (Where nothing
\* catches the error, that is a Crash after the write.)
LostAcknowledgement(r) ==
    /\ Fault("unacknowledged")
    /\ Raise(r)
    /\ \/ Store(r) /\ UNCHANGED idem
       \/ StoreKey(r) /\ UNCHANGED <<bookings, origin>>
    /\ UNCHANGED <<audit, blocks, now>>

\* The process dies between two awaits; the client gets no answer.
Crash(r) ==
    /\ InFlight(r)
    /\ Fault("crash")
    /\ Reply(r, "lost")
    /\ UNCHANGED <<bookings, idem, audit, blocks, now, origin>>

\* The TTL index drops an idempotency record (24 h after it was written).
Expire ==
    /\ Fault("expiry")
    /\ \E rec \in idem : idem' = idem \ {rec}
    /\ UNCHANGED <<bookings, audit, req, blocks, now, origin>>

Tick ==
    /\ now < Horizon
    /\ now' = now + 1
    /\ UNCHANGED <<bookings, idem, audit, blocks, req, faults, origin>>

-----------------------------------------------------------------------------
Init ==
    /\ blocks = Published
    /\ bookings = [b \in Bookings |-> AbsentRow]
    /\ idem = {}
    /\ audit = {}
    /\ req = [r \in Requests |-> Idle]
    /\ now = 0
    /\ faults = 0
    /\ origin = [b \in Bookings |-> None]

Arrive(r) ==
    \/ \E e \in Employees, c \in Consultants, s \in Slots, k \in Keys \cup {None} :
         \/ BeginCreate(r, e, c, s, k)
         \/ \E b \in Bookings : BeginReschedule(r, e, b, c, s, k)
    \/ \E e \in Employees, b \in Bookings : BeginCancel(r, e, b)
    \/ \E c \in Consultants, b \in Bookings :
         \/ BeginAssign(r, c, b)
         \/ \E call \in ClosureCalls : Close(r, c, b, call[1], call[2])

Advance(r) ==
    \/ Load(r) \/ Check(r) \/ Cancel(r) \/ Release(r)
    \/ Insert(r) \/ InsertDuplicate(r) \/ Record(r) \/ RecordDuplicate(r)
    \/ Resolve(r) \/ Undo(r) \/ Recover(r) \/ Restore(r)
    \/ Claim(r) \/ WriteAudit(r)

Break(r) == StorageError(r) \/ LostAcknowledgement(r) \/ Crash(r)

Next ==
    \/ \E r \in Requests : Arrive(r) \/ Advance(r) \/ Break(r)
    \/ Expire
    \/ Tick

\* Node settles every await of a handler that is not killed.
Fairness == \A r \in Requests : WF_vars(Advance(r))

Spec == Init /\ [][Next]_vars /\ Fairness

-----------------------------------------------------------------------------
(* Properties *)

\* The collections, the requests and the clock keep their shapes.
TypeOK ==
    /\ bookings \in [Bookings -> BookingRow]
    /\ idem \subseteq IdemRow
    /\ audit \subseteq AuditRow
    /\ blocks \subseteq Block
    /\ req \in [Requests -> Request]
    /\ now \in Int
    /\ faults \in Nat
    /\ origin \in [Bookings -> Calls \cup {None}]

\* No two confirmed sessions of a consultant start together, whoever confirmed
\* them: an insert of create or reschedule, or the restore of an old session.
SlotUnique ==
    \A x, y \in Bookings :
        /\ Confirmed(x) /\ Confirmed(y)
        /\ bookings[x].consultant = bookings[y].consultant
        /\ bookings[x].slot.start = bookings[y].slot.start
        => x = y

\* r has cancelled the old session of a reschedule and may still restore it.
Holds(r, b) ==
    /\ req[r].op = "reschedule"
    /\ req[r].pc \in {"insert", "record", "restore"}
    /\ req[r].target = b

\* While a reschedule holds an old session nobody else changes it: it stays
\* cancelled without closure reason, and only one request holds it.  (A create
\* that lost its key to a twin may still delete the row under its holder.)
HeldIsCancelled ==
    \A r \in Requests, b \in Bookings :
        Holds(r, b) =>
          /\ bookings[b].state \in {"cancelled", "deleted"}
          /\ bookings[b].closure = None
          /\ \A q \in Requests : Holds(q, b) => q = r

\* A session waits in the queue exactly while it is assigned to nobody, and it
\* is only ever assigned to the consultant whose slot it takes, also after a
\* reschedule put back the assignment it had read earlier.
ClaimConsistent ==
    \A b \in Bookings :
        Exists(b) =>
          /\ bookings[b].awaiting <=> bookings[b].assigned = None
          /\ bookings[b].assigned \in {None, bookings[b].consultant}

\* A closure reason is there exactly when a consultant closed the session, it
\* fits the outcome, and the session had been claimed.
ClosureConsistent ==
    \A b \in Bookings :
        LET row == bookings[b] IN
        /\ row.state \in {"completed", "no_show"} => row.closure # None
        /\ row.closure # None => /\ row.state \in Outcomes
                                 /\ ReasonMatches(row.state, row.closure)
                                 /\ row.assigned # None

\* The audit trail never contradicts the collection: a session logged as closed
\* has that outcome and was closed by its assignee, for ever after; a claim is
\* logged for the slot's consultant only.  Rows undone by a create are gone.
AuditConsistent ==
    \A e \in audit :
        LET row == bookings[e.booking] IN
        row.state # "deleted" =>
          /\ e.actor = row.consultant
          /\ e.action = "booking_closed" => row.state = e.outcome /\ row.assigned = e.actor

\* An idempotency record leads to a booking that exists, was made by the very
\* call the key stands for and belongs to the employee who sent it.
KeyLeadsHome ==
    \A rec \in idem :
        /\ Exists(rec.booking)
        /\ origin[rec.booking] = rec.call
        /\ bookings[rec.booking].employee = rec.call.employee

\* r has inserted a row for its create and not yet answered.
Undecided(r, b) ==
    req[r].op = "create" /\ req[r].made = b /\ req[r].pc \in {"record", "resolve", "undo"}

\* One key makes one reservation as long as nothing has failed: of two rows
\* created under one key at least one is about to be undone by a request still
\* in flight.  (A crash between the insert of a row and the insert of its key
\* leaves a second row for good.)
KeyMakesOne ==
    faults = 0 =>
      \A x, y \in Bookings :
        /\ x # y
        /\ Exists(x) /\ Exists(y)
        /\ origin[x] = origin[y]
        /\ origin[x].op = "create" /\ origin[x].key # None
        => \E r \in Requests : Undecided(r, x) \/ Undecided(r, y)

\* A rescheduled session and the one that replaces it are never both confirmed.
NoDoubleReservation ==
    \A b \in Bookings :
        Confirmed(b) /\ origin[b].op = "reschedule" => ~Confirmed(origin[b].target)

-----------------------------------------------------------------------------
(* What a step may never do *)

Ends(r, code) == InFlight(r) /\ req'[r].pc = "idle" /\ req'[r].reply = code

\* Cancelled, completed or no-show, and no reschedule about to restore it.
Settled(b) ==
    bookings[b].state \in Outcomes /\ \A r \in Requests : ~Holds(r, b)

\* A settled session is never reopened, reassigned or relabelled, and no
\* reschedule gets hold of it; at most the create that made it under a key it
\* lost removes it.
SettledIsFinal ==
    [][\A b \in Bookings :
         Settled(b) => \/ bookings'[b] = bookings[b] /\ \A r \in Requests : ~Holds(r, b)'
                       \/ /\ bookings'[b] = DeletedRow
                          /\ \E r \in Requests : Undecided(r, b)]_vars

\* "your original session is restored" is said only when it is (or when the row
\* was deleted by a create that lost its key).
RestoredAsTold ==
    [][\A r \in Requests :
         req[r].pc = "restore" /\ Ends(r, "SLOT_TAKEN") =>
           bookings'[req[r].target].state \in {"confirmed", "deleted"}]_vars

\* No idempotency record can have been dropped: they do not expire here, or
\* nothing has failed yet.
RecordsKept == "expiry" \in FaultKinds => faults = 0

\* SLOT_TAKEN leaves no reservation behind: as long as no record was dropped, a
\* refused create has no confirmed row.
RefusedLeavesNothing ==
    [][\A r \in Requests :
         RecordsKept' /\ req[r].op = "create" /\ Ends(r, "SLOT_TAKEN") =>
           bookings'[req[r].made].state # "confirmed"]_vars

\* A collaborator's withdrawal that takes effect was asked for before the
\* cutoff of the session, however late it is applied.
CutoffEnforced ==
    [][\A b \in Bookings :
         Confirmed(b) /\ bookings'[b].state = "cancelled" /\ bookings'[b].closure = None =>
           \E r \in Requests :
             /\ req[r].target = b
             /\ req[r].since < bookings[b].slot.start - MinNotice]_vars

\* A claim, once made, is not undone while the session lives.
ClaimIsKept ==
    [][\A b \in Bookings :
         bookings[b].assigned # None /\ bookings'[b].state # "deleted" =>
           bookings'[b].assigned = bookings[b].assigned]_vars

\* A reschedule that is answered with an error leaves the old session standing.
RescheduleFailsSafe ==
    [][\A r \in Requests :
         (\E b \in Bookings : Holds(r, b)) /\ (Ends(r, "SLOT_TAKEN") \/ Ends(r, "error")) =>
           bookings'[req[r].target].state = "confirmed"]_vars

=============================================================================
