-------------------------- MODULE BookingInvariant --------------------------
(***************************************************************************)
(* An inductive invariant of Booking.  The safety properties of Booking    *)
(* are not inductive: each depends on what the requests in flight have     *)
(* read, drawn or cancelled.  The parts below say that; BookingProofs      *)
(* proves that their conjunction IInv is inductive, and TLC checks it on   *)
(* small instances.                                                        *)
(***************************************************************************)
EXTENDS Booking

-----------------------------------------------------------------------------
(* Rows *)

Live(row) == row.state \notin {"absent", "deleted"}

\* A row that exists is filled in; it is assigned and closed consistently.
RowSound(row) ==
    /\ Live(row) => /\ row.employee \in Employees
                    /\ row.consultant \in Consultants
                    /\ row.slot \in Slots
                    /\ row.awaiting <=> row.assigned = None
                    /\ row.assigned \in {None, row.consultant}
    /\ row.state \in {"completed", "no_show"} => row.closure # None
    /\ row.closure # None => /\ row.state \in Outcomes
                             /\ ReasonMatches(row.state, row.closure)
                             /\ row.assigned # None

RowsSound ==
    \A b \in Bookings :
        RowSound(bookings[b]) /\ (Exists(b) => origin[b] \in Calls)

\* An audit row tells the truth about the booking it names, for as long as that
\* booking exists.
AuditTrue(e) ==
    LET row == bookings[e.booking] IN
    /\ row.state # "absent"
    /\ Live(row) =>
         /\ e.actor = row.consultant
         /\ e.action = "booking_closed" =>
              row.state = e.outcome /\ row.assigned = e.actor /\ row.closure # None

AuditSound == \A e \in audit : AuditTrue(e)

-----------------------------------------------------------------------------
(* Requests *)

\* The operation a request executes where it is suspended.
OpSound(q) ==
    /\ q.pc \in {"load", "restore"} => q.op = "reschedule"
    /\ q.pc \in {"check", "insert", "record"} => q.op \in {"create", "reschedule"}
    /\ q.pc \in {"resolve", "undo", "recover"} => q.op = "create"
    /\ q.pc = "cancel" => q.op \in {"cancel", "reschedule"}
    /\ q.pc = "claim" => q.op = "assign"
    /\ q.pc = "audit" => q.op \in {"assign", "close"}
    /\ q.pc = "undo" => q.prior \in Bookings
    /\ q.pc = "idle" => q.op = "none" /\ q.made = None

\* The arguments each operation carries.
ArgsSound(q) ==
    /\ q.op \in {"create", "reschedule", "cancel"} => q.employee \in Employees
    /\ q.op \in {"create", "reschedule"} =>
          q.consultant \in Consultants /\ q.slot \in Slots /\ q.made \in Bookings
    /\ q.op \in {"assign", "close"} => q.consultant \in Consultants
    /\ q.op \in {"reschedule", "cancel", "assign", "close"} => q.target \in Bookings
    /\ q.op = "create" => q.target = None

\* The id was drawn and the row is not yet inserted.
Drawn(q) ==
    q.op \in {"create", "reschedule"} /\ q.pc \in {"load", "check", "cancel", "insert"}

\* The row is inserted and its key is not yet recorded.
Unrecorded(q) == q.pc \in {"record", "resolve", "undo"}

\* The row of a request is its own, and no idempotency record leads to it yet.
MadeSound(q) ==
    /\ Drawn(q) => bookings[q.made].state = "absent"
    /\ Unrecorded(q) =>
         /\ Exists(q.made)
         /\ origin[q.made] = CallOf(q)
         /\ bookings[q.made].employee = q.employee
         /\ \A rec \in idem : rec.booking # q.made

Holding(q) == q.op = "reschedule" /\ q.pc \in {"insert", "record", "restore"}

HeldSound(q) ==
    Holding(q) => /\ bookings[q.target].state \in {"cancelled", "deleted"}
                  /\ bookings[q.target].closure = None
                  /\ Exists(q.target) => bookings[q.target].employee = q.employee

\* What a reschedule remembers of the old row may be stale, but it is an
\* assignment that row can have.
SnapshotSound(q) ==
    q.op = "reschedule" /\ q.pc \in {"check", "cancel", "insert", "record", "restore"} =>
      /\ bookings[q.target].state # "absent"
      /\ q.snapshot.awaiting <=> q.snapshot.assigned = None
      /\ Exists(q.target) => q.snapshot.assigned \in {None, bookings[q.target].consultant}

EntrySound(q) == q.pc = "audit" => q.entry \in AuditRow /\ AuditTrue(q.entry)

RequestSound(q) ==
    /\ OpSound(q) /\ ArgsSound(q) /\ MadeSound(q)
    /\ HeldSound(q) /\ SnapshotSound(q) /\ EntrySound(q)

RequestsSound == \A r \in Requests : RequestSound(req[r])

\* An ObjectId belongs to one request, and so does a session being moved.
Exclusive ==
    \A r, s \in Requests :
        /\ req[r].made # None /\ req[r].made = req[s].made => r = s
        /\ Holding(req[r]) /\ Holding(req[s]) /\ req[r].target = req[s].target => r = s

-----------------------------------------------------------------------------
IInv ==
    /\ TypeOK
    /\ RowsSound
    /\ SlotUnique
    /\ KeyLeadsHome
    /\ AuditSound
    /\ RequestsSound
    /\ Exclusive

-----------------------------------------------------------------------------
(* The cutoff *)

\* A withdrawal on its way was asked for before the cutoff of its session, and the
\* clock has not run back since.
AskedInTime(q) ==
    /\ q.pc # "idle" => q.since <= now
    /\ q.op \in {"cancel", "reschedule"} /\ q.pc \in {"check", "cancel"} =>
          /\ bookings[q.target].state # "absent"
          /\ Live(bookings[q.target]) => q.since < bookings[q.target].slot.start - MinNotice

AllAskedInTime == \A r \in Requests : AskedInTime(req[r])

-----------------------------------------------------------------------------
(* Moves, where no operation of storage is rejected *)

\* The session a move replaced is gone from the calendar for good: the only request
\* that may still hold it is the one that inserted the new row, and it has nothing
\* left to do but record its key.
Replaced(b) ==
    LET old == origin[b].target IN
    /\ old \in Bookings
    /\ bookings[old].state \notin {"confirmed", "absent"}
    /\ \A r \in Requests :
         Holding(req[r]) /\ req[r].target = old => req[r].pc = "record" /\ req[r].made = b

AllReplaced == \A b \in Bookings : Exists(b) /\ origin[b].op = "reschedule" => Replaced(b)

-----------------------------------------------------------------------------
(* Keys, where records do not expire *)

\* A create that yields to a twin finds the twin's record, and one that ends in the
\* outer catch has no row.
Yields(q) ==
    /\ q.pc = "resolve" => Recorded(CallOf(q))
    /\ q.pc = "recover" => bookings[q.made].state = "absent"

AllYield == \A r \in Requests : Yields(req[r])

\* A row created under a key is the one its key leads to, or still undecided.
Settles(x) ==
    \/ [call |-> origin[x], booking |-> x] \in idem
    \/ \E r \in Requests : Undecided(r, x)

AllSettle ==
    \A x \in Bookings :
        Exists(x) /\ origin[x].op = "create" /\ origin[x].key # None => Settles(x)

KeysUnique == \A m, n \in idem : m.call = n.call => m = n

=============================================================================
