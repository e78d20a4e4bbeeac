------------------------ MODULE SchedulingInvariant ------------------------
(***************************************************************************)
(* An inductive invariant of Scheduling, and of LegacyMigration on top of  *)
(* it.  Sessions of the old version break the invariant of Booking: they   *)
(* wait for nobody and are assigned to nobody.  What is left without that  *)
(* is below, with what the composition adds: a session was offered by its  *)
(* consultant, whatever has become of the block since.                     *)
(***************************************************************************)
EXTENDS LegacyMigration, BookingInvariant

-----------------------------------------------------------------------------
(* Rows *)

Serviced(c, e) == c \in ActiveConsultants /\ TenantOf[e] \in Serves[c]

\* A session takes some time, with a consultant who served its tenant; it may be
\* assigned only to that consultant, and not while it waits in the queue.
RowWhole(row) ==
    /\ Live(row) => /\ row.employee \in Employees
                    /\ row.consultant \in Consultants
                    /\ row.slot \in Slots
                    /\ row.slot.start < row.slot.end
                    /\ Serviced(row.consultant, row.employee)
                    /\ row.awaiting => row.assigned = None
                    /\ row.assigned \in {None, row.consultant}
    /\ row.state = "absent" => row.assigned = None

RowsWhole == \A b \in Bookings : RowWhole(bookings[b])

-----------------------------------------------------------------------------
(* Requests *)

\* assertIntervalBookable has accepted what the request asks for.
Accepted(q) ==
    q.op \in {"create", "reschedule"} /\ q.pc \in {"cancel", "insert"} =>
      q.slot.start < q.slot.end /\ Serviced(q.consultant, q.employee)

\* The snapshot is an assignment the old row can have, though perhaps not the one
\* it has by now.
Remembers(q) == q.op = "reschedule" /\ q.pc \in {"check", "cancel", "insert", "record", "restore"}

SnapshotWhole(q) ==
    Remembers(q) =>
      /\ bookings[q.target].state # "absent"
      /\ q.snapshot.awaiting => q.snapshot.assigned = None
      /\ Exists(q.target) => q.snapshot.assigned \in {None, bookings[q.target].consultant}

RequestWhole(q) ==
    /\ OpSound(q) /\ ArgsSound(q)
    /\ q.pc = "audit" => q.entry \in AuditRow
    /\ Drawn(q) => bookings[q.made].state = "absent"
    /\ Accepted(q)
    /\ SnapshotWhole(q)

RequestsWhole == \A r \in Requests : RequestWhole(req[r])

MadeOnce == \A r, s \in Requests : req[r].made # None /\ req[r].made = req[s].made => r = s

Whole ==
    /\ TypeOK
    /\ Availability!IInv
    /\ RowsWhole
    /\ RequestsWhole
    /\ MadeOnce

-----------------------------------------------------------------------------
(* Sessions of the old version *)

Unclaimed(row) == ~row.awaiting /\ row.assigned = None

\* Only sessions of the old version are out of the queue and assigned to nobody,
\* and a snapshot that says so is of one of them.
LegacySound ==
    /\ legacy \subseteq Bookings
    /\ \A b \in legacy : Exists(b) /\ Unclaimed(bookings[b])
    /\ \A b \in Bookings : Exists(b) /\ Unclaimed(bookings[b]) => b \in legacy \cup undone
    /\ \A r \in Requests :
         /\ req[r].made \notin legacy
         /\ Remembers(req[r]) /\ Unclaimed(req[r].snapshot) => req[r].target \in legacy \cup undone

-----------------------------------------------------------------------------
(* Requests that keep out of each other's way *)

\* Nobody claims a session while a reschedule that has read its assignment may still
\* put it back.
ClaimsWait ==
    \A r, s \in Requests :
        Remembers(req[r]) /\ req[s].pc = "claim" => req[s].target # req[r].target

\* The snapshot of a reschedule is what its old row still says, if it is there.
SnapshotFresh(q) ==
    Remembers(q) /\ Exists(q.target) =>
      /\ q.snapshot.awaiting = bookings[q.target].awaiting
      /\ q.snapshot.assigned = bookings[q.target].assigned

FreshSnapshots == \A r \in Requests : SnapshotFresh(req[r])

\* q is past its check and may still take time of the consultant c, or give him back
\* a session.
Touches(q, c) ==
    /\ q.pc \in {"cancel", "insert", "restore"}
    /\ \/ q.op \in {"create", "reschedule"} /\ q.consultant = c
       \/ q.op = "reschedule" /\ bookings[q.target].consultant = c

\* One request at a time decides on the time of a consultant.
NoRivals ==
    \A r, s \in Requests, c \in Consultants : Touches(req[r], c) /\ Touches(req[s], c) => r = s

\* Nobody moves a session whose own create has not answered yet.
MovesWait ==
    \A r, s \in Requests :
        req[r].op = "reschedule" /\ req[r].pc \in {"insert", "restore"} =>
          req[s].made # req[r].target

\* No other confirmed session of b's consultant, for b's tenant, overlaps b.
Alone(b) ==
    \A x \in Bookings \ {b} :
        /\ Confirmed(x)
        /\ bookings[x].consultant = bookings[b].consultant
        /\ BookingTenant(x) = BookingTenant(b)
        => ~Overlaps(bookings[x].slot, bookings[b].slot)

\* What was checked is still so, and a session that may have to be restored has
\* its place free.
PlaceKept(q) ==
    /\ q.op \in {"create", "reschedule"} /\ q.pc \in {"cancel", "insert"} =>
         ~Clash(q.consultant, TenantOf[q.employee], q.slot, q.target)
    /\ q.op = "reschedule" /\ q.pc \in {"insert", "restore"} => Alone(q.target)

\* Nobody has put back, or taken the start of, the session a reschedule has released.
StartKept(q) ==
    q.op = "reschedule" /\ q.pc \in {"insert", "restore"} =>
      /\ ~Confirmed(q.target)
      /\ \A x \in Bookings \ {q.target} :
           Confirmed(x) /\ bookings[x].consultant = bookings[q.target].consultant =>
             bookings[x].slot.start # bookings[q.target].slot.start

\* Only a request with a key has one to record.
KeyUsed(q) == q.pc = "record" => q.key # None

PlacesKept ==
    /\ SlotUnique
    /\ TenantSessionsDisjoint
    /\ \A r \in Requests : PlaceKept(req[r]) /\ StartKept(req[r]) /\ KeyUsed(req[r])

\* The session a reschedule has released can be put back.
TargetWaits(q) ==
    q.op = "reschedule" /\ q.pc \in {"insert", "restore"} =>
      bookings[q.target].state = "cancelled" /\ bookings[q.target].employee = q.employee

TargetsWait == \A r \in Requests : TargetWaits(req[r])

=============================================================================
