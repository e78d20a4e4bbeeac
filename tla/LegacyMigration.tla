-------------------------- MODULE LegacyMigration --------------------------
(***************************************************************************)
(* SchedulingLegacyMigrationService on top of Scheduling: sessions from    *)
(* before there was a queue, whose rows have neither awaitingAssignment    *)
(* nor assignedConsultantId, and the backfill that every start attempts.   *)
(*                                                                         *)
(* What a handler reads of a missing field is FALSE and null (`=== true`,  *)
(* `?? null`), and no filter on either field matches it: `bookings` holds  *)
(* these values for such a row.  `legacy` is the set of these rows; only   *)
(* the backfill tells a field that is missing from one that was written.   *)
(***************************************************************************)
EXTENDS Scheduling

VARIABLES
    legacy,     \* bookings whose row lacks both fields
    undone      \* history: legacy sessions put back by a reschedule that failed

legacyVars == <<bookings, idem, audit, blocks, req, now, faults, origin, edit, drawn,
                legacy, undone>>

-----------------------------------------------------------------------------
LegacyRow(e, c, s) ==
    [AbsentRow EXCEPT !.state = "confirmed", !.employee = e, !.consultant = c, !.slot = s]

\* The database of an empty deployment, or one with a session of the old version.
\* The old version wrote what its own check had accepted.  Bound: one such session.
LegacyInit ==
    /\ Availability!Init
    /\ \/ legacy = {} /\ bookings = [b \in Bookings |-> AbsentRow]
       \/ \E b \in Bookings, e \in Employees, c \in ActiveConsultants, s \in Slots :
            /\ TenantOf[e] \in Serves[c] /\ s.start < s.end
            /\ legacy = {b}
            /\ bookings = [x \in Bookings |-> IF x = b THEN LegacyRow(e, c, s) ELSE AbsentRow]
    /\ undone = {}
    /\ idem = {}
    /\ audit = {}
    /\ req = [r \in Requests |-> Idle]
    /\ now = 0
    /\ faults = 0
    /\ origin = [b \in Bookings |-> None]

\* The restore of a failed reschedule is the only write that confirms a row again;
\* it writes both fields, with what the handler took for their values.
PutBack ==
    {b \in legacy : bookings[b].state = "cancelled" /\ bookings'[b].state = "confirmed"}

Serve ==
    /\ SchedulingNext
    /\ legacy' = legacy \ PutBack
    /\ undone' = undone \cup PutBack

\* Mutant: the backfill takes the session out of the queue and gives it to nobody.
BackfilledHalf(b) == [bookings[b] EXCEPT !.awaiting = FALSE]

Backfilled(b) ==
    [bookings[b] EXCEPT !.awaiting = FALSE, !.assigned = bookings[b].consultant]

\* onModuleInit, which Nest awaits before the server listens: a process starts while
\* no request is in flight.  updateMany is atomic per document; when it fails, that
\* is logged and the server goes on without the rest.
Migrate(b) ==
    /\ \A r \in Requests : ~InFlight(r)
    /\ b \in legacy
    /\ bookings' = [bookings EXCEPT ![b] = Backfilled(b)]
    /\ legacy' = legacy \ {b}
    /\ UNCHANGED <<idem, audit, blocks, req, now, faults, origin, edit, drawn, undone>>

LegacyNext ==
    \/ Serve
    \/ \E b \in Bookings : Migrate(b)

LegacySpec == LegacyInit /\ [][LegacyNext]_legacyVars

-----------------------------------------------------------------------------
(* Properties *)

\* No session gets lost for good between the screens of its consultant: it is in the
\* calendar, and in the queue or among the sessions to close, or the next start that
\* succeeds will put it there.  The sessions of the old version that a failed
\* reschedule put back are the exception: they have the fields, so no backfill ever
\* touches them, and nobody to close them.
SessionsAreVisible ==
    \A b \in Bookings :
        Confirmed(b) =>
          LET c == bookings[b].consultant IN
          /\ b \in Calendar(c)
          /\ ~(b \in AssignmentQueue(c) /\ b \in OpenAssigned(c))
          /\ b \in AssignmentQueue(c) \cup OpenAssigned(c) \cup legacy \cup undone
          /\ b \in legacy => b \notin AssignmentQueue(c) \cup OpenAssigned(c)

=============================================================================
