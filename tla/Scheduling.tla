----------------------------- MODULE Scheduling -----------------------------
(***************************************************************************)
(* SchedulingService as a whole: Booking and Availability over the same    *)
(* blocks, and the listings, which read both collections.  Here blocks     *)
(* come, change and go under the requests that book against them.          *)
(*                                                                         *)
(* A listing is an operator on the state, its reads one step: it changes   *)
(* nothing, and a handler checks again whatever a client does with it.     *)
(***************************************************************************)
EXTENDS Booking

CONSTANTS
    Instants,   \* the instants consultants send
    Editors     \* requests on availability blocks in flight together

VARIABLES
    edit,       \* the requests of Availability
    drawn       \* the ids of blocks drawn so far

Availability == INSTANCE Availability

Interval == INSTANCE Intervals

ASSUME SchedulingAssumption ==
    /\ None \notin Tenants \cup BlockIds
    /\ None \notin Instants /\ Instants \subseteq Int
    /\ IsFiniteSet(Bookings)
    /\ \A k \in Published : /\ k.start < k.end
                            /\ k.consultant \in ActiveConsultants
                            /\ k.tenant \in Serves[k.consultant]
    /\ \A j, k \in Published : j.id = k.id => j = k

schedulingVars == <<bookings, idem, audit, blocks, req, now, faults, origin, edit, drawn>>

-----------------------------------------------------------------------------
(* Listings *)

\* listFreeSlotsForTenant: what the confirmed sessions of that tenant leave of
\* the consultant's blocks for that tenant, inside the window w.
FreeSlots(c, t, w) ==
    LET taken == {bookings[b].slot :
                    b \in {b \in Bookings : /\ Confirmed(b)
                                            /\ bookings[b].consultant = c
                                            /\ BookingTenant(b) = t}}
    IN UNION {Interval!SubtractIntervals(Interval!Clip(k, w), taken) :
                k \in {k \in blocks : k.consultant = c /\ k.tenant = t}}

\* listBookableSlotsForCollaborator: the same for every consultant there is.
BookableSlots(t, w) ==
    UNION {{[consultant |-> c, start |-> f.start, end |-> f.end] : f \in FreeSlots(c, t, w)} :
             c \in Consultants}

\* The tenants whose sessions the consultant c is shown.
InScope(c, b) == c \in ActiveConsultants /\ BookingTenant(b) \in Serves[c]

\* listAssignmentQueue: whoever's slot it is.
AssignmentQueue(c) ==
    {b \in Bookings : Confirmed(b) /\ bookings[b].awaiting /\ InScope(c, b)}

\* listOpenAssignedBookingsForConsultant
OpenAssigned(c) ==
    {b \in Bookings : /\ Confirmed(b) /\ ~bookings[b].awaiting
                      /\ bookings[b].assigned = c /\ InScope(c, b)}

\* The sessions in getMyCalendarSummary.
Calendar(c) ==
    {b \in Bookings : Confirmed(b) /\ bookings[b].consultant = c /\ InScope(c, b)}

-----------------------------------------------------------------------------
SchedulingInit == Init /\ Availability!Init

SchedulingNext ==
    \/ Next /\ UNCHANGED <<edit, drawn>>
    \/ Availability!Next /\ UNCHANGED <<bookings, idem, audit, req, now, faults, origin>>

SchedulingSpec == SchedulingInit /\ [][SchedulingNext]_schedulingVars

-----------------------------------------------------------------------------
(* Properties *)

Windows == {w \in [start : Instants, end : Instants] : w.start < w.end}

Listed(slots, c, s) ==
    \E f \in slots : f.consultant = c /\ f.start <= s.start /\ s.end <= f.end

\* A create for it, alone, would be stored: the check accepts it and the unique
\* index finds its start free.
Bookable(c, t, s) ==
    /\ Offered(c, t, s)
    /\ ~Clash(c, t, s, None)
    /\ ~Indexed(None, [consultant |-> c, slot |-> s])

\* A session of the consultant with another tenant starts at this very instant.
StartTakenElsewhere(c, t, s) ==
    \E b \in Bookings : /\ Confirmed(b)
                        /\ bookings[b].consultant = c
                        /\ BookingTenant(b) # t
                        /\ bookings[b].slot.start = s.start

\* What is listed can be booked and what can be booked is listed, whatever has been
\* published, patched, booked, moved or cancelled before: a slot inside the window
\* is listed exactly when a create would be stored, or when the check would accept
\* it and only a session with another tenant, which neither listing nor check looks
\* at, holds its very start.  (A consultant whose time changes tenants after it was
\* booked gets there: the index refuses such a slot for as long as it is listed.)
ListingAgrees ==
    \A t \in Tenants, w \in Windows :
      LET slots == BookableSlots(t, w) IN
      \A c \in Consultants, s \in Windows :
        w.start <= s.start /\ s.end <= w.end =>
          (Listed(slots, c, s) <=>
             \/ Bookable(c, t, s)
             \/ Offered(c, t, s) /\ ~Clash(c, t, s, None) /\ StartTakenElsewhere(c, t, s))

\* No two confirmed sessions of a consultant overlap, whichever tenants they are
\* for.  The architecture and the requirements promise it; the code does not keep
\* it: see the run double_booked.
SessionsDisjoint ==
    \A x, y \in Bookings :
        /\ x # y /\ Confirmed(x) /\ Confirmed(y)
        /\ bookings[x].consultant = bookings[y].consultant
        => ~Overlaps(bookings[x].slot, bookings[y].slot)

\* What is left of it: for one tenant, and where no two requests decide on a
\* consultant's time together.  SchedulingProofs proves it under that hypothesis.
TenantSessionsDisjoint ==
    \A x, y \in Bookings :
        /\ x # y /\ Confirmed(x) /\ Confirmed(y)
        /\ bookings[x].consultant = bookings[y].consultant
        /\ BookingTenant(x) = BookingTenant(y)
        => ~Overlaps(bookings[x].slot, bookings[y].slot)

\* The blocks of a consultant do not overlap when one request changes them at a
\* time, bookings or not.
BlocksDisjoint == Availability!BlocksDisjoint

\* An update of a block changes what its patch names and nothing else.
PatchKeepsTheRest == Availability!PatchKeepsTheRest

=============================================================================
