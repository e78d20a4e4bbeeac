----------------------------- MODULE PageServer -----------------------------
(***************************************************************************)
(* The server as the pages of the three applications see it: what their    *)
(* lists return and what their requests do, each in one step.  The         *)
(* sessions are those of ReservationBook, which Booking is shown to        *)
(* implement; the eligible employees those of Eligibility.  A request may  *)
(* be refused at any time (by a guard, a validation, a conflict or an      *)
(* outage), so only what it must find to succeed is written here.          *)
(***************************************************************************)
EXTENDS Integers

CONSTANTS
    Sessions, Employees, Consultants,
    Slots,        \* [start, end] pairs, each open in the agenda of every consultant
    None,
    Self,         \* the employee who holds the phone
    Advisor       \* the consultant at the desk

ASSUME PeopleAssumption == Self \in Employees /\ Advisor \in Consultants

VARIABLES book, eligible

server == <<book, eligible>>

Book == INSTANCE ReservationBook

Offers == [consultant : Consultants, slot : Slots]

\* The queries of the pages and their mutations.
Lists ==
    {"eligibilityList", "collaborators", "assignmentQueue", "openAssigned",
     "bookableSlots", "myBookings"}

Hooks ==
    {"markEligible", "removeEligible", "assignBooking", "closeBooking", "createBooking",
     "cancelBooking"}

Standing(s) == book[s].phase = "standing"

\* A session on the move is cancelled for the moment (Booking).
StateShown(s) == IF book[s].phase = "moving" THEN "cancelled" ELSE book[s].phase

(***************************************************************************)
(* What the lists return.                                                  *)
(***************************************************************************)
AssignmentQueue == {s \in Sessions : Standing(s) /\ book[s].assigned = None}

OpenAssigned == {s \in Sessions : Standing(s) /\ book[s].assigned = Advisor}

BookableSlots ==
    {o \in Offers : \A s \in Sessions :
        Standing(s) => ~(book[s].consultant = o.consultant /\ book[s].slot.start = o.slot.start)}

MyBookings ==
    {[id |-> s, state |-> StateShown(s)] : s \in {x \in Sessions : book[x].employee = Self}}

View(q) ==
    CASE q = "eligibilityList" -> eligible
      [] q = "collaborators"   -> Employees \ eligible
      [] q = "assignmentQueue" -> AssignmentQueue
      [] q = "openAssigned"    -> OpenAssigned
      [] q = "bookableSlots"   -> BookableSlots
      [] q = "myBookings"      -> MyBookings

\* The card's routes stand behind BenefitEligibilityGuard.
Readable(q) == q \in {"bookableSlots", "myBookings"} => Self \in eligible

\* The reasons closeAssignedBooking takes for an outcome.
Fits(outcome, reason) ==
    \/ outcome = "completed" /\ reason = "delivered_completed"
    \/ outcome = "cancelled" /\ reason \in {"client_cancelled", "consultant_cancelled"}
    \/ outcome = "no_show" /\ reason \in {"no_show_employee", "no_show_other"}

(***************************************************************************)
(* What a request does when it succeeds.                                   *)
(***************************************************************************)
\* BenefitEligibilityGuard has admitted the request some time before: the employee may
\* have ceased to be eligible since (Eligibility), so nothing is asked of that here.
Create(offer) ==
    \E s \in Sessions :
        /\ Book!Reserve(s)
        /\ book'[s] = Book!Standing(Self, offer.consultant, offer.slot)

Cancel(s) ==
    /\ book[s].employee = Self
    /\ Book!Withdraw(s)

Assign(s) == book[s].consultant = Advisor /\ Book!Claim(s)

CloseAssigned(s, outcome, reason) ==
    /\ Fits(outcome, reason)
    /\ book[s].assigned = Advisor
    /\ Book!Close(s, outcome)

Perform(m) ==
    \/ m.hook = "markEligible" /\ eligible' = eligible \cup {m.user} /\ UNCHANGED book
    \/ m.hook = "removeEligible" /\ m.user \in eligible
         /\ eligible' = eligible \ {m.user} /\ UNCHANGED book
    \/ m.hook = "createBooking" /\ Create(m.offer) /\ UNCHANGED eligible
    \/ m.hook = "cancelBooking" /\ Cancel(m.session) /\ UNCHANGED eligible
    \/ m.hook = "assignBooking" /\ Assign(m.session) /\ UNCHANGED eligible
    \/ m.hook = "closeBooking"
         /\ CloseAssigned(m.session, m.outcome, m.reason) /\ UNCHANGED eligible

(***************************************************************************)
(* Everybody else: other employees, consultants and administrators, the    *)
(* same person on another device.                                          *)
(***************************************************************************)
Elsewhere ==
    \/ Book!Next /\ UNCHANGED eligible
    \/ /\ \E u \in Employees : eligible' \in {eligible \cup {u}, eligible \ {u}}
       /\ UNCHANGED book

=============================================================================
