-------------------------- MODULE ReservationBook --------------------------
(***************************************************************************)
(* What the bookings collection promises to those who only look at         *)
(* sessions: an entry is reserved once, stands until it is withdrawn,      *)
(* closed or moved, and never stands again once it is settled.  There are  *)
(* no requests, keys, audit rows or faults here; Booking implements this   *)
(* book, whatever its requests do and whichever fault strikes (see         *)
(* BookingRefinement).                                                     *)
(***************************************************************************)
EXTENDS Integers

CONSTANTS
    Sessions, Employees, Consultants,
    Slots,      \* [start, end] pairs
    None        \* a field that is not set

VARIABLE book   \* the entry of each session

\* "moving": taken out of the book by a reschedule that has not finished.
Phases == {"unused", "standing", "moving", "completed", "cancelled", "no_show", "removed"}

Entry ==
    [phase      : Phases,
     employee   : Employees \cup {None},
     consultant : Consultants \cup {None},
     slot       : Slots \cup {None},
     assigned   : Consultants \cup {None}]

Blank(phase) ==
    [phase |-> phase, employee |-> None, consultant |-> None, slot |-> None,
     assigned |-> None]

Standing(e, c, t) ==
    [phase |-> "standing", employee |-> e, consultant |-> c, slot |-> t, assigned |-> None]

\* Another session of c stands at the start of t.
Taken(s, c, t) ==
    \E x \in Sessions \ {s} :
        /\ book[x].phase = "standing"
        /\ book[x].consultant = c
        /\ book[x].slot.start = t.start

Reserve(s) ==
    /\ book[s].phase = "unused"
    /\ \E e \in Employees, c \in Consultants, t \in Slots :
         ~Taken(s, c, t) /\ book' = [book EXCEPT ![s] = Standing(e, c, t)]

\* The consultant of the slot takes the session on.
Claim(s) ==
    /\ book[s].phase = "standing"
    /\ book[s].assigned = None
    /\ book' = [book EXCEPT ![s].assigned = book[s].consultant]

Withdraw(s) ==
    /\ book[s].phase = "standing"
    /\ book' = [book EXCEPT ![s].phase = "cancelled"]

\* Only a session somebody took on is closed.
Close(s, outcome) ==
    /\ book[s].phase = "standing"
    /\ book[s].assigned # None
    /\ book' = [book EXCEPT ![s].phase = outcome]

Lift(s) ==
    /\ book[s].phase = "standing"
    /\ book' = [book EXCEPT ![s].phase = "moving"]

\* A move that failed puts its session back, if the start is still free; a claim
\* it overlooked may be lost, and one it remembered comes back.
Resume(s) ==
    /\ book[s].phase = "moving"
    /\ ~Taken(s, book[s].consultant, book[s].slot)
    /\ \E a \in {None, book[s].consultant} :
         book' = [book EXCEPT ![s].phase = "standing", ![s].assigned = a]

\* A move that ended, one way or another, without putting its session back.
Drop(s) ==
    /\ book[s].phase = "moving"
    /\ book' = [book EXCEPT ![s].phase = "cancelled"]

\* A move that ends with the insert of the new session.
Transfer(s, m) ==
    /\ book[s].phase = "moving" /\ book[m].phase = "unused"
    /\ \E c \in Consultants, t \in Slots :
         /\ ~Taken(m, c, t)
         /\ book' = [book EXCEPT ![s].phase = "cancelled",
                                 ![m] = Standing(book[s].employee, c, t)]

\* A create that lost its key to a twin takes its session out again.
Remove(s) ==
    /\ book[s].phase \notin {"unused", "removed"}
    /\ book' = [book EXCEPT ![s] = Blank("removed")]

Init == book = [s \in Sessions |-> Blank("unused")]

Next ==
    \E s \in Sessions :
        \/ Reserve(s) \/ Claim(s) \/ Withdraw(s) \/ Lift(s)
        \/ \E outcome \in {"completed", "cancelled", "no_show"} : Close(s, outcome)
        \/ Resume(s) \/ Drop(s) \/ Remove(s)
        \/ \E m \in Sessions : Transfer(s, m)

\* A step of the book or none of its business.  (Written out, so that the common
\* case is the first that TLC tries.)
Step == UNCHANGED book \/ Next

Spec == Init /\ [][Step]_book

=============================================================================
