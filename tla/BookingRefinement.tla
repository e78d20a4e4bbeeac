------------------------- MODULE BookingRefinement -------------------------
(***************************************************************************)
(* Booking implements ReservationBook.  The entry of a session is its row, *)
(* with the state "moving" while the row is cancelled and a reschedule     *)
(* that may put it back is in flight.                                      *)
(***************************************************************************)
EXTENDS BookingInvariant

Moving(b) == bookings[b].state = "cancelled" /\ \E r \in Requests : Holds(r, b)

PhaseName(state) ==
    CASE state = "absent"    -> "unused"
      [] state = "deleted"   -> "removed"
      [] state = "confirmed" -> "standing"
      [] OTHER               -> state

Phase(b) == IF Moving(b) THEN "moving" ELSE PhaseName(bookings[b].state)

EntryOf(b) ==
    [phase      |-> Phase(b),
     employee   |-> bookings[b].employee,
     consultant |-> bookings[b].consultant,
     slot       |-> bookings[b].slot,
     assigned   |-> bookings[b].assigned]

Entries == [b \in Bookings |-> EntryOf(b)]

Book == INSTANCE ReservationBook WITH Sessions <- Bookings, book <- Entries

\* The collection is a reservation book: sessions are reserved at free starts,
\* settled for good, and come back only from a move that held them, under every
\* interleaving and every fault.  (Together: uniqueness of starts, finality,
\* immutability of whose session it is and when.)
ImplementsBook == Book!Spec

=============================================================================
