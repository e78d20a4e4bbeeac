---------------------------- MODULE SessionsCard ----------------------------
(***************************************************************************)
(* The employee's card of planning sessions on the phone: the slots that   *)
(* can be booked and the employee's own sessions (PlanningSessionsCard).   *)
(* While either list loads, or after either failed, the card shows neither *)
(* and nothing can be tapped.                                              *)
(***************************************************************************)
EXTENDS QueryCache

VARIABLE lastBooked     \* the banner: the slot of the last confirmation

SessionsTags == {"bookableSlots", "myBookings"}

Tappable == \A q \in SessionsTags : lists[q].status = "fulfilled"

InitSessionsCard == lastBooked = None

\* The Idempotency-Key is made of the time of the tap: no two taps share one.
PickSlot(offer) ==
    /\ Tappable
    /\ offer \in Rows("bookableSlots")
    /\ Send([hook |-> "createBooking", offer |-> offer])
    /\ UNCHANGED <<lastBooked, server>>

CancelTapped(s) ==
    /\ Tappable
    /\ [id |-> s, state |-> "standing"] \in Rows("myBookings")
    /\ Send([hook |-> "cancelBooking", session |-> s])
    /\ UNCHANGED <<lastBooked, server>>

\* Mutant: the list of slots is not invalidated.
BookingAnsweredHalf ==
    /\ Answer("createBooking", {"myBookings"})
    /\ LET call == calls["createBooking"] IN
       lastBooked' = IF call.ok THEN call.request.offer.slot ELSE lastBooked
    /\ UNCHANGED server

BookingAnswered ==
    /\ Answer("createBooking", SessionsTags)
    /\ LET call == calls["createBooking"] IN
       lastBooked' = IF call.ok THEN call.request.offer.slot ELSE lastBooked
    /\ UNCHANGED server

CancelAnswered ==
    /\ Answer("cancelBooking", SessionsTags)
    /\ UNCHANGED <<lastBooked, server>>

SessionsCardStep ==
    \/ \E offer \in Offers : PickSlot(offer)
    \/ \E s \in Sessions : CancelTapped(s)
    \/ BookingAnswered \/ CancelAnswered

=============================================================================
