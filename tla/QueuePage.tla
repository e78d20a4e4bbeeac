----------------------------- MODULE QueuePage -----------------------------
(***************************************************************************)
(* The consultant's queue in the control pane: the sessions that wait for  *)
(* a consultant, those this consultant has taken on, and the dialog that   *)
(* closes one (QueueContainer, QueueView).  The form keeps its last choice *)
(* from one dialog to the next.                                            *)
(***************************************************************************)
EXTENDS QueryCache

CONSTANT Choices            \* bound: the outcomes chosen in the form

VARIABLES
    closeTarget,            \* the session the closing dialog is about
    outcome, reasonCode     \* what its form holds

form == <<closeTarget, outcome, reasonCode>>

QueueTags == {"assignmentQueue", "openAssigned"}

closureReasonsByOutcome ==
    [completed |-> <<"delivered_completed">>,
     cancelled |-> <<"client_cancelled", "consultant_cancelled">>,
     no_show   |-> <<"no_show_employee", "no_show_other">>]

ReasonsOf(o) == {closureReasonsByOutcome[o][i] : i \in DOMAIN closureReasonsByOutcome[o]}

InitQueuePage ==
    /\ closeTarget = None
    /\ outcome = "completed" /\ reasonCode = "delivered_completed"

AssignClicked(s) ==
    /\ closeTarget = None
    /\ s \in Rows("assignmentQueue")
    /\ Send([hook |-> "assignBooking", session |-> s])
    /\ UNCHANGED <<form, server>>

CloseClicked(s) ==
    /\ closeTarget = None
    /\ s \in Rows("openAssigned")
    /\ closeTarget' = s
    /\ UNCHANGED <<outcome, reasonCode, cache, server>>

\* Mutant: the reason stays.
OutcomeChosenAlone(o) ==
    /\ closeTarget # None
    /\ outcome' = o
    /\ UNCHANGED <<closeTarget, reasonCode, cache, server>>

\* Another outcome brings its own first reason.
OutcomeChosen(o) ==
    /\ closeTarget # None
    /\ outcome' = o
    /\ reasonCode' = closureReasonsByOutcome[o][1]
    /\ UNCHANGED <<closeTarget, cache, server>>

ReasonChosen(r) ==
    /\ closeTarget # None
    /\ r \in ReasonsOf(outcome)
    /\ reasonCode' = r
    /\ UNCHANGED <<closeTarget, outcome, cache, server>>

DialogDismissed ==
    /\ closeTarget # None
    /\ closeTarget' = None
    /\ UNCHANGED <<outcome, reasonCode, cache, server>>

\* The dialog closes before the answer; what the server says is never shown.
CloseConfirmed ==
    /\ closeTarget # None
    /\ Send([hook |-> "closeBooking", session |-> closeTarget,
             outcome |-> outcome, reason |-> reasonCode])
    /\ closeTarget' = None
    /\ UNCHANGED <<outcome, reasonCode, server>>

QueueAnswered ==
    /\ \E h \in {"assignBooking", "closeBooking"} : Answer(h, QueueTags)
    /\ UNCHANGED <<form, server>>

QueuePageStep ==
    \/ \E s \in Sessions : AssignClicked(s) \/ CloseClicked(s)
    \/ \E o \in Choices :
         OutcomeChosen(o) \/ \E r \in ReasonsOf(o) : ReasonChosen(r)
    \/ DialogDismissed \/ CloseConfirmed \/ QueueAnswered

=============================================================================
