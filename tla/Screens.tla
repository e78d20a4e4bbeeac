------------------------------ MODULE Screens ------------------------------
(***************************************************************************)
(* The pages that change something, over the server.  One page of one      *)
(* person is open; everybody else acts on the server beside it.            *)
(***************************************************************************)
EXTENDS EligibilityPage, QueuePage, SessionsCard

CONSTANTS
    Starts,             \* [page, book, eligible]: what the server holds when a page opens
    MaxSent,            \* bound: requests of the page
    MaxElsewhere,       \* bound: steps of everybody else
    MaxBroken           \* bound: connections that break

ASSUME NoneAssumption == None \notin {"warn", "final"}
ASSUME ChoicesAssumption == Choices \subseteq DOMAIN closureReasonsByOutcome
ASSUME StartsAssumption ==
    \A start \in Starts : start.page \in {"eligibility", "queue", "sessions"}

VARIABLES
    page,               \* which page is open
    sent, elsewhere, broken     \* counters of the bounds

screen == <<dialogs, form, lastBooked>>
bounds == <<page, sent, elsewhere, broken>>
vars == <<server, cache, screen, bounds>>

Pages == {"eligibility", "queue", "sessions"}

TagsOf ==
    [eligibility |-> EligibilityTags, queue |-> QueueTags, sessions |-> SessionsTags]

\* The options of the add dialog are not read before it opens.
ShownAtOnce(p) == TagsOf[p] \ {"collaborators"}

Init ==
    /\ \E start \in Starts :
         page = start.page /\ book = start.book /\ eligible = start.eligible
    /\ lists = [q \in Lists |-> IF q \in ShownAtOnce(page) THEN Used(NoList) ELSE NoList]
    /\ calls = [h \in Hooks |-> Idle]
    /\ pool = {} /\ stray = {} /\ behind = {} /\ crossed = {} /\ late = {}
    /\ InitEligibilityPage /\ InitQueuePage /\ InitSessionsCard
    /\ sent = 0 /\ elsewhere = 0 /\ broken = 0

\* A step of the open page; the others do not exist.
PageActs ==
    /\ \/ page = "eligibility" /\ EligibilityPageStep /\ UNCHANGED <<form, lastBooked>>
       \/ page = "queue" /\ QueuePageStep /\ UNCHANGED <<dialogs, lastBooked>>
       \/ page = "sessions" /\ SessionsCardStep /\ UNCHANGED <<dialogs, form>>
    /\ sent' = IF \E h \in Hooks : ~InFlight(h) /\ InFlight(h)' THEN sent + 1 ELSE sent
    /\ sent' <= MaxSent
    /\ UNCHANGED <<page, elsewhere, broken>>

ListMoves ==
    /\ \E q \in Lists :
         \/ Read(q) \/ Arrive(q) \/ Expire(q)
         \/ ~Readable(q) /\ Fail(q)
    /\ UNCHANGED <<server, screen, bounds>>

Breaks ==
    /\ broken < MaxBroken
    /\ (\E q \in Lists : Fail(q)) \/ (\E h \in Hooks : Break(h, TagsOf[page]))
    /\ broken' = broken + 1
    /\ UNCHANGED <<server, screen, page, sent, elsewhere>>

ServerActs ==
    /\ \/ \E h \in Hooks : Serve(h) \/ (Refuse(h) /\ UNCHANGED server)
       \/ \E m \in stray : Straggle(m)
    /\ UNCHANGED <<screen, bounds>>

\* What everybody else does, as far as the open page can see it.
OthersAct ==
    /\ elsewhere < MaxElsewhere
    /\ Elsewhere
    /\ page = "eligibility" => book' = book
    /\ page = "queue" => eligible' = eligible
    /\ elsewhere' = elsewhere + 1
    /\ UNCHANGED <<cache, screen, page, sent, broken>>

Next == PageActs \/ ListMoves \/ Breaks \/ ServerActs \/ OthersAct

Spec == Init /\ [][Next]_vars

-----------------------------------------------------------------------------
\* A page that has nothing in flight shows, but beside an error, no list from before
\* one of its own requests took effect: a session just cancelled is not offered for
\* cancelling, a slot just booked not for booking, an employee just removed not for
\* removal (the tags that the APIs' mutations invalidate), whatever read crossed the
\* request.  A request whose connection broke may be done after the lists were read
\* again, and the page never hears of it: only a list changed in this way lags at rest,
\* and only until the next answer, or the next connection that breaks.
AnswersShow ==
    AtRest => \A q \in Lists :
        lists[q].used /\ lists[q].status = "fulfilled" /\ q \in behind => q \in late

\* No request to close a session pairs an outcome with a reason the server refuses,
\* although the form keeps its last choice between dialogs and the two fields change
\* one after the other (QueueView's closureReasonsByOutcome against closeAssignedBooking's).
FormFits ==
    \A m \in {calls["closeBooking"].request} \cup stray :
        m # None /\ m.hook = "closeBooking" => Fits(m.outcome, m.reason)

\* A removal is asked of the server only for a person named by the warning and then
\* by the confirmation, in dialogs opened from one row: not for one whose dialog
\* opened while the answer for another was on its way (EligibilityContainer).
RemovalConfirmedTwice ==
    [][\A u \in Employees :
         /\ ~InFlight("removeEligible") /\ InFlight("removeEligible")'
         /\ calls'["removeEligible"].request = [hook |-> "removeEligible", user |-> u]
         => {<<"warn", u>>, <<"final", u>>} \subseteq seen]_vars

=============================================================================
