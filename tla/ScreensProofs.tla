--------------------------- MODULE ScreensProofs ---------------------------
(***************************************************************************)
(* What the pages never do, for any number of sessions, people and         *)
(* requests.                                                               *)
(***************************************************************************)
EXTENDS Screens, TLAPS

-----------------------------------------------------------------------------
(***************************************************************************)
(* The lists.  A list from before a request of the page is owed another    *)
(* read: its tag is pooled already, or an answer that will pool it is on   *)
(* its way; unless the request had been given up.  A pool that is not      *)
(* empty waits for something in flight.                                    *)
(***************************************************************************)
Owed(cs) == \E h \in Hooks : cs[h].stage = "answered"

Covered(tags, ls, cs, p, b, x, l) ==
    /\ DOMAIN ls = Lists
    /\ DOMAIN cs = Hooks
    /\ \A q \in Lists \ tags : ls[q].status = "uninitialized"
    /\ \A q \in x \cap Lists : ls[q].status = "pending" /\ (q \in p \/ Owed(cs) \/ q \in l)
    /\ \A q \in b \cap Lists : ls[q].status = "fulfilled" => q \in p \/ Owed(cs) \/ q \in l

CacheInv ==
    /\ page \in Pages
    /\ Covered(TagsOf[page], lists, calls, pool, behind, crossed, late)
    /\ AtRest => pool = {}

\* Settling a covered cache leaves it covered, and nothing pooled at rest.
LEMMA SettleCovers ==
    ASSUME NEW tags, NEW ls, NEW cs, NEW p, NEW b, NEW x, NEW l,
           Covered(tags, ls, cs, p, b, x, l), Settle(ls, cs, p)
    PROVE  /\ Covered(tags, lists', calls', pool', b, x, l)
           /\ Quiet(lists', calls') => pool' = {}
<1>1. CASE Quiet(ls, cs)
  <2>1. ~Owed(cs)
    BY <1>1 DEF Quiet, Owed
  <2>2. lists' = [q \in Lists |-> IF q \in p THEN Again(ls[q]) ELSE ls[q]]
    BY <1>1 DEF Settle
  <2>3. calls' = cs /\ pool' = {}
    BY <1>1 DEF Settle
  <2>4. \A q \in Lists \ tags : lists'[q].status = "uninitialized"
    BY <2>2 DEF Covered, Again
  <2>5. x \cap Lists = {}
    BY <1>1 DEF Covered, Quiet
  <2>6. ASSUME NEW q \in b \cap Lists, q \notin l PROVE lists'[q].status # "fulfilled"
    <3>1. CASE q \in p
      BY <3>1, <2>2 DEF Again, NoList, Reading, CacheEntry
    <3>2. CASE q \notin p
      BY <3>2, <2>1, <2>2, <2>6 DEF Covered
    <3> QED BY <3>1, <3>2
  <2> QED BY <2>2, <2>3, <2>4, <2>5, <2>6 DEF Covered
<1>2. CASE ~Quiet(ls, cs)
  BY <1>2 DEF Settle
<1> QED BY <1>1, <1>2

\* What a request of a page says: the form and the dialog as they stand.
Sendable(m) ==
    /\ m.hook \in Hooks
    /\ m.hook = "closeBooking" => m.outcome = outcome /\ m.reason = reasonCode
    /\ m.hook = "removeEligible" => m.user = pendingRemove /\ removePhase = "final"

\* What a page, the server or the network may do to the cache.
CacheMove(tags) ==
    \/ UNCHANGED cache
    \/ \E m : Sendable(m) /\ Send(m)
    \/ \E q \in tags \cap Lists : Subscribe(q) \/ Unsubscribe(q)
    \/ \E q \in Lists : Expire(q) \/ Read(q) \/ Arrive(q) \/ Fail(q)
    \/ \E h \in Hooks : Serve(h) \/ Refuse(h) \/ Answer(h, tags) \/ Break(h, tags)
    \/ \E m : Straggle(m)

\* No move of the cache breaks the invariant.
LEMMA MovesKeepCacheInv ==
    ASSUME CacheInv, page' = page, CacheMove(TagsOf[page])
    PROVE  CacheInv'
<1> DEFINE tags == TagsOf[page]
<1> DEFINE I(ls, cs, p, b, x, l) == Covered(tags, ls, cs, p, b, x, l) /\ (Quiet(ls, cs) => p = {})
<1>1. Covered(tags, lists, calls, pool, behind, crossed, late) /\ page \in Pages
  BY DEF CacheInv
<1>2. Quiet(lists, calls) => pool = {}
  BY DEF CacheInv, AtRest
<1>3. SUFFICES I(lists', calls', pool', behind', crossed', late')
  BY <1>1 DEF CacheInv, AtRest
<1> HIDE DEF tags
<1>4. CASE UNCHANGED cache
  BY <1>1, <1>2, <1>4 DEF cache, history
<1>5. ASSUME NEW m, Sendable(m), Send(m) PROVE I(lists', calls', pool', behind', crossed', late')
  <2>1. calls' = [calls EXCEPT ![m.hook] = Call("sent", m, FALSE)]
    BY <1>5 DEF Send
  <2>2. ~Quiet(lists', calls')
    BY <1>1, <1>5, <2>1 DEF Quiet, Covered, Call, Sendable
  <2>3. Owed(calls) => Owed(calls')
    BY <1>1, <1>5, <2>1 DEF Owed, Covered, Send, InFlight, Sendable
  <2> QED BY <1>1, <1>5, <2>1, <2>2, <2>3 DEF Covered, Send, history
<1>6. ASSUME NEW q \in tags \cap Lists, Subscribe(q)
      PROVE  I(lists', calls', pool', behind', crossed', late')
  <2>1. lists' = [lists EXCEPT ![q] = Used(lists[q])]
    BY <1>6 DEF Subscribe
  <2>2. UNCHANGED <<calls, pool, behind, crossed, late>>
    BY <1>6 DEF Subscribe, history
  <2>3. Used(lists[q]).status \in {lists[q].status, "pending"}
    BY DEF Used, CacheEntry
  <2>4. Covered(tags, lists', calls, pool, behind, crossed, late)
    BY <1>1, <2>1, <2>3 DEF Covered
  <2>5. Quiet(lists', calls) => Quiet(lists, calls)
    BY <1>1, <2>1, <2>3 DEF Quiet, Covered, Used, CacheEntry
  <2> QED BY <1>2, <2>2, <2>4, <2>5
<1>7. ASSUME NEW q \in tags \cap Lists, Unsubscribe(q)
      PROVE  I(lists', calls', pool', behind', crossed', late')
  <2>1. lists' = [lists EXCEPT ![q] = Unused(lists[q])]
    BY <1>7 DEF Unsubscribe
  <2>2. UNCHANGED <<calls, pool, behind, crossed, late>>
    BY <1>7 DEF Unsubscribe, history
  <2>3. Unused(lists[q]).status = lists[q].status
    BY DEF Unused, CacheEntry
  <2>4. Covered(tags, lists', calls, pool, behind, crossed, late)
    BY <1>1, <2>1, <2>3 DEF Covered
  <2>5. Quiet(lists', calls) => Quiet(lists, calls)
    BY <1>1, <2>1, <2>3 DEF Quiet, Covered
  <2> QED BY <1>2, <2>2, <2>4, <2>5
<1>8. ASSUME NEW q \in Lists, Expire(q) PROVE I(lists', calls', pool', behind', crossed', late')
  <2>1. lists' = [lists EXCEPT ![q] = NoList]
    BY <1>8 DEF Expire
  <2>2. UNCHANGED <<calls, pool, behind, crossed, late>>
    BY <1>8 DEF Expire, history
  <2>3. NoList.status = "uninitialized" /\ lists[q].status # "pending"
    BY <1>8 DEF Expire, NoList, CacheEntry
  <2>4. Covered(tags, lists', calls, pool, behind, crossed, late)
    BY <1>1, <2>1, <2>3 DEF Covered
  <2>5. Quiet(lists', calls) => Quiet(lists, calls)
    BY <1>1, <2>1, <2>3 DEF Quiet, Covered
  <2> QED BY <1>2, <2>2, <2>4, <2>5
<1>9. ASSUME NEW q \in Lists, Read(q) PROVE I(lists', calls', pool', behind', crossed', late')
  <2>1. lists' = [lists EXCEPT ![q] = CacheEntry("pending", lists[q].used, lists[q].data, View(q))]
    BY <1>9 DEF Read
  <2>2. UNCHANGED <<calls, pool, behind, late>> /\ crossed' = crossed \ {q}
    BY <1>9 DEF Read
  <2>3. lists[q].status = "pending"
    BY <1>9 DEF Read, Loading
  <2>4. lists'[q].status = "pending"
    BY <1>1, <2>1 DEF Covered, CacheEntry
  <2>5. Covered(tags, lists', calls, pool, behind, crossed', late)
    BY <1>1, <2>1, <2>2, <2>3, <2>4 DEF Covered
  <2> QED BY <2>2, <2>4, <2>5 DEF Quiet
<1>10. ASSUME NEW q \in Lists, Arrive(q) PROVE I(lists', calls', pool', behind', crossed', late')
  <2> DEFINE ls == [lists EXCEPT ![q] = CacheEntry("fulfilled", @.used, @.answer, None)]
  <2>1. Settle(ls, calls, pool)
    BY <1>10 DEF Arrive
  <2>2. /\ behind' = (behind \ {q}) \cup (crossed \cap {q}) /\ crossed' = crossed \ {q}
        /\ late' = late
    BY <1>10 DEF Arrive
  <2>3. q \in tags
    BY <1>1, <1>10 DEF Arrive, Loading, Covered
  <2>4. Covered(tags, ls, calls, pool, behind', crossed', late')
    BY <1>1, <2>2, <2>3 DEF Covered
  <2> HIDE DEF ls
  <2> QED BY <2>1, <2>4, SettleCovers
<1>11. ASSUME NEW q \in Lists, Fail(q) PROVE I(lists', calls', pool', behind', crossed', late')
  <2> DEFINE ls == [lists EXCEPT ![q] = CacheEntry("rejected", @.used, @.data, None)]
  <2>1. Settle(ls, calls, pool)
    BY <1>11 DEF Fail
  <2>2. behind' = behind /\ crossed' = crossed \ {q} /\ late' = late
    BY <1>11 DEF Fail
  <2>3. q \in tags
    BY <1>1, <1>11 DEF Fail, Loading, Covered
  <2>4. Covered(tags, ls, calls, pool, behind', crossed', late')
    BY <1>1, <2>2, <2>3 DEF Covered, CacheEntry
  <2> HIDE DEF ls
  <2> QED BY <2>1, <2>4, SettleCovers
<1>12. ASSUME NEW h \in Hooks, Serve(h) PROVE I(lists', calls', pool', behind', crossed', late')
  <2>1. calls' = [calls EXCEPT ![h] = Call("answered", calls[h].request, TRUE)]
    BY <1>12 DEF Serve
  <2>2. calls'[h].stage = "answered" /\ DOMAIN calls' = Hooks
    BY <1>1, <2>1 DEF Covered, Call
  <2>3. UNCHANGED <<lists, pool>>
    BY <1>12 DEF Serve
  <2>4. \A q \in crossed' \cap Lists : lists[q].status = "pending"
    BY <1>1, <1>12 DEF Serve, Outdate, Loading, Covered
  <2>5. Owed(calls') /\ ~Quiet(lists', calls')
    BY <2>2 DEF Owed, Quiet
  <2> QED BY <1>1, <2>2, <2>3, <2>4, <2>5 DEF Covered
<1>13. ASSUME NEW h \in Hooks, Refuse(h) PROVE I(lists', calls', pool', behind', crossed', late')
  <2>1. calls' = [calls EXCEPT ![h] = Call("answered", calls[h].request, FALSE)]
    BY <1>13 DEF Refuse
  <2>2. calls'[h].stage = "answered" /\ DOMAIN calls' = Hooks
    BY <1>1, <2>1 DEF Covered, Call
  <2>3. UNCHANGED <<lists, pool, behind, crossed, late>>
    BY <1>13 DEF Refuse, history
  <2>4. Owed(calls') /\ ~Quiet(lists', calls')
    BY <2>2 DEF Owed, Quiet
  <2> QED BY <1>1, <2>2, <2>3, <2>4 DEF Covered
<1>14. ASSUME NEW h \in Hooks, Answer(h, tags) \/ Break(h, tags)
       PROVE  I(lists', calls', pool', behind', crossed', late')
  <2> DEFINE cs == [calls EXCEPT ![h] = Idle]
  <2>1. Settle(lists, cs, pool \cup tags)
    BY <1>14 DEF Answer, Break
  <2>2. UNCHANGED <<behind, crossed>> /\ late' = {}
    BY <1>14 DEF Answer, Break
  <2>3. Covered(tags, lists, cs, pool \cup tags, behind, crossed, {})
    BY <1>1 DEF Covered
  <2> HIDE DEF cs
  <2> QED BY <2>1, <2>2, <2>3, SettleCovers
<1>15. ASSUME NEW m, Straggle(m) PROVE I(lists', calls', pool', behind', crossed', late')
  <2>1. UNCHANGED <<lists, calls, pool>> /\ late' = late \cup Changed
    BY <1>15 DEF Straggle
  <2>2. /\ behind' \subseteq behind \cup Changed
        /\ crossed' = crossed \cup {q \in Changed : Loading(q)}
    BY <1>15 DEF Straggle, Outdate
  <2>3. \A q \in Changed : Loading(q) => lists[q].status = "pending"
    BY DEF Loading
  <2>4. Covered(tags, lists, calls, pool, behind', crossed', late')
    BY <1>1, <2>1, <2>2, <2>3 DEF Covered
  <2> QED BY <1>2, <2>1, <2>4
<1> QED
  BY <1>4, <1>5, <1>6, <1>7, <1>8, <1>9, <1>10, <1>11, <1>12, <1>13, <1>14, <1>15
  DEF CacheMove, tags

\* Every step is a move of the cache, with the tags of the open page.
LEMMA NextMoves ==
    ASSUME CacheInv, [Next]_vars
    PROVE  page' = page /\ CacheMove(TagsOf[page])
<1>1. /\ TagsOf["eligibility"] = EligibilityTags
      /\ TagsOf["queue"] = QueueTags
      /\ TagsOf["sessions"] = SessionsTags
  BY DEF TagsOf
<1>2. ASSUME page = "eligibility", EligibilityPageStep PROVE CacheMove(TagsOf[page])
  <2>1. ASSUME RemoveContinue \/ RemoveBack \/ RemoveCancel \/ (\E u \in Employees : RequestRemove(u))
               \/ (\E u \in Employees \cup {None} : Select(u))
        PROVE  CacheMove(TagsOf[page])
    BY <2>1 DEF RemoveContinue, RemoveBack, RemoveCancel, RequestRemove, Select, CacheMove
  <2>2. ASSUME RemoveConfirm PROVE CacheMove(TagsOf[page])
    <3> DEFINE m == [hook |-> "removeEligible", user |-> pendingRemove]
    <3>1. Sendable(m) /\ Send(m)
      BY <2>2 DEF RemoveConfirm, Hooks, Sendable
    <3> HIDE DEF m
    <3> QED BY <3>1 DEF CacheMove
  <2>3. ASSUME ConfirmAdd PROVE CacheMove(TagsOf[page])
    <3> DEFINE m == [hook |-> "markEligible", user |-> selected]
    <3>1. Sendable(m) /\ Send(m)
      BY <2>3 DEF ConfirmAdd, Hooks, Sendable
    <3> HIDE DEF m
    <3> QED BY <3>1 DEF CacheMove
  <2>4. ASSUME OpenAdd \/ CloseAdd \/ LetOptionsGo PROVE CacheMove(TagsOf[page])
    <3>1. "collaborators" \in TagsOf[page] \cap Lists
      BY <1>1, <1>2 DEF EligibilityTags, Lists
    <3>2. Subscribe("collaborators") \/ Unsubscribe("collaborators")
      BY <2>4 DEF OpenAdd, CloseAdd, LetOptionsGo
    <3> QED BY <3>1, <3>2 DEF CacheMove
  <2>5. ASSUME RemoveAnswered \/ AddAnswered PROVE CacheMove(TagsOf[page])
    <3>1. Answer("removeEligible", TagsOf[page]) \/ Answer("markEligible", TagsOf[page])
      BY <2>5, <1>1, <1>2 DEF RemoveAnswered, AddAnswered
    <3>2. "removeEligible" \in Hooks /\ "markEligible" \in Hooks
      BY DEF Hooks
    <3> QED BY <3>1, <3>2 DEF CacheMove
  <2> QED BY <1>2, <2>1, <2>2, <2>3, <2>4, <2>5 DEF EligibilityPageStep
<1>3. ASSUME page = "queue", QueuePageStep PROVE CacheMove(TagsOf[page])
  <2>1. ASSUME NEW s \in Sessions, AssignClicked(s) PROVE CacheMove(TagsOf[page])
    <3> DEFINE m == [hook |-> "assignBooking", session |-> s]
    <3>1. Sendable(m) /\ Send(m)
      BY <2>1 DEF AssignClicked, Hooks, Sendable
    <3> HIDE DEF m
    <3> QED BY <3>1 DEF CacheMove
  <2>2. ASSUME CloseConfirmed PROVE CacheMove(TagsOf[page])
    <3> DEFINE m == [hook |-> "closeBooking", session |-> closeTarget,
                     outcome |-> outcome, reason |-> reasonCode]
    <3>1. Sendable(m) /\ Send(m)
      BY <2>2 DEF CloseConfirmed, Hooks, Sendable
    <3> HIDE DEF m
    <3> QED BY <3>1 DEF CacheMove
  <2>3. ASSUME QueueAnswered PROVE CacheMove(TagsOf[page])
    <3>1. PICK h \in Hooks : Answer(h, TagsOf[page])
      BY <2>3, <1>1, <1>3 DEF QueueAnswered, Hooks
    <3> QED BY <3>1 DEF CacheMove
  <2>4. ASSUME DialogDismissed \/ (\E s : CloseClicked(s)) \/ (\E o : OutcomeChosen(o))
               \/ (\E r : ReasonChosen(r))
        PROVE  CacheMove(TagsOf[page])
    BY <2>4 DEF DialogDismissed, CloseClicked, OutcomeChosen, ReasonChosen, CacheMove
  <2> QED BY <1>3, <2>1, <2>2, <2>3, <2>4 DEF QueuePageStep
<1>4. ASSUME page = "sessions", SessionsCardStep PROVE CacheMove(TagsOf[page])
  <2>1. ASSUME NEW offer \in Offers, PickSlot(offer) PROVE CacheMove(TagsOf[page])
    <3> DEFINE m == [hook |-> "createBooking", offer |-> offer]
    <3>1. Sendable(m) /\ Send(m)
      BY <2>1 DEF PickSlot, Hooks, Sendable
    <3> HIDE DEF m
    <3> QED BY <3>1 DEF CacheMove
  <2>2. ASSUME NEW s \in Sessions, CancelTapped(s) PROVE CacheMove(TagsOf[page])
    <3> DEFINE m == [hook |-> "cancelBooking", session |-> s]
    <3>1. Sendable(m) /\ Send(m)
      BY <2>2 DEF CancelTapped, Hooks, Sendable
    <3> HIDE DEF m
    <3> QED BY <3>1 DEF CacheMove
  <2>3. ASSUME BookingAnswered \/ CancelAnswered PROVE CacheMove(TagsOf[page])
    <3>1. Answer("createBooking", TagsOf[page]) \/ Answer("cancelBooking", TagsOf[page])
      BY <2>3, <1>1, <1>4 DEF BookingAnswered, CancelAnswered
    <3>2. "createBooking" \in Hooks /\ "cancelBooking" \in Hooks
      BY DEF Hooks
    <3> QED BY <3>1, <3>2 DEF CacheMove
  <2> QED BY <1>4, <2>1, <2>2, <2>3 DEF SessionsCardStep
<1>5. CASE PageActs
  BY <1>2, <1>3, <1>4, <1>5 DEF PageActs
<1>6. CASE ListMoves
  BY <1>6 DEF ListMoves, CacheMove, bounds
<1>7. CASE Breaks
  BY <1>7 DEF Breaks, CacheMove
<1>8. CASE ServerActs
  BY <1>8 DEF ServerActs, CacheMove, bounds
<1>9. CASE OthersAct
  BY <1>9 DEF OthersAct, CacheMove
<1>10. CASE UNCHANGED vars
  BY <1>10 DEF vars, bounds, CacheMove
<1> QED BY <1>5, <1>6, <1>7, <1>8, <1>9, <1>10 DEF Next

LEMMA CacheInvAtStart == Init => CacheInv
<1> SUFFICES ASSUME Init PROVE CacheInv
  OBVIOUS
<1>1. page \in Pages
  BY StartsAssumption DEF Init, Pages
<1>2. \A q \in Lists \ TagsOf[page] : lists[q].status = "uninitialized"
  BY DEF Init, ShownAtOnce, NoList, CacheEntry
<1>3. DOMAIN lists = Lists /\ DOMAIN calls = Hooks
  BY DEF Init
<1> QED BY <1>1, <1>2, <1>3 DEF Init, CacheInv, Covered

\* Every list that lags behind a request of the page is going to be read again: it is
\* pooled, or the answer that invalidates it is still due (the caches of the three APIs);
\* unless the page had given the request up and has had no answer since.
THEOREM ListsAreCovered == Spec => []CacheInv
<1>1. CacheInv /\ [Next]_vars => CacheInv'
  BY NextMoves, MovesKeepCacheInv
<1> QED BY CacheInvAtStart, <1>1, PTL DEF Spec

\* A page at rest shows no list from before a request of its own took effect, but one
\* that it had given up and that was done since its last answer.
THEOREM AnswersAreShown == Spec => []AnswersShow
<1>1. CacheInv => AnswersShow
  BY DEF CacheInv, Covered, AnswersShow, AtRest, Quiet, Owed
<1> QED BY ListsAreCovered, <1>1, PTL

-----------------------------------------------------------------------------
(***************************************************************************)
(* The closing form.                                                       *)
(***************************************************************************)
Honest(m) == m # None /\ m.hook = "closeBooking" => Fits(m.outcome, m.reason)

FormInv ==
    /\ Fits(outcome, reasonCode)
    /\ \A h \in Hooks : Honest(calls[h].request)
    /\ \A m \in stray : Honest(m)

\* The form offers for an outcome what closeAssignedBooking takes for it.
LEMMA ReasonsFit ==
    ASSUME NEW o \in DOMAIN closureReasonsByOutcome
    PROVE  /\ Fits(o, closureReasonsByOutcome[o][1])
           /\ \A r \in ReasonsOf(o) : Fits(o, r)
<1>1. o \in {"completed", "cancelled", "no_show"}
  BY DEF closureReasonsByOutcome
<1>2. CASE o = "completed"
  BY <1>2 DEF closureReasonsByOutcome, ReasonsOf, Fits
<1>3. CASE o = "cancelled"
  BY <1>3 DEF closureReasonsByOutcome, ReasonsOf, Fits
<1>4. CASE o = "no_show"
  BY <1>4 DEF closureReasonsByOutcome, ReasonsOf, Fits
<1> QED BY <1>1, <1>2, <1>3, <1>4

\* Whatever changes the form leaves a pair that fits.
LEMMA FormStaysFit ==
    ASSUME Fits(outcome, reasonCode), [Next]_vars
    PROVE  Fits(outcome, reasonCode)'
<1>1. ASSUME NEW o \in Choices, OutcomeChosen(o) PROVE Fits(outcome, reasonCode)'
  <2>1. o \in DOMAIN closureReasonsByOutcome
    BY ChoicesAssumption
  <2>2. outcome' = o /\ reasonCode' = closureReasonsByOutcome[o][1]
    BY <1>1 DEF OutcomeChosen
  <2>3. Fits(o, closureReasonsByOutcome[o][1])
    BY <2>1, ReasonsFit
  <2>4. Fits(outcome', reasonCode')
    BY <2>2, <2>3
  <2> QED BY <2>4 DEF Fits
<1>2. ASSUME NEW r, ReasonChosen(r) PROVE Fits(outcome, reasonCode)'
  <2>1. outcome \in DOMAIN closureReasonsByOutcome
    BY DEF Fits, closureReasonsByOutcome
  <2>2. outcome' = outcome /\ reasonCode' = r /\ r \in ReasonsOf(outcome)
    BY <1>2 DEF ReasonChosen
  <2>3. Fits(outcome', reasonCode')
    BY <2>1, <2>2, ReasonsFit
  <2> QED BY <2>3 DEF Fits
<1>3. ASSUME UNCHANGED form PROVE Fits(outcome, reasonCode)'
  BY <1>3 DEF form, Fits
<1>4. ASSUME QueuePageStep PROVE Fits(outcome, reasonCode)'
  <2>1. ASSUME (\E s \in Sessions : AssignClicked(s) \/ CloseClicked(s))
               \/ DialogDismissed \/ CloseConfirmed \/ QueueAnswered
        PROVE  outcome' = outcome /\ reasonCode' = reasonCode
    BY <2>1 DEF AssignClicked, CloseClicked, DialogDismissed, CloseConfirmed, QueueAnswered, form
  <2>2. ASSUME outcome' = outcome, reasonCode' = reasonCode PROVE Fits(outcome, reasonCode)'
    BY <2>2 DEF Fits
  <2> QED BY <1>1, <1>2, <1>4, <2>1, <2>2 DEF QueuePageStep
<1>5. PageActs => QueuePageStep \/ UNCHANGED form
  BY DEF PageActs
<1>6. ListMoves \/ Breaks \/ ServerActs \/ OthersAct \/ UNCHANGED vars => UNCHANGED form
  BY DEF ListMoves, Breaks, ServerActs, OthersAct, vars, screen
<1> QED BY <1>3, <1>4, <1>5, <1>6 DEF Next

\* No move of the cache makes up a request or changes one.
LEMMA MovesKeepRequests ==
    ASSUME CacheInv, FormInv, CacheMove(TagsOf[page])
    PROVE  (\A h \in Hooks : Honest(calls'[h].request)) /\ (\A m \in stray' : Honest(m))
<1> DEFINE H(cs, t) == (\A h \in Hooks : Honest(cs[h].request)) /\ (\A m \in t : Honest(m))
<1>1. H(calls, stray) /\ DOMAIN calls = Hooks
  BY DEF FormInv, CacheInv, Covered
<1>2. SUFFICES H(calls', stray')
  OBVIOUS
<1>3. Honest(Idle.request)
  BY DEF Honest, Idle, Call
<1>4. ASSUME NEW m, Sendable(m), Send(m) PROVE H(calls', stray')
  <2>1. Honest(m)
    BY <1>4 DEF Sendable, Honest, FormInv
  <2>2. calls' = [calls EXCEPT ![m.hook] = Call("sent", m, FALSE)] /\ stray' = stray
    BY <1>4 DEF Send
  <2>3. Call("sent", m, FALSE).request = m
    BY DEF Call
  <2> HIDE DEF Honest
  <2> QED BY <1>1, <2>1, <2>2, <2>3
<1>5. ASSUME NEW h \in Hooks, Serve(h) \/ Refuse(h) PROVE H(calls', stray')
  <2>1. PICK ok : calls' = [calls EXCEPT ![h] = Call("answered", calls[h].request, ok)]
    BY <1>5 DEF Serve, Refuse
  <2>2. Call("answered", calls[h].request, ok).request = calls[h].request
    BY DEF Call
  <2>3. stray' = stray
    BY <1>5 DEF Serve, Refuse
  <2> QED BY <1>1, <2>1, <2>2, <2>3
<1>6. ASSUME NEW h \in Hooks, Answer(h, TagsOf[page]) \/ Break(h, TagsOf[page])
      PROVE  H(calls', stray')
  <2>1. calls' = [calls EXCEPT ![h] = Idle]
    BY <1>6 DEF Answer, Break, Settle
  <2>2. stray' \subseteq stray \cup {calls[h].request}
    BY <1>6 DEF Answer, Break
  <2> QED BY <1>1, <1>3, <2>1, <2>2
<1>7. ASSUME NEW q \in Lists,
             Subscribe(q) \/ Unsubscribe(q) \/ Expire(q) \/ Read(q) \/ Arrive(q) \/ Fail(q)
      PROVE  calls' = calls /\ stray' = stray
  BY <1>7 DEF Subscribe, Unsubscribe, Expire, Read, Arrive, Fail, Settle
<1>8. ASSUME NEW m, Straggle(m) PROVE calls' = calls /\ stray' \subseteq stray
  BY <1>8 DEF Straggle
<1>9. UNCHANGED cache => calls' = calls /\ stray' = stray
  BY DEF cache
<1> HIDE DEF H
<1>10. ASSUME calls' = calls, stray' \subseteq stray PROVE H(calls', stray')
  BY <1>1, <1>10 DEF H
<1> QED BY <1>4, <1>5, <1>6, <1>7, <1>8, <1>9, <1>10 DEF CacheMove

\* The queue page asks for no closure whose reason does not belong to its outcome.
THEOREM FormsFit == Spec => []FormFits
<1>1. Init => FormInv
  BY DEF Init, InitQueuePage, FormInv, Fits, Honest, Idle, Call
<1>2. CacheInv /\ FormInv /\ [Next]_vars => FormInv'
  <2> SUFFICES ASSUME CacheInv, FormInv, [Next]_vars PROVE FormInv'
    OBVIOUS
  <2>1. Fits(outcome, reasonCode)'
    BY FormStaysFit DEF FormInv
  <2>2. (\A h \in Hooks : Honest(calls'[h].request)) /\ (\A m \in stray' : Honest(m))
    BY NextMoves, MovesKeepRequests
  <2> QED BY <2>1, <2>2 DEF FormInv, Honest, Fits
<1>3. FormInv => FormFits
  <2>1. "closeBooking" \in Hooks
    BY DEF Hooks
  <2> QED BY <2>1 DEF FormInv, FormFits, Honest
<1> QED BY <1>1, <1>2, <1>3, ListsAreCovered, PTL DEF Spec

-----------------------------------------------------------------------------
(***************************************************************************)
(* The two dialogs of a removal.                                           *)
(***************************************************************************)
DialogInv ==
    /\ removePhase \in {"warn", "final"} => <<"warn", pendingRemove>> \in seen
    /\ removePhase = "final" => <<"final", pendingRemove>> \in seen

LEMMA DialogsAreSeen == DialogInv /\ [Next]_vars => DialogInv'
<1> SUFFICES ASSUME DialogInv, [Next]_vars PROVE DialogInv'
  OBVIOUS
<1>1. ASSUME UNCHANGED <<removePhase, pendingRemove, seen>> PROVE DialogInv'
  BY <1>1 DEF DialogInv
<1>2. ASSUME RemovalDismissed PROVE DialogInv'
  BY <1>2, NoneAssumption DEF RemovalDismissed, DialogInv
<1>3. ASSUME NEW u, RequestRemove(u) PROVE DialogInv'
  BY <1>3 DEF RequestRemove, DialogInv
<1>4. ASSUME RemoveContinue \/ RemoveBack PROVE DialogInv'
  BY <1>4 DEF RemoveContinue, RemoveBack, DialogInv
<1>5. ASSUME EligibilityPageStep PROVE DialogInv'
  <2>1. ASSUME RemoveConfirm \/ OpenAdd \/ CloseAdd \/ ConfirmAdd \/ AddAnswered \/ LetOptionsGo
               \/ (\E u \in Employees \cup {None} : Select(u))
        PROVE  UNCHANGED <<removePhase, pendingRemove, seen>>
    BY <2>1 DEF RemoveConfirm, OpenAdd, CloseAdd, ConfirmAdd, AddAnswered, LetOptionsGo, Select,
                dialogs
  <2>2. RemoveCancel => RemovalDismissed
    BY DEF RemoveCancel
  <2>3. RemoveAnswered => RemovalDismissed \/ UNCHANGED <<removePhase, pendingRemove, seen>>
    BY DEF RemoveAnswered
  <2> QED BY <1>1, <1>2, <1>3, <1>4, <1>5, <2>1, <2>2, <2>3 DEF EligibilityPageStep
<1>6. PageActs => EligibilityPageStep \/ UNCHANGED dialogs
  BY DEF PageActs
<1>7. ListMoves \/ Breaks \/ ServerActs \/ OthersAct \/ UNCHANGED vars => UNCHANGED dialogs
  BY DEF ListMoves, Breaks, ServerActs, OthersAct, vars, screen
<1>8. UNCHANGED dialogs => UNCHANGED <<removePhase, pendingRemove, seen>>
  BY DEF dialogs
<1> QED BY <1>1, <1>5, <1>6, <1>7, <1>8 DEF Next

\* A removal that leaves the page is the one of the open confirmation.
LEMMA RemovalSent ==
    ASSUME CacheInv, CacheMove(TagsOf[page]), NEW u,
           ~InFlight("removeEligible"), InFlight("removeEligible")',
           calls'["removeEligible"].request = [hook |-> "removeEligible", user |-> u]
    PROVE  removePhase = "final" /\ pendingRemove = u
<1> DEFINE r == "removeEligible"
<1>1. DOMAIN calls = Hooks /\ r \in Hooks
  BY DEF CacheInv, Covered, Hooks
<1>2. calls[r].stage = "idle" /\ calls'[r].stage # "idle"
  BY DEF InFlight
<1>3. PICK m : Sendable(m) /\ Send(m)
  <2>1. UNCHANGED cache => calls' = calls
    BY DEF cache
  <2>2. ASSUME NEW q \in Lists,
               Subscribe(q) \/ Unsubscribe(q) \/ Expire(q) \/ Read(q) \/ Arrive(q) \/ Fail(q)
        PROVE  calls' = calls
    BY <2>2 DEF Subscribe, Unsubscribe, Expire, Read, Arrive, Fail, Settle
  <2>3. ASSUME NEW h \in Hooks, Serve(h) \/ Refuse(h) PROVE FALSE
    <3>1. calls[h].stage = "sent"
      BY <2>3 DEF Serve, Refuse
    <3>2. PICK c : calls' = [calls EXCEPT ![h] = c]
      BY <2>3 DEF Serve, Refuse
    <3> QED BY <1>1, <1>2, <3>1, <3>2
  <2>4. ASSUME NEW h \in Hooks, Answer(h, TagsOf[page]) \/ Break(h, TagsOf[page]) PROVE FALSE
    <3>1. calls' = [calls EXCEPT ![h] = Idle]
      BY <2>4 DEF Answer, Break, Settle
    <3>2. Idle.stage = "idle"
      BY DEF Idle, Call
    <3> QED BY <1>1, <1>2, <3>1, <3>2
  <2>5. ASSUME NEW m, Straggle(m) PROVE calls' = calls
    BY <2>5 DEF Straggle
  <2> QED BY <1>2, <2>1, <2>2, <2>3, <2>4, <2>5 DEF CacheMove
<1>4. calls' = [calls EXCEPT ![m.hook] = Call("sent", m, FALSE)] /\ m.hook \in Hooks
  BY <1>3 DEF Send, Sendable
<1>5. m.hook = r
  BY <1>1, <1>2, <1>4
<1>6. calls'[r] = Call("sent", m, FALSE)
  BY <1>1, <1>4, <1>5
<1>7. m = [hook |-> "removeEligible", user |-> u]
  BY <1>6 DEF Call
<1> QED BY <1>3, <1>5, <1>7 DEF Sendable

\* A removal is sent only for somebody whom both dialogs named since the row was chosen.
THEOREM RemovalsAreConfirmedTwice == Spec => RemovalConfirmedTwice
<1> DEFINE Confirmed ==
      \A u \in Employees :
        /\ ~InFlight("removeEligible") /\ InFlight("removeEligible")'
        /\ calls'["removeEligible"].request = [hook |-> "removeEligible", user |-> u]
        => {<<"warn", u>>, <<"final", u>>} \subseteq seen
<1>1. Init => DialogInv
  BY NoneAssumption DEF Init, InitEligibilityPage, DialogInv
<1>2. CacheInv /\ DialogInv /\ [Next]_vars => Confirmed
  <2> SUFFICES ASSUME CacheInv, DialogInv, [Next]_vars, NEW u \in Employees,
                      ~InFlight("removeEligible"), InFlight("removeEligible")',
                      calls'["removeEligible"].request = [hook |-> "removeEligible", user |-> u]
               PROVE  {<<"warn", u>>, <<"final", u>>} \subseteq seen
    OBVIOUS
  <2>1. removePhase = "final" /\ pendingRemove = u
    BY NextMoves, RemovalSent
  <2> QED BY <2>1 DEF DialogInv
<1>3. Spec => [][Confirmed]_vars
  <2> HIDE DEF Confirmed
  <2> QED BY <1>1, <1>2, DialogsAreSeen, ListsAreCovered, PTL DEF Spec
<1> QED BY <1>3 DEF RemovalConfirmedTwice

=============================================================================
