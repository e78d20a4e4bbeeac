----------------------------- MODULE QueryCache -----------------------------
(***************************************************************************)
(* What the pages rely on of RTK Query (@reduxjs/toolkit 2.5), the library *)
(* behind their createApi: the lists a page subscribes to, the requests it *)
(* has in flight, and the invalidation that ties them together.  Tags that *)
(* an answered request invalidates are pooled until nothing of the API is  *)
(* in flight (invalidationBehavior "delayed"); then every list that        *)
(* provides one is read again, or dropped when no component uses it.       *)
(***************************************************************************)
EXTENDS PageServer

VARIABLES
    lists,      \* the cache entry of each list
    calls,      \* the request of each mutation hook: one in flight per hook at most
    pool,       \* pendingTagInvalidations: lists to be read again
    stray,      \* requests given up by the page that may still reach the server
    behind,     \* history: lists shown that the server read before a request of this
                \*   page changed them
    crossed,    \* history: lists being read that such a request has changed meanwhile
    late        \* history: lists changed by a request the page had given up, since its
                \*   last answer or broken connection

history == <<behind, crossed, late>>
cache == <<lists, calls, pool, stray, history>>

\* data is what the page shows; answer, what the server has read for it but the
\* page has not received.
CacheEntry(status, used, data, answer) ==
    [status |-> status, used |-> used, data |-> data, answer |-> answer]

NoList == CacheEntry("uninitialized", FALSE, None, None)

Call(stage, request, ok) == [stage |-> stage, request |-> request, ok |-> ok]

Idle == Call("idle", None, FALSE)

Loading(q) == lists[q].status = "pending"

InFlight(h) == calls[h].stage # "idle"

Rows(q) == IF lists[q].data = None THEN {} ELSE lists[q].data

\* Nothing of the API is in flight in a cache of ls and cs.
Quiet(ls, cs) ==
    (\A q \in Lists : ls[q].status # "pending") /\ (\A h \in Hooks : cs[h].stage = "idle")

AtRest == Quiet(lists, calls)

Reading(l) == CacheEntry("pending", l.used, l.data, None)

\* An invalidated list.
Again(l) ==
    IF l.status = "uninitialized" THEN l
    ELSE IF l.used THEN Reading(l) ELSE NoList

\* The cache becomes ls and cs with the lists of p invalidated.
Settle(ls, cs, p) ==
    /\ calls' = cs
    /\ IF Quiet(ls, cs)
       THEN lists' = [q \in Lists |-> IF q \in p THEN Again(ls[q]) ELSE ls[q]] /\ pool' = {}
       ELSE lists' = ls /\ pool' = p

(***************************************************************************)
(* Lists.                                                                  *)
(***************************************************************************)
\* A component mounts: an entry that was ever filled is used as it is.
Used(l) ==
    IF l.status = "pending" \/ l.data # None
    THEN CacheEntry(l.status, TRUE, l.data, l.answer)
    ELSE CacheEntry("pending", TRUE, None, None)

Unused(l) == CacheEntry(l.status, FALSE, l.data, l.answer)

Subscribe(q) ==
    lists' = [lists EXCEPT ![q] = Used(@)] /\ UNCHANGED <<calls, pool, stray, history>>

Unsubscribe(q) ==
    lists' = [lists EXCEPT ![q] = Unused(@)] /\ UNCHANGED <<calls, pool, stray, history>>

\* keepUnusedDataFor: an entry nobody uses goes after a minute.
Expire(q) ==
    /\ ~lists[q].used /\ lists[q].status \in {"fulfilled", "rejected"}
    /\ lists' = [lists EXCEPT ![q] = NoList]
    /\ UNCHANGED <<calls, pool, stray, history>>

\* The server reads the list.
Read(q) ==
    /\ Loading(q) /\ lists[q].answer = None
    /\ Readable(q)
    /\ lists' = [lists EXCEPT ![q] = CacheEntry("pending", @.used, @.data, View(q))]
    /\ crossed' = crossed \ {q}
    /\ UNCHANGED <<calls, pool, stray, behind, late>>

\* What was read arrives.
Arrive(q) ==
    /\ Loading(q) /\ lists[q].answer # None
    /\ Settle([lists EXCEPT ![q] = CacheEntry("fulfilled", @.used, @.answer, None)], calls, pool)
    /\ behind' = (behind \ {q}) \cup (crossed \cap {q})
    /\ crossed' = crossed \ {q}
    /\ UNCHANGED <<stray, late>>

\* The read fails, or is refused: what was shown stays, beside the error.
Fail(q) ==
    /\ Loading(q)
    /\ Settle([lists EXCEPT ![q] = CacheEntry("rejected", @.used, @.data, None)], calls, pool)
    /\ crossed' = crossed \ {q}
    /\ UNCHANGED <<stray, behind, late>>

(***************************************************************************)
(* Requests.                                                               *)
(***************************************************************************)
Send(m) ==
    /\ ~InFlight(m.hook)
    /\ calls' = [calls EXCEPT ![m.hook] = Call("sent", m, FALSE)]
    /\ UNCHANGED <<lists, pool, stray, history>>

Changed == {q \in Lists : View(q)' # View(q)}

\* What the page holds of the lists that the step changes is old from now on.
Outdate ==
    /\ behind' = behind \cup {q \in Changed : lists[q].data # None}
    /\ crossed' = crossed \cup {q \in Changed : Loading(q)}

\* The server does what was asked.
Serve(h) ==
    /\ calls[h].stage = "sent"
    /\ Perform(calls[h].request)
    /\ calls' = [calls EXCEPT ![h] = Call("answered", @.request, TRUE)]
    /\ Outdate
    /\ UNCHANGED <<lists, pool, stray, late>>

Refuse(h) ==
    /\ calls[h].stage = "sent"
    /\ calls' = [calls EXCEPT ![h] = Call("answered", @.request, FALSE)]
    /\ UNCHANGED <<lists, pool, stray, history>>

\* The answer reaches the page, which invalidates the lists of tags whether the
\* request succeeded or was refused.
Answer(h, tags) ==
    /\ calls[h].stage = "answered"
    /\ Settle(lists, [calls EXCEPT ![h] = Idle], pool \cup tags)
    /\ late' = {}
    /\ UNCHANGED <<stray, behind, crossed>>

\* The connection breaks: to the page the request failed, but the server may have
\* done it, or do it later.
Break(h, tags) ==
    /\ InFlight(h)
    /\ Settle(lists, [calls EXCEPT ![h] = Idle], pool \cup tags)
    /\ \/ UNCHANGED stray
       \/ calls[h].stage = "sent" /\ stray' = stray \cup {calls[h].request}
    /\ late' = {}
    /\ UNCHANGED <<behind, crossed>>

\* The server does a request of a connection that is gone: nobody hears of it.
Straggle(m) ==
    /\ m \in stray
    /\ Perform(m)
    /\ stray' = stray \ {m}
    /\ Outdate
    /\ late' = late \cup Changed
    /\ UNCHANGED <<lists, calls, pool>>

=============================================================================
