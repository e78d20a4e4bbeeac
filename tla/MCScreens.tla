----------------------------- MODULE MCScreens -----------------------------
EXTENDS Screens, TLC

CONSTANTS s1, s2, e1, e2, c1, c2

Early == [start |-> 0, end |-> 1]
Late  == [start |-> 1, end |-> 2]
MCSlots == {Early, Late}

\* Two sessions wait, each for its own consultant; a session is being moved from
\* another device; nothing is booked.
Waiting == s1 :> Book!Standing(e1, c1, Early) @@ s2 :> Book!Standing(e2, c2, Early)
Moving == s1 :> [Book!Standing(e1, c1, Early) EXCEPT !.phase = "moving"]
            @@ s2 :> Book!Blank("unused")
Empty == [s \in {s1, s2} |-> Book!Blank("unused")]

MCStarts ==
    {[page |-> "eligibility", book |-> Empty, eligible |-> {e1}],
     [page |-> "queue", book |-> Waiting, eligible |-> {e1}],
     [page |-> "sessions", book |-> Waiting, eligible |-> {e1}],
     [page |-> "sessions", book |-> Moving, eligible |-> {e1}],
     [page |-> "sessions", book |-> Empty, eligible |-> {e1}]}
=============================================================================
