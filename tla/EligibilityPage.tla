-------------------------- MODULE EligibilityPage --------------------------
(***************************************************************************)
(* The HR application's page of eligible employees: the list, the dialog   *)
(* that adds a collaborator, and the two dialogs a removal goes through    *)
(* (EligibilityContainer, EligibilityListView).                            *)
(***************************************************************************)
EXTENDS QueryCache

VARIABLES
    addOpen, selected,              \* the add dialog and the collaborator chosen in it
    removePhase, pendingRemove,     \* which removal dialog is open, and on whom
    seen                            \* history: the dialogs shown since the row was chosen

dialogs == <<addOpen, selected, removePhase, pendingRemove, seen>>

EligibilityTags == {"eligibilityList", "collaborators"}

\* A dialog covers the page.
Uncovered == ~addOpen /\ removePhase = None

InitEligibilityPage ==
    /\ addOpen = FALSE /\ selected = None
    /\ removePhase = None /\ pendingRemove = None
    /\ seen = {}

\* Mutant: the warning is skipped.
RequestRemoveHastily(u) ==
    /\ Uncovered
    /\ u \in Rows("eligibilityList")
    /\ pendingRemove' = u /\ removePhase' = "final"
    /\ seen' = {<<"final", u>>}
    /\ UNCHANGED <<addOpen, selected, cache, server>>

RequestRemove(u) ==
    /\ Uncovered
    /\ u \in Rows("eligibilityList")
    /\ pendingRemove' = u /\ removePhase' = "warn"
    /\ seen' = {<<"warn", u>>}
    /\ UNCHANGED <<addOpen, selected, cache, server>>

RemoveContinue ==
    /\ removePhase = "warn"
    /\ removePhase' = "final"
    /\ seen' = seen \cup {<<"final", pendingRemove>>}
    /\ UNCHANGED <<addOpen, selected, pendingRemove, cache, server>>

RemoveBack ==
    /\ removePhase = "final"
    /\ removePhase' = "warn"
    /\ UNCHANGED <<addOpen, selected, pendingRemove, seen, cache, server>>

\* onRemoveCancel, as an effect.
RemovalDismissed == removePhase' = None /\ pendingRemove' = None /\ seen' = {}

RemoveCancel ==
    /\ removePhase # None
    /\ RemovalDismissed
    /\ UNCHANGED <<addOpen, selected, cache, server>>

RemoveConfirm ==
    /\ removePhase = "final"
    /\ Send([hook |-> "removeEligible", user |-> pendingRemove])
    /\ UNCHANGED <<dialogs, server>>

OpenAdd ==
    /\ Uncovered
    /\ addOpen' = TRUE /\ selected' = None
    /\ Subscribe("collaborators")
    /\ UNCHANGED <<removePhase, pendingRemove, seen, server>>

\* The field shows once there are options, and can be emptied.
Select(u) ==
    /\ addOpen
    /\ lists["collaborators"].data # None \/ ~Loading("collaborators")
    /\ u \in Rows("collaborators") \cup {None}
    /\ selected' = u
    /\ UNCHANGED <<addOpen, removePhase, pendingRemove, seen, cache, server>>

CloseAdd ==
    /\ addOpen
    /\ addOpen' = FALSE /\ selected' = None
    /\ Unsubscribe("collaborators")
    /\ UNCHANGED <<removePhase, pendingRemove, seen, server>>

ConfirmAdd ==
    /\ addOpen /\ selected # None
    /\ Send([hook |-> "markEligible", user |-> selected])
    /\ UNCHANGED <<dialogs, server>>

\* A success closes the removal dialog that is open by now, whoever it names.
RemoveAnswered ==
    /\ Answer("removeEligible", EligibilityTags)
    /\ IF calls["removeEligible"].ok
       THEN RemovalDismissed ELSE UNCHANGED <<removePhase, pendingRemove, seen>>
    /\ UNCHANGED <<addOpen, selected, server>>

\* Likewise the add dialog; the options are let go when the page renders again.
AddAnswered ==
    /\ Answer("markEligible", EligibilityTags)
    /\ IF calls["markEligible"].ok
       THEN addOpen' = FALSE /\ selected' = None
       ELSE UNCHANGED <<addOpen, selected>>
    /\ UNCHANGED <<removePhase, pendingRemove, seen, server>>

\* An effect of the render that follows AddAnswered.
LetOptionsGo ==
    /\ ~addOpen /\ lists["collaborators"].used
    /\ Unsubscribe("collaborators")
    /\ UNCHANGED <<dialogs, server>>

EligibilityPageStep ==
    \/ \E u \in Employees : RequestRemove(u)
    \/ RemoveContinue \/ RemoveBack \/ RemoveCancel \/ RemoveConfirm
    \/ OpenAdd \/ CloseAdd \/ ConfirmAdd
    \/ \E u \in Employees \cup {None} : Select(u)
    \/ RemoveAnswered \/ AddAnswered \/ LetOptionsGo

=============================================================================
