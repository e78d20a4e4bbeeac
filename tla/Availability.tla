---------------------------- MODULE Availability ----------------------------
(***************************************************************************)
(* The availability a consultant publishes: createAvailabilityBlock,       *)
(* updateAvailabilityBlock and deleteAvailabilityBlock of                  *)
(* SchedulingService.  Every element of Editors is one HTTP request at a   *)
(* time, cut at its awaits as in Booking.  The reads of the consultant's   *)
(* scope are merged with the read that follows: the scope is a constant    *)
(* here.                                                                   *)
(***************************************************************************)
EXTENDS Integers, FiniteSets

CONSTANTS
    BlockIds,       \* pool of ObjectIds for availability blocks
    Consultants, Tenants,
    ActiveConsultants, \* active platform users holding role planning_consultant
    Serves,         \* the tenants each consultant may serve
    Instants,       \* the instants consultants send
    Editors,        \* requests that may be in flight together
    Published,      \* the blocks there are at the start
    None            \* a field the patch does not name

Window == [tenant : Tenants, start : Int, end : Int]

Block == [id : BlockIds, consultant : Consultants,
          tenant : Tenants, start : Int, end : Int]

ASSUME AvailabilityAssumption ==
    /\ None \notin Tenants /\ None \notin Instants
    /\ None \notin BlockIds /\ None \notin Consultants
    /\ Instants \subseteq Int
    /\ ActiveConsultants \subseteq Consultants
    /\ Serves \in [Consultants -> SUBSET Tenants]
    /\ Published \subseteq Block
    /\ \A k \in Published : /\ k.start < k.end
                            /\ k.consultant \in ActiveConsultants
                            /\ k.tenant \in Serves[k.consultant]
    /\ \A j, k \in Published : j.id = k.id => j = k

VARIABLES
    blocks,     \* collection consultant_availability_blocks
    edit,       \* the requests in flight
    drawn       \* the ObjectIds drawn so far

vars == <<blocks, edit, drawn>>

-----------------------------------------------------------------------------
Patch ==
    [tenant : Tenants \cup {None},
     start  : Instants \cup {None},
     end    : Instants \cup {None}]

NoPatch == [tenant |-> None, start |-> None, end |-> None]

Codes == {"none", "ok", "OUT_OF_SCOPE", "INVALID_RANGE",
          "AVAILABILITY_OVERLAP", "BLOCK_NOT_FOUND"}

Edit ==
    [pc         : {"idle", "publish", "check", "update"},
     consultant : Consultants \cup {None},
     id         : BlockIds \cup {None},
     patch      : Patch,
     next       : Window \cup {None},   \* nextTenantId, start, end
     reply      : Codes]

Idle == [pc |-> "idle", consultant |-> None, id |-> None,
         patch |-> NoPatch, next |-> None, reply |-> "none"]

Reply(r, code) == edit' = [edit EXCEPT ![r] = [Idle EXCEPT !.reply = code]]

Owned(id, c) == {k \in blocks : k.id = id /\ k.consultant = c}

\* Mutant: only the start of the window is looked at.
OverlapAtStart(c, w, ignored) ==
    \E k \in blocks : /\ k.consultant = c
                      /\ k.id # ignored
                      /\ k.start <= w.start /\ w.start < k.end

\* overlapFilter, with `_id: { $ne: ignored }`; half-open intervals.
Overlap(c, w, ignored) ==
    \E k \in blocks : /\ k.consultant = c
                      /\ k.id # ignored
                      /\ k.start < w.end /\ w.start < k.end

AllowedWindow(c, w) == w.tenant \in Serves[c] /\ w.start < w.end

WindowOf(k) == [tenant |-> k.tenant, start |-> k.start, end |-> k.end]

BlockOf(id, c, w) ==
    [id |-> id, consultant |-> c, tenant |-> w.tenant, start |-> w.start, end |-> w.end]

\* Mutant: the read behind a patch forgets the id in its filter.
MergeAny(k, p) ==
    LET j == CHOOSE j \in blocks : j.consultant = k.consultant IN
    [tenant |-> IF p.tenant = None THEN j.tenant ELSE p.tenant,
     start  |-> IF p.start = None THEN j.start ELSE p.start,
     end    |-> IF p.end = None THEN j.end ELSE p.end]

\* A field the patch does not name keeps the value that was read.
Merge(k, p) ==
    [tenant |-> IF p.tenant = None THEN k.tenant ELSE p.tenant,
     start  |-> IF p.start = None THEN k.start ELSE p.start,
     end    |-> IF p.end = None THEN k.end ELSE p.end]

-----------------------------------------------------------------------------
(* createAvailabilityBlock *)

BeginPublish(r, c, w) ==
    /\ edit[r].pc = "idle"
    /\ \/ /\ c \notin ActiveConsultants \/ w.tenant \notin Serves[c]
          /\ Reply(r, "OUT_OF_SCOPE")
          /\ UNCHANGED drawn
       \/ /\ c \in ActiveConsultants /\ w.tenant \in Serves[c]
          /\ w.start >= w.end
          /\ Reply(r, "INVALID_RANGE")
          /\ UNCHANGED drawn
       \/ /\ c \in ActiveConsultants /\ AllowedWindow(c, w)
          /\ Overlap(c, w, None)
          /\ Reply(r, "AVAILABILITY_OVERLAP")
          /\ UNCHANGED drawn
       \/ /\ c \in ActiveConsultants /\ AllowedWindow(c, w)
          /\ ~Overlap(c, w, None)
          /\ \E id \in BlockIds \ drawn :
               /\ drawn' = drawn \cup {id}
               /\ edit' = [edit EXCEPT ![r] =
                    [Idle EXCEPT !.pc = "publish", !.consultant = c,
                                 !.id = id, !.next = w]]
    /\ UNCHANGED blocks

Publish(r) ==
    LET q == edit[r] IN
    /\ q.pc = "publish"
    /\ blocks' = blocks \cup {BlockOf(q.id, q.consultant, q.next)}
    /\ Reply(r, "ok")
    /\ UNCHANGED drawn

-----------------------------------------------------------------------------
(* updateAvailabilityBlock *)

\* The empty patch is refused before anything is read; then the block is read
\* and what the patch leaves out is filled in from it.
BeginUpdate(r, c, id, p) ==
    /\ edit[r].pc = "idle"
    /\ \/ p = NoPatch /\ Reply(r, "INVALID_RANGE")
       \/ p # NoPatch /\ c \notin ActiveConsultants /\ Reply(r, "OUT_OF_SCOPE")
       \/ /\ p # NoPatch /\ c \in ActiveConsultants
          /\ Owned(id, c) = {}
          /\ Reply(r, "BLOCK_NOT_FOUND")
       \/ /\ p # NoPatch /\ c \in ActiveConsultants
          /\ \E k \in Owned(id, c) :
               LET w == Merge(k, p) IN
               \/ w.tenant \notin Serves[c] /\ Reply(r, "OUT_OF_SCOPE")
               \/ /\ w.tenant \in Serves[c] /\ w.start >= w.end
                  /\ Reply(r, "INVALID_RANGE")
               \/ /\ AllowedWindow(c, w)
                  /\ edit' = [edit EXCEPT ![r] =
                       [Idle EXCEPT !.pc = "check", !.consultant = c,
                                    !.id = id, !.patch = p, !.next = w]]
    /\ UNCHANGED <<blocks, drawn>>

CheckOverlap(r) ==
    LET q == edit[r] IN
    /\ q.pc = "check"
    /\ \/ /\ Overlap(q.consultant, q.next, q.id)
          /\ Reply(r, "AVAILABILITY_OVERLAP")
       \/ /\ ~Overlap(q.consultant, q.next, q.id)
          /\ edit' = [edit EXCEPT ![r].pc = "update"]
    /\ UNCHANGED <<blocks, drawn>>

\* Mutant: only the fields the patch names are set.
UpdateNamedOnly(r) ==
    LET q == edit[r] IN
    /\ q.pc = "update"
    /\ blocks' = (blocks \ Owned(q.id, q.consultant))
                   \cup {BlockOf(q.id, q.consultant, Merge(WindowOf(k), q.patch)) :
                           k \in Owned(q.id, q.consultant)}
    /\ Reply(r, IF Owned(q.id, q.consultant) = {} THEN "BLOCK_NOT_FOUND" ELSE "ok")
    /\ UNCHANGED drawn

\* Mutant: the update creates the block if it is not there.
UpdateOrInsert(r) ==
    LET q == edit[r] IN
    /\ q.pc = "update"
    /\ blocks' = (blocks \ Owned(q.id, q.consultant))
                   \cup {BlockOf(q.id, q.consultant, q.next)}
    /\ Reply(r, "ok")
    /\ UNCHANGED drawn

\* findOneAndUpdate({ _id, consultantId }): tenant, start and end are all set,
\* the ones the patch does not name to what was read two awaits ago.
Update(r) ==
    LET q == edit[r] IN
    /\ q.pc = "update"
    /\ \/ /\ Owned(q.id, q.consultant) # {}
          /\ blocks' = (blocks \ Owned(q.id, q.consultant))
                         \cup {BlockOf(q.id, q.consultant, q.next)}
          /\ Reply(r, "ok")
       \/ /\ Owned(q.id, q.consultant) = {}
          /\ Reply(r, "BLOCK_NOT_FOUND")
          /\ UNCHANGED blocks
    /\ UNCHANGED drawn

-----------------------------------------------------------------------------
(* deleteAvailabilityBlock *)

Delete(r, c, id) ==
    /\ edit[r].pc = "idle"
    /\ \/ /\ c \notin ActiveConsultants
          /\ Reply(r, "OUT_OF_SCOPE")
          /\ UNCHANGED blocks
       \/ /\ c \in ActiveConsultants /\ Owned(id, c) = {}
          /\ Reply(r, "BLOCK_NOT_FOUND")
          /\ UNCHANGED blocks
       \/ /\ c \in ActiveConsultants /\ Owned(id, c) # {}
          /\ blocks' = blocks \ Owned(id, c)
          /\ Reply(r, "ok")
    /\ UNCHANGED drawn

-----------------------------------------------------------------------------
Init ==
    /\ blocks = Published
    /\ edit = [r \in Editors |-> Idle]
    /\ drawn = {k.id : k \in Published}

Arrive(r) ==
    \E c \in Consultants :
      \/ \E t \in Tenants, s, e \in Instants :
           BeginPublish(r, c, [tenant |-> t, start |-> s, end |-> e])
      \/ \E id \in BlockIds :
           \/ \E p \in Patch : BeginUpdate(r, c, id, p)
           \/ Delete(r, c, id)

Advance(r) == Publish(r) \/ CheckOverlap(r) \/ Update(r)

Next == \E r \in Editors : Arrive(r) \/ Advance(r)

Spec == Init /\ [][Next]_vars

-----------------------------------------------------------------------------
(* Properties *)

\* Blocks, requests and drawn ids keep their shapes.
TypeOK ==
    /\ blocks \subseteq Block
    /\ edit \in [Editors -> Edit]
    /\ drawn \subseteq BlockIds

\* However patches of one block interleave, what is stored is one block per id,
\* not empty, of an active consultant and for a tenant that consultant may serve.
BlocksStayValid ==
    /\ \A k \in blocks : /\ k.start < k.end
                          /\ k.consultant \in ActiveConsultants
                          /\ k.tenant \in Serves[k.consultant]
    /\ \A j, k \in blocks : j.id = k.id => j = k

\* Two blocks of one consultant never overlap, whatever tenants they are for.
BlocksDisjoint ==
    \A j, k \in blocks :
        j.consultant = k.consultant /\ j.id # k.id =>
            j.end <= k.start \/ k.end <= j.start

Awaited(id) == \E r \in Editors : edit[r].pc = "publish" /\ edit[r].id = id

Present(id) == \E k \in blocks : k.id = id

\* The requests in flight carry what they validated: a window their consultant
\* may publish and, before a publication, an id nobody else will use.
EditsSound ==
    \A r \in Editors :
        edit[r].pc # "idle" =>
          /\ edit[r].consultant \in ActiveConsultants
          /\ edit[r].id \in BlockIds
          /\ edit[r].next \in Window
          /\ AllowedWindow(edit[r].consultant, edit[r].next)
          /\ edit[r].pc = "publish" =>
               /\ edit[r].id \in drawn /\ ~Present(edit[r].id)
               /\ \A s \in Editors :
                    edit[s].pc = "publish" /\ edit[s].id = edit[r].id => s = r

\* Inductive: it is what AvailabilityProofs rests on.
IInv ==
    /\ TypeOK
    /\ BlocksStayValid
    /\ \A k \in blocks : k.id \in drawn
    /\ EditsSound

\* A deleted block does not come back: not by an update that had read it
\* before, nor by an id that is drawn again.
DeletedStaysDeleted ==
    [][\A id \in drawn : ~Present(id) /\ ~Awaited(id) => ~Present(id)']_vars

\* An update changes no field the patch does not name, nor any other block.
PatchKeepsTheRest ==
    [][\A r \in Editors :
         edit[r].pc = "update" /\ edit'[r].reply = "ok" =>
           \A k \in blocks, n \in blocks' :
             k.id = n.id =>
               \/ n = k
               \/ /\ k.id = edit[r].id
                  /\ edit[r].patch.tenant = None => n.tenant = k.tenant
                  /\ edit[r].patch.start = None => n.start = k.start
                  /\ edit[r].patch.end = None => n.end = k.end]_vars

=============================================================================
