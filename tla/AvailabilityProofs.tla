------------------------- MODULE AvailabilityProofs -------------------------
(***************************************************************************)
(* What Availability promises for any number of requests, blocks and       *)
(* instants: published blocks stay valid whatever patches interleave, a    *)
(* deleted block does not come back; and, of requests that keep out of     *)
(* each other's way, that blocks stay apart and patches keep the rest.     *)
(***************************************************************************)
EXTENDS Availability, TLAPS

-----------------------------------------------------------------------------
(* Typing of the pieces *)

LEMMA ConstantsTyped ==
    /\ ActiveConsultants \subseteq Consultants
    /\ Published \subseteq Block
    /\ None \notin BlockIds /\ None \notin Consultants
BY AvailabilityAssumption

LEMMA IdleTyped == Idle \in Edit
BY DEF Idle, Edit, NoPatch, Patch, Codes

LEMMA ReplyTyped ==
    ASSUME TypeOK, NEW r \in Editors, NEW code \in Codes, Reply(r, code)
    PROVE  edit' \in [Editors -> Edit]
BY IdleTyped DEF TypeOK, Reply, Edit, Idle

LEMMA BlockTyped ==
    ASSUME NEW id \in BlockIds, NEW c \in Consultants, NEW w \in Window
    PROVE  /\ BlockOf(id, c, w) \in Block
           /\ BlockOf(id, c, w).id = id
           /\ BlockOf(id, c, w).consultant = c
           /\ BlockOf(id, c, w).tenant = w.tenant
           /\ BlockOf(id, c, w).start = w.start
           /\ BlockOf(id, c, w).end = w.end
BY DEF BlockOf, Block, Window

\* What is filled in from a stored block is a window again.
LEMMA MergeTyped ==
    ASSUME NEW k \in Block, NEW p \in Patch
    PROVE  Merge(k, p) \in Window
BY AvailabilityAssumption DEF Merge, Window, Block, Patch

-----------------------------------------------------------------------------
(* Steps that leave the blocks alone *)

\* A request that answers: the invariant needs nothing of it any more.
LEMMA ReplyStep ==
    ASSUME IInv, NEW r \in Editors, NEW code \in Codes, Reply(r, code),
           UNCHANGED <<blocks, drawn>>
    PROVE  IInv'
<1>1. TypeOK'
  BY ReplyTyped DEF IInv, TypeOK
<1>2. \A s \in Editors : edit'[s] = IF s = r THEN [Idle EXCEPT !.reply = code] ELSE edit[s]
  BY DEF IInv, TypeOK, Reply
<1>3. edit'[r].pc = "idle"
  BY <1>2 DEF Idle
<1>4. EditsSound'
  BY <1>2, <1>3 DEF IInv, EditsSound, Present, AllowedWindow
<1> QED
  BY <1>1, <1>4 DEF IInv, BlocksStayValid

LEMMA BeginPublishStep ==
    ASSUME IInv, NEW r \in Editors, NEW c \in Consultants, NEW w \in Window,
           BeginPublish(r, c, w)
    PROVE  IInv'
<1>1. CASE UNCHANGED drawn /\ \E code \in Codes : Reply(r, code)
  BY <1>1, ReplyStep DEF BeginPublish
<1>2. CASE \E id \in BlockIds \ drawn :
             /\ c \in ActiveConsultants /\ AllowedWindow(c, w)
             /\ drawn' = drawn \cup {id}
             /\ edit' = [edit EXCEPT ![r] =
                  [Idle EXCEPT !.pc = "publish", !.consultant = c, !.id = id, !.next = w]]
  <2>1. PICK id \in BlockIds \ drawn :
             /\ c \in ActiveConsultants /\ AllowedWindow(c, w)
             /\ drawn' = drawn \cup {id}
             /\ edit' = [edit EXCEPT ![r] =
                  [Idle EXCEPT !.pc = "publish", !.consultant = c, !.id = id, !.next = w]]
    BY <1>2
  <2> DEFINE new == [Idle EXCEPT !.pc = "publish", !.consultant = c, !.id = id, !.next = w]
  <2>2. /\ new \in Edit
        /\ new.pc = "publish" /\ new.consultant = c /\ new.id = id /\ new.next = w
    BY IdleTyped DEF Edit, Idle
  <2>3. blocks' = blocks
    BY DEF BeginPublish
  <2> HIDE DEF new
  <2>4. \A s \in Editors : edit'[s] = IF s = r THEN new ELSE edit[s]
    BY <2>1 DEF IInv, TypeOK, new
  <2>5. TypeOK'
    BY <2>1, <2>2, <2>3 DEF IInv, TypeOK, new
  <2>6. ~Present(id) /\ \A s \in Editors : edit[s].pc = "publish" => edit[s].id # id
    BY <2>1 DEF IInv, EditsSound, Present
  <2>7. EditsSound'
    <3> SUFFICES ASSUME NEW s \in Editors, edit'[s].pc # "idle"
                 PROVE  /\ edit'[s].consultant \in ActiveConsultants
                        /\ edit'[s].id \in BlockIds
                        /\ edit'[s].next \in Window
                        /\ AllowedWindow(edit'[s].consultant, edit'[s].next)
                        /\ edit'[s].pc = "publish" =>
                             /\ edit'[s].id \in drawn'
                             /\ ~\E k \in blocks' : k.id = edit'[s].id
                             /\ \A u \in Editors :
                                  edit'[u].pc = "publish" /\ edit'[u].id = edit'[s].id => u = s
      BY DEF EditsSound, AllowedWindow, Present
    <3>1. CASE s = r
      BY <2>1, <2>2, <2>3, <2>4, <2>6, <3>1 DEF Present
    <3>2. CASE s # r
      BY <2>1, <2>2, <2>3, <2>4, <2>6, <3>2 DEF IInv, EditsSound, Present
    <3> QED
      BY <3>1, <3>2
  <2> QED
    BY <2>1, <2>3, <2>5, <2>7 DEF IInv, BlocksStayValid
<1> QED
  BY <1>1, <1>2 DEF BeginPublish, Codes

LEMMA BeginUpdateStep ==
    ASSUME IInv, NEW r \in Editors, NEW c \in Consultants, NEW id \in BlockIds,
           NEW p \in Patch, BeginUpdate(r, c, id, p)
    PROVE  IInv'
<1>0. UNCHANGED <<blocks, drawn>>
  BY DEF BeginUpdate
<1>1. CASE \E code \in Codes : Reply(r, code)
  BY <1>0, <1>1, ReplyStep
<1>2. CASE \E k \in Owned(id, c) :
             /\ c \in ActiveConsultants /\ AllowedWindow(c, Merge(k, p))
             /\ edit' = [edit EXCEPT ![r] =
                  [Idle EXCEPT !.pc = "check", !.consultant = c,
                               !.id = id, !.patch = p, !.next = Merge(k, p)]]
  <2>1. PICK k \in Owned(id, c) :
             /\ c \in ActiveConsultants /\ AllowedWindow(c, Merge(k, p))
             /\ edit' = [edit EXCEPT ![r] =
                  [Idle EXCEPT !.pc = "check", !.consultant = c,
                               !.id = id, !.patch = p, !.next = Merge(k, p)]]
    BY <1>2
  <2>2. PICK w : w = Merge(k, p)
    OBVIOUS
  <2>3. w \in Window
    BY <2>2, MergeTyped DEF IInv, TypeOK, Owned
  <2> DEFINE new == [Idle EXCEPT !.pc = "check", !.consultant = c,
                                 !.id = id, !.patch = p, !.next = w]
  <2>4. /\ new \in Edit
        /\ new.pc = "check" /\ new.consultant = c /\ new.id = id /\ new.next = w
    BY <2>3, IdleTyped DEF Edit, Idle
  <2>5. edit' = [edit EXCEPT ![r] = new]
    BY <2>1, <2>2
  <2> HIDE DEF new
  <2>6. \A s \in Editors : edit'[s] = IF s = r THEN new ELSE edit[s]
    BY <2>5 DEF IInv, TypeOK
  <2>7. TypeOK'
    BY <1>0, <2>4, <2>5 DEF IInv, TypeOK
  <2>8. EditsSound'
    BY <1>0, <2>1, <2>2, <2>3, <2>4, <2>6 DEF IInv, EditsSound, Present, AllowedWindow
  <2> QED
    BY <1>0, <2>7, <2>8 DEF IInv, BlocksStayValid
<1> QED
  BY <1>1, <1>2 DEF BeginUpdate, Codes

LEMMA CheckOverlapStep ==
    ASSUME IInv, NEW r \in Editors, CheckOverlap(r)
    PROVE  IInv'
<1>0. UNCHANGED <<blocks, drawn>>
  BY DEF CheckOverlap
<1>1. CASE Reply(r, "AVAILABILITY_OVERLAP")
  BY <1>0, <1>1, ReplyStep DEF Codes
<1>2. CASE edit' = [edit EXCEPT ![r].pc = "update"]
  <2>1. edit[r].pc = "check"
    BY DEF CheckOverlap
  <2>2. TypeOK'
    BY <1>0, <1>2 DEF IInv, TypeOK, Edit
  <2>3. \A s \in Editors : /\ edit'[s].consultant = edit[s].consultant
                           /\ edit'[s].id = edit[s].id
                           /\ edit'[s].next = edit[s].next
                           /\ edit'[s].pc = IF s = r THEN "update" ELSE edit[s].pc
    BY <1>2 DEF IInv, TypeOK, Edit
  <2>4. EditsSound'
    BY <1>0, <2>1, <2>3 DEF IInv, EditsSound, Present, AllowedWindow
  <2> QED
    BY <1>0, <2>2, <2>4 DEF IInv, BlocksStayValid
<1> QED
  BY <1>1, <1>2 DEF CheckOverlap

-----------------------------------------------------------------------------
(* Steps that write *)

LEMMA PublishStep ==
    ASSUME IInv, NEW r \in Editors, Publish(r)
    PROVE  IInv'
<1> DEFINE q == edit[r]
           n == BlockOf(q.id, q.consultant, q.next)
<1>1. /\ q.pc = "publish" /\ q.id \in BlockIds
      /\ q.consultant \in Consultants /\ q.consultant \in ActiveConsultants
      /\ q.next \in Window /\ AllowedWindow(q.consultant, q.next)
      /\ q.id \in drawn /\ ~Present(q.id)
      /\ \A s \in Editors : edit[s].pc = "publish" /\ edit[s].id = q.id => s = r
  BY ConstantsTyped DEF IInv, EditsSound, Publish
<1>2. /\ n \in Block /\ n.id = q.id /\ n.consultant = q.consultant
      /\ n.tenant = q.next.tenant /\ n.start = q.next.start /\ n.end = q.next.end
  BY <1>1, BlockTyped
<1>3. blocks' = blocks \cup {n} /\ drawn' = drawn /\ Reply(r, "ok")
  BY DEF Publish
<1> HIDE DEF n, q
<1>4. TypeOK'
  BY <1>2, <1>3, ReplyTyped DEF IInv, TypeOK, Codes
<1>5. BlocksStayValid'
  BY <1>1, <1>2, <1>3 DEF IInv, BlocksStayValid, Present, AllowedWindow
<1>6. \A s \in Editors : edit'[s] = IF s = r THEN [Idle EXCEPT !.reply = "ok"] ELSE edit[s]
  BY <1>3 DEF IInv, TypeOK, Reply
<1>7. edit'[r].pc = "idle"
  BY <1>6 DEF Idle
<1>8. EditsSound'
  BY <1>1, <1>2, <1>3, <1>6, <1>7 DEF IInv, EditsSound, Present, AllowedWindow
<1>9. (\A k \in blocks : k.id \in drawn)'
  BY <1>1, <1>2, <1>3 DEF IInv
<1> QED
  BY <1>4, <1>5, <1>8, <1>9 DEF IInv

LEMMA UpdateStep ==
    ASSUME IInv, NEW r \in Editors, Update(r)
    PROVE  IInv'
<1>1. CASE Reply(r, "BLOCK_NOT_FOUND") /\ UNCHANGED blocks
  BY <1>1, ReplyStep DEF Update, Codes
<1>2. CASE Owned(edit[r].id, edit[r].consultant) # {}
  <2> DEFINE q == edit[r]
             n == BlockOf(q.id, q.consultant, q.next)
  <2>1. /\ q.id \in BlockIds
        /\ q.consultant \in Consultants /\ q.consultant \in ActiveConsultants
        /\ q.next \in Window /\ AllowedWindow(q.consultant, q.next)
    BY ConstantsTyped DEF IInv, EditsSound, Update
  <2>2. /\ n \in Block /\ n.id = q.id /\ n.consultant = q.consultant
        /\ n.tenant = q.next.tenant /\ n.start = q.next.start /\ n.end = q.next.end
    BY <2>1, BlockTyped
  <2>3. /\ blocks' = (blocks \ Owned(q.id, q.consultant)) \cup {n}
        /\ drawn' = drawn /\ Reply(r, "ok")
    BY <1>2 DEF Update
  <2>4. PICK k \in blocks : k.id = q.id /\ k.consultant = q.consultant
    BY <1>2 DEF Owned
  <2> HIDE DEF n, q
  <2>5. \A j \in blocks' : j = n \/ (j \in blocks /\ j.id # q.id)
    BY <2>3, <2>4 DEF IInv, BlocksStayValid, Owned
  <2>6. TypeOK'
    BY <2>2, <2>3, ReplyTyped DEF IInv, TypeOK, Codes
  <2>7. BlocksStayValid'
    BY <2>1, <2>2, <2>5 DEF IInv, BlocksStayValid, AllowedWindow
  <2>8. \A s \in Editors : edit'[s] = IF s = r THEN [Idle EXCEPT !.reply = "ok"] ELSE edit[s]
    BY <2>3 DEF IInv, TypeOK, Reply
  <2>9. edit'[r].pc = "idle"
    BY <2>8 DEF Idle
  <2>10. \A id : Present(id)' => Present(id)
    BY <2>2, <2>4, <2>5 DEF Present
  <2>11. EditsSound'
    BY <2>3, <2>8, <2>9, <2>10 DEF IInv, EditsSound, AllowedWindow
  <2>12. (\A j \in blocks : j.id \in drawn)'
    BY <2>2, <2>3, <2>4, <2>5 DEF IInv
  <2> QED
    BY <2>6, <2>7, <2>11, <2>12 DEF IInv
<1> QED
  BY <1>1, <1>2 DEF Update

LEMMA DeleteStep ==
    ASSUME IInv, NEW r \in Editors, NEW c \in Consultants, NEW id \in BlockIds,
           Delete(r, c, id)
    PROVE  IInv'
<1>1. CASE UNCHANGED blocks /\ \E code \in Codes : Reply(r, code)
  BY <1>1, ReplyStep DEF Delete
<1>2. CASE blocks' = blocks \ Owned(id, c) /\ Reply(r, "ok")
  <2>1. drawn' = drawn /\ blocks' \subseteq blocks
    BY <1>2 DEF Delete
  <2>2. TypeOK'
    BY <1>2, <2>1, ReplyTyped DEF IInv, TypeOK, Codes
  <2>3. BlocksStayValid'
    BY <2>1 DEF IInv, BlocksStayValid
  <2>4. \A s \in Editors : edit'[s] = IF s = r THEN [Idle EXCEPT !.reply = "ok"] ELSE edit[s]
    BY <1>2 DEF IInv, TypeOK, Reply
  <2>5. edit'[r].pc = "idle"
    BY <2>4 DEF Idle
  <2>6. EditsSound'
    BY <2>1, <2>4, <2>5 DEF IInv, EditsSound, Present, AllowedWindow
  <2> QED
    BY <2>1, <2>2, <2>3, <2>6 DEF IInv
<1> QED
  BY <1>1, <1>2 DEF Delete, Codes

-----------------------------------------------------------------------------
(* The invariant *)

LEMMA InitIInv == Init => IInv
<1> SUFFICES ASSUME Init PROVE IInv
  OBVIOUS
<1>1. TypeOK
  BY IdleTyped, ConstantsTyped DEF Init, TypeOK, Block
<1>2. BlocksStayValid
  BY AvailabilityAssumption DEF Init, BlocksStayValid
<1>3. EditsSound
  BY DEF Init, EditsSound, Idle
<1> QED
  BY <1>1, <1>2, <1>3 DEF IInv, Init

LEMMA WindowTyped ==
    ASSUME NEW t \in Tenants, NEW s \in Instants, NEW e \in Instants
    PROVE  [tenant |-> t, start |-> s, end |-> e] \in Window
BY AvailabilityAssumption DEF Window

LEMMA StepIInv == IInv /\ [Next]_vars => IInv'
<1> SUFFICES ASSUME IInv, [Next]_vars PROVE IInv'
  OBVIOUS
<1>1. CASE UNCHANGED vars
  BY <1>1 DEF IInv, TypeOK, BlocksStayValid, EditsSound, AllowedWindow, Present, vars
<1>2. CASE \E r \in Editors : Arrive(r)
  <2>1. PICK r \in Editors : Arrive(r)
    BY <1>2
  <2>2. PICK c \in Consultants :
          \/ \E t \in Tenants, s, e \in Instants :
               BeginPublish(r, c, [tenant |-> t, start |-> s, end |-> e])
          \/ \E id \in BlockIds :
               \/ \E p \in Patch : BeginUpdate(r, c, id, p)
               \/ Delete(r, c, id)
    BY <2>1 DEF Arrive
  <2> QED
    BY <2>2, WindowTyped, BeginPublishStep, BeginUpdateStep, DeleteStep
<1>3. CASE \E r \in Editors : Advance(r)
  BY <1>3, PublishStep, CheckOverlapStep, UpdateStep DEF Advance
<1> QED
  BY <1>1, <1>2, <1>3 DEF Next

-----------------------------------------------------------------------------
\* Blocks, requests and drawn ids keep their shapes, for any constants.
THEOREM TypeCorrect == Spec => []TypeOK
<1>1. IInv => TypeOK
  BY DEF IInv
<1> QED
  BY <1>1, InitIInv, StepIInv, PTL DEF Spec

\* updateAvailabilityBlock sets tenant, start and end together: racing patches
\* of one block never store an empty window, nor a tenant out of scope.
THEOREM BlocksAreValid == Spec => []BlocksStayValid
<1>1. IInv => BlocksStayValid
  BY DEF IInv
<1> QED
  BY <1>1, InitIInv, StepIInv, PTL DEF Spec

\* A step puts an id back into the collection only to publish it.
LEMMA KeptAway ==
    ASSUME IInv, Next, NEW id \in drawn, ~Present(id), ~Awaited(id)
    PROVE  ~Present(id)'
<1>1. PICK r \in Editors : Arrive(r) \/ Advance(r)
  BY DEF Next
<1>2. CASE Arrive(r)
  <2>1. blocks' \subseteq blocks
    <3>1. ASSUME NEW c \in Consultants, NEW w, BeginPublish(r, c, w)
          PROVE  blocks' = blocks
      BY <3>1 DEF BeginPublish
    <3>2. ASSUME NEW c \in Consultants, NEW k, NEW p, BeginUpdate(r, c, k, p)
          PROVE  blocks' = blocks
      BY <3>2 DEF BeginUpdate
    <3>3. ASSUME NEW c \in Consultants, NEW k, Delete(r, c, k)
          PROVE  blocks' \subseteq blocks
      BY <3>3 DEF Delete
    <3> QED
      BY <1>2, <3>1, <3>2, <3>3 DEF Arrive
  <2> QED
    BY <2>1 DEF Present
<1>3. CASE Publish(r)
  <2>1. edit[r].pc = "publish" /\ edit[r].id # id
    BY <1>3 DEF Publish, Awaited
  <2>2. \A k \in blocks' : k \in blocks \/ k.id = edit[r].id
    BY <1>3 DEF Publish, BlockOf
  <2> QED
    BY <2>1, <2>2 DEF Present
<1>4. CASE CheckOverlap(r)
  BY <1>4 DEF CheckOverlap, Present
<1>5. CASE Update(r)
  <2>1. CASE Owned(edit[r].id, edit[r].consultant) = {}
    BY <1>5, <2>1 DEF Update, Present
  <2>2. CASE Owned(edit[r].id, edit[r].consultant) # {}
    <3>1. edit[r].id # id
      BY <2>2 DEF Owned, Present
    <3>2. \A k \in blocks' : k \in blocks \/ k.id = edit[r].id
      BY <1>5, <2>2 DEF Update, BlockOf
    <3> QED
      BY <3>1, <3>2 DEF Present
  <2> QED
    BY <2>1, <2>2
<1> QED
  BY <1>1, <1>2, <1>3, <1>4, <1>5 DEF Advance

\* deleteAvailabilityBlock against updates and publications in flight: what was
\* deleted does not come back.
THEOREM DeletedIsGone == Spec => DeletedStaysDeleted
<1>1. IInv /\ [Next]_vars =>
        [\A id \in drawn : ~Present(id) /\ ~Awaited(id) => ~Present(id)']_vars
  BY KeptAway
<1> QED
  BY <1>1, InitIInv, StepIInv, PTL DEF Spec, DeletedStaysDeleted

-----------------------------------------------------------------------------
(* Requests that keep out of each other's way *)

\* One request at a time writes to the blocks of a consultant on the answer of an
\* overlap query.
OneWriter ==
    \A r, s \in Editors :
        /\ edit[r].pc \in {"publish", "update"} /\ edit[s].pc \in {"publish", "update"}
        /\ edit[r].consultant = edit[s].consultant
        => r = s

\* Nobody is about to write to a block that another update has read.
OnePatcher ==
    \A r, s \in Editors :
        /\ edit[r].pc \in {"check", "update"} /\ edit[s].pc = "update"
        /\ edit[r].id = edit[s].id
        => r = s

\* What the overlap query has answered is still so when the write comes.
PlaceFree(q) ==
    /\ q.pc = "publish" => ~Overlap(q.consultant, q.next, None)
    /\ q.pc = "update" => ~Overlap(q.consultant, q.next, q.id)

PlacesFree == \A r \in Editors : PlaceFree(edit[r])

\* What the patch leaves out is as it was read.
PatchFits(q) ==
    q.pc \in {"check", "update"} =>
      \A k \in blocks :
        k.id = q.id => /\ q.patch.tenant = None => q.next.tenant = k.tenant
                       /\ q.patch.start = None => q.next.start = k.start
                       /\ q.patch.end = None => q.next.end = k.end

\* An update has not answered, and its block has been there.
PatchOfBlock(q) ==
    q.pc \in {"check", "update"} => q.reply = "none" /\ q.id \in drawn /\ ~Awaited(q.id)

PatchesFit == \A r \in Editors : PatchFits(edit[r]) /\ PatchOfBlock(edit[r])

\* What a step does to the blocks, and to the request that takes it.
Writes(r, n) ==
    \/ edit[r].pc = "publish" /\ blocks' = blocks \cup {n}
    \/ edit[r].pc = "update"
       /\ blocks' = (blocks \ Owned(edit[r].id, edit[r].consultant)) \cup {n}

Written(r) == BlockOf(edit[r].id, edit[r].consultant, edit[r].next)

LEMMA BlocksMove ==
    ASSUME NEW r \in Editors, Arrive(r) \/ Advance(r)
    PROVE  blocks' \subseteq blocks \/ Writes(r, Written(r))
<1>1. \A c, w : BeginPublish(r, c, w) => UNCHANGED blocks
  BY DEF BeginPublish
<1>2. \A c, id, p : BeginUpdate(r, c, id, p) => UNCHANGED blocks
  BY DEF BeginUpdate
<1>3. \A c, id : Delete(r, c, id) => blocks' \subseteq blocks
  BY DEF Delete
<1>4. Advance(r) => UNCHANGED blocks \/ Writes(r, Written(r))
  BY DEF Advance, Publish, CheckOverlap, Update, Writes, Written
<1> QED
  BY <1>1, <1>2, <1>3, <1>4 DEF Arrive

\* A request answers, or publishes, or reads the block it updates, or finds its place.
Answers(r) == edit'[r].pc = "idle"

Publishes(r) ==
    \E c \in Consultants, w \in Window, id \in BlockIds \ drawn :
        /\ ~Overlap(c, w, None) /\ UNCHANGED blocks
        /\ drawn' = drawn \cup {id}
        /\ edit'[r] = [Idle EXCEPT !.pc = "publish", !.consultant = c, !.id = id, !.next = w]

ReadsBlock(r) ==
    /\ UNCHANGED <<blocks, drawn>>
    /\ \E c \in Consultants, id \in BlockIds, p \in Patch :
         \E k \in Owned(id, c) :
           edit'[r] = [Idle EXCEPT !.pc = "check", !.consultant = c, !.id = id,
                                   !.patch = p, !.next = Merge(k, p)]

FindsPlace(r) ==
    /\ edit[r].pc = "check" /\ ~Overlap(edit[r].consultant, edit[r].next, edit[r].id)
    /\ UNCHANGED <<blocks, drawn>>
    /\ edit'[r] = [edit[r] EXCEPT !.pc = "update"]

LEMMA EditMoves ==
    ASSUME IInv, NEW r \in Editors, Arrive(r) \/ Advance(r)
    PROVE  /\ \A s \in Editors : s # r => edit'[s] = edit[s]
           /\ \/ Answers(r) /\ UNCHANGED drawn
              \/ Publishes(r) \/ ReadsBlock(r) \/ FindsPlace(r)
<1> DEFINE Others == \A s \in Editors : s # r => edit'[s] = edit[s]
           Goal == /\ Others
                   /\ \/ Answers(r) /\ UNCHANGED drawn
                      \/ Publishes(r) \/ ReadsBlock(r) \/ FindsPlace(r)
<1>0. edit \in [Editors -> Edit]
  BY DEF IInv, TypeOK
<1>1. \A q : edit' = [edit EXCEPT ![r] = q] => Others /\ edit'[r] = q
  BY <1>0
<1>2. ASSUME NEW code, Reply(r, code)
      PROVE  Others /\ Answers(r)
  BY <1>1, <1>2 DEF Reply, Answers, Idle
<1>3. ASSUME NEW c \in Consultants, NEW w \in Window, BeginPublish(r, c, w)
      PROVE  Goal
  <2>1. CASE UNCHANGED drawn /\ \E code : Reply(r, code)
    BY <1>2, <2>1
  <2>2. CASE \E id \in BlockIds \ drawn :
               /\ ~Overlap(c, w, None)
               /\ drawn' = drawn \cup {id}
               /\ edit' = [edit EXCEPT ![r] =
                    [Idle EXCEPT !.pc = "publish", !.consultant = c, !.id = id, !.next = w]]
    <3>1. PICK id \in BlockIds \ drawn :
               /\ ~Overlap(c, w, None)
               /\ drawn' = drawn \cup {id}
               /\ edit' = [edit EXCEPT ![r] =
                    [Idle EXCEPT !.pc = "publish", !.consultant = c, !.id = id, !.next = w]]
      BY <2>2
    <3>2. /\ Others
          /\ edit'[r] = [Idle EXCEPT !.pc = "publish", !.consultant = c, !.id = id, !.next = w]
      BY <1>1, <3>1
    <3>3. UNCHANGED blocks
      BY <1>3 DEF BeginPublish
    <3>4. Publishes(r)
      BY <3>1, <3>2, <3>3, Zenon DEF Publishes
    <3> QED
      BY <3>2, <3>4
  <2> QED
    BY <1>3, <2>1, <2>2 DEF BeginPublish
<1>4. ASSUME NEW c \in Consultants, NEW id \in BlockIds, NEW p \in Patch, BeginUpdate(r, c, id, p)
      PROVE  Goal
  <2>1. UNCHANGED <<blocks, drawn>>
    BY <1>4 DEF BeginUpdate
  <2>2. CASE \E code : Reply(r, code)
    BY <1>2, <2>1, <2>2
  <2>3. CASE \E k \in Owned(id, c) :
               edit' = [edit EXCEPT ![r] =
                 [Idle EXCEPT !.pc = "check", !.consultant = c, !.id = id,
                              !.patch = p, !.next = Merge(k, p)]]
    <3>1. PICK k \in Owned(id, c) :
               edit' = [edit EXCEPT ![r] =
                 [Idle EXCEPT !.pc = "check", !.consultant = c, !.id = id,
                              !.patch = p, !.next = Merge(k, p)]]
      BY <2>3
    <3>2. /\ Others
          /\ edit'[r] = [Idle EXCEPT !.pc = "check", !.consultant = c, !.id = id,
                                     !.patch = p, !.next = Merge(k, p)]
      BY <1>1, <3>1
    <3>3. \E j \in Owned(id, c) :
            edit'[r] = [Idle EXCEPT !.pc = "check", !.consultant = c, !.id = id,
                                    !.patch = p, !.next = Merge(j, p)]
      BY <3>2
    <3>4. ReadsBlock(r)
      BY <2>1, <3>3 DEF ReadsBlock
    <3> QED
      BY <3>2, <3>4
  <2> QED
    BY <1>4, <2>2, <2>3 DEF BeginUpdate
<1>5. ASSUME NEW c \in Consultants, NEW id \in BlockIds, Delete(r, c, id)
      PROVE  Goal
  BY <1>2, <1>5 DEF Delete
<1>6. CASE Publish(r) \/ Update(r)
  BY <1>2, <1>6 DEF Publish, Update
<1>7. CASE CheckOverlap(r)
  <2>1. UNCHANGED <<blocks, drawn>>
    BY <1>7 DEF CheckOverlap
  <2>2. CASE /\ ~Overlap(edit[r].consultant, edit[r].next, edit[r].id)
             /\ edit' = [edit EXCEPT ![r].pc = "update"]
    BY <1>1, <1>7, <2>1, <2>2 DEF CheckOverlap, FindsPlace
  <2> QED
    BY <1>2, <1>7, <2>1, <2>2 DEF CheckOverlap
<1> QED
  BY <1>3, <1>4, <1>5, <1>6, <1>7, WindowTyped DEF Arrive, Advance

\* What a write adds stands where its request found place.
LEMMA WrittenFields ==
    ASSUME IInv, NEW r \in Editors, edit[r].pc \in {"publish", "update"}
    PROVE  /\ Written(r).id = edit[r].id /\ Written(r).consultant = edit[r].consultant
           /\ Written(r).start = edit[r].next.start /\ Written(r).end = edit[r].next.end
           /\ Written(r).tenant = edit[r].next.tenant
BY DEF Written, BlockOf

LEMMA StepPlacesFree == IInv /\ OneWriter /\ PlacesFree /\ [Next]_vars => PlacesFree'
<1>1. UNCHANGED vars /\ PlacesFree => PlacesFree'
  BY DEF vars, PlacesFree, PlaceFree, Overlap
<1>2. ASSUME IInv, OneWriter, PlacesFree, NEW r \in Editors, Arrive(r) \/ Advance(r)
      PROVE  PlacesFree'
  <2> SUFFICES ASSUME NEW s \in Editors PROVE PlaceFree(edit[s])'
    BY DEF PlacesFree
  <2>q. PICK q : q = edit'[s]
    OBVIOUS
  <2>1. CASE s # r
    <3>1. q = edit[s] /\ PlaceFree(q)
      BY <1>2, <2>q, <2>1, EditMoves DEF PlacesFree
    <3>2. CASE blocks' \subseteq blocks
      BY <2>q, <3>1, <3>2 DEF PlaceFree, Overlap
    <3>3. CASE Writes(r, Written(r))
      <4>1. edit[r].pc \in {"publish", "update"}
        BY <3>3 DEF Writes
      <4>2. q.pc \in {"publish", "update"} => q.consultant # Written(r).consultant
        BY <1>2, <2>1, <3>1, <4>1, WrittenFields DEF OneWriter
      <4>3. \A k \in blocks' : k \in blocks \/ k = Written(r)
        BY <3>3 DEF Writes
      <4> QED
        BY <2>q, <3>1, <4>2, <4>3 DEF PlaceFree, Overlap
    <3> QED
      BY <1>2, <3>2, <3>3, BlocksMove
  <2>2. CASE s = r
    <3>1. CASE Answers(r)
      BY <2>2, <3>1 DEF Answers, PlaceFree
    <3>2. CASE Publishes(r)
      <4>1. PICK c \in Consultants, w \in Window, id \in BlockIds \ drawn :
              /\ ~Overlap(c, w, None) /\ UNCHANGED blocks
              /\ q = [Idle EXCEPT !.pc = "publish", !.consultant = c, !.id = id, !.next = w]
        BY <2>q, <2>2, <3>2 DEF Publishes
      <4>2. q.pc = "publish" /\ q.consultant = c /\ q.next = w
        BY <4>1 DEF Idle
      <4> QED
        BY <2>q, <4>1, <4>2 DEF PlaceFree, Overlap
    <3>3. CASE ReadsBlock(r)
      <4>1. q.pc = "check"
        BY <2>q, <2>2, <3>3 DEF ReadsBlock, Idle
      <4> QED
        BY <2>q, <4>1 DEF PlaceFree
    <3>4. CASE FindsPlace(r)
      <4>1. /\ q.pc = "update" /\ q.id = edit[r].id
            /\ q.consultant = edit[r].consultant /\ q.next = edit[r].next
        BY <1>2, <2>q, <2>2, <3>4 DEF FindsPlace, IInv, TypeOK, Edit
      <4> QED
        BY <2>q, <3>4, <4>1 DEF FindsPlace, PlaceFree, Overlap
    <3> QED
      BY <1>2, <3>1, <3>2, <3>3, <3>4, EditMoves
  <2> QED
    BY <2>1, <2>2
<1> QED
  BY <1>1, <1>2 DEF Next

LEMMA StepPatchesFit == IInv /\ OnePatcher /\ PatchesFit /\ [Next]_vars => PatchesFit'
<1>1. UNCHANGED vars /\ PatchesFit => PatchesFit'
  BY DEF vars, PatchesFit, PatchFits, PatchOfBlock, Awaited
<1>2. ASSUME IInv, OnePatcher, PatchesFit, NEW r \in Editors, Arrive(r) \/ Advance(r)
      PROVE  PatchesFit'
  <2>0. /\ edit \in [Editors -> Edit]
        /\ \A u \in Editors : edit[u].pc = "publish" => edit[u].id \in drawn /\ ~Present(edit[u].id)
        /\ \A k \in blocks : k.id \in drawn
        /\ \A j, k \in blocks : j.id = k.id => j = k
    BY <1>2 DEF IInv, TypeOK, EditsSound, BlocksStayValid
  <2>a. /\ drawn \subseteq drawn'
        /\ \A id \in drawn : Awaited(id)' => Awaited(id)
    <3>1. \A s \in Editors : s # r => edit'[s] = edit[s]
      BY <1>2, EditMoves
    <3>2. CASE Answers(r) /\ UNCHANGED drawn
      BY <3>1, <3>2 DEF Answers, Awaited
    <3>3. CASE Publishes(r)
      <4>1. PICK id \in BlockIds \ drawn :
              drawn' = drawn \cup {id} /\ edit'[r].id = id
        BY <3>3 DEF Publishes, Idle
      <4> QED
        BY <3>1, <4>1 DEF Awaited
    <3>4. CASE ReadsBlock(r)
      <4>1. edit'[r].pc = "check" /\ UNCHANGED drawn
        BY <3>4 DEF ReadsBlock, Idle
      <4> QED
        BY <3>1, <4>1 DEF Awaited
    <3>5. CASE FindsPlace(r)
      <4>1. edit'[r].pc = "update" /\ UNCHANGED drawn
        BY <2>0, <3>5 DEF FindsPlace, Edit
      <4> QED
        BY <3>1, <4>1 DEF Awaited
    <3> QED
      BY <1>2, <3>2, <3>3, <3>4, <3>5, EditMoves
  <2> SUFFICES ASSUME NEW s \in Editors PROVE (PatchFits(edit[s]) /\ PatchOfBlock(edit[s]))'
    BY DEF PatchesFit
  <2>q. PICK q : q = edit'[s]
    OBVIOUS
  <2> SUFFICES ASSUME q.pc \in {"check", "update"}
               PROVE  /\ q.reply = "none" /\ q.id \in drawn' /\ ~Awaited(q.id)'
                      /\ \A k \in blocks' :
                           k.id = q.id => /\ q.patch.tenant = None => q.next.tenant = k.tenant
                                          /\ q.patch.start = None => q.next.start = k.start
                                          /\ q.patch.end = None => q.next.end = k.end
    BY <2>q DEF PatchFits, PatchOfBlock, Awaited
  <2>1. CASE s # r
    <3>1. q = edit[s] /\ PatchFits(q) /\ PatchOfBlock(q)
      BY <1>2, <2>q, <2>1, EditMoves DEF PatchesFit
    <3>2. \A k \in blocks' : k.id = q.id => k \in blocks
      <4>1. CASE Writes(r, Written(r))
        <5>1. edit[r].pc \in {"publish", "update"}
          BY <4>1 DEF Writes
        <5>2. edit[r].id # q.id
          BY <1>2, <2>1, <3>1, <5>1 DEF OnePatcher, PatchOfBlock, Awaited
        <5> QED
          BY <1>2, <4>1, <5>1, <5>2, WrittenFields DEF Writes
      <4> QED
        BY <1>2, <4>1, BlocksMove
    <3> QED
      BY <2>a, <3>1, <3>2 DEF PatchFits, PatchOfBlock
  <2>2. CASE s = r
    <3>1. ~Answers(r)
      BY <2>q, <2>2 DEF Answers
    <3>2. ~Publishes(r)
      BY <2>q, <2>2 DEF Publishes, Idle
    <3>3. CASE ReadsBlock(r)
      <4>1. PICK c \in Consultants, id \in BlockIds, p \in Patch :
              \E k \in Owned(id, c) :
                edit'[r] = [Idle EXCEPT !.pc = "check", !.consultant = c, !.id = id,
                                        !.patch = p, !.next = Merge(k, p)]
        BY <3>3 DEF ReadsBlock
      <4>2. PICK k \in Owned(id, c) :
                edit'[r] = [Idle EXCEPT !.pc = "check", !.consultant = c, !.id = id,
                                        !.patch = p, !.next = Merge(k, p)]
        BY <4>1
      <4>3. q.id = id /\ q.patch = p /\ q.next = Merge(k, p) /\ q.reply = "none"
        BY <2>q, <2>2, <4>2 DEF Idle
      <4>4. k \in blocks /\ k.id = id
        BY DEF Owned
      <4>5. UNCHANGED <<blocks, drawn>>
        BY <3>3 DEF ReadsBlock
      <4>6. \A j \in blocks' : j.id = id => j = k
        BY <2>0, <4>4, <4>5
      <4>7. id \in drawn /\ ~Awaited(id)
        BY <2>0, <4>4 DEF Awaited, Present
      <4> QED
        BY <2>a, <4>3, <4>6, <4>7 DEF Merge
    <3>4. CASE FindsPlace(r)
      <4>1. /\ edit[r].pc = "check" /\ UNCHANGED blocks
            /\ q.id = edit[r].id /\ q.patch = edit[r].patch /\ q.next = edit[r].next
            /\ q.reply = edit[r].reply
        BY <2>0, <2>q, <2>2, <3>4 DEF FindsPlace, Edit
      <4>2. PatchFits(edit[r]) /\ PatchOfBlock(edit[r])
        BY <1>2 DEF PatchesFit
      <4> QED
        BY <2>a, <4>1, <4>2 DEF PatchFits, PatchOfBlock
    <3> QED
      BY <1>2, <3>1, <3>2, <3>3, <3>4, EditMoves
  <2> QED
    BY <2>1, <2>2
<1> QED
  BY <1>1, <1>2 DEF Next

\* A write that finds its place free keeps the blocks apart.
LEMMA StepDisjoint ==
    ASSUME IInv, PlacesFree, BlocksDisjoint, [Next]_vars
    PROVE  BlocksDisjoint'
<1>1. blocks' \subseteq blocks => BlocksDisjoint'
  BY DEF BlocksDisjoint
<1>2. ASSUME NEW r \in Editors, Publish(r) \/ Update(r)
      PROVE  BlocksDisjoint'
  <2> DEFINE q == edit[r]
             n == BlockOf(q.id, q.consultant, q.next)
  <2>1. /\ n \in Block /\ n.id = q.id /\ n.consultant = q.consultant
        /\ n.start = q.next.start /\ n.end = q.next.end
        /\ q.next \in Window /\ q.id \in BlockIds
    BY <1>2, BlockTyped, ConstantsTyped DEF IInv, EditsSound, Publish, Update
  <2>2. blocks \subseteq Block
    BY DEF IInv, TypeOK
  <2>3. \A k \in blocks : k.id # q.id /\ k.consultant = q.consultant =>
                            q.next.end <= k.start \/ k.end <= q.next.start
    BY <1>2, <2>1, <2>2, ConstantsTyped
       DEF Publish, Update, PlacesFree, PlaceFree, Overlap, Block, Window
  <2>4. \A k \in blocks' : k = n \/ k \in blocks
    BY <1>2 DEF Publish, Update
  <2> HIDE DEF n
  <2> QED
    BY <2>1, <2>3, <2>4 DEF BlocksDisjoint
<1>3. ASSUME NEW r \in Editors, Arrive(r) \/ CheckOverlap(r)
      PROVE  blocks' \subseteq blocks
  <2>1. \A c, w : BeginPublish(r, c, w) => UNCHANGED blocks
    BY DEF BeginPublish
  <2>2. \A c, id, p : BeginUpdate(r, c, id, p) => UNCHANGED blocks
    BY DEF BeginUpdate
  <2>3. \A c, id : Delete(r, c, id) => blocks' \subseteq blocks
    BY DEF Delete
  <2> QED
    BY <1>3, <2>1, <2>2, <2>3 DEF Arrive, CheckOverlap
<1> QED
  BY <1>1, <1>2, <1>3 DEF Next, Advance, vars

LEMMA InitUndisturbed == Init => PlacesFree /\ PatchesFit
<1> SUFFICES ASSUME Init PROVE PlacesFree /\ PatchesFit
  OBVIOUS
<1>1. \A r \in Editors : edit[r].pc = "idle"
  BY DEF Init, Idle
<1> QED
  BY <1>1 DEF PlacesFree, PlaceFree, PatchesFit, PatchFits, PatchOfBlock

\* An update that succeeds writes what its patch says over the block it has read.
LEMMA PatchIsApplied ==
    ASSUME IInv, PatchesFit, [Next]_vars, NEW r \in Editors,
           edit[r].pc = "update", edit'[r].reply = "ok",
           NEW k \in blocks, NEW n \in blocks', k.id = n.id
    PROVE  \/ n = k
           \/ /\ k.id = edit[r].id
              /\ edit[r].patch.tenant = None => n.tenant = k.tenant
              /\ edit[r].patch.start = None => n.start = k.start
              /\ edit[r].patch.end = None => n.end = k.end
<1>1. \A j \in blocks : j.id = k.id => j = k
  BY DEF IInv, BlocksStayValid
<1>2. PatchFits(edit[r]) /\ edit[r].reply = "none"
  BY DEF PatchesFit, PatchOfBlock
<1>3. PICK s \in Editors : Arrive(s) \/ Advance(s)
  BY <1>2 DEF Next, vars
<1>4. s = r
  BY <1>2, <1>3, EditMoves
<1>5. CASE n \in blocks
  BY <1>1, <1>5
<1>6. CASE n \notin blocks
  <2>1. n = Written(r)
    BY <1>3, <1>4, <1>6, BlocksMove DEF Writes
  <2> QED
    BY <1>2, <2>1, WrittenFields DEF PatchFits
<1> QED
  BY <1>5, <1>6

=============================================================================
