-------------------------- MODULE SchedulingProofs --------------------------
(***************************************************************************)
(* The theorems of Booking and Availability hold of their composition, and *)
(* the listings, which read both collections, agree with the handlers that *)
(* write them, for every value of the constants.  What races can break is  *)
(* kept by requests that keep out of each other's way.                     *)
(***************************************************************************)
EXTENDS SchedulingInvariant, BookingProofs, FiniteSetTheorems

Publishing == INSTANCE AvailabilityProofs

Cutting == INSTANCE IntervalsProofs WITH Calls <- {}, call <- None, todo <- {}, free <- {}

-----------------------------------------------------------------------------
(* The two components *)

LEMMA AvailabilityFits == Publishing!AvailabilityAssumption
BY SchedulingAssumption, ConstantsAssumption DEF Publishing!Block

\* Availability, and the theory of it, speak of the same blocks.
LEMMA SameInit == Availability!Init <=> Publishing!Init
BY DEF Availability!Init, Publishing!Init, Availability!Idle, Publishing!Idle,
     Availability!NoPatch, Publishing!NoPatch

LEMMA SameIInv ==
    /\ Availability!IInv <=> Publishing!IInv
    /\ Availability!IInv' <=> Publishing!IInv'
BY DEF Availability!IInv, Publishing!IInv, Availability!TypeOK, Publishing!TypeOK,
     Availability!BlocksStayValid, Publishing!BlocksStayValid, Availability!EditsSound,
     Publishing!EditsSound, Availability!Present, Publishing!Present,
     Availability!AllowedWindow, Publishing!AllowedWindow, Availability!Block,
     Publishing!Block, Availability!Edit, Publishing!Edit, Availability!Window,
     Publishing!Window, Availability!Patch, Publishing!Patch, Availability!Codes,
     Publishing!Codes

LEMMA SameNext == Availability!Next <=> Publishing!Next
BY DEF Availability!Next, Publishing!Next, Availability!Arrive, Publishing!Arrive,
     Availability!Advance, Publishing!Advance, Availability!BeginPublish,
     Publishing!BeginPublish, Availability!BeginUpdate, Publishing!BeginUpdate,
     Availability!Delete, Publishing!Delete, Availability!Publish, Publishing!Publish,
     Availability!CheckOverlap, Publishing!CheckOverlap, Availability!Update,
     Publishing!Update, Availability!Reply, Publishing!Reply, Availability!Idle,
     Publishing!Idle, Availability!NoPatch, Publishing!NoPatch, Availability!Patch,
     Publishing!Patch, Availability!Owned, Publishing!Owned, Availability!Overlap,
     Publishing!Overlap, Availability!AllowedWindow, Publishing!AllowedWindow,
     Availability!Merge, Publishing!Merge, Availability!BlockOf, Publishing!BlockOf

LEMMA SameParts ==
    /\ Availability!TypeOK <=> Publishing!TypeOK
    /\ Availability!BlocksDisjoint <=> Publishing!BlocksDisjoint
BY DEF Availability!TypeOK, Publishing!TypeOK, Availability!Block, Publishing!Block,
     Availability!Edit, Publishing!Edit, Availability!Window, Publishing!Window,
     Availability!Patch, Publishing!Patch, Availability!Codes, Publishing!Codes,
     Availability!BlocksDisjoint, Publishing!BlocksDisjoint

\* Booking only reads the blocks.
LEMMA BlocksOnlyRead == [Next]_vars => UNCHANGED blocks
<1> SUFFICES ASSUME [Next]_vars PROVE UNCHANGED blocks
  OBVIOUS
<1>1. ASSUME NEW r \in Requests, Arrive(r)
      PROVE  UNCHANGED blocks
  BY <1>1 DEF Arrive, BeginCreate, BeginReschedule, BeginCancel, BeginAssign, Close
<1>2. ASSUME NEW r \in Requests, Advance(r)
      PROVE  UNCHANGED blocks
  <2>1. CASE Load(r) \/ Check(r) \/ Cancel(r) \/ Release(r)
    BY <2>1 DEF Load, Check, Cancel, Release
  <2>2. CASE Insert(r) \/ InsertDuplicate(r) \/ Record(r) \/ RecordDuplicate(r)
    BY <2>2 DEF Insert, InsertDuplicate, Record, RecordDuplicate
  <2>3. CASE Resolve(r) \/ Undo(r) \/ Recover(r) \/ Restore(r) \/ Claim(r) \/ WriteAudit(r)
    BY <2>3 DEF Resolve, Undo, Recover, Restore, Claim, WriteAudit
  <2> QED
    BY <1>2, <2>1, <2>2, <2>3 DEF Advance
<1>3. ASSUME NEW r \in Requests, Break(r)
      PROVE  UNCHANGED blocks
  BY <1>3 DEF Break, StorageError, LostAcknowledgement, Crash
<1>4. CASE Expire \/ Tick \/ UNCHANGED vars
  BY <1>4 DEF Expire, Tick, vars
<1> QED
  BY <1>1, <1>2, <1>3, <1>4 DEF Next

\* A step of the composition is a step of one component, and the other one does
\* not move.
LEMMA StepOfEach ==
    ASSUME [SchedulingNext]_schedulingVars
    PROVE  /\ [Publishing!Next]_(Publishing!vars)
           /\ \/ [Next]_vars
              \/ UNCHANGED <<bookings, idem, audit, req, now, faults, origin>>
           /\ ~[Next]_vars => Publishing!Next
<1>1. CASE Next /\ UNCHANGED <<edit, drawn>>
  BY <1>1, BlocksOnlyRead DEF Publishing!vars
<1>2. CASE Availability!Next /\ UNCHANGED <<bookings, idem, audit, req, now, faults, origin>>
  BY <1>2, SameNext
<1>3. CASE UNCHANGED schedulingVars
  BY <1>3 DEF schedulingVars, vars, Publishing!vars
<1> QED
  BY <1>1, <1>2, <1>3 DEF SchedulingNext

LEMMA AvailabilityKept ==
    ASSUME Availability!IInv, [SchedulingNext]_schedulingVars
    PROVE  Availability!IInv'
BY StepOfEach, SameIInv, AvailabilityFits, Publishing!StepIInv

\* Blocks that come and go leave the invariant of Booking alone.
LEMMA BookingKept ==
    ASSUME IInv, Availability!IInv, [SchedulingNext]_schedulingVars
    PROVE  IInv'
<1>1. CASE [Next]_vars
  BY <1>1, StepIInv
<1>2. CASE UNCHANGED <<bookings, idem, audit, req, now, faults, origin>>
  <2>1. blocks' \subseteq Block
    BY AvailabilityKept DEF Availability!IInv, Availability!TypeOK, Availability!Block, Block
  <2>2. TypeOK'
    BY <1>2, <2>1 DEF IInv, TypeOK
  <2>3. (RowsSound /\ SlotUnique /\ KeyLeadsHome /\ AuditSound /\ Exclusive)'
    BY <1>2 DEF IInv, RowsSound, SlotUnique, KeyLeadsHome, AuditSound, AuditTrue, Exists,
         Confirmed, Live, Exclusive, Holding
  <2>4. RequestsSound'
    BY <1>2 DEF IInv, RequestsSound, RequestSound, OpSound, ArgsSound, MadeSound, HeldSound,
         SnapshotSound, EntrySound, AuditTrue, Exists, Live, Drawn, Unrecorded, Holding, CallOf
  <2> QED
    BY <2>2, <2>3, <2>4 DEF IInv
<1> QED
  BY <1>1, <1>2, StepOfEach

LEMMA InitComposed == SchedulingInit => IInv /\ Availability!IInv
BY InitIInv, SameInit, SameIInv, AvailabilityFits, Publishing!InitIInv DEF SchedulingInit

\* Both invariants hold while blocks are published, patched and deleted under the
\* requests that book against them.
THEOREM CompositionIsSound == SchedulingSpec => [](IInv /\ Availability!IInv)
<1>1. IInv /\ Availability!IInv /\ [SchedulingNext]_schedulingVars
        => (IInv /\ Availability!IInv)'
  BY BookingKept, AvailabilityKept
<1> QED
  BY <1>1, InitComposed, PTL DEF SchedulingSpec

\* The bookings collection is a reservation book while blocks come, change and go
\* under the requests that book against them.
THEOREM CompositionIsABook == SchedulingSpec => ImplementsBook
<1>1. IInv /\ Availability!IInv /\ [SchedulingNext]_schedulingVars
        => (IInv /\ Availability!IInv)'
  BY BookingKept, AvailabilityKept
<1>2. IInv /\ Availability!IInv /\ [SchedulingNext]_schedulingVars => [Book!Step]_Entries
  <2> SUFFICES ASSUME IInv, [SchedulingNext]_schedulingVars PROVE BookStep
    BY DEF BookStep, Book!Step
  <2>1. CASE UNCHANGED <<bookings, req>>
    <3>1. \A b \in Bookings : EntryOf(b)' = EntryOf(b)
      BY <2>1 DEF EntryOf, Phase, Moving, Holds
    <3> QED
      BY <3>1, EntriesStay DEF BookStep
  <2> QED
    BY <2>1, StepOfEach, NextIsABookStep
<1> QED
  BY <1>1, <1>2, InitComposed, InitBook, PTL DEF SchedulingSpec, SchedulingInit, ImplementsBook, Book!Spec

\* One consultant's blocks never overlap, whatever is booked meanwhile, as long as one
\* request at a time writes to them on the answer of an overlap query.
THEOREM BlocksStayApart ==
    ASSUME \A j, k \in Published :
             j.consultant = k.consultant /\ j.id # k.id => j.end <= k.start \/ k.end <= j.start
    PROVE  SchedulingSpec /\ []Publishing!OneWriter => []BlocksDisjoint
<1> DEFINE Inv == Publishing!IInv /\ Publishing!PlacesFree /\ Publishing!BlocksDisjoint
<1>1. SchedulingInit => Inv
  <2>1. Publishing!Init => Publishing!BlocksDisjoint
    BY DEF Publishing!Init, Publishing!BlocksDisjoint
  <2> QED
    BY <2>1, SameInit, AvailabilityFits, Publishing!InitIInv, Publishing!InitUndisturbed
       DEF SchedulingInit
<1>2. Inv /\ Publishing!OneWriter /\ [SchedulingNext]_schedulingVars => Inv'
  BY StepOfEach, AvailabilityFits, Publishing!StepIInv, Publishing!StepPlacesFree,
     Publishing!StepDisjoint
<1>3. Inv => BlocksDisjoint
  BY SameParts DEF BlocksDisjoint
<1> QED
  BY <1>1, <1>2, <1>3, PTL DEF SchedulingSpec

\* An update of a block changes what its patch names and nothing else, as long as nobody
\* else writes to the block between its read and its write.
THEOREM PatchesKeepTheRest == SchedulingSpec /\ []Publishing!OnePatcher => PatchKeepsTheRest
<1> DEFINE Inv == Publishing!IInv /\ Publishing!PatchesFit
           Apply == \A r \in Editors :
                     edit[r].pc = "update" /\ edit'[r].reply = "ok" =>
                       \A k \in blocks, n \in blocks' :
                         k.id = n.id =>
                           \/ n = k
                           \/ /\ k.id = edit[r].id
                              /\ edit[r].patch.tenant = None => n.tenant = k.tenant
                              /\ edit[r].patch.start = None => n.start = k.start
                              /\ edit[r].patch.end = None => n.end = k.end
<1>1. SchedulingInit => Inv
  BY SameInit, AvailabilityFits, Publishing!InitIInv, Publishing!InitUndisturbed
     DEF SchedulingInit
<1>2. Inv /\ Publishing!OnePatcher /\ [SchedulingNext]_schedulingVars => Inv'
  BY StepOfEach, AvailabilityFits, Publishing!StepIInv, Publishing!StepPatchesFit
<1>3. Inv /\ [SchedulingNext]_schedulingVars => Apply
  BY StepOfEach, AvailabilityFits, Publishing!PatchIsApplied
<1>4. Inv /\ [SchedulingNext]_schedulingVars => [Apply]_(Availability!vars)
  BY <1>3
<1> QED
  BY <1>1, <1>2, <1>4, PTL DEF SchedulingSpec, PatchKeepsTheRest, Availability!PatchKeepsTheRest

-----------------------------------------------------------------------------
(* The listings *)

\* The slots of the sessions that take a consultant's time for a tenant.
Taken(c, t) ==
    {bookings[b].slot :
       b \in {b \in Bookings : /\ Confirmed(b)
                               /\ bookings[b].consultant = c
                               /\ BookingTenant(b) = t}}

LEMMA NothingCalled == Cutting!CallsAssumption /\ Cutting!CutsAssumption
OBVIOUS

LEMMA SameSubtract ==
    ASSUME NEW range, NEW cuts
    PROVE  Interval!SubtractIntervals(range, cuts) = Cutting!SubtractIntervals(range, cuts)
BY DEF Interval!SubtractIntervals, Cutting!SubtractIntervals, Interval!Subtract, Cutting!Subtract,
     Interval!SubtractOne, Cutting!SubtractOne, Interval!Misses, Cutting!Misses,
     Interval!Later, Cutting!Later, Interval!Earlier, Cutting!Earlier,
     Interval!Nonempty, Cutting!Nonempty, Interval!Whole, Cutting!Whole,
     Interval!Clipped, Cutting!Clipped, Interval!Clip, Cutting!Clip,
     Interval!FoldSet, Cutting!FoldSet, Interval!MapThenFoldSet, Cutting!MapThenFoldSet

\* What a listing computes for one block.
LEMMA SubtractRemains ==
    ASSUME NEW range \in Cutting!Interval, NEW cuts \in SUBSET Cutting!Interval, IsFiniteSet(cuts)
    PROVE  Cutting!IsRemainder(Interval!SubtractIntervals(range, cuts), range, cuts)
<1>1. Cutting!IsFiniteSet(cuts)
  BY DEF IsFiniteSet, Cutting!IsFiniteSet
<1>2. Cutting!IsRemainder(Cutting!SubtractIntervals(range, cuts), range, cuts)
  BY <1>1, NothingCalled, Cutting!SubtractIntervalsRemains
<1> QED
  BY <1>2, SameSubtract

LEMMA TakenFinite ==
    ASSUME NEW c, NEW t
    PROVE  IsFiniteSet(Taken(c, t))
<1> DEFINE B == {b \in Bookings : /\ Confirmed(b)
                                  /\ bookings[b].consultant = c
                                  /\ BookingTenant(b) = t}
           f == [b \in B |-> bookings[b].slot]
           T == Taken(c, t)
<1>1. IsFiniteSet(B)
  BY SchedulingAssumption, FS_Subset
<1>2. f \in Surjection(B, T)
  BY DEF Taken, Surjection
<1> HIDE DEF B, f, T
<1>3. IsFiniteSet(T)
  BY <1>1, <1>2, FS_Surjection
<1> QED
  BY <1>3 DEF T

\* A pair of instants [s, e) that a piece of a remainder holds as a whole is one
\* that no cut overlaps.
LEMMA HeldByPiece ==
    ASSUME NEW range \in Cutting!Interval, NEW cuts \in SUBSET Cutting!Interval, NEW R,
           Cutting!IsRemainder(R, range, cuts),
           \A k \in cuts : k.start < k.end,
           NEW s \in Cutting!Interval, s.start < s.end
    PROVE  (\E f \in R : f.start <= s.start /\ s.end <= f.end)
             <=> /\ range.start <= s.start /\ s.end <= range.end
                 /\ \A k \in cuts : ~Overlaps(k, s)
<1>0. /\ \A f \in R : f.start \in Int /\ f.end \in Int /\ f.start < f.end
      /\ \A k \in cuts : k.start \in Int /\ k.end \in Int
      /\ s.start \in Int /\ s.end \in Int /\ range.start \in Int /\ range.end \in Int
  BY DEF Cutting!IsRemainder, Cutting!Interval, Cutting!Nonempty
<1>1. \A p \in Int : (\E f \in R : f.start <= p /\ p < f.end)
                       <=> /\ range.start <= p /\ p < range.end
                           /\ ~\E k \in cuts : k.start <= p /\ p < k.end
  BY DEF Cutting!IsRemainder, Cutting!Covers, Cutting!Holds
<1>2. ASSUME NEW f \in R, f.start <= s.start, s.end <= f.end
      PROVE  /\ range.start <= s.start /\ s.end <= range.end
             /\ \A k \in cuts : ~Overlaps(k, s)
  <2>1. range.start <= f.start /\ f.end <= range.end
    BY DEF Cutting!IsRemainder
  <2>2. ASSUME NEW k \in cuts, Overlaps(k, s)
        PROVE  FALSE
    <3> DEFINE p == IF k.start < s.start THEN s.start ELSE k.start
    <3>1. p \in Int /\ f.start <= p /\ p < f.end /\ k.start <= p /\ p < k.end
      BY <1>0, <1>2, <2>2 DEF Overlaps
    <3> HIDE DEF p
    <3> QED
      BY <1>1, <3>1
  <2> QED
    BY <1>0, <1>2, <2>1, <2>2
<1>3. ASSUME range.start <= s.start, s.end <= range.end, \A k \in cuts : ~Overlaps(k, s)
      PROVE  \E f \in R : f.start <= s.start /\ s.end <= f.end
  <2>1. ASSUME NEW p \in Int, s.start <= p, p < s.end
        PROVE  \E f \in R : f.start <= p /\ p < f.end
    <3>1. range.start <= p /\ p < range.end
      BY <1>0, <1>3, <2>1
    <3>2. \A k \in cuts : ~(k.start <= p /\ p < k.end)
      BY <1>0, <1>3, <2>1 DEF Overlaps
    <3> QED
      BY <1>1, <3>1, <3>2
  <2>2. PICK f \in R : f.start <= s.start /\ s.start < f.end
    BY <1>0, <2>1
  <2>3. ~(f.end < s.end)
    <3> SUFFICES ASSUME f.end < s.end PROVE FALSE
      OBVIOUS
    <3>1. PICK h \in R : h.start <= f.end /\ f.end < h.end
      BY <1>0, <2>1, <2>2
    <3>2. h = f \/ h.end < f.start \/ f.end < h.start
      BY DEF Cutting!IsRemainder
    <3> QED
      BY <1>0, <3>1, <3>2
  <2> QED
    BY <1>0, <2>2, <2>3
<1> QED
  BY <1>2, <1>3

\* The slots of sessions take some time.
SlotsTakeTime ==
    \A b \in Bookings :
        Confirmed(b) => /\ bookings[b].slot \in Slots
                        /\ bookings[b].slot.start < bookings[b].slot.end

\* The listing and the check agree.
LEMMA ListingMatchesCheck ==
    ASSUME Availability!TypeOK, SlotsTakeTime,
           NEW c \in Consultants, NEW t \in Tenants, NEW w \in Windows, NEW s \in Windows,
           w.start <= s.start, s.end <= w.end
    PROVE  Listed(BookableSlots(t, w), c, s) <=> Offered(c, t, s) /\ ~Clash(c, t, s, None)
<1> DEFINE mine == {k \in blocks : k.consultant = c /\ k.tenant = t}
           R(k) == Interval!SubtractIntervals(Interval!Clip(k, w), Taken(c, t))
<1>1. /\ w \in Cutting!Interval /\ s \in Cutting!Interval
      /\ w.start < w.end /\ s.start < s.end
  BY SchedulingAssumption DEF Windows, Cutting!Interval
<1>2. \A k \in mine : k.start \in Int /\ k.end \in Int
  BY DEF Availability!TypeOK, Availability!Block
<1>3. /\ Taken(c, t) \in SUBSET Cutting!Interval
      /\ \A k \in Taken(c, t) : k.start < k.end
  BY ConstantsAssumption DEF Taken, SlotsTakeTime, Cutting!Interval
<1>4. ASSUME NEW k \in mine
      PROVE  (\E f \in R(k) : f.start <= s.start /\ s.end <= f.end)
               <=> /\ k.start <= s.start /\ s.end <= k.end
                   /\ \A x \in Taken(c, t) : ~Overlaps(x, s)
  <2> DEFINE range == Interval!Clip(k, w)
  <2>1. /\ range \in Cutting!Interval
        /\ range.start <= s.start /\ s.end <= range.end
             <=> k.start <= s.start /\ s.end <= k.end
    BY <1>1, <1>2 DEF Interval!Clip, Interval!Later, Interval!Earlier, Cutting!Interval
  <2> HIDE DEF range
  <2>2. Cutting!IsRemainder(R(k), range, Taken(c, t))
    BY <1>3, <2>1, TakenFinite, SubtractRemains DEF range
  <2> HIDE DEF R
  <2> QED
    BY <1>1, <1>3, <2>1, <2>2, HeldByPiece
<1>5. FreeSlots(c, t, w) = UNION {R(k) : k \in mine}
  BY DEF FreeSlots, Taken
<1> HIDE DEF R
<1>6. Listed(BookableSlots(t, w), c, s) <=> \E k \in mine : \E f \in R(k) : f.start <= s.start /\ s.end <= f.end
  <2>1. Listed(BookableSlots(t, w), c, s) <=> \E f \in FreeSlots(c, t, w) : f.start <= s.start /\ s.end <= f.end
    <3>1. ASSUME NEW x
          PROVE  x \in BookableSlots(t, w)
                   <=> \E d \in Consultants : \E f \in FreeSlots(d, t, w) :
                         x = [consultant |-> d, start |-> f.start, end |-> f.end]
      BY DEF BookableSlots
    <3>2. ASSUME NEW x \in BookableSlots(t, w), x.consultant = c, x.start <= s.start, s.end <= x.end
          PROVE  \E f \in FreeSlots(c, t, w) : f.start <= s.start /\ s.end <= f.end
      BY <3>1, <3>2
    <3>3. ASSUME NEW f \in FreeSlots(c, t, w), f.start <= s.start, s.end <= f.end
          PROVE  Listed(BookableSlots(t, w), c, s)
      <4> DEFINE x == [consultant |-> c, start |-> f.start, end |-> f.end]
      <4>1. x \in BookableSlots(t, w)
        BY <3>1
      <4>2. x.consultant = c /\ x.start = f.start /\ x.end = f.end
        OBVIOUS
      <4> HIDE DEF x
      <4> QED
        BY <3>3, <4>1, <4>2 DEF Listed
    <3> QED
      BY <3>2, <3>3 DEF Listed
  <2> QED
    BY <1>5, <2>1
<1>7. Offered(c, t, s) <=> \E k \in mine : k.start <= s.start /\ s.end <= k.end
  BY <1>1 DEF Offered
<1>8. Clash(c, t, s, None) <=> \E x \in Taken(c, t) : Overlaps(x, s)
  BY ConstantsAssumption DEF Clash, Taken
<1> QED
  BY <1>4, <1>6, <1>7, <1>8

\* A session of the same tenant that starts with s overlaps it, so that the index has
\* no reason of its own to refuse s but a session of another tenant.
LEMMA IndexAgrees ==
    ASSUME SlotsTakeTime,
           NEW c \in Consultants, NEW t \in Tenants, NEW s \in Windows,
           ~Clash(c, t, s, None)
    PROVE  Indexed(None, [consultant |-> c, slot |-> s]) <=> StartTakenElsewhere(c, t, s)
<1>1. s.start \in Int /\ s.end \in Int /\ s.start < s.end
  BY SchedulingAssumption DEF Windows
<1>2. Bookings \ {None} = Bookings
  BY ConstantsAssumption
<1>3. ASSUME NEW b \in Bookings, Confirmed(b), bookings[b].consultant = c,
             bookings[b].slot.start = s.start, BookingTenant(b) = t
      PROVE  FALSE
  <2>1. bookings[b].slot.end \in Int /\ s.start < bookings[b].slot.end
    BY <1>3, ConstantsAssumption DEF SlotsTakeTime
  <2>2. Overlaps(bookings[b].slot, s)
    BY <1>1, <1>3, <2>1 DEF Overlaps
  <2> QED
    BY <1>2, <1>3, <2>2 DEF Clash
<1> QED
  BY <1>2, <1>3 DEF Indexed, StartTakenElsewhere

LEMMA ListingIsRight ==
    ASSUME Availability!TypeOK, SlotsTakeTime
    PROVE  ListingAgrees
<1> SUFFICES ASSUME NEW c \in Consultants, NEW t \in Tenants, NEW w \in Windows, NEW s \in Windows,
                    w.start <= s.start, s.end <= w.end
             PROVE  Listed(BookableSlots(t, w), c, s) <=>
                      \/ Bookable(c, t, s)
                      \/ Offered(c, t, s) /\ ~Clash(c, t, s, None) /\ StartTakenElsewhere(c, t, s)
  BY DEF ListingAgrees
<1> QED
  BY ListingMatchesCheck, IndexAgrees DEF Bookable

-----------------------------------------------------------------------------
(* What a step of Booking does to a row *)

\* Withdrawn or closed.
Ended(b) ==
    /\ Confirmed(b)
    /\ \E state \in Outcomes, closure \in Reasons \cup {None} :
         bookings'[b] = [bookings[b] EXCEPT !.state = state, !.closure = closure]

ClaimedBy(r, b) ==
    /\ req[r].pc = "claim" /\ req[r].target = b
    /\ Claimable(b, bookings[b].consultant)
    /\ bookings'[b] = [bookings[b] EXCEPT !.awaiting = FALSE, !.assigned = bookings[b].consultant]

RestoredBy(r, b) ==
    /\ req[r].pc = "restore" /\ req[r].target = b
    /\ Restorable(req[r]) /\ ~Indexed(b, Restored(req[r]))
    /\ bookings'[b] = Restored(req[r])

InsertedBy(r, b) == Store(r) /\ req[r].made = b /\ bookings'[b] = Draft(req[r])

ErasedBy(r, b) == req[r].pc = "undo" /\ req[r].made = b /\ bookings'[b] = DeletedRow

RowMoves(r, b) ==
    \/ bookings'[b] = bookings[b]
    \/ Ended(b) \/ ClaimedBy(r, b)
    \/ RestoredBy(r, b) \/ InsertedBy(r, b) \/ ErasedBy(r, b)

\* One entry of the collection is replaced, or none.
OneRow(x, row) == bookings' = [bookings EXCEPT ![x] = row]

LEMMA EntryReplaced ==
    ASSUME TypeOK, NEW x, NEW row, OneRow(x, row), NEW b \in Bookings
    PROVE  bookings'[b] = IF b = x THEN row ELSE bookings[b]
BY DEF TypeOK, OneRow

LEMMA WithdrawnMoves ==
    ASSUME TypeOK, NEW r \in Requests, Cancel(r) \/ Release(r), NEW b \in Bookings
    PROVE  RowMoves(r, b)
<1>1. CASE UNCHANGED bookings
  BY <1>1 DEF RowMoves
<1>2. CASE /\ Confirmed(req[r].target)
           /\ bookings' = [bookings EXCEPT ![req[r].target].state = "cancelled"]
  <2>1. CASE b = req[r].target
    <3>1. bookings'[b] = [bookings[b] EXCEPT !.state = "cancelled"]
      BY <1>2, <2>1 DEF TypeOK
    <3>2. bookings[b] \in BookingRow
      BY DEF TypeOK
    <3>3. [bookings[b] EXCEPT !.state = "cancelled"] =
            [bookings[b] EXCEPT !.state = "cancelled", !.closure = bookings[b].closure]
      BY <3>2 DEF BookingRow
    <3>4. bookings[b].closure \in Reasons \cup {None}
      BY <3>2 DEF BookingRow
    <3> QED
      BY <1>2, <2>1, <3>1, <3>3, <3>4 DEF RowMoves, Ended, Outcomes
  <2>2. CASE b # req[r].target
    BY <1>2, <2>2 DEF RowMoves, TypeOK
  <2> QED
    BY <2>1, <2>2
<1> QED
  BY <1>1, <1>2 DEF Cancel, Release, Withdrawable

LEMMA ClaimMoves ==
    ASSUME TypeOK, NEW r \in Requests, Claim(r), NEW b \in Bookings
    PROVE  RowMoves(r, b)
<1>0. req[r].pc = "claim"
  BY DEF Claim
<1>1. CASE UNCHANGED bookings
  BY <1>1 DEF RowMoves
<1>2. CASE /\ Claimable(req[r].target, req[r].consultant)
           /\ bookings' = [bookings EXCEPT ![req[r].target].awaiting = FALSE,
                                           ![req[r].target].assigned = req[r].consultant]
  <2>1. CASE b = req[r].target
    <3>1. bookings'[b] = [bookings[b] EXCEPT !.awaiting = FALSE, !.assigned = req[r].consultant]
      BY <1>2, <2>1 DEF TypeOK, BookingRow
    <3>2. req[r].consultant = bookings[b].consultant
      BY <1>2, <2>1 DEF Claimable
    <3> QED
      BY <1>0, <1>2, <2>1, <3>1, <3>2 DEF RowMoves, ClaimedBy
  <2>2. CASE b # req[r].target
    BY <1>2, <2>2 DEF RowMoves, TypeOK
  <2> QED
    BY <2>1, <2>2
<1> QED
  BY <1>1, <1>2 DEF Claim

LEMMA CloseMoves ==
    ASSUME TypeOK, NEW r \in Requests, NEW c \in Consultants, NEW x \in Bookings,
           NEW call \in ClosureCalls, Close(r, c, x, call[1], call[2]), NEW b \in Bookings
    PROVE  RowMoves(r, b)
<1>0. call[1] \in Outcomes /\ call[2] \in Reasons
  BY ConstantsAssumption
<1>1. CASE UNCHANGED bookings
  BY <1>1 DEF RowMoves
<1>2. CASE Closable(x, c) /\ bookings' = [bookings EXCEPT ![x] = Closed(@, call[1], call[2])]
  <2>1. CASE b = x
    <3>1. bookings'[b] = [bookings[b] EXCEPT !.state = call[1], !.closure = call[2]]
      BY <1>2, <2>1 DEF TypeOK, Closed
    <3> QED
      BY <1>0, <1>2, <2>1, <3>1 DEF RowMoves, Ended, Closable
  <2>2. CASE b # x
    BY <1>2, <2>2 DEF RowMoves, TypeOK
  <2> QED
    BY <2>1, <2>2
<1> QED
  BY <1>1, <1>2 DEF Close

LEMMA RequestMoves ==
    ASSUME TypeOK, NEW r \in Requests, Arrive(r) \/ Advance(r) \/ Break(r), NEW b \in Bookings
    PROVE  RowMoves(r, b)
<1>0. UNCHANGED bookings => RowMoves(r, b)
  BY DEF RowMoves
<1>1. ASSUME Restore(r)
      PROVE  RowMoves(r, b)
  BY <1>0, <1>1, EntryReplaced DEF Restore, RowMoves, RestoredBy, OneRow
<1>2. ASSUME Undo(r)
      PROVE  RowMoves(r, b)
  BY <1>2, EntryReplaced DEF Undo, RowMoves, ErasedBy, OneRow
<1>3. ASSUME Store(r)
      PROVE  RowMoves(r, b)
  BY <1>3, EntryReplaced DEF Store, RowMoves, InsertedBy, OneRow
<1>4. ASSUME Arrive(r)
      PROVE  RowMoves(r, b)
  BY <1>0, <1>4, CloseMoves DEF Arrive, BeginCreate, BeginReschedule, BeginCancel, BeginAssign
<1>5. ASSUME Advance(r)
      PROVE  RowMoves(r, b)
  <2>1. CASE Load(r) \/ Check(r) \/ InsertDuplicate(r) \/ Record(r) \/ RecordDuplicate(r)
             \/ Resolve(r) \/ Recover(r) \/ WriteAudit(r)
    BY <1>0, <2>1
       DEF Load, Check, InsertDuplicate, Record, RecordDuplicate, Resolve, Recover, WriteAudit
  <2> QED
    BY <1>1, <1>2, <1>3, <1>5, <2>1, WithdrawnMoves, ClaimMoves DEF Advance, Insert
<1>6. ASSUME Break(r)
      PROVE  RowMoves(r, b)
  BY <1>0, <1>3, <1>6 DEF Break, StorageError, LostAcknowledgement, Crash
<1> QED
  BY <1>4, <1>5, <1>6

-----------------------------------------------------------------------------
(* What a step of Booking does to the request that takes it *)

\* The snapshot of r is the one it had, or has just been read.
SnapshotKept(r, q) ==
    Remembers(q) =>
      \/ /\ Remembers(req[r])
         /\ q.snapshot = req[r].snapshot /\ q.target = req[r].target
      \/ /\ UNCHANGED bookings
         /\ Exists(q.target)
         /\ q.snapshot = [awaiting |-> bookings[q.target].awaiting,
                          assigned |-> bookings[q.target].assigned]

MadeKept(r, q) == q.made \in {None, req[r].made} \/ Fresh(q.made)

\* What r becomes fits the rows as they were before the step.
Becomes(r, q) ==
    /\ req' = [req EXCEPT ![r] = q]
    /\ q \in Request
    /\ RequestWhole(q)
    /\ MadeKept(r, q)
    /\ SnapshotKept(r, q)
    /\ Drawn(q) => ~Store(r) /\ req[r].pc # "undo"

Follows(r) == \E q : Becomes(r, q)

LEMMA ReplyFollows ==
    ASSUME Whole, NEW r \in Requests, NEW code \in Codes, Reply(r, code)
    PROVE  Follows(r)
<1> DEFINE q == Answered(code)
<1>1. q \in Request /\ q.pc = "idle" /\ q.op = "none" /\ q.made = None
  BY IdleSound
<1>2. req' = [req EXCEPT ![r] = q]
  BY DEF Reply, Answered
<1> HIDE DEF q
<1>3. RequestWhole(q) /\ ~Remembers(q) /\ ~Drawn(q)
  BY <1>1 DEF RequestWhole, OpSound, ArgsSound, Drawn, Accepted, SnapshotWhole, Remembers
<1> QED
  BY <1>1, <1>2, <1>3 DEF Follows, Becomes, MadeKept, SnapshotKept

\* The facts of a request that the steps below start from.
LEMMA RequestFacts ==
    ASSUME Whole, NEW r \in Requests
    PROVE  /\ req \in [Requests -> Request] /\ req[r] \in Request /\ RequestWhole(req[r])
           /\ Idle \in Request
           /\ None \notin Bookings
BY IdleIsRequest, ConstantsAssumption DEF Whole, TypeOK, RequestsWhole

LEMMA BeginCreateFollows ==
    ASSUME Whole, NEW r \in Requests, NEW e \in Employees, NEW c \in Consultants, NEW s \in Slots,
           NEW k \in Keys \cup {None}, BeginCreate(r, e, c, s, k)
    PROVE  Follows(r)
<1>1. CASE Reply(r, "ok")
  BY <1>1, ReplyFollows DEF Codes
<1>2. CASE \E b \in Bookings :
             /\ Fresh(b)
             /\ req' = [req EXCEPT ![r] =
                  [Idle EXCEPT !.pc = "check", !.op = "create", !.employee = e,
                               !.consultant = c, !.slot = s, !.key = k,
                               !.made = b, !.since = now]]
  <2>1. PICK b \in Bookings :
             /\ Fresh(b)
             /\ req' = [req EXCEPT ![r] =
                  [Idle EXCEPT !.pc = "check", !.op = "create", !.employee = e,
                               !.consultant = c, !.slot = s, !.key = k,
                               !.made = b, !.since = now]]
    BY <1>2
  <2> DEFINE q == [Idle EXCEPT !.pc = "check", !.op = "create", !.employee = e,
                               !.consultant = c, !.slot = s, !.key = k,
                               !.made = b, !.since = now]
  <2>2. q \in Request
    BY RequestFacts DEF Whole, TypeOK, Request, Points, Operations
  <2>3. /\ q.pc = "check" /\ q.op = "create" /\ q.employee = e /\ q.consultant = c
        /\ q.slot = s /\ q.made = b /\ q.target = None
    BY DEF Idle
  <2> HIDE DEF q
  <2>4. RequestWhole(q) /\ ~Remembers(q)
    BY <2>1, <2>3
       DEF RequestWhole, OpSound, ArgsSound, Drawn, Accepted, SnapshotWhole, Remembers, Fresh
  <2>5. ~Store(r) /\ req[r].pc # "undo"
    BY DEF BeginCreate, InFlight, Store
  <2> QED
    BY <2>1, <2>2, <2>3, <2>4, <2>5 DEF Follows, Becomes, MadeKept, SnapshotKept, q
<1> QED
  BY <1>1, <1>2 DEF BeginCreate

LEMMA BeginRescheduleFollows ==
    ASSUME Whole, NEW r \in Requests, NEW e \in Employees, NEW b \in Bookings,
           NEW c \in Consultants, NEW s \in Slots,
           NEW k \in Keys \cup {None}, BeginReschedule(r, e, b, c, s, k)
    PROVE  Follows(r)
<1>1. CASE Reply(r, "ok")
  BY <1>1, ReplyFollows DEF Codes
<1>2. CASE \E m \in Bookings :
             /\ Fresh(m)
             /\ req' = [req EXCEPT ![r] =
                  [Idle EXCEPT !.pc = "load", !.op = "reschedule", !.employee = e,
                               !.consultant = c, !.slot = s, !.key = k,
                               !.target = b, !.made = m, !.since = now]]
  <2>1. PICK m \in Bookings :
             /\ Fresh(m)
             /\ req' = [req EXCEPT ![r] =
                  [Idle EXCEPT !.pc = "load", !.op = "reschedule", !.employee = e,
                               !.consultant = c, !.slot = s, !.key = k,
                               !.target = b, !.made = m, !.since = now]]
    BY <1>2
  <2> DEFINE q == [Idle EXCEPT !.pc = "load", !.op = "reschedule", !.employee = e,
                               !.consultant = c, !.slot = s, !.key = k,
                               !.target = b, !.made = m, !.since = now]
  <2>2. q \in Request
    BY RequestFacts DEF Whole, TypeOK, Request, Points, Operations
  <2>3. /\ q.pc = "load" /\ q.op = "reschedule" /\ q.employee = e /\ q.consultant = c
        /\ q.slot = s /\ q.made = m /\ q.target = b
    BY DEF Idle
  <2> HIDE DEF q
  <2>4. RequestWhole(q) /\ ~Remembers(q)
    BY <2>1, <2>3
       DEF RequestWhole, OpSound, ArgsSound, Drawn, Accepted, SnapshotWhole, Remembers, Fresh
  <2>5. ~Store(r) /\ req[r].pc # "undo"
    BY DEF BeginReschedule, InFlight, Store
  <2> QED
    BY <2>1, <2>2, <2>3, <2>4, <2>5 DEF Follows, Becomes, MadeKept, SnapshotKept, q
<1> QED
  BY <1>1, <1>2 DEF BeginReschedule

\* Cancel, assign and close draw no id and take no snapshot.
LEMMA PlainFollows ==
    ASSUME Whole, NEW r \in Requests, ~InFlight(r), NEW q \in Request,
           req' = [req EXCEPT ![r] = q],
           q.made = None, q.target \in Bookings,
           \/ q.pc = "cancel" /\ q.op = "cancel" /\ q.employee \in Employees
           \/ q.pc = "claim" /\ q.op = "assign" /\ q.consultant \in Consultants
           \/ /\ q.pc = "audit" /\ q.op = "close" /\ q.consultant \in Consultants
              /\ q.entry \in AuditRow
    PROVE  Follows(r)
<1>1. RequestWhole(q) /\ ~Remembers(q)
  BY DEF RequestWhole, OpSound, ArgsSound, Drawn, Accepted, SnapshotWhole, Remembers
<1>2. ~Store(r) /\ req[r].pc # "undo"
  BY DEF InFlight, Store
<1> QED
  BY <1>1, <1>2 DEF Follows, Becomes, MadeKept, SnapshotKept

LEMMA BeginCancelFollows ==
    ASSUME Whole, NEW r \in Requests, NEW e \in Employees, NEW b \in Bookings, BeginCancel(r, e, b)
    PROVE  Follows(r)
<1> DEFINE q == [Idle EXCEPT !.pc = "cancel", !.op = "cancel", !.employee = e,
                             !.target = b, !.since = now]
<1>1. CASE Reply(r, "NOT_FOUND") \/ Reply(r, "NOT_CANCELLABLE")
  BY <1>1, ReplyFollows DEF Codes
<1>2. CASE req' = [req EXCEPT ![r] = q]
  <2>1. q \in Request
    BY RequestFacts DEF Whole, TypeOK, Request, Points, Operations
  <2>2. q.pc = "cancel" /\ q.op = "cancel" /\ q.employee = e /\ q.target = b /\ q.made = None
    BY DEF Idle
  <2>3. ~InFlight(r)
    BY DEF BeginCancel
  <2> HIDE DEF q
  <2> QED
    BY <1>2, <2>1, <2>2, <2>3, PlainFollows
<1> QED
  BY <1>1, <1>2 DEF BeginCancel

LEMMA BeginAssignFollows ==
    ASSUME Whole, NEW r \in Requests, NEW c \in Consultants, NEW b \in Bookings,
           BeginAssign(r, c, b)
    PROVE  Follows(r)
<1> DEFINE q == [Idle EXCEPT !.pc = "claim", !.op = "assign", !.consultant = c,
                             !.target = b, !.since = now]
<1>1. CASE Reply(r, "OUT_OF_SCOPE") \/ Reply(r, "NOT_ASSIGNABLE")
  BY <1>1, ReplyFollows DEF Codes
<1>2. CASE req' = [req EXCEPT ![r] = q]
  <2>1. q \in Request
    BY RequestFacts DEF Whole, TypeOK, Request, Points, Operations
  <2>2. q.pc = "claim" /\ q.op = "assign" /\ q.consultant = c /\ q.target = b /\ q.made = None
    BY DEF Idle
  <2>3. ~InFlight(r)
    BY DEF BeginAssign
  <2> HIDE DEF q
  <2> QED
    BY <1>2, <2>1, <2>2, <2>3, PlainFollows
<1> QED
  BY <1>1, <1>2 DEF BeginAssign

LEMMA CloseFollows ==
    ASSUME Whole, NEW r \in Requests, NEW c \in Consultants, NEW b \in Bookings,
           NEW outcome \in Outcomes, NEW reason, Close(r, c, b, outcome, reason)
    PROVE  Follows(r)
<1> DEFINE entry == [booking |-> b, actor |-> c, action |-> "booking_closed", outcome |-> outcome]
           q == [Idle EXCEPT !.pc = "audit", !.op = "close", !.consultant = c,
                             !.target = b, !.since = now, !.entry = entry]
<1>1. CASE Reply(r, "INVALID_REASON") \/ Reply(r, "OUT_OF_SCOPE") \/ Reply(r, "NOT_CLOSABLE")
  BY <1>1, ReplyFollows DEF Codes
<1>2. CASE req' = [req EXCEPT ![r] = q]
  <2>0. entry \in AuditRow
    BY DEF AuditRow
  <2>1. q \in Request
    <3> HIDE DEF entry
    <3> QED
      BY <2>0, RequestFacts DEF Whole, TypeOK, Request, Points, Operations
  <2>2. /\ q.pc = "audit" /\ q.op = "close" /\ q.consultant = c /\ q.target = b
        /\ q.made = None /\ q.entry = entry
    BY DEF Idle
  <2>3. ~InFlight(r)
    BY DEF Close
  <2> HIDE DEF q, entry
  <2> QED
    BY <1>2, <2>0, <2>1, <2>2, <2>3, PlainFollows
<1> QED
  BY <1>1, <1>2 DEF Close

\* A request that goes on to another point keeps its arguments, its id and what it
\* remembers.
SameCall(q, p) ==
    /\ q.op = p.op /\ q.employee = p.employee /\ q.consultant = p.consultant
    /\ q.slot = p.slot /\ q.made = p.made /\ q.target = p.target
    /\ q.snapshot = p.snapshot

LEMMA GoesOnFollows ==
    ASSUME Whole, NEW r \in Requests, NEW q \in Request,
           req' = [req EXCEPT ![r] = q],
           SameCall(q, req[r]),
           OpSound(q), Accepted(q),
           q.pc = "audit" => q.entry \in AuditRow,
           Drawn(q) => Drawn(req[r]) /\ ~Store(r),
           Remembers(q) => Remembers(req[r])
    PROVE  Follows(r)
<1>1. RequestWhole(req[r])
  BY RequestFacts
<1>2. ArgsSound(q)
  BY <1>1 DEF RequestWhole, ArgsSound, SameCall
<1>3. Drawn(q) => bookings[q.made].state = "absent"
  BY <1>1 DEF RequestWhole, SameCall
<1>4. SnapshotWhole(q)
  BY <1>1 DEF RequestWhole, SnapshotWhole, SameCall
<1>5. RequestWhole(q)
  BY <1>2, <1>3, <1>4 DEF RequestWhole
<1> QED
  BY <1>5 DEF Follows, Becomes, MadeKept, SnapshotKept, SameCall, Drawn

\* A request with its point and one more field changed is a request.
LEMMA FieldsSet ==
    ASSUME NEW p \in Request
    PROVE  /\ \A at \in Points, x \in Codes : [p EXCEPT !.pc = at, !.reply = x] \in Request
           /\ \A at \in Points, x \in Bookings : [p EXCEPT !.pc = at, !.prior = x] \in Request
           /\ \A at \in Points, x \in AuditRow : [p EXCEPT !.pc = at, !.entry = x] \in Request
<1>1. ASSUME NEW at \in Points, NEW x \in Codes
      PROVE  [p EXCEPT !.pc = at, !.reply = x] \in Request
  <2> DEFINE q == [p EXCEPT !.pc = at]
  <2>1. q \in Request
    BY FieldSet
  <2> HIDE DEF q
  <2>2. [q EXCEPT !.reply = x] \in Request
    BY <2>1, FieldSet
  <2> QED
    BY <2>2 DEF q
<1>2. ASSUME NEW at \in Points, NEW x \in Bookings
      PROVE  [p EXCEPT !.pc = at, !.prior = x] \in Request
  <2> DEFINE q == [p EXCEPT !.pc = at]
  <2>1. q \in Request
    BY FieldSet
  <2> HIDE DEF q
  <2>2. [q EXCEPT !.prior = x] \in Request
    BY <2>1, FieldSet
  <2> QED
    BY <2>2 DEF q
<1>3. ASSUME NEW at \in Points, NEW x \in AuditRow
      PROVE  [p EXCEPT !.pc = at, !.entry = x] \in Request
  <2> DEFINE q == [p EXCEPT !.pc = at]
  <2>1. q \in Request
    BY FieldSet
  <2> HIDE DEF q
  <2>2. [q EXCEPT !.entry = x] \in Request
    BY <2>1, FieldSet
  <2> QED
    BY <2>2 DEF q
<1> QED
  BY <1>1, <1>2, <1>3

LEMMA GotoFollows ==
    ASSUME Whole, NEW r \in Requests, NEW p \in Points, Goto(r, p),
           \A q : q.pc = p /\ SameCall(q, req[r]) /\ q.prior = req[r].prior =>
                    /\ OpSound(q) /\ Accepted(q) /\ q.pc # "audit"
                    /\ Drawn(q) => Drawn(req[r]) /\ ~Store(r)
                    /\ Remembers(q) => Remembers(req[r])
    PROVE  Follows(r)
<1> DEFINE q == [req[r] EXCEPT !.pc = p]
<1>1. q \in Request /\ q.pc = p /\ SameCall(q, req[r]) /\ q.prior = req[r].prior
  BY RequestFacts DEF Request, SameCall
<1>2. req' = [req EXCEPT ![r] = q]
  BY RequestFacts DEF Goto
<1> HIDE DEF q
<1>3. /\ OpSound(q) /\ Accepted(q) /\ q.pc # "audit"
      /\ Drawn(q) => Drawn(req[r]) /\ ~Store(r)
      /\ Remembers(q) => Remembers(req[r])
  BY <1>1
<1> QED
  BY <1>1, <1>2, <1>3, GoesOnFollows

\* What has been accepted is offered by a block, so its consultant serves the tenant.
LEMMA OfferedIsServiced ==
    ASSUME Whole, NEW c, NEW e, NEW s, Offered(c, TenantOf[e], s)
    PROVE  s.start < s.end /\ Serviced(c, e)
BY DEF Whole, Offered, Serviced, Availability!IInv, Availability!BlocksStayValid

LEMMA CheckFollows ==
    ASSUME Whole, NEW r \in Requests, Check(r)
    PROVE  Follows(r)
<1> DEFINE q == req[r]
<1>1. CASE Reply(r, "SLOT_INVALID") \/ Reply(r, "SLOT_TAKEN")
  BY <1>1, ReplyFollows DEF Codes
<1>2. CASE /\ Offered(q.consultant, TenantOf[q.employee], q.slot)
           /\ Goto(r, IF q.op = "create" THEN "insert" ELSE "cancel")
  <2>1. /\ q.pc = "check" /\ q.op \in {"create", "reschedule"}
        /\ q.slot.start < q.slot.end /\ Serviced(q.consultant, q.employee)
    BY <1>2, RequestFacts, OfferedIsServiced DEF Check, RequestWhole, OpSound
  <2>2. ~Store(r)
    BY <2>1 DEF Store
  <2>3. CASE q.op = "create"
    BY <1>2, <2>1, <2>2, <2>3, GotoFollows
       DEF Points, SameCall, OpSound, Accepted, Drawn, Remembers
  <2>4. CASE q.op = "reschedule"
    BY <1>2, <2>1, <2>2, <2>4, GotoFollows
       DEF Points, SameCall, OpSound, Accepted, Drawn, Remembers
  <2> QED
    BY <2>1, <2>3, <2>4
<1> QED
  BY <1>1, <1>2 DEF Check

LEMMA LoadFollows ==
    ASSUME Whole, NEW r \in Requests, Load(r)
    PROVE  Follows(r)
<1> DEFINE b == req[r].target
           snapshot == [awaiting |-> bookings[b].awaiting, assigned |-> bookings[b].assigned]
           q == [req[r] EXCEPT !.pc = "check", !.snapshot = snapshot]
<1>1. CASE Reply(r, "NOT_FOUND") \/ Reply(r, "NOT_CANCELLABLE")
  BY <1>1, ReplyFollows DEF Codes
<1>2. CASE /\ Withdrawable(b, req[r].employee)
           /\ req' = [req EXCEPT ![r].pc = "check", ![r].snapshot = snapshot]
  <2>1. /\ req[r].pc = "load" /\ req[r].op = "reschedule" /\ b \in Bookings
        /\ ArgsSound(req[r]) /\ bookings[req[r].made].state = "absent"
    BY RequestFacts DEF Load, RequestWhole, OpSound, ArgsSound, Drawn
  <2>2. bookings[b] \in BookingRow /\ RowWhole(bookings[b]) /\ bookings[b].state = "confirmed"
    BY <1>2, <2>1 DEF Whole, TypeOK, RowsWhole, Withdrawable, Confirmed
  <2>3. /\ snapshot \in Snapshot
        /\ snapshot.awaiting => snapshot.assigned = None
        /\ snapshot.assigned \in {None, bookings[b].consultant}
    BY <2>2 DEF Snapshot, BookingRow, RowWhole, Live
  <2> HIDE DEF snapshot
  <2>4. q \in Request /\ req' = [req EXCEPT ![r] = q]
    <3> DEFINE p == [req[r] EXCEPT !.pc = "check"]
    <3>1. p \in Request
      BY RequestFacts, FieldSet DEF Points
    <3>2. [p EXCEPT !.snapshot = snapshot] \in Request
      BY <2>3, <3>1, FieldSet
    <3>3. req' = [req EXCEPT ![r] = q]
      BY <1>2, RequestFacts
    <3> QED
      BY <3>2, <3>3
  <2>5. /\ q.pc = "check" /\ q.snapshot = snapshot
        /\ q.op = req[r].op /\ q.employee = req[r].employee /\ q.consultant = req[r].consultant
        /\ q.slot = req[r].slot /\ q.made = req[r].made /\ q.target = req[r].target
    BY RequestFacts DEF Request
  <2> HIDE DEF q
  <2>6. RequestWhole(q)
    BY <2>1, <2>2, <2>3, <2>5
       DEF RequestWhole, OpSound, ArgsSound, Drawn, Accepted, SnapshotWhole
  <2>7. SnapshotKept(r, q)
    BY <2>2, <2>5 DEF SnapshotKept, Load, Exists, snapshot
  <2> QED
    BY <2>1, <2>4, <2>5, <2>6, <2>7 DEF Follows, Becomes, MadeKept, Store
<1> QED
  BY <1>1, <1>2 DEF Load

\* The write has been tried, and nothing after it draws an id or asks for a slot.
LEMMA WritingFollows ==
    ASSUME Whole, NEW r \in Requests,
           \/ Insert(r) \/ InsertDuplicate(r) \/ Record(r) \/ RecordDuplicate(r)
           \/ Resolve(r) \/ Undo(r) \/ Recover(r) \/ Restore(r)
    PROVE  Follows(r)
<1> USE RequestFacts DEF Points, Codes
<1>0. OpSound(req[r]) /\ req[r] \in Request
  BY DEF RequestWhole
<1>1. CASE Insert(r)
  <2>1. CASE Goto(r, "record")
    BY <1>0, <1>1, <2>1, GotoFollows
       DEF Insert, Store, SameCall, OpSound, Accepted, Drawn, Remembers
  <2> QED
    BY <1>1, <2>1, ReplyFollows DEF Insert
<1>2. CASE InsertDuplicate(r)
  <2>1. CASE Goto(r, "recover") /\ req[r].op = "create"
    BY <1>0, <1>2, <2>1, GotoFollows
       DEF InsertDuplicate, SameCall, OpSound, Accepted, Drawn, Remembers
  <2>2. CASE /\ req[r].op = "reschedule"
             /\ req' = [req EXCEPT ![r].pc = "restore", ![r].reply = "SLOT_TAKEN"]
    <3>3. PICK q : q = [req[r] EXCEPT !.pc = "restore", !.reply = "SLOT_TAKEN"]
      OBVIOUS
    <3>0. req' = [req EXCEPT ![r] = q]
      BY <2>2, <3>3
    <3>4. q \in Request
      BY <1>0, <3>3, FieldsSet
    <3>1. q \in Request /\ SameCall(q, req[r]) /\ q.pc = "restore"
      BY <1>0, <3>3, <3>4 DEF Request, SameCall
    <3>2. OpSound(q) /\ Accepted(q) /\ ~Drawn(q) /\ (Remembers(q) => Remembers(req[r]))
      BY <1>2, <2>2, <3>1 DEF InsertDuplicate, SameCall, OpSound, Accepted, Drawn, Remembers
    <3> QED
      BY <3>0, <3>1, <3>2, GoesOnFollows
  <2> QED
    BY <1>2, <2>1, <2>2, ReplyFollows DEF InsertDuplicate
<1>3. CASE Record(r)
  BY <1>3, ReplyFollows DEF Record
<1>4. CASE RecordDuplicate(r)
  <2>1. CASE Goto(r, "resolve") /\ req[r].op = "create"
    BY <1>0, <1>4, <2>1, GotoFollows
       DEF RecordDuplicate, SameCall, OpSound, Accepted, Drawn, Remembers
  <2> QED
    BY <1>4, <2>1, ReplyFollows DEF RecordDuplicate
<1>5. CASE Resolve(r)
  <2>1. CASE Goto(r, "recover")
    BY <1>0, <1>5, <2>1, GotoFollows
       DEF Resolve, SameCall, OpSound, Accepted, Drawn, Remembers
  <2>2. CASE \E p \in Prior(CallOf(req[r])) : req' = [req EXCEPT ![r].pc = "undo", ![r].prior = p]
    <3>1. PICK p \in Bookings : req' = [req EXCEPT ![r].pc = "undo", ![r].prior = p]
      BY <2>2 DEF Prior
    <3>4. PICK q : q = [req[r] EXCEPT !.pc = "undo", !.prior = p]
      OBVIOUS
    <3>0. req' = [req EXCEPT ![r] = q]
      BY <3>1, <3>4
    <3>6. q \in Request
      BY <1>0, <3>4, FieldsSet
    <3>5. q \in Request /\ SameCall(q, req[r]) /\ q.pc = "undo"
      BY <1>0, <3>4, <3>6 DEF Request, SameCall
    <3>2. q.prior = p
      BY <3>4, RequestFacts DEF Request
    <3>3. OpSound(q) /\ Accepted(q) /\ ~Drawn(q) /\ ~Remembers(q)
      BY <1>0, <1>5, <3>2, <3>5 DEF Resolve, SameCall, OpSound, Accepted, Drawn, Remembers
    <3> QED
      BY <3>0, <3>5, <3>3, GoesOnFollows
  <2> QED
    BY <1>5, <2>1, <2>2 DEF Resolve
<1>6. CASE Undo(r) \/ Recover(r)
  BY <1>6, ReplyFollows DEF Undo, Recover
<1>7. CASE Restore(r)
  <2>1. req[r].reply \in {"none", "ok", "SLOT_INVALID", "SLOT_TAKEN", "NOT_FOUND",
          "NOT_CANCELLABLE", "NOT_ASSIGNABLE", "ALREADY_CLAIMED",
          "OUT_OF_SCOPE", "INVALID_REASON", "NOT_CLOSABLE", "error", "lost"}
    BY <1>0 DEF Request
  <2> QED
    BY <1>7, <2>1, ReplyFollows DEF Restore
<1> QED
  BY <1>1, <1>2, <1>3, <1>4, <1>5, <1>6, <1>7

LEMMA RestFollows ==
    ASSUME Whole, NEW r \in Requests, Cancel(r) \/ Release(r) \/ Claim(r) \/ WriteAudit(r)
    PROVE  Follows(r)
<1> USE RequestFacts DEF Points, Codes
<1>0. RequestWhole(req[r]) /\ req[r] \in Request
  OBVIOUS
<1>1. CASE Cancel(r)
  BY <1>1, ReplyFollows DEF Cancel
<1>2. CASE Release(r)
  <2>1. CASE Goto(r, "insert")
    BY <1>0, <1>2, <2>1, GotoFollows
       DEF Release, Store, SameCall, RequestWhole, OpSound, Accepted, Drawn, Remembers
  <2> QED
    BY <1>2, <2>1, ReplyFollows DEF Release
<1>3. CASE Claim(r)
  <2> DEFINE entry == [booking |-> req[r].target, actor |-> req[r].consultant,
                       action |-> "booking_assigned", outcome |-> None]
  <2>1. CASE req' = [req EXCEPT ![r].pc = "audit", ![r].entry = entry]
    <3>1. entry \in AuditRow /\ req[r].op = "assign"
      BY <1>0, <1>3 DEF Claim, RequestWhole, OpSound, ArgsSound, AuditRow
    <3> HIDE DEF entry
    <3>4. PICK q : q = [req[r] EXCEPT !.pc = "audit", !.entry = entry]
      OBVIOUS
    <3>0. req' = [req EXCEPT ![r] = q]
      BY <2>1, <3>4
    <3>6. q \in Request
      BY <1>0, <3>1, <3>4, FieldsSet
    <3>2. q \in Request /\ SameCall(q, req[r]) /\ q.pc = "audit"
      BY <1>0, <3>4, <3>6 DEF Request, SameCall
    <3>5. q.entry = entry
      BY <3>4, RequestFacts DEF Request
    <3>3. OpSound(q) /\ Accepted(q) /\ ~Drawn(q) /\ ~Remembers(q)
      BY <3>1, <3>2 DEF SameCall, OpSound, Accepted, Drawn, Remembers
    <3> QED
      BY <3>0, <3>1, <3>2, <3>3, <3>5, GoesOnFollows
  <2> QED
    BY <1>3, <2>1, ReplyFollows DEF Claim
<1>4. CASE WriteAudit(r)
  BY <1>4, ReplyFollows DEF WriteAudit
<1> QED
  BY <1>1, <1>2, <1>3, <1>4

LEMMA BreakFollows ==
    ASSUME Whole, NEW r \in Requests, Break(r)
    PROVE  Follows(r)
<1> USE RequestFacts DEF Codes
<1>1. \A code \in Codes : Reply(r, code) => Follows(r)
  BY ReplyFollows
<1>2. ASSUME Raise(r)
      PROVE  Follows(r)
  <2>1. CASE req[r].op = "reschedule" /\ req[r].pc \in {"insert", "record"}
    <3>3. PICK q : q = [req[r] EXCEPT !.pc = "restore", !.reply = "error"]
      OBVIOUS
    <3>0. req' = [req EXCEPT ![r] = q]
      BY <1>2, <2>1, <3>3 DEF Raise
    <3>4. q \in Request
      BY <3>3, FieldsSet DEF Points
    <3>1. q \in Request /\ SameCall(q, req[r]) /\ q.pc = "restore"
      BY <3>3, <3>4 DEF Request, SameCall
    <3>2. OpSound(q) /\ Accepted(q) /\ ~Drawn(q) /\ (Remembers(q) => Remembers(req[r]))
      BY <2>1, <3>1 DEF SameCall, OpSound, Accepted, Drawn, Remembers
    <3> QED
      BY <3>0, <3>1, <3>2, GoesOnFollows
  <2> QED
    BY <1>1, <1>2, <2>1 DEF Raise
<1> QED
  BY <1>1, <1>2 DEF Break, StorageError, LostAcknowledgement, Crash

\* Every step of a request.
LEMMA StepFollows ==
    ASSUME Whole, NEW r \in Requests, Arrive(r) \/ Advance(r) \/ Break(r)
    PROVE  Follows(r)
<1>1. CASE Arrive(r)
  <2>1. ASSUME NEW c \in Consultants, NEW b \in Bookings, NEW call \in ClosureCalls,
               Close(r, c, b, call[1], call[2])
        PROVE  Follows(r)
    <3>1. call[1] \in Outcomes
      BY ConstantsAssumption
    <3> QED
      BY <2>1, <3>1, CloseFollows
  <2> QED
    BY <1>1, <2>1, BeginCreateFollows, BeginRescheduleFollows, BeginCancelFollows,
       BeginAssignFollows DEF Arrive
<1>2. CASE Advance(r)
  BY <1>2, CheckFollows, LoadFollows, WritingFollows, RestFollows DEF Advance
<1>3. CASE Break(r)
  BY <1>3, BreakFollows
<1> QED
  BY <1>1, <1>2, <1>3

-----------------------------------------------------------------------------
(* Whole is inductive *)

\* A step of a request replaces entries of the collection.
LEMMA CollectionStays ==
    ASSUME TypeOK, NEW r \in Requests, Step(r)
    PROVE  bookings' = [b \in Bookings |-> bookings'[b]]
<1> USE DEF TypeOK
<1>0. UNCHANGED bookings => bookings' = [b \in Bookings |-> bookings'[b]]
  OBVIOUS
<1>1. \A x, row : OneRow(x, row) => bookings' = [b \in Bookings |-> bookings'[b]]
  BY DEF OneRow
<1>2. ASSUME Store(r) \/ Undo(r) \/ Restore(r)
      PROVE  bookings' = [b \in Bookings |-> bookings'[b]]
  BY <1>0, <1>1, <1>2 DEF Store, Undo, Restore, OneRow
<1>3. ASSUME Cancel(r) \/ Release(r)
      PROVE  bookings' = [b \in Bookings |-> bookings'[b]]
  BY <1>0, <1>3 DEF Cancel, Release
<1>4. ASSUME Claim(r)
      PROVE  bookings' = [b \in Bookings |-> bookings'[b]]
  BY <1>0, <1>4 DEF Claim
<1>5. ASSUME NEW c \in Consultants, NEW x \in Bookings, NEW call \in ClosureCalls,
             Close(r, c, x, call[1], call[2])
      PROVE  bookings' = [b \in Bookings |-> bookings'[b]]
  BY <1>0, <1>5 DEF Close
<1>6. ASSUME Arrive(r)
      PROVE  bookings' = [b \in Bookings |-> bookings'[b]]
  BY <1>0, <1>5, <1>6 DEF Arrive, BeginCreate, BeginReschedule, BeginCancel, BeginAssign
<1>7. ASSUME Advance(r)
      PROVE  bookings' = [b \in Bookings |-> bookings'[b]]
  <2>1. CASE Load(r) \/ Check(r) \/ InsertDuplicate(r) \/ Record(r) \/ RecordDuplicate(r)
             \/ Resolve(r) \/ Recover(r) \/ WriteAudit(r)
    BY <1>0, <2>1
       DEF Load, Check, InsertDuplicate, Record, RecordDuplicate, Resolve, Recover, WriteAudit
  <2> QED
    BY <1>2, <1>3, <1>4, <1>7, <2>1 DEF Advance, Insert
<1>8. ASSUME Break(r)
      PROVE  bookings' = [b \in Bookings |-> bookings'[b]]
  BY <1>0, <1>2, <1>8 DEF Break, StorageError, LostAcknowledgement, Crash
<1> QED
  BY <1>6, <1>7, <1>8 DEF Step

\* The row a request inserts.
LEMMA DraftIsWhole ==
    ASSUME Whole, NEW r \in Requests, Store(r)
    PROVE  Draft(req[r]) \in BookingRow /\ RowWhole(Draft(req[r]))
<1>1. /\ req[r].employee \in Employees /\ req[r].consultant \in Consultants
      /\ req[r].slot \in Slots
      /\ req[r].slot.start < req[r].slot.end /\ Serviced(req[r].consultant, req[r].employee)
  BY RequestFacts DEF Store, RequestWhole, OpSound, ArgsSound, Accepted
<1> QED
  BY <1>1, ConstantsAssumption DEF Draft, BookingRow, States, RowWhole, Live

LEMMA RowStaysWhole ==
    ASSUME Whole, NEW r \in Requests, Step(r), NEW b \in Bookings
    PROVE  bookings'[b] \in BookingRow /\ RowWhole(bookings'[b])
<1>1. bookings[b] \in BookingRow /\ RowWhole(bookings[b])
  BY DEF Whole, TypeOK, RowsWhole
<1>2. RowMoves(r, b)
  BY RequestMoves DEF Whole, Step
<1>3. CASE Ended(b)
  <2>1. PICK state \in Outcomes, closure \in Reasons \cup {None} :
               bookings'[b] = [bookings[b] EXCEPT !.state = state, !.closure = closure]
    BY <1>3 DEF Ended
  <2>2. bookings'[b] \in BookingRow
    BY <1>1, <2>1 DEF BookingRow, States
  <2>3. RowWhole(bookings'[b])
    BY <1>1, <1>3, <2>1 DEF Ended, Confirmed, RowWhole, Live, BookingRow, Outcomes
  <2> QED
    BY <2>2, <2>3
<1>4. CASE ClaimedBy(r, b)
  BY <1>1, <1>4 DEF ClaimedBy, Claimable, Confirmed, RowWhole, Live, BookingRow
<1>5. CASE RestoredBy(r, b)
  <2>1. /\ req[r].snapshot \in Snapshot
        /\ bookings[b].state = "cancelled"
        /\ req[r].snapshot.awaiting => req[r].snapshot.assigned = None
        /\ req[r].snapshot.assigned \in {None, bookings[b].consultant}
    BY <1>5, RequestFacts
       DEF RestoredBy, Restorable, RequestWhole, OpSound, SnapshotWhole, Remembers, Exists, Request
  <2>2. bookings'[b] = [bookings[b] EXCEPT !.state = "confirmed",
                                           !.awaiting = req[r].snapshot.awaiting,
                                           !.assigned = req[r].snapshot.assigned]
    BY <1>5 DEF RestoredBy, Restored
  <2>3. bookings'[b] \in BookingRow
    BY <1>1, <2>1, <2>2 DEF BookingRow, Snapshot, States
  <2>4. RowWhole(bookings'[b])
    BY <1>1, <2>1, <2>2 DEF RowWhole, Live, BookingRow
  <2> QED
    BY <2>3, <2>4
<1>6. CASE InsertedBy(r, b)
  BY <1>6, DraftIsWhole DEF InsertedBy
<1>7. CASE ErasedBy(r, b)
  BY <1>7 DEF ErasedBy, DeletedRow, AbsentRow, BookingRow, States, RowWhole, Live
<1> QED
  BY <1>1, <1>2, <1>3, <1>4, <1>5, <1>6, <1>7 DEF RowMoves

LEMMA RecordsTyped ==
    ASSUME Whole, NEW r \in Requests, Step(r)
    PROVE  /\ idem' \subseteq IdemRow
           /\ audit' \subseteq AuditRow
           /\ origin' \in [Bookings -> Calls \cup {None}]
           /\ now' \in Int /\ faults' \in Nat
<1>1. req[r].pc \in {"insert", "record"} => CallOf(req[r]) \in Calls /\ req[r].made \in Bookings
  BY RequestFacts
     DEF RequestWhole, OpSound, ArgsSound, CallOf, CompoundKey, Calls, Request
<1>2. TypeOK
  BY DEF Whole
<1>3. ASSUME Store(r)
      PROVE  origin' \in [Bookings -> Calls \cup {None}]
  BY <1>1, <1>2, <1>3 DEF Store, TypeOK
<1>4. ASSUME StoreKey(r)
      PROVE  idem' \subseteq IdemRow
  BY <1>1, <1>2, <1>4 DEF StoreKey, TypeOK, IdemRow
<1>5. ASSUME WriteAudit(r)
      PROVE  audit' \subseteq AuditRow
  BY <1>2, <1>5, RequestFacts DEF WriteAudit, TypeOK, RequestWhole
<1>6. CASE Arrive(r)
  BY <1>2, <1>6 DEF Arrive, BeginCreate, BeginReschedule, BeginCancel, BeginAssign, Close, TypeOK
<1>7. CASE Advance(r)
  <2>1. CASE \/ Load(r) \/ Check(r) \/ Cancel(r) \/ Release(r) \/ InsertDuplicate(r)
             \/ RecordDuplicate(r) \/ Resolve(r) \/ Undo(r) \/ Recover(r) \/ Restore(r) \/ Claim(r)
    BY <1>2, <2>1
       DEF Load, Check, Cancel, Release, InsertDuplicate, RecordDuplicate, Resolve, Undo, Recover,
           Restore, Claim, TypeOK
  <2>2. CASE Insert(r) \/ Record(r) \/ WriteAudit(r)
    BY <1>2, <1>3, <1>4, <1>5, <2>2 DEF Insert, Record, WriteAudit, TypeOK
  <2> QED
    BY <1>7, <2>1, <2>2 DEF Advance
<1>8. CASE Break(r)
  BY <1>2, <1>3, <1>4, <1>8 DEF Break, StorageError, LostAcknowledgement, Crash, Fault, TypeOK
<1> QED
  BY <1>6, <1>7, <1>8 DEF Step

LEMMA TypeKept ==
    ASSUME Whole, NEW r \in Requests, Step(r)
    PROVE  TypeOK'
<1>1. bookings' \in [Bookings -> BookingRow]
  BY CollectionStays, RowStaysWhole DEF Whole
<1>2. req' \in [Requests -> Request]
  BY StepFollows DEF Step, Follows, Becomes, Whole, TypeOK
<1>3. blocks' \subseteq Block
  BY BlocksOnlyRead DEF Step, Next, Whole, TypeOK
<1> QED
  BY <1>1, <1>2, <1>3, RecordsTyped DEF TypeOK

\* What a row says of whose session it is and when stays as long as it lives, and
\* only the request that drew its id makes it.
LEMMA RowHistory ==
    ASSUME Whole, NEW r \in Requests, Step(r), NEW b \in Bookings
    PROVE  /\ bookings[b].state = "absent" =>
                \/ bookings'[b].state = "absent"
                \/ InsertedBy(r, b) \/ ErasedBy(r, b)
           /\ bookings[b].state # "absent" =>
                /\ bookings'[b].state # "absent" \/ InsertedBy(r, b)
                /\ Live(bookings'[b]) =>
                     \/ /\ Live(bookings[b])
                        /\ bookings'[b].employee = bookings[b].employee
                        /\ bookings'[b].consultant = bookings[b].consultant
                        /\ bookings'[b].slot = bookings[b].slot
                     \/ InsertedBy(r, b)
<1>1. bookings[b] \in BookingRow
  BY DEF Whole, TypeOK
<1>2. RowMoves(r, b)
  BY RequestMoves DEF Whole, Step
<1>3. CASE Ended(b)
  BY <1>1, <1>3 DEF Ended, Confirmed, BookingRow, Live, Outcomes
<1>4. CASE ClaimedBy(r, b)
  BY <1>1, <1>4 DEF ClaimedBy, Claimable, Confirmed, BookingRow, Live
<1>5. CASE RestoredBy(r, b)
  BY <1>1, <1>5 DEF RestoredBy, Restorable, Restored, BookingRow, Live
<1>6. CASE ErasedBy(r, b)
  BY <1>6 DEF ErasedBy, DeletedRow, AbsentRow, Live
<1> QED
  BY <1>2, <1>3, <1>4, <1>5, <1>6 DEF RowMoves

\* An inserted row had been drawn, and was absent.
LEMMA InsertedIsNew ==
    ASSUME Whole, NEW r \in Requests, NEW b \in Bookings, InsertedBy(r, b)
    PROVE  Drawn(req[r]) /\ bookings[b].state = "absent" /\ req[r].made = b
BY RequestFacts DEF InsertedBy, Store, RequestWhole, OpSound, Drawn

LEMMA RequestsStayWhole ==
    ASSUME Whole, NEW r \in Requests, Step(r), NEW s \in Requests
    PROVE  RequestWhole(req[s])'
<1> DEFINE p == req'[s]
<1>0. PICK q : Becomes(r, q)
  BY StepFollows DEF Step, Follows
<1>1. /\ RequestWhole(p)
      /\ Drawn(p) => ~InsertedBy(r, p.made) /\ ~ErasedBy(r, p.made)
  <2>1. CASE s = r
    <3>1. p = q
      BY <1>0, <2>1, RequestFacts DEF Becomes
    <3> QED
      BY <1>0, <3>1 DEF Becomes, InsertedBy, ErasedBy
  <2>2. CASE s # r
    <3>1. p = req[s]
      BY <2>2, OthersUnmoved DEF Step, Whole
    <3>2. Drawn(p) => p.made \in Bookings
      BY <3>1, RequestFacts DEF RequestWhole, ArgsSound, Drawn
    <3> QED
      BY <2>2, <3>1, <3>2, RequestFacts DEF InsertedBy, ErasedBy, Whole, MadeOnce
  <2> QED
    BY <2>1, <2>2
<1> HIDE DEF p
<1>2. (Drawn(p) => p.made \in Bookings) /\ (Remembers(p) => p.target \in Bookings)
  BY <1>1 DEF RequestWhole, ArgsSound, Drawn, Remembers
<1>3. Drawn(p) => bookings'[p.made].state = "absent"
  BY <1>1, <1>2, RowHistory DEF RequestWhole
<1>4. ASSUME Remembers(p)
      PROVE  /\ bookings'[p.target].state # "absent"
             /\ p.snapshot.awaiting => p.snapshot.assigned = None
             /\ Live(bookings'[p.target]) =>
                  p.snapshot.assigned \in {None, bookings'[p.target].consultant}
  <2>1. /\ bookings[p.target].state # "absent"
        /\ p.snapshot.awaiting => p.snapshot.assigned = None
        /\ Live(bookings[p.target]) =>
             p.snapshot.assigned \in {None, bookings[p.target].consultant}
    BY <1>1, <1>4 DEF RequestWhole, SnapshotWhole, Exists, Live
  <2> QED
    BY <1>2, <1>4, <2>1, RowHistory, InsertedIsNew
<1>5. /\ OpSound(p) /\ ArgsSound(p) /\ Accepted(p)
      /\ p.pc = "audit" => p.entry \in AuditRow
  BY <1>1 DEF RequestWhole
<1> QED
  BY <1>3, <1>4, <1>5
     DEF RequestWhole, OpSound, ArgsSound, Accepted, SnapshotWhole, Drawn, Remembers, Exists, Live,
         Serviced, p

LEMMA MadeStaysOnce ==
    ASSUME Whole, NEW r \in Requests, Step(r)
    PROVE  MadeOnce'
<1>0. PICK q : Becomes(r, q)
  BY StepFollows DEF Step, Follows
<1>1. \A s \in Requests : req'[s] = IF s = r THEN q ELSE req[s]
  BY <1>0, RequestFacts DEF Becomes
<1>2. ASSUME NEW s \in Requests \ {r}, q.made # None
      PROVE  q.made # req[s].made
  BY <1>0, <1>2 DEF Becomes, MadeKept, Fresh, Whole, MadeOnce
<1>3. ASSUME NEW s \in Requests, NEW t \in Requests,
             req'[s].made # None, req'[s].made = req'[t].made
      PROVE  s = t
  BY <1>1, <1>2, <1>3 DEF Whole, MadeOnce
<1> QED
  BY <1>3 DEF MadeOnce

LEMMA WholeFrame ==
    ASSUME Whole, UNCHANGED <<bookings, req>>, TypeOK', Availability!IInv'
    PROVE  Whole'
BY DEF Whole, RowsWhole, RequestsWhole, RequestWhole, MadeOnce, OpSound, ArgsSound, Accepted,
     SnapshotWhole, Drawn, Remembers, Exists, Serviced, RowWhole, Live

LEMMA StepWhole ==
    ASSUME Whole, [SchedulingNext]_schedulingVars
    PROVE  Whole'
<1>0. Availability!IInv'
  BY AvailabilityKept DEF Whole
<1>1. ASSUME NEW r \in Requests, Step(r)
      PROVE  Whole'
  <2>1. RowsWhole'
    BY <1>1, RowStaysWhole DEF RowsWhole, RowWhole, Serviced, Live
  <2>2. RequestsWhole'
    BY <1>1, RequestsStayWhole DEF RequestsWhole
  <2> QED
    BY <1>0, <1>1, <2>1, <2>2, TypeKept, MadeStaysOnce DEF Whole
<1>2. ASSUME UNCHANGED <<bookings, req>>, TypeOK'
      PROVE  Whole'
  BY <1>0, <1>2, WholeFrame
<1>3. CASE Expire \/ Tick
  BY <1>2, <1>3 DEF Whole, TypeOK, Expire, Tick, Fault
<1>4. CASE UNCHANGED <<bookings, idem, audit, req, now, faults, origin>>
  <2>1. blocks' \subseteq Block
    BY <1>0 DEF Availability!IInv, Availability!TypeOK, Availability!Block, Block
  <2> QED
    BY <1>2, <1>4, <2>1 DEF Whole, TypeOK
<1> QED
  BY <1>1, <1>3, <1>4 DEF SchedulingNext, schedulingVars, Next, Step

LEMMA WholeAtRest ==
    ASSUME Availability!IInv, RowsWhole,
           bookings \in [Bookings -> BookingRow],
           blocks = Published, idem = {}, audit = {}, now = 0, faults = 0,
           req = [r \in Requests |-> Idle],
           origin = [b \in Bookings |-> None]
    PROVE  Whole
<1>1. TypeOK
  BY IdleIsRequest, ConstantsAssumption DEF TypeOK, Block
<1>2. \A r \in Requests : req[r].pc = "idle" /\ req[r].op = "none" /\ req[r].made = None
  BY DEF Idle
<1>3. RequestsWhole /\ MadeOnce
  BY <1>2 DEF RequestsWhole, RequestWhole, OpSound, ArgsSound, Drawn, Accepted, SnapshotWhole,
       Remembers, MadeOnce
<1> QED
  BY <1>1, <1>3 DEF Whole

LEMMA AbsentIsWhole == AbsentRow \in BookingRow /\ RowWhole(AbsentRow)
BY DEF AbsentRow, BookingRow, States, RowWhole, Live

LEMMA InitWhole == SchedulingInit => Whole
BY WholeAtRest, AbsentIsWhole, InitComposed DEF SchedulingInit, Init, RowsWhole

LEMMA LegacyInitWhole == LegacyInit => Whole
<1> SUFFICES ASSUME LegacyInit PROVE Whole
  OBVIOUS
<1>1. Availability!IInv /\ blocks = Published
  BY SameInit, SameIInv, AvailabilityFits, Publishing!InitIInv DEF LegacyInit, Availability!Init
<1>2. ASSUME NEW e \in Employees, NEW c \in ActiveConsultants, NEW s \in Slots,
             TenantOf[e] \in Serves[c], s.start < s.end
      PROVE  LegacyRow(e, c, s) \in BookingRow /\ RowWhole(LegacyRow(e, c, s))
  BY <1>2, ConstantsAssumption
     DEF LegacyRow, AbsentRow, BookingRow, States, RowWhole, Live, Serviced
<1>3. bookings \in [Bookings -> BookingRow] /\ RowsWhole
  BY <1>2, AbsentIsWhole DEF LegacyInit, RowsWhole
<1> QED
  BY <1>1, <1>3, WholeAtRest DEF LegacyInit

\* What a listing offers is what a create would store, but for starts that are taken
\* by sessions with other tenants, whatever has been published, patched, booked, moved
\* or withdrawn before.
LEMMA WholeListing == Whole => ListingAgrees
<1> SUFFICES ASSUME Whole PROVE ListingAgrees
  OBVIOUS
<1>1. Availability!TypeOK
  BY DEF Whole, Availability!IInv
<1>2. SlotsTakeTime
  BY DEF Whole, RowsWhole, RowWhole, SlotsTakeTime, Confirmed, Live
<1> QED
  BY <1>1, <1>2, ListingIsRight

-----------------------------------------------------------------------------
(* Sessions of the old version *)

LEMMA LegacyInitSound == LegacyInit => LegacySound
<1> SUFFICES ASSUME LegacyInit PROVE LegacySound
  OBVIOUS
<1>1. \A r \in Requests : req[r].made = None /\ ~Remembers(req[r])
  BY DEF LegacyInit, Idle, Remembers
<1>2. CASE legacy = {} /\ bookings = [b \in Bookings |-> AbsentRow]
  BY <1>1, <1>2 DEF LegacySound, Exists, AbsentRow
<1>3. ASSUME NEW b \in Bookings, NEW e \in Employees, NEW c \in ActiveConsultants, NEW s \in Slots,
             legacy = {b},
             bookings = [x \in Bookings |-> IF x = b THEN LegacyRow(e, c, s) ELSE AbsentRow]
      PROVE  LegacySound
  <2>1. \A x \in Bookings : IF x = b THEN Exists(x) /\ Unclaimed(bookings[x]) ELSE ~Exists(x)
    BY <1>3 DEF Exists, Unclaimed, LegacyRow, AbsentRow
  <2> QED
    BY <1>1, <1>3, <2>1, ConstantsAssumption DEF LegacySound
<1> QED
  BY <1>2, <1>3 DEF LegacyInit

\* A restore that takes a legacy session out of legacy puts it into undone, and
\* nothing else changes who waits for nobody.
LEMMA ServeSound ==
    ASSUME Whole, LegacySound, NEW r \in Requests, Step(r),
           legacy' = legacy \ PutBack, undone' = undone \cup PutBack
    PROVE  LegacySound'
<1>0. PICK q : Becomes(r, q)
  BY StepFollows DEF Step, Follows
<1>1. \A b \in Bookings : RowMoves(r, b)
  BY RequestMoves DEF Whole, Step
<1>2. \A b \in Bookings : bookings[b] \in BookingRow /\ RowWhole(bookings[b])
  BY DEF Whole, TypeOK, RowsWhole
<1>3. PutBack \subseteq legacy
  BY DEF PutBack
<1>4. ASSUME NEW b \in legacy'
      PROVE  Exists(b)' /\ Unclaimed(bookings'[b])
  <2>1. b \in Bookings /\ b \in legacy /\ Exists(b) /\ Unclaimed(bookings[b]) /\ req[r].made # b
    BY DEF LegacySound
  <2>2. CASE Ended(b)
    BY <1>2, <2>1, <2>2 DEF Ended, Exists, Unclaimed, BookingRow, Outcomes
  <2>3. CASE RestoredBy(r, b)
    <3>1. bookings[b].state = "cancelled" /\ bookings'[b].state = "confirmed"
      BY <1>2, <2>1, <2>3 DEF RestoredBy, Restorable, Restored, BookingRow
    <3> QED
      BY <2>1, <3>1 DEF PutBack
  <2> QED
    BY <1>1, <2>1, <2>2, <2>3 DEF RowMoves, ClaimedBy, Claimable, Unclaimed, InsertedBy, ErasedBy, Exists
<1>5. ASSUME NEW b \in Bookings, Exists(b)', Unclaimed(bookings'[b])
      PROVE  b \in legacy \cup undone
  <2>1. CASE Ended(b)
    BY <1>2, <1>5, <2>1 DEF Ended, Confirmed, Exists, Unclaimed, BookingRow, LegacySound
  <2>2. CASE ClaimedBy(r, b)
    <3>1. bookings'[b].assigned = bookings[b].consultant /\ bookings[b].consultant \in Consultants
      BY <1>2, <2>2 DEF ClaimedBy, Claimable, Confirmed, BookingRow, RowWhole, Live
    <3> QED
      BY <1>5, <3>1, ConstantsAssumption DEF Unclaimed
  <2>3. CASE RestoredBy(r, b)
    <3>1. Remembers(req[r]) /\ req[r].target = b
      BY <2>3, RequestFacts DEF RestoredBy, Remembers, RequestWhole, OpSound
    <3>2. Unclaimed(req[r].snapshot)
      BY <1>2, <1>5, <2>3, RequestFacts
         DEF RestoredBy, Restored, Unclaimed, BookingRow, Request, Snapshot
    <3> QED
      BY <3>1, <3>2 DEF LegacySound
  <2>4. CASE InsertedBy(r, b)
    BY <1>5, <2>4 DEF InsertedBy, Draft, Unclaimed
  <2>5. CASE ErasedBy(r, b)
    BY <1>5, <2>5 DEF ErasedBy, DeletedRow, AbsentRow, Exists
  <2> QED
    BY <1>1, <1>5, <2>1, <2>2, <2>3, <2>4, <2>5 DEF RowMoves, LegacySound, Exists
<1>6. ASSUME NEW s \in Requests
      PROVE  /\ req'[s].made \notin legacy
             /\ Remembers(req'[s]) /\ Unclaimed(req'[s].snapshot) => req'[s].target \in legacy \cup undone
  <2>1. CASE s = r
    <3>1. req'[s] = q
      BY <1>0, <2>1, RequestFacts DEF Becomes
    <3>2. q.made \notin legacy
      BY <1>0, RequestFacts DEF Becomes, MadeKept, Fresh, LegacySound, Exists
    <3>3. ASSUME Remembers(q), Unclaimed(q.snapshot)
          PROVE  q.target \in legacy \cup undone
      <4>1. q.target \in Bookings
        BY <1>0, <3>3 DEF Becomes, RequestWhole, ArgsSound, Remembers
      <4> QED
        BY <1>0, <3>3, <4>1 DEF Becomes, SnapshotKept, LegacySound, Unclaimed
    <3> QED
      BY <3>1, <3>2, <3>3
  <2>2. CASE s # r
    BY <2>2, OthersUnmoved DEF Step, Whole, LegacySound
  <2> QED
    BY <2>1, <2>2
<1> QED
  BY <1>3, <1>4, <1>5, <1>6 DEF LegacySound, Remembers, Unclaimed

LEMMA LegacyFrame ==
    ASSUME Whole, LegacySound, UNCHANGED <<bookings, req>>,
           legacy' = legacy \ PutBack, undone' = undone \cup PutBack
    PROVE  LegacySound'
<1>1. PutBack = {}
  BY DEF PutBack
<1> QED
  BY <1>1 DEF LegacySound, Exists, Remembers, Unclaimed

LEMMA MigrateSound ==
    ASSUME Whole, LegacySound, NEW b \in Bookings, Migrate(b)
    PROVE  Whole' /\ LegacySound'
<1>1. b \in legacy /\ Exists(b) /\ Unclaimed(bookings[b])
  BY DEF Migrate, LegacySound
<1>2. bookings[b] \in BookingRow /\ RowWhole(bookings[b])
  BY DEF Whole, TypeOK, RowsWhole
<1>3. /\ Backfilled(b) \in BookingRow /\ RowWhole(Backfilled(b))
      /\ Live(Backfilled(b)) /\ Backfilled(b).assigned # None
  BY <1>1, <1>2, ConstantsAssumption DEF Backfilled, BookingRow, RowWhole, Live, Exists
<1>4. \A x \in Bookings : bookings'[x] = IF x = b THEN Backfilled(b) ELSE bookings[x]
  BY DEF Migrate, Whole, TypeOK
<1>5. \A r \in Requests : req[r].pc = "idle" /\ req[r].op = "none" /\ req[r].made = None
  BY RequestFacts DEF Migrate, InFlight, RequestWhole, OpSound
<1> HIDE DEF Migrate
<1>6. UNCHANGED <<idem, audit, blocks, req, now, faults, origin, edit, drawn, undone>>
      /\ legacy' = legacy \ {b} /\ bookings' = [bookings EXCEPT ![b] = Backfilled(b)]
  BY DEF Migrate
<1>7. TypeOK'
  BY <1>3, <1>6 DEF Whole, TypeOK
<1>8. Availability!IInv'
  BY <1>6 DEF Whole, Availability!IInv, Availability!TypeOK, Availability!BlocksStayValid,
       Availability!EditsSound, Availability!Present, Availability!AllowedWindow
<1>9. RowsWhole'
  BY <1>3, <1>4 DEF Whole, RowsWhole, RowWhole, Serviced, Live
<1>10. RequestsWhole' /\ MadeOnce'
  BY <1>5, <1>6 DEF RequestsWhole, RequestWhole, OpSound, ArgsSound, Drawn, Accepted,
       SnapshotWhole, Remembers, MadeOnce
<1>11. LegacySound'
  <2>1. \A r \in Requests : ~Remembers(req[r])
    BY <1>5 DEF Remembers
  <2>2. ASSUME NEW x \in Bookings, Exists(x)', Unclaimed(bookings'[x])
        PROVE  x \in legacy' \cup undone'
    BY <1>3, <1>4, <1>6, <2>2 DEF LegacySound, Unclaimed, Exists
  <2>3. ASSUME NEW x \in legacy'
        PROVE  Exists(x)' /\ Unclaimed(bookings'[x])
    BY <1>4, <1>6 DEF LegacySound, Unclaimed, Exists
  <2> QED
    BY <1>5, <1>6, <2>1, <2>2, <2>3 DEF LegacySound, Remembers, Unclaimed
<1> QED
  BY <1>7, <1>8, <1>9, <1>10, <1>11 DEF Whole

LEMMA StepLegacy ==
    ASSUME Whole, LegacySound, [LegacyNext]_legacyVars
    PROVE  Whole' /\ LegacySound'
<1>1. CASE Serve
  <2>1. Whole'
    BY <1>1, StepWhole DEF Serve
  <2>2. legacy' = legacy \ PutBack /\ undone' = undone \cup PutBack
    BY <1>1 DEF Serve
  <2>3. (\E r \in Requests : Step(r)) \/ UNCHANGED <<bookings, req>>
    BY <1>1 DEF Serve, SchedulingNext, Next, Step, Expire, Tick
  <2> QED
    BY <2>1, <2>2, <2>3, ServeSound, LegacyFrame
<1>2. CASE \E b \in Bookings : Migrate(b)
  BY <1>2, MigrateSound
<1>3. CASE UNCHANGED legacyVars
  <2>1. UNCHANGED schedulingVars
    BY <1>3 DEF legacyVars, schedulingVars
  <2>2. Whole'
    BY <2>1, StepWhole
  <2> QED
    BY <1>3, <2>2 DEF legacyVars, LegacySound, Exists, Remembers, Unclaimed
<1> QED
  BY <1>1, <1>2, <1>3 DEF LegacyNext

\* A slot is listed exactly when a create for it would be stored, or would be but for a
\* session with another tenant at its very start, also while the database holds
\* sessions of the old version.
THEOREM ListingsAgree == LegacySpec => []ListingAgrees
<1>1. LegacyInit => Whole /\ LegacySound
  BY LegacyInitWhole, LegacyInitSound
<1>2. Whole /\ LegacySound /\ [LegacyNext]_legacyVars => (Whole /\ LegacySound)'
  BY StepLegacy
<1> QED
  BY <1>1, <1>2, WholeListing, PTL DEF LegacySpec

\* The same from an empty database.
THEOREM ListingsAgreeWithoutLegacy == SchedulingSpec => []ListingAgrees
<1>1. Whole /\ [SchedulingNext]_schedulingVars => Whole'
  BY StepWhole
<1> QED
  BY <1>1, InitWhole, WholeListing, PTL DEF SchedulingSpec

\* A session is always on a screen of its consultant, or a later start will put it
\* there, unless a reschedule that failed took it for one without the fields.
THEOREM SessionsStayVisible == LegacySpec => []SessionsAreVisible
<1>1. LegacyInit => Whole /\ LegacySound
  BY LegacyInitWhole, LegacyInitSound
<1>2. Whole /\ LegacySound /\ [LegacyNext]_legacyVars => (Whole /\ LegacySound)'
  BY StepLegacy
<1>3. Whole /\ LegacySound => SessionsAreVisible
  <2> SUFFICES ASSUME Whole, LegacySound, NEW b \in Bookings, Confirmed(b)
               PROVE  LET c == bookings[b].consultant IN
                      /\ b \in Calendar(c)
                      /\ ~(b \in AssignmentQueue(c) /\ b \in OpenAssigned(c))
                      /\ b \in AssignmentQueue(c) \cup OpenAssigned(c) \cup legacy \cup undone
                      /\ b \in legacy => b \notin AssignmentQueue(c) \cup OpenAssigned(c)
    BY DEF SessionsAreVisible
  <2> DEFINE c == bookings[b].consultant
  <2>1. /\ c \in Consultants /\ bookings[b] \in BookingRow
        /\ InScope(c, b)
        /\ bookings[b].awaiting => bookings[b].assigned = None
        /\ bookings[b].assigned \in {None, c}
    BY DEF Whole, TypeOK, RowsWhole, RowWhole, Live, Confirmed, InScope, Serviced, BookingTenant
  <2>2. b \in Calendar(c)
    BY <2>1 DEF Calendar
  <2>3. b \in AssignmentQueue(c) <=> bookings[b].awaiting
    BY <2>1 DEF AssignmentQueue
  <2>4. b \in OpenAssigned(c) <=> ~bookings[b].awaiting /\ bookings[b].assigned = c
    BY <2>1 DEF OpenAssigned
  <2>5. ~bookings[b].awaiting /\ bookings[b].assigned # c => b \in legacy \cup undone
    BY <2>1 DEF LegacySound, Exists, Confirmed, Unclaimed
  <2>6. b \in legacy => Unclaimed(bookings[b])
    BY DEF LegacySound
  <2> QED
    BY <2>1, <2>2, <2>3, <2>4, <2>5, <2>6, ConstantsAssumption DEF Unclaimed
<1> QED
  BY <1>1, <1>2, <1>3, PTL DEF LegacySpec

-----------------------------------------------------------------------------
(* Requests that keep out of each other's way *)

\* What stands after a step stood before, or the step confirmed it.
LEMMA Confirming ==
    ASSUME Whole, NEW r \in Requests, Step(r), NEW b \in Bookings, Confirmed(b)'
    PROVE  \/ /\ Confirmed(b)
              /\ bookings'[b].employee = bookings[b].employee
              /\ bookings'[b].consultant = bookings[b].consultant
              /\ bookings'[b].slot = bookings[b].slot
           \/ RestoredBy(r, b) \/ InsertedBy(r, b)
<1>1. bookings[b] \in BookingRow
  BY DEF Whole, TypeOK
<1>2. RowMoves(r, b)
  BY RequestMoves DEF Whole, Step
<1>3. ~Ended(b)
  BY <1>1 DEF Ended, Confirmed, BookingRow, Outcomes
<1>4. CASE ClaimedBy(r, b)
  BY <1>1, <1>4 DEF ClaimedBy, Claimable, Confirmed, BookingRow
<1> QED
  BY <1>2, <1>3, <1>4 DEF RowMoves, ErasedBy, DeletedRow, AbsentRow, Confirmed

\* A restore gives the old row back to its employee, at its time.
LEMMA RestoredSession ==
    ASSUME Whole, NEW r \in Requests, NEW b \in Bookings, RestoredBy(r, b)
    PROVE  /\ bookings'[b].employee = bookings[b].employee
           /\ bookings'[b].consultant = bookings[b].consultant
           /\ bookings'[b].slot = bookings[b].slot
           /\ bookings'[b].assigned = req[r].snapshot.assigned
           /\ bookings'[b].awaiting = req[r].snapshot.awaiting
           /\ Restored(req[r]).consultant = bookings[b].consultant
           /\ Restored(req[r]).slot = bookings[b].slot
           /\ req[r].op = "reschedule" /\ Remembers(req[r])
           /\ bookings[b].state = "cancelled" /\ bookings[b].employee = req[r].employee
BY RequestFacts
   DEF RestoredBy, Restorable, Restored, Whole, TypeOK, BookingRow, RequestWhole, OpSound, Remembers

LEMMA StartsStayUnique ==
    ASSUME Whole, SlotUnique, NEW r \in Requests, Step(r)
    PROVE  SlotUnique'
<1> SUFFICES ASSUME NEW x \in Bookings, NEW y \in Bookings, x # y,
                    Confirmed(x)', Confirmed(y)',
                    bookings'[x].consultant = bookings'[y].consultant,
                    bookings'[x].slot.start = bookings'[y].slot.start
             PROVE  FALSE
  BY DEF SlotUnique
<1>1. ASSUME NEW u \in Bookings, NEW v \in Bookings, u # v,
             RestoredBy(r, u) \/ InsertedBy(r, u), Confirmed(v)',
             bookings'[u].consultant = bookings'[v].consultant,
             bookings'[u].slot.start = bookings'[v].slot.start
      PROVE  FALSE
  <2>1. ~RestoredBy(r, v) /\ ~InsertedBy(r, v)
    BY <1>1 DEF RestoredBy, InsertedBy, Store
  <2>2. /\ Confirmed(v)
        /\ bookings'[v].consultant = bookings[v].consultant
        /\ bookings'[v].slot = bookings[v].slot
    BY <1>1, <2>1, Confirming
  <2>3. CASE RestoredBy(r, u)
    BY <1>1, <2>2, <2>3, RestoredSession DEF RestoredBy, Indexed
  <2>4. CASE InsertedBy(r, u)
    BY <1>1, <2>2, <2>4 DEF InsertedBy, Store, Indexed
  <2> QED
    BY <1>1, <2>3, <2>4
<1> QED
  BY <1>1, Confirming DEF SlotUnique

\* The way of a create or a reschedule from its check to its end.
Accepts(r, p) ==
    /\ req[r].pc = "check" /\ UNCHANGED bookings
    /\ ~Clash(req[r].consultant, TenantOf[req[r].employee], req[r].slot, req[r].target)
    /\ p.pc = IF p.op = "create" THEN "insert" ELSE "cancel"

Releases(r, p) ==
    /\ req[r].pc = "cancel" /\ req[r].op = "reschedule" /\ p.pc = "insert"
    /\ Withdrawable(req[r].target, req[r].employee)
    /\ bookings' = [bookings EXCEPT ![req[r].target].state = "cancelled"]

GivesUp(r, p) ==
    /\ req[r].op = "reschedule" /\ p.pc = "restore"
    /\ \/ req[r].pc = "insert" /\ UNCHANGED bookings
       \/ req[r].pc = "record" /\ "error" \in FaultKinds
       \/ "unacknowledged" \in FaultKinds

Inserts(r, p) == req[r].pc = "insert" /\ p.pc = "record" /\ req[r].key # None

LEMMA GotoTo ==
    ASSUME TypeOK, NEW r \in Requests, NEW at \in Points, Goto(r, at)
    PROVE  /\ req'[r].pc = at /\ SameCall(req'[r], req[r]) /\ req'[r].key = req[r].key
           /\ req'[r] = [req[r] EXCEPT !.pc = at]
BY DEF TypeOK, Goto, Request, SameCall

LEMMA RaiseTo ==
    ASSUME TypeOK, NEW r \in Requests, Raise(r)
    PROVE  \/ req'[r].pc = "idle"
           \/ /\ req[r].op = "reschedule" /\ req[r].pc \in {"insert", "record"}
              /\ req'[r].pc = "restore"
              /\ SameCall(req'[r], req[r]) /\ req'[r].key = req[r].key
<1>1. CASE req[r].op = "reschedule" /\ req[r].pc \in {"insert", "record"}
  BY <1>1 DEF TypeOK, Raise, Request, SameCall
<1> QED
  BY <1>1 DEF TypeOK, Raise, Reply, Idle

LEMMA ReplyTo ==
    ASSUME TypeOK, NEW r \in Requests, NEW code, Reply(r, code)
    PROVE  req'[r].pc = "idle"
BY DEF TypeOK, Reply, Idle

LEMMA HowFar ==
    ASSUME Whole, NEW r \in Requests, Step(r),
           req'[r].op \in {"create", "reschedule"},
           req'[r].pc \in {"cancel", "insert", "record", "restore"}
    PROVE  /\ SameCall(req'[r], req[r]) /\ req'[r].key = req[r].key
           /\ \/ Accepts(r, req'[r]) \/ Releases(r, req'[r])
              \/ GivesUp(r, req'[r]) \/ Inserts(r, req'[r])
<1> DEFINE p == req'[r]
<1>0. TypeOK /\ OpSound(req[r]) /\ \A code : ~Reply(r, code)
  BY ReplyTo, RequestFacts DEF Whole, RequestWhole
<1>1. ASSUME Arrive(r)
      PROVE  FALSE
  <2>0. \A q : req' = [req EXCEPT ![r] = q] => p = q
    BY <1>0 DEF TypeOK
  <2>1. ASSUME NEW e \in Employees, NEW c \in Consultants, NEW s \in Slots,
               NEW k \in Keys \cup {None}, BeginCreate(r, e, c, s, k)
        PROVE  FALSE
    <3>1. PICK b \in Bookings :
            p = [Idle EXCEPT !.pc = "check", !.op = "create", !.employee = e, !.consultant = c,
                             !.slot = s, !.key = k, !.made = b, !.since = now]
      BY <1>0, <2>0, <2>1 DEF BeginCreate
    <3> QED
      BY <3>1 DEF Idle
  <2>2. ASSUME NEW e \in Employees, NEW b \in Bookings, NEW c \in Consultants, NEW s \in Slots,
               NEW k \in Keys \cup {None}, BeginReschedule(r, e, b, c, s, k)
        PROVE  FALSE
    <3>1. PICK m \in Bookings :
            p = [Idle EXCEPT !.pc = "load", !.op = "reschedule", !.employee = e,
                             !.consultant = c, !.slot = s, !.key = k,
                             !.target = b, !.made = m, !.since = now]
      BY <1>0, <2>0, <2>2 DEF BeginReschedule
    <3> QED
      BY <3>1 DEF Idle
  <2>3. ASSUME NEW e \in Employees, NEW b \in Bookings, BeginCancel(r, e, b)
        PROVE  FALSE
    <3>1. p = [Idle EXCEPT !.pc = "cancel", !.op = "cancel", !.employee = e,
                           !.target = b, !.since = now]
      BY <1>0, <2>0, <2>3 DEF BeginCancel
    <3> QED
      BY <3>1 DEF Idle
  <2>4. ASSUME NEW c \in Consultants, NEW b \in Bookings, BeginAssign(r, c, b)
        PROVE  FALSE
    <3>1. p = [Idle EXCEPT !.pc = "claim", !.op = "assign", !.consultant = c,
                           !.target = b, !.since = now]
      BY <1>0, <2>0, <2>4 DEF BeginAssign
    <3> QED
      BY <3>1 DEF Idle
  <2>5. ASSUME NEW c \in Consultants, NEW b \in Bookings, NEW call \in ClosureCalls,
               Close(r, c, b, call[1], call[2])
        PROVE  FALSE
    <3>1. p = [Idle EXCEPT !.pc = "audit", !.op = "close", !.consultant = c,
                           !.target = b, !.since = now,
                           !.entry = [booking |-> b, actor |-> c,
                                      action |-> "booking_closed", outcome |-> call[1]]]
      BY <1>0, <2>0, <2>5 DEF Close
    <3> QED
      BY <3>1 DEF Idle
  <2> QED
    BY <1>1, <2>1, <2>2, <2>3, <2>4, <2>5 DEF Arrive
<1>2. ASSUME Check(r)
      PROVE  SameCall(p, req[r]) /\ p.key = req[r].key /\ Accepts(r, p)
  <2>1. Goto(r, IF req[r].op = "create" THEN "insert" ELSE "cancel")
    BY <1>0, <1>2 DEF Check
  <2>2. /\ p.pc = (IF req[r].op = "create" THEN "insert" ELSE "cancel")
        /\ SameCall(p, req[r]) /\ p.key = req[r].key
    BY <1>0, <2>1, GotoTo DEF Points
  <2> QED
    BY <1>0, <1>2, <2>2 DEF Check, Accepts, SameCall
<1>3. ASSUME Release(r)
      PROVE  SameCall(p, req[r]) /\ p.key = req[r].key /\ Releases(r, p)
  <2>1. p.pc = "insert" /\ SameCall(p, req[r]) /\ p.key = req[r].key
    BY <1>0, <1>3, GotoTo DEF Release, Points
  <2> QED
    BY <1>0, <1>3, <2>1 DEF Release, Releases
<1>4. ASSUME Insert(r)
      PROVE  SameCall(p, req[r]) /\ p.key = req[r].key /\ Inserts(r, p)
  <2>1. p.pc = "record" /\ SameCall(p, req[r]) /\ p.key = req[r].key /\ req[r].key # None
    BY <1>0, <1>4, GotoTo DEF Insert, Points
  <2> QED
    BY <1>4, <2>1 DEF Insert, Store, Inserts
<1>5. ASSUME InsertDuplicate(r)
      PROVE  SameCall(p, req[r]) /\ p.key = req[r].key /\ GivesUp(r, p)
  <2>1. ~Goto(r, "recover")
    BY <1>0, GotoTo DEF Points
  <2>2. /\ req[r].op = "reschedule"
        /\ req' = [req EXCEPT ![r].pc = "restore", ![r].reply = "SLOT_TAKEN"]
    BY <1>0, <1>5, <2>1 DEF InsertDuplicate
  <2>3. p.pc = "restore" /\ SameCall(p, req[r]) /\ p.key = req[r].key
    BY <1>0, <2>2 DEF TypeOK, Request, SameCall
  <2> QED
    BY <1>5, <2>2, <2>3 DEF InsertDuplicate, GivesUp
<1>6. ASSUME Break(r)
      PROVE  SameCall(p, req[r]) /\ p.key = req[r].key /\ GivesUp(r, p)
  <2>1. Raise(r) /\ (StorageError(r) \/ LostAcknowledgement(r))
    BY <1>0, <1>6 DEF Break, StorageError, LostAcknowledgement, Crash
  <2>2. /\ req[r].op = "reschedule" /\ req[r].pc \in {"insert", "record"}
        /\ p.pc = "restore" /\ SameCall(p, req[r]) /\ p.key = req[r].key
    BY <1>0, <2>1, RaiseTo
  <2> QED
    BY <2>1, <2>2 DEF StorageError, LostAcknowledgement, Fault, GivesUp
<1>7. ASSUME Load(r) \/ Claim(r)
      PROVE  FALSE
  BY <1>0, <1>7 DEF Load, Claim, TypeOK, Request
<1>8. ASSUME RecordDuplicate(r) \/ Resolve(r)
      PROVE  FALSE
  <2>1. ~Goto(r, "resolve") /\ ~Goto(r, "recover")
    BY <1>0, GotoTo DEF Points
  <2>2. ~\E x \in Prior(CallOf(req[r])) : req' = [req EXCEPT ![r].pc = "undo", ![r].prior = x]
    BY <1>0 DEF TypeOK, Request
  <2> QED
    BY <1>0, <1>8, <2>1, <2>2 DEF RecordDuplicate, Resolve
<1>9. ~Cancel(r) /\ ~Record(r) /\ ~Undo(r) /\ ~Recover(r) /\ ~Restore(r) /\ ~WriteAudit(r)
  BY <1>0 DEF Cancel, Record, Undo, Recover, Restore, WriteAudit
<1> QED
  BY <1>1, <1>2, <1>3, <1>4, <1>5, <1>6, <1>7, <1>8, <1>9 DEF Step, Advance

\* Nobody changes the assignment of a session between the snapshot of a reschedule and
\* its restore, unless he deletes it.
LEMMA AssignmentStays ==
    ASSUME Whole, ClaimsWait, FreshSnapshots, NEW r \in Requests, Step(r),
           NEW x \in Requests, Remembers(req[x]), NEW b \in Bookings, b = req[x].target,
           Exists(b)'
    PROVE  /\ Exists(b)
           /\ bookings'[b].awaiting = bookings[b].awaiting
           /\ bookings'[b].assigned = bookings[b].assigned
<1>1. bookings[b] \in BookingRow /\ bookings[b].state # "absent"
  BY RequestFacts DEF RequestWhole, SnapshotWhole, Whole, TypeOK
<1>2. RowMoves(r, b)
  BY RequestMoves DEF Whole, Step
<1>3. ~InsertedBy(r, b)
  BY <1>1, InsertedIsNew
<1>4. ~ErasedBy(r, b)
  BY DEF ErasedBy, DeletedRow, AbsentRow, Exists
<1>5. ~ClaimedBy(r, b)
  BY DEF ClaimedBy, ClaimsWait
<1>6. CASE Ended(b)
  BY <1>1, <1>6 DEF Ended, BookingRow, Confirmed, Exists
<1>7. CASE RestoredBy(r, b)
  <2>1. Exists(b)
    BY <1>7, RestoredSession DEF Exists
  <2> QED
    BY <1>7, <2>1, RestoredSession DEF RestoredBy, FreshSnapshots, SnapshotFresh
<1>8. CASE bookings'[b] = bookings[b]
  BY <1>8 DEF Exists
<1> QED
  BY <1>2, <1>3, <1>4, <1>5, <1>6, <1>7, <1>8 DEF RowMoves

LEMMA SnapshotsStayFresh ==
    ASSUME Whole, ClaimsWait, FreshSnapshots, NEW r \in Requests, Step(r)
    PROVE  FreshSnapshots'
<1> SUFFICES ASSUME NEW x \in Requests PROVE SnapshotFresh(req[x])'
  BY DEF FreshSnapshots
<1>0. PICK q : Becomes(r, q)
  BY StepFollows DEF Step, Follows
<1>p. PICK p : p = req'[x]
  OBVIOUS
<1> SUFFICES ASSUME Remembers(p), Exists(p.target)'
             PROVE  /\ p.snapshot.awaiting = bookings'[p.target].awaiting
                    /\ p.snapshot.assigned = bookings'[p.target].assigned
  BY <1>p DEF SnapshotFresh, Remembers, Exists
<1>1. CASE /\ UNCHANGED bookings
           /\ p.snapshot = [awaiting |-> bookings[p.target].awaiting,
                            assigned |-> bookings[p.target].assigned]
  BY <1>1
<1>2. CASE /\ Remembers(req[x])
           /\ p.snapshot = req[x].snapshot /\ p.target = req[x].target
  <2> DEFINE b == p.target
  <2>1. b \in Bookings
    BY <1>2, RequestFacts DEF RequestWhole, ArgsSound, Remembers
  <2>3. /\ Exists(b)
        /\ bookings'[b].awaiting = bookings[b].awaiting
        /\ bookings'[b].assigned = bookings[b].assigned
    BY <1>2, <2>1, AssignmentStays
  <2> QED
    BY <1>2, <2>3 DEF FreshSnapshots, SnapshotFresh
<1>3. CASE x = r
  <2>1. p = q
    BY <1>0, <1>p, <1>3, RequestFacts DEF Becomes
  <2> QED
    BY <1>0, <1>1, <1>2, <1>3, <2>1 DEF Becomes, SnapshotKept
<1>4. CASE x # r
  <2>1. p = req[x]
    BY <1>0, <1>p, <1>4 DEF Becomes, Whole, TypeOK
  <2> QED
    BY <1>2, <2>1
<1> QED
  BY <1>3, <1>4

LEMMA ClaimStays ==
    ASSUME Whole, FreshSnapshots, NEW r \in Requests, Step(r), NEW b \in Bookings,
           bookings[b].assigned # None, bookings'[b].state # "deleted"
    PROVE  bookings'[b].assigned = bookings[b].assigned
<1>1. bookings[b] \in BookingRow /\ RowWhole(bookings[b])
  BY DEF Whole, TypeOK, RowsWhole
<1>2. RowMoves(r, b)
  BY RequestMoves DEF Whole, Step
<1>3. Ended(b) => bookings'[b].assigned = bookings[b].assigned
  BY <1>1 DEF Ended, BookingRow
<1>4. ~ClaimedBy(r, b)
  BY <1>1 DEF ClaimedBy, Claimable, Confirmed, RowWhole, Live
<1>5. RestoredBy(r, b) => bookings'[b].assigned = bookings[b].assigned
  BY RestoredSession DEF RestoredBy, FreshSnapshots, SnapshotFresh, Exists
<1>6. ~InsertedBy(r, b)
  BY <1>1, InsertedIsNew DEF RowWhole
<1>7. ~ErasedBy(r, b)
  BY DEF ErasedBy, DeletedRow, AbsentRow
<1> QED
  BY <1>2, <1>3, <1>4, <1>5, <1>6, <1>7 DEF RowMoves

LEMMA SessionsStayDisjoint ==
    ASSUME Whole, PlacesKept, NEW r \in Requests, Step(r)
    PROVE  TenantSessionsDisjoint'
<1>1. ASSUME NEW u \in Bookings, NEW v \in Bookings, u # v,
             RestoredBy(r, u) \/ InsertedBy(r, u), Confirmed(v)',
             bookings'[u].consultant = bookings'[v].consultant,
             BookingTenant(u)' = BookingTenant(v)'
      PROVE  ~Overlaps(bookings'[u].slot, bookings'[v].slot)
  <2>1. ~RestoredBy(r, v) /\ ~InsertedBy(r, v)
    BY <1>1 DEF RestoredBy, InsertedBy, Store
  <2>2. /\ Confirmed(v)
        /\ bookings'[v].employee = bookings[v].employee
        /\ bookings'[v].consultant = bookings[v].consultant
        /\ bookings'[v].slot = bookings[v].slot
    BY <1>1, <2>1, Confirming
  <2>3. CASE RestoredBy(r, u)
    <3>1. Alone(u)
      BY <2>3, RestoredSession DEF PlacesKept, PlaceKept, RestoredBy
    <3> QED
      BY <1>1, <2>2, <2>3, <3>1, RestoredSession DEF Alone, BookingTenant, Overlaps
  <2>4. CASE InsertedBy(r, u)
    <3> DEFINE q == req[r]
    <3>1. q.op \in {"create", "reschedule"} /\ q.pc = "insert"
          /\ (q.op = "create" => q.target = None)
      BY <2>4, RequestFacts DEF InsertedBy, Store, RequestWhole, OpSound, ArgsSound
    <3>2. ~Clash(q.consultant, TenantOf[q.employee], q.slot, q.target)
      BY <3>1 DEF PlacesKept, PlaceKept
    <3>3. v # q.target
      BY <2>2, <3>1, RequestFacts DEF PlacesKept, StartKept, Confirmed
    <3>4. /\ bookings'[u].employee = q.employee
          /\ bookings'[u].consultant = q.consultant
          /\ bookings'[u].slot = q.slot
      BY <2>4 DEF InsertedBy, Draft
    <3> QED
      BY <1>1, <2>2, <3>2, <3>3, <3>4 DEF Clash, BookingTenant, Overlaps
  <2> QED
    BY <1>1, <2>3, <2>4
<1>2. ASSUME NEW x \in Bookings, NEW y \in Bookings, x # y, Confirmed(x)', Confirmed(y)',
             bookings'[x].consultant = bookings'[y].consultant,
             BookingTenant(x)' = BookingTenant(y)'
      PROVE  ~Overlaps(bookings'[x].slot, bookings'[y].slot)
  <2>1. CASE RestoredBy(r, x) \/ InsertedBy(r, x)
    BY <1>1, <1>2, <2>1
  <2>2. CASE RestoredBy(r, y) \/ InsertedBy(r, y)
    <3>1. ~Overlaps(bookings'[y].slot, bookings'[x].slot)
      BY <1>1, <1>2, <2>2
    <3> QED
      BY <3>1 DEF Overlaps
  <2> QED
    BY <1>2, <2>1, <2>2, Confirming DEF PlacesKept, TenantSessionsDisjoint, BookingTenant
<1> QED
  BY <1>2 DEF TenantSessionsDisjoint, Overlaps

\* Who confirms a session touches its consultant.
LEMMA ConfirmingTouches ==
    ASSUME Whole, NEW r \in Requests, Step(r), NEW b \in Bookings,
           RestoredBy(r, b) \/ InsertedBy(r, b)
    PROVE  /\ bookings'[b].consultant \in Consultants
           /\ Touches(req[r], bookings'[b].consultant)
<1>1. bookings'[b].consultant \in Consultants
  <2>1. bookings[b] \in BookingRow
    BY DEF Whole, TypeOK
  <2>2. RestoredBy(r, b) => bookings'[b].state = "confirmed"
    BY <2>1 DEF RestoredBy, Restored, BookingRow
  <2>3. InsertedBy(r, b) => bookings'[b].state = "confirmed"
    BY DEF InsertedBy, Draft
  <2> QED
    BY <2>2, <2>3, RowStaysWhole DEF RowWhole, Live
<1>2. CASE RestoredBy(r, b)
  BY <1>1, <1>2, RestoredSession DEF RestoredBy, Touches
<1>3. CASE InsertedBy(r, b)
  <2>1. req[r].op \in {"create", "reschedule"} /\ req[r].pc = "insert"
    BY <1>3, RequestFacts DEF InsertedBy, Store, RequestWhole, OpSound
  <2>2. bookings'[b].consultant = req[r].consultant
    BY <1>3 DEF InsertedBy, Draft
  <2> QED
    BY <1>1, <2>1, <2>2 DEF Touches
<1> QED
  BY <1>2, <1>3

\* The session a reschedule wants to replace says whose it is as long as it lives.
LEMMA TargetStands ==
    ASSUME Whole, NEW r \in Requests, Step(r), NEW x \in Requests, Remembers(req[x]),
           NEW b \in Bookings, b = req[x].target
    PROVE  /\ ~InsertedBy(r, b)
           /\ \/ ErasedBy(r, b)
              \/ /\ bookings'[b].employee = bookings[b].employee
                 /\ bookings'[b].consultant = bookings[b].consultant
                 /\ bookings'[b].slot = bookings[b].slot
<1>1. bookings[b] \in BookingRow /\ bookings[b].state # "absent"
  BY RequestFacts DEF RequestWhole, SnapshotWhole, Whole, TypeOK
<1>2. RowMoves(r, b)
  BY RequestMoves DEF Whole, Step
<1>3. ~InsertedBy(r, b)
  BY <1>1, InsertedIsNew
<1>4. CASE Ended(b)
  BY <1>1, <1>3, <1>4 DEF Ended, BookingRow
<1>5. CASE ClaimedBy(r, b)
  BY <1>1, <1>3, <1>5 DEF ClaimedBy, BookingRow
<1> QED
  BY <1>2, <1>3, <1>4, <1>5, RestoredSession DEF RowMoves

\* No other request confirms a session of a consultant that x touches.
LEMMA OthersStandBack ==
    ASSUME Whole, NoRivals, NEW r \in Requests, Step(r), NEW x \in Requests, x # r,
           NEW b \in Bookings, Confirmed(b)', Touches(req[x], bookings'[b].consultant)
    PROVE  /\ Confirmed(b)
           /\ bookings'[b].employee = bookings[b].employee
           /\ bookings'[b].consultant = bookings[b].consultant
           /\ bookings'[b].slot = bookings[b].slot
BY Confirming, ConfirmingTouches DEF NoRivals

LEMMA OthersKeepTheirPlaces ==
    ASSUME Whole, NoRivals, PlacesKept, NEW r \in Requests, Step(r), NEW x \in Requests, x # r
    PROVE  (PlaceKept(req[x]) /\ StartKept(req[x]) /\ KeyUsed(req[x]))'
<1>q. PICK q : q = req[x]
  OBVIOUS
<1> DEFINE b == q.target
           c == bookings[b].consultant
<1>0. req'[x] = q /\ RequestWhole(q) /\ PlaceKept(q) /\ StartKept(q) /\ KeyUsed(q)
  BY <1>q, OthersUnmoved, RequestFacts DEF Step, Whole, PlacesKept
<1>1. ASSUME q.op \in {"create", "reschedule"}, q.pc \in {"cancel", "insert"}
      PROVE  ~Clash(q.consultant, TenantOf[q.employee], q.slot, q.target)'
  <2> SUFFICES ASSUME NEW y \in Bookings \ {b}, Confirmed(y)', bookings'[y].consultant = q.consultant,
                      BookingTenant(y)' = TenantOf[q.employee], Overlaps(bookings'[y].slot, q.slot)
               PROVE  FALSE
    BY <1>0 DEF Clash
  <2>1. Touches(q, bookings'[y].consultant)
    BY <1>1 DEF Touches
  <2>2. /\ Confirmed(y)
        /\ bookings'[y].employee = bookings[y].employee
        /\ bookings'[y].consultant = bookings[y].consultant
        /\ bookings'[y].slot = bookings[y].slot
    BY <1>q, <2>1, OthersStandBack
  <2> QED
    BY <1>0, <1>1, <2>2 DEF PlaceKept, Clash, BookingTenant
<1>2. ASSUME q.op = "reschedule", q.pc \in {"insert", "restore"}
      PROVE  Alone(b)' /\ StartKept(q)'
  <2>1. b \in Bookings /\ Remembers(q) /\ Touches(q, c)
    BY <1>0, <1>2 DEF RequestWhole, ArgsSound, Remembers, Touches
  <2>2. /\ ~InsertedBy(r, b)
        /\ \/ ErasedBy(r, b)
           \/ /\ bookings'[b].employee = bookings[b].employee
              /\ bookings'[b].consultant = c
              /\ bookings'[b].slot = bookings[b].slot
    BY <1>q, <2>1, TargetStands
  <2>3. ASSUME NEW y \in Bookings, Confirmed(y)', bookings'[y].consultant = bookings'[b].consultant
        PROVE  /\ Confirmed(y)
               /\ bookings'[y].employee = bookings[y].employee
               /\ bookings'[y].consultant = bookings[y].consultant
               /\ bookings'[y].slot = bookings[y].slot
               /\ bookings'[b].employee = bookings[b].employee
               /\ bookings'[b].consultant = c
               /\ bookings'[b].slot = bookings[b].slot
    <3>1. bookings'[y].consultant # None
      BY <2>3, RowStaysWhole, ConstantsAssumption DEF RowWhole, Live, Confirmed
    <3>2. ~ErasedBy(r, b)
      BY <2>3, <3>1 DEF ErasedBy, DeletedRow, AbsentRow
    <3> QED
      BY <1>q, <2>1, <2>2, <2>3, <3>2, OthersStandBack
  <2>4. Alone(b)'
    BY <1>0, <1>2, <2>3 DEF PlaceKept, Alone, BookingTenant
  <2>5. ~Confirmed(b)'
    BY <1>0, <1>2, <2>1, <2>3 DEF StartKept
  <2>6. \A y \in Bookings \ {b} :
          Confirmed(y)' /\ bookings'[y].consultant = bookings'[b].consultant =>
            bookings'[y].slot.start # bookings'[b].slot.start
    BY <1>0, <1>2, <2>3 DEF StartKept
  <2> QED
    BY <2>4, <2>5, <2>6 DEF StartKept, Confirmed
<1>3. PlaceKept(q)'
  BY <1>0, <1>1, <1>2 DEF PlaceKept
<1>4. StartKept(q)'
  BY <1>0, <1>2 DEF StartKept
<1> QED
  BY <1>0, <1>3, <1>4 DEF KeyUsed

LEMMA PlacesStayKept ==
    ASSUME Whole, NoRivals, PlacesKept, NEW r \in Requests, Step(r),
           "unacknowledged" \notin FaultKinds, Keys = {} \/ "error" \notin FaultKinds
    PROVE  PlacesKept'
<1> DEFINE b == req[r].target
<1>p. PICK p : p = req'[r]
  OBVIOUS
<1>0. RequestWhole(p)'
  BY <1>p, RequestsStayWhole
<1>1. KeyUsed(p)
  BY <1>0, <1>p, HowFar DEF RequestWhole, OpSound, KeyUsed, Accepts, Releases, GivesUp, Inserts
<1>2. ASSUME p.op \in {"create", "reschedule"}, p.pc \in {"cancel", "insert", "restore"}
      PROVE  PlaceKept(p)' /\ StartKept(p)'
  <2>0. SameCall(p, req[r]) /\ ~Inserts(r, p)
    BY <1>2, <1>p, HowFar DEF Inserts
  <2>1. CASE Accepts(r, p)
    BY <1>2, <2>0, <2>1
       DEF Accepts, SameCall, PlaceKept, StartKept, Clash, Confirmed, BookingTenant
  <2>2. CASE Releases(r, p)
    <3>1. b \in Bookings /\ bookings[b] \in BookingRow
      BY <2>2, RequestFacts DEF Releases, RequestWhole, ArgsSound, Whole, TypeOK
    <3>2. /\ bookings'[b].state = "cancelled"
          /\ bookings'[b].employee = bookings[b].employee
          /\ bookings'[b].consultant = bookings[b].consultant
          /\ bookings'[b].slot = bookings[b].slot
          /\ \A x \in Bookings \ {b} : bookings'[x] = bookings[x]
      BY <2>2, <3>1 DEF Releases, Whole, TypeOK, BookingRow
    <3>3. Confirmed(b) /\ bookings[b].employee = req[r].employee
      BY <2>2 DEF Releases, Withdrawable
    <3>4. ~Clash(req[r].consultant, TenantOf[req[r].employee], req[r].slot, b)
      BY <2>2 DEF Releases, PlacesKept, PlaceKept
    <3>5. ~Clash(p.consultant, TenantOf[p.employee], p.slot, p.target)'
      BY <2>0, <3>2, <3>4 DEF SameCall, Clash, Confirmed, BookingTenant
    <3>6. Alone(p.target)'
      BY <2>0, <3>1, <3>2, <3>3
         DEF SameCall, Alone, PlacesKept, TenantSessionsDisjoint, Confirmed, BookingTenant
    <3>7. StartKept(p)'
      BY <2>0, <3>1, <3>2, <3>3 DEF SameCall, StartKept, PlacesKept, SlotUnique, Confirmed
    <3> QED
      BY <3>5, <3>6, <3>7 DEF PlaceKept
  <2>3. CASE GivesUp(r, p)
    <3>1. req[r].pc # "record" \/ "error" \notin FaultKinds
      BY RequestFacts DEF PlacesKept, KeyUsed, Request
    <3>2. req[r].op = "reschedule" /\ p.pc = "restore" /\ req[r].pc = "insert" /\ UNCHANGED bookings
      BY <2>3, <3>1 DEF GivesUp
    <3>3. PlaceKept(req[r]) /\ StartKept(req[r])
      BY DEF PlacesKept
    <3> QED
      BY <2>0, <3>2, <3>3
         DEF SameCall, PlaceKept, StartKept, Alone, Confirmed, BookingTenant
  <2> QED
    BY <1>2, <1>p, <2>0, <2>1, <2>2, <2>3, HowFar
<1>3. PlaceKept(p)' /\ StartKept(p)'
  BY <1>2 DEF PlaceKept, StartKept
<1>4. SlotUnique' /\ TenantSessionsDisjoint'
  BY StartsStayUnique, SessionsStayDisjoint DEF PlacesKept
<1> QED
  BY <1>p, <1>1, <1>3, <1>4, OthersKeepTheirPlaces DEF PlacesKept, KeyUsed

\* Nobody ends, deletes or puts back the session a reschedule has released, but that
\* reschedule.
LEMMA TargetsStayWaiting ==
    ASSUME Whole, NoRivals, MovesWait, PlacesKept, TargetsWait, NEW r \in Requests, Step(r),
           "unacknowledged" \notin FaultKinds, "error" \notin FaultKinds
    PROVE  TargetsWait'
<1> SUFFICES ASSUME NEW x \in Requests PROVE TargetWaits(req[x])'
  BY DEF TargetsWait
<1>p. PICK p : p = req'[x]
  OBVIOUS
<1> SUFFICES ASSUME p.op = "reschedule", p.pc \in {"insert", "restore"}
             PROVE  /\ bookings'[p.target].state = "cancelled"
                    /\ bookings'[p.target].employee = p.employee
  BY <1>p DEF TargetWaits
<1>1. CASE x # r
  <2> DEFINE b == req[x].target
  <2>1. p = req[x] /\ TargetWaits(p) /\ StartKept(p)
    BY <1>p, <1>1, OthersUnmoved DEF Step, Whole, TargetsWait, PlacesKept
  <2>2. b \in Bookings /\ Remembers(p) /\ Touches(p, bookings[b].consultant)
    BY <2>1, RequestFacts DEF RequestWhole, ArgsSound, Remembers, Touches
  <2>3. ~InsertedBy(r, b)
    BY <2>1, <2>2, TargetStands
  <2>4. ~ErasedBy(r, b)
    BY <2>1 DEF ErasedBy, MovesWait
  <2>5. ~RestoredBy(r, b)
    BY <1>1, <2>1, <2>2, RestoredSession, ConfirmingTouches DEF NoRivals
  <2>6. ~Ended(b) /\ ~ClaimedBy(r, b)
    BY <2>1, <2>2 DEF StartKept, Ended, ClaimedBy, Claimable
  <2>7. bookings'[b] = bookings[b]
    BY <2>2, <2>3, <2>4, <2>5, <2>6, RequestMoves DEF RowMoves, Whole, Step
  <2> QED
    BY <2>1, <2>7 DEF TargetWaits
<1>2. CASE x = r
  <2>1. SameCall(p, req[r]) /\ (Releases(r, p) \/ GivesUp(r, p))
    BY <1>p, <1>2, HowFar DEF Accepts, Inserts
  <2>2. CASE Releases(r, p)
    <3>1. req[r].target \in Bookings
      BY <2>2, RequestFacts DEF Releases, RequestWhole, ArgsSound
    <3> QED
      BY <2>1, <2>2, <3>1 DEF Releases, Withdrawable, SameCall, Whole, TypeOK, BookingRow
  <2>3. CASE GivesUp(r, p)
    BY <2>1, <2>3 DEF GivesUp, SameCall, TargetsWait, TargetWaits
  <2> QED
    BY <2>1, <2>2, <2>3
<1> QED
  BY <1>1, <1>2

LEMMA RestFrame ==
    ASSUME UNCHANGED <<bookings, req>>
    PROVE  /\ FreshSnapshots => FreshSnapshots'
           /\ PlacesKept => PlacesKept'
           /\ TargetsWait => TargetsWait'
BY DEF FreshSnapshots, SnapshotFresh, Remembers, PlacesKept, SlotUnique, TenantSessionsDisjoint,
     PlaceKept, StartKept, KeyUsed, Clash, Alone, Confirmed, Exists, BookingTenant,
     TargetsWait, TargetWaits

\* The backfill changes no time, and it runs while nothing else does.
LEMMA MigrateFrame ==
    ASSUME Whole, LegacySound, NEW b \in Bookings, Migrate(b)
    PROVE  FreshSnapshots' /\ (PlacesKept => PlacesKept') /\ TargetsWait'
<1>1. \A x \in Bookings : bookings[x] \in BookingRow
  BY DEF Whole, TypeOK
<1>2. b \in Bookings /\ bookings' = [bookings EXCEPT ![b] = Backfilled(b)]
  BY DEF Migrate, LegacySound
<1>3. \A x \in Bookings : /\ bookings'[x].state = bookings[x].state
                          /\ bookings'[x].employee = bookings[x].employee
                          /\ bookings'[x].consultant = bookings[x].consultant
                          /\ bookings'[x].slot = bookings[x].slot
  BY <1>1, <1>2 DEF Backfilled, Whole, TypeOK, BookingRow
<1>4. \A r \in Requests : req'[r].pc = "idle" /\ req'[r].op = "none"
  BY RequestFacts DEF Migrate, InFlight, RequestWhole, OpSound
<1>5. FreshSnapshots' /\ TargetsWait'
  BY <1>4 DEF FreshSnapshots, SnapshotFresh, Remembers, TargetsWait, TargetWaits
<1>6. \A r \in Requests : (PlaceKept(req[r]) /\ StartKept(req[r]) /\ KeyUsed(req[r]))'
  BY <1>4 DEF PlaceKept, StartKept, KeyUsed
<1>7. PlacesKept => (SlotUnique /\ TenantSessionsDisjoint)'
  BY <1>3 DEF PlacesKept, SlotUnique, TenantSessionsDisjoint, Confirmed, BookingTenant
<1> QED
  BY <1>5, <1>6, <1>7 DEF PlacesKept

LEMMA LegacyInitAlone == LegacyInit => FreshSnapshots /\ PlacesKept /\ TargetsWait
<1> SUFFICES ASSUME LegacyInit PROVE FreshSnapshots /\ PlacesKept /\ TargetsWait
  OBVIOUS
<1>1. \A r \in Requests : req[r].pc = "idle" /\ req[r].op = "none"
  BY DEF LegacyInit, Idle
<1>2. \A x, y \in Bookings : Confirmed(x) /\ Confirmed(y) => x = y
  <2>1. AbsentRow.state # "confirmed"
    BY DEF AbsentRow
  <2> QED
    BY <2>1 DEF LegacyInit, Confirmed
<1> QED
  BY <1>1, <1>2
     DEF FreshSnapshots, SnapshotFresh, Remembers, PlacesKept, SlotUnique, TenantSessionsDisjoint,
         PlaceKept, StartKept, KeyUsed, TargetsWait, TargetWaits

\* A step of LegacyMigration is a step of a request, or no request moves.
LEMMA WhoMoves ==
    ASSUME [LegacyNext]_legacyVars
    PROVE  \/ \E r \in Requests : Step(r)
           \/ UNCHANGED <<bookings, req>>
           \/ \E b \in Bookings : Migrate(b)
BY DEF LegacyNext, legacyVars, Serve, SchedulingNext, Next, Step, Expire, Tick

\* A claim, once made, is not undone while the session lives, whatever fails, and on
\* sessions of the old version too, as long as nobody claims a session between the
\* snapshot of a reschedule and its restore.
THEOREM ClaimsAreKept == LegacySpec /\ []ClaimsWait => ClaimIsKept
<1> DEFINE Inv == Whole /\ LegacySound /\ FreshSnapshots
           Stays == \A b \in Bookings :
                     bookings[b].assigned # None /\ bookings'[b].state # "deleted" =>
                       bookings'[b].assigned = bookings[b].assigned
<1>1. LegacyInit => Inv
  BY LegacyInitWhole, LegacyInitSound, LegacyInitAlone
<1>2. Inv /\ ClaimsWait /\ [LegacyNext]_legacyVars => Inv'
  BY StepLegacy, WhoMoves, SnapshotsStayFresh, RestFrame, MigrateFrame
<1>3. Inv /\ [LegacyNext]_legacyVars => Stays
  <2> SUFFICES ASSUME Inv, [LegacyNext]_legacyVars, NEW b \in Bookings,
                      bookings[b].assigned # None, bookings'[b].state # "deleted"
               PROVE  bookings'[b].assigned = bookings[b].assigned
    OBVIOUS
  <2>1. ASSUME NEW x \in Bookings, Migrate(x)
        PROVE  bookings'[b].assigned = bookings[b].assigned
    BY <2>1 DEF Migrate, LegacySound, Unclaimed, Whole, TypeOK
  <2> QED
    BY <2>1, WhoMoves, ClaimStays
<1>4. Inv /\ [LegacyNext]_legacyVars => [Stays]_vars
  BY <1>3
<1> QED
  BY <1>1, <1>2, <1>4, PTL DEF LegacySpec, ClaimIsKept

\* What creates and reschedules keep of their places, when they do not meet at one
\* consultant and no write is rejected once it has been applied, nor the record of a key.
LEMMA PlacesAreKept ==
    ASSUME "unacknowledged" \notin FaultKinds, Keys = {} \/ "error" \notin FaultKinds,
           Whole, LegacySound, PlacesKept, NoRivals, [LegacyNext]_legacyVars
    PROVE  PlacesKept'
BY WhoMoves, PlacesStayKept, RestFrame, MigrateFrame

\* The sessions a consultant gives for one tenant do not overlap, whatever becomes of
\* the blocks, when creates and reschedules do not meet at one consultant: unless a
\* reschedule is rejected after it has stored its row.
THEOREM SessionsAreDisjoint ==
    ASSUME "unacknowledged" \notin FaultKinds, Keys = {} \/ "error" \notin FaultKinds
    PROVE  LegacySpec /\ []NoRivals => []TenantSessionsDisjoint
<1> DEFINE Inv == Whole /\ LegacySound /\ PlacesKept
<1>1. LegacyInit => Inv
  BY LegacyInitWhole, LegacyInitSound, LegacyInitAlone
<1>2. Inv /\ NoRivals /\ [LegacyNext]_legacyVars => Inv'
  BY StepLegacy, PlacesAreKept
<1>3. Inv => TenantSessionsDisjoint
  BY DEF PlacesKept
<1> QED
  BY <1>1, <1>2, <1>3, PTL DEF LegacySpec

\* Where a request that holds an old session can end without saying that all is well.
LEMMA HolderEnds ==
    ASSUME Whole, NEW r \in Requests, Step(r), Holding(req[r]), "error" \notin FaultKinds,
           Ends(r, "SLOT_TAKEN") \/ Ends(r, "error")
    PROVE  Restore(r)
<1>0. TypeOK /\ OpSound(req[r])
  BY RequestFacts DEF Whole, RequestWhole
<1>1. req'[r].pc = "idle" /\ req'[r].reply \in {"SLOT_TAKEN", "error"}
      /\ req[r].op = "reschedule" /\ req[r].pc \in {"insert", "record", "restore"}
  BY DEF Ends, Holding
<1>2. ~Reply(r, "ok") /\ ~Reply(r, "lost")
  BY <1>0, <1>1 DEF TypeOK, Reply, Idle
<1>3. ~Arrive(r)
  BY <1>1 DEF Arrive, BeginCreate, BeginReschedule, BeginCancel, BeginAssign, Close, InFlight
<1>4. ~Break(r)
  <2>1. ~StorageError(r) /\ ~Crash(r)
    BY <1>2 DEF StorageError, Crash, Fault
  <2>2. ~LostAcknowledgement(r)
    <3>1. ASSUME LostAcknowledgement(r)
          PROVE  req' = [req EXCEPT ![r].pc = "restore", ![r].reply = "error"]
      BY <1>1, <3>1 DEF LostAcknowledgement, Raise, Store, StoreKey
    <3> QED
      BY <1>0, <1>1, <3>1 DEF TypeOK, Request
  <2> QED
    BY <2>1, <2>2 DEF Break
<1>5. ~Insert(r) /\ ~Record(r)
  <2>1. ~Goto(r, "record")
    BY <1>0, <1>1, GotoTo DEF Points
  <2> QED
    BY <1>2, <2>1 DEF Insert, Record
<1>6. ~InsertDuplicate(r)
  BY <1>0, <1>1 DEF InsertDuplicate, TypeOK, Request
<1>7. ~RecordDuplicate(r)
  BY <1>1, <1>2 DEF RecordDuplicate
<1>8. /\ ~Load(r) /\ ~Check(r) /\ ~Cancel(r) /\ ~Release(r) /\ ~Resolve(r) /\ ~Undo(r)
      /\ ~Recover(r) /\ ~Claim(r) /\ ~WriteAudit(r)
  BY <1>1 DEF Load, Check, Cancel, Release, Resolve, Undo, Recover, Claim, WriteAudit
<1> QED
  BY <1>3, <1>4, <1>5, <1>6, <1>7, <1>8 DEF Step, Advance

\* What a request reads and answers changes in its own steps only.
LEMMA OnlyItsOwnStep ==
    ASSUME Whole, [LegacyNext]_legacyVars, NEW r \in Requests, req'[r] # req[r]
    PROVE  Step(r)
<1>1. \A x \in Bookings : ~Migrate(x)
  BY DEF Migrate
<1>2. PICK x \in Requests : Step(x)
  BY <1>1, WhoMoves
<1> QED
  BY <1>2, OthersUnmoved DEF Step, Whole

\* A reschedule that is refused leaves the old session standing, when creates and
\* reschedules do not meet at one consultant, nobody reschedules a session that has just
\* been created and not yet answered, and no operation of storage is rejected (the
\* restore among them).
THEOREM ReschedulesFailSafe ==
    ASSUME "unacknowledged" \notin FaultKinds, "error" \notin FaultKinds
    PROVE  LegacySpec /\ []NoRivals /\ []MovesWait => RescheduleFailsSafe
<1> DEFINE Inv == Whole /\ LegacySound /\ PlacesKept /\ TargetsWait
           Safe == \A r \in Requests :
                     (\E b \in Bookings : Holds(r, b)) /\ (Ends(r, "SLOT_TAKEN") \/ Ends(r, "error")) =>
                       bookings'[req[r].target].state = "confirmed"
<1>1. LegacyInit => Inv
  BY LegacyInitWhole, LegacyInitSound, LegacyInitAlone
<1>2. Inv /\ NoRivals /\ MovesWait /\ [LegacyNext]_legacyVars => Inv'
  BY StepLegacy, PlacesAreKept, WhoMoves, TargetsStayWaiting, RestFrame, MigrateFrame
<1>3. Inv /\ [LegacyNext]_legacyVars => Safe
  <2> SUFFICES ASSUME Inv, [LegacyNext]_legacyVars, NEW r \in Requests,
                      Holding(req[r]), Ends(r, "SLOT_TAKEN") \/ Ends(r, "error")
               PROVE  bookings'[req[r].target].state = "confirmed"
    BY DEF Holds, Holding
  <2> DEFINE b == req[r].target
  <2>1. Step(r)
    BY OnlyItsOwnStep DEF Ends, InFlight
  <2>2. Restore(r)
    BY <2>1, HolderEnds
  <2>3. /\ b \in Bookings /\ bookings[b] \in BookingRow
        /\ StartKept(req[r]) /\ TargetWaits(req[r])
        /\ req[r].op = "reschedule" /\ req[r].pc = "restore"
    BY <2>2, RequestFacts
       DEF Restore, RequestWhole, OpSound, ArgsSound, Whole, TypeOK, PlacesKept, TargetsWait
  <2>4. Restorable(req[r])
    BY <2>3 DEF TargetWaits, Restorable
  <2>5. ~Indexed(b, Restored(req[r]))
    BY <2>3 DEF StartKept, Indexed, Restored, BookingRow
  <2>6. bookings' = [bookings EXCEPT ![b] = Restored(req[r])]
    BY <2>2, <2>4, <2>5 DEF Restore
  <2> QED
    BY <2>3, <2>6 DEF Restored, Whole, TypeOK, BookingRow
<1>4. Inv /\ [LegacyNext]_legacyVars => [Safe]_vars
  BY <1>3
<1> QED
  BY <1>1, <1>2, <1>4, PTL DEF LegacySpec, RescheduleFailsSafe

=============================================================================
