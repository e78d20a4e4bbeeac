--------------------------- MODULE IntervalsProofs ---------------------------
(***************************************************************************)
(* What the loop promises, for every range and every set of cuts.  The     *)
(* loop invariant is inductive once the pieces and the remaining cuts are  *)
(* known to be intervals, not empty and inside the range.                  *)
(***************************************************************************)
EXTENDS IntervalLoop, FiniteSetTheorems, TLAPS

Holds(f, p) == f.start <= p /\ p < f.end

-----------------------------------------------------------------------------
(* One cut of one piece *)

\* subtractOne: the pieces left are intervals, not empty and inside the old one.
LEMMA PiecesFit ==
    ASSUME NEW f \in Interval, NEW c \in Interval, Nonempty(f),
           NEW p \in SubtractOne(f, c)
    PROVE  /\ p \in Interval
           /\ Nonempty(p)
           /\ f.start <= p.start /\ p.end <= f.end
BY DEF SubtractOne, Misses, Nonempty, Interval, Later, Earlier

\* subtractOne: an instant stays free iff it was free and is not cut.
LEMMA PiecesCover ==
    ASSUME NEW f \in Interval, NEW c \in Interval, NEW p \in Int
    PROVE  Covers(SubtractOne(f, c), p) <=> Holds(f, p) /\ ~Holds(c, p)
<1>1. CASE Misses(f, c)
  <2>1. SubtractOne(f, c) = {f}
    BY <1>1 DEF SubtractOne
  <2>2. ~(Holds(f, p) /\ Holds(c, p))
    BY <1>1 DEF Misses, Holds, Interval
  <2> QED
    BY <2>1, <2>2 DEF Covers, Holds
<1>2. CASE ~Misses(f, c)
  <2> DEFINE left  == [start |-> f.start, end |-> Earlier(c.start, f.end)]
             right == [start |-> Later(c.end, f.start), end |-> f.end]
  <2>1. SubtractOne(f, c) = {q \in {left, right} : Nonempty(q)}
    BY <1>2 DEF SubtractOne
  <2>2. Holds(left, p) <=> Holds(f, p) /\ p < c.start
    BY DEF Holds, Earlier, Interval
  <2>3. Holds(right, p) <=> Holds(f, p) /\ c.end <= p
    BY DEF Holds, Later, Interval
  <2>4. \A q \in {left, right} : Holds(q, p) => Nonempty(q)
    BY DEF Holds, Nonempty, Interval, Earlier, Later
  <2>5. Covers(SubtractOne(f, c), p) <=> Holds(left, p) \/ Holds(right, p)
    BY <2>1, <2>4 DEF Covers, Holds
  <2>6. Holds(c, p) <=> c.start <= p /\ p < c.end
    BY DEF Holds
  <2>7. f \in Interval /\ c \in Interval /\ c.start \in Int /\ c.end \in Int
    BY DEF Interval
  <2>8. Holds(f, p) /\ ~Holds(c, p) <=> Holds(f, p) /\ (p < c.start \/ c.end <= p)
    BY <2>6, <2>7
  <2> QED
    BY <2>2, <2>3, <2>5, <2>8
<1> QED
  BY <1>1, <1>2

\* subtractOne: two pieces of one piece have the cut between them.
LEMMA PiecesApart ==
    ASSUME NEW f \in Interval, NEW c \in Interval, Nonempty(c),
           NEW p \in SubtractOne(f, c), NEW q \in SubtractOne(f, c)
    PROVE  p = q \/ p.end < q.start \/ q.end < p.start
BY DEF SubtractOne, Misses, Nonempty, Interval, Later, Earlier

-----------------------------------------------------------------------------
(* The inductive invariant *)

\* The cuts still to come are clipped, and what is left is as it should be.
IInv ==
    /\ TypeOK
    /\ \A c \in todo : Nonempty(c)
    /\ FreeInRange
    /\ FreeIsSeparate
    /\ FreeIsRemainder

LEMMA CallTyped ==
    ASSUME call \in Calls
    PROVE  call.range \in Interval /\ call.cuts \subseteq Interval
BY CallsAssumption

\* Clipping keeps what a cut takes from the range.
LEMMA ClippedCover ==
    ASSUME NEW range \in Interval, NEW cuts \in SUBSET Interval,
           NEW p \in range.start .. (range.end - 1)
    PROVE  Covers(Clipped(range, cuts), p) <=> Covers(cuts, p)
<1>1. range.start \in Int /\ range.end \in Int /\ p \in Int
  BY DEF Interval
<1>2. \A c \in cuts : Holds(Clip(c, range), p) <=> Holds(c, p)
  BY <1>1 DEF Holds, Clip, Later, Earlier, Interval
<1>3. \A c \in cuts : Holds(Clip(c, range), p) => Nonempty(Clip(c, range))
  BY <1>1 DEF Holds, Nonempty, Clip, Later, Earlier, Interval
<1>4. Covers(Clipped(range, cuts), p) <=> \E c \in cuts : Holds(Clip(c, range), p)
  BY <1>3 DEF Covers, Clipped, Holds
<1> QED
  BY <1>2, <1>4 DEF Covers, Holds

LEMMA InitIInv == Init => IInv
<1> SUFFICES ASSUME Init PROVE IInv
  OBVIOUS
<1>1. call.range \in Interval /\ call.cuts \in SUBSET Interval
  BY CallTyped DEF Init
<1>2. todo \subseteq Interval /\ \A c \in todo : Nonempty(c)
  BY <1>1 DEF Init, Clipped, Clip, Later, Earlier, Interval
<1>3. TypeOK
  BY <1>1, <1>2 DEF Init, TypeOK, Whole
<1>4. FreeInRange
  BY <1>1 DEF Init, FreeInRange, Whole, Interval
<1>5. FreeIsSeparate
  BY DEF Init, FreeIsSeparate, Whole
<1>6. FreeIsRemainder
  <2> SUFFICES ASSUME NEW p \in call.range.start .. (call.range.end - 1)
               PROVE  Covers(free, p) /\ ~Covers(todo, p) <=> ~Covers(call.cuts, p)
    BY DEF FreeIsRemainder
  <2>1. Covers(todo, p) <=> Covers(call.cuts, p)
    BY <1>1, ClippedCover DEF Init
  <2>2. Covers(free, p)
    BY <1>1 DEF Init, Whole, Covers, Nonempty, Interval
  <2> QED
    BY <2>1, <2>2
<1> QED
  BY <1>2, <1>3, <1>4, <1>5, <1>6 DEF IInv

LEMMA StepIInv == IInv /\ [Cut]_vars => IInv'
<1> SUFFICES ASSUME IInv, [Cut]_vars PROVE IInv'
  OBVIOUS
<1>1. CASE UNCHANGED vars
  BY <1>1 DEF IInv, TypeOK, FreeInRange, FreeIsSeparate, FreeIsRemainder, vars
<1>2. CASE Cut
  <2>1. PICK c \in todo : free' = Subtract(free, c) /\ todo' = todo \ {c}
    BY <1>2 DEF Cut
  <2>2. call' = call
    BY <1>2 DEF Cut
  <2>3. /\ c \in Interval /\ Nonempty(c)
        /\ free \subseteq Interval
        /\ \A f \in free : Nonempty(f)
    BY DEF IInv, TypeOK, FreeInRange
  <2>4. \A q : q \in free' <=> \E f \in free : q \in SubtractOne(f, c)
    BY <2>1 DEF Subtract
  <2>5. TypeOK'
    BY <2>1, <2>2, <2>3, <2>4, PiecesFit DEF IInv, TypeOK
  <2>6. (\A d \in todo : Nonempty(d))'
    BY <2>1 DEF IInv
  <2>7. FreeInRange'
    <3> SUFFICES ASSUME NEW q \in free'
                 PROVE  /\ Nonempty(q)
                        /\ call.range.start <= q.start /\ q.end <= call.range.end
      BY <2>2 DEF FreeInRange
    <3>1. PICK f \in free : q \in SubtractOne(f, c)
      BY <2>4
    <3>2. q \in Interval /\ Nonempty(q) /\ f.start <= q.start /\ q.end <= f.end
      BY <2>3, <3>1, PiecesFit
    <3>3. call.range.start <= f.start /\ f.end <= call.range.end
      BY DEF IInv, FreeInRange
    <3>4. call.range \in Interval
      BY CallTyped DEF IInv, TypeOK
    <3> QED
      BY <2>3, <3>2, <3>3, <3>4 DEF Interval
  <2>8. FreeIsSeparate'
    <3> SUFFICES ASSUME NEW p \in free', NEW q \in free'
                 PROVE  p = q \/ p.end < q.start \/ q.end < p.start
      BY DEF FreeIsSeparate
    <3>1. PICK f \in free : p \in SubtractOne(f, c)
      BY <2>4
    <3>2. PICK g \in free : q \in SubtractOne(g, c)
      BY <2>4
    <3>3. CASE f = g
      BY <2>3, <3>1, <3>2, <3>3, PiecesApart
    <3>4. CASE f # g
      <4>1. f.end < g.start \/ g.end < f.start
        BY <3>4 DEF IInv, FreeIsSeparate
      <4>2. p \in Interval /\ f.start <= p.start /\ p.end <= f.end
        BY <2>3, <3>1, PiecesFit
      <4>3. q \in Interval /\ g.start <= q.start /\ q.end <= g.end
        BY <2>3, <3>2, PiecesFit
      <4> QED
        BY <2>3, <4>1, <4>2, <4>3 DEF Interval
    <3> QED
      BY <3>3, <3>4
  <2>9. FreeIsRemainder'
    <3> SUFFICES ASSUME NEW p \in call.range.start .. (call.range.end - 1)
                 PROVE  Covers(free', p) /\ ~Covers(todo', p) <=> ~Covers(call.cuts, p)
      BY <2>2 DEF FreeIsRemainder, Covers
    <3>0. p \in Int
      BY CallTyped DEF IInv, TypeOK, Interval
    <3>1. Covers(free', p) <=> \E f \in free : Covers(SubtractOne(f, c), p)
      BY <2>4 DEF Covers
    <3>2. \A f \in free : Covers(SubtractOne(f, c), p) <=> Holds(f, p) /\ ~Holds(c, p)
      BY <2>3, <3>0, PiecesCover
    <3>3. Covers(free', p) <=> Covers(free, p) /\ ~Holds(c, p)
      BY <3>1, <3>2 DEF Covers, Holds
    <3>4. Covers(todo, p) <=> Holds(c, p) \/ Covers(todo', p)
      BY <2>1 DEF Covers, Holds
    <3>5. Covers(free, p) /\ ~Covers(todo, p) <=> ~Covers(call.cuts, p)
      BY DEF IInv, FreeIsRemainder
    <3> QED
      BY <3>3, <3>4, <3>5
  <2> QED
    BY <2>5, <2>6, <2>7, <2>8, <2>9 DEF IInv
<1> QED
  BY <1>1, <1>2

-----------------------------------------------------------------------------
(* The fold over the cuts *)

\* The cut the fold takes next.
Pick(s) == CHOOSE x \in s : TRUE

Rest(s) == s \ {Pick(s)}

\* g is the fold over every set of the cuts T.
Folds(g, T, range) ==
    g = [s \in SUBSET T |->
           IF s = {} THEN Whole(range) ELSE Subtract(g[Rest(s)], Pick(s))]

LEMMA RestIsSmaller ==
    ASSUME NEW s, s # {}
    PROVE  Pick(s) \in s /\ Rest(s) \subseteq s /\ Rest(s) # s
BY DEF Pick, Rest

\* A family of subsets of a finite set has a smallest one.
LEMMA SmallestSubset ==
    ASSUME NEW S, IsFiniteSet(S), NEW F, F \subseteq SUBSET S, F # {}
    PROVE  \E T \in F : \A U \in F : U \subseteq T => U = T
<1> DEFINE R == StrictSubsetOrdering(S)
<1>1. IsWellFoundedOn(R, SUBSET S)
  BY FS_FiniteSubsetsOfFinite, FS_StrictSubsetOrderingWellFounded
<1> HIDE DEF R
<1>2. PICK T \in F : \A U \in F : <<U, T>> \notin R
  BY <1>1, WFMin
<1>3. \A U \in F : U \subseteq T /\ U # T => <<U, T>> \in R
  BY DEF R, StrictSubsetOrdering
<1>4. \A U \in F : U \subseteq T => U = T
  BY <1>2, <1>3, Zenon
<1> QED
  BY <1>4, Zenon

LEMMA FoldIsUnique ==
    ASSUME NEW T, IsFiniteSet(T), NEW range, NEW g, NEW h,
           Folds(g, T, range), Folds(h, T, range)
    PROVE  g = h
<1> DEFINE Bad == {s \in SUBSET T : g[s] # h[s]}
<1>1. Bad = {}
  <2> SUFFICES ASSUME Bad # {} PROVE FALSE
    OBVIOUS
  <2>0. Bad \subseteq SUBSET T
    OBVIOUS
  <2> HIDE DEF Bad
  <2>1. PICK s \in Bad : \A u \in Bad : u \subseteq s => u = s
    BY <2>0, SmallestSubset
  <2> USE DEF Bad
  <2>2. s # {}
    BY <2>1 DEF Folds
  <2>3. Rest(s) \in SUBSET T /\ Rest(s) \notin Bad
    BY <2>1, <2>2, RestIsSmaller
  <2> QED
    BY <2>1, <2>2, <2>3 DEF Folds
<1>2. \A s \in SUBSET T : g[s] = h[s]
  BY <1>1
<1> QED
  BY <1>2 DEF Folds

LEMMA FoldRestricts ==
    ASSUME NEW T, NEW range, NEW g, Folds(g, T, range), NEW U \in SUBSET T
    PROVE  Folds([s \in SUBSET U |-> g[s]], U, range)
<1> DEFINE h == [s \in SUBSET U |-> g[s]]
<1>1. ASSUME NEW s \in SUBSET U
      PROVE  h[s] = IF s = {} THEN Whole(range) ELSE Subtract(h[Rest(s)], Pick(s))
  <2>1. s # {} => Rest(s) \in SUBSET U
    BY RestIsSmaller
  <2> QED
    BY <2>1 DEF Folds
<1> QED
  BY <1>1 DEF Folds

LEMMA FoldExists ==
    ASSUME NEW S, IsFiniteSet(S), NEW range
    PROVE  \E g : Folds(g, S, range)
<1> DEFINE Bad == {T \in SUBSET S : ~\E g : Folds(g, T, range)}
<1> SUFFICES ASSUME Bad # {} PROVE FALSE
  OBVIOUS
<1>0. Bad \subseteq SUBSET S
  OBVIOUS
<1> HIDE DEF Bad
<1>1. PICK T \in Bad : \A U \in Bad : U \subseteq T => U = T
  BY <1>0, SmallestSubset
<1> USE DEF Bad
<1> DEFINE G(U) == CHOOSE g : Folds(g, U, range)
           g == [s \in SUBSET T |->
                   IF s = {} THEN Whole(range) ELSE Subtract(G(Rest(s))[Rest(s)], Pick(s))]
<1>2. ASSUME NEW U \in SUBSET T, U # T
      PROVE  Folds(G(U), U, range)
  BY <1>1, <1>2
<1>3. ASSUME NEW U \in SUBSET T, U # T
      PROVE  g[U] = G(U)[U]
  <2>1. Folds(G(U), U, range)
    BY <1>2, <1>3
  <2> HIDE DEF G
  <2>2. CASE U = {}
    BY <2>1, <2>2 DEF Folds
  <2>3. CASE U # {}
    <3> DEFINE W == Rest(U)
    <3>1. W \in SUBSET U /\ W \in SUBSET T /\ W # T /\ IsFiniteSet(W)
      BY <2>3, <1>3, RestIsSmaller, FS_Subset
    <3>2. Folds(G(W), W, range)
      BY <1>2, <3>1
    <3>3. Folds([s \in SUBSET W |-> G(U)[s]], W, range)
      BY <2>1, <3>1, FoldRestricts
    <3>4. G(W) = [s \in SUBSET W |-> G(U)[s]]
      BY <3>1, <3>2, <3>3, FoldIsUnique
    <3>5. G(W)[W] = G(U)[W]
      BY <3>4
    <3>6. G(U)[U] = Subtract(G(U)[W], Pick(U))
      BY <2>1, <2>3 DEF Folds
    <3>7. g[U] = Subtract(G(W)[W], Pick(U))
      BY <2>3
    <3> QED
      BY <3>5, <3>6, <3>7
  <2> QED
    BY <2>2, <2>3
<1>4. ASSUME NEW s \in SUBSET T
      PROVE  g[s] = IF s = {} THEN Whole(range) ELSE Subtract(g[Rest(s)], Pick(s))
  <2>1. CASE s = {}
    BY <2>1
  <2>2. CASE s # {}
    <3>1. Rest(s) \in SUBSET T /\ Rest(s) # T
      BY <2>2, RestIsSmaller
    <3>2. g[Rest(s)] = G(Rest(s))[Rest(s)]
      BY <1>3, <3>1
    <3> QED
      BY <2>2, <3>2
  <2> QED
    BY <2>1, <2>2
<1>5. Folds(g, T, range)
  <2>1. g = [s \in SUBSET T |-> g[s]]
    OBVIOUS
  <2> HIDE DEF g
  <2> QED
    BY <1>4, <2>1 DEF Folds
<1> QED
  BY <1>1, <1>5

\* What SubtractIntervals computes: the fold over the clipped cuts.
LEMMA SubtractUnfolds ==
    ASSUME NEW range, NEW cuts
    PROVE  SubtractIntervals(range, cuts) =
             (CHOOSE g : Folds(g, Clipped(range, cuts), range))[Clipped(range, cuts)]
BY DEF SubtractIntervals, FoldSet, MapThenFoldSet, Folds, Pick, Rest

-----------------------------------------------------------------------------
(* What is left of a range *)

\* The pieces are the range without the cuts, in pieces as long as possible.
IsRemainder(pieces, range, cuts) ==
    /\ pieces \subseteq Interval
    /\ \A f \in pieces : /\ Nonempty(f)
                         /\ range.start <= f.start /\ f.end <= range.end
    /\ \A f, g \in pieces : f = g \/ f.end < g.start \/ g.end < f.start
    /\ \A p \in Int : Covers(pieces, p) <=> Holds(range, p) /\ ~Covers(cuts, p)

LEMMA WholeRemains ==
    ASSUME NEW range \in Interval
    PROVE  IsRemainder(Whole(range), range, {})
BY DEF IsRemainder, Whole, Nonempty, Covers, Holds, Interval

\* One cut more.
LEMMA SubtractRemains ==
    ASSUME NEW range \in Interval, NEW cuts, NEW pieces,
           IsRemainder(pieces, range, cuts),
           NEW c \in Interval, Nonempty(c)
    PROVE  IsRemainder(Subtract(pieces, c), range, cuts \cup {c})
<1> DEFINE left == Subtract(pieces, c)
<1>1. \A q : q \in left <=> \E f \in pieces : q \in SubtractOne(f, c)
  BY DEF Subtract
<1> HIDE DEF left
<1>2. /\ pieces \subseteq Interval
      /\ \A f \in pieces : Nonempty(f) /\ range.start <= f.start /\ f.end <= range.end
  BY DEF IsRemainder
<1>3. ASSUME NEW q \in left
      PROVE  q \in Interval /\ Nonempty(q) /\ range.start <= q.start /\ q.end <= range.end
  <2>1. PICK f \in pieces : q \in SubtractOne(f, c)
    BY <1>1
  <2>2. q \in Interval /\ Nonempty(q) /\ f.start <= q.start /\ q.end <= f.end
    BY <1>2, <2>1, PiecesFit
  <2> QED
    BY <1>2, <2>2 DEF Interval
<1>4. ASSUME NEW p \in left, NEW q \in left
      PROVE  p = q \/ p.end < q.start \/ q.end < p.start
  <2>1. PICK f \in pieces : p \in SubtractOne(f, c)
    BY <1>1
  <2>2. PICK g \in pieces : q \in SubtractOne(g, c)
    BY <1>1
  <2>3. CASE f = g
    BY <1>2, <2>1, <2>2, <2>3, PiecesApart
  <2>4. CASE f # g
    <3>1. f.end < g.start \/ g.end < f.start
      BY <2>4 DEF IsRemainder
    <3>2. p \in Interval /\ f.start <= p.start /\ p.end <= f.end
      BY <1>2, <2>1, PiecesFit
    <3>3. q \in Interval /\ g.start <= q.start /\ q.end <= g.end
      BY <1>2, <2>2, PiecesFit
    <3> QED
      BY <1>2, <3>1, <3>2, <3>3 DEF Interval
  <2> QED
    BY <2>3, <2>4
<1>5. ASSUME NEW p \in Int
      PROVE  Covers(left, p) <=> Holds(range, p) /\ ~Covers(cuts \cup {c}, p)
  <2>1. Covers(left, p) <=> \E f \in pieces : Covers(SubtractOne(f, c), p)
    BY <1>1 DEF Covers
  <2>2. \A f \in pieces : Covers(SubtractOne(f, c), p) <=> Holds(f, p) /\ ~Holds(c, p)
    BY <1>2, PiecesCover
  <2>3. Covers(left, p) <=> Covers(pieces, p) /\ ~Holds(c, p)
    BY <2>1, <2>2 DEF Covers, Holds
  <2>4. Covers(cuts \cup {c}, p) <=> Covers(cuts, p) \/ Holds(c, p)
    BY DEF Covers, Holds
  <2>5. Covers(pieces, p) <=> Holds(range, p) /\ ~Covers(cuts, p)
    BY DEF IsRemainder
  <2> QED
    BY <2>3, <2>4, <2>5
<1> QED
  BY <1>3, <1>4, <1>5 DEF IsRemainder, left

\* A range and its cuts leave one set of pieces only.
LEMMA RemainderIsContained ==
    ASSUME NEW range, NEW cuts, NEW A, NEW B,
           IsRemainder(A, range, cuts), IsRemainder(B, range, cuts)
    PROVE  A \subseteq B
<1> SUFFICES ASSUME NEW f \in A PROVE f \in B
  OBVIOUS
<1>1. \A p \in Int : Covers(A, p) <=> Covers(B, p)
  BY DEF IsRemainder
<1>2. /\ \A h \in A : h.start \in Int /\ h.end \in Int /\ h.start < h.end
      /\ \A h \in B : h.start \in Int /\ h.end \in Int /\ h.start < h.end
      /\ \A h \in A : h = f \/ h.end < f.start \/ f.end < h.start
  BY DEF IsRemainder, Interval, Nonempty
<1>3. PICK g \in B : g.start <= f.start /\ f.start < g.end
  BY <1>1, <1>2 DEF Covers
<1>4. \A h \in B : h = g \/ h.end < g.start \/ g.end < h.start
  BY DEF IsRemainder
<1>5. g.start = f.start
  <2> SUFFICES ASSUME g.start < f.start PROVE FALSE
    BY <1>2, <1>3
  <2>1. PICK h \in A : h.start <= f.start - 1 /\ f.start - 1 < h.end
    <3>1. f.start - 1 \in Int /\ Covers(B, f.start - 1)
      BY <1>2, <1>3 DEF Covers
    <3> QED
      BY <1>1, <3>1 DEF Covers
  <2> QED
    BY <1>2, <2>1
<1>6. ~(f.end < g.end)
  <2> SUFFICES ASSUME f.end < g.end PROVE FALSE
    OBVIOUS
  <2>1. PICK h \in A : h.start <= f.end /\ f.end < h.end
    <3>1. f.end \in Int /\ Covers(B, f.end)
      BY <1>2, <1>5 DEF Covers
    <3> QED
      BY <1>1, <3>1 DEF Covers
  <2> QED
    BY <1>2, <2>1
<1>7. ~(g.end < f.end)
  <2> SUFFICES ASSUME g.end < f.end PROVE FALSE
    OBVIOUS
  <2>1. PICK h \in B : h.start <= g.end /\ g.end < h.end
    <3>1. g.end \in Int /\ Covers(A, g.end)
      BY <1>2, <1>5 DEF Covers
    <3> QED
      BY <1>1, <3>1 DEF Covers
  <2> QED
    BY <1>2, <1>4, <2>1
<1>8. f \in Interval /\ g \in Interval
  BY DEF IsRemainder
<1>9. f = g
  BY <1>2, <1>5, <1>6, <1>7, <1>8 DEF Interval
<1> QED
  BY <1>9

LEMMA RemainderIsUnique ==
    ASSUME NEW range, NEW cuts, NEW A, NEW B,
           IsRemainder(A, range, cuts), IsRemainder(B, range, cuts)
    PROVE  A = B
<1>1. A \subseteq B /\ B \subseteq A
  BY RemainderIsContained
<1> QED
  BY <1>1

\* Every stage of the fold is what its cuts leave.
LEMMA FoldRemains ==
    ASSUME NEW range \in Interval, NEW T, IsFiniteSet(T), T \subseteq Interval,
           \A c \in T : Nonempty(c),
           NEW g, Folds(g, T, range)
    PROVE  IsRemainder(g[T], range, T)
<1> DEFINE Bad == {s \in SUBSET T : ~IsRemainder(g[s], range, s)}
<1>1. Bad = {}
  <2> SUFFICES ASSUME Bad # {} PROVE FALSE
    OBVIOUS
  <2>0. Bad \subseteq SUBSET T
    OBVIOUS
  <2> HIDE DEF Bad
  <2>1. PICK s \in Bad : \A u \in Bad : u \subseteq s => u = s
    BY <2>0, SmallestSubset
  <2> USE DEF Bad
  <2>2. s \in SUBSET T /\ ~IsRemainder(g[s], range, s)
    OBVIOUS
  <2>3. s # {}
    <3>1. g[{}] = Whole(range)
      BY DEF Folds
    <3> QED
      BY <2>2, <3>1, WholeRemains
  <2>4. /\ Rest(s) \in SUBSET T /\ Rest(s) \notin Bad
        /\ Pick(s) \in T
        /\ s = Rest(s) \cup {Pick(s)}
    BY <2>1, <2>3, RestIsSmaller DEF Rest
  <2>5. g[s] = Subtract(g[Rest(s)], Pick(s))
    BY <2>2, <2>3 DEF Folds
  <2>6. IsRemainder(g[Rest(s)], range, Rest(s))
    BY <2>4
  <2>7. IsRemainder(Subtract(g[Rest(s)], Pick(s)), range, Rest(s) \cup {Pick(s)})
    BY <2>4, <2>6, SubtractRemains
  <2> QED
    BY <2>2, <2>4, <2>5, <2>7
<1> QED
  BY <1>1

\* subtractIntervals: the range without the cuts, in pieces as long as possible.
LEMMA SubtractIntervalsRemains ==
    ASSUME NEW range \in Interval, NEW cuts \in SUBSET Interval, IsFiniteSet(cuts)
    PROVE  IsRemainder(SubtractIntervals(range, cuts), range, cuts)
<1> DEFINE T == Clipped(range, cuts)
           g == CHOOSE h : Folds(h, T, range)
<1>1. IsFiniteSet(T)
  <2>1. IsFiniteSet({Clip(c, range) : c \in cuts})
    <3> DEFINE f == [c \in cuts |-> Clip(c, range)]
               R == {Clip(c, range) : c \in cuts}
    <3>1. f \in Surjection(cuts, R)
      BY DEF Surjection
    <3> HIDE DEF f, R
    <3>2. IsFiniteSet(R)
      BY <3>1, FS_Surjection
    <3> QED
      BY <3>2 DEF R
  <2> QED
    BY <2>1, FS_Subset DEF Clipped
<1>2. T \subseteq Interval /\ \A c \in T : Nonempty(c)
  BY DEF Clipped, Clip, Later, Earlier, Interval
<1>3. Folds(g, T, range)
  <2> HIDE DEF T
  <2>1. \E h : Folds(h, T, range)
    BY <1>1, FoldExists
  <2> QED
    BY <2>1
<1>4. IsRemainder(g[T], range, T)
  <2> HIDE DEF T, g
  <2> QED
    BY <1>1, <1>2, <1>3, FoldRemains
<1>5. ASSUME NEW p \in Int, Holds(range, p)
      PROVE  Covers(T, p) <=> Covers(cuts, p)
  <2>1. p \in range.start .. (range.end - 1)
    BY <1>5 DEF Holds, Interval
  <2> QED
    BY <2>1, ClippedCover
<1>6. IsRemainder(g[T], range, cuts)
  <2> HIDE DEF T, g
  <2> QED
    BY <1>4, <1>5 DEF IsRemainder
<1> QED
  BY <1>6, SubtractUnfolds

-----------------------------------------------------------------------------
\* The loop of subtractIntervals: what is free and not to be cut any more is
\* what no cut of the call covers, whatever the cuts and their order.
THEOREM FreeIsTheRemainder == Spec => []FreeIsRemainder
<1>1. IInv => FreeIsRemainder
  BY DEF IInv
<1> QED
  BY <1>1, InitIInv, StepIInv, PTL DEF Spec

\* A piece the listings return is not empty and inside the range asked for.
THEOREM FreeStaysInRange == Spec => []FreeInRange
<1>1. IInv => FreeInRange
  BY DEF IInv
<1> QED
  BY <1>1, InitIInv, StepIInv, PTL DEF Spec

\* No two pieces of one range touch: each is as long as the cuts allow.
THEOREM FreeStaysSeparate == Spec => []FreeIsSeparate
<1>1. IInv => FreeIsSeparate
  BY DEF IInv
<1> QED
  BY <1>1, InitIInv, StepIInv, PTL DEF Spec

\* The result does not depend on the order the cuts come in: the loop ends with
\* what the fold over the cuts, in whatever order, computes.
THEOREM OrderDoesNotMatter == Spec => []OrderIsIrrelevant
<1>1. ASSUME IInv, todo = {}
      PROVE  free = SubtractIntervals(call.range, call.cuts)
  <2>1. /\ call.range \in Interval /\ call.cuts \in SUBSET Interval
        /\ IsFiniteSet(call.cuts)
    BY <1>1, CallTyped, CutsAssumption DEF IInv, TypeOK
  <2>2. \A p \in Int : Covers(free, p) <=> Holds(call.range, p) /\ ~Covers(call.cuts, p)
    <3> SUFFICES ASSUME NEW p \in Int
                 PROVE  Covers(free, p) <=> Holds(call.range, p) /\ ~Covers(call.cuts, p)
      OBVIOUS
    <3>1. ~Covers(todo, p)
      BY <1>1 DEF Covers
    <3>2. Holds(call.range, p) => p \in call.range.start .. (call.range.end - 1)
      BY <2>1 DEF Holds, Interval
    <3>3. Covers(free, p) => Holds(call.range, p)
      BY <1>1, <2>1 DEF IInv, TypeOK, FreeInRange, Covers, Holds, Interval
    <3> QED
      BY <1>1, <3>1, <3>2, <3>3 DEF IInv, FreeIsRemainder
  <2>3. IsRemainder(free, call.range, call.cuts)
    BY <1>1, <2>2 DEF IsRemainder, IInv, TypeOK, FreeInRange, FreeIsSeparate
  <2> QED
    BY <2>1, <2>3, SubtractIntervalsRemains, RemainderIsUnique
<1>2. IInv => OrderIsIrrelevant
  BY <1>1 DEF OrderIsIrrelevant
<1> QED
  BY <1>2, InitIInv, StepIInv, PTL DEF Spec

=============================================================================
