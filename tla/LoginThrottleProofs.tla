------------------------ MODULE LoginThrottleProofs ------------------------
(***************************************************************************)
(* IInv is an invariant of LoginThrottle, for any number of keys and of    *)
(* logins in flight and any limits; with it nobody is locked out early,    *)
(* logins that do not overlap are counted exactly, and a lock stands.      *)
(***************************************************************************)
EXTENDS LoginThrottle, TLAPS

-----------------------------------------------------------------------------
(* Logins *)

LEMMA CountedBounds ==
    ASSUME NEW n \in 0 .. MaxAttempts
    PROVE  /\ Counted(n) \in 0 .. MaxAttempts
           /\ n <= Counted(n)
           /\ \A m \in 0 .. MaxAttempts : m <= n => Counted(m) <= Counted(n)
BY ThrottleAssumption DEF Counted

\* The login that answered is idle.
Answered(code) == [Idle EXCEPT !.reply = code]

LEMMA AnsweredLogin ==
    ASSUME NEW code \in Codes
    PROVE  /\ Answered(code) \in Login
           /\ Answered(code).pc = "idle" /\ Answered(code).key = None
BY ThrottleAssumption DEF Answered, Idle, Login, Codes, Points

\* A login with another place, date or document to save is a login.
LEMMA FieldSet ==
    ASSUME NEW q \in Login
    PROVE  /\ \A p \in Points : [q EXCEPT !.pc = p] \in Login
           /\ [q EXCEPT !.ago = 0] \in Login
           /\ \A i \in Buckets : [q EXCEPT !.id = i] \in Login
           /\ \A n \in 0 .. MaxAttempts : [q EXCEPT !.count = n] \in Login
BY ThrottleAssumption DEF Login

\* What a step may make of the login r without touching the buckets.
MovesTo(r, q) ==
    /\ q \in Login
    /\ req' = [req EXCEPT ![r] = q]
    /\ q.pc # "idle" => q.key \in Keys
    /\ q.pc # "idle" => \/ InFlight(r) /\ q.key = req[r].key
                        \/ \A s \in Requests \ {r} : InFlight(s) => req[s].key # q.key
                        \/ q.key \in shared'
    /\ q.pc = "save" => /\ bucket[q.key] # None /\ bucket[q.key].id = q.id
                        /\ q.count = Counted(bucket[q.key].count)
    /\ q.pc \in {"compare", "find", "save", "reset", "clear"} =>
         ~LockedAt(q.key, 0) \/ q.key \in shared'

LEMMA MoveFrame ==
    ASSUME IInv, NEW r \in Requests, NEW q, MovesTo(r, q),
           UNCHANGED <<bucket, since, window>>,
           shared \subseteq shared', shared' \subseteq Keys
    PROVE  IInv'
<1>1. TypeOK'
  BY DEF IInv, TypeOK, MovesTo
<1>2. req'[r] = q /\ \A s \in Requests \ {r} : req'[s] = req[s]
  BY DEF IInv, TypeOK, MovesTo
<1>3. \A s \in Requests : InFlight(s)' => req'[s].key \in Keys
  BY <1>2 DEF IInv, InFlight, MovesTo
<1>4. NotLockedEarly' /\ AloneCountsExactly'
  BY DEF IInv, NotLockedEarly, AloneCountsExactly
<1>5. CountsCovered'
  <2>1. \A k \in Keys : bucket'[k] # None => bucket'[k].count <= since'[k]
    BY DEF IInv, CountsCovered
  <2>2. ASSUME NEW s \in Requests, req'[s].pc = "save", Present(s)'
        PROVE  req'[s].count <= Counted(since'[req'[s].key])
    <3>1. CASE s # r
      BY <1>2, <2>2, <3>1 DEF IInv, CountsCovered, Present
    <3>2. CASE s = r
      <4>1. q.key \in Keys /\ q.count = Counted(bucket[q.key].count) /\ bucket[q.key] # None
        BY <1>2, <2>2, <3>2 DEF MovesTo
      <4>2. /\ bucket[q.key].count \in 0 .. MaxAttempts /\ since[q.key] \in 0 .. MaxAttempts
            /\ bucket[q.key].count <= since[q.key]
        BY <4>1 DEF IInv, TypeOK, Bucket, CountsCovered
      <4>3. QED
        BY <1>2, <3>2, <4>1, <4>2, CountedBounds
    <3>3. QED
      BY <3>1, <3>2
  <2>3. QED
    BY <2>1, <2>2 DEF CountsCovered
<1>6. AloneSound'
  <2>1. ASSUME NEW s \in Requests, NEW t \in Requests, InFlight(s)', InFlight(t)',
               req'[s].key = req'[t].key, req'[s].key \notin shared'
        PROVE  s = t
    BY <1>2, <2>1 DEF IInv, AloneSound, InFlight, MovesTo
  <2>2. ASSUME NEW s \in Requests, req'[s].key \notin shared', req'[s].pc = "save"
        PROVE  Present(s)' /\ req'[s].count = Counted(window'[req'[s].key])
    <3>1. CASE s # r
      BY <1>2, <2>2, <3>1 DEF IInv, AloneSound, Present
    <3>2. CASE s = r
      BY <1>2, <2>2, <3>2 DEF IInv, AloneCountsExactly, MovesTo, Present
    <3>3. QED
      BY <3>1, <3>2
  <2>3. ASSUME NEW s \in Requests, req'[s].key \notin shared', Past(s)'
        PROVE  ~LockedAt(req[s].key, 0)'
    <3>1. CASE s # r
      BY <1>2, <2>3, <3>1 DEF IInv, AloneSound, Past, LockedAt
    <3>2. CASE s = r
      BY <1>2, <2>3, <3>2 DEF MovesTo, Past, LockedAt
    <3>3. QED
      BY <3>1, <3>2
  <2>4. QED
    BY <2>1, <2>2, <2>3 DEF AloneSound
<1>7. QED
  BY <1>1, <1>3, <1>4, <1>5, <1>6 DEF IInv

LEMMA ReplyFrame ==
    ASSUME IInv, NEW r \in Requests, NEW code \in Codes, Reply(r, code),
           UNCHANGED <<bucket, since, window, shared>>
    PROVE  IInv'
<1>1. MovesTo(r, Answered(code))
  BY AnsweredLogin DEF MovesTo, Reply, Answered
<1>2. shared' = shared /\ shared \subseteq Keys
  BY DEF IInv, TypeOK
<1>3. QED
  BY <1>1, <1>2, MoveFrame

-----------------------------------------------------------------------------
(* The steps that only read *)

LEMMA ArriveStep ==
    ASSUME IInv, NEW r \in Requests, NEW k \in Keys, Arrive(r, k)
    PROVE  IInv'
<1> DEFINE p == [Idle EXCEPT !.pc = "check"]
           q == [p EXCEPT !.key = k]
<1>0. Idle \in Login
  BY ThrottleAssumption DEF Idle, Login, Points, Codes
<1>1. q \in Login /\ q.pc = "check" /\ q.key = k
  <2>1. p \in Login /\ p.pc = "check"
    BY <1>0, FieldSet DEF Login, Points
  <2> HIDE DEF p
  <2>2. QED
    BY <2>1 DEF Login
<1>2. /\ req' = [req EXCEPT ![r] = q]
      /\ shared \subseteq shared' /\ shared' \subseteq Keys
      /\ k \in shared' \/ \A s \in Requests \ {r} : req[s].key # k
      /\ UNCHANGED <<bucket, since, window>>
  BY DEF Arrive, IInv, TypeOK
<1> HIDE DEF q
<1>3. MovesTo(r, q)
  BY <1>1, <1>2 DEF MovesTo
<1>4. QED
  BY <1>2, <1>3, MoveFrame

LEMMA CheckStep ==
    ASSUME IInv, NEW r \in Requests, Check(r)
    PROVE  IInv'
<1>1. UNCHANGED <<bucket, since, window, shared>> /\ shared \subseteq Keys
  BY DEF Check, IInv, TypeOK
<1>2. CASE Reply(r, "TOO_MANY_ATTEMPTS")
  BY <1>1, <1>2, ReplyFrame DEF Codes
<1>3. CASE ~Reply(r, "TOO_MANY_ATTEMPTS")
  <2> DEFINE q == [req[r] EXCEPT !.pc = "compare"]
  <2>1. req[r] \in Login /\ req[r].pc = "check" /\ req[r].key \in Keys /\ InFlight(r)
    BY DEF Check, IInv, TypeOK, InFlight
  <2>2. q \in Login /\ q.pc = "compare" /\ q.key = req[r].key
    BY <2>1, FieldSet DEF Login, Points
  <2>3. req' = [req EXCEPT ![r] = q] /\ ~LockedAt(req[r].key, req[r].ago)
    BY <1>3 DEF Check
  <2>4. ~LockedAt(req[r].key, 0)
    BY <2>1, <2>3, ThrottleAssumption DEF LockedAt, IInv, TypeOK, Bucket, Login
  <2> HIDE DEF q
  <2>5. MovesTo(r, q)
    BY <2>1, <2>2, <2>3, <2>4 DEF MovesTo
  <2>6. QED
    BY <1>1, <2>5, MoveFrame
<1>4. QED
  BY <1>2, <1>3

LEMMA CompareStep ==
    ASSUME IInv, NEW r \in Requests, Compare(r)
    PROVE  IInv'
<1>1. /\ UNCHANGED <<bucket, since, window, shared>> /\ shared \subseteq Keys
      /\ req[r] \in Login /\ req[r].pc = "compare" /\ req[r].key \in Keys /\ InFlight(r)
  BY DEF Compare, IInv, TypeOK, InFlight
<1>2. ~LockedAt(req[r].key, 0) \/ req[r].key \in shared
  BY <1>1 DEF IInv, AloneSound, Past
<1>3. PICK q : /\ q \in Login /\ q.pc \in {"find", "clear"} /\ q.key = req[r].key
               /\ req' = [req EXCEPT ![r] = q]
  <2>1. CASE Stamped(r, "find")
    <3> DEFINE p == [req[r] EXCEPT !.pc = "find"]
               q == [p EXCEPT !.ago = 0]
    <3>1. p \in Login /\ q \in Login
      BY <1>1, FieldSet DEF Points
    <3>2. q.pc = "find" /\ q.key = req[r].key
      BY <1>1 DEF Login
    <3>3. req' = [req EXCEPT ![r] = q]
      BY <2>1 DEF Stamped, IInv, TypeOK
    <3>4. QED
      BY <3>1, <3>2, <3>3
  <2>2. CASE req' = [req EXCEPT ![r].pc = "clear"]
    <3> DEFINE q == [req[r] EXCEPT !.pc = "clear"]
    <3>1. q \in Login /\ q.pc = "clear" /\ q.key = req[r].key
      BY <1>1, FieldSet DEF Login, Points
    <3>2. QED
      BY <2>2, <3>1
  <2>3. QED
    BY <2>1, <2>2 DEF Compare
<1>4. MovesTo(r, q)
  BY <1>1, <1>2, <1>3 DEF MovesTo
<1>5. QED
  BY <1>1, <1>4, MoveFrame

LEMMA FindStep ==
    ASSUME IInv, NEW r \in Requests, Find(r)
    PROVE  IInv'
<1> DEFINE k == req[r].key
<1>1. /\ UNCHANGED <<bucket, since, window, shared>> /\ shared \subseteq Keys
      /\ req[r] \in Login /\ req[r].pc = "find" /\ k \in Keys /\ InFlight(r)
  BY DEF Find, IInv, TypeOK, InFlight
<1>2. ~LockedAt(k, 0) \/ k \in shared
  BY <1>1 DEF IInv, AloneSound, Past
<1>3. CASE Over(k, req[r].ago)
  <2> DEFINE q == [req[r] EXCEPT !.pc = "reset"]
  <2>1. q \in Login /\ q.pc = "reset" /\ q.key = k
    BY <1>1, FieldSet DEF Login, Points
  <2>2. req' = [req EXCEPT ![r] = q]
    BY <1>3 DEF Find
  <2> HIDE DEF q
  <2>3. MovesTo(r, q)
    BY <1>1, <1>2, <2>1, <2>2 DEF MovesTo
  <2>4. QED
    BY <1>1, <2>3, MoveFrame
<1>4. CASE ~Over(k, req[r].ago)
  <2> DEFINE n == Counted(bucket[k].count)
             p == [req[r] EXCEPT !.pc = "save"]
             d == [p EXCEPT !.id = bucket[k].id]
             q == [d EXCEPT !.count = n]
  <2>1. bucket[k] # None /\ bucket[k] \in Bucket
    BY <1>1, <1>4 DEF Over, IInv, TypeOK
  <2>2. bucket[k].id \in Buckets /\ n \in 0 .. MaxAttempts
    BY <2>1, CountedBounds DEF Bucket
  <2>3. p \in Login /\ p.pc = "save" /\ p.key = k
    BY <1>1, FieldSet DEF Login, Points
  <2> HIDE DEF p, n
  <2>4. d \in Login /\ d.pc = "save" /\ d.key = k /\ d.id = bucket[k].id
    BY <2>2, <2>3, FieldSet DEF Login
  <2> HIDE DEF d
  <2>5. q \in Login /\ q.pc = "save" /\ q.key = k /\ q.id = bucket[k].id /\ q.count = n
    BY <2>2, <2>4, FieldSet DEF Login
  <2>6. req' = [req EXCEPT ![r] = q]
    BY <1>4 DEF Find, p, d, n, IInv, TypeOK
  <2> HIDE DEF q
  <2>7. MovesTo(r, q)
    BY <1>1, <1>2, <2>1, <2>5, <2>6 DEF MovesTo, n
  <2>8. QED
    BY <1>1, <2>7, MoveFrame
<1>5. QED
  BY <1>3, <1>4

LEMMA StorageErrorStep ==
    ASSUME IInv, NEW r \in Requests, StorageError(r)
    PROVE  IInv'
BY ReplyFrame DEF StorageError, Codes


-----------------------------------------------------------------------------
(* The steps that write a bucket *)

\* The login r answers, having put b for the bucket of its key.
Puts(r, b, n, w) ==
    /\ InFlight(r) /\ req[r].key \in Keys
    /\ b \in Bucket \cup {None}
    /\ n \in 0 .. MaxAttempts /\ w \in 0 .. MaxAttempts
    /\ bucket' = [bucket EXCEPT ![req[r].key] = b]
    /\ since' = [since EXCEPT ![req[r].key] = n]
    /\ window' = [window EXCEPT ![req[r].key] = w]
    /\ shared' = shared
    /\ b # None =>
         /\ b.count <= n
         /\ b.left # None => n >= MaxAttempts
         /\ req[r].key \notin shared =>
              /\ b.count = w
              /\ (b.count >= MaxAttempts /\ b.count >= 2 => b.left # None)
         /\ \/ \A s \in Requests : req[s].id # b.id
            \/ /\ bucket[req[r].key] # None /\ bucket[req[r].key].id = b.id
               /\ since[req[r].key] <= n

LEMMA PutsFrame ==
    ASSUME IInv, NEW r \in Requests, NEW b, NEW n, NEW w, Puts(r, b, n, w),
           NEW code \in Codes, Reply(r, code)
    PROVE  IInv'
<1> DEFINE k == req[r].key
<1>1. /\ req'[r] = Answered(code) /\ Answered(code) \in Login
      /\ req'[r].pc = "idle" /\ req'[r].key = None
      /\ \A s \in Requests \ {r} : req'[s] = req[s]
  BY AnsweredLogin DEF IInv, TypeOK, Reply, Answered
<1>2. /\ k \in Keys /\ bucket'[k] = b /\ since'[k] = n /\ window'[k] = w
      /\ \A j \in Keys \ {k} :
           bucket'[j] = bucket[j] /\ since'[j] = since[j] /\ window'[j] = window[j]
  BY DEF IInv, TypeOK, Puts
<1>3. TypeOK'
  <2>1. req' \in [Requests -> Login]
    BY AnsweredLogin DEF IInv, TypeOK, Reply, Answered
  <2>2. /\ bucket' \in [Keys -> Bucket \cup {None}]
        /\ since' \in [Keys -> 0 .. MaxAttempts]
        /\ window' \in [Keys -> 0 .. MaxAttempts]
        /\ shared' \subseteq Keys
    BY DEF IInv, TypeOK, Puts
  <2>3. QED
    BY <2>1, <2>2 DEF TypeOK
<1>4. \A s \in Requests : InFlight(s)' => req'[s].key \in Keys
  BY <1>1 DEF IInv, InFlight
<1>5. NotLockedEarly'
  BY <1>2 DEF IInv, NotLockedEarly, Puts
<1>6. AloneCountsExactly'
  BY <1>2 DEF IInv, AloneCountsExactly, Puts
<1>7. CountsCovered'
  <2>1. \A j \in Keys : bucket'[j] # None => bucket'[j].count <= since'[j]
    BY <1>2 DEF IInv, CountsCovered, Puts
  <2>2. ASSUME NEW s \in Requests, req'[s].pc = "save", Present(s)'
        PROVE  req'[s].count <= Counted(since'[req'[s].key])
    <3>1. s # r /\ req'[s] = req[s] /\ req[s].key \in Keys /\ req[s] \in Login
      BY <1>1, <2>2 DEF IInv, InFlight, TypeOK
    <3>2. CASE req[s].key # k
      <4>1. Present(s) /\ since'[req[s].key] = since[req[s].key]
        BY <1>2, <2>2, <3>1, <3>2 DEF Present
      <4>2. QED
        BY <2>2, <3>1, <4>1 DEF IInv, CountsCovered
    <3>3. CASE req[s].key = k
      <4>1. b # None /\ b.id = req[s].id
        BY <1>2, <2>2, <3>1, <3>3 DEF Present
      <4>2. /\ bucket[k] # None /\ bucket[k].id = req[s].id /\ since[k] <= n
            /\ n \in 0 .. MaxAttempts
        BY <4>1 DEF Puts
      <4>3. req[s].count <= Counted(since[k])
        BY <2>2, <3>1, <3>3, <4>2 DEF IInv, CountsCovered, Present
      <4>4. /\ Counted(since[k]) <= Counted(n) /\ Counted(since[k]) \in 0 .. MaxAttempts
            /\ Counted(n) \in 0 .. MaxAttempts
        <5>1. since[k] \in 0 .. MaxAttempts
          BY <1>2 DEF IInv, TypeOK
        <5>2. QED
          BY <4>2, <5>1, CountedBounds
      <4>5. req[s].count \in 0 .. MaxAttempts
        BY <3>1 DEF Login
      <4>6. req[s].count <= Counted(n)
        BY <4>3, <4>4, <4>5, ThrottleAssumption
      <4>7. QED
        BY <1>2, <3>1, <3>3, <4>6
    <3>4. QED
      BY <3>2, <3>3
  <2>3. QED
    BY <2>1, <2>2 DEF CountsCovered
<1>8. AloneSound'
  <2>0. shared' = shared
    BY DEF Puts
  <2>1. ASSUME NEW s \in Requests, NEW t \in Requests, InFlight(s)', InFlight(t)',
               req'[s].key = req'[t].key, req'[s].key \notin shared'
        PROVE  s = t
    BY <1>1, <2>0, <2>1 DEF IInv, AloneSound, InFlight
  <2>2. ASSUME NEW s \in Requests, req'[s].key \notin shared', req'[s].pc # "idle"
        PROVE  /\ req'[s] = req[s] /\ req[s].key \in Keys /\ req[s].key # k
               /\ req[s].key \notin shared
    BY <1>1, <2>0, <2>2 DEF IInv, AloneSound, InFlight, Puts
  <2>3. ASSUME NEW s \in Requests, req'[s].key \notin shared', req'[s].pc = "save"
        PROVE  Present(s)' /\ req'[s].count = Counted(window'[req'[s].key])
    <3>1. /\ req'[s] = req[s] /\ req[s].key \in Keys /\ req[s].key # k
          /\ req[s].key \notin shared
      BY <2>2, <2>3
    <3>2. QED
      BY <1>2, <2>3, <3>1 DEF IInv, AloneSound, Present
  <2>4. ASSUME NEW s \in Requests, req'[s].key \notin shared', Past(s)'
        PROVE  ~LockedAt(req[s].key, 0)'
    <3>1. /\ req'[s] = req[s] /\ req[s].key \in Keys /\ req[s].key # k
          /\ req[s].key \notin shared
      BY <2>2, <2>4 DEF Past
    <3>2. Past(s) /\ ~LockedAt(req[s].key, 0)
      BY <2>4, <3>1 DEF IInv, AloneSound, Past
    <3>3. QED
      BY <1>2, <3>1, <3>2 DEF LockedAt
  <2>5. QED
    BY <2>1, <2>3, <2>4 DEF AloneSound
<1>9. QED
  BY <1>3, <1>4, <1>5, <1>6, <1>7, <1>8 DEF IInv

LEMMA ResetStep ==
    ASSUME IInv, NEW r \in Requests, Reset(r)
    PROVE  IInv'
<1> DEFINE k == req[r].key
           fresh(i) == [id |-> i, count |-> 1, age |-> req[r].ago, left |-> None]
           n == Counted(since[k])
           w == IF k \in shared THEN 0 ELSE 1
<1>1. /\ req[r] \in Login /\ k \in Keys /\ InFlight(r) /\ Reply(r, "refused")
      /\ since[k] \in 0 .. MaxAttempts
  BY DEF Reset, IInv, TypeOK, InFlight
<1>2. PICK i \in Buckets : /\ bucket' = [bucket EXCEPT ![k] = fresh(i)]
                           /\ \/ bucket[k] # None /\ bucket[k].id = i
                              \/ \A s \in Requests : req[s].id # i
  <2>1. CASE bucket[k] # None
    <3>1. bucket[k].id \in Buckets
      BY <1>1, <2>1 DEF IInv, TypeOK, Bucket
    <3>2. bucket' = [bucket EXCEPT ![k] = fresh(bucket[k].id)]
      BY <1>1, <2>1 DEF Reset, IInv, TypeOK
    <3>3. QED
      BY <2>1, <3>1, <3>2
  <2>2. CASE bucket[k] = None
    BY <2>2 DEF Reset, Unused
  <2>3. QED
    BY <2>1, <2>2
<1>3. fresh(i) \in Bucket
  BY <1>1, <1>2, ThrottleAssumption DEF Bucket, Login, Oldest
<1>4. n \in 0 .. MaxAttempts /\ 1 <= n /\ since[k] <= n /\ w \in 0 .. MaxAttempts
  BY <1>1, ThrottleAssumption DEF Counted
<1>5. /\ since' = [since EXCEPT ![k] = n] /\ window' = [window EXCEPT ![k] = w]
      /\ shared' = shared
  BY DEF Reset
<1>6. /\ fresh(i).count = 1 /\ fresh(i).left = None /\ fresh(i).id = i
      /\ k \notin shared => w = 1
  OBVIOUS
<1>7. bucket' = [bucket EXCEPT ![k] = fresh(i)]
  BY <1>2
<1>8. \/ \A s \in Requests : req[s].id # fresh(i).id
      \/ bucket[k] # None /\ bucket[k].id = fresh(i).id /\ since[k] <= n
  BY <1>2, <1>4, <1>6
<1> HIDE DEF n, w, fresh
<1>9. Puts(r, fresh(i), n, w)
  BY <1>1, <1>3, <1>4, <1>5, <1>6, <1>7, <1>8 DEF Puts
<1>10. QED
  BY <1>1, <1>9, PutsFrame DEF Codes

LEMMA SaveStep ==
    ASSUME IInv, NEW r \in Requests, Save(r)
    PROVE  IInv'
<1> DEFINE k == req[r].key
           n == Counted(since[k])
           w == IF k \in shared THEN 0 ELSE Counted(window[k])
           c == req[r].count
           b == bucket[k]
           left == IF Locks(c) THEN Lockout - req[r].ago ELSE b.left
           half == [b EXCEPT !.count = c]
           full == [half EXCEPT !.left = left]
<1>1. /\ req[r] \in Login /\ k \in Keys /\ InFlight(r) /\ Reply(r, "refused")
      /\ req[r].pc = "save" /\ shared' = shared /\ shared \subseteq Keys
      /\ since[k] \in 0 .. MaxAttempts /\ window[k] \in 0 .. MaxAttempts
  BY DEF Save, IInv, TypeOK, InFlight
<1>2. CASE ~Present(r)
  BY <1>1, <1>2, ReplyFrame DEF Save, Codes
<1>3. CASE Present(r)
  <2>1. b \in Bucket /\ b # None /\ c \in 0 .. MaxAttempts
    BY <1>1, <1>3 DEF Present, IInv, TypeOK, Login
  <2>2. n \in 0 .. MaxAttempts /\ since[k] <= n /\ w \in 0 .. MaxAttempts
    BY <1>1, CountedBounds, ThrottleAssumption
  <2>3. /\ c <= n
        /\ b.left # None => since[k] >= MaxAttempts
        /\ k \notin shared => c = w
    BY <1>1, <1>3, <2>1 DEF IInv, CountsCovered, NotLockedEarly, AloneSound
  <2>4. left \in Int \cup {None} /\ (Locks(c) => left # None /\ c >= MaxAttempts)
        /\ (~Locks(c) => left = b.left /\ ~(c >= MaxAttempts))
    BY <1>1, <2>1, ThrottleAssumption DEF Bucket, Login, Locks
  <2>5. /\ bucket' = [bucket EXCEPT ![k] = full]
        /\ since' = [since EXCEPT ![k] = n]
        /\ window' = [window EXCEPT ![k] = w]
    BY <1>1, <1>3 DEF Save, IInv, TypeOK
  <2> HIDE DEF left, n, w, c
  <2>6. half \in Bucket /\ half.count = c /\ half.left = b.left /\ half.id = b.id
    BY <2>1 DEF Bucket
  <2> HIDE DEF half
  <2>7. full \in Bucket /\ full.count = c /\ full.left = left /\ full.id = b.id
    BY <2>4, <2>6 DEF Bucket
  <2> HIDE DEF full
  <2>8. full.left # None => n >= MaxAttempts
    BY <1>1, <2>1, <2>2, <2>3, <2>4, <2>7, ThrottleAssumption
  <2>9. k \notin shared =>
          full.count = w /\ (full.count >= MaxAttempts /\ full.count >= 2 => full.left # None)
    BY <2>3, <2>4, <2>7
  <2>10. Puts(r, full, n, w)
    BY <1>1, <2>1, <2>2, <2>3, <2>5, <2>7, <2>8, <2>9 DEF Puts
  <2>11. QED
    BY <1>1, <2>10, PutsFrame DEF Codes
<1>4. QED
  BY <1>2, <1>3

LEMMA ClearStep ==
    ASSUME IInv, NEW r \in Requests, Clear(r)
    PROVE  IInv'
<1>1. InFlight(r) /\ req[r].key \in Keys /\ Reply(r, "ok")
  BY DEF Clear, IInv, InFlight
<1>2. Puts(r, None, 0, 0)
  BY <1>1, ThrottleAssumption DEF Clear, Puts
<1>3. QED
  BY <1>1, <1>2, PutsFrame DEF Codes

-----------------------------------------------------------------------------
(* Time *)

\* A bucket and a login one unit of time later.
OlderBucket(b) ==
    [b EXCEPT !.age  = Older(@, Oldest),
              !.left = IF @ # None /\ @ > -MaxStall THEN @ - 1 ELSE @]

OlderLogin(q) == [q EXCEPT !.took = @ + 1, !.ago = Older(@, MaxStall)]

LEMMA OlderBucketIs ==
    ASSUME NEW b \in Bucket
    PROVE  /\ OlderBucket(b) \in Bucket /\ OlderBucket(b) # None
           /\ OlderBucket(b).id = b.id /\ OlderBucket(b).count = b.count
           /\ OlderBucket(b).left # None <=> b.left # None
           /\ b.left # None => OlderBucket(b).left \in {b.left, b.left - 1}
<1> DEFINE age == Older(b.age, Oldest)
           left == IF b.left # None /\ b.left > -MaxStall THEN b.left - 1 ELSE b.left
           half == [b EXCEPT !.age = age]
<1>1. age \in 0 .. Oldest
  BY ThrottleAssumption DEF Bucket, Older, Oldest
<1>2. /\ left \in Int \cup {None} /\ (left # None <=> b.left # None)
      /\ b.left # None => left \in {b.left, b.left - 1}
  BY ThrottleAssumption DEF Bucket
<1> HIDE DEF age, left
<1>3. half \in Bucket /\ half.id = b.id /\ half.count = b.count
  BY <1>1 DEF Bucket
<1> HIDE DEF half
<1> DEFINE full == [half EXCEPT !.left = left]
<1>4. full \in Bucket /\ full.id = b.id /\ full.count = b.count /\ full.left = left
  BY <1>2, <1>3 DEF Bucket
<1>5. OlderBucket(b) = full
  BY DEF OlderBucket, age, left, half, Bucket
<1> HIDE DEF full
<1>6. full # None
  BY <1>4, NoneAssumption
<1>7. QED
  BY <1>2, <1>4, <1>5, <1>6

LEMMA OlderLoginIs ==
    ASSUME NEW q \in Login, q.took < MaxStall
    PROVE  /\ OlderLogin(q) \in Login
           /\ OlderLogin(q).pc = q.pc /\ OlderLogin(q).key = q.key
           /\ OlderLogin(q).id = q.id /\ OlderLogin(q).count = q.count
<1> DEFINE took == q.took + 1
           ago == Older(q.ago, MaxStall)
           half == [q EXCEPT !.took = took]
<1>1. took \in 0 .. MaxStall /\ ago \in 0 .. MaxStall
  BY ThrottleAssumption DEF Login, Older
<1> HIDE DEF took, ago
<1>2. /\ half \in Login
      /\ half.pc = q.pc /\ half.key = q.key /\ half.id = q.id /\ half.count = q.count
  BY <1>1 DEF Login
<1> HIDE DEF half
<1> DEFINE full == [half EXCEPT !.ago = ago]
<1>3. /\ full \in Login
      /\ full.pc = q.pc /\ full.key = q.key /\ full.id = q.id /\ full.count = q.count
  BY <1>1, <1>2 DEF Login
<1>4. OlderLogin(q) = full
  BY DEF OlderLogin, took, ago, half, Login
<1>5. QED
  BY <1>3, <1>4

LEMMA Ticks ==
    ASSUME TypeOK, Tick
    PROVE  /\ \A k \in Keys :
                bucket'[k] = IF bucket[k] = None THEN None ELSE OlderBucket(bucket[k])
           /\ \A r \in Requests :
                req'[r] = IF InFlight(r) THEN OlderLogin(req[r]) ELSE req[r]
           /\ \A r \in Requests : InFlight(r) => req[r].took < MaxStall
           /\ DOMAIN bucket' = Keys /\ DOMAIN req' = Requests
           /\ bucket' = [k \in Keys |-> bucket'[k]] /\ req' = [r \in Requests |-> req'[r]]
           /\ UNCHANGED <<since, window, shared>>
BY DEF Tick, TypeOK, OlderBucket, OlderLogin

LEMMA TickStep ==
    ASSUME IInv, Tick
    PROVE  IInv'
<1>0. TypeOK
  BY DEF IInv
<1>1. /\ bucket' = [k \in Keys |-> bucket'[k]] /\ req' = [r \in Requests |-> req'[r]]
      /\ UNCHANGED <<since, window, shared>>
  BY <1>0, Ticks
<1>2. ASSUME NEW k \in Keys
      PROVE  /\ bucket'[k] \in Bucket \cup {None}
             /\ bucket'[k] = None <=> bucket[k] = None
             /\ bucket[k] # None =>
                  /\ bucket[k] \in Bucket
                  /\ bucket'[k].id = bucket[k].id /\ bucket'[k].count = bucket[k].count
                  /\ bucket'[k].left # None <=> bucket[k].left # None
                  /\ bucket[k].left # None =>
                       bucket'[k].left \in {bucket[k].left, bucket[k].left - 1}
  <2>1. bucket'[k] = IF bucket[k] = None THEN None ELSE OlderBucket(bucket[k])
    BY <1>0, <1>2, Ticks
  <2>2. CASE bucket[k] = None
    BY <2>1, <2>2
  <2>3. CASE bucket[k] # None
    <3>1. bucket[k] \in Bucket
      BY <1>0, <2>3 DEF TypeOK
    <3>2. QED
      BY <2>1, <2>3, <3>1, OlderBucketIs
  <2>4. QED
    BY <2>2, <2>3
<1>3. ASSUME NEW r \in Requests
      PROVE  /\ req'[r] \in Login
             /\ req'[r].pc = req[r].pc /\ req'[r].key = req[r].key
             /\ req'[r].id = req[r].id /\ req'[r].count = req[r].count
  <2>1. /\ req'[r] = IF InFlight(r) THEN OlderLogin(req[r]) ELSE req[r]
        /\ InFlight(r) => req[r].took < MaxStall
    BY <1>0, <1>3, Ticks
  <2>2. req[r] \in Login
    BY <1>0, <1>3 DEF TypeOK
  <2>3. CASE InFlight(r)
    BY <2>1, <2>2, <2>3, OlderLoginIs
  <2>4. CASE ~InFlight(r)
    BY <2>1, <2>2, <2>4
  <2>5. QED
    BY <2>3, <2>4
<1>4. TypeOK'
  <2>1. bucket' \in [Keys -> Bucket \cup {None}]
    BY <1>1, <1>2
  <2>2. req' \in [Requests -> Login]
    BY <1>1, <1>3
  <2>3. QED
    BY <1>0, <1>1, <2>1, <2>2 DEF TypeOK
<1>5. \A r \in Requests : InFlight(r)' => req'[r].key \in Keys
  BY <1>3 DEF IInv, InFlight
<1>6. NotLockedEarly'
  BY <1>1, <1>2 DEF IInv, NotLockedEarly
<1>7. AloneCountsExactly'
  <2>1. ASSUME NEW k \in Keys \ shared', bucket'[k] # None
        PROVE  /\ bucket'[k].count = window'[k]
               /\ bucket'[k].count >= MaxAttempts /\ bucket'[k].count >= 2 =>
                    bucket'[k].left # None
    BY <1>1, <1>2, <2>1 DEF IInv, AloneCountsExactly
  <2>2. QED
    BY <2>1 DEF AloneCountsExactly
<1>8. ASSUME NEW r \in Requests, req[r].key \in Keys
      PROVE  Present(r)' <=> Present(r)
  BY <1>2, <1>3, <1>8 DEF Present
<1>9. CountsCovered'
  <2>1. \A k \in Keys : bucket'[k] # None => bucket'[k].count <= since'[k]
    BY <1>1, <1>2 DEF IInv, CountsCovered
  <2>2. ASSUME NEW r \in Requests, req'[r].pc = "save", Present(r)'
        PROVE  req'[r].count <= Counted(since'[req'[r].key])
    <3>1. req[r].key \in Keys /\ req[r].pc = "save" /\ Present(r)
      BY <1>3, <1>8, <2>2 DEF IInv, InFlight
    <3>2. QED
      BY <1>1, <1>3, <3>1 DEF IInv, CountsCovered
  <2>3. QED
    BY <2>1, <2>2 DEF CountsCovered
<1>10. AloneSound'
  <2>1. ASSUME NEW s \in Requests, NEW t \in Requests, InFlight(s)', InFlight(t)',
               req'[s].key = req'[t].key, req'[s].key \notin shared'
        PROVE  s = t
    BY <1>1, <1>3, <2>1 DEF IInv, AloneSound, InFlight
  <2>2. ASSUME NEW s \in Requests, req'[s].key \notin shared', req'[s].pc = "save"
        PROVE  Present(s)' /\ req'[s].count = Counted(window'[req'[s].key])
    <3>1. req[s].key \in Keys /\ req[s].pc = "save" /\ req[s].key \notin shared
      BY <1>1, <1>3, <2>2 DEF IInv, InFlight
    <3>2. Present(s) /\ req[s].count = Counted(window[req[s].key])
      BY <3>1 DEF IInv, AloneSound
    <3>3. QED
      BY <1>1, <1>3, <1>8, <3>1, <3>2
  <2>3. ASSUME NEW s \in Requests, req'[s].key \notin shared', Past(s)'
        PROVE  ~LockedAt(req[s].key, 0)'
    <3>1. req[s].key \in Keys /\ Past(s) /\ req[s].key \notin shared
      BY <1>1, <1>3, <2>3 DEF IInv, InFlight, Past
    <3>2. ~LockedAt(req[s].key, 0)
      BY <3>1 DEF IInv, AloneSound
    <3> DEFINE k == req[s].key
    <3>3. ~(bucket'[k] # None /\ bucket'[k].left # None /\ bucket'[k].left > 0)
      <4>1. k \in Keys /\ (bucket[k] # None /\ bucket[k].left # None => ~(bucket[k].left > 0))
        BY <3>1, <3>2 DEF LockedAt
      <4>2. bucket[k] # None => bucket[k].left \in Int \cup {None}
        BY <1>2, <4>1 DEF Bucket
      <4>3. QED
        BY <1>2, <4>1, <4>2
    <3>4. req'[s].key = k
      BY <1>3
    <3>5. QED
      BY <3>3, <3>4 DEF LockedAt
  <2>4. QED
    BY <2>1, <2>2, <2>3 DEF AloneSound
<1>11. QED
  BY <1>4, <1>5, <1>6, <1>7, <1>9, <1>10 DEF IInv

-----------------------------------------------------------------------------
(* The theorems *)

LEMMA InitIInv == Init => IInv
<1> SUFFICES ASSUME Init PROVE IInv
  OBVIOUS
<1>1. Idle \in Login /\ Idle.pc = "idle" /\ Idle.key = None
  BY ThrottleAssumption DEF Idle, Login, Points, Codes
<1>2. \A r \in Requests : req[r] = Idle
  BY DEF Init
<1>3. TypeOK
  BY <1>1, ThrottleAssumption DEF Init, TypeOK
<1>4. \A r \in Requests : ~InFlight(r) /\ ~Past(r) /\ req[r].pc # "save"
  BY <1>1, <1>2 DEF InFlight, Past
<1>5. NotLockedEarly /\ AloneCountsExactly /\ CountsCovered
  BY <1>4 DEF Init, NotLockedEarly, AloneCountsExactly, CountsCovered
<1>6. AloneSound
  BY <1>4 DEF AloneSound
<1>7. QED
  BY <1>3, <1>4, <1>5, <1>6 DEF IInv

LEMMA StepIInv == IInv /\ [Next]_vars => IInv'
<1> SUFFICES ASSUME IInv, [Next]_vars PROVE IInv'
  OBVIOUS
<1>1. ASSUME NEW r \in Requests, NEW k \in Keys, Arrive(r, k) PROVE IInv'
  BY <1>1, ArriveStep
<1>2. ASSUME NEW r \in Requests, Advance(r) PROVE IInv'
  BY <1>2, CheckStep, CompareStep, FindStep, ResetStep, SaveStep, ClearStep DEF Advance
<1>3. ASSUME NEW r \in Requests, StorageError(r) PROVE IInv'
  BY <1>3, StorageErrorStep
<1>4. CASE Tick
  BY <1>4, TickStep
<1>5. CASE UNCHANGED vars
  BY <1>5 DEF vars, IInv, TypeOK, InFlight, NotLockedEarly, AloneCountsExactly, CountsCovered,
              AloneSound, Present, Past, LockedAt
<1>6. QED
  BY <1>1, <1>2, <1>3, <1>4, <1>5 DEF Next

\* The inductive invariant of the lockout, for every number of logins in flight
\* and every limit: the shapes, the counts, and what a login has read.
THEOREM InvariantHolds == Spec => []IInv
<1>1. QED
  BY InitIInv, StepIInv, PTL DEF Spec

\* login locks a key only after AUTH_LOGIN_MAX_ATTEMPTS failures since its last
\* success, whatever stale counts logins in flight still save.
THEOREM NobodyIsLockedEarly == Spec => []NotLockedEarly
<1>1. IInv => NotLockedEarly
  BY DEF IInv
<1>2. QED
  BY <1>1, InvariantHolds, PTL

\* recordLoginFailure counts logins that do not overlap exactly, and the failure
\* that reaches the limit locks.
THEOREM AloneIsCountedExactly == Spec => []AloneCountsExactly
<1>1. IInv => AloneCountsExactly
  BY DEF IInv
<1>2. QED
  BY <1>1, InvariantHolds, PTL

\* What one step leaves of a lock.
Stands(k) ==
    LockedAt(k, 0) =>
      /\ bucket'[k] # None
      /\ bucket'[k].count = bucket[k].count
      /\ bucket'[k].left \in {bucket[k].left, bucket[k].left - 1}

LEMMA OthersStand ==
    ASSUME IInv, NEW r \in Requests, Past(r), NEW k \in Keys \ shared,
           DOMAIN bucket' = Keys,
           \A j \in Keys \ {req[r].key} : bucket'[j] = bucket[j]
    PROVE  Stands(k)
<1>1. CASE req[r].key = k
  BY <1>1 DEF IInv, AloneSound, Stands
<1>2. CASE req[r].key # k
  BY <1>2 DEF Stands, LockedAt
<1>3. QED
  BY <1>1, <1>2

\* While a lock lasts, only the clock touches the bucket of a key that no two
\* logins share: every login is refused by assertNotLoginLocked.
THEOREM LockIsRespected == Spec => LockStands
<1>1. ASSUME IInv, [Next]_vars
      PROVE  \A k \in Keys \ shared' : Stands(k)
  <2> USE <1>1
  <2>1. CASE UNCHANGED bucket
    BY <2>1 DEF Stands, LockedAt
  <2>2. ASSUME NEW r \in Requests, Reset(r) \/ Save(r) \/ Clear(r)
        PROVE  \A k \in Keys \ shared' : Stands(k)
    <3>1. Past(r) /\ shared' = shared /\ DOMAIN bucket' = Keys
      BY <2>2 DEF Reset, Save, Clear, Past, IInv, TypeOK
    <3>2. \A j \in Keys \ {req[r].key} : bucket'[j] = bucket[j]
      BY <2>2 DEF Reset, Save, Clear, IInv, TypeOK
    <3>3. QED
      BY <3>1, <3>2, OthersStand
  <2>3. CASE Tick
    <3>1. TypeOK
      BY DEF IInv
    <3>2. ASSUME NEW k \in Keys \ shared', LockedAt(k, 0)
          PROVE  Stands(k)
      <4>1. /\ bucket[k] # None /\ bucket[k] \in Bucket /\ bucket[k].left # None
            /\ bucket'[k] = OlderBucket(bucket[k])
        BY <2>3, <3>1, <3>2, Ticks DEF LockedAt, TypeOK
      <4>2. QED
        BY <4>1, OlderBucketIs DEF Stands
    <3>3. QED
      BY <3>2 DEF Stands
  <2>4. QED
    BY <2>1, <2>2, <2>3
       DEF Next, vars, Advance, Arrive, Check, Compare, Find, StorageError
<1>2. IInv /\ [Next]_vars =>
        [\A k \in Keys \ shared' :
           LockedAt(k, 0) =>
             /\ bucket'[k] # None
             /\ bucket'[k].count = bucket[k].count
             /\ bucket'[k].left \in {bucket[k].left, bucket[k].left - 1}]_vars
  BY <1>1 DEF Stands
<1>3. QED
  BY <1>2, InvariantHolds, PTL DEF Spec, LockStands

=============================================================================
