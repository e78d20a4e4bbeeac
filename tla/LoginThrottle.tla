--------------------------- MODULE LoginThrottle ---------------------------
(***************************************************************************)
(* The lockout of AuthService.login: the collection                        *)
(* auth_login_failure_buckets and the handler that reads, counts, resets   *)
(* and deletes in it.  What an admitted login does next is in AuthSession. *)
(*                                                                         *)
(* A bucket is kept per email and client.  Every element of Requests is    *)
(* one login at a time, cut at its awaits.  Dates are kept relative to the *)
(* clock: how long ago a window started, how long a lock still lasts.      *)
(* Ages and counts stop growing where no comparison of the code can tell   *)
(* them apart, so time runs on for ever in finitely many states.           *)
(***************************************************************************)
EXTENDS Integers, FiniteSets

CONSTANTS
    Keys,           \* email:clientId
    Requests,       \* logins that may be in flight together
    Buckets,        \* pool of ObjectIds of the buckets
    None,
    MaxAttempts,    \* AUTH_LOGIN_MAX_ATTEMPTS
    Window,         \* AUTH_LOGIN_WINDOW_SEC
    Lockout,        \* AUTH_LOCKOUT_SEC
    MaxStall        \* bound: how long a login may take

ASSUME ThrottleAssumption ==
    /\ None \notin Buckets \cup Keys \cup Int
    /\ MaxAttempts \in Nat \ {0}
    /\ Window \in Nat
    /\ Lockout \in Nat
    /\ MaxStall \in Nat

VARIABLES
    bucket,     \* collection auth_login_failure_buckets, by key
    req,        \* the logins in flight: where each is and what it has read
    since,      \* history: failures recorded since the last success, up to MaxAttempts
    window,     \* history: failures recorded in the window of a key nobody shared, likewise
    shared      \* history: keys two logins used at once

vars == <<bucket, req, since, window, shared>>

-----------------------------------------------------------------------------
(* Documents and logins *)

\* No comparison tells older windows apart.
Oldest == Window + MaxStall + 1

\* age: now - windowStarted; left: lockedUntil - now, never less than -MaxStall.
Bucket ==
    [id : Buckets, count : 0 .. MaxAttempts, age : 0 .. Oldest, left : Int \cup {None}]

ASSUME NoneAssumption == None \notin Bucket

Points == {"idle", "check", "compare", "find", "save", "reset", "clear"}

Codes == {"none", "ok", "refused", "TOO_MANY_ATTEMPTS", "error"}

Login ==
    [pc    : Points,
     key   : Keys \cup {None},
     took  : 0 .. MaxStall,         \* since it arrived
     ago   : 0 .. MaxStall,         \* now - `now`, the date the handler holds
     id    : Buckets \cup {None},   \* _id and count of the document to save
     count : 0 .. MaxAttempts,
     reply : Codes]

Idle ==
    [pc |-> "idle", key |-> None, took |-> 0, ago |-> 0, id |-> None, count |-> 0,
     reply |-> "none"]

InFlight(r) == req[r].pc # "idle"

Reply(r, code) == req' = [req EXCEPT ![r] = [Idle EXCEPT !.reply = code]]

\* `now = new Date()`, and on to the await at p.
Stamped(r, p) == req' = [req EXCEPT ![r].pc = p, ![r].ago = 0]

\* An ObjectId that no document and no login in flight remembers.
Unused(i) ==
    /\ \A k \in Keys : bucket[k] # None => bucket[k].id # i
    /\ \A r \in Requests : req[r].id # i

\* lockedUntil > now, for a `now` read so long ago.
LockedAt(k, ago) ==
    bucket[k] # None /\ bucket[k].left # None /\ bucket[k].left > -ago

\* now - windowStarted > windowMs, or there is no bucket.
Over(k, ago) ==
    bucket[k] # None => bucket[k].age - ago > Window

\* Mutant: the lock comes one failure late.
LocksLate(count) == count > MaxAttempts

Locks(count) == count >= MaxAttempts

\* n + 1, as far as Locks can tell.
Counted(n) == IF n < MaxAttempts THEN n + 1 ELSE n

-----------------------------------------------------------------------------
(* login *)

Arrive(r, k) ==
    /\ ~InFlight(r)
    /\ req' = [req EXCEPT ![r] = [Idle EXCEPT !.pc = "check", !.key = k]]
    /\ shared' = IF \E s \in Requests \ {r} : req[s].key = k THEN shared \cup {k} ELSE shared
    /\ UNCHANGED <<bucket, since, window>>

\* Mutant: every attempt refused by the lock prolongs it.
CheckProlonging(r) ==
    LET k == req[r].key IN
    /\ req[r].pc = "check"
    /\ IF LockedAt(k, req[r].ago)
         THEN /\ bucket' = [bucket EXCEPT ![k].left = Lockout]
              /\ Reply(r, "TOO_MANY_ATTEMPTS")
         ELSE /\ req' = [req EXCEPT ![r].pc = "compare"]
              /\ UNCHANGED bucket
    /\ UNCHANGED <<since, window, shared>>

\* Mutant: a bucket whose window is over is taken for no bucket.
CheckInWindow(r) ==
    LET locked == LockedAt(req[r].key, req[r].ago) /\ ~Over(req[r].key, req[r].ago) IN
    /\ req[r].pc = "check"
    /\ IF locked THEN Reply(r, "TOO_MANY_ATTEMPTS")
                 ELSE req' = [req EXCEPT ![r].pc = "compare"]
    /\ UNCHANGED <<bucket, since, window, shared>>

\* assertNotLoginLocked, outside the try block.
Check(r) ==
    /\ req[r].pc = "check"
    /\ \/ /\ LockedAt(req[r].key, req[r].ago)
          /\ Reply(r, "TOO_MANY_ATTEMPTS")
       \/ /\ ~LockedAt(req[r].key, req[r].ago)
          /\ req' = [req EXCEPT ![r].pc = "compare"]
    /\ UNCHANGED <<bucket, since, window, shared>>

\* The account is read and the password compared.  The wrong password, an
\* inactive account, one of another client and one still to be set up are all
\* failures to record.
Compare(r) ==
    /\ req[r].pc = "compare"
    /\ \/ Stamped(r, "find")
       \/ req' = [req EXCEPT ![r].pc = "clear"]
    /\ UNCHANGED <<bucket, since, window, shared>>

\* recordLoginFailure reads the bucket: a new window, or one failure more.
Find(r) ==
    LET k == req[r].key IN
    /\ req[r].pc = "find"
    /\ \/ /\ Over(k, req[r].ago)
          /\ req' = [req EXCEPT ![r].pc = "reset"]
       \/ /\ ~Over(k, req[r].ago)
          /\ req' = [req EXCEPT ![r].pc = "save", ![r].id = bucket[k].id,
                                ![r].count = Counted(bucket[k].count)]
    /\ UNCHANGED <<bucket, since, window, shared>>

\* findOneAndUpdate with upsert: whatever is in the bucket by now, it keeps its
\* _id and loses its count and its lock.
Reset(r) ==
    LET k == req[r].key
        fresh(i) == [id |-> i, count |-> 1, age |-> req[r].ago, left |-> None]
    IN
    /\ req[r].pc = "reset"
    /\ \/ bucket[k] # None /\ bucket' = [bucket EXCEPT ![k] = fresh(@.id)]
       \/ /\ bucket[k] = None
          /\ \E i \in Buckets : Unused(i) /\ bucket' = [bucket EXCEPT ![k] = fresh(i)]
    /\ since' = [since EXCEPT ![k] = Counted(@)]
    /\ window' = [window EXCEPT ![k] = IF k \in shared THEN 0 ELSE 1]
    /\ Reply(r, "refused")
    /\ UNCHANGED shared

\* The document that was read is still there.
Present(r) ==
    LET k == req[r].key IN bucket[k] # None /\ bucket[k].id = req[r].id

\* doc.save() writes the count it read plus one, and the lock if that is enough;
\* a document deleted meanwhile makes it throw, which the handler turns into the
\* same answer.
Save(r) ==
    LET k == req[r].key
        n == req[r].count
    IN
    /\ req[r].pc = "save"
    /\ \/ /\ Present(r)
          /\ bucket' = [bucket EXCEPT ![k].count = n,
                                      ![k].left = IF Locks(n) THEN Lockout - req[r].ago ELSE @]
          /\ since' = [since EXCEPT ![k] = Counted(@)]
          /\ window' = [window EXCEPT ![k] = IF k \in shared THEN 0 ELSE Counted(@)]
       \/ ~Present(r) /\ UNCHANGED <<bucket, since, window>>
    /\ Reply(r, "refused")
    /\ UNCHANGED shared

\* Mutant: the bucket is emptied and keeps its _id.
ClearInPlace(r) ==
    LET k == req[r].key IN
    /\ req[r].pc = "clear"
    /\ bucket' = [bucket EXCEPT ![k] =
                    IF @ = None THEN @ ELSE [@ EXCEPT !.count = 0, !.left = None]]
    /\ since' = [since EXCEPT ![k] = 0]
    /\ window' = [window EXCEPT ![k] = 0]
    /\ Reply(r, "ok")
    /\ UNCHANGED shared

\* clearLoginFailures deletes the bucket, locked or not.
Clear(r) ==
    LET k == req[r].key IN
    /\ req[r].pc = "clear"
    /\ bucket' = [bucket EXCEPT ![k] = None]
    /\ since' = [since EXCEPT ![k] = 0]
    /\ window' = [window EXCEPT ![k] = 0]
    /\ Reply(r, "ok")
    /\ UNCHANGED shared

\* The database rejects an operation: outside the try block the error goes out
\* as it is, inside it becomes INVALID_CREDENTIALS.
StorageError(r) ==
    /\ InFlight(r)
    /\ Reply(r, IF req[r].pc = "check" THEN "error" ELSE "refused")
    /\ UNCHANGED <<bucket, since, window, shared>>

-----------------------------------------------------------------------------
(* Time *)

Older(n, bound) == IF n < bound THEN n + 1 ELSE n

\* Bound: no login takes longer than MaxStall.
Tick ==
    /\ \A r \in Requests : InFlight(r) => req[r].took < MaxStall
    /\ bucket' = [k \in Keys |->
         IF bucket[k] = None THEN None
         ELSE [bucket[k] EXCEPT
                 !.age  = Older(@, Oldest),
                 !.left = IF @ # None /\ @ > -MaxStall THEN @ - 1 ELSE @]]
    /\ req' = [r \in Requests |->
         IF InFlight(r) THEN [req[r] EXCEPT !.took = @ + 1, !.ago = Older(@, MaxStall)]
         ELSE req[r]]
    /\ UNCHANGED <<since, window, shared>>

-----------------------------------------------------------------------------
Init ==
    /\ bucket = [k \in Keys |-> None]
    /\ req = [r \in Requests |-> Idle]
    /\ since = [k \in Keys |-> 0]
    /\ window = [k \in Keys |-> 0]
    /\ shared = {}

Advance(r) ==
    Check(r) \/ Compare(r) \/ Find(r) \/ Reset(r) \/ Save(r) \/ Clear(r)

Next ==
    \/ \E r \in Requests :
         \/ \E k \in Keys : Arrive(r, k)
         \/ Advance(r)
         \/ StorageError(r)
    \/ Tick

\* Every await settles, and time passes.
Fairness == WF_vars(Tick) /\ \A r \in Requests : WF_vars(Advance(r))

Spec == Init /\ [][Next]_vars /\ Fairness

-----------------------------------------------------------------------------
(* Properties *)

\* Buckets, logins and histories keep their shapes.
TypeOK ==
    /\ bucket \in [Keys -> Bucket \cup {None}]
    /\ req \in [Requests -> Login]
    /\ since \in [Keys -> 0 .. MaxAttempts]
    /\ window \in [Keys -> 0 .. MaxAttempts]
    /\ shared \subseteq Keys

\* Nobody is locked out early: a bucket with a lock stands for at least
\* MaxAttempts failures since the last successful login of that key, however the
\* logins overlap and whatever stale count one of them still saves.
NotLockedEarly ==
    \A k \in Keys :
        bucket[k] # None /\ bucket[k].left # None => since[k] >= MaxAttempts

\* One login at a time counts exactly: the bucket holds the number of failures of
\* its window (as far as the limit), and the failure that reaches the limit locks it.  (The first
\* failure of a window never does, whatever the limit.)
AloneCountsExactly ==
    \A k \in Keys \ shared :
        bucket[k] # None =>
          /\ bucket[k].count = window[k]
          /\ (bucket[k].count >= MaxAttempts /\ bucket[k].count >= 2 => bucket[k].left # None)

\* A lock stands until its time is up: while it lasts, a key that no two logins
\* share has its bucket changed by the clock only, and every login is refused.
LockStands ==
    [][\A k \in Keys \ shared' :
         LockedAt(k, 0) =>
           /\ bucket'[k] # None
           /\ bucket'[k].count = bucket[k].count
           /\ bucket'[k].left \in {bucket[k].left, bucket[k].left - 1}]_vars

\* A lock ends by itself, even if logins keep coming while it lasts.
LockEnds == \A k \in Keys : LockedAt(k, 0) ~> ~LockedAt(k, 0)

-----------------------------------------------------------------------------
(* The inductive invariant *)

Past(r) == req[r].pc \in {"compare", "find", "save", "reset", "clear"}

\* A count never exceeds the failures recorded, nor does one about to be saved.
CountsCovered ==
    /\ \A k \in Keys : bucket[k] # None => bucket[k].count <= since[k]
    /\ \A r \in Requests :
         req[r].pc = "save" /\ Present(r) => req[r].count <= Counted(since[req[r].key])

\* Of a key that is not shared one login is in flight, what it has read is still
\* so, and it has passed the check because there is no lock.
AloneSound ==
    /\ \A r, s \in Requests :
         InFlight(r) /\ InFlight(s) /\ req[r].key = req[s].key /\ req[r].key \notin shared
           => r = s
    /\ \A r \in Requests :
         req[r].key \notin shared =>
           /\ req[r].pc = "save" => Present(r) /\ req[r].count = Counted(window[req[r].key])
           /\ Past(r) => ~LockedAt(req[r].key, 0)

IInv ==
    /\ TypeOK
    /\ \A r \in Requests : InFlight(r) => req[r].key \in Keys
    /\ NotLockedEarly
    /\ AloneCountsExactly
    /\ CountsCovered
    /\ AloneSound

=============================================================================
