# planning-monefica: TLA+ models, model checking and proofs

Monefica's server (`src/packages/server`, NestJS on MongoDB) lets consultants publish
availability for tenants, lets eligible employees of those tenants book, move and cancel
sessions, and lets consultants claim and close them; three browser and mobile applications are
its clients. This directory holds TLA+ modules of the server and of the pages that change
something, the TLC configurations that check them and the theorems TLAPS proves about them.

## 1. The system

| Component | State it keeps | Operations | Talks to | What is hard | What makes it correct |
|---|---|---|---|---|---|
| Booking lifecycle (`scheduling/scheduling.service.ts`) | `bookings`, `scheduling_idempotency`, `scheduling_booking_audits` | create, cancel, reschedule (employee); assign, close (consultant) | availability blocks, consultant scope | check-then-insert across awaits, retries under one key, compensation after a failed move, audit after the fact | one session per start, no reopening, claims and closures consistent, keys lead home |
| Availability (`scheduling.service.ts:308-464`) | `consultant_availability_blocks` | publish, update, delete | consultant scope; read by create and reschedule | overlap check then write; read-merge-write patches | blocks ordered and disjoint per consultant |
| Listings (`scheduling.service.ts:466-651, 957-981, 1090-1116`, `interval.util.ts`) | none | free slots, bookable slots, calendar, queue, open sessions | blocks, bookings | two reads; interval arithmetic; must agree with what create accepts | a listed slot is bookable and vice versa |
| Legacy migration (`scheduling-legacy-migration.service.ts`) | rows without `awaitingAssignment` | one `updateMany` at every start | bookings, the queue, the open sessions | failure is swallowed; other handlers may write the missing fields first | a session of the old version can be closed after some start that succeeds |
| Session authentication (`auth/auth.service.ts`) | refresh, reset and invite tokens, password hashes | login, refresh, logout, change and reset password, invite, accept, revoke all | users, audit log, HR and operator administration | rotation and single use across awaits; revocation racing a login or a refresh | an exchanged token is dead, no session but one that overtook it survives a revocation, nobody pending or inactive gets in |
| Login throttle (`auth.service.ts:97-153`) | failure counter, window and lock of an e-mail at a client | check, record failure, clear | login | read-modify-write of a counter against a clock that runs | no lock early, exact counting without overlap, a lock stands and ends |
| Guards (`auth/guards`, `eligibility/benefit-eligibility.guard.ts`, `scheduling/guards`) | none | admit or refuse a request | every route | order, audience, state read before the handler runs | only the right audience, tenant and benefit pass |
| Eligibility (`eligibility/eligibility.service.ts`) | `eligible` rows of employees and their audit | mark, remove, list | benefit guard | check-then-insert, upsert races | one row per employee, audit tells every change |
| HR and platform operators (`hr`, `platform-operators`) | `active` flag, roles, tenants of users | set active, create operator, list | session revocation | flag first, sessions after | an inactive account has no session |
| Auth audit (`auth/auth-audit.service.ts`) | append-only log | append | everything above | failures swallowed | - |
| Health, correlation ids, wiring | none | - | - | - | - |
| Pages that change something (`hr-admin` eligibility, `control-pane` queue, `ic-app` sessions card) | dialogs and forms; the cached lists and requests in flight of RTK Query | mark and remove; assign and close; book and cancel | the routes above | answers late, lost or crossed by reads; dialogs reused before an answer | lists show what the page did, no removal of somebody else, no impossible closure |
| Other pages, `shared-types` | none that changes anything | - | the routes above | - | - |

Concurrency everywhere is the same: Node interleaves handlers at every `await`, several
processes may run, and MongoDB makes one operation on one document atomic. No handler uses a
transaction. What keeps state right is unique indexes, the filters of single updates, and
compensation in `catch` blocks. A page shows lists that were true some time ago; what keeps it
honest is that every request it sends invalidates the lists the request may have changed.

## 2. Modules

| Module | Models | Source |
|---|---|---|
| `Booking` | bookings, idempotency records, audit rows and the five handlers that write them, with faults and a clock | `scheduling.service.ts:119-306, 653-955, 983-1088`, the schemas, `mongo-duplicate.util.ts` |
| `Availability` | publishing, patching and deleting blocks | `scheduling.service.ts:308-464` |
| `Intervals` | `subtractIntervals` as an operator | `interval.util.ts` |
| `IntervalLoop` | the same as the loop it is, one step per iteration | `interval.util.ts` |
| `Scheduling` | `Booking` and `Availability` over the same blocks, with the listings | `scheduling.service.ts:466-651, 957-981, 1090-1116` |
| `AuthSession` | accounts, refresh tokens, reset and invite links, and every handler that writes them | `auth.service.ts`, `hr.service.ts`, `platform-operators.service.ts` |
| `AccessControl` | who can hold which access token, and the guards of the tenant routes | `auth/guards`, `jwt-auth.guard.ts` |
| `Eligibility` | marks, removals, the status and the guard of the benefit routes | `eligibility.service.ts`, `benefit-eligibility.guard.ts` |
| `BookingInvariant` | the inductive invariant of `Booking`, and the further ones of the cutoff, moves and keys (the other components carry theirs) | - |
| `ReservationBook` | the abstract specification: what the bookings collection promises to those who only look at sessions | - |
| `BookingRefinement` | the mapping under which `Booking` implements `ReservationBook` | - |
| `LegacyMigration` | the backfill of every start, over `Scheduling`, on a database with a session of the old version | `scheduling-legacy-migration.service.ts` |
| `LoginThrottle` | failure buckets and lockout, with time that never stops | `auth.service.ts:97-267`, `login-failure-bucket.schema.ts` |
| `PageServer` | what the pages' lists return and their requests do, over `ReservationBook` | the same handlers, each in one step |
| `QueryCache` | the lists, requests and invalidation of RTK Query (external: `@reduxjs/toolkit`) | how the three `createApi` use it |
| `EligibilityPage` | the eligibility page and its three dialogs | `hr-admin/src/pages/eligibility` |
| `QueuePage` | the consultant's queue and its closing dialog | `control-pane/src/pages/scheduling-queue` |
| `SessionsCard` | the employee's card of slots and sessions | `ic-app/src/components/PlanningSessionsCard.tsx`, `ic-app/src/api/schedulingApi.ts` |
| `Screens` | one of the pages open over the server, among everybody else | - |
| `SchedulingInvariant` | the inductive invariant of `Scheduling` and `LegacyMigration`, and what requests must keep to for the properties that races break | - |
| `BookingProofs`, `AvailabilityProofs`, `SchedulingProofs`, `IntervalsProofs`, `AuthSessionProofs`, `LoginThrottleProofs`, `EligibilityProofs`, `ScreensProofs` | theorems and proofs | - |
| `MC...` | instances for TLC: values of constants, views, symmetry | - |

`Scheduling` extends `Booking` and instantiates `Availability` over the same `blocks`, and
`Intervals` for the listings; `LegacyMigration` extends `Scheduling`. `Eligibility` extends
`AccessControl`. `BookingRefinement` instantiates `ReservationBook` with the rows of `Booking`, and
`PageServer` instantiates the same book as the server of the pages, so that what a page relies on
is what `Booking` is proved to implement. The three page modules extend `QueryCache`, which extends
`PageServer`; `Screens` composes them. What one module takes as a
constant or as an outside event, another one models:

* who is an active consultant and which tenants a consultant serves are constants of `Booking`
  and `Availability` (`ActiveConsultants`, `Serves`);
* the account an access token belongs to is changed in `Eligibility` by one-step events
  (`SetActive`, `AcceptInvite`); `AuthSession` says how such a change comes about;
* `blocks` does not change in `Booking`; in `Scheduling` it does.

### How state and actions correspond to the code

The modules share one form. `req[r]` (`edit[r]` in `Availability`) is one HTTP request in flight:
`pc` is the await it is suspended at, the other fields are its arguments and what it has read and
uses later. A `Begin...` action folds the arrival with the guards and the first read. `Advance(r)`
is the rest of a handler, one action per await. A request that answers returns to `Idle` and keeps
only the reply. Error codes are the codes of the responses; `"error"` is an error nothing maps and
`"lost"` a request whose process died. A document is a record of the fields a handler reads or
writes; an ObjectId is an element of a finite pool and is used once.

* **Booking.** `bookings`, `idem`, `audit` and `blocks` are the four collections. The tenant of a
  booking is the employee's, since the routes take it from the token (`ic.controller.ts:89-172`).
  `Indexed` is the partial unique index on consultant and start, `Recorded` the one on keys. A
  reschedule is `BeginReschedule`, `Load`, `Check`, `Release`, `Insert`, `Record`, and its catch
  block `Restore`. A keyed create that loses to its twin goes through `Resolve`, `Undo` and
  `Recover`. `origin` (which call inserted a row) and `since` (when a request arrived) are history.
* **Availability.** `edit[r].next` is the window a patch will write, completed with what was read
  two awaits earlier. `drawn` is the set of ids used so far.
* **Scheduling.** The listings are operators on the composed state; they change nothing.
* **LegacyMigration.** `legacy` is the set of rows that lack both fields. `Serve` is any step of
  `Scheduling`; the one write of it that confirms a row again, the restore of a failed reschedule,
  also fills the fields in. `Migrate(b)` is the `updateMany`, one row at a time, so that it may fail
  halfway or altogether; it runs while no request is in flight, as Nest awaits `onModuleInit`.
* **ReservationBook.** An entry is unused, standing, moving, settled or removed. A row maps to
  "moving" while it is cancelled and a reschedule that may put it back is in flight; keyed creates
  that lose are entries reserved and removed; everything else maps field by field.
* **LoginThrottle.** Dates are kept relative to the clock (`age` of a window, time `left` of a lock),
  ages stop growing where no comparison can tell them apart, so time runs for ever in finitely many
  states. `since`, `window` and `shared` are history.
* **The pages.** A page's `useState` fields are variables of its module, one action per callback.
  `lists` and `calls` are RTK Query's cache: a list is read by the server (`Read`) and arrives
  (`Arrive`) in two steps; a request is sent, done or refused, and answered in three. `pool` are
  the tags an answered request invalidates, kept until nothing of the API is in flight
  (`invalidationBehavior: "delayed"`). A broken connection ends a request for the page and leaves it
  in `stray`, from where the server may still do it. `behind`, `crossed`, `late` and `seen` are history.
* **AuthSession.** A token is `live`, `revoked` or `expired` (its time is up, and the TTL index may
  have dropped it). History: `parent` (the token it was exchanged for), `proof` (the password that
  opened the session), `late` (the account had already been switched off or been given another
  password when it, or an ancestor, was issued), `invited` (the password came through an invite)
  and `interrupted` (accounts one of whose revocations was cut off by a fault).
* **Eligibility.** `Sessions` is the set of payloads a token can carry. `audit` counts the events
  per account. `barred[r]` is history: the obstacles (inactive, invite open, no row) that have
  stood in the way of a benefit request ever since it arrived. `Observe` computes it in every
  step from the state after the step; it constrains nothing.

### Grain of atomicity

One await is one step, with these merges and omissions. Writes are never merged with one another.

1. *Lookup by key.* The read of an idempotency record and the `findById` behind it are one step: the
   booking of a record is never replaced and rows disappear only in `Undo`; a request that sees the
   record before and the row after such a deletion behaves as one that looked just after it.
2. *Check of a booking.* The block read and the clash read are one step. In `Booking` blocks never
   change. In the run `scheduling`, where they do, one booking request is in flight at a time, so
   nothing that the clash read sees changes between the two; `double_booked` has two, and its
   counterexample needs nothing to come between the two reads.
3. *Scope of a consultant.* Reads of the scope are merged with the read or update that follows; the
   scope is a constant.
4. *ObjectIds.* The id of a block or booking is drawn when its request arrives rather than when the
   document is constructed; nobody sees it before the insert.
5. *bcrypt and signing.* These awaits change nothing; what a handler compares or writes afterwards is
   the document it has read, which the step before them has copied.
6. *One operation, one step.* `updateMany` of a revocation is one step, although MongoDB makes it
   atomic per document only: a document inserted while it runs is one that may come before or after.
7. *Lost acknowledgements.* In `Booking` a write can be applied and its acknowledgement lost. In
   `AuthSession` and `Eligibility` nothing catches such an error, so it is an abort after the write.
8. *Listings.* The two reads of a listing are one. A client acts on a listing through a handler that
   checks again.
9. *Left out of the inputs.* Invalid dates (the DTO validators refuse them), limits on the length of
   a queried range, formatting of answers, logging.
10. *Refusals.* The benefit guard refuses an inactive and a pending account with different messages
    of one status; both are `FORBIDDEN`.
11. *Not in `AuthSession`.* The lockout of logins (`LoginThrottle`), roles and clients of accounts
    (`AccessControl`), and the audit log: nothing that is there depends on them, except that a
    lockout refuses more logins.
12. *Login.* In `LoginThrottle` the read of the account and the comparison of the password are one
    step, which says only whether the login succeeds.
13. *Pages.* The server does each request in one step: `Booking` is shown to look like that. It may
    refuse any request, so guards are written only where a success depends on them; the benefit
    guard, which answers before the handler runs, is not asked again at the write. A page is open
    from the start of a behaviour to its end. Rendering is instant, but for the effect that lets the
    options of the add dialog go.

The guards of HR and employee routes read the signed payload only. A deactivated HR administrator
can therefore still act until the access token expires; `Sessions` includes such tokens.

## 3. Runs

Bounds are named in the configurations. "Faults" is the number of faults injected in a behaviour.

| Run | Instance | What it shows |
|---|---|---|
| `booking_race` | 3 requests, 3 bookings, 1 employee, 1 consultant, 2 slots, no key, no fault | Claims, closures, withdrawals and moves of one session interleave at every await: one session per start, claims, closures and audit rows consistent with the row, no double reservation, every step a step of the reservation book, "restored" is said only when true |
| `booking_faults` | 2 requests, 3 bookings, 2 employees, 1 key, cutoff 1, clock to 1, 1 fault of four kinds | With a rejected or unacknowledged operation, a crash or an expired key anywhere: the inductive invariant holds, a key leads to the booking of its own call, `Booking` implements `ReservationBook` and every withdrawal that takes effect was asked for before the cutoff. Before the first fault one key makes one reservation; before a key is dropped `SLOT_TAKEN` leaves none |
| `booking_double` | 2 requests, 1 key, 1 rejected operation | Violation, see Findings |
| `intervals` | every set of at most 3 cuts on 0..5, on a proper and on an empty range | `subtractIntervals` is the range without the cuts, in maximal pieces, whatever the order |
| `availability_race` | 2 requests, 3 block ids, 3 instants, 2 tenants | Racing patches never store an empty or out-of-scope block; a deleted block does not come back |
| `scheduling` | 1 booking request and 1 edit at a time, 2 bookings, 2 blocks, 2 tenants, at most 1 session of the old version, 1 rejected operation | A slot is listed exactly when a create for it would be stored, or when only the index refuses it, for a session with another tenant at its very start; every session is on a screen that can close it, or waits for the next start, or is the exception named in section 4; blocks stay disjoint; a patch changes what it names; a failed move leaves the old session and its claim standing |
| `double_booked` | 2 booking requests and 1 edit at a time, 2 bookings, 2 overlapping slots, 2 tenants, 1 published block | Violation, see Findings |
| `auth_sessions` | 2 requests, 1 account whose invite is open, 2 passwords, 3 tokens, 1 link, 1 fault | Revocation is complete but for requests that overtook it; exchanged tokens are dead; nobody pending or inactive is let in |
| `auth_rotation` | the same account with its invite accepted, without faults | Violation, see Findings |
| `login_throttle` | 2 logins at once, 1 key, limit 3, window 2, lock 2, a login takes at most 1 unit of time | No lock before its number of failures; exact counting for logins that do not overlap; a lock stands until its time and always ends |
| `eligibility` | 3 requests, 4 accounts of 2 tenants and the platform, 3 rows, 3 marks, 1 fault | One row per employee, none across tenants, none the log does not explain; no benefit for whom an obstacle stood all along |
| `screens` | each of the three pages; 2 sessions, 2 employees, 2 consultants, 2 slots; 2 requests of the page, 1 step of others, 1 broken connection | A page at rest shows what its own requests did, but for one that it had given up and that was done since its last answer; closures fit; removals are confirmed twice |

**Why these bounds.** Every hazard listed for `Booking` is a pattern of two or three requests on one
session: two that race and one that changes the row under them (a claim between a snapshot and its
restore; a twin and a move of the twin's row). Three bookings are the smallest pool in which a create
or a move has a row of its own while two others stand. Times are in units of the cutoff, so that
three values of the clock fall before it, at it and past it. In `IntervalLoop` three cuts are enough
for one to fall into what two others left; six instants let each touch, cross, cover or miss the
others. In `AuthSession` a token, its successor and the token of another login are enough for two
refreshes of one token, or a login and a refresh, to race a revocation. `Eligibility` has room for a
row that is removed and created anew while a third request still holds the first one. In
`LoginThrottle` a window and a lock of two units have a middle, and the limit of three is the first
at which a count can be lost and the lock still come. `screens` needs a request that is answered
while a second one is on its way, a change by somebody else between a read and its arrival, and one
answer that never comes. It starts with waiting sessions of two consultants, a session being
moved elsewhere, or nothing, so that every button is there to be pressed.
One fault is enough to separate any two steps of a request; the proofs are for any number.
What a run leaves out another one has: `booking_faults` has no active consultant, so that nobody
claims or closes, `booking_race` has no keys. Twins, of a create or of a reschedule, come in pairs
in `booking_faults`; the theorems are for any number of them.

**Symmetry and views.** `SYMMETRY` permutes bookings, requests, employees of one tenant, tokens, links,
rows or editors, which no definition tells apart; in `scheduling` tenants are swapped together with
their employees. A `VIEW` drops what no action and no invariant of the run reads: the reply of a
finished request (action properties read it in the step that gives it, where TLC evaluates them on
the two full states); in `auth_sessions` the history of a token that is no longer live (it was
checked while the token was); in `eligibility` the accounts of those who are not collaborators; in
`scheduling` the audit trail, `origin`, and of the patch of an update all but the one thing
`PatchKeepsTheRest` can find wrong with it. `login_throttle` checks liveness and has neither; nor has `screens`.

**Fairness.** In `LoginThrottle`: `WF_vars(Tick)`, because clocks advance, and `WF_vars(Advance(r))` for
every login, because Node settles each await and then resumes the handler (a call to the database
that fails ends it, `StorageError`). Nothing is assumed of arrivals: clients may retry for ever, which
is the point of `LockEnds`. `Booking` states the same fairness of its handlers; its runs check safety.
The pages have none: a user may walk away, and nothing here says an answer must come.

**Deadlock** is checked everywhere but in `intervals`, where the loop ends, and in `screens`, where a page
whose bounded requests are spent and whose lists have arrived may be left as it is.

## 4. Findings

1. `booking_double`: the `catch` of a reschedule also runs when the idempotency record, written after the
   new row, fails with anything but a duplicate key. It restores the old row and leaves the new one
   confirmed, against "No double reservation at end state" (story 6-5).
2. `auth_rotation`: `refresh` checks `revokedAt` on the document it has read and later saves by `_id`. Two
   refreshes of one token both pass and each issues a successor, against "rotated on each refresh
   exchange (invalidate prior refresh for that family)" (architecture).
3. `double_booked`: two creates whose slots overlap without starting together both find no clash, since
   neither is stored yet, and both are stored: the unique index, the only guard that is atomic, compares
   starts. Two employees then hold one consultant's time, against "at most one confirmed booking per
   consultant for overlapping instant" (architecture) and NFR1 of the scheduling requirements. With
   `Requests = {r1}` the run finds the other way there: a block that was booked is moved to the second
   tenant, whose listing and clash check do not see the session.

Met while modelling, without a run of their own:

* Where no two requests decide on one consultant's time together, his sessions for one tenant are disjoint
  (`SessionsAreDisjoint`, section 5). Like two creates, two publications break `BlocksDisjoint` and two
  patches of one block `PatchKeepsTheRest`: TLC finds both violated when they are added to
  `availability_race.cfg`, where two requests are in flight.
* A claim between a reschedule's snapshot and its cancel is undone by the restore (`ClaimIsKept`
  needs `ClaimsWait`), and the restore may itself be rejected, by the unique index when somebody has
  taken the old start or by a second error of the database (`RescheduleFailsSafe` needs `NoRivals` and
  no such error).
* A keyed create that loses to its twin deletes its row whatever has become of it. If that row was being
  rescheduled, and the new slot was taken by a session for another tenant, the reschedule answers
  `SLOT_TAKEN` and nothing is left to restore (`MovesWait` in section 5).
* A block can be moved to another tenant after it was booked (or deleted, and its time published for
  another tenant). The clash check and the listings look at one tenant's sessions, so time already booked
  is listed as free to the second tenant, against FR2 of the scheduling requirements ("already-booked
  consultant time does not appear as available") and story 5.3. A slot that starts at another instant
  than the session is booked on top of it; one that starts with it is refused with `SLOT_TAKEN` by the
  unique index, as often as it is tried and for as long as it is listed. `ListingAgrees` says that this is the only way in which
  what is listed cannot be booked (`StartTakenElsewhere`).
* The queue shows the waiting sessions of every tenant in scope and offers to claim each (story FR10 says
  "an unassigned booking"); the server lets only the owner of the slot. Sessions of a consultant who is
  deactivated wait for ever.
* A session of the old version whose reschedule fails is put back with the fields it lacked, assigned to
  nobody. The backfill looks for missing fields and passes it over for ever; nobody can claim or close
  it (`undone` in `SessionsAreVisible`).
* The lockout counts in fixed windows, where a story says "rolling window": the failures at the end of one
  window and the start of the next do not add up. The failure that opens a window stores 1 without
  comparing, so a limit of one behaves as two. Parallel failures may count once.
* The calendar page is another `createApi` than the queue page, so what is claimed or closed on one is
  old on the other until its entry expires (a minute after the page is left).
* A booking whose connection broke may be made after the lists were read again; the page then offers what
  is gone, and does not show the session, until its next answer (`late`, the exemption in `AnswersShow`).
* Every tap on a slot makes a new idempotency key: after a lost answer, the second tap is another request
  to the server, and only the unique index keeps it from booking twice.
* The answer to a removal closes whichever dialog is open when it arrives, also that of another person.
* The queue page never shows that a claim or a closure was refused; the sessions card keeps its banner
  after the session it names was cancelled.
* A cancellation writes no audit row.
* A reset or invite link used twice at once works twice, because it is consumed in the last write.
* A password set through an invite revokes nothing; a slow change of password overwrites a reset that
  completed after it began.
* A mark that races a mark of the same employee ends in an unmapped duplicate-key error.
* Account and row are read by two awaits of the benefit guard. An account deactivated between them is
  let in; `NoEntryWhileBarred` is the guarantee that is left.

## 5. Proofs

TLAPS proves the following for every value of the constants that satisfies the `ASSUME` of the module:
names for "not set" are not documents, scopes and tenants are functions of the right type, bounds are
naturals, `Published` blocks are valid ones. Pools are finite only where elements are counted or folded
over: the cuts of one call (they come as an array), `Bookings` in `Scheduling`, and the rows and requests of
`Eligibility`. Three theorems of `BookingProofs` and `SchedulingProofs` also limit
`FaultKinds`, and six theorems have a hypothesis on how requests
meet; both are given below, with the reason. Theorems about `LegacySpec` are about at most one session of the
old version, which an active consultant gives to a tenant he serves (`LegacyInit`).

| Module | Theorems |
|---|---|
| `BookingProofs` | `Invariant`, `TypeCorrect`, `SlotsAreUnique`, `KeysLeadHome`, `HeldSessionsAreCancelled`, `ClaimsAreConsistent`, `ClosuresAreConsistent`, `AuditIsTrue`, `SettledStaysFinal`, `RestoresAreTrue`, `CutoffIsEnforced`, `MovesReserveOnce`, `RefusalsLeaveNothing`, `OneKeyOneReservation`, `BookIsImplemented` |
| `SchedulingProofs` | `CompositionIsSound`, `CompositionIsABook`, `ListingsAgree`, `ListingsAgreeWithoutLegacy`, `SessionsStayVisible`; under hypotheses: `BlocksStayApart`, `PatchesKeepTheRest`, `ClaimsAreKept`, `SessionsAreDisjoint`, `ReschedulesFailSafe` |
| `IntervalsProofs` | `FreeIsTheRemainder`, `FreeStaysInRange`, `FreeStaysSeparate`, `OrderDoesNotMatter` |
| `AvailabilityProofs` | `TypeCorrect`, `BlocksAreValid`, `DeletedIsGone` |
| `AuthSessionProofs` | `InvariantHolds`, `TypeCorrect`, `RevocationIsComplete`, `RotationSpends`, `InviteComesFirst`, `InactiveStaysOut`; under a hypothesis: `SessionsDoNotSplit` |
| `LoginThrottleProofs` | `InvariantHolds`, `NobodyIsLockedEarly`, `AloneIsCountedExactly`, `LockIsRespected` |
| `EligibilityProofs` | `InvariantHolds`, `TypeCorrect`, `OneRow`, `NoRowAcrossTenants`, `GuardHolds`, `LogExplainsRows` |
| `ScreensProofs` | `ListsAreCovered`, `AnswersAreShown`, `FormsFit`, `RemovalsAreConfirmedTwice` |

Each proof has one shape: `Init => IInv`, `IInv /\ [Next]_vars => IInv'` with a lemma per action, and
`IInv => property`. None of the properties is inductive alone; `IInv` adds what requests in flight carry.

* *Booking.* That settled sessions stay settled rests on nobody but the holder touching a session a
  move has cancelled, which rests on `Exclusive` (one holder, one drawer of an id) and `HeldSound`. That
  keys lead home rests on `MadeSound`: until its key is recorded no record leads to a row, so `Undo`
  may delete it. That audit rows are true rests on `EntrySound`: an entry still to be written is already
  true. That claims are consistent after a stale restore rests on `SnapshotSound`: a stale snapshot is
  still an assignment the row may have.
* *Booking, where faults are limited.* `CutoffIsEnforced` needs no limit: `AskedInTime` says that a request
  past the check of the clock came before the cutoff of the row it will cancel, and rows do not move in
  time (`RowsLast`). The other three are about what the code does before certain faults, because it breaks
  the property after them. `MovesReserveOnce` excludes, in its `ASSUME`, rejected and unacknowledged operations
  (`booking_double` is the counterexample with them) and allows crashes and expiry: `Replaced` says that
  once the new row exists the only holder left of the old one is the request that inserted it, past its
  insert. `RefusedLeavesNothing` speaks of the time in which no record can have been dropped
  (`RecordsKept`): a create that yields finds the record it yields to (`AllYield`). `KeyMakesOne` speaks of
  the time before the first fault: a keyed row is undecided or recorded (`AllSettle`), and a crash between
  the insert and the record leaves one that is neither.
* *Booking implements the book.* `InitBook` maps the initial states; `NextIsABookStep` maps every step of a
  request, one lemma per handler step, to an action of the book or a stutter. A step changes at most one
  row and what one request holds, so the section begins with which entries that leaves alone.
  `Restore` maps to the end of a move only because nobody but the holder touches a cancelled row that
  is held; an insert maps to `Reserve` because the unique index is `Taken`.
* *Intervals.* The loop invariant is `FreeIsRemainder` itself; a cut removes its own instants from the
  pieces and from what is still to come. `FreeIsSeparate` needs that pieces are in range and not empty.
  `OrderIsIrrelevant` is about a fold over a finite set of cuts. That the fold exists, and computes at every
  stage what its cuts leave, is shown on a smallest set for which it would not (strict inclusion of finite
  sets is well-founded), which does the work of an induction. Separate, non-empty pieces that cover given
  instants are unique, and the results of the loop and of the fold are both such pieces.
* *Availability.* An update writes values read two awaits earlier, so `EditsSound` carries what was
  validated, and that an id awaiting its insert belongs to one request.
* *Scheduling.* A step is one of `Booking` that leaves the blocks alone or one of `Availability` that leaves
  the bookings alone (`StepOfEach`), so both invariants and the refinement carry over. The proof about
  listings sees `SubtractIntervals` only through what `IntervalsProofs` says of it: an instant is in a
  piece exactly if it is in the range and in no cut; a slot is whole or has an instant that is taken. That
  the index refuses nothing the check accepts, but for other tenants, needs that sessions take some time.
* *Sessions of the old version* wait for nobody and are assigned to nobody, against the invariant of
  `Booking`. `Whole` is what is left of it: who offered a session served its tenant, the row can
  be assigned to nobody else, a snapshot is an assignment its row can have. `LegacySound` adds
  that only rows in `legacy` or `undone`, and snapshots of them, are out of the queue and unassigned.
* *AuthSession.* `OnlyLateSessionsSurvive` is a disjunction because every step that changes a password
  or a flag makes a revocation due (`RevocationDue`) until `RevokeAll` runs or a fault interrupts it.
  `SpentTokensAreDead` needs that a request about to issue has already rotated (`Carries`).
  `SessionsDoNotSplit` has the hypothesis `[]NoneShared`, no two refreshes of one token in flight at once:
  the violation in `auth_rotation` is the only way a session splits.
* *LoginThrottle.* `CountsCovered`: no count, stored or about to be saved, exceeds the failures since the
  last success. `AloneSound`: of a key nobody shares, what its one login has read still stands.
* *The pages.* `CacheInv` says why a page at rest is not behind: a list that lags is pooled or an answer
  that will pool it is still due, or it was changed by a request the page had given up; and a list that
  is being read across a change is one of those, too.
  All three facts are proved for any number of requests, sessions, people and broken connections,
  and whatever everybody else does.
* *Eligibility.* `NoEntryWhileBarred` needs `BarsFall`: once the account has been read, only the row can
  still be in the way, and the second read settles that. `AuditExplainsRows` is a balance: every step moves
  one unit at most between rows, requests about to log and the log, except that a fault that loses
  an event puts the account in `unlogged`.

**Where requests must keep apart.** Five properties are broken by races that the code does not prevent.
`scheduling` checks four of them with one booking request and one edit at a time; the theorems allow any number
and say which ones must not meet. Each hypothesis is a state predicate that has to hold throughout,
and each is needed: without it a counterexample of a few steps exists.

| Theorem | Hypothesis | Why |
|---|---|---|
| `BlocksStayApart` | `OneWriter`: one request at a time writes to a consultant's blocks on the answer of an overlap query | what the query said may be old when the write comes; reading and deleting meet freely. `Published` blocks are apart to begin with |
| `PatchesKeepTheRest` | `OnePatcher`: nobody writes to a block between another update's read and its write | an update writes all fields back |
| `ClaimsAreKept` | `ClaimsWait`: no claim of a session between a reschedule's snapshot and its end | the restore writes the snapshot back. No fault is excluded |
| `SessionsAreDisjoint` | `NoRivals`: one create or reschedule at a time is between its check and its write on a consultant's time. No unacknowledged write, and with keys no rejected one | check-then-insert; a reschedule that fails after its insert restores the old session beside the new one |
| `ReschedulesFailSafe` | `NoRivals`, and `MovesWait`: nobody moves a session whose own create has not answered. No rejected or unacknowledged operation | the old place may be taken, the old row deleted by the create that lost its key, or the restore itself rejected |

The middle of the last two is `PlacesKept`: what was checked is still so, and a session that may have to be
restored has its place free. Requests for other consultants, claims, closures, cancellations, crashes, the
expiry of keys and changes of availability come in between as they like. `scheduling` checks
`RescheduleFailsSafe` with a rejected operation all the same: with two sessions in all, only that
operation can make a move fail, and no second one is left to reject the restore. The theorem has to
exclude it, because in general the index or a first error fails the insert and another error the restore.

**Only model-checked.** `LockEnds` is liveness under fairness, which is beyond the prover, as `ENABLED` is. Every
other property of a passing run is stated by a theorem. `TypeOK` is the first conjunct of each inductive
invariant; that of `Booking` is checked by `booking_faults`.

## 6. Not modelled

* The guards of platform routes and the one that keeps HR out of consultant routes: one condition each on
  a signed payload, without state.
* Creation of operators: look up, hash, insert under a unique index, the race that `Eligibility` models for
  its rows.
* Listings of HR and operators, health, correlation ids, wiring: they keep no state.
* The auth audit log: nothing reads it and its failures are swallowed.
* Pages that only show something (home, calendar, benefit status), and the rescheduling mutation of the
  phone's API, which no screen calls.
* A process that starts, and backfills, beside one that serves.

## 7. What is left

1. `Eligibility` composed with `Booking`: the guard admits a request before its handler runs; today the
   two meet only in `PageServer`, which lets the booking of somebody no longer eligible happen.
2. `AuthSession` composed with the scope of consultants, so that the sessions of a deactivated consultant
   become visible as such; an abstract session (open, ended) that `AuthSession` implements.
3. An abstract reservation book with liveness: under fairness and without crashes a move ends.
