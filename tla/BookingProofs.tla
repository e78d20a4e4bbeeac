--------------------------- MODULE BookingProofs ---------------------------
(***************************************************************************)
(* IInv is an invariant of Booking, for every value of the constants, and  *)
(* with it the safety properties TLC checks on small instances.            *)
(*                                                                         *)
(* A step of Booking changes one request, and at most one row.  The frame  *)
(* lemmas below say, for each way a step can touch the collections, what   *)
(* the step must establish about the request and the row it changes; the   *)
(* other requests and rows are then sound as they were.  The last section  *)
(* shows that Booking implements ReservationBook.                          *)
(***************************************************************************)
EXTENDS BookingRefinement, TLAPS

-----------------------------------------------------------------------------
(* Records *)

\* A request with one field changed is a request.
LEMMA FieldSet ==
    ASSUME NEW q \in Request
    PROVE  /\ \A p \in Points : [q EXCEPT !.pc = p] \in Request
           /\ \A c \in Codes : [q EXCEPT !.reply = c] \in Request
           /\ \A b \in Bookings : [q EXCEPT !.prior = b] \in Request
           /\ \A x \in Snapshot : [q EXCEPT !.snapshot = x] \in Request
           /\ \A e \in AuditRow : [q EXCEPT !.entry = e] \in Request
BY DEF Request

\* A row with one field changed is a row.
LEMMA RowFieldSet ==
    ASSUME NEW row \in BookingRow
    PROVE  /\ \A x \in States : [row EXCEPT !.state = x] \in BookingRow
           /\ \A x \in BOOLEAN : [row EXCEPT !.awaiting = x] \in BookingRow
           /\ \A x \in Consultants : [row EXCEPT !.assigned = x] \in BookingRow
           /\ \A x \in Reasons : [row EXCEPT !.closure = x] \in BookingRow
BY DEF BookingRow

\* The request that answered is idle, and an idle request is sound.
Answered(code) == [Idle EXCEPT !.reply = code]

LEMMA IdleSound ==
    ASSUME NEW code \in Codes
    PROVE  /\ Answered(code) \in Request
           /\ Answered(code).pc = "idle"
           /\ Answered(code).op = "none"
           /\ Answered(code).made = None
           /\ RequestSound(Answered(code))
           /\ RequestSound(Answered(code))'
           /\ ~Holding(Answered(code))
<1> DEFINE q == Answered(code)
<1>0. Idle \in Request
  BY DEF Idle, NoSnapshot, Request, Snapshot, Points, Operations, Codes
<1>1. q \in Request
  BY <1>0 DEF Answered, Request
<1>2. q.pc = "idle" /\ q.op = "none" /\ q.made = None
  BY DEF Answered, Idle
<1> HIDE DEF q
<1>3. RequestSound(q) /\ ~Holding(q)
  BY <1>2 DEF RequestSound, OpSound, ArgsSound, MadeSound, Drawn, Unrecorded, HeldSound,
       Holding, SnapshotSound, EntrySound
<1>4. RequestSound(q)'
  BY <1>2 DEF RequestSound, OpSound, ArgsSound, MadeSound, Drawn, Unrecorded, HeldSound,
       Holding, SnapshotSound, EntrySound
<1>5. QED
  BY <1>1, <1>2, <1>3, <1>4 DEF q

\* A step that touches no collection: the request it moves is sound, draws at
\* most a fresh id, and gets hold of nothing.
LEMMA MoveFrame ==
    ASSUME IInv, NEW r \in Requests, NEW q \in Request,
           RequestSound(q),
           \/ q.made \in {None, req[r].made}
           \/ \A s \in Requests : req[s].made # q.made,
           Holding(q) => Holding(req[r]) /\ q.target = req[r].target,
           req' = [req EXCEPT ![r] = q],
           UNCHANGED <<bookings, idem, audit, blocks, origin>>,
           now' \in Int, faults' \in Nat
    PROVE  IInv'
<1>1. TypeOK'
  BY DEF IInv, TypeOK
<1>2. \A s \in Requests : RequestSound(req'[s])
  BY DEF IInv, TypeOK, RequestsSound
<1>3. RequestsSound'
  BY <1>2 DEF RequestsSound, RequestSound, OpSound, ArgsSound, MadeSound, HeldSound,
       SnapshotSound, EntrySound, AuditTrue, Exists, Live, Drawn, Unrecorded, Holding, CallOf
<1>4. Exclusive'
  BY DEF IInv, TypeOK, Exclusive, Holding
<1>5. (RowsSound /\ SlotUnique /\ KeyLeadsHome /\ AuditSound)'
  BY DEF IInv, RowsSound, SlotUnique, KeyLeadsHome, AuditSound, AuditTrue, Exists,
         Confirmed, Live
<1>6. QED
  BY <1>1, <1>3, <1>4, <1>5 DEF IInv

LEMMA ReplyFrame ==
    ASSUME IInv, NEW r \in Requests, NEW code \in Codes,
           Reply(r, code),
           UNCHANGED <<bookings, idem, audit, blocks, origin>>,
           now' \in Int, faults' \in Nat
    PROVE  IInv'
BY MoveFrame, IdleSound DEF Reply, Answered

\* A step that rewrites one existing row without changing whose it is, who
\* gives the session and when.
LEMMA UpdateFrame ==
    ASSUME IInv, NEW r \in Requests, NEW q \in Request,
           NEW b \in Bookings, NEW row \in BookingRow,
           Live(bookings[b]), Live(row), RowSound(row),
           row.employee = bookings[b].employee,
           row.consultant = bookings[b].consultant,
           row.slot = bookings[b].slot,
           bookings[b].closure = None,
           row.state = "confirmed" => Confirmed(b) \/ ~Indexed(b, row),
           \A s \in Requests \ {r} : ~Holds(s, b),
           bookings' = [bookings EXCEPT ![b] = row],
           UNCHANGED <<idem, audit, blocks, origin>>,
           RequestSound(q)',
           q.made \in {None, req[r].made},
           Holding(q) => \A s \in Requests \ {r} : ~Holds(s, q.target),
           req' = [req EXCEPT ![r] = q],
           now' \in Int, faults' \in Nat
    PROVE  IInv'
<1>1. TypeOK'
  BY DEF IInv, TypeOK
<1>2. \A x \in Bookings : /\ Live(bookings[x]) <=> Live(bookings'[x])
                          /\ bookings'[x].employee = bookings[x].employee
                          /\ bookings'[x].consultant = bookings[x].consultant
                          /\ bookings'[x].slot = bookings[x].slot
                          /\ bookings'[x].state = "absent" <=> bookings[x].state = "absent"
                          /\ x # b => bookings'[x] = bookings[x]
  BY DEF IInv, TypeOK, Live
<1>3. RowsSound'
  BY <1>2 DEF IInv, TypeOK, RowsSound, Exists, Live
<1>4. SlotUnique'
  BY <1>2 DEF IInv, TypeOK, SlotUnique, Confirmed, Indexed
<1>5. KeyLeadsHome'
  BY <1>2 DEF IInv, TypeOK, KeyLeadsHome, IdemRow, Exists, Live
<1>6. \A e \in AuditRow : AuditTrue(e) => AuditTrue(e)'
  BY <1>2 DEF AuditTrue, AuditRow, Live
<1>7. AuditSound'
  BY <1>6 DEF IInv, TypeOK, AuditSound
<1>8. ASSUME NEW s \in Requests \ {r}
      PROVE  RequestSound(req[s])'
  <2>0. req'[s] = req[s] /\ RequestSound(req[s]) /\ req[s] \in Request
    BY DEF IInv, TypeOK, RequestsSound
  <2>1. (OpSound(req[s]) /\ ArgsSound(req[s]))'
    BY <2>0 DEF RequestSound, OpSound, ArgsSound
  <2>2. MadeSound(req[s])'
    BY <1>2, <2>0, <2>1 DEF RequestSound, MadeSound, Exists, Live, Drawn, Unrecorded, CallOf,
         OpSound, ArgsSound
  <2>3. HeldSound(req[s])'
    BY <1>2, <2>0 DEF RequestSound, ArgsSound, HeldSound, Holding, Holds, Exists, Live
  <2>4. SnapshotSound(req[s])'
    BY <1>2, <2>0 DEF RequestSound, ArgsSound, SnapshotSound, Exists, Live
  <2>5. EntrySound(req[s])'
    BY <1>6, <2>0 DEF RequestSound, EntrySound
  <2>6. QED
    BY <2>1, <2>2, <2>3, <2>4, <2>5 DEF RequestSound
<1>9. RequestsSound'
  BY <1>8 DEF IInv, TypeOK, RequestsSound
<1>10. Exclusive'
  BY DEF IInv, TypeOK, Exclusive, Holding, Holds
<1>11. QED
  BY <1>1, <1>3, <1>4, <1>5, <1>7, <1>9, <1>10 DEF IInv

\* A step that inserts the row of a request.
LEMMA StoreFrame ==
    ASSUME IInv, NEW r \in Requests, NEW q \in Request,
           Store(r),
           UNCHANGED <<idem, audit, blocks>>,
           RequestSound(q)',
           q.made \in {None, req[r].made},
           Holding(q) => Holding(req[r]) /\ q.target = req[r].target,
           req' = [req EXCEPT ![r] = q],
           now' \in Int, faults' \in Nat
    PROVE  IInv'
<1> DEFINE m == req[r].made
           row == Draft(req[r])
<1>1. /\ req[r] \in Request /\ m \in Bookings
      /\ req[r].op \in {"create", "reschedule"}
      /\ req[r].employee \in Employees /\ req[r].consultant \in Consultants
      /\ req[r].slot \in Slots
      /\ bookings[m].state = "absent"
      /\ CallOf(req[r]) \in Calls
  BY DEF IInv, TypeOK, RequestsSound, RequestSound, OpSound, ArgsSound, MadeSound, Drawn,
         Store, CallOf, CompoundKey, Calls, Request
<1>2. row \in BookingRow /\ RowSound(row) /\ Live(row)
  BY <1>1, ConstantsAssumption
     DEF Draft, BookingRow, States, RowSound, Live
<1>3. /\ bookings' = [bookings EXCEPT ![m] = row]
      /\ origin' = [origin EXCEPT ![m] = CallOf(req[r])]
      /\ ~Indexed(m, row)
  BY DEF Store
<1> HIDE DEF row
<1>4. TypeOK'
  BY <1>1, <1>2, <1>3 DEF IInv, TypeOK
<1>5. RowsSound'
  BY <1>1, <1>2, <1>3 DEF IInv, TypeOK, RowsSound, Exists, Live
<1>6. SlotUnique'
  BY <1>1, <1>2, <1>3 DEF IInv, TypeOK, SlotUnique, Confirmed, Indexed
<1>7. \A x \in Bookings : Exists(x) => x # m
  BY <1>1 DEF Exists
<1>8. KeyLeadsHome'
  BY <1>1, <1>3, <1>7 DEF IInv, TypeOK, KeyLeadsHome, IdemRow, Exists
<1>9. \A e \in AuditRow : AuditTrue(e) => AuditTrue(e)'
  BY <1>1, <1>3 DEF AuditTrue, AuditRow, IInv, TypeOK
<1>10. AuditSound'
  BY <1>9 DEF IInv, TypeOK, AuditSound
<1>11. ASSUME NEW s \in Requests \ {r}
       PROVE  RequestSound(req[s])'
  <2>0. req'[s] = req[s] /\ RequestSound(req[s]) /\ req[s] \in Request /\ req[s].made # m
    BY <1>1, ConstantsAssumption DEF IInv, TypeOK, RequestsSound, Exclusive
  <2>1. (OpSound(req[s]) /\ ArgsSound(req[s]))'
    BY <2>0 DEF RequestSound, OpSound, ArgsSound
  <2>2. MadeSound(req[s])'
    BY <1>1, <1>3, <2>0, <2>1 DEF RequestSound, MadeSound, Exists, Drawn, Unrecorded, CallOf,
         OpSound, ArgsSound, IInv, TypeOK
  <2>3. HeldSound(req[s])'
    BY <1>1, <1>3, <2>0 DEF RequestSound, ArgsSound, HeldSound, Holding, Exists, IInv, TypeOK
  <2>4. SnapshotSound(req[s])'
    BY <1>1, <1>3, <2>0 DEF RequestSound, ArgsSound, SnapshotSound, Exists, IInv, TypeOK
  <2>5. EntrySound(req[s])'
    BY <1>9, <2>0 DEF RequestSound, EntrySound
  <2>6. QED
    BY <2>1, <2>2, <2>3, <2>4, <2>5 DEF RequestSound
<1>12. RequestsSound'
  BY <1>11 DEF IInv, TypeOK, RequestsSound
<1>13. Exclusive'
  BY DEF IInv, TypeOK, Exclusive, Holding
<1>14. QED
  BY <1>4, <1>5, <1>6, <1>8, <1>10, <1>12, <1>13 DEF IInv

\* A step that records the key of a request.
LEMMA StoreKeyFrame ==
    ASSUME IInv, NEW r \in Requests, NEW q \in Request,
           StoreKey(r),
           UNCHANGED <<bookings, origin, audit, blocks>>,
           RequestSound(q)',
           q.made \in {None, req[r].made},
           Holding(q) => Holding(req[r]) /\ q.target = req[r].target,
           req' = [req EXCEPT ![r] = q],
           now' \in Int, faults' \in Nat
    PROVE  IInv'
<1> DEFINE m == req[r].made
           new == [call |-> CallOf(req[r]), booking |-> m]
<1>1. /\ req[r] \in Request /\ m \in Bookings /\ Exists(m)
      /\ origin[m] = CallOf(req[r])
      /\ bookings[m].employee = req[r].employee
      /\ new \in IdemRow
  BY DEF IInv, TypeOK, RowsSound, RequestsSound, RequestSound, OpSound, ArgsSound, MadeSound,
         Unrecorded, StoreKey, IdemRow
<1>2. idem' = idem \cup {new}
  BY DEF StoreKey
<1>3. TypeOK'
  BY <1>1, <1>2 DEF IInv, TypeOK
<1>4. KeyLeadsHome'
  BY <1>1, <1>2 DEF IInv, KeyLeadsHome, Exists, CallOf, CompoundKey
<1>5. ASSUME NEW s \in Requests \ {r}
      PROVE  RequestSound(req[s])'
  <2>1. req'[s] = req[s] /\ RequestSound(req[s]) /\ req[s].made # m
    BY <1>1, ConstantsAssumption DEF IInv, TypeOK, RequestsSound, Exclusive
  <2>2. MadeSound(req[s])'
    BY <1>2, <2>1 DEF RequestSound, MadeSound, Exists, Drawn, Unrecorded, CallOf
  <2>3. QED
    BY <2>1, <2>2 DEF RequestSound, OpSound, ArgsSound, HeldSound, SnapshotSound, EntrySound,
         AuditTrue, Holding, Exists, Live
<1>6. RequestsSound'
  BY <1>5 DEF IInv, TypeOK, RequestsSound
<1>7. Exclusive'
  BY DEF IInv, TypeOK, Exclusive, Holding
<1>8. (RowsSound /\ SlotUnique /\ AuditSound)'
  BY DEF IInv, RowsSound, SlotUnique, AuditSound, AuditTrue, Exists, Confirmed, Live
<1>9. QED
  BY <1>3, <1>4, <1>6, <1>7, <1>8 DEF IInv

\* What the collaborator's two updates make of a confirmed row.
Withdrawn(b, row) ==
    /\ row \in BookingRow /\ RowSound(row) /\ Live(row)
    /\ row.state = "cancelled" /\ row.closure = None
    /\ row.employee = bookings[b].employee
    /\ row.consultant = bookings[b].consultant
    /\ row.slot = bookings[b].slot
    /\ row.assigned = bookings[b].assigned
    /\ Confirmed(b) /\ Live(bookings[b]) /\ bookings[b].closure = None

LEMMA WithdrawnRow ==
    ASSUME IInv, NEW b \in Bookings, Confirmed(b)
    PROVE  Withdrawn(b, [bookings[b] EXCEPT !.state = "cancelled"])
BY DEF IInv, TypeOK, RowsSound, RowSound, Withdrawn, Confirmed, Live, BookingRow, States,
       Outcomes

\* A session that a reschedule holds is not confirmed, and it is not closed.
LEMMA HeldIsNotConfirmed ==
    ASSUME IInv, NEW b \in Bookings, NEW s \in Requests, Holds(s, b)
    PROVE  ~Confirmed(b)
BY DEF IInv, RequestsSound, RequestSound, HeldSound, Holding, Holds, Confirmed

-----------------------------------------------------------------------------
(* One lemma per action *)

LEMMA IdleIsRequest == Idle \in Request
BY DEF Idle, NoSnapshot, Request, Snapshot, Points, Operations, Codes

LEMMA BeginCreateStep ==
    ASSUME IInv, NEW r \in Requests, NEW e \in Employees, NEW c \in Consultants,
           NEW s \in Slots, NEW k \in Keys \cup {None}, BeginCreate(r, e, c, s, k)
    PROVE  IInv'
<1>1. now' \in Int /\ faults' \in Nat /\ UNCHANGED <<bookings, idem, audit, blocks, origin>>
  BY DEF IInv, TypeOK, BeginCreate
<1>2. CASE Reply(r, "ok")
  BY <1>1, <1>2, ReplyFrame DEF Codes
<1>3. CASE ~Reply(r, "ok")
  <2>1. PICK b \in Bookings :
          /\ Fresh(b)
          /\ req' = [req EXCEPT ![r] =
                [Idle EXCEPT !.pc = "check", !.op = "create", !.employee = e,
                             !.consultant = c, !.slot = s, !.key = k,
                             !.made = b, !.since = now]]
    BY <1>3 DEF BeginCreate
  <2> DEFINE q == [Idle EXCEPT !.pc = "check", !.op = "create", !.employee = e,
                               !.consultant = c, !.slot = s, !.key = k,
                               !.made = b, !.since = now]
  <2>2. q \in Request
    BY IdleIsRequest DEF IInv, TypeOK, Request, Points, Operations
  <2>3. /\ q.pc = "check" /\ q.op = "create" /\ q.employee = e /\ q.consultant = c
        /\ q.slot = s /\ q.made = b /\ q.target = None
    BY DEF Idle
  <2>4. req' = [req EXCEPT ![r] = q]
    BY <2>1
  <2> HIDE DEF q
  <2>5. RequestSound(q) /\ ~Holding(q)
    BY <2>1, <2>3 DEF RequestSound, OpSound, ArgsSound, MadeSound, Drawn, Unrecorded,
         HeldSound, Holding, SnapshotSound, EntrySound, Fresh
  <2>6. QED
    BY <1>1, <2>1, <2>2, <2>3, <2>4, <2>5, MoveFrame DEF Fresh
<1>4. QED
  BY <1>2, <1>3

LEMMA CheckStep ==
    ASSUME IInv, NEW r \in Requests, Check(r)
    PROVE  IInv'
<1>1. now' \in Int /\ faults' \in Nat /\ UNCHANGED <<bookings, idem, audit, blocks, origin>>
  BY DEF IInv, TypeOK, Check
<1>2. CASE Reply(r, "SLOT_INVALID") \/ Reply(r, "SLOT_TAKEN")
  BY <1>1, <1>2, ReplyFrame DEF Codes
<1>3. CASE Goto(r, IF req[r].op = "create" THEN "insert" ELSE "cancel")
  <2> DEFINE q == [req[r] EXCEPT !.pc = IF req[r].op = "create" THEN "insert" ELSE "cancel"]
  <2>1. /\ req[r] \in Request /\ RequestSound(req[r]) /\ req[r].pc = "check"
        /\ req' = [req EXCEPT ![r] = q]
    BY <1>3 DEF IInv, TypeOK, RequestsSound, Check, Goto
  <2>2. q \in Request /\ q.made = req[r].made
    BY <2>1 DEF Request, Points
  <2>3. RequestSound(q) /\ ~Holding(q)
    BY <2>1 DEF RequestSound, OpSound, ArgsSound, MadeSound, Drawn, Unrecorded,
         HeldSound, Holding, SnapshotSound, EntrySound, Request
  <2>4. QED
    BY <1>1, <2>1, <2>2, <2>3, MoveFrame
<1>4. QED
  BY <1>2, <1>3 DEF Check

LEMMA InsertStep ==
    ASSUME IInv, NEW r \in Requests, Insert(r)
    PROVE  IInv'
<1> USE DEF Insert
<1>1. now' \in Int /\ faults' \in Nat /\ UNCHANGED <<idem, audit, blocks>> /\ Store(r)
  BY DEF IInv, TypeOK
<1>2. CASE Reply(r, "ok")
  BY <1>1, <1>2, IdleSound, StoreFrame DEF Reply, Answered, Codes
<1>3. CASE Goto(r, "record")
  <2>0. req[r] \in Request /\ RequestSound(req[r]) /\ req[r].pc = "insert"
    BY <1>1 DEF IInv, TypeOK, RequestsSound, Store
  <2>1. PICK q \in Request : q = [req[r] EXCEPT !.pc = "record"]
    <3>1. "record" \in Points
      BY DEF Points
    <3>2. QED
      BY <2>0, <3>1, FieldSet
  <2>2. /\ req' = [req EXCEPT ![r] = q]
        /\ q.made = req[r].made /\ q.target = req[r].target
    BY <1>3, <2>0, <2>1 DEF Goto, Request
  <2>3. Holding(q) => Holding(req[r])
    BY <2>0, <2>1 DEF Holding, Request
  <2>4. RequestSound(q)'
    <3>1. (OpSound(q) /\ ArgsSound(q) /\ EntrySound(q))'
      BY <2>0, <2>1, <1>1 DEF RequestSound, OpSound, ArgsSound, EntrySound, Request
    <3>2. req[r].made \in Bookings /\ ~Exists(req[r].made)
      BY <2>0 DEF RequestSound, OpSound, ArgsSound, MadeSound, Drawn, Exists
    <3>3. MadeSound(q)'
      BY <1>1, <2>0, <2>1, <3>2 DEF MadeSound, Drawn, Unrecorded, Store, Draft, Exists, CallOf,
           IInv, TypeOK, KeyLeadsHome, Request
    <3>4. req[r].op = "reschedule" => req[r].target \in Bookings /\ req[r].target # req[r].made
      BY <2>0, <3>2 DEF RequestSound, ArgsSound, OpSound, SnapshotSound, MadeSound, Drawn
    <3>5. HeldSound(q)' /\ SnapshotSound(q)'
      BY <1>1, <2>0, <2>1, <3>4 DEF RequestSound, HeldSound, Holding, SnapshotSound, Store, Exists,
           IInv, TypeOK, Request
    <3>6. QED
      BY <3>1, <3>3, <3>5 DEF RequestSound
  <2>5. QED
    BY <1>1, <2>2, <2>3, <2>4, StoreFrame
<1>4. QED
  BY <1>2, <1>3

LEMMA InsertDuplicateStep ==
    ASSUME IInv, NEW r \in Requests, InsertDuplicate(r)
    PROVE  IInv'
<1>1. /\ now' \in Int /\ faults' \in Nat /\ UNCHANGED <<bookings, idem, audit, blocks, origin>>
      /\ req[r] \in Request /\ RequestSound(req[r]) /\ req[r].pc = "insert"
  BY DEF IInv, TypeOK, RequestsSound, InsertDuplicate
<1>2. CASE Reply(r, "SLOT_TAKEN")
  BY <1>1, <1>2, ReplyFrame DEF Codes
<1>3. CASE req[r].op = "create" /\ Goto(r, "recover")
  <2> DEFINE q == [req[r] EXCEPT !.pc = "recover"]
  <2>1. req' = [req EXCEPT ![r] = q]
    BY <1>3 DEF Goto
  <2>2. q \in Request /\ q.made = req[r].made
    BY <1>1 DEF Request, Points
  <2>3. RequestSound(q) /\ ~Holding(q)
    BY <1>1, <1>3 DEF RequestSound, OpSound, ArgsSound, MadeSound, Drawn, Unrecorded,
         HeldSound, Holding, SnapshotSound, EntrySound, Request
  <2> HIDE DEF q
  <2>4. QED
    BY <1>1, <2>1, <2>2, <2>3, MoveFrame
<1>4. CASE /\ req[r].op = "reschedule"
           /\ req' = [req EXCEPT ![r].pc = "restore", ![r].reply = "SLOT_TAKEN"]
  <2>a. "restore" \in Points /\ "SLOT_TAKEN" \in Codes
    BY DEF Points, Codes
  <2>0. PICK p \in Request : p = [req[r] EXCEPT !.pc = "restore"]
    BY <1>1, <2>a, FieldSet
  <2>1. PICK q \in Request : q = [p EXCEPT !.reply = "SLOT_TAKEN"]
    BY <2>0, <2>a, FieldSet
  <2>2. /\ req' = [req EXCEPT ![r] = q]
        /\ q.made = req[r].made /\ q.target = req[r].target
    BY <1>1, <1>4, <2>0, <2>1 DEF IInv, TypeOK, Request
  <2>3. RequestSound(q) /\ Holding(req[r])
    BY <1>1, <1>4, <2>0, <2>1 DEF RequestSound, OpSound, ArgsSound, MadeSound, Drawn, Unrecorded,
         HeldSound, Holding, SnapshotSound, EntrySound, Request
  <2>4. QED
    BY <1>1, <2>2, <2>3, MoveFrame
<1>5. QED
  BY <1>2, <1>3, <1>4 DEF InsertDuplicate

LEMMA RecordStep ==
    ASSUME IInv, NEW r \in Requests, Record(r)
    PROVE  IInv'
BY IdleSound, StoreKeyFrame DEF Record, Reply, Answered, Codes, IInv, TypeOK

LEMMA RecordDuplicateStep ==
    ASSUME IInv, NEW r \in Requests, RecordDuplicate(r)
    PROVE  IInv'
<1>1. /\ now' \in Int /\ faults' \in Nat /\ UNCHANGED <<bookings, idem, audit, blocks, origin>>
      /\ req[r] \in Request /\ RequestSound(req[r]) /\ req[r].pc = "record"
  BY DEF IInv, TypeOK, RequestsSound, RecordDuplicate
<1>2. CASE Reply(r, "ok")
  BY <1>1, <1>2, ReplyFrame DEF Codes
<1>3. CASE req[r].op = "create" /\ Goto(r, "resolve")
  <2> DEFINE q == [req[r] EXCEPT !.pc = "resolve"]
  <2>1. req' = [req EXCEPT ![r] = q]
    BY <1>3 DEF Goto
  <2>2. q \in Request /\ q.made = req[r].made
    BY <1>1 DEF Request, Points
  <2>3. RequestSound(q) /\ ~Holding(q)
    BY <1>1, <1>3 DEF RequestSound, OpSound, ArgsSound, MadeSound, Drawn, Unrecorded,
         HeldSound, Holding, SnapshotSound, EntrySound, Request, CallOf
  <2> HIDE DEF q
  <2>4. QED
    BY <1>1, <2>1, <2>2, <2>3, MoveFrame
<1>4. QED
  BY <1>2, <1>3 DEF RecordDuplicate

LEMMA ResolveStep ==
    ASSUME IInv, NEW r \in Requests, Resolve(r)
    PROVE  IInv'
<1>1. /\ now' \in Int /\ faults' \in Nat /\ UNCHANGED <<bookings, idem, audit, blocks, origin>>
      /\ req[r] \in Request /\ RequestSound(req[r]) /\ req[r].pc = "resolve"
  BY DEF IInv, TypeOK, RequestsSound, Resolve
<1>2. ASSUME NEW p \in Bookings, req' = [req EXCEPT ![r].pc = "undo", ![r].prior = p]
      PROVE  IInv'
  <2>a. "undo" \in Points
    BY DEF Points
  <2>0. PICK t \in Request : t = [req[r] EXCEPT !.pc = "undo"]
    BY <1>1, <2>a, FieldSet
  <2>1. PICK q \in Request : q = [t EXCEPT !.prior = p]
    BY <2>0, FieldSet
  <2>2. req' = [req EXCEPT ![r] = q] /\ q.made = req[r].made
    BY <1>1, <1>2, <2>0, <2>1 DEF IInv, TypeOK, Request
  <2>3. RequestSound(q) /\ ~Holding(q)
    BY <1>1, <2>0, <2>1 DEF RequestSound, OpSound, ArgsSound, MadeSound, Drawn, Unrecorded,
         HeldSound, Holding, SnapshotSound, EntrySound, Request, CallOf
  <2>4. QED
    BY <1>1, <2>2, <2>3, MoveFrame
<1>3. CASE Goto(r, "recover")
  <2> DEFINE q == [req[r] EXCEPT !.pc = "recover"]
  <2>1. req' = [req EXCEPT ![r] = q]
    BY <1>3 DEF Goto
  <2>2. q \in Request /\ q.made = req[r].made
    BY <1>1 DEF Request, Points
  <2>3. RequestSound(q) /\ ~Holding(q)
    BY <1>1 DEF RequestSound, OpSound, ArgsSound, MadeSound, Drawn, Unrecorded,
         HeldSound, Holding, SnapshotSound, EntrySound, Request, CallOf
  <2> HIDE DEF q
  <2>4. QED
    BY <1>1, <2>1, <2>2, <2>3, MoveFrame
<1>4. QED
  BY <1>2, <1>3 DEF Resolve, Prior

LEMMA UndoStep ==
    ASSUME IInv, NEW r \in Requests, Undo(r)
    PROVE  IInv'
<1> DEFINE m == req[r].made
<1>1. /\ now' \in Int /\ faults' \in Nat /\ UNCHANGED <<idem, audit, blocks, origin>>
      /\ req[r] \in Request /\ RequestSound(req[r]) /\ req[r].pc = "undo"
      /\ bookings' = [bookings EXCEPT ![m] = DeletedRow]
  BY DEF IInv, TypeOK, RequestsSound, Undo
<1>2. m \in Bookings /\ Exists(m) /\ \A rec \in idem : rec.booking # m
  BY <1>1 DEF RequestSound, OpSound, ArgsSound, MadeSound, Unrecorded
<1>3. /\ DeletedRow \in BookingRow /\ DeletedRow.state = "deleted" /\ DeletedRow.closure = None
      /\ RowSound(DeletedRow) /\ ~Live(DeletedRow)
  BY DEF DeletedRow, AbsentRow, BookingRow, States, Outcomes, RowSound, Live
<1>4. PICK q \in Request : /\ req' = [req EXCEPT ![r] = q] /\ q.pc = "idle" /\ q.made = None
                           /\ q.op = "none" /\ RequestSound(q)' /\ ~Holding(q)
  BY IdleSound DEF Undo, Reply, Answered, Codes
<1>5. TypeOK'
  BY <1>1, <1>2, <1>3, <1>4 DEF IInv, TypeOK
<1>6. (RowsSound /\ SlotUnique)'
  BY <1>1, <1>2, <1>3 DEF IInv, TypeOK, RowsSound, SlotUnique, Confirmed, Exists
<1>7. KeyLeadsHome'
  BY <1>1, <1>2 DEF IInv, TypeOK, KeyLeadsHome, IdemRow, Exists
<1>8. \A e \in AuditRow : AuditTrue(e) => AuditTrue(e)'
  BY <1>1, <1>2, <1>3 DEF AuditTrue, AuditRow, Live, IInv, TypeOK
<1>9. AuditSound'
  BY <1>1, <1>8 DEF IInv, TypeOK, AuditSound
<1>10. ASSUME NEW s \in Requests \ {r}
       PROVE  RequestSound(req[s])'
  <2>0. req'[s] = req[s] /\ RequestSound(req[s]) /\ req[s] \in Request /\ req[s].made # m
    BY <1>2, <1>4, ConstantsAssumption DEF IInv, TypeOK, RequestsSound, Exclusive
  <2>1. (OpSound(req[s]) /\ ArgsSound(req[s]))'
    BY <2>0 DEF RequestSound, OpSound, ArgsSound
  <2>2. MadeSound(req[s])'
    BY <1>1, <1>2, <2>0 DEF RequestSound, MadeSound, Exists, Drawn, Unrecorded, CallOf,
         OpSound, ArgsSound, IInv, TypeOK
  <2>3. (HeldSound(req[s]) /\ SnapshotSound(req[s]))'
    BY <1>1, <1>2, <1>3, <2>0 DEF RequestSound, ArgsSound, HeldSound, Holding, SnapshotSound,
         Exists, IInv, TypeOK
  <2>4. EntrySound(req[s])'
    BY <1>8, <2>0 DEF RequestSound, EntrySound
  <2>5. QED
    BY <2>1, <2>2, <2>3, <2>4 DEF RequestSound
<1>11. RequestsSound'
  BY <1>4, <1>10 DEF IInv, TypeOK, RequestsSound
<1>12. Exclusive'
  BY <1>4 DEF IInv, TypeOK, Exclusive, Holding
<1>13. QED
  BY <1>5, <1>6, <1>7, <1>9, <1>11, <1>12 DEF IInv

LEMMA RecoverStep ==
    ASSUME IInv, NEW r \in Requests, Recover(r)
    PROVE  IInv'
BY ReplyFrame DEF Recover, Codes, IInv, TypeOK

LEMMA BeginCancelStep ==
    ASSUME IInv, NEW r \in Requests, NEW e \in Employees, NEW b \in Bookings,
           BeginCancel(r, e, b)
    PROVE  IInv'
<1>1. now' \in Int /\ faults' \in Nat /\ UNCHANGED <<bookings, idem, audit, blocks, origin>>
  BY DEF IInv, TypeOK, BeginCancel
<1>2. CASE Reply(r, "NOT_FOUND") \/ Reply(r, "NOT_CANCELLABLE")
  BY <1>1, <1>2, ReplyFrame DEF Codes
<1>3. CASE ~(Reply(r, "NOT_FOUND") \/ Reply(r, "NOT_CANCELLABLE"))
  <2> DEFINE q == [Idle EXCEPT !.pc = "cancel", !.op = "cancel", !.employee = e,
                               !.target = b, !.since = now]
  <2>1. req' = [req EXCEPT ![r] = q]
    BY <1>3 DEF BeginCancel
  <2>2. q \in Request
    BY IdleIsRequest DEF IInv, TypeOK, Request, Points, Operations
  <2>3. q.pc = "cancel" /\ q.op = "cancel" /\ q.employee = e /\ q.target = b /\ q.made = None
    BY DEF Idle
  <2> HIDE DEF q
  <2>4. RequestSound(q) /\ ~Holding(q)
    BY <2>3 DEF RequestSound, OpSound, ArgsSound, MadeSound, Drawn, Unrecorded,
         HeldSound, Holding, SnapshotSound, EntrySound
  <2>5. QED
    BY <1>1, <2>1, <2>2, <2>3, <2>4, MoveFrame
<1>4. QED
  BY <1>2, <1>3

LEMMA CancelStep ==
    ASSUME IInv, NEW r \in Requests, Cancel(r)
    PROVE  IInv'
<1> DEFINE b == req[r].target
           row == [bookings[b] EXCEPT !.state = "cancelled"]
<1>1. /\ now' \in Int /\ faults' \in Nat /\ UNCHANGED <<idem, audit, blocks, origin>>
      /\ req[r] \in Request /\ RequestSound(req[r]) /\ b \in Bookings
      /\ bookings \in [Bookings -> BookingRow]
  BY DEF IInv, TypeOK, RequestsSound, RequestSound, ArgsSound, Cancel
<1>2. CASE Reply(r, "NOT_FOUND") /\ UNCHANGED bookings
  BY <1>1, <1>2, ReplyFrame DEF Codes
<1>3. CASE /\ Withdrawable(b, req[r].employee)
           /\ bookings' = [bookings EXCEPT ![b].state = "cancelled"]
           /\ Reply(r, "ok")
  <2>1. bookings' = [bookings EXCEPT ![b] = row]
    BY <1>1, <1>3
  <2>2. Withdrawn(b, row)
    BY <1>1, <1>3, WithdrawnRow DEF Withdrawable
  <2> HIDE DEF row
  <2>3. \A s \in Requests : ~Holds(s, b)
    BY <1>1, <2>2, HeldIsNotConfirmed DEF Withdrawn
  <2>4. PICK q \in Request : /\ req' = [req EXCEPT ![r] = q] /\ q.made = None
                             /\ RequestSound(q)' /\ ~Holding(q)
    BY <1>3, IdleSound DEF Reply, Answered, Codes
  <2>5. QED
    BY <1>1, <2>1, <2>2, <2>3, <2>4, UpdateFrame DEF Withdrawn
<1>4. QED
  BY <1>2, <1>3 DEF Cancel

LEMMA BeginRescheduleStep ==
    ASSUME IInv, NEW r \in Requests, NEW e \in Employees, NEW b \in Bookings,
           NEW c \in Consultants, NEW s \in Slots, NEW k \in Keys \cup {None},
           BeginReschedule(r, e, b, c, s, k)
    PROVE  IInv'
<1>1. now' \in Int /\ faults' \in Nat /\ UNCHANGED <<bookings, idem, audit, blocks, origin>>
  BY DEF IInv, TypeOK, BeginReschedule
<1>2. CASE Reply(r, "ok")
  BY <1>1, <1>2, ReplyFrame DEF Codes
<1>3. CASE ~Reply(r, "ok")
  <2>1. PICK m \in Bookings :
          /\ Fresh(m)
          /\ req' = [req EXCEPT ![r] =
                [Idle EXCEPT !.pc = "load", !.op = "reschedule", !.employee = e,
                             !.consultant = c, !.slot = s, !.key = k,
                             !.target = b, !.made = m, !.since = now]]
    BY <1>3 DEF BeginReschedule
  <2> DEFINE q == [Idle EXCEPT !.pc = "load", !.op = "reschedule", !.employee = e,
                               !.consultant = c, !.slot = s, !.key = k,
                               !.target = b, !.made = m, !.since = now]
  <2>2. q \in Request
    BY IdleIsRequest DEF IInv, TypeOK, Request, Points, Operations
  <2>3. /\ q.pc = "load" /\ q.op = "reschedule" /\ q.employee = e /\ q.consultant = c
        /\ q.slot = s /\ q.made = m /\ q.target = b
    BY DEF Idle
  <2>4. req' = [req EXCEPT ![r] = q]
    BY <2>1
  <2> HIDE DEF q
  <2>5. RequestSound(q) /\ ~Holding(q)
    BY <2>1, <2>3 DEF RequestSound, OpSound, ArgsSound, MadeSound, Drawn, Unrecorded,
         HeldSound, Holding, SnapshotSound, EntrySound, Fresh
  <2>6. QED
    BY <1>1, <2>1, <2>2, <2>3, <2>4, <2>5, MoveFrame DEF Fresh
<1>4. QED
  BY <1>2, <1>3

LEMMA LoadStep ==
    ASSUME IInv, NEW r \in Requests, Load(r)
    PROVE  IInv'
<1> DEFINE b == req[r].target
           seen == [awaiting |-> bookings[b].awaiting, assigned |-> bookings[b].assigned]
<1>1. /\ now' \in Int /\ faults' \in Nat /\ UNCHANGED <<bookings, idem, audit, blocks, origin>>
      /\ req[r] \in Request /\ RequestSound(req[r]) /\ req[r].pc = "load"
  BY DEF IInv, TypeOK, RequestsSound, Load
<1>2. CASE Reply(r, "NOT_FOUND") \/ Reply(r, "NOT_CANCELLABLE")
  BY <1>1, <1>2, ReplyFrame DEF Codes
<1>3. CASE /\ Withdrawable(b, req[r].employee)
           /\ req' = [req EXCEPT ![r].pc = "check", ![r].snapshot = seen]
  <2>1. b \in Bookings /\ bookings[b] \in BookingRow /\ RowSound(bookings[b])
    BY <1>1 DEF IInv, TypeOK, RowsSound, RequestSound, OpSound, ArgsSound
  <2>2. /\ seen \in Snapshot /\ bookings[b].state = "confirmed"
        /\ seen.awaiting <=> seen.assigned = None
        /\ seen.assigned \in {None, bookings[b].consultant}
    BY <1>3, <2>1 DEF BookingRow, Snapshot, Withdrawable, Confirmed, RowSound, Live
  <2> HIDE DEF seen
  <2>3. "check" \in Points
    BY DEF Points
  <2>4. PICK p \in Request : p = [req[r] EXCEPT !.pc = "check"]
    BY <1>1, <2>3, FieldSet
  <2>5. PICK q \in Request : q = [p EXCEPT !.snapshot = seen]
    BY <2>2, FieldSet
  <2>6. /\ req' = [req EXCEPT ![r] = q]
        /\ q.made = req[r].made /\ q.target = req[r].target
    BY <1>1, <1>3, <2>4, <2>5 DEF IInv, TypeOK, Request
  <2>7. RequestSound(q) /\ ~Holding(q)
    BY <1>1, <2>2, <2>4, <2>5 DEF RequestSound, OpSound, ArgsSound, MadeSound, Drawn, Unrecorded,
         HeldSound, Holding, SnapshotSound, EntrySound, Request
  <2>8. QED
    BY <1>1, <2>6, <2>7, MoveFrame
<1>4. QED
  BY <1>2, <1>3 DEF Load

LEMMA ReleaseStep ==
    ASSUME IInv, NEW r \in Requests, Release(r)
    PROVE  IInv'
<1> DEFINE b == req[r].target
           row == [bookings[b] EXCEPT !.state = "cancelled"]
<1>1. /\ now' \in Int /\ faults' \in Nat /\ UNCHANGED <<idem, audit, blocks, origin>>
      /\ req[r] \in Request /\ RequestSound(req[r]) /\ b \in Bookings
      /\ bookings \in [Bookings -> BookingRow]
      /\ req[r].pc = "cancel" /\ req[r].op = "reschedule"
  BY DEF IInv, TypeOK, RequestsSound, RequestSound, ArgsSound, Release
<1>2. CASE Reply(r, "SLOT_TAKEN") /\ UNCHANGED bookings
  BY <1>1, <1>2, ReplyFrame DEF Codes
<1>3. CASE /\ Withdrawable(b, req[r].employee)
           /\ bookings' = [bookings EXCEPT ![b].state = "cancelled"]
           /\ Goto(r, "insert")
  <2>1. bookings' = [bookings EXCEPT ![b] = row]
    BY <1>1, <1>3
  <2>2. Withdrawn(b, row) /\ bookings[b].employee = req[r].employee
    BY <1>1, <1>3, WithdrawnRow DEF Withdrawable
  <2> HIDE DEF row
  <2>3. \A s \in Requests : ~Holds(s, b)
    BY <1>1, <2>2, HeldIsNotConfirmed DEF Withdrawn
  <2>4. "insert" \in Points
    BY DEF Points
  <2>5. PICK q \in Request : q = [req[r] EXCEPT !.pc = "insert"]
    BY <1>1, <2>4, FieldSet
  <2>6. /\ req' = [req EXCEPT ![r] = q] /\ q.made = req[r].made /\ q.target = b
    BY <1>1, <1>3, <2>5 DEF Goto, Request
  <2>7. RequestSound(q)'
    <3>1. (OpSound(q) /\ ArgsSound(q) /\ EntrySound(q))'
      BY <1>1, <2>5 DEF RequestSound, OpSound, ArgsSound, EntrySound, Request
    <3>2. MadeSound(q)'
      BY <1>1, <2>1, <2>2, <2>5 DEF RequestSound, OpSound, ArgsSound, MadeSound, Drawn, Unrecorded,
           Request, Withdrawn, Confirmed
    <3>3. (HeldSound(q) /\ SnapshotSound(q))'
      BY <1>1, <2>1, <2>2, <2>5 DEF RequestSound, HeldSound, Holding, SnapshotSound, Exists,
           Request, Withdrawn, Live
    <3>4. QED
      BY <3>1, <3>2, <3>3 DEF RequestSound
  <2>8. QED
    BY <1>1, <2>1, <2>2, <2>3, <2>6, <2>7, UpdateFrame DEF Withdrawn
<1>4. QED
  BY <1>2, <1>3 DEF Release

\* What the catch block makes of the row it may restore.
LEMMA RestoredRow ==
    ASSUME IInv, NEW r \in Requests, req[r].pc = "restore", Restorable(req[r])
    PROVE  LET b == req[r].target
               row == Restored(req[r])
           IN  /\ b \in Bookings /\ Live(bookings[b]) /\ bookings[b].closure = None
               /\ row \in BookingRow /\ RowSound(row) /\ Live(row)
               /\ row.employee = bookings[b].employee
               /\ row.consultant = bookings[b].consultant
               /\ row.slot = bookings[b].slot
<1> DEFINE b == req[r].target
           q == req[r]
<1>1. /\ q \in Request /\ b \in Bookings /\ bookings[b] \in BookingRow
      /\ RowSound(bookings[b]) /\ bookings[b].state = "cancelled" /\ bookings[b].closure = None
      /\ q.snapshot \in Snapshot
      /\ q.snapshot.awaiting <=> q.snapshot.assigned = None
      /\ q.snapshot.assigned \in {None, bookings[b].consultant}
  BY DEF IInv, TypeOK, RowsSound, RequestsSound, RequestSound, OpSound, ArgsSound, HeldSound,
         Holding, SnapshotSound, Restorable, Request, Exists
<1>2. Restored(q) \in BookingRow
  BY <1>1 DEF Restored, BookingRow, Snapshot, States
<1>3. RowSound(Restored(q)) /\ Live(Restored(q)) /\ Live(bookings[b])
  BY <1>1 DEF Restored, BookingRow, Snapshot, RowSound, Live
<1>4. /\ Restored(q).employee = bookings[b].employee
      /\ Restored(q).consultant = bookings[b].consultant
      /\ Restored(q).slot = bookings[b].slot
  BY <1>1 DEF Restored, BookingRow
<1>5. QED
  BY <1>1, <1>2, <1>3, <1>4

LEMMA RestoreStep ==
    ASSUME IInv, NEW r \in Requests, Restore(r)
    PROVE  IInv'
<1> DEFINE b == req[r].target
           row == Restored(req[r])
<1>1. /\ now' \in Int /\ faults' \in Nat /\ UNCHANGED <<idem, audit, blocks, origin>>
      /\ req[r] \in Request /\ RequestSound(req[r]) /\ req[r].pc = "restore"
      /\ req[r].reply \in Codes /\ "error" \in Codes
  BY DEF IInv, TypeOK, RequestsSound, Restore, Request, Codes
<1>2. CASE UNCHANGED bookings /\ (Reply(r, "error") \/ Reply(r, req[r].reply))
  BY <1>1, <1>2, ReplyFrame
<1>3. CASE /\ Restorable(req[r]) /\ ~Indexed(b, row)
           /\ bookings' = [bookings EXCEPT ![b] = row]
           /\ Reply(r, req[r].reply)
  <2>1. /\ b \in Bookings /\ Live(bookings[b]) /\ bookings[b].closure = None
        /\ row \in BookingRow /\ RowSound(row) /\ Live(row)
        /\ row.employee = bookings[b].employee
        /\ row.consultant = bookings[b].consultant
        /\ row.slot = bookings[b].slot
    BY <1>1, <1>3, RestoredRow
  <2> HIDE DEF row
  <2>2. Holds(r, b)
    BY <1>1 DEF RequestSound, OpSound, Holds
  <2>3. \A s \in Requests \ {r} : ~Holds(s, b)
    BY <2>2 DEF IInv, Exclusive, Holding, Holds
  <2>4. PICK q \in Request : /\ req' = [req EXCEPT ![r] = q] /\ q.made = None
                             /\ RequestSound(q)' /\ ~Holding(q)
    BY <1>1, <1>3, IdleSound DEF Reply, Answered
  <2>5. QED
    BY <1>1, <1>3, <2>1, <2>3, <2>4, UpdateFrame
<1>4. QED
  BY <1>2, <1>3 DEF Restore

LEMMA BeginAssignStep ==
    ASSUME IInv, NEW r \in Requests, NEW c \in Consultants, NEW b \in Bookings,
           BeginAssign(r, c, b)
    PROVE  IInv'
<1>1. now' \in Int /\ faults' \in Nat /\ UNCHANGED <<bookings, idem, audit, blocks, origin>>
  BY DEF IInv, TypeOK, BeginAssign
<1>2. CASE Reply(r, "OUT_OF_SCOPE") \/ Reply(r, "NOT_ASSIGNABLE")
  BY <1>1, <1>2, ReplyFrame DEF Codes
<1>3. CASE ~(Reply(r, "OUT_OF_SCOPE") \/ Reply(r, "NOT_ASSIGNABLE"))
  <2> DEFINE q == [Idle EXCEPT !.pc = "claim", !.op = "assign", !.consultant = c,
                               !.target = b, !.since = now]
  <2>1. req' = [req EXCEPT ![r] = q]
    BY <1>3 DEF BeginAssign
  <2>2. q \in Request
    BY IdleIsRequest DEF IInv, TypeOK, Request, Points, Operations
  <2>3. q.pc = "claim" /\ q.op = "assign" /\ q.consultant = c /\ q.target = b /\ q.made = None
    BY DEF Idle
  <2> HIDE DEF q
  <2>4. RequestSound(q) /\ ~Holding(q)
    BY <2>3 DEF RequestSound, OpSound, ArgsSound, MadeSound, Drawn, Unrecorded,
         HeldSound, Holding, SnapshotSound, EntrySound
  <2>5. QED
    BY <1>1, <2>1, <2>2, <2>3, <2>4, MoveFrame
<1>4. QED
  BY <1>2, <1>3

LEMMA ClaimStep ==
    ASSUME IInv, NEW r \in Requests, Claim(r)
    PROVE  IInv'
<1>0. PICK b \in Bookings, c \in Consultants : b = req[r].target /\ c = req[r].consultant
  BY DEF IInv, RequestsSound, RequestSound, OpSound, ArgsSound, Claim
<1>e. PICK entry \in AuditRow : entry = [booking |-> b, actor |-> c,
                                        action |-> "booking_assigned", outcome |-> None]
  BY DEF AuditRow
<1> DEFINE half == [bookings[b] EXCEPT !.awaiting = FALSE]
           row == [half EXCEPT !.assigned = c]
<1>1. /\ now' \in Int /\ faults' \in Nat /\ UNCHANGED <<idem, audit, blocks, origin>>
      /\ req[r] \in Request /\ RequestSound(req[r]) /\ req[r].pc = "claim"
      /\ bookings \in [Bookings -> BookingRow] /\ RowSound(bookings[b])
  BY DEF IInv, TypeOK, RowsSound, RequestsSound, Claim
<1>2. CASE Reply(r, "ALREADY_CLAIMED") /\ UNCHANGED bookings
  BY <1>1, <1>2, ReplyFrame DEF Codes
<1>3. CASE /\ Claimable(b, c)
           /\ bookings' = [bookings EXCEPT ![b].awaiting = FALSE, ![b].assigned = c]
           /\ req' = [req EXCEPT ![r].pc = "audit", ![r].entry = entry]
  <2>1. bookings[b] \in BookingRow /\ half \in BookingRow /\ row \in BookingRow
    BY <1>1, RowFieldSet
  <2>2. bookings' = [bookings EXCEPT ![b] = row]
    BY <1>1, <1>3
  <2>3. /\ bookings[b].state = "confirmed" /\ row.state = "confirmed"
        /\ row.employee = bookings[b].employee
        /\ row.consultant = bookings[b].consultant /\ row.consultant = c
        /\ row.slot = bookings[b].slot
        /\ row.closure = bookings[b].closure
        /\ row.awaiting = FALSE /\ row.assigned = c
    BY <1>1, <1>3 DEF Claimable, Confirmed, BookingRow
  <2> HIDE DEF half, row
  <2>4. /\ RowSound(row) /\ Live(row) /\ Live(bookings[b]) /\ bookings[b].closure = None
        /\ Confirmed(b)
    BY <1>1, <2>3, ConstantsAssumption DEF RowSound, Live, Outcomes, Confirmed
  <2>5. \A s \in Requests : ~Holds(s, b)
    BY <1>1, <2>4, HeldIsNotConfirmed
  <2>6. AuditTrue(entry)'
    BY <1>1, <1>e, <2>2, <2>3 DEF AuditTrue
  <2>8. "audit" \in Points
    BY DEF Points
  <2>9. PICK p \in Request : p = [req[r] EXCEPT !.pc = "audit"]
    BY <1>1, <2>8, FieldSet
  <2>10. PICK q \in Request : q = [p EXCEPT !.entry = entry]
    BY FieldSet
  <2>11. /\ req' = [req EXCEPT ![r] = q]
         /\ q.made = req[r].made /\ q.pc = "audit" /\ q.op = req[r].op /\ q.entry = entry
         /\ q.consultant = c /\ q.target = b
    BY <1>0, <1>1, <1>3, <1>e, <2>9, <2>10 DEF IInv, TypeOK, Request
  <2>12. req[r].op = "assign"
    BY <1>1 DEF RequestSound, OpSound
  <2>13. RequestSound(q)' /\ ~Holding(q)
    BY <1>1, <2>6, <2>11, <2>12 DEF RequestSound, OpSound, ArgsSound, MadeSound, Drawn, Unrecorded,
         HeldSound, Holding, SnapshotSound, EntrySound
  <2>14. QED
    BY <1>1, <2>1, <2>2, <2>3, <2>4, <2>5, <2>11, <2>13, UpdateFrame
<1>4. QED
  BY <1>0, <1>2, <1>3, <1>e DEF Claim

LEMMA CloseStep ==
    ASSUME IInv, NEW r \in Requests, NEW c \in Consultants, NEW b \in Bookings,
           NEW outcome \in Outcomes, NEW reason \in Reasons,
           Close(r, c, b, outcome, reason)
    PROVE  IInv'
<1> DEFINE half == [bookings[b] EXCEPT !.state = outcome]
           row == [half EXCEPT !.closure = reason]
           entry == [booking |-> b, actor |-> c,
                     action |-> "booking_closed", outcome |-> outcome]
           q == [Idle EXCEPT !.pc = "audit", !.op = "close", !.consultant = c,
                             !.target = b, !.since = now, !.entry = entry]
<1>1. /\ now' \in Int /\ faults' \in Nat /\ UNCHANGED <<idem, audit, blocks, origin>>
      /\ bookings \in [Bookings -> BookingRow] /\ RowSound(bookings[b])
      /\ now \in Int
  BY DEF IInv, TypeOK, RowsSound, Close
<1>2. CASE /\ UNCHANGED bookings
           /\ \/ Reply(r, "INVALID_REASON") \/ Reply(r, "OUT_OF_SCOPE")
              \/ Reply(r, "NOT_CLOSABLE")
  BY <1>1, <1>2, ReplyFrame DEF Codes
<1>3. CASE /\ Closable(b, c) /\ ReasonMatches(outcome, reason)
           /\ bookings' = [bookings EXCEPT ![b] = Closed(@, outcome, reason)]
           /\ req' = [req EXCEPT ![r] = q]
  <2>1. bookings[b] \in BookingRow /\ half \in BookingRow /\ row \in BookingRow
    BY <1>1 DEF BookingRow, States
  <2>2. bookings' = [bookings EXCEPT ![b] = row]
    BY <1>1, <1>3, <2>1 DEF Closed, BookingRow
  <2>3. /\ bookings[b].state = "confirmed" /\ row.state = outcome
        /\ row.employee = bookings[b].employee
        /\ row.consultant = bookings[b].consultant
        /\ row.slot = bookings[b].slot
        /\ row.closure = reason
        /\ row.awaiting = FALSE /\ row.assigned = c /\ bookings[b].assigned = c
        /\ row.awaiting = bookings[b].awaiting
    BY <1>1, <1>3, <2>1 DEF Closable, Confirmed, BookingRow
  <2> HIDE DEF half, row
  <2>4. /\ RowSound(row) /\ Live(row) /\ Live(bookings[b]) /\ bookings[b].closure = None
        /\ Confirmed(b) /\ row.consultant = c /\ row.state # "confirmed"
    BY <1>1, <1>3, <2>3, ConstantsAssumption DEF RowSound, Live, Outcomes, Confirmed
  <2>5. \A s \in Requests : ~Holds(s, b)
    BY <1>1, <2>4, HeldIsNotConfirmed
  <2>6. entry \in AuditRow
    BY DEF AuditRow
  <2>7. AuditTrue(entry)'
    BY <1>1, <2>2, <2>3, <2>4, ConstantsAssumption DEF AuditTrue, Outcomes
  <2> HIDE DEF entry
  <2>8. q \in Request
    BY <1>1, <2>6, IdleIsRequest DEF Request, Points, Operations
  <2>9. /\ q.pc = "audit" /\ q.op = "close" /\ q.consultant = c /\ q.target = b
        /\ q.made = None /\ q.entry = entry
    BY DEF Idle
  <2>10. PICK p \in Request :
           /\ req' = [req EXCEPT ![r] = p]
           /\ p.pc = "audit" /\ p.op = "close" /\ p.consultant = c /\ p.target = b
           /\ p.made = None /\ p.entry = entry
    BY <1>3, <2>8, <2>9
  <2> HIDE DEF q
  <2>11. RequestSound(p)' /\ ~Holding(p)
    BY <2>6, <2>7, <2>10 DEF RequestSound, OpSound, ArgsSound, MadeSound, Drawn, Unrecorded,
         HeldSound, Holding, SnapshotSound, EntrySound
  <2>12. QED
    BY <1>1, <2>1, <2>2, <2>3, <2>4, <2>5, <2>10, <2>11, UpdateFrame
<1>4. QED
  BY <1>2, <1>3 DEF Close

LEMMA WriteAuditStep ==
    ASSUME IInv, NEW r \in Requests, WriteAudit(r)
    PROVE  IInv'
<1>1. /\ now' \in Int /\ faults' \in Nat /\ UNCHANGED <<bookings, idem, blocks, origin>>
      /\ audit' = audit \cup {req[r].entry}
      /\ req[r].entry \in AuditRow /\ AuditTrue(req[r].entry)
  BY DEF IInv, TypeOK, RequestsSound, RequestSound, EntrySound, WriteAudit
<1>2. PICK q \in Request : /\ req' = [req EXCEPT ![r] = q] /\ q.made = None
                           /\ RequestSound(q)' /\ ~Holding(q)
  BY IdleSound DEF WriteAudit, Reply, Answered, Codes
<1>3. TypeOK'
  BY <1>1, <1>2 DEF IInv, TypeOK
<1>4. (RowsSound /\ SlotUnique /\ KeyLeadsHome)'
  BY <1>1 DEF IInv, RowsSound, SlotUnique, KeyLeadsHome, Exists, Confirmed
<1>5. AuditSound'
  BY <1>1 DEF IInv, AuditSound, AuditTrue, Live
<1>6. \A s \in Requests \ {r} : RequestSound(req[s])'
  BY <1>1, <1>2
     DEF IInv, TypeOK, RequestsSound, RequestSound, OpSound, ArgsSound, MadeSound, HeldSound,
         SnapshotSound, EntrySound, AuditTrue, Exists, Live, Drawn, Unrecorded, Holding, CallOf
<1>7. RequestsSound'
  BY <1>2, <1>6 DEF IInv, TypeOK, RequestsSound
<1>8. Exclusive'
  BY <1>2 DEF IInv, TypeOK, Exclusive, Holding
<1>9. QED
  BY <1>3, <1>4, <1>5, <1>7, <1>8 DEF IInv

\* Where an operation that rejects leaves its request.
Raised(r, q) ==
    /\ req' = [req EXCEPT ![r] = q]
    /\ \/ q.pc = "idle" /\ q.op = "none" /\ q.made = None
       \/ /\ q.pc = "restore"
          /\ q.op = "reschedule" /\ req[r].op = "reschedule"
          /\ req[r].pc \in {"insert", "record"}
          /\ q.employee = req[r].employee /\ q.consultant = req[r].consultant
          /\ q.slot = req[r].slot /\ q.target = req[r].target /\ q.made = req[r].made
          /\ q.snapshot = req[r].snapshot

LEMMA RaisedRequest ==
    ASSUME IInv, NEW r \in Requests, Raise(r)
    PROVE  \E q \in Request : Raised(r, q)
<1>1. req[r] \in Request /\ "restore" \in Points /\ "error" \in Codes
  BY DEF IInv, TypeOK, Points, Codes
<1>2. CASE Reply(r, "error")
  BY <1>1, <1>2, IdleSound DEF Reply, Answered, Raised
<1>3. CASE /\ req[r].op = "reschedule" /\ req[r].pc \in {"insert", "record"}
           /\ req' = [req EXCEPT ![r].pc = "restore", ![r].reply = "error"]
  <2>1. PICK p \in Request : p = [req[r] EXCEPT !.pc = "restore"]
    BY <1>1, FieldSet
  <2>2. PICK q \in Request : q = [p EXCEPT !.reply = "error"]
    BY <1>1, FieldSet
  <2>3. Raised(r, q)
    BY <1>1, <1>3, <2>1, <2>2 DEF IInv, TypeOK, Request, Raised
  <2>4. QED
    BY <2>3
<1>4. QED
  BY <1>2, <1>3 DEF Raise

\* A raised request is sound if the step leaves the old row of its reschedule
\* alone.
LEMMA RaisedSound ==
    ASSUME IInv, NEW r \in Requests, NEW q \in Request, Raised(r, q),
           q.target \in Bookings => bookings'[q.target] = bookings[q.target]
    PROVE  /\ RequestSound(q)'
           /\ Holding(q) => Holding(req[r]) /\ q.target = req[r].target
           /\ q.made \in {None, req[r].made}
<1>1. CASE q.pc = "idle" /\ q.op = "none" /\ q.made = None
  BY <1>1 DEF RequestSound, OpSound, ArgsSound, MadeSound, Drawn, Unrecorded,
       HeldSound, Holding, SnapshotSound, EntrySound
<1>2. CASE /\ q.pc = "restore"
           /\ q.op = "reschedule" /\ req[r].op = "reschedule"
           /\ req[r].pc \in {"insert", "record"}
           /\ q.employee = req[r].employee /\ q.consultant = req[r].consultant
           /\ q.slot = req[r].slot /\ q.target = req[r].target /\ q.made = req[r].made
           /\ q.snapshot = req[r].snapshot
  <2>1. RequestSound(req[r]) /\ req[r].target \in Bookings
    BY <1>2 DEF IInv, RequestsSound, RequestSound, ArgsSound
  <2>2. (OpSound(q) /\ ArgsSound(q) /\ MadeSound(q) /\ EntrySound(q))'
    BY <1>2, <2>1 DEF RequestSound, OpSound, ArgsSound, MadeSound, Drawn, Unrecorded, EntrySound
  <2>3. (HeldSound(q) /\ SnapshotSound(q))'
    BY <1>2, <2>1 DEF RequestSound, HeldSound, Holding, SnapshotSound, Exists
  <2>4. QED
    BY <1>2, <2>2, <2>3 DEF RequestSound, Holding
<1>3. QED
  BY <1>1, <1>2 DEF Raised

LEMMA StorageErrorStep ==
    ASSUME IInv, NEW r \in Requests, StorageError(r)
    PROVE  IInv'
<1>1. now' \in Int /\ faults' \in Nat /\ UNCHANGED <<bookings, idem, audit, blocks, origin>>
  BY DEF IInv, TypeOK, StorageError, Fault
<1>2. PICK q \in Request : Raised(r, q)
  BY RaisedRequest DEF StorageError
<1>3. /\ RequestSound(q)'
      /\ Holding(q) => Holding(req[r]) /\ q.target = req[r].target
      /\ q.made \in {None, req[r].made}
  BY <1>1, <1>2, RaisedSound
<1>4. RequestSound(q)
  BY <1>1, <1>3 DEF RequestSound, OpSound, ArgsSound, MadeSound, HeldSound, SnapshotSound,
       EntrySound, AuditTrue, Exists, Live, Drawn, Unrecorded, Holding, CallOf
<1>5. QED
  BY <1>1, <1>2, <1>3, <1>4, MoveFrame DEF Raised

LEMMA LostAcknowledgementStep ==
    ASSUME IInv, NEW r \in Requests, LostAcknowledgement(r)
    PROVE  IInv'
<1>1. now' \in Int /\ faults' \in Nat /\ UNCHANGED <<audit, blocks>>
  BY DEF IInv, TypeOK, LostAcknowledgement, Fault
<1>2. PICK q \in Request : Raised(r, q)
  BY RaisedRequest DEF LostAcknowledgement
<1>3. CASE Store(r) /\ UNCHANGED idem
  <2>1. req[r].made \in Bookings /\ ~Exists(req[r].made) /\ req[r].pc = "insert"
    BY <1>3 DEF IInv, RequestsSound, RequestSound, OpSound, ArgsSound, MadeSound, Drawn, Exists,
         Store
  <2>2. q.pc = "restore" => q.target \in Bookings /\ q.target # req[r].made
    BY <1>2, <2>1 DEF IInv, RequestsSound, RequestSound, ArgsSound, SnapshotSound, MadeSound, Drawn,
         Raised
  <2>3. CASE q.pc = "restore"
    <3>1. bookings'[q.target] = bookings[q.target]
      BY <1>3, <2>2, <2>3 DEF Store, IInv, TypeOK
    <3>2. QED
      BY <1>1, <1>2, <1>3, <3>1, RaisedSound, StoreFrame DEF Raised
  <2>4. CASE q.pc = "idle"
    <3>1. RequestSound(q)' /\ ~Holding(q) /\ q.made = None
      BY <1>2, <2>4 DEF Raised, RequestSound, OpSound, ArgsSound, MadeSound, Drawn, Unrecorded,
           HeldSound, Holding, SnapshotSound, EntrySound
    <3>2. QED
      BY <1>1, <1>2, <1>3, <3>1, StoreFrame DEF Raised
  <2>5. QED
    BY <1>2, <2>3, <2>4 DEF Raised
<1>4. CASE StoreKey(r) /\ UNCHANGED <<bookings, origin>>
  BY <1>1, <1>2, <1>4, RaisedSound, StoreKeyFrame DEF Raised
<1>5. QED
  BY <1>3, <1>4 DEF LostAcknowledgement

LEMMA CrashStep ==
    ASSUME IInv, NEW r \in Requests, Crash(r)
    PROVE  IInv'
BY ReplyFrame DEF Crash, Fault, Codes, IInv, TypeOK

LEMMA ExpireStep ==
    ASSUME IInv, Expire
    PROVE  IInv'
<1>1. PICK rec \in idem : idem' = idem \ {rec}
  BY DEF Expire
<1>2. UNCHANGED <<bookings, audit, req, blocks, origin>> /\ now' \in Int /\ faults' \in Nat
  BY DEF Expire, Fault, IInv, TypeOK
<1>3. (TypeOK /\ KeyLeadsHome)'
  BY <1>1, <1>2 DEF IInv, TypeOK, KeyLeadsHome, Exists
<1>4. (RowsSound /\ SlotUnique /\ AuditSound /\ Exclusive)'
  BY <1>2 DEF IInv, RowsSound, SlotUnique, AuditSound, AuditTrue, Exists, Confirmed, Live,
         Exclusive, Holding
<1>5. RequestsSound'
  BY <1>1, <1>2
     DEF IInv, RequestsSound, RequestSound, OpSound, ArgsSound, MadeSound, HeldSound,
         SnapshotSound, EntrySound, AuditTrue, Exists, Live, Drawn, Unrecorded, Holding, CallOf
<1>6. QED
  BY <1>3, <1>4, <1>5 DEF IInv

\* The state of the system, without its clock and its fault counter.
LEMMA ClockFrame ==
    ASSUME IInv, UNCHANGED <<bookings, idem, audit, blocks, req, origin>>,
           now' \in Int, faults' \in Nat
    PROVE  IInv'
<1>1. TypeOK'
  BY DEF IInv, TypeOK
<1>2. (RowsSound /\ SlotUnique /\ KeyLeadsHome /\ AuditSound /\ Exclusive)'
  BY DEF IInv, RowsSound, SlotUnique, KeyLeadsHome, AuditSound, AuditTrue, Exists, Confirmed,
         Live, Exclusive, Holding
<1>3. RequestsSound'
  BY DEF IInv, RequestsSound, RequestSound, OpSound, ArgsSound, MadeSound, HeldSound,
         SnapshotSound, EntrySound, AuditTrue, Exists, Live, Drawn, Unrecorded, Holding, CallOf
<1>4. QED
  BY <1>1, <1>2, <1>3 DEF IInv

-----------------------------------------------------------------------------
(* The invariant *)

\* The collections are empty and nothing is in flight.
LEMMA InitIInv == Init => IInv
<1> SUFFICES ASSUME Init PROVE IInv
  OBVIOUS
<1>1. \A b \in Bookings : bookings[b] = AbsentRow /\ AbsentRow.state = "absent"
  BY DEF Init, AbsentRow
<1>2. \A r \in Requests : req[r] = Idle /\ Idle.pc = "idle" /\ Idle.op = "none" /\ Idle.made = None
  BY DEF Init, Idle
<1>3. TypeOK
  BY IdleIsRequest, ConstantsAssumption
     DEF Init, TypeOK, AbsentRow, BookingRow, States, Block, IdemRow, AuditRow
<1>4. RowsSound /\ SlotUnique
  BY <1>1, <1>2 DEF AbsentRow, RowsSound, RowSound, Live, Exists, SlotUnique, Confirmed
<1>5. KeyLeadsHome /\ AuditSound
  BY DEF Init, KeyLeadsHome, AuditSound
<1>6. RequestsSound
  BY <1>2 DEF RequestsSound, RequestSound, OpSound, ArgsSound, MadeSound, Drawn, Unrecorded,
       HeldSound, Holding, SnapshotSound, EntrySound
<1>7. Exclusive
  BY <1>2 DEF Exclusive, Holding
<1>8. QED
  BY <1>3, <1>4, <1>5, <1>6, <1>7 DEF IInv

LEMMA StepIInv == IInv /\ [Next]_vars => IInv'
<1> SUFFICES ASSUME IInv, [Next]_vars PROVE IInv'
  OBVIOUS
<1>1. ASSUME NEW r \in Requests, Arrive(r)
      PROVE  IInv'
  <2>1. ASSUME NEW c \in Consultants, NEW b \in Bookings, NEW call \in ClosureCalls,
               Close(r, c, b, call[1], call[2])
        PROVE  IInv'
    BY <2>1, CloseStep, ConstantsAssumption
  <2>2. QED
    BY <1>1, <2>1, BeginCreateStep, BeginRescheduleStep, BeginCancelStep, BeginAssignStep DEF Arrive
<1>2. ASSUME NEW r \in Requests, Advance(r)
      PROVE  IInv'
  BY <1>2, LoadStep, CheckStep, CancelStep, ReleaseStep, InsertStep, InsertDuplicateStep,
     RecordStep, RecordDuplicateStep, ResolveStep, UndoStep, RecoverStep, RestoreStep,
     ClaimStep, WriteAuditStep DEF Advance
<1>3. ASSUME NEW r \in Requests, Break(r)
      PROVE  IInv'
  BY <1>3, StorageErrorStep, LostAcknowledgementStep, CrashStep DEF Break
<1>4. CASE Tick
  BY <1>4, ClockFrame DEF Tick, IInv, TypeOK
<1>5. CASE UNCHANGED vars
  BY <1>5, ClockFrame DEF vars, IInv, TypeOK
<1>6. QED
  BY <1>1, <1>2, <1>3, <1>4, <1>5, ExpireStep DEF Next

\* Every reachable state satisfies the inductive invariant.
THEOREM Invariant == Spec => []IInv
BY InitIInv, StepIInv, PTL DEF Spec

-----------------------------------------------------------------------------
(* The safety properties *)

\* Every variable keeps its type.
THEOREM TypeCorrect == Spec => []TypeOK
<1>1. IInv => TypeOK
  BY DEF IInv
<1>2. QED
  BY <1>1, Invariant, PTL

\* However create, reschedule and restore interleave, fail or crash, a
\* consultant has at most one confirmed session starting at a given time.
THEOREM SlotsAreUnique == Spec => []SlotUnique
<1>1. IInv => SlotUnique
  BY DEF IInv
<1>2. QED
  BY <1>1, Invariant, PTL

\* An idempotency record always leads to the booking of the call it stands for.
THEOREM KeysLeadHome == Spec => []KeyLeadsHome
<1>1. IInv => KeyLeadsHome
  BY DEF IInv
<1>2. QED
  BY <1>1, Invariant, PTL

\* Nobody touches the old session of a reschedule between its cancellation and
\* its restore.
THEOREM HeldSessionsAreCancelled == Spec => []HeldIsCancelled
<1>1. IInv => HeldIsCancelled
  <2> SUFFICES ASSUME IInv, NEW r \in Requests, NEW b \in Bookings, Holds(r, b)
               PROVE  /\ bookings[b].state \in {"cancelled", "deleted"}
                      /\ bookings[b].closure = None
                      /\ \A q \in Requests : Holds(q, b) => q = r
    BY DEF HeldIsCancelled
  <2>1. RequestSound(req[r]) /\ Holding(req[r]) /\ req[r].target = b
    BY DEF IInv, RequestsSound, Holds, Holding
  <2>2. \A q \in Requests : Holds(q, b) => q = r
    BY <2>1 DEF IInv, Exclusive, Holds, Holding
  <2>3. QED
    BY <2>1, <2>2 DEF RequestSound, HeldSound
<1>2. QED
  BY <1>1, Invariant, PTL

\* A session is in the unassigned queue or assigned to its own consultant, never
\* both, also after a restore of what a reschedule had read.
THEOREM ClaimsAreConsistent == Spec => []ClaimConsistent
<1>1. IInv => ClaimConsistent
  BY DEF IInv, RowsSound, RowSound, ClaimConsistent, Exists, Live
<1>2. QED
  BY <1>1, Invariant, PTL

\* A closure reason is there exactly for sessions a consultant closed.
THEOREM ClosuresAreConsistent == Spec => []ClosureConsistent
<1>1. IInv => ClosureConsistent
  BY DEF IInv, RowsSound, RowSound, ClosureConsistent
<1>2. QED
  BY <1>1, Invariant, PTL

\* The audit trail never contradicts the bookings.
THEOREM AuditIsTrue == Spec => []AuditConsistent
<1>1. IInv => AuditConsistent
  BY DEF IInv, AuditSound, AuditTrue, AuditConsistent, Live
<1>2. QED
  BY <1>1, Invariant, PTL

-----------------------------------------------------------------------------
(* What a step may never do *)

\* The step leaves row b alone and lets no request get hold of it.
Kept(b) ==
    /\ bookings'[b] = bookings[b]
    /\ \A r \in Requests : Holds(r, b)' => Holds(r, b)

\* A step that changes no row and moves one request, which gets hold of nothing.
LEMMA KeptByMove ==
    ASSUME IInv, NEW r \in Requests, NEW q \in Request, NEW b \in Bookings,
           bookings'[b] = bookings[b],
           req' = [req EXCEPT ![r] = q],
           Holding(q) /\ q.target = b => Holds(r, b)
    PROVE  Kept(b)
BY DEF Kept, IInv, TypeOK, Holding, Holds

LEMMA KeptByReply ==
    ASSUME IInv, NEW r \in Requests, NEW code \in Codes, NEW b \in Bookings,
           bookings'[b] = bookings[b], Reply(r, code)
    PROVE  Kept(b)
BY KeptByMove, IdleSound DEF Reply, Answered

\* Where a request is once it has arrived: it holds no session yet.
Arrivals == {"idle", "load", "check", "cancel", "claim", "audit"}

LEMMA ArriveMoves ==
    ASSUME IInv, NEW r \in Requests, Arrive(r)
    PROVE  \E q : req' = [req EXCEPT ![r] = q] /\ q.pc \in Arrivals
<1> DEFINE Moved == \E q : req' = [req EXCEPT ![r] = q] /\ q.pc \in Arrivals
<1>w. ASSUME NEW q, req' = [req EXCEPT ![r] = q], q.pc \in Arrivals
      PROVE  Moved
  BY <1>w
<1>0. ASSUME NEW code, Reply(r, code)
      PROVE  Moved
  <2>1. [Idle EXCEPT !.reply = code].pc = "idle"
    BY DEF Idle
  <2>2. QED
    BY <1>0, <2>1 DEF Reply, Arrivals
<1>1. ASSUME NEW e \in Employees, NEW c \in Consultants, NEW s \in Slots, NEW k \in Keys \cup {None},
             BeginCreate(r, e, c, s, k)
      PROVE  Moved
  <2>1. ASSUME NEW m, req' = [req EXCEPT ![r] =
                    [Idle EXCEPT !.pc = "check", !.op = "create", !.employee = e,
                                 !.consultant = c, !.slot = s, !.key = k,
                                 !.made = m, !.since = now]]
        PROVE  Moved
    <3> DEFINE q == [Idle EXCEPT !.pc = "check", !.op = "create", !.employee = e,
                                 !.consultant = c, !.slot = s, !.key = k,
                                 !.made = m, !.since = now]
    <3>1. q.pc = "check"
      BY DEF Idle
    <3>2. QED
      BY <2>1, <3>1, <1>w DEF Arrivals
  <2>2. QED
    BY <1>0, <1>1, <2>1 DEF BeginCreate
<1>2. ASSUME NEW e \in Employees, NEW c \in Consultants, NEW s \in Slots, NEW k \in Keys \cup {None},
             NEW x \in Bookings, BeginReschedule(r, e, x, c, s, k)
      PROVE  Moved
  <2>1. ASSUME NEW m, req' = [req EXCEPT ![r] =
                    [Idle EXCEPT !.pc = "load", !.op = "reschedule", !.employee = e,
                                 !.consultant = c, !.slot = s, !.key = k,
                                 !.target = x, !.made = m, !.since = now]]
        PROVE  Moved
    <3> DEFINE q == [Idle EXCEPT !.pc = "load", !.op = "reschedule", !.employee = e,
                                 !.consultant = c, !.slot = s, !.key = k,
                                 !.target = x, !.made = m, !.since = now]
    <3>1. q.pc = "load"
      BY DEF Idle
    <3>2. QED
      BY <2>1, <3>1, <1>w DEF Arrivals
  <2>2. QED
    BY <1>0, <1>2, <2>1 DEF BeginReschedule
<1>3. ASSUME NEW e \in Employees, NEW x \in Bookings, BeginCancel(r, e, x)
      PROVE  Moved
  <2>1. CASE req' = [req EXCEPT ![r] =
                 [Idle EXCEPT !.pc = "cancel", !.op = "cancel", !.employee = e,
                              !.target = x, !.since = now]]
    <3> DEFINE q == [Idle EXCEPT !.pc = "cancel", !.op = "cancel", !.employee = e,
                              !.target = x, !.since = now]
    <3>1. q.pc = "cancel"
      BY DEF Idle
    <3>2. QED
      BY <1>3, <2>1, <3>1, <1>w DEF BeginCancel, Arrivals
  <2>2. QED
    BY <1>0, <1>3, <2>1 DEF BeginCancel
<1>4. ASSUME NEW c \in Consultants, NEW x \in Bookings, BeginAssign(r, c, x)
      PROVE  Moved
  <2>1. CASE req' = [req EXCEPT ![r] =
                      [Idle EXCEPT !.pc = "claim", !.op = "assign", !.consultant = c,
                                   !.target = x, !.since = now]]
    <3> DEFINE q == [Idle EXCEPT !.pc = "claim", !.op = "assign", !.consultant = c,
                                   !.target = x, !.since = now]
    <3>1. q.pc = "claim"
      BY DEF Idle
    <3>2. QED
      BY <1>4, <2>1, <3>1, <1>w DEF BeginAssign, Arrivals
  <2>2. QED
    BY <1>0, <1>4, <2>1 DEF BeginAssign
<1>5. ASSUME NEW c \in Consultants, NEW x \in Bookings, NEW call \in ClosureCalls,
             Close(r, c, x, call[1], call[2])
      PROVE  Moved
  <2>1. CASE req' = [req EXCEPT ![r] =
                 [Idle EXCEPT !.pc = "audit", !.op = "close", !.consultant = c,
                              !.target = x, !.since = now,
                              !.entry = [booking |-> x, actor |-> c,
                                         action |-> "booking_closed", outcome |-> call[1]]]]
    <3> DEFINE q == [Idle EXCEPT !.pc = "audit", !.op = "close", !.consultant = c,
                              !.target = x, !.since = now,
                              !.entry = [booking |-> x, actor |-> c,
                                         action |-> "booking_closed", outcome |-> call[1]]]
    <3>1. q.pc = "audit"
      BY DEF Idle
    <3>2. QED
      BY <2>1, <3>1, <1>w DEF Arrivals
  <2>2. QED
    BY <1>0, <1>5, <2>1 DEF Close
<1>6. QED
  <2> HIDE DEF Moved
  <2>1. Moved
    BY <1>1, <1>2, <1>3, <1>4, <1>5 DEF Arrive
  <2>2. QED
    BY <2>1 DEF Moved

LEMMA KeptByArrive ==
    ASSUME IInv, NEW r \in Requests, NEW b \in Bookings, Settled(b), Arrive(r)
    PROVE  Kept(b)
<1>1. bookings'[b] = bookings[b]
  <2>1. ASSUME NEW c \in Consultants, NEW x \in Bookings, NEW call \in ClosureCalls,
               Close(r, c, x, call[1], call[2])
        PROVE  bookings'[b] = bookings[b]
    BY <2>1 DEF Close, Closable, Confirmed, Settled, Outcomes, IInv, TypeOK
  <2>2. QED
    BY <2>1 DEF Arrive, BeginCreate, BeginReschedule, BeginCancel, BeginAssign
<1>2. QED
  BY <1>1, ArriveMoves DEF Kept, Holds, IInv, TypeOK, Arrivals

\* The steps of a request that loads, checks, is refused or yields to a twin.
LEMMA KeptByReading ==
    ASSUME IInv, NEW r \in Requests, NEW b \in Bookings, Settled(b),
           \/ Load(r) \/ Check(r) \/ InsertDuplicate(r) \/ RecordDuplicate(r)
           \/ Resolve(r) \/ Recover(r) \/ Record(r) \/ WriteAudit(r)
    PROVE  Kept(b)
<1> DEFINE Moved == /\ \A s \in Requests : s # r => req'[s] = req[s]
                    /\ Holds(r, b)' => Holds(r, b)
<1>0. ASSUME NEW code, Reply(r, code)
      PROVE  Moved
  <2>1. [Idle EXCEPT !.reply = code].pc = "idle"
    BY DEF Idle
  <2>2. QED
    BY <1>0, <2>1 DEF Reply, Holds, IInv, TypeOK
<1>1. ASSUME NEW p \in {"check", "insert", "cancel", "resolve", "recover"}, Goto(r, p), p = "insert" => req[r].op = "create"
      PROVE  Moved
  BY <1>1 DEF Goto, Holds, IInv, TypeOK, Request
<1>2. Load(r) => Moved /\ UNCHANGED bookings
  <2>1. ASSUME NEW x, req' = [req EXCEPT ![r].pc = "check", ![r].snapshot = x]
        PROVE  Moved
    BY <2>1 DEF IInv, TypeOK, Request, Holds
  <2> HIDE DEF Moved
  <2>2. QED
    BY <1>0, <2>1 DEF Load
<1>3. Check(r) => Moved /\ UNCHANGED bookings
  <2> HIDE DEF Moved
  <2>1. QED
    BY <1>0, <1>1 DEF Check
<1>4. InsertDuplicate(r) => Moved /\ UNCHANGED bookings
  <2>1. ASSUME req[r].op = "reschedule", req[r].pc = "insert",
               req' = [req EXCEPT ![r].pc = "restore", ![r].reply = "SLOT_TAKEN"]
        PROVE  Moved
    BY <2>1 DEF IInv, TypeOK, Request, Holds
  <2> HIDE DEF Moved
  <2>2. QED
    BY <1>0, <1>1, <2>1 DEF InsertDuplicate
<1>5. RecordDuplicate(r) => Moved /\ UNCHANGED bookings
  <2> HIDE DEF Moved
  <2>1. QED
    BY <1>0, <1>1 DEF RecordDuplicate
<1>6. Resolve(r) => Moved /\ UNCHANGED bookings
  <2>1. ASSUME NEW p, req' = [req EXCEPT ![r].pc = "undo", ![r].prior = p]
        PROVE  Moved
    BY <2>1 DEF IInv, TypeOK, Request, Holds
  <2> HIDE DEF Moved
  <2>2. QED
    BY <1>1, <2>1 DEF Resolve
<1>7. Recover(r) \/ Record(r) \/ WriteAudit(r) => Moved /\ UNCHANGED bookings
  <2> HIDE DEF Moved
  <2>1. QED
    BY <1>0 DEF Recover, Record, WriteAudit
<1>8. Moved /\ UNCHANGED bookings
  <2> HIDE DEF Moved
  <2>1. QED
    BY <1>2, <1>3, <1>4, <1>5, <1>6, <1>7
<1>9. QED
  BY <1>8 DEF Kept, Holds

\* The steps that write one row.
LEMMA KeptByWriting ==
    ASSUME IInv, NEW r \in Requests, NEW b \in Bookings, Settled(b),
           Cancel(r) \/ Release(r) \/ Insert(r) \/ Restore(r) \/ Claim(r)
    PROVE  Kept(b)
<1> DEFINE Moved == /\ \A s \in Requests : s # r => req'[s] = req[s]
                    /\ Holds(r, b)' => Holds(r, b)
<1>0. ASSUME NEW code, Reply(r, code)
      PROVE  Moved
  <2>1. [Idle EXCEPT !.reply = code].pc = "idle"
    BY DEF Idle
  <2>2. QED
    BY <1>0, <2>1 DEF Reply, Holds, IInv, TypeOK
<1>1. /\ ~Confirmed(b) /\ bookings[b].state # "absent" /\ ~Holds(r, b)
      /\ bookings \in [Bookings -> BookingRow] /\ req \in [Requests -> Request]
      /\ RequestSound(req[r])
  BY DEF Settled, Confirmed, Outcomes, IInv, TypeOK, RequestsSound
<1>2. CASE Cancel(r)
  <2>1. bookings'[b] = bookings[b]
    BY <1>1, <1>2 DEF Cancel, Withdrawable
  <2>2. Moved
    BY <1>0, <1>2 DEF Cancel
  <2>3. QED
    BY <2>1, <2>2 DEF Kept, Holds
<1>3. CASE Release(r)
  <2>1. bookings'[b] = bookings[b]
    BY <1>1, <1>3 DEF Release, Withdrawable
  <2>2. CASE Goto(r, "insert") /\ Withdrawable(req[r].target, req[r].employee)
    BY <1>1, <2>1, <2>2 DEF Goto, Kept, Holds, Withdrawable, Request
  <2>3. CASE Reply(r, "SLOT_TAKEN")
    BY <1>0, <2>1, <2>3 DEF Kept, Holds
  <2>4. QED
    BY <1>3, <2>2, <2>3 DEF Release
<1>4. CASE Insert(r)
  <2>1. bookings'[b] = bookings[b]
    BY <1>1, <1>4 DEF Insert, Store, RequestSound, OpSound, ArgsSound, MadeSound, Drawn
  <2>2. CASE Goto(r, "record")
    BY <1>1, <1>4, <2>1, <2>2 DEF Goto, Kept, Holds, Insert, Store, Request
  <2>3. CASE Reply(r, "ok")
    BY <1>0, <2>1, <2>3 DEF Kept, Holds
  <2>4. QED
    BY <1>4, <2>2, <2>3 DEF Insert
<1>5. CASE Restore(r)
  <2>1. req[r].target # b
    BY <1>1, <1>5 DEF Restore, RequestSound, OpSound, Holds
  <2>2. bookings'[b] = bookings[b]
    BY <1>1, <1>5, <2>1 DEF Restore
  <2>3. Moved
    BY <1>0, <1>5 DEF Restore
  <2>4. QED
    BY <2>2, <2>3 DEF Kept, Holds
<1>6. CASE Claim(r)
  <2>1. bookings'[b] = bookings[b]
    BY <1>1, <1>6 DEF Claim, Claimable
  <2>2. ASSUME NEW e, req' = [req EXCEPT ![r].pc = "audit", ![r].entry = e]
        PROVE  Moved
    BY <1>1, <2>2 DEF Holds, Request
  <2>3. Moved
    BY <1>0, <1>6, <2>2 DEF Claim
  <2>4. QED
    BY <2>1, <2>3 DEF Kept, Holds
<1>7. QED
  BY <1>2, <1>3, <1>4, <1>5, <1>6

\* Faults and time.
LEMMA KeptByFault ==
    ASSUME IInv, NEW b \in Bookings, Settled(b),
           (\E r \in Requests : Break(r)) \/ Expire \/ Tick
    PROVE  Kept(b)
<1>1. ASSUME NEW r \in Requests, Raise(r)
      PROVE  \A s \in Requests : Holds(s, b)' => Holds(s, b)
  <2>1. PICK q \in Request : Raised(r, q)
    BY <1>1, RaisedRequest
  <2>2. QED
    BY <2>1 DEF Raised, Holds, IInv, TypeOK
<1>2. ASSUME NEW r \in Requests, StorageError(r)
      PROVE  Kept(b)
  BY <1>1, <1>2 DEF StorageError, Kept
<1>3. ASSUME NEW r \in Requests, LostAcknowledgement(r)
      PROVE  Kept(b)
  <2>1. bookings'[b] = bookings[b]
    BY <1>3 DEF LostAcknowledgement, Store, IInv, TypeOK, RequestsSound, RequestSound, OpSound,
         ArgsSound, MadeSound, Drawn, Settled, Outcomes
  <2>2. QED
    BY <1>1, <1>3, <2>1 DEF LostAcknowledgement, Kept
<1>4. ASSUME NEW r \in Requests, Crash(r)
      PROVE  Kept(b)
  BY <1>4, KeptByReply DEF Crash, Codes
<1>5. CASE Expire \/ Tick
  BY <1>5 DEF Expire, Tick, Kept, Holds
<1>6. QED
  BY <1>2, <1>3, <1>4, <1>5 DEF Break

\* The loser of a key deletes the row it made, and no other.
LEMMA KeptByUndo ==
    ASSUME IInv, NEW r \in Requests, NEW b \in Bookings, Settled(b), Undo(r)
    PROVE  Kept(b) \/ (bookings'[b] = DeletedRow /\ Undecided(r, b))
<1>1. CASE req[r].made = b
  BY <1>1 DEF Undo, Undecided, IInv, TypeOK, RequestsSound, RequestSound, OpSound
<1>2. CASE req[r].made # b
  BY <1>2, KeptByReply DEF Undo, Codes, IInv, TypeOK
<1>3. QED
  BY <1>1, <1>2

\* No interleaving, failure or crash reopens, reassigns or relabels a session
\* that was cancelled, completed or missed; at most the create that made it and
\* lost its key deletes it.
THEOREM SettledStaysFinal == Spec => SettledIsFinal
<1> DEFINE Final == \A b \in Bookings :
         Settled(b) => \/ bookings'[b] = bookings[b] /\ \A r \in Requests : ~Holds(r, b)'
                       \/ /\ bookings'[b] = DeletedRow
                          /\ \E r \in Requests : Undecided(r, b)
<1>1. IInv /\ [Next]_vars => [Final]_vars
  <2> SUFFICES ASSUME IInv, Next, NEW b \in Bookings, Settled(b)
               PROVE  \/ bookings'[b] = bookings[b] /\ \A r \in Requests : ~Holds(r, b)'
                      \/ /\ bookings'[b] = DeletedRow
                         /\ \E r \in Requests : Undecided(r, b)
    OBVIOUS
  <2>1. Kept(b) \/ \E r \in Requests : bookings'[b] = DeletedRow /\ Undecided(r, b)
    BY KeptByArrive, KeptByReading, KeptByWriting, KeptByUndo, KeptByFault DEF Next, Advance
  <2>2. QED
    BY <2>1 DEF Kept, Settled
<1>2. QED
  BY <1>1, Invariant, PTL DEF Spec, SettledIsFinal

\* A request moves only by its own steps.
LEMMA OthersUnmoved ==
    ASSUME TypeOK, NEW r \in Requests, NEW s \in Requests \ {r},
           Arrive(r) \/ Advance(r) \/ Break(r)
    PROVE  req'[s] = req[s]
<1> USE DEF TypeOK
<1>0. \A code : Reply(r, code) => req'[s] = req[s]
  BY DEF Reply
<1>1. \A p : Goto(r, p) => req'[s] = req[s]
  BY DEF Goto
<1>2. Raise(r) => req'[s] = req[s]
  BY <1>0 DEF Raise
<1>3. Arrive(r) => req'[s] = req[s]
  <2>1. ASSUME NEW e \in Employees, NEW c \in Consultants, NEW t \in Slots, NEW k \in Keys \cup {None}
        PROVE  BeginCreate(r, e, c, t, k) => req'[s] = req[s]
    BY <1>0 DEF BeginCreate
  <2>2. ASSUME NEW e \in Employees, NEW c \in Consultants, NEW t \in Slots, NEW k \in Keys \cup {None},
               NEW b \in Bookings
        PROVE  BeginReschedule(r, e, b, c, t, k) => req'[s] = req[s]
    BY <1>0 DEF BeginReschedule
  <2>3. ASSUME NEW e \in Employees, NEW b \in Bookings
        PROVE  BeginCancel(r, e, b) => req'[s] = req[s]
    BY <1>0 DEF BeginCancel
  <2>4. ASSUME NEW c \in Consultants, NEW b \in Bookings
        PROVE  BeginAssign(r, c, b) => req'[s] = req[s]
    BY <1>0 DEF BeginAssign
  <2>5. ASSUME NEW c \in Consultants, NEW b \in Bookings, NEW call \in ClosureCalls
        PROVE  Close(r, c, b, call[1], call[2]) => req'[s] = req[s]
    BY <1>0 DEF Close
  <2>6. QED
    BY <2>1, <2>2, <2>3, <2>4, <2>5 DEF Arrive
<1>4. Load(r) \/ Check(r) \/ Cancel(r) \/ Release(r) => req'[s] = req[s]
  BY <1>0, <1>1 DEF Load, Check, Cancel, Release
<1>5. Insert(r) \/ InsertDuplicate(r) \/ Record(r) \/ RecordDuplicate(r) => req'[s] = req[s]
  BY <1>0, <1>1 DEF Insert, InsertDuplicate, Record, RecordDuplicate
<1>6. Resolve(r) \/ Undo(r) \/ Recover(r) \/ Restore(r) => req'[s] = req[s]
  BY <1>0, <1>1 DEF Resolve, Undo, Recover, Restore
<1>7. Claim(r) \/ WriteAudit(r) => req'[s] = req[s]
  BY <1>0 DEF Claim, WriteAudit
<1>8. Break(r) => req'[s] = req[s]
  BY <1>0, <1>2 DEF Break, StorageError, LostAcknowledgement, Crash
<1>9. QED
  BY <1>3, <1>4, <1>5, <1>6, <1>7, <1>8 DEF Advance

LEMMA OthersStay ==
    ASSUME IInv, NEW r \in Requests, NEW s \in Requests \ {r},
           Arrive(r) \/ Advance(r) \/ Break(r)
    PROVE  req'[s] = req[s]
BY OthersUnmoved DEF IInv

\* A reschedule never tells the collaborator that the slot was taken and the
\* original session is back when it is not.
THEOREM RestoresAreTrue == Spec => RestoredAsTold
<1> DEFINE Told == \A r \in Requests :
         req[r].pc = "restore" /\ Ends(r, "SLOT_TAKEN") =>
           bookings'[req[r].target].state \in {"confirmed", "deleted"}
<1>1. IInv /\ [Next]_vars => [Told]_vars
  <2> SUFFICES ASSUME IInv, Next, NEW r \in Requests,
                      req[r].pc = "restore", Ends(r, "SLOT_TAKEN")
               PROVE  bookings'[req[r].target].state \in {"confirmed", "deleted"}
    OBVIOUS
  <2>1. RequestSound(req[r]) /\ req[r].target \in Bookings /\ Holding(req[r])
    BY DEF IInv, RequestsSound, RequestSound, OpSound, ArgsSound, Holding
  <2>2. req'[r] # req[r]
    BY DEF Ends, InFlight
  <2>3. Arrive(r) \/ Advance(r) \/ Break(r)
    BY <2>2, OthersStay DEF Next, Expire, Tick
  <2>4. ~Arrive(r)
    BY DEF Arrive, BeginCreate, BeginReschedule, BeginCancel, BeginAssign, Close, InFlight
  <2>5. ~Break(r)
    <3>1. \A code : Reply(r, code) => req'[r].reply = code
      BY DEF Reply, Idle, IInv, TypeOK
    <3>2. QED
      BY <3>1 DEF Break, StorageError, LostAcknowledgement, Crash, Raise, Store, StoreKey, Ends
  <2>6. Restore(r)
    BY <2>3, <2>4, <2>5
       DEF Advance, Load, Check, Cancel, Release, Insert, Store, InsertDuplicate, Record, StoreKey,
           RecordDuplicate, Resolve, Undo, Recover, Claim, WriteAudit
  <2>7. req'[r].reply = "SLOT_TAKEN" /\ "SLOT_TAKEN" # "error"
    BY DEF Ends
  <2>8. ~Reply(r, "error")
    BY <2>7 DEF Reply, Idle, IInv, TypeOK
  <2>9. CASE Restorable(req[r]) /\ bookings' = [bookings EXCEPT ![req[r].target] = Restored(req[r])]
    BY <2>1, <2>9 DEF Restored, IInv, TypeOK, BookingRow
  <2>10. CASE ~Restorable(req[r]) /\ UNCHANGED bookings
    BY <2>1, <2>10 DEF RequestSound, HeldSound, Restorable, Exists
  <2>11. QED
    BY <2>6, <2>8, <2>9, <2>10 DEF Restore
<1>2. QED
  BY <1>1, Invariant, PTL DEF Spec, RestoredAsTold

-----------------------------------------------------------------------------
(* The cutoff *)

\* A row that was inserted stays where it is in time until it is deleted.
RowLasts(b) ==
    bookings[b].state # "absent" =>
      /\ bookings'[b].state # "absent"
      /\ bookings'[b].state # "deleted" => Exists(b) /\ bookings'[b].slot = bookings[b].slot

LEMMA StoredRowLasts ==
    ASSUME IInv, NEW r \in Requests, NEW b \in Bookings, Store(r)
    PROVE  RowLasts(b)
<1>1. req[r].made \in Bookings /\ bookings[req[r].made].state = "absent"
  BY DEF IInv, TypeOK, RequestsSound, RequestSound, OpSound, ArgsSound, MadeSound, Drawn, Store
<1>2. req[r].made # b => bookings'[b] = bookings[b]
  BY DEF Store, IInv, TypeOK
<1>3. QED
  BY <1>1, <1>2 DEF RowLasts, Exists

LEMMA RowsLast ==
    ASSUME IInv, NEW b \in Bookings, [Next]_vars
    PROVE  RowLasts(b)
<1>0. UNCHANGED bookings => RowLasts(b)
  BY DEF RowLasts, Exists
<1>1. ASSUME NEW x \in Bookings, NEW v \in States \ {"absent", "deleted"}, Exists(x),
             bookings' = [bookings EXCEPT ![x].state = v]
      PROVE  RowLasts(b)
  <2>1. bookings[x] \in BookingRow /\ bookings[b] \in BookingRow
    BY DEF IInv, TypeOK
  <2>2. bookings'[b] = IF x = b THEN [bookings[b] EXCEPT !.state = v] ELSE bookings[b]
    BY <1>1 DEF IInv, TypeOK
  <2>3. QED
    BY <1>1, <2>1, <2>2 DEF RowLasts, Exists, BookingRow
<1>2. ASSUME NEW r \in Requests, Cancel(r) \/ Release(r)
      PROVE  RowLasts(b)
  <2>1. req[r].target \in Bookings
    BY <1>2 DEF IInv, RequestsSound, RequestSound, ArgsSound, Cancel, Release
  <2>2. "cancelled" \in States \ {"absent", "deleted"}
    BY DEF States, Outcomes
  <2>3. QED
    BY <1>0, <1>1, <1>2, <2>1, <2>2 DEF Cancel, Release, Withdrawable, Confirmed, Exists
<1>3. ASSUME NEW r \in Requests, NEW c \in Consultants, NEW x \in Bookings,
             NEW call \in ClosureCalls, Close(r, c, x, call[1], call[2])
      PROVE  RowLasts(b)
  <2>1. call[1] \in Outcomes /\ bookings \in [Bookings -> BookingRow]
    BY ConstantsAssumption DEF IInv, TypeOK
  <2>2. CASE UNCHANGED bookings
    BY <1>0, <2>2
  <2>3. CASE Closable(x, c) /\ bookings' = [bookings EXCEPT ![x] = Closed(@, call[1], call[2])]
    <3>1. bookings'[b] = IF x = b THEN Closed(bookings[b], call[1], call[2]) ELSE bookings[b]
      BY <2>1, <2>3
    <3>2. /\ Closed(bookings[b], call[1], call[2]).state = call[1]
          /\ Closed(bookings[b], call[1], call[2]).slot = bookings[b].slot
      BY <2>1 DEF Closed, BookingRow
    <3>3. QED
      BY <2>1, <2>3, <3>1, <3>2 DEF RowLasts, Exists, Closable, Confirmed, Outcomes
  <2>4. QED
    BY <1>3, <2>2, <2>3 DEF Close
<1>4. ASSUME NEW r \in Requests, Claim(r)
      PROVE  RowLasts(b)
  <2>1. req[r].target \in Bookings /\ bookings \in [Bookings -> BookingRow]
    BY <1>4 DEF IInv, TypeOK, RequestsSound, RequestSound, OpSound, ArgsSound, Claim
  <2>2. CASE UNCHANGED bookings
    BY <1>0, <2>2
  <2>3. CASE bookings' = [bookings EXCEPT ![req[r].target].awaiting = FALSE,
                                          ![req[r].target].assigned = req[r].consultant]
    BY <2>1, <2>3 DEF RowLasts, Exists, BookingRow
  <2>4. QED
    BY <1>4, <2>2, <2>3 DEF Claim
<1>5. ASSUME NEW r \in Requests, Restore(r)
      PROVE  RowLasts(b)
  <2>1. req[r].target \in Bookings /\ bookings \in [Bookings -> BookingRow]
    BY <1>5 DEF IInv, TypeOK, RequestsSound, RequestSound, OpSound, ArgsSound, Restore
  <2>2. CASE UNCHANGED bookings
    BY <1>0, <2>2
  <2>3. CASE Restorable(req[r]) /\ bookings' = [bookings EXCEPT ![req[r].target] = Restored(req[r])]
    BY <2>1, <2>3 DEF RowLasts, Exists, BookingRow, Restored, Restorable
  <2>4. QED
    BY <1>5, <2>2, <2>3 DEF Restore
<1>6. ASSUME NEW r \in Requests, Undo(r)
      PROVE  RowLasts(b)
  <2>1. bookings'[b] = IF req[r].made = b THEN DeletedRow ELSE bookings[b]
    BY <1>6 DEF Undo, IInv, TypeOK
  <2>2. QED
    BY <2>1 DEF RowLasts, Exists, DeletedRow, AbsentRow
<1>7. ASSUME NEW r \in Requests, Arrive(r)
      PROVE  RowLasts(b)
  BY <1>0, <1>3, <1>7 DEF Arrive, BeginCreate, BeginReschedule, BeginCancel, BeginAssign
<1>8. ASSUME NEW r \in Requests, Advance(r)
      PROVE  RowLasts(b)
  <2>1. CASE Load(r) \/ Check(r) \/ InsertDuplicate(r) \/ Record(r) \/ RecordDuplicate(r)
             \/ Resolve(r) \/ Recover(r) \/ WriteAudit(r)
    BY <1>0, <2>1
       DEF Load, Check, InsertDuplicate, Record, RecordDuplicate, Resolve, Recover, WriteAudit
  <2>2. CASE Insert(r)
    BY <2>2, StoredRowLasts DEF Insert
  <2>3. QED
    BY <1>2, <1>4, <1>5, <1>6, <1>8, <2>1, <2>2 DEF Advance
<1>9. ASSUME NEW r \in Requests, Break(r)
      PROVE  RowLasts(b)
  BY <1>0, <1>9, StoredRowLasts DEF Break, StorageError, LostAcknowledgement, Crash
<1>10. CASE Expire \/ Tick \/ UNCHANGED vars
  BY <1>0, <1>10 DEF Expire, Tick, vars
<1>11. QED
  BY <1>7, <1>8, <1>9, <1>10 DEF Next

\* A request that keeps what it came with, or has answered, was still asked in time.
LEMMA AskedKept ==
    ASSUME IInv, AllAskedInTime, [Next]_vars, NEW s \in Requests,
           now' \in Int, now <= now',
           \/ req'[s].pc = "idle" /\ req'[s].op = "none"
           \/ /\ req'[s].since = req[s].since /\ req'[s].target = req[s].target
              /\ req'[s].op = req[s].op
              /\ req[s].pc # "idle"
              /\ \/ req'[s].pc \notin {"check", "cancel"}
                 \/ req[s].pc \in {"check", "cancel"}
    PROVE  AskedInTime(req[s])'
<1>1. req[s] \in Request /\ RequestSound(req[s]) /\ AskedInTime(req[s]) /\ now \in Int
  BY DEF IInv, TypeOK, RequestsSound, AllAskedInTime
<1>2. CASE req'[s].pc = "idle" /\ req'[s].op = "none"
  BY <1>2 DEF AskedInTime
<1>3. CASE /\ req'[s].since = req[s].since /\ req'[s].target = req[s].target
           /\ req'[s].op = req[s].op /\ req[s].pc # "idle"
           /\ req'[s].pc \notin {"check", "cancel"} \/ req[s].pc \in {"check", "cancel"}
  <2>1. req'[s].since <= now'
    BY <1>1, <1>3 DEF AskedInTime, Request
  <2>2. ASSUME req'[s].op \in {"cancel", "reschedule"}, req'[s].pc \in {"check", "cancel"}
        PROVE  /\ bookings'[req'[s].target].state # "absent"
               /\ Live(bookings'[req'[s].target]) =>
                     req'[s].since < bookings'[req'[s].target].slot.start - MinNotice
    <3>1. req[s].target \in Bookings
      BY <1>1, <1>3, <2>2 DEF RequestSound, ArgsSound
    <3>2. RowLasts(req[s].target)
      BY <3>1, RowsLast
    <3>3. QED
      BY <1>1, <1>3, <2>2, <3>2 DEF AskedInTime, RowLasts, Exists, Live
  <2>3. QED
    BY <2>1, <2>2 DEF AskedInTime
<1>4. QED
  BY <1>2, <1>3

LEMMA ArrivedInTime ==
    ASSUME IInv, AllAskedInTime, NEW r \in Requests, Arrive(r)
    PROVE  AskedInTime(req[r])'
<1>1. now \in Int /\ req \in [Requests -> Request] /\ now' = now
  BY DEF IInv, TypeOK, Arrive, BeginCreate, BeginReschedule, BeginCancel, BeginAssign, Close
<1>2. ASSUME NEW code, Reply(r, code)
      PROVE  AskedInTime(req[r])'
  BY <1>1, <1>2 DEF Reply, Idle, AskedInTime
<1>3. ASSUME NEW e \in Employees, NEW c \in Consultants, NEW t \in Slots,
             NEW k \in Keys \cup {None}, BeginCreate(r, e, c, t, k)
      PROVE  AskedInTime(req[r])'
  <2>1. ASSUME NEW b \in Bookings,
               req' = [req EXCEPT ![r] =
                    [Idle EXCEPT !.pc = "check", !.op = "create", !.employee = e,
                                 !.consultant = c, !.slot = t, !.key = k,
                                 !.made = b, !.since = now]]
        PROVE  AskedInTime(req[r])'
    <3>1. req'[r].op = "create" /\ req'[r].since = now
      BY <1>1, <2>1 DEF Idle
    <3>2. QED
      BY <1>1, <3>1 DEF AskedInTime
  <2>2. QED
    BY <1>2, <1>3, <2>1 DEF BeginCreate
<1>4. ASSUME NEW e \in Employees, NEW c \in Consultants, NEW t \in Slots,
             NEW k \in Keys \cup {None}, NEW b \in Bookings, BeginReschedule(r, e, b, c, t, k)
      PROVE  AskedInTime(req[r])'
  <2>1. ASSUME NEW m \in Bookings,
               req' = [req EXCEPT ![r] =
                    [Idle EXCEPT !.pc = "load", !.op = "reschedule", !.employee = e,
                                 !.consultant = c, !.slot = t, !.key = k,
                                 !.target = b, !.made = m, !.since = now]]
        PROVE  AskedInTime(req[r])'
    <3>1. req'[r].pc = "load" /\ req'[r].since = now
      BY <1>1, <2>1 DEF Idle
    <3>2. QED
      BY <1>1, <3>1 DEF AskedInTime
  <2>2. QED
    BY <1>2, <1>4, <2>1 DEF BeginReschedule
<1>5. ASSUME NEW e \in Employees, NEW b \in Bookings, BeginCancel(r, e, b)
      PROVE  AskedInTime(req[r])'
  <2>1. CASE /\ Withdrawable(b, e) /\ MayModify(bookings[b].slot) /\ UNCHANGED bookings
             /\ req' = [req EXCEPT ![r] =
                    [Idle EXCEPT !.pc = "cancel", !.op = "cancel", !.employee = e,
                                 !.target = b, !.since = now]]
    <3>1. req'[r].target = b /\ req'[r].since = now
      BY <1>1, <2>1 DEF Idle
    <3>2. QED
      BY <1>1, <2>1, <3>1 DEF AskedInTime, Live, Withdrawable, Confirmed, MayModify
  <2>2. QED
    BY <1>2, <1>5, <2>1 DEF BeginCancel
<1>6. ASSUME NEW c \in Consultants, NEW b \in Bookings, BeginAssign(r, c, b)
      PROVE  AskedInTime(req[r])'
  <2>1. CASE req' = [req EXCEPT ![r] =
                      [Idle EXCEPT !.pc = "claim", !.op = "assign", !.consultant = c,
                                   !.target = b, !.since = now]]
    <3>1. req'[r].op = "assign" /\ req'[r].since = now
      BY <1>1, <2>1 DEF Idle
    <3>2. QED
      BY <1>1, <3>1 DEF AskedInTime
  <2>2. QED
    BY <1>2, <1>6, <2>1 DEF BeginAssign
<1>7. ASSUME NEW c \in Consultants, NEW b \in Bookings, NEW call \in ClosureCalls,
             Close(r, c, b, call[1], call[2])
      PROVE  AskedInTime(req[r])'
  <2>1. ASSUME NEW entry,
               req' = [req EXCEPT ![r] =
                 [Idle EXCEPT !.pc = "audit", !.op = "close", !.consultant = c,
                              !.target = b, !.since = now, !.entry = entry]]
        PROVE  AskedInTime(req[r])'
    BY <1>1, <2>1 DEF Idle, AskedInTime
  <2>2. QED
    BY <1>2, <1>7, <2>1 DEF Close
<1>8. QED
  BY <1>3, <1>4, <1>5, <1>6, <1>7 DEF Arrive

LEMMA AdvancesInTime ==
    ASSUME IInv, AllAskedInTime, NEW r \in Requests, Advance(r) \/ Break(r)
    PROVE  AskedInTime(req[r])'
<1>0. now \in Int /\ req \in [Requests -> Request] /\ [Next]_vars
  BY DEF IInv, TypeOK, Next
<1>1. now' = now /\ now <= now' /\ now \in Int /\ req \in [Requests -> Request] /\ [Next]_vars
  BY <1>0 DEF Advance, Break, Load, Check, Cancel, Release, Insert, InsertDuplicate,
     Record, RecordDuplicate, Resolve, Undo, Recover, Restore, Claim, WriteAudit, StorageError,
     LostAcknowledgement, Crash
<1>2. ASSUME NEW code, Reply(r, code)
      PROVE  AskedInTime(req[r])'
  <2>1. req'[r].pc = "idle" /\ req'[r].op = "none"
    BY <1>1, <1>2 DEF Reply, Idle
  <2>2. QED
    BY <1>1, <2>1, AskedKept
<1>4. ASSUME NEW p, Goto(r, p), req[r].pc # "idle",
             p \notin {"check", "cancel"} \/ req[r].pc \in {"check", "cancel"}
      PROVE  AskedInTime(req[r])'
  <2>1. /\ req'[r].pc = p /\ req'[r].op = req[r].op
        /\ req'[r].target = req[r].target /\ req'[r].since = req[r].since
    BY <1>1, <1>4 DEF Goto, Request
  <2>2. QED
    BY <1>1, <1>4, <2>1, AskedKept
<1>5. CASE Load(r)
  <2>1. CASE /\ Withdrawable(req[r].target, req[r].employee)
             /\ MayModify(bookings[req[r].target].slot) /\ UNCHANGED bookings
             /\ req' = [req EXCEPT ![r].pc = "check",
                                ![r].snapshot =
                                   [awaiting |-> bookings[req[r].target].awaiting,
                                    assigned |-> bookings[req[r].target].assigned]]
    <3>1. /\ req'[r].pc = "check" /\ req'[r].target = req[r].target
          /\ req'[r].since = req[r].since /\ req[r].since \in Int
      BY <1>1, <2>1 DEF Request
    <3>2. req[r].since <= now
      BY <1>5 DEF AllAskedInTime, AskedInTime, Load
    <3>3. req[r].target \in Bookings
      BY <1>5 DEF IInv, RequestsSound, RequestSound, OpSound, ArgsSound, Load
    <3>4. bookings[req[r].target].slot.start \in Int /\ MinNotice \in Int
      BY <2>1, <3>3, ConstantsAssumption
         DEF IInv, RowsSound, RowSound, Live, Withdrawable, Confirmed
    <3>5. QED
      BY <1>1, <2>1, <3>1, <3>2, <3>4 DEF AskedInTime, Live, Withdrawable, Confirmed, MayModify
  <2>2. QED
    BY <1>2, <1>5, <2>1 DEF Load
<1>6. CASE Check(r)
  BY <1>2, <1>4, <1>6 DEF Check
<1>7. CASE Cancel(r) \/ Release(r) \/ Insert(r)
  BY <1>2, <1>4, <1>7 DEF Cancel, Release, Insert, Store
<1>8. CASE InsertDuplicate(r)
  <2>0. req[r].pc = "insert"
    BY <1>8 DEF InsertDuplicate
  <2>1. CASE req' = [req EXCEPT ![r].pc = "restore", ![r].reply = "SLOT_TAKEN"]
    <3>1. /\ req'[r].pc = "restore" /\ req'[r].op = req[r].op
          /\ req'[r].target = req[r].target /\ req'[r].since = req[r].since
      BY <1>1, <2>1 DEF Request
    <3>2. QED
      BY <1>1, <2>0, <3>1, AskedKept
  <2>2. QED
    BY <1>2, <1>4, <1>8, <2>1 DEF InsertDuplicate
<1>9. CASE Record(r) \/ RecordDuplicate(r) \/ Undo(r) \/ Recover(r) \/ Restore(r) \/ WriteAudit(r)
  BY <1>2, <1>4, <1>9 DEF Record, RecordDuplicate, Undo, Recover, Restore, WriteAudit
<1>10. CASE Resolve(r)
  <2>0. req[r].pc = "resolve"
    BY <1>10 DEF Resolve
  <2>1. ASSUME NEW p, req' = [req EXCEPT ![r].pc = "undo", ![r].prior = p]
        PROVE  AskedInTime(req[r])'
    <3>1. /\ req'[r].pc = "undo" /\ req'[r].op = req[r].op
          /\ req'[r].target = req[r].target /\ req'[r].since = req[r].since
      BY <1>1, <2>1 DEF Request
    <3>2. QED
      BY <1>1, <2>0, <3>1, AskedKept
  <2>2. QED
    BY <1>4, <1>10, <2>1 DEF Resolve
<1>11. CASE Claim(r)
  <2>0. req[r].pc = "claim"
    BY <1>11 DEF Claim
  <2>1. ASSUME NEW e, req' = [req EXCEPT ![r].pc = "audit", ![r].entry = e]
        PROVE  AskedInTime(req[r])'
    <3>1. /\ req'[r].pc = "audit" /\ req'[r].op = req[r].op
          /\ req'[r].target = req[r].target /\ req'[r].since = req[r].since
      BY <1>1, <2>1 DEF Request
    <3>2. QED
      BY <1>1, <2>0, <3>1, AskedKept
  <2>2. QED
    BY <1>2, <1>11, <2>1 DEF Claim
<1>12. ASSUME Raise(r)
       PROVE  AskedInTime(req[r])'
  <2>1. CASE req[r].pc \in {"insert", "record"} /\
             req' = [req EXCEPT ![r].pc = "restore", ![r].reply = "error"]
    <3>1. /\ req'[r].pc = "restore" /\ req'[r].op = req[r].op
          /\ req'[r].target = req[r].target /\ req'[r].since = req[r].since
      BY <1>1, <2>1 DEF Request
    <3>2. QED
      BY <1>1, <2>1, <3>1, AskedKept
  <2>2. QED
    BY <1>2, <1>12, <2>1 DEF Raise
<1>13. CASE Break(r)
  BY <1>2, <1>12, <1>13 DEF Break, StorageError, LostAcknowledgement, Crash
<1>14. QED
  BY <1>5, <1>6, <1>7, <1>8, <1>9, <1>10, <1>11, <1>13 DEF Advance

LEMMA StepAskedInTime == IInv /\ AllAskedInTime /\ [Next]_vars => AllAskedInTime'
<1> SUFFICES ASSUME IInv, AllAskedInTime, [Next]_vars, NEW s \in Requests
             PROVE  AskedInTime(req[s])'
  BY DEF AllAskedInTime
<1>1. now \in Int
  BY DEF IInv, TypeOK
<1>2. ASSUME req'[s] = req[s], now' \in Int, now <= now'
      PROVE  AskedInTime(req[s])'
  <2>1. req[s].pc = "idle" => req[s].op = "none"
    BY DEF IInv, RequestsSound, RequestSound, OpSound
  <2>2. QED
    BY <1>2, <2>1, AskedKept
<1>3. ASSUME NEW r \in Requests, r # s, Arrive(r) \/ Advance(r) \/ Break(r)
      PROVE  AskedInTime(req[s])'
  <2>1. req'[s] = req[s]
    BY <1>3, OthersStay
  <2>2. now' = now
    BY <1>3 DEF Arrive, BeginCreate, BeginReschedule, BeginCancel, BeginAssign, Close, Advance,
         Load, Check, Cancel, Release, Insert, InsertDuplicate, Record, RecordDuplicate, Resolve,
         Undo, Recover, Restore, Claim, WriteAudit, Break, StorageError, LostAcknowledgement, Crash
  <2>3. QED
    BY <1>1, <1>2, <2>1, <2>2
<1>4. CASE Expire \/ Tick \/ UNCHANGED vars
  BY <1>1, <1>2, <1>4 DEF Expire, Tick, vars
<1>5. QED
  BY <1>3, <1>4, ArrivedInTime, AdvancesInTime DEF Next

\* A session that stops standing without a closure is withdrawn by its employee, by a
\* cancellation or a move that was asked for before the cutoff.
LEMMA WithdrawnInTime ==
    ASSUME IInv, AllAskedInTime, [Next]_vars, NEW b \in Bookings, Confirmed(b),
           bookings'[b].state = "cancelled", bookings'[b].closure = None
    PROVE  \E r \in Requests :
             req[r].target = b /\ req[r].since < bookings[b].slot.start - MinNotice
<1>0. bookings'[b] # bookings[b] /\ Live(bookings[b]) /\ bookings \in [Bookings -> BookingRow]
  <2>1. bookings'[b] # bookings[b]
    <3>1. bookings[b].state = "confirmed"
      BY DEF Confirmed
    <3>2. bookings'[b].state # bookings[b].state
      BY <3>1
    <3>3. QED
      BY <3>2
  <2>2. Live(bookings[b]) /\ bookings \in [Bookings -> BookingRow]
    BY DEF Confirmed, Live, IInv, TypeOK, RowsSound, RowSound
  <2>3. QED
    BY <2>1, <2>2
<1>1. None \notin Reasons
  BY ConstantsAssumption
<1>2. ASSUME NEW r \in Requests, Cancel(r) \/ Release(r)
      PROVE  req[r].target = b /\ req[r].since < bookings[b].slot.start - MinNotice
  <2>1. req[r].pc = "cancel" /\ req[r].op \in {"cancel", "reschedule"} /\ req[r].target = b
    BY <1>0, <1>2 DEF Cancel, Release
  <2>2. QED
    BY <1>0, <2>1 DEF AllAskedInTime, AskedInTime
<1>3. ASSUME NEW r \in Requests, NEW c \in Consultants, NEW x \in Bookings,
             NEW call \in ClosureCalls, Close(r, c, x, call[1], call[2])
      PROVE  FALSE
  <2>1. call[2] \in Reasons
    BY ConstantsAssumption
  <2>2. bookings' = [bookings EXCEPT ![x] = Closed(bookings[x], call[1], call[2])]
    BY <1>0, <1>3 DEF Close
  <2>3. bookings'[b].closure = call[2]
    BY <1>0, <2>2 DEF Closed, BookingRow
  <2>4. QED
    BY <1>1, <2>1, <2>3
<1>4. ASSUME NEW r \in Requests, Claim(r)
      PROVE  FALSE
  <2>1. bookings'[b].state = bookings[b].state
    BY <1>0, <1>4 DEF Claim, BookingRow
  <2>2. QED
    BY <2>1 DEF Confirmed
<1>5. ASSUME NEW r \in Requests, Restore(r)
      PROVE  FALSE
  <2>1. bookings' = [bookings EXCEPT ![req[r].target] = Restored(req[r])]
    BY <1>0, <1>5 DEF Restore
  <2>2. bookings'[b].state = "confirmed"
    BY <1>0, <2>1 DEF Restored, BookingRow
  <2>3. QED
    BY <2>2
<1>6. ASSUME NEW r \in Requests, Undo(r)
      PROVE  FALSE
  BY <1>0, <1>6 DEF Undo, DeletedRow, AbsentRow
<1>7. ASSUME NEW r \in Requests, Store(r)
      PROVE  FALSE
  BY <1>0, <1>7 DEF Store, Draft
<1>8. ASSUME NEW r \in Requests, Arrive(r)
      PROVE  FALSE
  BY <1>0, <1>3, <1>8 DEF Arrive, BeginCreate, BeginReschedule, BeginCancel, BeginAssign
<1>9. ASSUME NEW r \in Requests, Advance(r)
      PROVE  Cancel(r) \/ Release(r)
  <2>1. CASE Load(r) \/ Check(r) \/ InsertDuplicate(r) \/ Record(r) \/ RecordDuplicate(r)
             \/ Resolve(r) \/ Recover(r) \/ WriteAudit(r)
    BY <1>0, <2>1
       DEF Load, Check, InsertDuplicate, Record, RecordDuplicate, Resolve, Recover, WriteAudit
  <2>2. QED
    BY <1>4, <1>5, <1>6, <1>7, <1>9, <2>1 DEF Advance, Insert
<1>10. ASSUME NEW r \in Requests, Break(r)
       PROVE  FALSE
  BY <1>0, <1>7, <1>10 DEF Break, StorageError, LostAcknowledgement, Crash
<1>11. CASE Expire \/ Tick \/ UNCHANGED vars
  BY <1>0, <1>11 DEF Expire, Tick, vars
<1>12. QED
  BY <1>2, <1>8, <1>9, <1>10, <1>11 DEF Next

\* A collaborator's withdrawal that takes effect, by cancelling or by rescheduling, was
\* asked for before the cutoff of its session, whatever the requests in flight do between
\* the handler's check of the clock and its update, and whatever storage does.
THEOREM CutoffIsEnforced == Spec => CutoffEnforced
<1> DEFINE OnlyInTime ==
             \A b \in Bookings :
               Confirmed(b) /\ bookings'[b].state = "cancelled" /\ bookings'[b].closure = None =>
                 \E r \in Requests :
                   /\ req[r].target = b
                   /\ req[r].since < bookings[b].slot.start - MinNotice
<1>1. Init => AllAskedInTime
  BY DEF Init, AllAskedInTime, AskedInTime, Idle
<1>2. IInv /\ AllAskedInTime /\ [Next]_vars => [OnlyInTime]_vars
  BY WithdrawnInTime
<1>3. QED
  BY <1>1, <1>2, Invariant, StepAskedInTime, PTL DEF Spec, CutoffEnforced

-----------------------------------------------------------------------------
(* What a step does to one row, and to what one request holds *)

Inserted(b) ==
    \E r \in Requests :
        (Insert(r) \/ LostAcknowledgement(r)) /\ Store(r) /\ req[r].made = b

Reopened(b) ==
    \E r \in Requests : Restore(r) /\ req[r].target = b /\ Exists(b) /\ bookings'[b].state = "confirmed"

Erased(b) ==
    \E r \in Requests : Undo(r) /\ req[r].made = b /\ bookings'[b].state = "deleted"

\* The row of b stays, or was standing and still exists, or was taken back, or is gone.
RowChanged(b) ==
    /\ origin'[b] = origin[b]
    /\ \/ bookings'[b] = bookings[b]
       \/ Confirmed(b) /\ bookings'[b].state \notin {"absent", "deleted"}
       \/ Reopened(b)
       \/ Erased(b)

LEMMA RowChanges ==
    ASSUME IInv, [Next]_vars, NEW b \in Bookings
    PROVE  Inserted(b) \/ RowChanged(b)
<1>1. bookings \in [Bookings -> BookingRow] /\ origin \in [Bookings -> Calls \cup {None}]
  BY DEF IInv, TypeOK
<1>2. UNCHANGED <<bookings, origin>> => RowChanged(b)
  BY DEF RowChanged
<1>3. ASSUME NEW r \in Requests, Cancel(r) \/ Release(r) \/ Claim(r)
      PROVE  RowChanged(b)
  <2>1. CASE UNCHANGED bookings
    BY <1>2, <1>3, <2>1 DEF Cancel, Release, Claim
  <2>2. CASE /\ Confirmed(req[r].target)
             /\ bookings' = [bookings EXCEPT ![req[r].target].state = "cancelled"]
    BY <1>1, <1>3, <2>2 DEF RowChanged, BookingRow, Cancel, Release, Claim
  <2>3. CASE /\ Confirmed(req[r].target)
             /\ bookings' = [bookings EXCEPT ![req[r].target].awaiting = FALSE,
                                             ![req[r].target].assigned = req[r].consultant]
    BY <1>1, <1>3, <2>3 DEF RowChanged, BookingRow, Confirmed, Cancel, Release, Claim
  <2>4. QED
    BY <1>3, <2>1, <2>2, <2>3 DEF Cancel, Release, Claim, Withdrawable, Claimable
<1>4. ASSUME NEW r \in Requests, NEW c \in Consultants, NEW x \in Bookings,
             NEW call \in ClosureCalls, Close(r, c, x, call[1], call[2])
      PROVE  RowChanged(b)
  <2>1. call[1] \in Outcomes
    BY ConstantsAssumption
  <2>2. CASE UNCHANGED bookings
    BY <1>2, <1>4, <2>2 DEF Close
  <2>3. CASE Closable(x, c) /\ bookings' = [bookings EXCEPT ![x] = Closed(@, call[1], call[2])]
    <3>1. x = b => bookings'[b].state = call[1]
      BY <1>1, <2>3 DEF Closed, BookingRow
    <3>2. x # b => bookings'[b] = bookings[b]
      BY <1>1, <2>3
    <3>3. QED
      BY <1>4, <2>1, <2>3, <3>1, <3>2 DEF RowChanged, Closable, Outcomes, Close
  <2>4. QED
    BY <1>4, <2>2, <2>3 DEF Close
<1>5. ASSUME NEW r \in Requests, Restore(r)
      PROVE  RowChanged(b)
  <2>1. CASE UNCHANGED bookings
    BY <1>2, <1>5, <2>1 DEF Restore
  <2>2. CASE Restorable(req[r]) /\ bookings' = [bookings EXCEPT ![req[r].target] = Restored(req[r])]
    <3>1. req[r].target = b => bookings'[b].state = "confirmed"
      BY <1>1, <2>2 DEF Restored, BookingRow
    <3>2. req[r].target # b => bookings'[b] = bookings[b]
      BY <1>1, <2>2
    <3>3. req[r].target = b => Exists(b)
      BY <2>2 DEF Restorable, Exists
    <3>4. QED
      BY <1>5, <3>1, <3>2, <3>3 DEF RowChanged, Reopened, Restore
  <2>3. QED
    BY <1>5, <2>1, <2>2 DEF Restore
<1>6. ASSUME NEW r \in Requests, Undo(r)
      PROVE  RowChanged(b)
  <2>1. bookings'[b] = IF req[r].made = b THEN DeletedRow ELSE bookings[b]
    BY <1>1, <1>6 DEF Undo
  <2>2. QED
    <3>1. DeletedRow.state = "deleted"
      BY DEF DeletedRow, AbsentRow
    <3>2. UNCHANGED origin
      BY <1>6 DEF Undo
    <3>3. QED
      BY <1>6, <2>1, <3>1, <3>2 DEF RowChanged, Erased
<1>7. ASSUME NEW r \in Requests, Insert(r) \/ LostAcknowledgement(r), Store(r)
      PROVE  Inserted(b) \/ RowChanged(b)
  <2>1. CASE req[r].made = b
    BY <1>7, <2>1 DEF Inserted
  <2>2. CASE req[r].made # b
    BY <1>1, <1>7, <2>2 DEF RowChanged, Store
  <2>3. QED
    BY <2>1, <2>2
<1>8. ASSUME NEW r \in Requests, Arrive(r)
      PROVE  RowChanged(b)
  BY <1>2, <1>4, <1>8 DEF Arrive, BeginCreate, BeginReschedule, BeginCancel, BeginAssign
<1>9. ASSUME NEW r \in Requests, Advance(r)
      PROVE  Inserted(b) \/ RowChanged(b)
  <2>1. CASE Load(r) \/ Check(r) \/ InsertDuplicate(r) \/ Record(r) \/ RecordDuplicate(r)
             \/ Resolve(r) \/ Recover(r) \/ WriteAudit(r)
    BY <1>2, <2>1
       DEF Load, Check, InsertDuplicate, Record, RecordDuplicate, Resolve, Recover, WriteAudit
  <2>2. CASE Insert(r)
    BY <1>7, <2>2 DEF Insert
  <2>3. QED
    BY <1>3, <1>5, <1>6, <1>9, <2>1, <2>2 DEF Advance
<1>10. ASSUME NEW r \in Requests, Break(r)
       PROVE  Inserted(b) \/ RowChanged(b)
  BY <1>2, <1>7, <1>10 DEF Break, StorageError, LostAcknowledgement, Crash
<1>11. CASE Expire \/ Tick \/ UNCHANGED vars
  BY <1>2, <1>11 DEF Expire, Tick, vars
<1>12. QED
  BY <1>8, <1>9, <1>10, <1>11 DEF Next

\* What was inserted was not there before.
LEMMA InsertedWasAbsent ==
    ASSUME IInv, NEW b \in Bookings, Inserted(b)
    PROVE  bookings[b].state = "absent"
BY DEF Inserted, Store, IInv, RequestsSound, RequestSound, MadeSound, Drawn, OpSound

-----------------------------------------------------------------------------
(* Moves, where no operation of storage is rejected *)

\* Once it holds a session a request does not come back from the insert, unless storage
\* rejects its key.
LEMMA HolderAdvances ==
    ASSUME IInv, FaultKinds \cap {"error", "unacknowledged"} = {}, [Next]_vars,
           NEW s \in Requests, NEW x \in Bookings, Holding(req'[s]), req'[s].target = x
    PROVE  \/ Confirmed(x)
           \/ /\ Holding(req[s]) /\ req[s].target = x
              /\ req'[s] = req[s] \/ req[s].pc = "insert"
<1>1. req \in [Requests -> Request]
  BY DEF IInv, TypeOK
<1>2. CASE req'[s] = req[s]
  BY <1>2
<1>3. ASSUME NEW code, Reply(s, code)
      PROVE  FALSE
  BY <1>1, <1>3 DEF Reply, Idle, Holding
<1>4. ASSUME NEW p, Goto(s, p)
      PROVE  req'[s].pc = p /\ req'[s].op = req[s].op /\ req'[s].target = req[s].target
  BY <1>1, <1>4 DEF Goto, Request
<1>5. ASSUME Arrive(s)
      PROVE  FALSE
  BY <1>1, <1>5, ArriveMoves DEF Holding, Arrivals
<1>6. CASE Advance(s)
  <2>1. CASE Load(s) \/ Claim(s)
    <3>1. req'[s].pc \in {"idle", "check", "audit"}
      BY <1>1, <2>1 DEF Load, Claim, Reply, Idle, Request
    <3>2. QED
      BY <3>1 DEF Holding
  <2>2. CASE Check(s)
    <3>1. req'[s].pc = "cancel" \/ req'[s].op = "create"
      BY <1>3, <1>4, <2>2 DEF Check, IInv, RequestsSound, RequestSound, OpSound
    <3>2. QED
      BY <3>1 DEF Holding
  <2>3. CASE Release(s)
    BY <1>3, <1>4, <2>3 DEF Release, Withdrawable
  <2>4. CASE Insert(s)
    BY <1>3, <1>4, <2>4 DEF Insert, Store, Holding
  <2>5. CASE InsertDuplicate(s)
    <3>1. CASE req' = [req EXCEPT ![s].pc = "restore", ![s].reply = "SLOT_TAKEN"]
      <4>1. req'[s].op = req[s].op /\ req'[s].target = req[s].target
        BY <1>1, <3>1 DEF Request
      <4>2. QED
        BY <2>5, <4>1 DEF InsertDuplicate, Holding
    <3>2. QED
      BY <1>3, <1>4, <2>5, <3>1 DEF InsertDuplicate, Holding
  <2>6. CASE RecordDuplicate(s) \/ Resolve(s)
    <3>1. req'[s].pc \in {"idle", "resolve", "undo", "recover"}
      BY <1>1, <2>6 DEF RecordDuplicate, Resolve, Reply, Goto, Idle, Request
    <3>2. QED
      BY <3>1 DEF Holding
  <2>7. CASE Cancel(s) \/ Record(s) \/ Undo(s) \/ Recover(s) \/ Restore(s) \/ WriteAudit(s)
    BY <1>3, <2>7 DEF Cancel, Record, Undo, Recover, Restore, WriteAudit
  <2>8. QED
    BY <1>6, <2>1, <2>2, <2>3, <2>4, <2>5, <2>6, <2>7 DEF Advance
<1>7. ASSUME Break(s)
      PROVE  FALSE
  BY <1>3, <1>7 DEF Break, StorageError, LostAcknowledgement, Crash, Fault
<1>8. CASE Expire \/ Tick \/ UNCHANGED vars
  BY <1>2, <1>8 DEF Expire, Tick, vars
<1>9. ASSUME NEW r \in Requests, r # s, Arrive(r) \/ Advance(r) \/ Break(r)
      PROVE  req'[s] = req[s]
  BY <1>9, OthersStay
<1>10. QED
  BY <1>2, <1>5, <1>6, <1>7, <1>8, <1>9 DEF Next

\* A session that was replaced stays replaced.
LEMMA ReplacedKept ==
    ASSUME IInv, FaultKinds \cap {"error", "unacknowledged"} = {}, [Next]_vars,
           NEW b \in Bookings, Replaced(b), origin'[b] = origin[b]
    PROVE  Replaced(b)'
<1> DEFINE old == origin[b].target
<1>1. /\ old \in Bookings /\ bookings[old].state \notin {"confirmed", "absent"}
      /\ \A r \in Requests :
           Holding(req[r]) /\ req[r].target = old => req[r].pc = "record" /\ req[r].made = b
  BY DEF Replaced
<1>2. bookings'[old].state \notin {"confirmed", "absent"}
  <2>1. RowChanged(old)
    BY <1>1, RowChanges, InsertedWasAbsent
  <2>2. ~Reopened(old)
    BY <1>1 DEF Reopened, Restore, Holding, IInv, RequestsSound, RequestSound, OpSound
  <2>3. QED
    BY <1>1, <2>1, <2>2 DEF RowChanged, Confirmed, Erased
<1>3. ASSUME NEW s \in Requests, Holding(req'[s]), req'[s].target = old
      PROVE  req'[s].pc = "record" /\ req'[s].made = b
  BY <1>1, <1>3, HolderAdvances DEF Confirmed
<1>4. QED
  BY <1>1, <1>2, <1>3 DEF Replaced, Holding

\* The insert of a move replaces the session the move holds.
LEMMA ReplacedByInsert ==
    ASSUME IInv, FaultKinds \cap {"error", "unacknowledged"} = {}, [Next]_vars,
           NEW b \in Bookings, Inserted(b), origin'[b].op = "reschedule"
    PROVE  Replaced(b)'
<1>1. PICK r \in Requests : Insert(r) /\ Store(r) /\ req[r].made = b
  BY DEF Inserted, LostAcknowledgement, Fault
<1>2. origin'[b] = CallOf(req[r])
  BY <1>1 DEF Store, IInv, TypeOK
<1>3. req[r].op = "reschedule" /\ origin'[b].target = req[r].target
  BY <1>2 DEF CallOf, CompoundKey
<1>4. Holding(req[r]) /\ req[r].target \in Bookings
  BY <1>1, <1>3 DEF Holding, Store, IInv, RequestsSound, RequestSound, ArgsSound
<1>5. bookings[req[r].target].state \in {"cancelled", "deleted"} /\ bookings[b].state = "absent"
  BY <1>1, <1>4, InsertedWasAbsent DEF Inserted, IInv, RequestsSound, RequestSound, HeldSound
<1>6. bookings'[req[r].target] = bookings[req[r].target]
  BY <1>1, <1>4, <1>5 DEF Store, IInv, TypeOK
<1>7. ASSUME NEW s \in Requests, Holding(req'[s]), req'[s].target = req[r].target
      PROVE  req'[s].pc = "record" /\ req'[s].made = b
  <2>1. Holding(req[s]) /\ req[s].target = req[r].target
    BY <1>4, <1>5, <1>7, HolderAdvances DEF Confirmed
  <2>2. s = r
    BY <1>4, <2>1 DEF IInv, Exclusive
  <2>3. req'[r].pc \in {"record", "idle"} /\ (req'[r].pc = "record" => req'[r].made = b)
    BY <1>1 DEF Insert, Goto, Reply, Idle, IInv, TypeOK, Request
  <2>4. QED
    BY <1>7, <2>2, <2>3 DEF Holding
<1>8. QED
  BY <1>3, <1>4, <1>5, <1>6, <1>7 DEF Replaced, Holding

LEMMA StepReplaced ==
    ASSUME FaultKinds \cap {"error", "unacknowledged"} = {}
    PROVE  IInv /\ AllReplaced /\ [Next]_vars => AllReplaced'
<1> SUFFICES ASSUME IInv, AllReplaced, [Next]_vars, NEW b \in Bookings, Exists(b)',
                    origin'[b].op = "reschedule"
             PROVE  Replaced(b)'
  BY DEF AllReplaced
<1>1. CASE Inserted(b)
  BY <1>1, ReplacedByInsert
<1>2. CASE RowChanged(b)
  <2>1. Exists(b)
    BY <1>2 DEF RowChanged, Confirmed, Reopened, Erased, Exists
  <2>2. Replaced(b) /\ origin'[b] = origin[b]
    BY <1>2, <2>1 DEF AllReplaced, RowChanged
  <2>3. QED
    BY <2>2, ReplacedKept
<1>3. QED
  BY <1>1, <1>2, RowChanges

\* Where no operation of storage is rejected, a session moved by a reschedule and the one
\* that replaces it are never both confirmed, whatever crashes, expires and interleaves:
\* the catch block that takes the old session back after the new one was stored is the
\* only way to a double reservation.
THEOREM MovesReserveOnce ==
    ASSUME FaultKinds \cap {"error", "unacknowledged"} = {}
    PROVE  Spec => []NoDoubleReservation
<1>1. Init => AllReplaced
  BY DEF Init, AllReplaced, Exists, AbsentRow
<1>2. IInv /\ AllReplaced => NoDoubleReservation
  BY DEF AllReplaced, Replaced, NoDoubleReservation, Confirmed, Exists
<1>3. QED
  BY <1>1, <1>2, Invariant, StepReplaced, PTL DEF Spec

-----------------------------------------------------------------------------
(* Keys, as long as no record has been dropped *)

\* Faults are counted: where none has been counted, none happens.
LEMMA NoFaultYet ==
    ASSUME IInv, [Next]_vars, faults' = 0
    PROVE  faults = 0 /\ \A kind : ~Fault(kind)
<1>1. faults \in Nat
  BY DEF IInv, TypeOK
<1>2. ~(faults' = faults + 1)
  BY <1>1
<1>3. faults' = faults \/ faults' = faults + 1
  <2>1. ASSUME NEW r \in Requests, Arrive(r) \/ Advance(r)
        PROVE  faults' = faults
    BY <2>1 DEF Arrive, BeginCreate, BeginReschedule, BeginCancel, BeginAssign, Close, Advance,
         Load, Check, Cancel, Release, Insert, InsertDuplicate, Record, RecordDuplicate,
         Resolve, Undo, Recover, Restore, Claim, WriteAudit
  <2>2. ASSUME NEW r \in Requests, Break(r)
        PROVE  faults' = faults + 1
    BY <2>2 DEF Break, StorageError, LostAcknowledgement, Crash, Fault
  <2>3. QED
    BY <2>1, <2>2 DEF Next, Expire, Fault, Tick, vars
<1>4. QED
  BY <1>2, <1>3 DEF Fault

LEMMA RecordsLast ==
    ASSUME IInv, [Next]_vars, RecordsKept'
    PROVE  RecordsKept /\ idem \subseteq idem'
<1>1. ~Expire /\ RecordsKept
  <2>1. CASE "expiry" \notin FaultKinds
    BY <2>1 DEF RecordsKept, Expire, Fault
  <2>2. CASE faults' = 0
    BY <2>2, NoFaultYet DEF RecordsKept, Expire
  <2>3. QED
    BY <2>1, <2>2 DEF RecordsKept
<1>2. ASSUME NEW r \in Requests, Arrive(r) \/ Advance(r) \/ Break(r)
      PROVE  idem \subseteq idem'
  BY <1>2 DEF Arrive, BeginCreate, BeginReschedule, BeginCancel, BeginAssign, Close, Advance,
       Load, Check, Cancel, Release, Insert, InsertDuplicate, Record, StoreKey, RecordDuplicate,
       Resolve, Undo, Recover, Restore, Claim, WriteAudit, Break, StorageError,
       LostAcknowledgement, Crash
<1>3. QED
  BY <1>1, <1>2 DEF Next, Tick, vars

\* A request that is about to resolve or recover stayed there, or was just sent there.
LEMMA WhoYields ==
    ASSUME IInv, [Next]_vars, NEW s \in Requests, req'[s].pc \in {"resolve", "recover"}
    PROVE  \/ req'[s] = req[s]
           \/ /\ CallOf(req'[s]) = CallOf(req[s]) /\ req'[s].made = req[s].made
              /\ \/ RecordDuplicate(s) /\ req'[s].pc = "resolve"
                 \/ InsertDuplicate(s) /\ req'[s].pc = "recover"
                 \/ Resolve(s) /\ req'[s].pc = "recover" /\ Prior(CallOf(req[s])) = {}
<1>1. req \in [Requests -> Request]
  BY DEF IInv, TypeOK
<1>2. ASSUME NEW code, Reply(s, code)
      PROVE  FALSE
  BY <1>1, <1>2 DEF Reply, Idle
<1>3. ASSUME NEW p, Goto(s, p)
      PROVE  /\ req'[s].pc = p /\ req'[s].made = req[s].made
             /\ CallOf(req'[s]) = CallOf(req[s])
  BY <1>1, <1>3 DEF Goto, Request, CallOf, CompoundKey
<1>4. ASSUME Arrive(s)
      PROVE  FALSE
  BY <1>1, <1>4, ArriveMoves DEF Arrivals
<1>5. CASE Advance(s)
  <2>1. CASE Load(s) \/ Claim(s)
    <3>1. req'[s].pc \in {"idle", "check", "audit"}
      BY <1>1, <2>1 DEF Load, Claim, Reply, Idle, Request
    <3>2. QED
      BY <3>1
  <2>2. CASE RecordDuplicate(s)
    BY <1>2, <1>3, <2>2 DEF RecordDuplicate
  <2>3. CASE InsertDuplicate(s)
    <3>1. ~(req' = [req EXCEPT ![s].pc = "restore", ![s].reply = "SLOT_TAKEN"])
      BY <1>1 DEF Request
    <3>2. QED
      BY <1>2, <1>3, <2>3, <3>1 DEF InsertDuplicate
  <2>4. CASE Resolve(s)
    <3>1. ASSUME NEW p, req' = [req EXCEPT ![s].pc = "undo", ![s].prior = p]
          PROVE  FALSE
      BY <1>1, <3>1 DEF Request
    <3>2. QED
      BY <1>3, <2>4, <3>1 DEF Resolve
  <2>5. CASE Check(s) \/ Cancel(s) \/ Release(s) \/ Insert(s) \/ Record(s)
    BY <1>2, <1>3, <2>5 DEF Check, Cancel, Release, Insert, Record
  <2>6. CASE Undo(s) \/ Recover(s) \/ Restore(s) \/ WriteAudit(s)
    BY <1>2, <2>6 DEF Undo, Recover, Restore, WriteAudit
  <2>7. QED
    BY <1>5, <2>1, <2>2, <2>3, <2>4, <2>5, <2>6 DEF Advance
<1>6. ASSUME Break(s)
      PROVE  FALSE
  <2>1. ASSUME Raise(s)
        PROVE  FALSE
    <3>1. CASE req' = [req EXCEPT ![s].pc = "restore", ![s].reply = "error"]
      BY <1>1, <3>1 DEF Request
    <3>2. QED
      BY <1>2, <2>1, <3>1 DEF Raise
  <2>2. QED
    BY <1>2, <1>6, <2>1 DEF Break, StorageError, LostAcknowledgement, Crash
<1>7. ASSUME NEW r \in Requests, r # s, Arrive(r) \/ Advance(r) \/ Break(r)
      PROVE  req'[s] = req[s]
  BY <1>7, OthersStay
<1>8. CASE Expire \/ Tick \/ UNCHANGED vars
  BY <1>8 DEF Expire, Tick, vars
<1>9. QED
  BY <1>4, <1>5, <1>6, <1>7, <1>8 DEF Next

\* The record a create yields to leads to a booking, so it is always found.
LEMMA TwinIsFound ==
    ASSUME IInv, AllYield, NEW r \in Requests, req[r].pc = "resolve"
    PROVE  Prior(CallOf(req[r])) # {}
<1>1. PICK rec \in idem : rec.call = CallOf(req[r])
  BY DEF AllYield, Yields, Recorded
<1>2. rec \in IdemRow /\ Exists(rec.booking)
  BY <1>1 DEF IInv, TypeOK, KeyLeadsHome
<1>3. rec.booking \in Bookings /\ rec = [call |-> CallOf(req[r]), booking |-> rec.booking]
  BY <1>1, <1>2 DEF IdemRow
<1>4. QED
  BY <1>2, <1>3 DEF Prior

LEMMA StepYield ==
    IInv /\ (RecordsKept => AllYield) /\ [Next]_vars => (RecordsKept => AllYield)'
<1> SUFFICES ASSUME IInv, RecordsKept => AllYield, [Next]_vars, RecordsKept', NEW s \in Requests
             PROVE  Yields(req[s])'
  BY DEF AllYield
<1>0. AllYield
  BY RecordsLast
<1>1. ASSUME req'[s].pc = "resolve"
      PROVE  Recorded(CallOf(req[s]))'
  <2>1. Recorded(CallOf(req[s])) /\ CallOf(req'[s]) = CallOf(req[s])
    BY <1>0, <1>1, WhoYields DEF AllYield, Yields, RecordDuplicate
  <2>2. QED
    BY <2>1, RecordsLast DEF Recorded, CallOf
<1>2. ASSUME req'[s].pc = "recover"
      PROVE  bookings'[req'[s].made].state = "absent"
  <2>1. /\ req'[s].made = req[s].made
        /\ req[s].pc \in {"insert", "recover"} /\ req[s].op = "create"
        /\ req[s].pc = "insert" => InsertDuplicate(s)
    <3>1. CASE req'[s] = req[s]
      BY <1>2, <3>1 DEF IInv, RequestsSound, RequestSound, OpSound
    <3>2. CASE InsertDuplicate(s) /\ req'[s].made = req[s].made
      <4>1. req[s].op = "create"
        BY <1>2, <3>2 DEF InsertDuplicate, IInv, TypeOK, Request
      <4>2. QED
        BY <3>2, <4>1 DEF InsertDuplicate
    <3>3. ~(Resolve(s) /\ Prior(CallOf(req[s])) = {})
      BY <1>0, TwinIsFound DEF Resolve
    <3>4. QED
      BY <1>2, <3>1, <3>2, <3>3, WhoYields
  <2>2. req[s].made \in Bookings /\ bookings[req[s].made].state = "absent"
    BY <1>0, <2>1 DEF IInv, RequestsSound, RequestSound, ArgsSound, MadeSound, Drawn, AllYield, Yields
  <2>3. CASE Inserted(req[s].made)
    <3>1. PICK r \in Requests : Store(r) /\ (Insert(r) \/ LostAcknowledgement(r)) /\ req[r].made = req[s].made
      BY <2>3 DEF Inserted
    <3>2. r = s
      BY <2>2, <3>1, ConstantsAssumption DEF IInv, Exclusive
    <3>3. QED
      BY <2>1, <3>1, <3>2 DEF Store, InsertDuplicate
  <2>4. CASE RowChanged(req[s].made)
    <3>1. ~Reopened(req[s].made) /\ ~Confirmed(req[s].made)
      BY <2>2 DEF Reopened, Exists, Confirmed
    <3>2. ASSUME NEW r \in Requests, Undo(r), req[r].made = req[s].made
          PROVE  FALSE
      <4>1. r = s
        BY <2>2, <3>2, ConstantsAssumption DEF IInv, Exclusive
      <4>2. QED
        BY <2>1, <3>2, <4>1 DEF Undo
    <3>3. QED
      BY <2>1, <2>2, <2>4, <3>1, <3>2 DEF RowChanged, Erased
  <2>5. QED
    BY <2>2, <2>3, <2>4, RowChanges
<1>3. QED
  BY <1>1, <1>2 DEF Yields

LEMMA InitYield == Init => AllYield
BY DEF Init, AllYield, Yields, Idle

\* Where idempotency records do not expire, or nothing has failed yet, a create that
\* answers SLOT_TAKEN leaves no confirmed row behind, whatever interleaves (and, in the
\* first case, whatever fails and crashes): the twin it lost its key to is found, and its
\* own row is undone before it answers.
THEOREM RefusalsLeaveNothing == Spec => RefusedLeavesNothing
<1> DEFINE NothingLeft ==
             \A r \in Requests :
               RecordsKept' /\ req[r].op = "create" /\ Ends(r, "SLOT_TAKEN") =>
                 bookings'[req[r].made].state # "confirmed"
<1>1. IInv /\ (RecordsKept => AllYield) /\ [Next]_vars => [NothingLeft]_vars
  <2> SUFFICES ASSUME IInv, RecordsKept => AllYield, Next, NEW r \in Requests, RecordsKept',
                      req[r].op = "create", Ends(r, "SLOT_TAKEN")
               PROVE  bookings'[req[r].made].state # "confirmed"
    OBVIOUS
  <2>0. AllYield
    BY RecordsLast
  <2>1. req'[r] # req[r] /\ req[r].pc # "idle" /\ req'[r].reply = "SLOT_TAKEN"
    BY DEF Ends, InFlight
  <2>2. ASSUME NEW code, Reply(r, code)
        PROVE  code = "SLOT_TAKEN"
    BY <2>1, <2>2 DEF Reply, Idle, IInv, TypeOK
  <2>3. ASSUME NEW p, Goto(r, p)
        PROVE  p = "idle"
    BY <2>3 DEF Goto, Ends, IInv, TypeOK, Request
  <2>4. Advance(r) \/ Break(r)
    <3>1. ~Arrive(r)
      BY <2>1 DEF Arrive, BeginCreate, BeginReschedule, BeginCancel, BeginAssign, Close, InFlight
    <3>2. ~Expire /\ ~Tick
      BY <2>1 DEF Expire, Tick
    <3>3. QED
      BY <2>1, <3>1, <3>2, OthersStay DEF Next
  <2>5. ~Break(r)
    <3>1. ~Raise(r)
      BY <2>2 DEF Raise
    <3>2. QED
      BY <2>2, <3>1 DEF Break, StorageError, LostAcknowledgement, Crash
  <2>6. Check(r) \/ InsertDuplicate(r) \/ Recover(r)
    <3>1. ~Load(r) /\ ~Release(r) /\ ~Restore(r) /\ ~Claim(r) /\ ~WriteAudit(r) /\ ~Cancel(r)
      BY DEF Load, Release, Restore, Claim, WriteAudit, Cancel, IInv, RequestsSound,
             RequestSound, OpSound
    <3>2. ~Insert(r) /\ ~Record(r) /\ ~RecordDuplicate(r) /\ ~Undo(r)
      BY <2>2, <2>3 DEF Insert, Record, RecordDuplicate, Undo
    <3>3. ~Resolve(r)
      <4>1. ASSUME NEW p, req' = [req EXCEPT ![r].pc = "undo", ![r].prior = p]
            PROVE  FALSE
        BY <4>1 DEF Ends, IInv, TypeOK, Request
      <4>2. QED
        BY <2>3, <4>1 DEF Resolve
    <3>4. QED
      BY <2>4, <2>5, <3>1, <3>2, <3>3 DEF Advance
  <2>7. bookings[req[r].made].state = "absent" /\ UNCHANGED bookings
    BY <2>0, <2>6 DEF Check, InsertDuplicate, Recover, IInv, RequestsSound, RequestSound,
                      MadeSound, Drawn, AllYield, Yields
  <2>8. QED
    BY <2>7
<1>2. QED
  BY <1>1, Invariant, InitYield, StepYield, PTL DEF Spec, RefusedLeavesNothing

-----------------------------------------------------------------------------
(* Keys, as long as nothing has failed *)

LEMMA StepUnique == IInv /\ KeysUnique /\ [Next]_vars => KeysUnique'
<1> SUFFICES ASSUME IInv, KeysUnique, [Next]_vars
             PROVE  KeysUnique'
  OBVIOUS
<1>1. idem' \subseteq idem => KeysUnique'
  BY DEF KeysUnique
<1>2. ASSUME NEW r \in Requests, StoreKey(r)
      PROVE  KeysUnique'
  BY <1>2 DEF StoreKey, KeysUnique, Recorded
<1>3. ASSUME NEW r \in Requests, Arrive(r) \/ Advance(r) \/ Break(r), ~StoreKey(r)
      PROVE  idem' = idem
  BY <1>3 DEF Arrive, BeginCreate, BeginReschedule, BeginCancel, BeginAssign, Close, Advance,
       Load, Check, Cancel, Release, Insert, InsertDuplicate, Record, RecordDuplicate, Resolve,
       Undo, Recover, Restore, Claim, WriteAudit, Break, StorageError, LostAcknowledgement, Crash
<1>4. CASE Expire \/ Tick \/ UNCHANGED vars
  BY <1>1, <1>4 DEF Expire, Tick, vars
<1>5. QED
  BY <1>1, <1>2, <1>3, <1>4 DEF Next

\* A row that is undecided stays so, or its key comes to lead to it, or it is gone.
LEMMA UndecidedSettles ==
    ASSUME IInv, AllYield, faults' = 0, [Next]_vars,
           NEW x \in Bookings, NEW r \in Requests, Undecided(r, x),
           origin'[x] = origin[x], Exists(x)'
    PROVE  Settles(x)'
<1>1. req \in [Requests -> Request] /\ bookings \in [Bookings -> BookingRow]
  BY DEF IInv, TypeOK
<1>2. ASSUME req'[r].op = "create", req'[r].made = x, req'[r].pc \in {"record", "resolve", "undo"}
      PROVE  Settles(x)'
  BY <1>2 DEF Settles, Undecided
<1>3. CASE req'[r] = req[r]
  BY <1>2, <1>3 DEF Undecided
<1>4. CASE Record(r)
  <2>1. origin[x] = CallOf(req[r])
    BY DEF Undecided, IInv, RequestsSound, RequestSound, MadeSound, Unrecorded
  <2>2. [call |-> origin[x], booking |-> x] \in idem'
    BY <1>4, <2>1 DEF Record, StoreKey, Undecided
  <2>3. QED
    BY <2>2 DEF Settles
<1>5. CASE RecordDuplicate(r)
  BY <1>1, <1>2, <1>5 DEF RecordDuplicate, Goto, Undecided, Request
<1>6. CASE Resolve(r)
  <2>1. PICK p : req' = [req EXCEPT ![r].pc = "undo", ![r].prior = p]
    BY <1>6, TwinIsFound DEF Resolve
  <2>2. req'[r].pc = "undo" /\ req'[r].op = req[r].op /\ req'[r].made = req[r].made
    BY <1>1, <2>1 DEF Request
  <2>3. QED
    BY <1>2, <2>2 DEF Undecided
<1>7. ~Undo(r)
  <2>1. DeletedRow.state = "deleted"
    BY DEF DeletedRow, AbsentRow
  <2>2. QED
    BY <1>1, <2>1 DEF Undo, Undecided, Exists
<1>8. ASSUME Arrive(r) \/ Advance(r) \/ Break(r)
      PROVE  Record(r) \/ RecordDuplicate(r) \/ Resolve(r)
  <2>1. ~Arrive(r)
    BY DEF Undecided, Arrive, BeginCreate, BeginReschedule, BeginCancel, BeginAssign, Close, InFlight
  <2>2. ~Break(r)
    BY NoFaultYet DEF Break, StorageError, LostAcknowledgement, Crash
  <2>3. QED
    BY <1>7, <1>8, <2>1, <2>2
       DEF Undecided, Advance, Load, Check, Cancel, Release, Insert, Store, InsertDuplicate,
           Recover, Restore, Claim, WriteAudit
<1>9. ASSUME NEW s \in Requests, s # r, Arrive(s) \/ Advance(s) \/ Break(s)
      PROVE  req'[r] = req[r]
  BY <1>9, OthersStay
<1>10. CASE Expire \/ Tick \/ UNCHANGED vars
  BY <1>3, <1>10 DEF Expire, Tick, vars
<1>11. QED
  BY <1>3, <1>4, <1>5, <1>6, <1>8, <1>9, <1>10 DEF Next

LEMMA StepSettle ==
    /\ IInv /\ [Next]_vars
    /\ RecordsKept => AllYield
    /\ faults = 0 => AllSettle
    => (faults = 0 => AllSettle)'
<1> SUFFICES ASSUME IInv, RecordsKept => AllYield, faults = 0 => AllSettle, [Next]_vars,
                    faults' = 0, NEW x \in Bookings, Exists(x)',
                    origin'[x].op = "create", origin'[x].key # None
             PROVE  Settles(x)'
  BY DEF AllSettle
<1>0. AllYield /\ AllSettle /\ RecordsKept'
  BY NoFaultYet DEF RecordsKept
<1>1. CASE Inserted(x)
  <2>1. PICK r \in Requests : Insert(r) /\ Store(r) /\ req[r].made = x
    BY <1>1, NoFaultYet DEF Inserted, LostAcknowledgement
  <2>2. origin'[x] = CallOf(req[r])
    BY <2>1 DEF Store, IInv, TypeOK
  <2>3. req[r].op = "create" /\ req[r].key # None
    BY <2>2 DEF CallOf, CompoundKey
  <2>4. req'[r].pc = "record" /\ req'[r].op = "create" /\ req'[r].made = x
    BY <2>1, <2>3 DEF Insert, Goto, IInv, TypeOK, Request
  <2>5. QED
    BY <2>4 DEF Settles, Undecided
<1>2. CASE RowChanged(x)
  <2>1. Exists(x)
    BY <1>2 DEF RowChanged, Confirmed, Reopened, Erased, Exists
  <2>2. Settles(x) /\ origin'[x] = origin[x]
    BY <1>0, <1>2, <2>1 DEF AllSettle, RowChanged
  <2>3. CASE [call |-> origin[x], booking |-> x] \in idem
    BY <1>0, <2>2, <2>3, RecordsLast DEF Settles
  <2>4. QED
    BY <1>0, <2>2, <2>3, UndecidedSettles DEF Settles
<1>3. QED
  BY <1>1, <1>2, RowChanges

\* As long as nothing has failed, one idempotency key makes one reservation, for any
\* number of twin requests: of two rows created under one key one is about to be undone by
\* a request that has not answered.  (One crash between the insert and the record breaks
\* it.)
THEOREM OneKeyOneReservation == Spec => []KeyMakesOne
<1>1. Init => AllYield /\ AllSettle /\ KeysUnique
  BY InitYield DEF Init, AllSettle, KeysUnique, Exists, AbsentRow
<1>2. (faults = 0 => AllSettle) /\ KeysUnique => KeyMakesOne
  <2> SUFFICES ASSUME faults = 0 => AllSettle, KeysUnique, faults = 0,
                      NEW x \in Bookings, NEW y \in Bookings, x # y,
                      Exists(x), Exists(y), origin[x] = origin[y],
                      origin[x].op = "create", origin[x].key # None
               PROVE  \E r \in Requests : Undecided(r, x) \/ Undecided(r, y)
    BY DEF KeyMakesOne
  <2>1. Settles(x) /\ Settles(y)
    BY DEF AllSettle
  <2>2. ~([call |-> origin[x], booking |-> x] \in idem /\ [call |-> origin[y], booking |-> y] \in idem)
    BY DEF KeysUnique
  <2>3. QED
    BY <2>1, <2>2 DEF Settles
<1>3. QED
  BY <1>1, <1>2, Invariant, StepYield, StepUnique, StepSettle, PTL DEF Spec

-----------------------------------------------------------------------------
(* The reservation book *)

\* A step of a request changes at most one row and what that one request holds.
\* First, which entries of the book that leaves alone.

Step(r) == Arrive(r) \/ Advance(r) \/ Break(r)

SameHold(r, b) == Holds(r, b)' <=> Holds(r, b)

\* A session that nobody gets hold of or lets go of keeps its entry; so does a
\* row that has been deleted under its holder.
LEMMA EntryStays ==
    ASSUME IInv, NEW r \in Requests, Step(r), NEW b \in Bookings,
           bookings'[b] = bookings[b],
           SameHold(r, b) \/ bookings[b].state # "cancelled"
    PROVE  EntryOf(b)' = EntryOf(b)
<1>1. SameHold(r, b) => \A s \in Requests : Holds(s, b)' <=> Holds(s, b)
  BY OthersStay DEF Step, SameHold, Holds
<1>2. Moving(b)' <=> Moving(b)
  BY <1>1 DEF Moving
<1>3. Phase(b)' = Phase(b)
  BY <1>2 DEF Phase
<1>4. QED
  BY <1>3 DEF EntryOf

LEMMA EntriesStay ==
    ASSUME \A b \in Bookings : EntryOf(b)' = EntryOf(b)
    PROVE  UNCHANGED Entries
BY DEF Entries

LEMMA EntriesChange ==
    ASSUME NEW b \in Bookings, NEW e, EntryOf(b)' = e,
           \A x \in Bookings \ {b} : EntryOf(x)' = EntryOf(x)
    PROVE  Entries' = [Entries EXCEPT ![b] = e]
BY DEF Entries

LEMMA EntryAt ==
    ASSUME NEW b \in Bookings
    PROVE  Entries[b] = EntryOf(b)
BY DEF Entries

\* The entry of a row in each of its states.
LEMMA PhaseOf ==
    ASSUME IInv, NEW b \in Bookings
    PROVE  /\ bookings[b].state = "absent" <=> Phase(b) = "unused"
           /\ bookings[b].state = "deleted" <=> Phase(b) = "removed"
           /\ Confirmed(b) <=> Phase(b) = "standing"
           /\ Moving(b) <=> Phase(b) = "moving"
BY DEF IInv, TypeOK, BookingRow, States, Outcomes, Phase, PhaseName, Moving, Confirmed

\* What an entry says is what its row says.
LEMMA EntryFields ==
    ASSUME NEW b \in Bookings
    PROVE  /\ Entries[b].phase = Phase(b)
           /\ Entries[b].employee = bookings[b].employee
           /\ Entries[b].consultant = bookings[b].consultant
           /\ Entries[b].slot = bookings[b].slot
           /\ Entries[b].assigned = bookings[b].assigned
BY DEF Entries, EntryOf

\* The entry after a step, from the row after the step.
LEMMA PhaseAfter ==
    ASSUME NEW b \in Bookings
    PROVE  /\ bookings'[b].state = "confirmed" => Phase(b)' = "standing"
           /\ bookings'[b].state = "deleted" => Phase(b)' = "removed"
           /\ bookings'[b].state = "cancelled" /\ Moving(b)' => Phase(b)' = "moving"
           /\ bookings'[b].state \in Outcomes /\ ~Moving(b)' =>
                Phase(b)' = bookings'[b].state
BY DEF Phase, PhaseName, Moving, Outcomes

LEMMA TakenIsIndexed ==
    ASSUME IInv, NEW b \in Bookings, NEW row, ~Indexed(b, row)
    PROVE  ~Book!Taken(b, row.consultant, row.slot)
<1>1. ASSUME NEW x \in Bookings \ {b}, Entries[x].phase = "standing",
             Entries[x].consultant = row.consultant,
             Entries[x].slot.start = row.slot.start
      PROVE  FALSE
  <2>1. /\ Confirmed(x)
        /\ bookings[x].consultant = row.consultant
        /\ bookings[x].slot.start = row.slot.start
    <3>1. Entries[x] = EntryOf(x)
      BY EntryAt
    <3>2. Confirmed(x) <=> Phase(x) = "standing"
      BY PhaseOf
    <3>3. QED
      BY <1>1, <3>1, <3>2 DEF EntryOf
  <2>2. QED
    BY <2>1 DEF Indexed
<1>2. QED
  BY <1>1 DEF Book!Taken

\* An answered request holds nothing.
LEMMA ReplyHolds ==
    ASSUME IInv, NEW r \in Requests, NEW code, Reply(r, code)
    PROVE  \A b \in Bookings : ~Holds(r, b)'
<1>1. req'[r].pc = "idle"
  BY DEF Reply, Idle, IInv, TypeOK
<1>2. QED
  BY <1>1 DEF Holds

\* While a request holds a session nobody else does.
LEMMA OneHolder ==
    ASSUME IInv, NEW r \in Requests, NEW b \in Bookings, Holds(r, b),
           NEW s \in Requests, Holds(s, b)
    PROVE  s = r
BY DEF IInv, Exclusive, Holds, Holding

-----------------------------------------------------------------------------
(* The four ways a step touches the book *)

\* It changes no row and holds what it held.
LEMMA Quiet ==
    ASSUME IInv, NEW r \in Requests, Step(r), UNCHANGED bookings,
           \A b \in Bookings : SameHold(r, b)
    PROVE  UNCHANGED Entries
BY EntryStays, EntriesStay

\* It changes no row and lets go of the session it held, if any.
LEMMA LetGo ==
    ASSUME IInv, NEW r \in Requests, Step(r), UNCHANGED bookings,
           \A b \in Bookings : ~Holds(r, b)'
    PROVE  Book!Next \/ UNCHANGED Entries
<1>1. CASE \E b \in Bookings : Holds(r, b) /\ bookings[b].state = "cancelled"
  <2>1. PICK b \in Bookings : Holds(r, b) /\ bookings[b].state = "cancelled"
    BY <1>1
  <2>2. \A x \in Bookings \ {b} : SameHold(r, x)
    BY <2>1 DEF SameHold, Holds
  <2>3. \A x \in Bookings \ {b} : EntryOf(x)' = EntryOf(x)
    BY <2>2, EntryStays
  <2>4. \A s \in Requests : ~Holds(s, b)'
    BY <2>1, OneHolder, OthersStay DEF Step, Holds
  <2>5. Moving(b) /\ ~Moving(b)'
    BY <2>1, <2>4 DEF Moving
  <2>6. Phase(b)' = "cancelled" /\ Phase(b) = "moving"
    <3>1. bookings'[b].state = "cancelled"
      BY <2>1
    <3>2. Phase(b)' = "cancelled"
      BY <2>5, <3>1, PhaseAfter DEF Outcomes
    <3>3. QED
      BY <2>5, <3>2, PhaseOf
  <2>7. EntryOf(b)' = [EntryOf(b) EXCEPT !.phase = "cancelled"]
    BY <2>6 DEF EntryOf
  <2>8. Entries' = [Entries EXCEPT ![b] = [EntryOf(b) EXCEPT !.phase = "cancelled"]]
    BY <2>3, <2>7, EntriesChange
  <2>9. Book!Drop(b)
    <3>1. Entries[b] = EntryOf(b) /\ Entries[b].phase = "moving"
      BY <2>6, EntryAt, EntryFields
    <3>2. Entries' = [Entries EXCEPT ![b].phase = "cancelled"]
      BY <2>8, <3>1
    <3>3. QED
      BY <3>1, <3>2 DEF Book!Drop
  <2>10. QED
    BY <2>9 DEF Book!Next
<1>2. CASE \A b \in Bookings : Holds(r, b) => bookings[b].state # "cancelled"
  <2>1. \A b \in Bookings : SameHold(r, b) \/ bookings[b].state # "cancelled"
    BY <1>2 DEF SameHold
  <2>2. QED
    BY <2>1, EntryStays, EntriesStay
<1>3. QED
  BY <1>1, <1>2

LEMMA Answers ==
    ASSUME IInv, NEW r \in Requests, Step(r), UNCHANGED bookings,
           NEW code, Reply(r, code)
    PROVE  Book!Next \/ UNCHANGED Entries
BY LetGo, ReplyHolds

\* It changes the row of one session.
LEMMA OneEntry ==
    ASSUME IInv, NEW r \in Requests, Step(r), NEW b \in Bookings,
           \A x \in Bookings \ {b} : /\ bookings'[x] = bookings[x]
                                     /\ SameHold(r, x) \/ bookings[x].state # "cancelled"
    PROVE  Entries' = [Entries EXCEPT ![b] = EntryOf(b)']
<1>1. \A x \in Bookings \ {b} : EntryOf(x)' = EntryOf(x)
  BY EntryStays
<1>2. QED
  BY <1>1, EntriesChange

\* Of the one entry that changes, only the phase and the assignee do.
SameSession(b) ==
    /\ bookings'[b].employee = bookings[b].employee
    /\ bookings'[b].consultant = bookings[b].consultant
    /\ bookings'[b].slot = bookings[b].slot

LEMMA Relabelled ==
    ASSUME IInv, NEW r \in Requests, Step(r), NEW b \in Bookings,
           \A x \in Bookings \ {b} : bookings'[x] = bookings[x] /\ SameHold(r, x),
           SameSession(b), bookings'[b].assigned = bookings[b].assigned
    PROVE  Entries' = [Entries EXCEPT ![b].phase = Phase(b)']
<1>1. EntryOf(b)' = [EntryOf(b) EXCEPT !.phase = Phase(b)']
  BY DEF EntryOf, SameSession
<1>2. Entries[b] = EntryOf(b)
  BY EntryAt
<1>3. Entries' = [Entries EXCEPT ![b] = EntryOf(b)']
  BY OneEntry
<1>4. QED
  BY <1>1, <1>2, <1>3

\* Two entries that agree on whose session it is and when.
Shaped(V) == [phase : V, employee : V, consultant : V, slot : V, assigned : V]

LEMMA ShapedWith ==
    ASSUME NEW V, NEW e \in Shaped(V), NEW f \in Shaped(V),
           f.employee = e.employee, f.consultant = e.consultant, f.slot = e.slot
    PROVE  f = [e EXCEPT !.phase = f.phase, !.assigned = f.assigned]
BY DEF Shaped

LEMMA Reassigned ==
    ASSUME IInv, NEW r \in Requests, Step(r), NEW b \in Bookings,
           \A x \in Bookings \ {b} : bookings'[x] = bookings[x] /\ SameHold(r, x),
           SameSession(b), Phase(b)' = "standing"
    PROVE  Entries' = [Entries EXCEPT ![b].phase = "standing",
                                      ![b].assigned = bookings'[b].assigned]
<1> DEFINE a == bookings'[b].assigned
<1>1. EntryOf(b)' = [EntryOf(b) EXCEPT !.phase = "standing", !.assigned = a]
  <2> DEFINE V == {Phase(b), "standing", bookings[b].employee, bookings[b].consultant,
                    bookings[b].slot, bookings[b].assigned, a}
  <2>1. PICK e, f : e = EntryOf(b) /\ f = EntryOf(b)'
    OBVIOUS
  <2>2. e \in Shaped(V)
    BY <2>1 DEF EntryOf, Shaped
  <2>3. f \in Shaped(V)
    BY <2>1 DEF EntryOf, Shaped, SameSession
  <2>4. /\ f.employee = e.employee /\ f.consultant = e.consultant /\ f.slot = e.slot
        /\ f.phase = "standing" /\ f.assigned = a
    BY <2>1 DEF EntryOf, SameSession
  <2> HIDE DEF V
  <2>5. f = [e EXCEPT !.phase = "standing", !.assigned = a]
    BY <2>2, <2>3, <2>4, ShapedWith
  <2>6. QED
    BY <2>1, <2>5
<1>2. Entries[b] = EntryOf(b)
  BY EntryAt
<1>3. Entries' = [Entries EXCEPT ![b] = [EntryOf(b) EXCEPT !.phase = "standing", !.assigned = a]]
  BY <1>1, OneEntry
<1>4. Entries' = [Entries EXCEPT ![b] = [Entries[b] EXCEPT !.phase = "standing", !.assigned = a]]
  BY <1>2, <1>3
<1>5. b \in DOMAIN Entries
  BY DEF Entries
<1> HIDE DEF a
<1>6. [Entries EXCEPT ![b] = [Entries[b] EXCEPT !.phase = "standing", !.assigned = a]]
        = [Entries EXCEPT ![b].phase = "standing", ![b].assigned = a]
  BY <1>5
<1>7. QED
  BY <1>4, <1>6 DEF a

LEMMA NobodyMoves ==
    ASSUME IInv, NEW r \in Requests, Step(r), NEW b \in Bookings, Confirmed(b), ~Holds(r, b)'
    PROVE  ~Moving(b)'
<1>1. \A s \in Requests : ~Holds(s, b)'
  BY HeldIsNotConfirmed, OthersStay DEF Step, Holds
<1>2. QED
  BY <1>1 DEF Moving

\* What the insert of a row needs and does.
LEMMA StoredEntry ==
    ASSUME IInv, NEW r \in Requests, Store(r), NEW m, m = req[r].made
    PROVE  /\ m \in Bookings /\ req[r].employee \in Employees
           /\ req[r].consultant \in Consultants /\ req[r].slot \in Slots
           /\ bookings' = [bookings EXCEPT ![m] = Draft(req[r])]
           /\ bookings[m].state = "absent"
           /\ Entries[m].phase = "unused"
           /\ ~Book!Taken(m, req[r].consultant, req[r].slot)
           /\ EntryOf(m)' =
                Book!Standing(req[r].employee, req[r].consultant, req[r].slot)
<1> DEFINE q == req[r]
<1>1. /\ m \in Bookings /\ q.employee \in Employees
      /\ q.consultant \in Consultants /\ q.slot \in Slots
      /\ bookings[m].state = "absent"
  BY DEF IInv, RequestsSound, RequestSound, OpSound, ArgsSound, MadeSound, Drawn, Store
<1>2. bookings' = [bookings EXCEPT ![m] = Draft(q)] /\ ~Indexed(m, Draft(q))
  BY DEF Store
<1>3. Entries[m].phase = "unused"
  BY <1>1, EntryFields, PhaseOf
<1>4. Draft(q).consultant = q.consultant /\ Draft(q).slot = q.slot
  BY DEF Draft
<1>5. ~Book!Taken(m, q.consultant, q.slot)
  <2>1. ~Book!Taken(m, Draft(q).consultant, Draft(q).slot)
    BY <1>1, <1>2, TakenIsIndexed
  <2>2. QED
    BY <1>4, <2>1
<1>6. bookings'[m] = Draft(q)
  BY <1>1, <1>2 DEF IInv, TypeOK
<1>7. EntryOf(m)' = Book!Standing(q.employee, q.consultant, q.slot)
  <2>1. /\ bookings'[m].state = "confirmed" /\ bookings'[m].employee = q.employee
        /\ bookings'[m].consultant = q.consultant /\ bookings'[m].slot = q.slot
        /\ bookings'[m].assigned = None
    BY <1>6 DEF Draft
  <2>2. Phase(m)' = "standing"
    BY <1>1, <2>1, PhaseAfter
  <2>3. EntryOf(m)' = [phase |-> Phase(m)', employee |-> bookings'[m].employee,
                       consultant |-> bookings'[m].consultant,
                       slot |-> bookings'[m].slot, assigned |-> bookings'[m].assigned]
    BY DEF EntryOf
  <2>4. QED
    BY <2>1, <2>2, <2>3 DEF Book!Standing
<1>8. QED
  BY <1>1, <1>2, <1>3, <1>5, <1>7

\* It inserts a row and holds what it held.
LEMMA Reserves ==
    ASSUME IInv, NEW r \in Requests, Step(r), Store(r),
           \A b \in Bookings : SameHold(r, b) \/ bookings[b].state # "cancelled"
    PROVE  Book!Next
<1> PICK m : m = req[r].made
  OBVIOUS
<1> PICK e, c, t : e = req[r].employee /\ c = req[r].consultant /\ t = req[r].slot
  OBVIOUS
<1>1. /\ m \in Bookings /\ e \in Employees /\ c \in Consultants /\ t \in Slots
      /\ bookings' = [bookings EXCEPT ![m] = Draft(req[r])]
      /\ Entries[m].phase = "unused" /\ ~Book!Taken(m, c, t)
      /\ EntryOf(m)' = Book!Standing(e, c, t)
  BY StoredEntry
<1>2. \A x \in Bookings \ {m} : bookings'[x] = bookings[x]
  BY <1>1 DEF IInv, TypeOK
<1>3. Entries' = [Entries EXCEPT ![m] = EntryOf(m)']
  BY <1>1, <1>2, OneEntry
<1>4. Entries' = [Entries EXCEPT ![m] = Book!Standing(e, c, t)]
  BY <1>1, <1>3
<1>5. Book!Reserve(m)
  BY <1>1, <1>4 DEF Book!Reserve
<1>6. QED
  BY <1>1, <1>5 DEF Book!Next

-----------------------------------------------------------------------------
(* Which step of the book each step of a request is *)

BookStep == Book!Next \/ UNCHANGED Entries

\* An operation other than a reschedule holds nothing.
LEMMA OthersHoldNothing ==
    ASSUME NEW r \in Requests, req[r].op # "reschedule",
           req'[r].pc = "idle" \/ req'[r].op = req[r].op \/ req'[r].op # "reschedule"
    PROVE  \A b \in Bookings : ~Holds(r, b) /\ ~Holds(r, b)'
BY DEF Holds

LEMMA GoesTo ==
    ASSUME IInv, NEW r \in Requests, NEW p, Goto(r, p)
    PROVE  /\ req'[r].pc = p /\ req'[r].op = req[r].op
           /\ req'[r].target = req[r].target
BY DEF IInv, TypeOK, Request, Goto

LEMMA ArriveIsABookStep ==
    ASSUME IInv, NEW r \in Requests, Arrive(r)
    PROVE  BookStep
<1>1. \A b \in Bookings : ~Holds(r, b)'
  BY ArriveMoves DEF IInv, TypeOK, Holds, Arrivals
<1>2. req[r].pc = "idle"
  BY DEF Arrive, BeginCreate, BeginReschedule, BeginCancel, BeginAssign, Close, InFlight
<1>3. \A b \in Bookings : SameHold(r, b)
  BY <1>1, <1>2 DEF SameHold, Holds
<1>4. CASE UNCHANGED bookings
  BY <1>3, <1>4, Quiet DEF Step, BookStep
<1>5. ASSUME NEW c \in Consultants, NEW b \in Bookings, NEW call \in ClosureCalls,
             Close(r, c, b, call[1], call[2]), bookings' # bookings
      PROVE  BookStep
  <2> PICK outcome, reason : outcome = call[1] /\ reason = call[2]
    OBVIOUS
  <2>1. /\ bookings' = [bookings EXCEPT ![b] = Closed(bookings[b], outcome, reason)]
        /\ Closable(b, c) /\ outcome \in Outcomes
    BY <1>5, ConstantsAssumption DEF Close
  <2>2. /\ bookings'[b] = [bookings[b] EXCEPT !.state = outcome, !.closure = reason]
        /\ bookings[b] \in BookingRow
        /\ \A x \in Bookings \ {b} : bookings'[x] = bookings[x]
    BY <2>1 DEF IInv, TypeOK, Closed
  <2>3. /\ bookings'[b].state = outcome /\ SameSession(b)
        /\ bookings'[b].assigned = bookings[b].assigned
    BY <2>2 DEF BookingRow, SameSession
  <2>4. Confirmed(b) /\ bookings[b].assigned # None
    BY <2>1, ConstantsAssumption DEF Closable
  <2>5. Phase(b)' = outcome
    BY <1>1, <2>1, <2>3, <2>4, NobodyMoves, PhaseAfter DEF Step
  <2>6. Entries' = [Entries EXCEPT ![b].phase = Phase(b)']
    BY <1>3, <2>2, <2>3, Relabelled DEF Step
  <2>9. Entries' = [Entries EXCEPT ![b].phase = outcome]
    BY <2>5, <2>6
  <2>10. Entries[b].phase = "standing" /\ Entries[b].assigned # None
    BY <2>4, EntryFields, PhaseOf
  <2>11. Book!Close(b, outcome)
    BY <2>9, <2>10 DEF Book!Close
  <2>12. QED
    BY <2>1, <2>11 DEF Book!Next, BookStep, Outcomes
<1>6. QED
  BY <1>4, <1>5 DEF Arrive, BeginCreate, BeginReschedule, BeginCancel, BeginAssign

\* The two updates of a confirmed row to cancelled.
LEMMA WithdrawnEntry ==
    ASSUME IInv, NEW r \in Requests, Step(r), NEW b \in Bookings, Confirmed(b),
           bookings' = [bookings EXCEPT ![b].state = "cancelled"],
           \A x \in Bookings \ {b} : SameHold(r, x)
    PROVE  /\ Entries' = [Entries EXCEPT ![b].phase = Phase(b)']
           /\ Entries[b].phase = "standing"
           /\ Holds(r, b)' => Phase(b)' = "moving"
           /\ ~Holds(r, b)' => Phase(b)' = "cancelled"
<1>1. /\ bookings'[b] = [bookings[b] EXCEPT !.state = "cancelled"]
      /\ bookings[b] \in BookingRow
      /\ \A x \in Bookings \ {b} : bookings'[x] = bookings[x]
  BY DEF IInv, TypeOK
<1>2. /\ bookings'[b].state = "cancelled" /\ SameSession(b)
      /\ bookings'[b].assigned = bookings[b].assigned
  BY <1>1 DEF BookingRow, SameSession
<1>6. Entries' = [Entries EXCEPT ![b].phase = Phase(b)']
  BY <1>1, <1>2, Relabelled
<1>7. Entries[b].phase = "standing"
  BY EntryFields, PhaseOf
<1>8. Holds(r, b)' => Phase(b)' = "moving"
  BY <1>2, PhaseAfter DEF Moving
<1>9. ~Holds(r, b)' => Phase(b)' = "cancelled"
  BY <1>2, NobodyMoves, PhaseAfter DEF Outcomes
<1>10. QED
  BY <1>6, <1>7, <1>8, <1>9

LEMMA CancelIsABookStep ==
    ASSUME IInv, NEW r \in Requests, Cancel(r)
    PROVE  BookStep
<1>1. Step(r)
  BY DEF Step, Advance
<1>2. \A code : Reply(r, code) => \A b \in Bookings : ~Holds(r, b)'
  BY ReplyHolds
<1>3. CASE UNCHANGED bookings
  BY <1>1, <1>2, <1>3, LetGo DEF Cancel, BookStep
<1>4. CASE bookings' # bookings
  <2> PICK b : b = req[r].target
    OBVIOUS
  <2>1. /\ Withdrawable(b, req[r].employee) /\ req[r].op = "cancel"
        /\ bookings' = [bookings EXCEPT ![b].state = "cancelled"]
    BY <1>4 DEF Cancel
  <2>2. b \in Bookings
    BY <2>1 DEF IInv, RequestsSound, RequestSound, ArgsSound
  <2>3. \A x \in Bookings : ~Holds(r, x)' /\ SameHold(r, x)
    BY <1>2, <2>1 DEF Cancel, SameHold, Holds
  <2>4. /\ Entries' = [Entries EXCEPT ![b].phase = Phase(b)']
        /\ Entries[b].phase = "standing" /\ Phase(b)' = "cancelled"
    BY <1>1, <2>1, <2>2, <2>3, WithdrawnEntry DEF Withdrawable
  <2>5. Book!Withdraw(b)
    BY <2>4 DEF Book!Withdraw
  <2>6. QED
    BY <2>2, <2>5 DEF Book!Next, BookStep
<1>5. QED
  BY <1>3, <1>4

LEMMA ReleaseIsABookStep ==
    ASSUME IInv, NEW r \in Requests, Release(r)
    PROVE  BookStep
<1>1. Step(r)
  BY DEF Step, Advance
<1>2. CASE UNCHANGED bookings /\ Reply(r, "SLOT_TAKEN")
  BY <1>1, <1>2, Answers DEF BookStep
<1>3. CASE ~(UNCHANGED bookings /\ Reply(r, "SLOT_TAKEN"))
  <2> PICK b : b = req[r].target
    OBVIOUS
  <2>1. /\ Withdrawable(b, req[r].employee) /\ Goto(r, "insert")
        /\ req[r].op = "reschedule" /\ req[r].pc = "cancel"
        /\ bookings' = [bookings EXCEPT ![b].state = "cancelled"]
    BY <1>3 DEF Release
  <2>2. b \in Bookings
    BY <2>1 DEF IInv, RequestsSound, RequestSound, ArgsSound
  <2>3. /\ Holds(r, b)'
        /\ \A x \in Bookings \ {b} : SameHold(r, x)
    BY <2>1, GoesTo DEF SameHold, Holds
  <2>4. /\ Entries' = [Entries EXCEPT ![b].phase = Phase(b)']
        /\ Entries[b].phase = "standing" /\ Phase(b)' = "moving"
    BY <1>1, <2>1, <2>2, <2>3, WithdrawnEntry DEF Withdrawable
  <2>5. Book!Lift(b)
    BY <2>4 DEF Book!Lift
  <2>6. QED
    BY <2>2, <2>5 DEF Book!Next, BookStep
<1>4. QED
  BY <1>2, <1>3

\* With a key the request goes on holding the old session; without one the
\* answer lets go of it, and the session has moved.
LEMMA InsertIsABookStep ==
    ASSUME IInv, NEW r \in Requests, Insert(r)
    PROVE  BookStep
<1>1. Step(r) /\ Store(r) /\ req[r].pc = "insert"
  BY DEF Step, Advance, Insert, Store
<1>2. CASE \A b \in Bookings : SameHold(r, b) \/ bookings[b].state # "cancelled"
  BY <1>1, <1>2, Reserves DEF BookStep
<1>3. ASSUME NEW b \in Bookings, ~SameHold(r, b), bookings[b].state = "cancelled"
      PROVE  BookStep
  <2>1. Reply(r, "ok")
    BY <1>1, <1>3, GoesTo DEF Insert, SameHold, Holds
  <2>2. \A x \in Bookings : ~Holds(r, x)'
    BY <2>1, ReplyHolds
  <2>3. Holds(r, b) /\ req[r].op = "reschedule" /\ b = req[r].target
    BY <1>3, <2>2 DEF SameHold, Holds
  <2>4. \A x \in Bookings \ {b} : SameHold(r, x)
    BY <2>2, <2>3 DEF SameHold, Holds
  <2> PICK m : m = req[r].made
    OBVIOUS
  <2> PICK c, t : c = req[r].consultant /\ t = req[r].slot
    OBVIOUS
  <2>5. bookings[b].employee = req[r].employee
    BY <1>1, <1>3, <2>3 DEF IInv, RequestsSound, RequestSound, HeldSound, Holding, Exists
  <2>6. /\ m \in Bookings /\ c \in Consultants /\ t \in Slots
        /\ bookings' = [bookings EXCEPT ![m] = Draft(req[r])]
        /\ bookings[m].state = "absent"
        /\ Entries[m].phase = "unused" /\ ~Book!Taken(m, c, t)
        /\ EntryOf(m)' = Book!Standing(bookings[b].employee, c, t)
    BY <1>1, <2>5, StoredEntry
  <2>7. /\ \A x \in Bookings \ {m} : bookings'[x] = bookings[x]
        /\ b # m
    BY <1>3, <2>6 DEF IInv, TypeOK
  <2>8. \A x \in Bookings \ {b, m} : EntryOf(x)' = EntryOf(x)
    BY <1>1, <2>4, <2>7, EntryStays
  <2>9. Moving(b) /\ ~Moving(b)'
    <3>1. \A s \in Requests : ~Holds(s, b)'
      BY <1>1, <2>2, <2>3, OneHolder, OthersStay DEF Step, Holds
    <3>2. QED
      BY <1>3, <2>3, <3>1 DEF Moving
  <2>10. Phase(b)' = "cancelled" /\ Phase(b) = "moving"
    <3>1. bookings'[b].state = "cancelled"
      BY <1>3, <2>7
    <3>2. QED
      BY <2>9, <3>1, PhaseAfter, PhaseOf DEF Outcomes
  <2>11. EntryOf(b)' = [EntryOf(b) EXCEPT !.phase = "cancelled"]
    <3>1. bookings'[b] = bookings[b]
      BY <2>7
    <3>2. QED
      BY <2>10, <3>1 DEF EntryOf
  <2>12. /\ Entries[b] = EntryOf(b) /\ Entries[b].phase = "moving"
         /\ Entries[b].employee = bookings[b].employee
    BY <2>10, EntryAt, EntryFields
  <2>13. Entries' = [Entries EXCEPT ![b].phase = "cancelled",
                                    ![m] = Book!Standing(Entries[b].employee, c, t)]
    <3>1. /\ EntryOf(b)' = [Entries[b] EXCEPT !.phase = "cancelled"]
          /\ EntryOf(m)' = Book!Standing(Entries[b].employee, c, t)
      BY <2>6, <2>11, <2>12
    <3>2. Entries' = [Entries EXCEPT ![b] = EntryOf(b)', ![m] = EntryOf(m)']
      BY <2>6, <2>7, <2>8 DEF Entries
    <3>3. QED
      BY <3>1, <3>2
  <2>14. Book!Transfer(b, m)
    BY <2>6, <2>12, <2>13 DEF Book!Transfer
  <2>15. QED
    BY <2>6, <2>14 DEF Book!Next, BookStep
<1>4. QED
  BY <1>2, <1>3

LEMMA UndoIsABookStep ==
    ASSUME IInv, NEW r \in Requests, Undo(r)
    PROVE  BookStep
<1> PICK m : m = req[r].made
  OBVIOUS
<1>1. /\ Step(r) /\ Reply(r, "ok")
      /\ bookings' = [bookings EXCEPT ![m] = DeletedRow]
  BY DEF Step, Advance, Undo
<1>2. req[r].op = "create" /\ m \in Bookings /\ Exists(m)
  BY DEF Undo, IInv, RequestsSound, RequestSound, OpSound, ArgsSound, MadeSound, Unrecorded
<1>3. \A x \in Bookings : SameHold(r, x)
  BY <1>1, <1>2, ReplyHolds DEF SameHold, Holds
<1>4. /\ bookings'[m] = DeletedRow
      /\ \A x \in Bookings \ {m} : bookings'[x] = bookings[x]
  BY <1>1, <1>2 DEF IInv, TypeOK
<1>5. /\ bookings'[m].state = "deleted" /\ bookings'[m].employee = None
      /\ bookings'[m].consultant = None /\ bookings'[m].slot = None
      /\ bookings'[m].assigned = None
  BY <1>4 DEF DeletedRow, AbsentRow
<1>6. Phase(m)' = "removed"
  BY <1>2, <1>5, PhaseAfter
<1>7. EntryOf(m)' = Book!Blank("removed")
  BY <1>5, <1>6 DEF EntryOf, Book!Blank
<1>8. Entries' = [Entries EXCEPT ![m] = EntryOf(m)']
  BY <1>1, <1>2, <1>3, <1>4, OneEntry
<1>9. Entries' = [Entries EXCEPT ![m] = Book!Blank("removed")]
  BY <1>7, <1>8
<1>10. Entries[m].phase \notin {"unused", "removed"}
  BY <1>2, EntryFields, PhaseOf DEF Exists
<1>11. Book!Remove(m)
  BY <1>9, <1>10 DEF Book!Remove
<1>12. QED
  BY <1>2, <1>11 DEF Book!Next, BookStep

LEMMA RestoreIsABookStep ==
    ASSUME IInv, NEW r \in Requests, Restore(r)
    PROVE  BookStep
<1>1. Step(r) /\ req[r].op = "reschedule" /\ req[r].target \in Bookings
  BY DEF Step, Advance, Restore, IInv, RequestsSound, RequestSound, OpSound, ArgsSound
<1>2. \A code : Reply(r, code) => \A b \in Bookings : ~Holds(r, b)'
  BY ReplyHolds
<1>3. \A b \in Bookings : ~Holds(r, b)'
  BY <1>2 DEF Restore
<1>4. CASE UNCHANGED bookings
  BY <1>1, <1>3, <1>4, LetGo DEF BookStep
<1>5. CASE bookings' # bookings
  <2> PICK q, b : q = req[r] /\ b = req[r].target
    OBVIOUS
  <2>1. /\ Restorable(q) /\ ~Indexed(b, Restored(q))
        /\ bookings' = [bookings EXCEPT ![b] = Restored(q)]
        /\ b \in Bookings /\ b = q.target
    BY <1>1, <1>5 DEF Restore
  <2>2. /\ bookings[b].state = "cancelled" /\ bookings[b] \in BookingRow
        /\ \A x \in Bookings \ {b} : bookings'[x] = bookings[x]
        /\ bookings'[b] = [bookings[b] EXCEPT !.state = "confirmed",
                                              !.awaiting = q.snapshot.awaiting,
                                              !.assigned = q.snapshot.assigned]
    BY <2>1 DEF IInv, TypeOK, Restorable, Restored
  <2>3. /\ SameSession(b) /\ bookings'[b].state = "confirmed"
        /\ bookings'[b].assigned = q.snapshot.assigned
    BY <2>2 DEF BookingRow, SameSession
  <2>4. q.snapshot.assigned \in {None, bookings[b].consultant}
    BY <1>1, <2>1, <2>2 DEF IInv, RequestsSound, RequestSound, SnapshotSound, Restore, Exists
  <2>5. Holds(r, b)
    BY <1>1 DEF Restore, Holds
  <2>6. \A x \in Bookings \ {b} : SameHold(r, x)
    BY <1>3 DEF SameHold, Holds
  <2>7. Phase(b)' = "standing"
    BY <2>1, <2>3, PhaseAfter
  <2>8. Entries' = [Entries EXCEPT ![b].phase = "standing",
                                   ![b].assigned = q.snapshot.assigned]
    <3>1. Entries' = [Entries EXCEPT ![b].phase = "standing",
                                     ![b].assigned = bookings'[b].assigned]
      BY <1>1, <2>1, <2>2, <2>3, <2>6, <2>7, Reassigned
    <3>2. QED
      BY <2>3, <3>1
  <2>9. /\ Entries[b].phase = "moving"
        /\ Entries[b].consultant = bookings[b].consultant
        /\ Entries[b].slot = bookings[b].slot
    <3>1. Moving(b)
      BY <2>2, <2>5 DEF Moving
    <3>2. QED
      BY <2>1, <3>1, EntryFields, PhaseOf
  <2>10. ~Book!Taken(b, Entries[b].consultant, Entries[b].slot)
    <3>1. ~Book!Taken(b, Restored(q).consultant, Restored(q).slot)
      BY <2>1, TakenIsIndexed
    <3>2. Restored(q).consultant = bookings[b].consultant /\ Restored(q).slot = bookings[b].slot
      BY <2>1, <2>2 DEF Restored, BookingRow
    <3>3. QED
      BY <2>9, <3>1, <3>2
  <2>11. Book!Resume(b)
    BY <2>4, <2>8, <2>9, <2>10 DEF Book!Resume
  <2>12. QED
    BY <2>1, <2>11 DEF Book!Next, BookStep
<1>6. QED
  BY <1>4, <1>5

LEMMA ClaimIsABookStep ==
    ASSUME IInv, NEW r \in Requests, Claim(r)
    PROVE  BookStep
<1>1. /\ Step(r) /\ req[r].op = "assign"
      /\ req[r].target \in Bookings /\ req[r].consultant \in Consultants
  BY DEF Step, Advance, Claim, IInv, RequestsSound, RequestSound, OpSound, ArgsSound
<1>2. req'[r].op = "assign" \/ \A b \in Bookings : ~Holds(r, b)'
  <2>1. CASE Reply(r, "ALREADY_CLAIMED")
    BY <2>1, ReplyHolds
  <2>2. CASE ~Reply(r, "ALREADY_CLAIMED")
    BY <1>1, <2>2 DEF Claim, IInv, TypeOK, Request
  <2>3. QED
    BY <2>1, <2>2
<1>3. \A b \in Bookings : ~Holds(r, b)' /\ SameHold(r, b)
  BY <1>1, <1>2 DEF SameHold, Holds
<1>4. CASE UNCHANGED bookings
  BY <1>1, <1>3, <1>4, Quiet DEF BookStep
<1>5. CASE bookings' # bookings
  <2> PICK b, c : b = req[r].target /\ c = req[r].consultant
    OBVIOUS
  <2>1. /\ Claimable(b, c) /\ b \in Bookings
        /\ bookings' = [bookings EXCEPT ![b].awaiting = FALSE, ![b].assigned = c]
    BY <1>1, <1>5 DEF Claim
  <2>2. /\ bookings[b] \in BookingRow
        /\ \A x \in Bookings \ {b} : bookings'[x] = bookings[x]
        /\ bookings'[b] = [bookings[b] EXCEPT !.awaiting = FALSE, !.assigned = c]
    BY <2>1 DEF IInv, TypeOK
  <2>3. /\ Confirmed(b) /\ bookings[b].consultant = c /\ bookings[b].assigned = None
    BY <2>1 DEF Claimable, Confirmed, IInv, RowsSound, RowSound, Live
  <2>4. /\ SameSession(b) /\ bookings'[b].assigned = c /\ bookings'[b].state = "confirmed"
    BY <2>2, <2>3 DEF BookingRow, SameSession, Confirmed
  <2>5. Phase(b)' = "standing"
    BY <1>1, <1>3, <2>1, <2>3, <2>4, NobodyMoves, PhaseAfter
  <2>6. Entries' = [Entries EXCEPT ![b].phase = "standing", ![b].assigned = bookings'[b].assigned]
    BY <1>1, <1>3, <2>1, <2>2, <2>4, <2>5, Reassigned
  <2>7. /\ Entries[b].phase = "standing" /\ Entries[b].consultant = c
        /\ Entries[b].assigned = None
    BY <2>1, <2>3, EntryFields, PhaseOf
  <2>8. [Entries EXCEPT ![b].phase = "standing"] = Entries
    BY <2>1, <2>7, EntryAt DEF Entries, EntryOf
  <2>9. Entries' = [Entries EXCEPT ![b].assigned = Entries[b].consultant]
    BY <2>4, <2>6, <2>7, <2>8
  <2>10. Book!Claim(b)
    BY <2>7, <2>9 DEF Book!Claim
  <2>11. QED
    BY <2>1, <2>10 DEF Book!Next, BookStep
<1>6. QED
  BY <1>4, <1>5

\* The steps that change no row and either answer or hold on.
LEMMA ReadingIsABookStep ==
    ASSUME IInv, NEW r \in Requests,
           \/ Load(r) \/ Check(r) \/ InsertDuplicate(r) \/ Record(r) \/ RecordDuplicate(r)
           \/ Resolve(r) \/ Recover(r) \/ WriteAudit(r)
    PROVE  BookStep
<1>1. Step(r) /\ UNCHANGED bookings
  BY DEF Step, Advance, Load, Check, InsertDuplicate, Record, RecordDuplicate, Resolve,
         Recover, WriteAudit
<1>2. ASSUME NEW code, Reply(r, code)
      PROVE  BookStep
  BY <1>1, <1>2, Answers DEF BookStep
<1>3. ASSUME \A b \in Bookings : SameHold(r, b)
      PROVE  BookStep
  BY <1>1, <1>3, Quiet DEF BookStep
<1>4. ASSUME Load(r)
      PROVE  BookStep
  <2>1. CASE req'[r].pc = "check"
    BY <1>3, <1>4, <2>1 DEF Load, SameHold, Holds
  <2>2. CASE req'[r].pc # "check"
    BY <1>2, <1>4, <2>2 DEF Load, IInv, TypeOK, Request
  <2>3. QED
    BY <2>1, <2>2
<1>5. ASSUME NEW p, Goto(r, p),
             \/ req[r].op = "create"
             \/ req[r].pc = "check" /\ p = "cancel"
      PROVE  BookStep
  <2>1. \A b \in Bookings : SameHold(r, b)
    BY <1>5, GoesTo DEF SameHold, Holds
  <2>2. QED
    BY <1>3, <2>1
<1>6. ASSUME Check(r)
      PROVE  BookStep
  <2>1. req[r].op \in {"create", "reschedule"}
    BY <1>6 DEF Check, IInv, RequestsSound, RequestSound, OpSound
  <2>2. QED
    BY <1>2, <1>5, <1>6, <2>1 DEF Check
<1>7. ASSUME InsertDuplicate(r)
      PROVE  BookStep
  <2>1. CASE req[r].op = "create"
    BY <1>2, <1>5, <1>7, <2>1 DEF InsertDuplicate
  <2>2. CASE req[r].op = "reschedule"
    <3>1. /\ req[r].pc = "insert" /\ req'[r].pc = "restore" /\ req'[r].op = req[r].op
          /\ req'[r].target = req[r].target
      BY <1>7, <2>2 DEF InsertDuplicate, IInv, TypeOK, Request
    <3>2. \A b \in Bookings : SameHold(r, b)
      BY <3>1 DEF SameHold, Holds
    <3>3. QED
      BY <1>3, <3>2
  <2>3. QED
    BY <1>7, <2>1, <2>2 DEF InsertDuplicate
<1>8. ASSUME Record(r) \/ RecordDuplicate(r) \/ Recover(r) \/ WriteAudit(r)
      PROVE  BookStep
  BY <1>2, <1>5, <1>8 DEF Record, RecordDuplicate, Recover, WriteAudit
<1>9. ASSUME Resolve(r)
      PROVE  BookStep
  <2>1. req[r].op = "create"
    BY <1>9 DEF Resolve, IInv, RequestsSound, RequestSound, OpSound
  <2>2. req'[r].op = req[r].op
    BY <1>9, GoesTo DEF Resolve, IInv, TypeOK, Request
  <2>3. \A b \in Bookings : SameHold(r, b)
    BY <2>1, <2>2 DEF SameHold, Holds
  <2>4. QED
    BY <1>3, <2>3
<1>10. QED
  BY <1>4, <1>6, <1>7, <1>8, <1>9

\* Where an error is caught the request holds on; elsewhere it lets go.
LEMMA RaiseHolds ==
    ASSUME IInv, NEW r \in Requests, Raise(r)
    PROVE  \/ \A b \in Bookings : SameHold(r, b)
           \/ Reply(r, "error") /\ ~(req[r].op = "reschedule" /\ req[r].pc \in {"insert", "record"})
<1>1. CASE req[r].op = "reschedule" /\ req[r].pc \in {"insert", "record"}
  <2>1. /\ req'[r].pc = "restore" /\ req'[r].op = req[r].op
        /\ req'[r].target = req[r].target
    BY <1>1 DEF Raise, IInv, TypeOK, Request
  <2>2. QED
    BY <1>1, <2>1 DEF SameHold, Holds
<1>2. CASE ~(req[r].op = "reschedule" /\ req[r].pc \in {"insert", "record"})
  BY <1>2 DEF Raise
<1>3. QED
  BY <1>1, <1>2

LEMMA BreakIsABookStep ==
    ASSUME IInv, NEW r \in Requests, Break(r)
    PROVE  BookStep
<1>1. Step(r)
  BY DEF Step
<1>2. ASSUME NEW code, Reply(r, code), UNCHANGED bookings
      PROVE  BookStep
  BY <1>1, <1>2, Answers DEF BookStep
<1>3. CASE StorageError(r)
  BY <1>1, <1>2, <1>3, RaiseHolds, Quiet DEF StorageError, BookStep
<1>4. CASE Crash(r)
  BY <1>2, <1>4 DEF Crash
<1>5. CASE LostAcknowledgement(r)
  <2>1. CASE UNCHANGED bookings
    BY <1>1, <1>2, <1>5, <2>1, RaiseHolds, Quiet DEF LostAcknowledgement, BookStep
  <2>2. CASE Store(r)
    <3>1. \A b \in Bookings : SameHold(r, b)
      <4>1. CASE Reply(r, "error") /\ req[r].op # "reschedule"
        BY <4>1, ReplyHolds DEF SameHold, Holds
      <4>2. QED
        BY <1>5, <2>2, <4>1, RaiseHolds DEF LostAcknowledgement, Store
    <3>2. QED
      BY <1>1, <2>2, <3>1, Reserves DEF BookStep
  <2>3. QED
    BY <1>5, <2>1, <2>2 DEF LostAcknowledgement
<1>6. QED
  BY <1>3, <1>4, <1>5 DEF Break

-----------------------------------------------------------------------------
(* The refinement *)

LEMMA InitBook == Init => Book!Init
<1> SUFFICES ASSUME Init PROVE Entries = [b \in Bookings |-> Book!Blank("unused")]
  BY DEF Book!Init
<1>1. ASSUME NEW b \in Bookings
      PROVE  EntryOf(b) = Book!Blank("unused")
  <2>1. bookings[b] = AbsentRow
    BY DEF Init
  <2>2. Phase(b) = "unused"
    BY <2>1 DEF AbsentRow, Phase, PhaseName, Moving
  <2>3. QED
    BY <2>1, <2>2 DEF EntryOf, AbsentRow, Book!Blank
<1>2. QED
  BY <1>1 DEF Entries

LEMMA NextIsABookStep ==
    ASSUME IInv, [Next]_vars
    PROVE  BookStep
<1>1. ASSUME NEW r \in Requests, Arrive(r) \/ Advance(r) \/ Break(r)
      PROVE  BookStep
  BY <1>1, ArriveIsABookStep, CancelIsABookStep, ReleaseIsABookStep, InsertIsABookStep,
     UndoIsABookStep, RestoreIsABookStep, ClaimIsABookStep, ReadingIsABookStep,
     BreakIsABookStep DEF Advance
<1>2. CASE UNCHANGED <<bookings, req>>
  <2>1. \A b \in Bookings : EntryOf(b)' = EntryOf(b)
    BY <1>2 DEF EntryOf, Phase, Moving, Holds
  <2>2. QED
    BY <2>1, EntriesStay DEF BookStep
<1>3. QED
  BY <1>1, <1>2 DEF Next, vars, Expire, Tick

\* The bookings collection is a reservation book, whatever its requests do and
\* whichever of the faults strikes: every step of Booking is a step of the book
\* or leaves the book alone.
THEOREM BookIsImplemented == Spec => ImplementsBook
<1>1. IInv /\ [Next]_vars => [Book!Step]_Entries
  BY NextIsABookStep DEF BookStep, Book!Step
<1>2. QED
  BY <1>1, InitBook, Invariant, PTL DEF Spec, ImplementsBook, Book!Spec

=============================================================================
