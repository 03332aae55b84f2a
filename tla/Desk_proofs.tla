----------------------------- MODULE Desk_proofs -----------------------------
(***************************************************************************)
(* What is proved of the desk.  Of the calendar, for any number of rows,   *)
(* slots, requests and edits: the slot of a customer is sold once, and     *)
(* what the staff decided about a booking of Naver stands.  Of the parking *)
(* lane, for any number of requests, cars, faults and discounts of other   *)
(* shops: a request adds its discount once, SUCCESS is real, and so is     *)
(* what the reservation shows.  Of the notifications, for any number of    *)
(* phones, senders, wakeups, days and losses: a phone is woken and told    *)
(* once, and one that missed nothing was told everything.  Of the stamps   *)
(* and coupons of a member, for any number of reservations, callers and    *)
(* plans and any goal: a coupon is spent once, by the row that stands as   *)
(* paid with it, and coupons and the stamps they took agree.               *)
(***************************************************************************)
EXTENDS Calendar, Parking, PushDelivery, MemberCoupons, TLAPS, WellFoundedInduction, FiniteSetTheorems

\* An import that waits carries the key that goes with its status, and a status
\* of completed only while the row is one that the store has completed; an edit
\* has seen only rows of Naver whose slot is overridden.
Stands(t) ==
  /\ t.pc \in {"importLook", "write"} /\ t.op = "import" =>
       /\ t.state = "completed" => t.seen # NoRow /\ store[t.row]
       /\ t.pc = "write" /\ t.state \in Closed => t.key = NoKey
  /\ t.pc \in {"look", "write"} /\ t.op \in Edits => (t.seen.over => t.row \in Naver)
RequestsStand == \A q \in Requests : Stands(req[q])

CInv == CalendarTypeOK /\ CustomerSlot /\ StoreDecides /\ RequestsStand

-----------------------------------------------------------------------------
(* The operators.                                                          *)

\* A request says what it is by its pc and its operation.
LEMMA RequestIs ==
  ASSUME NEW t \in Request
  PROVE  /\ t.pc = "idle" => t = Idle
         /\ t.pc = "insert" => t \in [pc : {"insert"}, row : Web, to : Slots]
         /\ t.pc = "delete" => t \in [pc : {"delete"}, row : Rows]
         /\ t.pc = "event" => t \in [pc : {"event"}, row : Rows, seen : Booking]
         /\ t.pc \in {"look", "write"} /\ t.op = "create" =>
              t \in [pc : {"look", "write"}, op : {"create"}, row : Staff, to : Slots, seen : {NoRow}, key : SlotKey]
         /\ t.pc \in {"look", "write"} /\ t.op \in Edits =>
              t \in [pc : {"look", "write"}, op : Edits, row : Rows, to : Slots, seen : Booking \ {NoRow},
                     key : SlotKey]
         /\ t.pc = "importLook" \/ (t.pc = "write" /\ t.op = "import") =>
              t \in [pc : {"importLook", "write"}, op : {"import"}, row : Naver, seen : Booking, key : SlotKey,
                     state : Live \cup Closed, from : Slots, to : Slots]
         /\ t.pc = "look" => t.op \in {"create"} \cup Edits
         /\ t.pc = "write" => t.op \in {"create", "import"} \cup Edits
  BY DEF Request, Idle, Edits

\* A row is none, or has a status and a slot.
LEMMA BookingIs ==
  ASSUME NEW b \in Booking
  PROVE  /\ b.status = "none" <=> b = NoRow
         /\ b # NoRow => b \in [status : Live \cup Closed, slot : Slots, key : SlotKey, over : BOOLEAN]
         /\ b.key \in SlotKey /\ b.over \in BOOLEAN
         /\ NoRow.key = NoKey /\ NoRow.over = FALSE /\ NoRow.status = "none"
<1>1. NoRow.key = NoKey /\ NoRow.over = FALSE /\ NoRow.status = "none"
  BY DEF NoRow
<1>2. CASE b = NoRow
  BY <1>1, <1>2 DEF SlotKey
<1>3. CASE b \in [status : Live \cup Closed, slot : Slots, key : SlotKey, over : BOOLEAN]
  <2>1. b.status \in Live \cup Closed /\ b.key \in SlotKey /\ b.over \in BOOLEAN
    BY <1>3
  <2>2. b.status # "none"
    BY <2>1 DEF Live, Closed
  <2> QED
    BY <1>1, <1>3, <2>1, <2>2
<1> QED
  BY <1>2, <1>3 DEF Booking

\* The keys of a slot.
LEMMA KeysAre ==
  ASSUME NEW s \in Slots
  PROVE  /\ Canonical(s) \in SlotKey /\ Own(s) \in SlotKey /\ NoKey \in SlotKey
         /\ Canonical(s) # NoKey /\ Canonical(s)[2] = TRUE /\ Own(s)[2] = FALSE
         /\ \A r \in Rows : AdminKey(r, s) \in SlotKey
  BY DEF Canonical, Own, SlotKey, NoKey, AdminKey

\* A nonempty set of times has a first one.
LEMMA FirstTime ==
  ASSUME NEW S \in SUBSET Times, S # {}
  PROVE  Min(S) \in S
<1> DEFINE R == {ss \in Nat \X Nat : ss[1] < ss[2]}
<1>1. IsWellFoundedOn(R, Nat)
  BY NatLessThanWellFounded DEF OpToRel
<1>2. S \subseteq Nat
  BY CalendarConstants
<1> HIDE DEF R
<1>3. PICK m \in S : \A y \in S : ~(<<y, m>> \in R)
  BY <1>1, <1>2, WFMin
<1>4. ASSUME NEW y \in S PROVE m <= y
  <2>1. <<y, m>> \notin R
    BY <1>3
  <2>2. <<y, m>> \in Nat \X Nat /\ <<y, m>>[1] = y /\ <<y, m>>[2] = m
    BY <1>2
  <2>3. ~(y < m)
    BY <2>1, <2>2 DEF R
  <2> QED
    BY <1>2, <2>3
<1> QED
  BY <1>4 DEF Min

\* A write of one row, and a step that writes none.
LEMMA ReqWrite ==
  ASSUME CInv, NEW q \in Requests, NEW t \in Request, Stands(t), req' = [req EXCEPT ![q] = t],
         done' \in [Rows -> BOOLEAN], UNCHANGED <<row, edited, placed, store>>
  PROVE  CInv'
<1>1. RowsOK' /\ SlotsApart' /\ MarksOK'
  BY DEF CInv, CalendarTypeOK, RowsOK, SlotsApart, MarksOK
<1>2. req' \in [Requests -> Request]
  BY DEF CInv, CalendarTypeOK
<1>3. CustomerSlot' /\ StoreDecides'
  BY DEF CInv, CustomerSlot, StoreDecides, StaysPlaced, CompletedByStore, IsLive
<1>4. ASSUME NEW x \in Requests PROVE Stands(req[x])'
  <2>1. CASE x = q
    BY <2>1 DEF CInv, CalendarTypeOK, Stands
  <2>2. CASE x # q
    BY <2>2 DEF CInv, CalendarTypeOK, Stands, RequestsStand
  <2> QED
    BY <2>1, <2>2
<1> QED
  BY <1>1, <1>2, <1>3, <1>4 DEF CInv, CalendarTypeOK, RequestsStand

\* What the handlers promise of the row they write.
Sound(r, b) ==
  /\ b.over => r \in Naver
  /\ b.key = NoKey \/ KeyFree(r, b.key)
LEMMA RowWrite ==
  ASSUME CInv, NEW r \in Rows, NEW b \in Booking, Sound(r, b), row' = [row EXCEPT ![r] = b],
         MarksOK', req' \in [Requests -> Request],
         \A q \in Requests : req'[q] = req[q] \/ req'[q].pc \in {"idle", "event"},
         \A x \in Rows \ {r} : edited'[x] = edited[x] /\ placed'[x] = placed[x],
         \A x \in Rows : store[x] => store'[x],
         ~edited'[r] => /\ b.status \in Closed => b.key = NoKey
                        /\ r \in Web /\ b.status \in Live => b.key = Canonical(b.slot),
         b.over => b.slot = placed'[r],
         b.status = "completed" => store'[r]
  PROVE  CInv'
<1>0. row \in [Rows -> Booking] /\ row'[r] = b /\ \A x \in Rows \ {r} : row'[x] = row[x]
  BY DEF CInv, CalendarTypeOK, RowsOK
<1>1. RowsOK'
  BY <1>0 DEF CInv, CalendarTypeOK, RowsOK, Sound
<1>2. SlotsApart'
  BY <1>0 DEF CInv, CalendarTypeOK, SlotsApart, Sound, KeyFree
<1>3. CustomerSlot'
  BY <1>0 DEF CInv, CustomerSlot, IsLive
<1>4. StoreDecides'
  BY <1>0 DEF CInv, StoreDecides, StaysPlaced, CompletedByStore, Rows
<1>5. ASSUME NEW q \in Requests PROVE Stands(req[q])'
  <2>1. CASE req'[q].pc \in {"idle", "event"}
    BY <2>1 DEF Stands
  <2>2. CASE req'[q] = req[q] /\ req[q].pc \in {"importLook", "write"} /\ req[q].op = "import"
    <3>1. req[q].row \in Rows
      BY <2>2, RequestIs DEF CInv, CalendarTypeOK, Rows
    <3> QED
      BY <2>2, <3>1 DEF CInv, RequestsStand, Stands
  <2>3. CASE req'[q] = req[q] /\ ~(req[q].pc \in {"importLook", "write"} /\ req[q].op = "import")
    BY <2>3 DEF Stands, CInv, RequestsStand
  <2> QED
    BY <2>1, <2>2, <2>3
<1> QED
  BY <1>1, <1>2, <1>3, <1>4, <1>5 DEF CInv, CalendarTypeOK, RequestsStand
-----------------------------------------------------------------------------
(* The web and the status.                                                 *)

\* Nothing is asked, and the marks are clear, at the beginning.
LEMMA InitInv == CalendarInit => CInv
<1> SUFFICES ASSUME CalendarInit PROVE CInv
  OBVIOUS
<1>1. \A r \in Rows : row[r] = NoRow /\ ~edited[r]
  BY DEF CalendarInit
<1>2. NoRow \in Booking /\ NoRow.key = NoKey /\ NoRow.over = FALSE /\ NoRow.status = "none"
  BY DEF Booking, NoRow
<1>3. RowsOK /\ MarksOK /\ SlotsApart
  BY <1>1, <1>2 DEF CalendarInit, RowsOK, MarksOK, SlotsApart
<1>4. CustomerSlot /\ StoreDecides
  BY <1>1, <1>2 DEF CustomerSlot, StoreDecides, StaysPlaced, CompletedByStore, IsLive, Live, Rows
<1>5. req \in [Requests -> Request] /\ RequestsStand
  BY DEF CalendarInit, Request, Idle, RequestsStand, Stands
<1> QED
  BY <1>3, <1>4, <1>5 DEF CInv, CalendarTypeOK

\* A customer asks for the first free time of a room.
LEMMA WebAskKeeps ==
  ASSUME CInv, NEW q \in Requests, NEW r \in Web, NEW room \in Rooms, WebAsk(q, r, room)
  PROVE  CInv'
<1> DEFINE free == Times \ Occupied(room)
           t == [pc |-> "insert", row |-> r, to |-> <<Min(free), room>>]
<1>1. Min(free) \in Times
  BY FirstTime DEF WebAsk
<1>2. t \in Request /\ Stands(t)
  BY <1>1 DEF Request, Slots, Stands
<1>3. req' = [req EXCEPT ![q] = t] /\ done' \in [Rows -> BOOLEAN] /\ UNCHANGED <<row, edited, placed, store>>
  BY DEF WebAsk, Begin, CInv, CalendarTypeOK, MarksOK
<1> HIDE DEF t
<1> QED
  BY <1>2, <1>3, ReqWrite

\* A request that is over waits for nothing.
LEMMA OverIs ==
  ASSUME CInv, NEW q \in Requests, Over(q)
  PROVE  /\ req' \in [Requests -> Request]
         /\ \A x \in Requests : req'[x] = req[x] \/ req'[x].pc \in {"idle", "event"}
  BY DEF CInv, CalendarTypeOK, Over, Request, Idle

\* A row is inserted once, on a slot whose key is free.
LEMMA WebInsertKeeps ==
  ASSUME CInv, NEW q \in Requests, WebInsert(q)
  PROVE  CInv'
<1> DEFINE r == req[q].row
           b == [NoRow EXCEPT !.status = "booked", !.slot = req[q].to, !.key = Canonical(req[q].to)]
<1>1. req[q] \in [pc : {"insert"}, row : Web, to : Slots]
  BY RequestIs DEF WebInsert, CInv, CalendarTypeOK
<1>2. r \in Rows /\ req[q].to \in Slots
  BY <1>1 DEF Rows
<1>3. CASE row[r].status # "none"
  <2>1. Idle \in Request /\ Stands(Idle)
    BY DEF Request, Idle, Stands
  <2> QED
    BY <1>3, <2>1, ReqWrite DEF WebInsert, Over, CInv, CalendarTypeOK, MarksOK
<1>4. CASE row[r].status = "none"
  <2>1. b \in Booking /\ b.status = "booked" /\ b.slot = req[q].to /\ b.key = Canonical(req[q].to) /\ b.over = FALSE
    BY <1>2, KeysAre DEF NoRow, Booking, Live
  <2>2. KeyFree(r, b.key) /\ row' = [row EXCEPT ![r] = b]
    BY <1>4, <2>1 DEF WebInsert
  <2>3. MarksOK' /\ UNCHANGED <<edited, placed, store>>
    BY DEF WebInsert, CInv, CalendarTypeOK, MarksOK
  <2>4. "booked" \notin Closed /\ "booked" # "completed"
    BY DEF Closed
  <2> HIDE DEF b, r
  <2>5. Sound(r, b)
    BY <2>1, <2>2 DEF Sound
  <2>6. Over(q)
    BY DEF WebInsert
  <2> QED
    BY <1>2, <2>1, <2>2, <2>3, <2>4, <2>5, <2>6, OverIs, RowWrite
<1> QED
  BY <1>3, <1>4

\* A change of status keeps the slot, and the key of a row that stays live.
LEMMA StatusIs ==
  ASSUME CInv, NEW r \in Rows, NEW from \in SUBSET (Live \cup Closed), NEW to \in Live \cup Closed,
         from \subseteq Live \/ to \in Closed, SetStatus(r, from, to)
  PROVE  \E b \in Booking :
           /\ row' = [row EXCEPT ![r] = b] /\ Sound(r, b) /\ b.status = to
           /\ b.slot = row[r].slot /\ b.over = row[r].over
           /\ ~edited[r] => /\ b.status \in Closed => b.key = NoKey
                            /\ r \in Web /\ b.status \in Live => b.key = Canonical(b.slot)
<1> DEFINE b == [row[r] EXCEPT !.status = to, !.key = IF to \in Closed THEN NoKey ELSE @]
<1>1. row[r] \in Booking /\ row[r].status \in from /\ row[r].status # "none"
  BY DEF SetStatus, CInv, CalendarTypeOK, RowsOK, Live, Closed
<1>2. row[r] \in [status : Live \cup Closed, slot : Slots, key : SlotKey, over : BOOLEAN]
  BY <1>1, BookingIs
<1>3. /\ b \in [status : Live \cup Closed, slot : Slots, key : SlotKey, over : BOOLEAN]
      /\ b.status = to /\ b.slot = row[r].slot /\ b.over = row[r].over
      /\ b.key = IF to \in Closed THEN NoKey ELSE row[r].key
  BY <1>2 DEF SlotKey
<1>4. row' = [row EXCEPT ![r] = b]
  BY DEF SetStatus, CInv, CalendarTypeOK, RowsOK
<1> HIDE DEF b
<1>5. b \in Booking
  BY <1>3 DEF Booking
<1>6. Sound(r, b)
  <2>1. b.over => r \in Naver
    BY <1>3 DEF CInv, CalendarTypeOK, RowsOK
  <2>2. row[r].key = NoKey \/ KeyFree(r, row[r].key)
    BY DEF CInv, CalendarTypeOK, SlotsApart, KeyFree
  <2> QED
    BY <1>3, <2>1, <2>2 DEF Sound
<1>7. ~edited[r] => /\ b.status \in Closed => b.key = NoKey
                    /\ r \in Web /\ b.status \in Live => b.key = Canonical(b.slot)
  <2>1. Live \cap Closed = {}
    BY DEF Live, Closed
  <2>2. b.status \in Live => row[r].status \in Live
    BY <1>1, <1>3, <2>1
  <2> QED
    BY <1>3, <2>1, <2>2 DEF CInv, CustomerSlot, IsLive
<1> QED
  BY <1>3, <1>4, <1>5, <1>6, <1>7

\* A status is written, and nothing that the staff or the store remembers is lost.
LEMMA StatusKeeps ==
  ASSUME CInv, NEW r \in Rows, NEW from \in SUBSET (Live \cup Closed), NEW to \in Live \cup Closed,
         from \subseteq Live \/ to \in Closed, SetStatus(r, from, to),
         MarksOK', req' \in [Requests -> Request],
         \A q \in Requests : req'[q] = req[q] \/ req'[q].pc \in {"idle", "event"},
         UNCHANGED <<edited, placed>>, \A x \in Rows : store[x] => store'[x], to = "completed" => store'[r]
  PROVE  CInv'
<1>1. PICK b \in Booking :
        /\ row' = [row EXCEPT ![r] = b] /\ Sound(r, b) /\ b.status = to
        /\ b.slot = row[r].slot /\ b.over = row[r].over
        /\ ~edited[r] => /\ b.status \in Closed => b.key = NoKey
                         /\ r \in Web /\ b.status \in Live => b.key = Canonical(b.slot)
  BY StatusIs
<1>2. b.over => b.slot = placed'[r]
  BY <1>1 DEF Sound, CInv, StoreDecides, StaysPlaced
<1>3. ~edited'[r] => /\ b.status \in Closed => b.key = NoKey
                     /\ r \in Web /\ b.status \in Live => b.key = Canonical(b.slot)
  BY <1>1
<1>4. \A x \in Rows \ {r} : edited'[x] = edited[x] /\ placed'[x] = placed[x]
  OBVIOUS
<1> QED
  BY <1>1, <1>2, <1>3, <1>4, RowWrite

\* Guests arrive, and reservations are cancelled.
LEMMA MovesKeep ==
  ASSUME CInv, NEW r \in Rows, Arrive(r) \/ UndoArrive(r) \/ Cancel(r)
  PROVE  CInv'
<1>1. MarksOK' /\ req' \in [Requests -> Request] /\ (\A q \in Requests : req'[q] = req[q])
      /\ UNCHANGED <<edited, placed, store>>
  BY DEF Arrive, UndoArrive, Cancel, CInv, CalendarTypeOK, MarksOK
<1>2. CASE Arrive(r)
  <2>1. SetStatus(r, {"booked"}, "arrived") /\ {"booked"} \in SUBSET (Live \cup Closed) /\ {"booked"} \subseteq Live
        /\ "arrived" \in Live \cup Closed
    BY <1>2 DEF Arrive, Live
  <2> QED
    BY <1>1, <2>1, StatusKeeps
<1>3. CASE UndoArrive(r)
  <2>1. SetStatus(r, {"arrived"}, "booked") /\ {"arrived"} \in SUBSET (Live \cup Closed)
        /\ {"arrived"} \subseteq Live /\ "booked" \in Live \cup Closed
    BY <1>3 DEF UndoArrive, Live
  <2> QED
    BY <1>1, <2>1, StatusKeeps
<1>4. CASE Cancel(r)
  <2>1. SetStatus(r, Live, "cancelled") /\ Live \in SUBSET (Live \cup Closed)
        /\ "cancelled" \in Live \cup Closed /\ Live \subseteq Live
    BY <1>4 DEF Cancel, Closed
  <2> QED
    BY <1>1, <2>1, StatusKeeps
<1> QED
  BY <1>2, <1>3, <1>4

\* The store completes a row.
LEMMA CompleteKeeps ==
  ASSUME CInv, NEW q \in Requests, NEW r \in Rows, NEW from \in {{"arrived"}, Live \cup {"completed"}},
         Complete(q, r, from)
  PROVE  CInv'
<1> DEFINE t == [pc |-> "event", row |-> r, seen |-> row[r]]
<1>1. t \in Request /\ t.pc = "event"
  BY DEF Request, CInv, CalendarTypeOK, RowsOK
<1>2. req' = [req EXCEPT ![q] = t]
  BY DEF Complete, Begin
<1> HIDE DEF t
<1>3. req' \in [Requests -> Request] /\ \A x \in Requests : req'[x] = req[x] \/ req'[x].pc \in {"idle", "event"}
  BY <1>1, <1>2 DEF CInv, CalendarTypeOK
<1>4. MarksOK' /\ (\A x \in Rows : store[x] => store'[x]) /\ store'[r] /\ UNCHANGED <<edited, placed>>
  BY DEF Complete, CInv, CalendarTypeOK, MarksOK
<1>5. SetStatus(r, from, "completed") /\ from \in SUBSET (Live \cup Closed) /\ "completed" \in Closed
  BY DEF Complete, Live, Closed
<1> QED
  BY <1>3, <1>4, <1>5, StatusKeeps

-----------------------------------------------------------------------------
(* The requests that only read.                                            *)

\* The event of a completion, a dropped request, a deletion that is asked for.
LEMMA SmallKeep ==
  ASSUME CInv, NEW q \in Requests, CompleteEvent(q) \/ Dropped(q) \/ \E r \in Rows : DeleteAsk(q, r)
  PROVE  CInv'
<1>1. Idle \in Request /\ Stands(Idle)
  BY DEF Request, Idle, Stands
<1>2. CASE CompleteEvent(q)
  <2>1. req[q].row \in Rows
    BY <1>2, RequestIs DEF CompleteEvent, CInv, CalendarTypeOK
  <2>2. done' \in [Rows -> BOOLEAN]
    BY <1>2, <2>1 DEF CompleteEvent, CInv, CalendarTypeOK, MarksOK
  <2> QED
    BY <1>1, <1>2, <2>2, ReqWrite DEF CompleteEvent, Over
<1>3. CASE Dropped(q)
  BY <1>1, <1>3, ReqWrite DEF Dropped, Over, CInv, CalendarTypeOK, MarksOK
<1>4. ASSUME NEW r \in Rows, DeleteAsk(q, r) PROVE CInv'
  <2>1. [pc |-> "delete", row |-> r] \in Request /\ Stands([pc |-> "delete", row |-> r])
    BY DEF Request, Stands
  <2> QED
    BY <1>4, <2>1, ReqWrite DEF DeleteAsk, BeginEdit, Begin, CInv, CalendarTypeOK, MarksOK
<1> QED
  BY <1>2, <1>3, <1>4

\* The staff ask for a new row or an edit, and the handler looks at the slot.
LEMMA AsksKeep ==
  ASSUME CInv, NEW q \in Requests, NEW s \in Slots,
         (\E r \in Staff : CreateAsk(q, r, s)) \/ (\E r \in Rows, op \in Edits : EditAsk(q, op, r, s))
  PROVE  CInv'
<1>1. NoKey \in SlotKey
  BY DEF SlotKey
<1>2. ASSUME NEW r \in Staff, CreateAsk(q, r, s) PROVE CInv'
  <2> DEFINE t == [pc |-> "look", op |-> "create", row |-> r, to |-> s, seen |-> NoRow, key |-> NoKey]
  <2>1. t \in [pc : {"look", "write"}, op : {"create"}, row : Staff, to : Slots, seen : {NoRow}, key : SlotKey]
    BY <1>1
  <2>2. t \in Request /\ Stands(t)
    BY <2>1 DEF Request, Stands, Edits
  <2>3. req' = [req EXCEPT ![q] = t] /\ done' \in [Rows -> BOOLEAN] /\ UNCHANGED <<row, edited, placed, store>>
    BY <1>2 DEF CreateAsk, BeginEdit, Begin, CInv, CalendarTypeOK, MarksOK
  <2> HIDE DEF t
  <2> QED
    BY <2>2, <2>3, ReqWrite
<1>3. ASSUME NEW r \in Rows, NEW op \in Edits, EditAsk(q, op, r, s) PROVE CInv'
  <2> DEFINE t == [pc |-> "look", op |-> op, row |-> r, to |-> s, seen |-> row[r], key |-> NoKey]
  <2>1. row[r] \in Booking \ {NoRow}
    BY <1>3 DEF EditAsk, CInv, CalendarTypeOK, RowsOK, NoRow
  <2>2. t \in [pc : {"look", "write"}, op : Edits, row : Rows, to : Slots, seen : Booking \ {NoRow}, key : SlotKey]
    BY <1>1, <2>1
  <2>3. t \in Request /\ Stands(t)
    BY <1>3, <2>2 DEF Request, Stands, Edits, CInv, CalendarTypeOK, RowsOK
  <2>4. req' = [req EXCEPT ![q] = t] /\ done' \in [Rows -> BOOLEAN] /\ UNCHANGED <<row, edited, placed, store>>
    BY <1>3 DEF EditAsk, BeginEdit, Begin, CInv, CalendarTypeOK, MarksOK
  <2> HIDE DEF t
  <2> QED
    BY <2>3, <2>4, ReqWrite
<1> QED
  BY <1>2, <1>3

\* A request that has looked waits with the key it found.
LEMMA LooksKeep ==
  ASSUME CInv, NEW q \in Requests, Look(q) \/ ImportLook(q)
  PROVE  CInv'
<1>1. NoKey \in SlotKey /\ \A s \in Slots, r \in Rows : AdminKey(r, s) \in SlotKey /\ Canonical(s) \in SlotKey
  BY KeysAre DEF SlotKey
<1>2. req[q] \in Request
  BY DEF CInv, CalendarTypeOK
<1>3. UNCHANGED <<row, done, edited, placed, store>> /\ done' \in [Rows -> BOOLEAN]
  BY DEF Look, ImportLook, CInv, CalendarTypeOK, MarksOK
<1>4. CASE Look(q)
  <2> DEFINE k == IF req[q].seen.status \in Closed THEN NoKey ELSE AdminKey(req[q].row, req[q].to)
             t == [req[q] EXCEPT !.pc = "write", !.key = k]
  <2>1. req[q].pc = "look" /\ req[q].op \in {"create"} \cup Edits
    BY <1>2, <1>4, RequestIs DEF Look
  <2>2. req' = [req EXCEPT ![q] = t]
    BY <1>4 DEF Look, CInv, CalendarTypeOK
  <2>3. CASE req[q].op = "create"
    <3>1. req[q] \in [pc : {"look", "write"}, op : {"create"}, row : Staff, to : Slots, seen : {NoRow}, key : SlotKey]
      BY <1>2, <2>1, <2>3, RequestIs
    <3>2. k \in SlotKey
      BY <1>1, <3>1 DEF Rows
    <3> HIDE DEF k
    <3>3. /\ t \in [pc : {"look", "write"}, op : {"create"}, row : Staff, to : Slots, seen : {NoRow}, key : SlotKey]
          /\ t.op = "create"
      BY <3>1, <3>2
    <3> HIDE DEF t
    <3>4. t \in Request /\ Stands(t)
      BY <3>3 DEF Request, Stands, Edits
    <3> QED
      BY <1>3, <2>2, <3>4, ReqWrite
  <2>4. CASE req[q].op \in Edits
    <3>1. req[q] \in [pc : {"look", "write"}, op : Edits, row : Rows, to : Slots, seen : Booking \ {NoRow}, key : SlotKey]
      BY <1>2, <2>1, <2>4, RequestIs
    <3>2. k \in SlotKey
      BY <1>1, <3>1
    <3> HIDE DEF k
    <3>3. /\ t \in [pc : {"look", "write"}, op : Edits, row : Rows, to : Slots, seen : Booking \ {NoRow}, key : SlotKey]
          /\ t.op \in Edits /\ t.op # "import" /\ t.seen = req[q].seen /\ t.row = req[q].row
      BY <3>1, <3>2 DEF Edits
    <3>4. req[q].seen.over => req[q].row \in Naver
      BY <2>1, <2>4 DEF CInv, RequestsStand, Stands
    <3> HIDE DEF t
    <3>5. t \in Request /\ Stands(t)
      BY <3>3, <3>4 DEF Request, Stands
    <3> QED
      BY <1>3, <2>2, <3>5, ReqWrite
  <2> QED
    BY <2>1, <2>3, <2>4
<1>5. CASE ImportLook(q)
  <2> DEFINE T == [pc : {"importLook", "write"}, op : {"import"}, row : Naver, seen : Booking, key : SlotKey,
                   state : Live \cup Closed, from : Slots, to : Slots]
             k == IF req[q].state \in Closed THEN NoKey
                  ELSE IF req[q].seen.status = "none" THEN Canonical(req[q].to)
                  ELSE AdminKey(req[q].row, req[q].to)
             t == [req[q] EXCEPT !.pc = "write", !.key = k]
  <2>1. req[q].pc = "importLook" /\ req[q] \in T
    BY <1>2, <1>5, RequestIs DEF ImportLook
  <2>2. req' = [req EXCEPT ![q] = t]
    BY <1>5 DEF ImportLook, CInv, CalendarTypeOK
  <2>3. k \in SlotKey /\ (req[q].state \in Closed => k = NoKey)
    BY <1>1, <2>1 DEF Rows
  <2> HIDE DEF k
  <2>4. /\ t \in T /\ t.pc = "write" /\ t.key = k /\ t.state = req[q].state /\ t.seen = req[q].seen
        /\ t.row = req[q].row
    BY <2>1, <2>3
  <2> HIDE DEF t
  <2>5. t \in Request
    BY <2>4 DEF Request
  <2>6. Stands(req[q])
    BY DEF CInv, RequestsStand
  <2>7. Stands(t)
    BY <2>1, <2>3, <2>4, <2>6 DEF Stands
  <2> QED
    BY <1>3, <2>2, <2>5, <2>7, ReqWrite
<1> QED
  BY <1>4, <1>5

\* An import works out status and slot from the row.
LEMMA ImportAskKeeps ==
  ASSUME CInv, NEW q \in Requests, NEW r \in Naver, NEW s \in Slots, NEW source \in SourceStates,
         ImportAsk(q, r, source, s)
  PROVE  CInv'
<1> DEFINE state == Resolved(source, row[r].status, done[r])
           to == IF row[r].over THEN row[r].slot ELSE s
           t == [pc |-> "importLook", op |-> "import", row |-> r, seen |-> row[r], key |-> NoKey,
                 state |-> state, from |-> s, to |-> to]
           T == [pc : {"importLook", "write"}, op : {"import"}, row : Naver, seen : Booking, key : SlotKey,
                 state : Live \cup Closed, from : Slots, to : Slots]
<1>1. r \in Rows /\ row[r] \in Booking
  BY DEF CInv, CalendarTypeOK, RowsOK, Rows
<1>2. state \in Live \cup Closed /\ (state = "completed" => row[r].status = "completed")
  BY DEF Resolved, Live, Closed
<1>3. to \in Slots
  BY <1>1, BookingIs
<1>4. state = "completed" => row[r] # NoRow /\ store[r]
  BY <1>1, <1>2 DEF CInv, StoreDecides, CompletedByStore, NoRow
<1>5. req' = [req EXCEPT ![q] = t] /\ done' \in [Rows -> BOOLEAN] /\ UNCHANGED <<row, edited, placed, store>>
  BY DEF ImportAsk, BeginEdit, Begin, CInv, CalendarTypeOK, MarksOK
<1> HIDE DEF state, to
<1>6. /\ t \in T /\ t.pc = "importLook" /\ t.state = state /\ t.seen = row[r] /\ t.row = r
  BY <1>1, <1>2, <1>3 DEF SlotKey
<1> HIDE DEF t
<1>7. t \in Request /\ Stands(t)
  BY <1>4, <1>6 DEF Request, Stands
<1> QED
  BY <1>5, <1>7, ReqWrite

-----------------------------------------------------------------------------
(* The requests that write.                                                *)

\* A row goes with its events, and the requests that wait for it.
LEMMA DeleteKeeps ==
  ASSUME CInv, NEW q \in Requests, Delete(q)
  PROVE  CInv'
<1> DEFINE r == req[q].row
<1>1. r \in Rows
  BY RequestIs DEF Delete, CInv, CalendarTypeOK
<1>2. Idle \in Request /\ Stands(Idle) /\ Idle.pc = "idle"
  BY DEF Request, Idle, Stands
<1>3. CASE row[r].status \notin Closed
  <2>1. UNCHANGED <<row, edited, placed, store>>
    BY <1>3 DEF Delete
  <2>2. req' = [x \in Requests |-> IF x = q THEN Idle ELSE req[x]]
    BY <1>3 DEF Delete
  <2>3. req' = [req EXCEPT ![q] = Idle] /\ done' \in [Rows -> BOOLEAN]
    BY <2>2 DEF Delete, CInv, CalendarTypeOK, MarksOK
  <2> QED
    BY <1>2, <2>1, <2>3, ReqWrite
<1>4. CASE row[r].status \in Closed
  <2> HIDE DEF r
  <2>1. /\ row' = [row EXCEPT ![r] = NoRow] /\ edited' = [edited EXCEPT ![r] = FALSE]
        /\ placed' = [placed EXCEPT ![r] = <<>>] /\ store' = [store EXCEPT ![r] = FALSE]
        /\ done' = [done EXCEPT ![r] = FALSE]
        /\ req' = [x \in Requests |-> IF x = q \/ Lapsed(x, r) THEN Idle ELSE req[x]]
    BY <1>4 DEF Delete, r
  <2>2. NoRow \in Booking /\ NoRow.key = NoKey /\ NoRow.over = FALSE /\ NoRow.status = "none"
    BY DEF Booking, NoRow
  <2>3. RowsOK' /\ MarksOK'
    BY <1>1, <2>1, <2>2 DEF RowsOK, MarksOK, CInv, CalendarTypeOK
  <2>4. SlotsApart'
    BY <1>1, <2>1, <2>2 DEF SlotsApart, CInv, CalendarTypeOK, RowsOK
  <2>5. "none" \notin Live \cup Closed /\ "none" # "completed"
    BY DEF Live, Closed
  <2>6. CustomerSlot'
    BY <1>1, <2>1, <2>2, <2>5 DEF CustomerSlot, IsLive, CInv, CalendarTypeOK, RowsOK, MarksOK
  <2>7. StoreDecides'
    BY <1>1, <2>1, <2>2, <2>5 DEF StoreDecides, StaysPlaced, CompletedByStore, CInv, CalendarTypeOK, RowsOK,
                                   MarksOK, Rows
  <2>8. req' \in [Requests -> Request]
    BY <1>2, <2>1 DEF CInv, CalendarTypeOK
  <2>9. ASSUME NEW x \in Requests PROVE Stands(req[x])'
    <3>1. CASE req'[x] = Idle
      BY <1>2, <3>1 DEF Stands
    <3>2. CASE req'[x] # Idle
      <4>1. req'[x] = req[x] /\ ~Lapsed(x, r)
        BY <2>1, <3>2
      <4>2. CASE req[x].pc \in {"importLook", "write"} /\ req[x].op = "import"
        <5>1. req[x].row \in Rows
          BY <4>2, RequestIs DEF CInv, CalendarTypeOK, Rows
        <5>2. req[x].row # r \/ req[x].seen = NoRow
          BY <4>1, <4>2 DEF Lapsed
        <5>3. Stands(req[x])
          BY DEF CInv, RequestsStand
        <5> QED
          BY <1>1, <2>1, <4>1, <4>2, <5>1, <5>2, <5>3 DEF Stands, CInv, CalendarTypeOK, MarksOK
      <4>3. CASE ~(req[x].pc \in {"importLook", "write"} /\ req[x].op = "import")
        BY <4>1, <4>3 DEF Stands, CInv, RequestsStand
      <4> QED
        BY <4>2, <4>3
    <3> QED
      BY <3>1, <3>2
  <2> QED
    BY <2>3, <2>4, <2>6, <2>7, <2>8, <2>9 DEF CInv, CalendarTypeOK, RequestsStand
<1> QED
  BY <1>3, <1>4

\* The staff make a row on a slot, free or not.
LEMMA CreateKeeps ==
  ASSUME CInv, NEW q \in Requests, Create(q)
  PROVE  CInv'
<1> DEFINE r == req[q].row
           b == [NoRow EXCEPT !.status = "booked", !.slot = req[q].to, !.key = req[q].key]
<1>1. req[q] \in [pc : {"look", "write"}, op : {"create"}, row : Staff, to : Slots, seen : {NoRow}, key : SlotKey]
  BY RequestIs DEF Create, CInv, CalendarTypeOK
<1>2. r \in Rows /\ r \notin Web /\ r \notin Naver
  BY <1>1, CalendarConstants DEF Rows
<1>3. b \in Booking /\ b.status = "booked" /\ b.key = req[q].key /\ b.over = FALSE
  BY <1>1 DEF NoRow, Booking, Live
<1>4. row' = [row EXCEPT ![r] = b] /\ KeyFree(r, b.key) /\ Over(q)
  BY <1>3 DEF Create
<1>5. MarksOK' /\ UNCHANGED <<edited, placed, store>>
  BY DEF Create, CInv, CalendarTypeOK, MarksOK
<1>6. "booked" \notin Closed /\ "booked" # "completed"
  BY DEF Closed
<1> HIDE DEF b, r
<1>7. Sound(r, b)
  BY <1>3, <1>4 DEF Sound
<1> QED
  BY <1>2, <1>3, <1>4, <1>5, <1>6, <1>7, OverIs, RowWrite

\* A row that an edit writes is edited; its slot is the one it was placed at.
LEMMA EditKeeps ==
  ASSUME CInv, NEW q \in Requests, Edit(q)
  PROVE  CInv'
<1> DEFINE r == req[q].row
           s == IF req[q].op = "assign" THEN <<row[r].slot[1], req[q].to[2]>> ELSE req[q].to
           over == Overridden(r, req[q].seen, req[q].to)
           b == [row[r] EXCEPT !.slot = s, !.key = req[q].key, !.over = over]
<1>1. req[q] \in [pc : {"look", "write"}, op : Edits, row : Rows, to : Slots, seen : Booking \ {NoRow}, key : SlotKey]
  BY RequestIs DEF Edit, Edits, CInv, CalendarTypeOK
<1>2. r \in Rows /\ row[r] \in Booking
  BY <1>1 DEF CInv, CalendarTypeOK, RowsOK
<1>3. CASE ~(row[r].status # "none" /\ EditStands(req[q].op, row[r].status))
  <2>1. Idle \in Request /\ Stands(Idle)
    BY DEF Request, Idle, Stands
  <2> QED
    BY <1>3, <2>1, ReqWrite DEF Edit, Over, CInv, CalendarTypeOK, MarksOK
<1>4. CASE row[r].status # "none" /\ EditStands(req[q].op, row[r].status)
  <2>1. row[r] \in [status : Live \cup Closed, slot : Slots, key : SlotKey, over : BOOLEAN]
    BY <1>2, <1>4, BookingIs
  <2>2. s \in Slots
    BY <1>1, <2>1 DEF Slots
  <2>3. over \in BOOLEAN
    BY <1>1, BookingIs DEF Overridden
  <2>4. row' = [row EXCEPT ![r] = b] /\ (req[q].key # NoKey => KeyFree(r, req[q].key)) /\ Over(q)
        /\ edited' = [edited EXCEPT ![r] = TRUE] /\ placed' = [placed EXCEPT ![r] = IF over THEN s ELSE <<>>]
        /\ UNCHANGED <<done, store>>
    BY <1>4 DEF Edit
  <2>5. over => r \in Naver
    <3>1. CASE r \in Naver
      BY <3>1
    <3>2. CASE r \notin Naver
      <4>1. ~req[q].seen.over
        BY <1>1, <3>2 DEF Edit, CInv, RequestsStand, Stands
      <4> QED
        BY <3>2, <4>1 DEF Overridden
    <3> QED
      BY <3>1, <3>2
  <2> HIDE DEF s, over
  <2>6. /\ b \in [status : Live \cup Closed, slot : Slots, key : SlotKey, over : BOOLEAN]
        /\ b.status = row[r].status /\ b.slot = s /\ b.key = req[q].key /\ b.over = over
    BY <1>1, <2>1, <2>2, <2>3
  <2> HIDE DEF b, r
  <2>7. b \in Booking
    BY <2>6 DEF Booking
  <2>8. Sound(r, b)
    BY <2>4, <2>5, <2>6 DEF Sound
  <2>9. MarksOK'
    BY <1>2, <2>2, <2>4 DEF MarksOK, CInv, CalendarTypeOK
  <2>10. /\ edited'[r] /\ placed'[r] = (IF over THEN s ELSE <<>>)
         /\ \A x \in Rows \ {r} : edited'[x] = edited[x] /\ placed'[x] = placed[x]
    BY <1>2, <2>4 DEF MarksOK, CInv, CalendarTypeOK
  <2>11. b.status = "completed" => store'[r]
    BY <1>2, <2>4, <2>6 DEF CInv, StoreDecides, CompletedByStore
  <2> QED
    BY <1>2, <2>4, <2>6, <2>7, <2>8, <2>9, <2>10, <2>11, OverIs, RowWrite
<1> QED
  BY <1>3, <1>4

\* An import writes the status and the key it worked out, and leaves a row that
\* the staff placed where it is.
LEMMA ImportKeeps ==
  ASSUME CInv, NEW q \in Requests, Import(q)
  PROVE  CInv'
<1> DEFINE T == [pc : {"importLook", "write"}, op : {"import"}, row : Naver, seen : Booking, key : SlotKey,
                 state : Live \cup Closed, from : Slots, to : Slots]
           r == req[q].row
           b == [status |-> req[q].state, slot |-> ImportSlot(q), key |-> req[q].key, over |-> row[r].over]
<1>1. req[q] \in T /\ req[q].pc = "write" /\ req[q].op = "import"
  BY RequestIs DEF Import, CInv, CalendarTypeOK
<1>2. r \in Rows /\ r \in Naver /\ r \notin Web /\ row[r] \in Booking
  BY <1>1, CalendarConstants DEF CInv, CalendarTypeOK, RowsOK, Rows
<1>3. Stands(req[q])
  BY DEF CInv, RequestsStand
<1>4. /\ req[q].state = "completed" => store[r] /\ req[q].seen # NoRow
      /\ req[q].state \in Closed => req[q].key = NoKey
  BY <1>1, <1>3 DEF Stands
<1>5. Over(q) /\ MarksOK' /\ UNCHANGED <<done, edited, placed, store>>
  BY DEF Import, CInv, CalendarTypeOK, MarksOK
<1>6. CASE UNCHANGED row
  <2>1. Idle \in Request /\ Stands(Idle)
    BY DEF Request, Idle, Stands
  <2> QED
    BY <1>5, <1>6, <2>1, ReqWrite DEF Over, CInv, CalendarTypeOK, MarksOK
<1>7. CASE row' = [row EXCEPT ![r] = b]
  <2>1. row[r].over => row[r].slot \in Slots /\ row[r].slot = placed[r]
    BY <1>2, BookingIs DEF CInv, StoreDecides, StaysPlaced
  <2>2. ImportSlot(q) \in Slots /\ (row[r].over => ImportSlot(q) = placed[r])
    BY <1>1, <2>1 DEF ImportSlot
  <2>3. /\ b \in [status : Live \cup Closed, slot : Slots, key : SlotKey, over : BOOLEAN]
        /\ b.status = req[q].state /\ b.key = req[q].key /\ b.over = row[r].over
        /\ b.over => b.slot = placed[r]
    BY <1>1, <1>2, <2>2, BookingIs
  <2>4. req[q].key # NoKey => KeyFree(r, req[q].key)
    BY DEF Import
  <2> HIDE DEF b, r
  <2>5. b \in Booking /\ Sound(r, b)
    BY <1>2, <2>3, <2>4 DEF Booking, Sound
  <2> QED
    BY <1>2, <1>4, <1>5, <1>7, <2>3, <2>5, OverIs, RowWrite
<1> QED
  BY <1>6, <1>7 DEF Import

-----------------------------------------------------------------------------
\* The invariant is inductive.
LEMMA NextKeeps == CInv /\ [CalendarNext]_cvars => CInv'
<1> SUFFICES ASSUME CInv, [CalendarNext]_cvars PROVE CInv'
  OBVIOUS
<1>1. CASE UNCHANGED cvars
  BY <1>1 DEF cvars, CInv, CalendarTypeOK, RowsOK, MarksOK, SlotsApart, CustomerSlot, StoreDecides, StaysPlaced,
              CompletedByStore, RequestsStand, Stands, IsLive
<1>2. ASSUME NEW q \in Requests, NEW r \in Web, NEW room \in Rooms, WebAsk(q, r, room) PROVE CInv'
  BY <1>2, WebAskKeeps
<1>3. ASSUME NEW q \in Requests, NEW r \in Rows, NEW from \in {{"arrived"}, Live \cup {"completed"}},
             Complete(q, r, from)
      PROVE  CInv'
  BY <1>3, CompleteKeeps
<1>4. ASSUME NEW q \in Requests, CompleteEvent(q) \/ Dropped(q) \/ \E r \in Rows : DeleteAsk(q, r) PROVE CInv'
  BY <1>4, SmallKeep
<1>5. ASSUME NEW q \in Requests, NEW s \in Slots,
             (\E r \in Staff : CreateAsk(q, r, s)) \/ (\E r \in Rows, op \in Edits : EditAsk(q, op, r, s))
      PROVE  CInv'
  BY <1>5, AsksKeep
<1>6. ASSUME NEW q \in Requests, NEW r \in Naver, NEW s \in Slots, NEW source \in SourceStates,
             ImportAsk(q, r, source, s)
      PROVE  CInv'
  BY <1>6, ImportAskKeeps
<1>7. ASSUME NEW q \in Requests, WebInsert(q) PROVE CInv'
  BY <1>7, WebInsertKeeps
<1>8. ASSUME NEW q \in Requests, Delete(q) PROVE CInv'
  BY <1>8, DeleteKeeps
<1>9. ASSUME NEW q \in Requests, Look(q) \/ ImportLook(q) PROVE CInv'
  BY <1>9, LooksKeep
<1>10. ASSUME NEW q \in Requests, Edit(q) PROVE CInv'
  BY <1>10, EditKeeps
<1>11. ASSUME NEW q \in Requests, Create(q) PROVE CInv'
  BY <1>11, CreateKeeps
<1>12. ASSUME NEW q \in Requests, Import(q) PROVE CInv'
  BY <1>12, ImportKeeps
<1>13. ASSUME NEW r \in Rows, Arrive(r) \/ UndoArrive(r) \/ Cancel(r) PROVE CInv'
  BY <1>13, MovesKeep
<1> QED
  BY <1>1, <1>2, <1>3, <1>4, <1>5, <1>6, <1>7, <1>8, <1>9, <1>10, <1>11, <1>12, <1>13 DEF CalendarNext, Edits

\* In every state of the calendar a canonical key is one row's, customers' rows
\* hold theirs, and requests wait with keys and statuses that still stand.
THEOREM CalendarInvariant == CalendarSpec => []CInv
<1> QED
  BY InitInv, NextKeeps, PTL DEF CalendarSpec

\* A customer's reservation that the staff did not edit has the key of its slot
\* exactly while it is live, whatever the staff, the store and the imports do.
THEOREM SlotIsTheirs == CalendarSpec => []CustomerSlot
<1>1. CInv => CustomerSlot
  BY DEF CInv
<1> QED
  BY <1>1, CalendarInvariant, PTL

\* Two live reservations of customers that the staff did not edit are never of
\* one slot: what the unique key is for (createWebReservation).
SoldOnce ==
  \A r, x \in Web :
    IsLive(r) /\ ~edited[r] /\ IsLive(x) /\ ~edited[x] /\ row[r].slot = row[x].slot => r = x
THEOREM SlotSoldOnce == CalendarSpec => []SoldOnce
<1>1. CInv => SoldOnce
  <2> SUFFICES ASSUME CInv PROVE SoldOnce
    OBVIOUS
  <2>1. ASSUME NEW r \in Web, NEW x \in Web,
               /\ IsLive(r) /\ ~edited[r] /\ IsLive(x) /\ ~edited[x]
               /\ row[r].slot = row[x].slot
        PROVE  r = x
    <3>1. r \in Rows /\ x \in Rows
      BY DEF Rows
    <3>2. row[r].key = Canonical(row[r].slot) /\ row[x].key = row[r].key
      BY <2>1, <3>1 DEF CInv, CustomerSlot
    <3>3. row[r].key # NoKey /\ row[r].key[2]
      BY <3>2 DEF Canonical, NoKey
    <3> QED
      BY <3>1, <3>2, <3>3 DEF CInv, CalendarTypeOK, SlotsApart
  <2> QED
    BY <2>1 DEF SoldOnce
<1> QED
  BY <1>1, CalendarInvariant, PTL

\* A booking of Naver stays where the staff placed it, and is completed by the
\* store only, however stale the import that writes it.
THEOREM StoreHasItsWay == CalendarSpec => []StoreDecides
<1>1. CInv => StoreDecides
  BY DEF CInv
<1> QED
  BY <1>1, CalendarInvariant, PTL

\* Rows, requests and marks keep their shapes.
THEOREM CalendarTypeCorrect == CalendarSpec => []CalendarTypeOK
<1>1. CInv => CalendarTypeOK
  BY DEF CInv
<1> QED
  BY <1>1, CalendarInvariant, PTL

-----------------------------------------------------------------------------
\* A request whose command the lane has not begun has touched nothing.
Fresh(r) == command[r] \in {"none", "pending"} \/ r \in inbox
Untouched ==
  \A r \in Parkings :
    /\ asked[r] = "none" => command[r] = "none"
    /\ Fresh(r) => saved[r] = 0 /\ asked[r] \notin Done /\ \A f \in flying : f.of # r
\* The request the lane is at is begun, and the site has what it saved: it
\* repeats a saving only if none of its own has been seen to take effect.
AtSite == work.pc \in {"save", "confirm", "recheck", "resave", "final"}
Quiet == others = 0 /\ slow = {}
Begun == work # AtRest => ~Fresh(work.of)
NotYet ==
  /\ work.pc = "save" => saved[work.of] = 0 /\ \A f \in flying : f.of # work.of
  /\ work.pc = "resave" => saved[work.of] = 0 \/ work.of \in slow
Counted ==
  AtSite => LET r == work.of IN
    /\ Seen >= work.before /\ (saved[r] >= 1 => IsThere)
    /\ \A f \in flying : f.of = r => f.added = work.added
    /\ Quiet /\ saved[r] = 0 => Seen = work.before
\* What is reported, and what was reported, as given was given.
Reported == work.pc \in {"ack", "ackFailed"} /\ work.status = "SUCCESS" /\ Quiet => saved[work.of] >= 1
\* The reservation shows the state of its request.
Shown ==
  /\ ~swapped /\ shown.request # None => CarOf[shown.request] = shown.car
  /\ shown.status = "SUCCESS" => shown.request # None /\ asked[shown.request] \in Done

PInv ==
  /\ ParkingTypeOK /\ RegisteredOnce /\ SuccessIsReal
  /\ Untouched /\ Begun /\ NotYet /\ Counted /\ Reported /\ Shown
-----------------------------------------------------------------------------
(* The request that the lane is at.                                        *)

\* What the lane has at hand says what it is by its pc.
LEMMA WorkIs ==
  ASSUME work \in WorkItem
  PROVE  /\ AtSite => work \in [pc : {"save", "confirm", "recheck", "resave", "final"}, of : Parkings,
                                before : Nat, added : {2, 4}]
         /\ work.pc \in {"ack", "ackFailed"} =>
              work \in [pc : {"ack", "ackFailed"}, of : Parkings, status : Done \cup Failed]
         /\ work # AtRest => AtSite \/ work.pc \in {"ack", "ackFailed"}
         /\ work.pc = "idle" <=> work = AtRest
  BY DEF WorkItem, AtSite, AtRest

\* Moving on at the site keeps what was read; a result drops it.
LEMMA StepIs ==
  ASSUME work \in WorkItem, AtSite, NEW pc \in {"save", "confirm", "recheck", "resave", "final"}, Step(pc)
  PROVE  /\ work' \in WorkItem /\ work'.pc = pc /\ work'.of = work.of
         /\ work'.before = work.before /\ work'.added = work.added
<1> DEFINE S == [pc : {"save", "confirm", "recheck", "resave", "final"}, of : Parkings,
                 before : Nat, added : {2, 4}]
<1>1. work \in S
  BY WorkIs
<1>2. /\ work' \in S /\ work'.pc = pc /\ work'.of = work.of
      /\ work'.before = work.before /\ work'.added = work.added
  BY <1>1 DEF Step
<1> QED
  BY <1>2 DEF WorkItem
\* A result keeps the request.
LEMMA ResultIs ==
  ASSUME work \in WorkItem, AtSite, NEW status \in Done \cup Failed, Result(status)
  PROVE  work' \in WorkItem /\ work' = [pc |-> "ack", of |-> work.of, status |-> status]
<1>1. work.of \in Parkings
  BY WorkIs
<1>2. work' = [pc |-> "ack", of |-> work.of, status |-> status]
  BY DEF Result
<1> QED
  BY <1>1, <1>2 DEF WorkItem
-----------------------------------------------------------------------------
(* The steps of the cloud.                                                 *)

\* The parts of the invariant that the steps of the cloud and the other shops
\* leave alone, as long as the lane and what it saved stay as they are.
LEMMA LaneRests ==
  ASSUME PInv, UNCHANGED <<work, site, flying, saved, others, slow>>,
         work # AtRest => UNCHANGED inbox /\ (~Fresh(work.of))',
         \A q \in Parkings : /\ Fresh(q)' => Fresh(q) \/ asked[q] = "none"
                             /\ asked'[q] \in Done => asked[q] \in Done
                             /\ asked'[q] = "SUCCESS" => asked[q] = "SUCCESS"
                             /\ asked'[q] = "none" => asked[q] = "none" /\ command'[q] = command[q]
  PROVE  RegisteredOnce' /\ SuccessIsReal' /\ Untouched' /\ Begun' /\ NotYet' /\ Counted' /\ Reported'
<1> USE DEF PInv
<1>1. RegisteredOnce' /\ NotYet' /\ Reported'
  BY DEF RegisteredOnce, NotYet, Reported, Quiet
<1>2. SuccessIsReal'
  BY DEF SuccessIsReal
<1>3. Counted'
  BY DEF Counted, AtSite, Seen, IsThere, Quiet
<1>4. Untouched'
  BY DEF Untouched, Fresh
<1>5. Begun'
  BY DEF Begun
<1> QED
  BY <1>1, <1>2, <1>3, <1>4, <1>5

\* A request is queued.
LEMMA QueueStep == ASSUME PInv, NEW r \in Parkings, Queue(r) PROVE PInv'
<1> USE DEF PInv
<1>1. asked'[r] = "PENDING" /\ asked[r] = "none" /\ \A q \in Parkings \ {r} : asked'[q] = asked[q]
  BY DEF Queue, ParkingTypeOK
<1>2. /\ command[r] = "none" /\ command'[r] = "pending" /\ r \notin inbox
      /\ \A q \in Parkings \ {r} : command'[q] = command[q]
  BY <1>1 DEF Queue, ParkingTypeOK, Untouched
<1>3. ParkingTypeOK'
  <2>1. asked' \in [Parkings -> {"none"} \cup Waiting \cup Done \cup Failed]
    BY DEF Queue, ParkingTypeOK, Waiting
  <2>2. command' \in [Parkings -> {"none", "pending", "claimed", "completed", "failed"}]
    BY DEF Queue, ParkingTypeOK
  <2>3. shown' \in [car : Cars, status : {"none"} \cup Waiting \cup Failed \cup {"SUCCESS"},
                    request : Parkings \cup {None}, registered : Cars \cup {None}]
    BY ParkingConstants DEF Queue, Waiting
  <2>4. inbox' \subseteq {q \in Parkings : command'[q] = "claimed"}
    BY <1>2 DEF Queue, ParkingTypeOK
  <2> QED
    BY <2>1, <2>2, <2>3, <2>4 DEF Queue, ParkingTypeOK
<1>4. work # AtRest => work.of # r /\ work.of \in Parkings
  BY <1>2, WorkIs DEF Begun, Fresh, ParkingTypeOK
<1>5. Shown'
  BY ParkingConstants DEF Queue, Shown
<1>6. work # AtRest => UNCHANGED inbox /\ (~Fresh(work.of))'
  BY <1>2, <1>4 DEF Queue, Begun, Fresh
<1> QED
  BY <1>1, <1>2, <1>3, <1>5, <1>6, LaneRests DEF Queue, Fresh, Done

\* The car of the reservation is changed, or comes with a member.
LEMMA CarStep == ASSUME PInv, NEW c \in Cars, ChangeCar(c) \/ LinkMember(c) PROVE PInv'
<1> USE DEF PInv
<1>1. ParkingTypeOK'
  BY DEF ChangeCar, LinkMember, ParkingTypeOK
<1>2. Shown'
  BY DEF ChangeCar, LinkMember, Shown, ParkingTypeOK
<1> QED
  BY <1>1, <1>2, LaneRests DEF ChangeCar, LinkMember, Begun, Fresh

\* Time passes.
LEMMA TimeStep == ASSUME PInv, NEW r \in Parkings, TimePasses(r) PROVE PInv'
  BY LaneRests DEF PInv, TimePasses, Begun, Fresh, ParkingTypeOK, Shown

\* A poll gives up what is past its time and takes what waits.
LEMMA PollStep == ASSUME PInv, NEW arrives \in BOOLEAN, Poll(arrives) PROVE PInv'
<1> USE DEF PInv
<1> DEFINE taken == {r \in Parkings : command[r] = "pending"} \ GivenUp
<1>1. work = AtRest /\ inbox = {} /\ inbox' \subseteq taken
  BY DEF Poll
<1>2. \A r \in Parkings : command'[r] = IF r \in GivenUp THEN "failed"
                                        ELSE IF r \in taken THEN "claimed" ELSE command[r]
  BY DEF Poll
<1>3. \A r \in Parkings : asked'[r] = IF r \in GivenUp /\ asked[r] \in Waiting THEN "NEEDS_REVIEW"
                                      ELSE IF r \in taken THEN "PROCESSING" ELSE asked[r]
  BY DEF Poll
<1>4. \/ shown' = [shown EXCEPT !.status = "NEEDS_REVIEW"]
      \/ shown' = [shown EXCEPT !.status = "PROCESSING"]
      \/ shown' = shown /\ shown.request \notin taken
  BY DEF Poll
<1>5. ParkingTypeOK'
  <2>1. asked' \in [Parkings -> {"none"} \cup Waiting \cup Done \cup Failed]
    BY DEF Poll, ParkingTypeOK, Waiting, Failed
  <2>2. command' \in [Parkings -> {"none", "pending", "claimed", "completed", "failed"}]
    BY DEF Poll, ParkingTypeOK
  <2>3. shown' \in [car : Cars, status : {"none"} \cup Waiting \cup Failed \cup {"SUCCESS"},
                    request : Parkings \cup {None}, registered : Cars \cup {None}]
    BY <1>4 DEF ParkingTypeOK, Waiting, Failed
  <2>4. inbox' \subseteq {q \in Parkings : command'[q] = "claimed"}
    BY <1>1, <1>2
  <2> QED
    BY <2>1, <2>2, <2>3, <2>4 DEF Poll, ParkingTypeOK
<1>6. \A r \in Parkings : /\ r \in taken => Fresh(r)
                          /\ asked[r] \in Done => asked'[r] = asked[r]
  BY <1>3 DEF Fresh, Untouched, Waiting, Done
<1>7. Shown'
  <2>1. shown'.car = shown.car /\ shown'.request = shown.request
        /\ (shown'.status = "SUCCESS" => shown.status = "SUCCESS")
    BY <1>4 DEF ParkingTypeOK
  <2>2. shown.status = "SUCCESS" => shown.request \in Parkings /\ asked[shown.request] \in Done
    BY DEF Shown, ParkingTypeOK
  <2> QED
    BY <1>6, <2>1, <2>2 DEF Shown, Poll
<1>8. \A q \in Parkings : /\ Fresh(q)' => Fresh(q)
                          /\ asked'[q] \in Done => asked[q] = asked'[q]
                          /\ asked'[q] = "none" => asked[q] = "none" /\ command'[q] = command[q]
  <2> TAKE q \in Parkings
  <2>1. Fresh(q)' => Fresh(q)
    BY <1>1, <1>2, <1>6 DEF Fresh
  <2>2. asked'[q] \in Done => asked[q] = asked'[q]
    BY <1>3 DEF Done
  <2>3. asked'[q] = "none" => asked[q] = "none" /\ command'[q] = command[q]
    BY <1>2, <1>3 DEF Untouched, GivenUp
  <2> QED
    BY <2>1, <2>2, <2>3
<1> QED
  BY <1>1, <1>5, <1>7, <1>8, LaneRests DEF Poll, Done
-----------------------------------------------------------------------------
(* The car park.                                                           *)

\* Another shop adds a discount: it may be taken for one of the lane's own.
LEMMA OtherShopStep == ASSUME PInv, NEW c \in Cars, OtherShop(c) PROVE PInv'
<1> USE DEF PInv
<1>1. /\ others' # 0 /\ site' \in [Cars -> Nat] /\ \A d \in Cars : site'[d] >= site[d]
      /\ UNCHANGED <<asked, command, due, shown, inbox, work, flying, saved, faults, slow, swapped>>
      /\ others' \in Nat
  BY DEF OtherShop, ParkingTypeOK
<1>2. ParkingTypeOK'
  BY <1>1 DEF ParkingTypeOK
<1>3. RegisteredOnce' /\ SuccessIsReal' /\ Untouched' /\ Begun' /\ NotYet' /\ Reported' /\ Shown'
  BY <1>1 DEF RegisteredOnce, SuccessIsReal, Untouched, Begun, Fresh, NotYet, Reported, Quiet, Shown
<1>4. Counted'
  <2> SUFFICES ASSUME AtSite PROVE Counted'
    BY <1>1 DEF Counted, AtSite
  <2>1. /\ work.of \in Parkings /\ CarOf[work.of] \in Cars
        /\ work.before \in Nat /\ work.added \in Nat /\ site[CarOf[work.of]] \in Nat
    BY WorkIs, ParkingConstants DEF ParkingTypeOK
  <2>2. site'[CarOf[work.of]] >= site[CarOf[work.of]] /\ site'[CarOf[work.of]] \in Nat
    BY <1>1, <2>1
  <2> QED
    BY <1>1, <2>1, <2>2 DEF Counted, AtSite, Seen, IsThere, Quiet
<1> QED
  BY <1>2, <1>3, <1>4

\* A saving takes effect late.
LEMMA LateStep == ASSUME PInv, NEW f \in flying, LandsLate(f) PROVE PInv'
<1> USE DEF PInv
<1>1. /\ f.of \in Parkings /\ f.added \in Nat /\ CarOf[f.of] \in Cars
      /\ f.added > 0
  BY ParkingConstants DEF ParkingTypeOK
<1>2. /\ flying' \subseteq flying /\ slow' = slow \cup {f.of} /\ slow' # {}
      /\ UNCHANGED <<asked, command, due, shown, inbox, work, others, faults, swapped>>
  BY DEF LandsLate
<1>3. /\ saved' \in [Parkings -> Nat] /\ saved'[f.of] = saved[f.of] + 1
      /\ \A q \in Parkings \ {f.of} : saved'[q] = saved[q]
  BY <1>1 DEF LandsLate, ParkingTypeOK
<1>4. /\ site' \in [Cars -> Nat] /\ site'[CarOf[f.of]] = site[CarOf[f.of]] + f.added
      /\ \A c \in Cars \ {CarOf[f.of]} : site'[c] = site[c]
  BY <1>1 DEF LandsLate, ParkingTypeOK
<1>5. ParkingTypeOK'
  BY <1>2, <1>3, <1>4 DEF ParkingTypeOK
<1>6. RegisteredOnce' /\ SuccessIsReal'
  BY <1>2, <1>3 DEF RegisteredOnce, SuccessIsReal
<1>7. ~Fresh(f.of)
  BY <1>1 DEF Untouched
<1>8. Untouched' /\ Begun' /\ Shown'
  BY <1>2, <1>3, <1>7 DEF Untouched, Begun, Fresh, Shown
<1>9. NotYet'
  <2>1. work.pc \in {"save", "resave"} => work.of \in Parkings
    BY WorkIs DEF ParkingTypeOK, AtSite
  <2> QED
    BY <1>2, <1>3, <2>1 DEF NotYet
<1>10. Reported'
  BY <1>2 DEF Reported, Quiet
<1>11. Counted'
  <2> SUFFICES ASSUME AtSite PROVE Counted'
    BY <1>2 DEF Counted, AtSite
  <2>1. /\ work.of \in Parkings /\ CarOf[work.of] \in Cars
        /\ work.before \in Nat /\ work.added \in Nat /\ site[CarOf[work.of]] \in Nat
    BY WorkIs, ParkingConstants DEF ParkingTypeOK
  <2>2. site'[CarOf[work.of]] >= site[CarOf[work.of]] /\ site'[CarOf[work.of]] \in Nat
    BY <1>1, <1>4, <2>1
  <2>3. saved'[work.of] >= 1 => site'[CarOf[work.of]] >= work.before + work.added
    <3>1. CASE f.of = work.of
      BY <1>1, <1>4, <2>1, <3>1 DEF Counted, Seen
    <3>2. CASE f.of # work.of
      BY <1>3, <2>1, <2>2, <3>2 DEF Counted, Seen, IsThere
    <3> QED
      BY <3>1, <3>2
  <2> QED
    BY <1>2, <2>1, <2>2, <2>3 DEF Counted, AtSite, Seen, IsThere, Quiet
<1> QED
  BY <1>5, <1>6, <1>8, <1>9, <1>10, <1>11
-----------------------------------------------------------------------------
(* The steps of the lane.                                                  *)

\* What a step of the lane at the site leaves alone.
LEMMA AtSiteKeeps ==
  ASSUME PInv, AtSite, CloudKeeps, work' \in WorkItem, work'.of = work.of, slow' = slow,
         saved' \in [Parkings -> Nat], site' \in [Cars -> Nat],
         \A q \in Parkings \ {work.of} : saved'[q] = saved[q], saved'[work.of] >= saved[work.of],
         flying' \subseteq flying \cup [of : {work.of}, added : {2, 4}, try : {"save", "resave"}]
  PROVE  ParkingTypeOK' /\ SuccessIsReal' /\ Untouched' /\ Begun' /\ Shown'
<1> USE DEF PInv
<1>0. UNCHANGED <<asked, command, due, shown, inbox, others, swapped>>
  BY DEF CloudKeeps
<1>1. work.of \in Parkings /\ work # AtRest
  BY WorkIs DEF AtSite, AtRest, ParkingTypeOK
<1>2. ParkingTypeOK'
  BY <1>0, <1>1 DEF ParkingTypeOK
<1>3. SuccessIsReal'
  <2>1. \A q \in Parkings : saved[q] \in Nat /\ saved'[q] \in Nat /\ saved'[q] >= saved[q]
    BY <1>1 DEF ParkingTypeOK
  <2> QED
    BY <1>0, <2>1 DEF SuccessIsReal
<1>4. Untouched' /\ Begun' /\ Shown'
  BY <1>0, <1>1 DEF Untouched, Begun, Fresh, Shown
<1> QED
  BY <1>2, <1>3, <1>4

\* The first saving and the second, at the site.
LEMMA LandsIs ==
  ASSUME PInv, AtSite, NEW answer \in SaveAnswers, SaveLands(work.of, answer),
         work.pc \in {"save", "resave"}
  PROVE  /\ site' \in [Cars -> Nat] /\ saved' \in [Parkings -> Nat] /\ slow' = slow
         /\ \A q \in Parkings \ {work.of} : saved'[q] = saved[q]
         /\ \/ /\ saved'[work.of] = saved[work.of] + 1 /\ site'[CarOf[work.of]] = Seen + work.added
               /\ flying' = flying
            \/ /\ answer # "yes" /\ UNCHANGED <<site, saved>>
               /\ flying' \subseteq flying \cup {[of |-> work.of, added |-> work.added, try |-> work.pc]}
<1>1. /\ work.of \in Parkings /\ CarOf[work.of] \in Cars /\ work.added \in Nat
  BY WorkIs, ParkingConstants DEF PInv, ParkingTypeOK
<1>2. CASE Lands(work.of) /\ UNCHANGED <<flying, slow>>
  BY <1>1, <1>2 DEF Lands, PInv, ParkingTypeOK, Seen
<1>3. CASE answer # "yes" /\ SiteKeeps
  BY <1>3 DEF SiteKeeps, PInv, ParkingTypeOK
<1>4. CASE /\ answer = "lost"
           /\ flying' = flying \cup {[of |-> work.of, added |-> work.added, try |-> work.pc]}
           /\ UNCHANGED <<site, saved, slow>>
  BY <1>4 DEF PInv, ParkingTypeOK
<1> QED
  BY <1>2, <1>3, <1>4 DEF SaveLands

\* A saving: the first is of a request that has saved nothing, the second of one
\* that was seen to have saved nothing.
LEMMA SaveStep ==
  ASSUME PInv, NEW answer \in SaveAnswers, Save(answer) \/ Resave(answer)
  PROVE  PInv'
<1> USE DEF PInv
<1>1. AtSite /\ work.pc \in {"save", "resave"} /\ SaveLands(work.of, answer) /\ CloudKeeps
  BY DEF Save, Resave, At, AtSite
<1>2. /\ work.of \in Parkings /\ CarOf[work.of] \in Cars /\ work.added \in {2, 4}
      /\ work.before \in Nat /\ saved[work.of] \in Nat /\ site[CarOf[work.of]] \in Nat
      /\ work.pc \in {"save", "resave"}
  BY <1>1, WorkIs, ParkingConstants DEF ParkingTypeOK
<1>3. \/ \E pc \in {"confirm", "recheck", "final"} : Step(pc)
      \/ \E status \in {"FAILED", "NEEDS_REVIEW"} : Result(status)
  <2>1. CASE Save(answer)
    <3>1. answer = "yes" \/ answer = "no" \/ answer = "lost"
      BY DEF SaveAnswers
    <3> QED
      BY <2>1, <3>1 DEF Save
  <2> QED
    BY <2>1 DEF Resave
<1> DEFINE Moved == /\ work' \in WorkItem /\ work'.of = work.of
                    /\ \/ /\ work'.pc \in {"confirm", "recheck", "final"}
                          /\ work'.before = work.before /\ work'.added = work.added
                       \/ work'.pc = "ack" /\ work'.status \in {"FAILED", "NEEDS_REVIEW"}
<1>4. Moved
  <2>1. ASSUME NEW pc \in {"confirm", "recheck", "final"}, Step(pc) PROVE Moved
    BY <1>1, <2>1, StepIs DEF ParkingTypeOK
  <2>2. ASSUME NEW status \in {"FAILED", "NEEDS_REVIEW"}, Result(status) PROVE Moved
    BY <1>1, <2>2, ResultIs DEF ParkingTypeOK, Failed
  <2> QED
    BY <1>3, <2>1, <2>2
<1>5. /\ site' \in [Cars -> Nat] /\ saved' \in [Parkings -> Nat] /\ slow' = slow
      /\ \A q \in Parkings \ {work.of} : saved'[q] = saved[q]
      /\ \/ /\ saved'[work.of] = saved[work.of] + 1 /\ site'[CarOf[work.of]] = Seen + work.added
            /\ flying' = flying
         \/ /\ UNCHANGED <<site, saved>>
            /\ flying' \subseteq flying \cup {[of |-> work.of, added |-> work.added, try |-> work.pc]}
  BY <1>1, LandsIs
<1>6. ParkingTypeOK' /\ SuccessIsReal' /\ Untouched' /\ Begun' /\ Shown'
  <2>1. saved'[work.of] >= saved[work.of]
    BY <1>2, <1>5
  <2>2. flying' \subseteq flying \cup [of : {work.of}, added : {2, 4}, try : {"save", "resave"}]
    BY <1>2, <1>5
  <2> QED
    BY <1>1, <1>4, <1>5, <2>1, <2>2, AtSiteKeeps
<1>7. RegisteredOnce'
  <2>1. saved[work.of] = 0 \/ work.of \in slow
    BY <1>1 DEF NotYet
  <2>2. saved'[work.of] <= 1 \/ work.of \in slow'
    BY <1>2, <1>5, <2>1
  <2> QED
    BY <1>2, <1>5, <2>2 DEF RegisteredOnce
<1>8. NotYet' /\ Reported'
  BY <1>4 DEF NotYet, Reported
<1>9. Counted'
  <2> SUFFICES ASSUME AtSite' PROVE Counted'
    BY DEF Counted
  <2>1. work'.before = work.before /\ work'.added = work.added /\ work'.of = work.of
    BY <1>4 DEF AtSite
  <2>2. \A f \in flying' : f.of = work.of => f.added = work.added
    BY <1>1, <1>5 DEF Counted
  <2>3. /\ site[CarOf[work.of]] >= work.before
        /\ saved[work.of] >= 1 => site[CarOf[work.of]] >= work.before + work.added
        /\ Quiet /\ saved[work.of] = 0 => site[CarOf[work.of]] = work.before
    BY <1>1 DEF Counted, Seen, IsThere
  <2>4. /\ site'[CarOf[work.of]] >= work.before
        /\ saved'[work.of] >= 1 => site'[CarOf[work.of]] >= work.before + work.added
        /\ Quiet /\ saved'[work.of] = 0 => site'[CarOf[work.of]] = work.before
    BY <1>2, <1>5, <2>3 DEF Seen
  <2>5. Quiet' => Quiet
    BY <1>1, <1>5 DEF Quiet, CloudKeeps
  <2> QED
    BY <2>1, <2>2, <2>4, <2>5 DEF Counted, Seen, IsThere
<1> QED
  BY <1>6, <1>7, <1>8, <1>9

\* A reading of the site: SUCCESS is reported of a saving that is there, and a
\* saving is repeated only if none of its own is.
LEMMA ReadStep ==
  ASSUME PInv, Confirm \/ Recheck \/ Final \/ PolicyFails
  PROVE  PInv'
<1> USE DEF PInv
<1>1. AtSite /\ CloudKeeps /\ SiteKeeps
  BY DEF Confirm, Recheck, Final, PolicyFails, At, AtSite
<1>2. /\ work.of \in Parkings /\ CarOf[work.of] \in Cars /\ work.added \in {2, 4}
      /\ work.before \in Nat /\ saved[work.of] \in Nat /\ site[CarOf[work.of]] \in Nat
  BY <1>1, WorkIs, ParkingConstants DEF ParkingTypeOK
<1>3. /\ saved[work.of] >= 1 => IsThere
      /\ Quiet /\ IsThere => saved[work.of] >= 1
  BY <1>1, <1>2 DEF Counted, IsThere, Seen
<1>4. UNCHANGED <<site, flying, saved, slow, others>> /\ RegisteredOnce'
  BY <1>1 DEF SiteKeeps, CloudKeeps, RegisteredOnce
<1>5. CASE Step("recheck") \/ (Step("resave") /\ MayRepeat)
  <2>1. /\ work' \in WorkItem /\ work'.of = work.of /\ work'.before = work.before /\ work'.added = work.added
        /\ work'.pc = "recheck" \/ (work'.pc = "resave" /\ saved[work.of] = 0)
    BY <1>1, <1>2, <1>3, <1>5, StepIs DEF ParkingTypeOK, MayRepeat
  <2>2. NotYet' /\ Reported'
    BY <1>4, <2>1 DEF NotYet, Reported
  <2>3. Counted'
    BY <1>1, <1>4, <2>1 DEF Counted, Seen, IsThere, Quiet, AtSite
  <2>4. saved[work.of] >= saved[work.of]
    BY <1>2
  <2> QED
    BY <1>1, <1>4, <2>1, <2>2, <2>3, <2>4, AtSiteKeeps DEF ParkingTypeOK
<1>6. ASSUME NEW status \in Done \cup Failed, Result(status), status = "SUCCESS" => IsThere
      PROVE  PInv'
  <2>1. work' \in WorkItem /\ work'.pc = "ack" /\ work'.of = work.of /\ work'.status = status
    BY <1>1, <1>6, ResultIs DEF ParkingTypeOK
  <2>2. NotYet' /\ Counted'
    BY <2>1 DEF NotYet, Counted, AtSite
  <2>3. Reported'
    BY <1>3, <1>4, <1>6, <2>1 DEF Reported, Quiet
  <2>4. saved[work.of] >= saved[work.of]
    BY <1>2
  <2> QED
    BY <1>1, <1>4, <2>1, <2>2, <2>3, <2>4, AtSiteKeeps DEF ParkingTypeOK
<1>7. \/ Step("recheck") \/ (Step("resave") /\ MayRepeat)
      \/ \E status \in Done \cup Failed : Result(status) /\ (status = "SUCCESS" => IsThere)
  BY DEF Confirm, Recheck, Final, PolicyFails, Done, Failed
<1> QED
  BY <1>5, <1>6, <1>7

\* A request is taken: what the car has is read, and may leave nothing to add.
LEMMA TakeStep == ASSUME PInv, NEW r \in Parkings, Take(r) PROVE PInv'
<1> USE DEF PInv
<1> DEFINE before == site[CarOf[r]]
           added == IF before = 0 THEN 4 ELSE 2
<1>1. /\ work = AtRest /\ r \in inbox /\ inbox' = inbox \ {r} /\ Fresh(r)
      /\ UNCHANGED <<asked, command, due, shown, others, faults, swapped, site, flying, saved, slow>>
  BY DEF Take, SiteKeeps, Fresh
<1>2. saved[r] = 0 /\ (\A f \in flying : f.of # r) /\ before \in Nat /\ command[r] = "claimed"
  BY <1>1, ParkingConstants DEF Untouched, ParkingTypeOK
<1>3. \/ work' = [pc |-> "save", of |-> r, before |-> before, added |-> added]
      \/ \E status \in {"SKIPPED", "FAILED"} : work' = [pc |-> "ack", of |-> r, status |-> status]
  BY DEF Take
<1>4. work' \in WorkItem /\ work'.of = r
  BY <1>2, <1>3 DEF WorkItem, Done, Failed
<1>5. ParkingTypeOK'
  BY <1>1, <1>4 DEF ParkingTypeOK
<1>6. RegisteredOnce' /\ SuccessIsReal' /\ Untouched' /\ Shown'
  BY <1>1 DEF RegisteredOnce, SuccessIsReal, Untouched, Fresh, Shown
<1>7. Begun'
  BY <1>1, <1>2, <1>4 DEF Begun, Fresh
<1>8. NotYet' /\ Counted' /\ Reported'
  <2>1. CASE work' = [pc |-> "save", of |-> r, before |-> before, added |-> added]
    <3>1. work'.pc = "save" /\ work'.of = r /\ work'.before = before
      BY <2>1
    <3>2. NotYet' /\ Reported'
      BY <1>1, <1>2, <3>1 DEF NotYet, Reported
    <3>3. Counted'
      BY <1>1, <1>2, <3>1 DEF Counted, AtSite, Seen, IsThere
    <3> QED
      BY <3>2, <3>3
  <2>2. ASSUME NEW status \in {"SKIPPED", "FAILED"}, work' = [pc |-> "ack", of |-> r, status |-> status]
        PROVE  NotYet' /\ Counted' /\ Reported'
    BY <2>2 DEF NotYet, Counted, AtSite, Reported
  <2> QED
    BY <1>3, <2>1, <2>2
<1> QED
  BY <1>5, <1>6, <1>7, <1>8

\* A result is acknowledged, reaches the cloud or not, and is answered or not.
LEMMA AcknowledgeStep ==
  ASSUME PInv, NEW reaches \in BOOLEAN, NEW answered \in BOOLEAN, Acknowledge(reaches, answered)
  PROVE  PInv'
<1> USE DEF PInv
<1>1. PICK r \in Parkings : r = work.of
  BY WorkIs DEF Acknowledge, ParkingTypeOK
<1>2. PICK status \in Done \cup Failed : status = work.status
  BY WorkIs DEF Acknowledge, ParkingTypeOK
<1>3. ~Fresh(r) /\ work # AtRest /\ UNCHANGED <<due, inbox, others, swapped, site, flying, saved, slow>>
  BY <1>1 DEF Acknowledge, Begun, AtRest, SiteKeeps
<1>4. \/ UNCHANGED <<asked, command, shown>>
      \/ /\ asked' = [asked EXCEPT ![r] = status] /\ shown' = ShowResult(r, status)
         /\ \E x \in {"completed", "failed", command[r]} : command' = [command EXCEPT ![r] = x]
  BY <1>1, <1>2 DEF Acknowledge
<1>5. /\ work' \in WorkItem
      /\ work' = AtRest \/ work' = [pc |-> "ackFailed", of |-> r, status |-> "FAILED"]
  <2>1. work' = AtRest \/ work' = [pc |-> "ackFailed", of |-> r, status |-> "FAILED"]
    BY <1>1 DEF Acknowledge
  <2> QED
    BY <2>1 DEF WorkItem, Failed
<1>6. RegisteredOnce' /\ NotYet' /\ Counted' /\ Reported'
  BY <1>3, <1>5 DEF RegisteredOnce, NotYet, Counted, Reported, AtSite, AtRest
<1>7. CASE UNCHANGED <<asked, command, shown>>
  <2>1. ParkingTypeOK' /\ SuccessIsReal' /\ Untouched' /\ Begun' /\ Shown'
    BY <1>3, <1>5, <1>7 DEF ParkingTypeOK, SuccessIsReal, Untouched, Begun, Fresh, Shown, AtRest
  <2> QED
    BY <1>6, <2>1
<1>8. ASSUME asked' = [asked EXCEPT ![r] = status], shown' = ShowResult(r, status),
             NEW x \in {"completed", "failed", command[r]}, command' = [command EXCEPT ![r] = x]
      PROVE  PInv'
  <2>1. /\ asked'[r] = status /\ \A q \in Parkings \ {r} : asked'[q] = asked[q]
        /\ command'[r] = x /\ \A q \in Parkings \ {r} : command'[q] = command[q]
    BY <1>8 DEF ParkingTypeOK
  <2>2. r \notin inbox /\ command[r] \notin {"none", "pending"} /\ x \notin {"none", "pending"}
    BY <1>3 DEF Fresh
  <2>3. ParkingTypeOK'
    <3>1. shown' \in [car : Cars, status : {"none"} \cup Waiting \cup Failed \cup {"SUCCESS"},
                      request : Parkings \cup {None}, registered : Cars \cup {None}]
      BY <1>8 DEF ShowResult, ParkingTypeOK, Done, Failed
    <3>2. inbox' \subseteq {q \in Parkings : command'[q] = "claimed"}
      BY <1>3, <2>1, <2>2 DEF ParkingTypeOK
    <3>3. /\ asked' \in [Parkings -> {"none"} \cup Waiting \cup Done \cup Failed]
          /\ command' \in [Parkings -> {"none", "pending", "claimed", "completed", "failed"}]
      BY <1>8 DEF ParkingTypeOK
    <3> QED
      BY <1>3, <1>5, <3>1, <3>2, <3>3 DEF ParkingTypeOK
  <2>4. SuccessIsReal'
    <3>1. status = "SUCCESS" /\ Quiet => saved[r] >= 1
      BY <1>1, <1>2 DEF Reported, Acknowledge
    <3> QED
      BY <1>3, <2>1, <3>1 DEF SuccessIsReal, Quiet
  <2>5. Untouched' /\ Begun'
    BY <1>3, <1>5, <2>1, <2>2 DEF Untouched, Begun, Fresh, Done, Failed, AtRest
  <2>6. Shown'
    <3>1. CASE shown.request = r
      <4>1. /\ shown'.car = shown.car /\ shown'.request = r
            /\ shown'.status = IF status \in Done THEN "SUCCESS" ELSE status
        BY <1>8, <3>1 DEF ShowResult, ParkingTypeOK
      <4>2. shown'.status = "SUCCESS" => status \in Done
        BY <4>1 DEF Failed
      <4> QED
        BY <1>3, <2>1, <3>1, <4>1, <4>2, ParkingConstants DEF Shown
    <3>2. CASE shown.request # r
      BY <1>3, <1>8, <2>1, <3>2 DEF ShowResult, Shown, ParkingTypeOK
    <3> QED
      BY <3>1, <3>2
  <2> QED
    BY <1>6, <2>3, <2>4, <2>5, <2>6
<1> QED
  BY <1>4, <1>7, <1>8

\* The bridge stops.
LEMMA StopStep == ASSUME PInv, Stop PROVE PInv'
<1> USE DEF PInv
<1>1. /\ inbox' = {} /\ work' = AtRest
      /\ UNCHANGED <<asked, command, due, shown, others, swapped, site, flying, saved, slow>>
  BY DEF Stop, SiteKeeps
<1>2. ParkingTypeOK'
  BY <1>1 DEF ParkingTypeOK, WorkItem
<1>3. Begun' /\ NotYet' /\ Counted' /\ Reported'
  BY <1>1 DEF Begun, NotYet, Counted, Reported, AtSite, AtRest
<1> QED
  BY <1>1, <1>2, <1>3 DEF RegisteredOnce, SuccessIsReal, Untouched, Fresh, Shown
-----------------------------------------------------------------------------
(* The invariant, and what it says of the registrations.                   *)

\* The first state has nothing queued.
LEMMA ParkingStart == ASSUME ParkingInit PROVE PInv
<1>1. ParkingTypeOK
  BY DEF ParkingInit, ParkingTypeOK, WorkItem
<1>2. /\ RegisteredOnce /\ SuccessIsReal /\ Untouched /\ Begun
      /\ NotYet /\ Counted /\ Reported /\ Shown
  BY DEF ParkingInit, RegisteredOnce, SuccessIsReal, Untouched, Begun, NotYet, Counted, Reported, Shown,
         AtSite, AtRest, Done
<1> QED
  BY <1>1, <1>2 DEF PInv

\* The invariant of the lane, for any number of requests, cars and faults.
THEOREM ParkingInvariant == ParkingSpec => []PInv
<1>1. ParkingInit => PInv
  BY ParkingStart
<1>2. PInv /\ [ParkingNext]_kvars => PInv'
  <2> SUFFICES ASSUME PInv, [ParkingNext]_kvars PROVE PInv'
    OBVIOUS
  <2>1. CASE Lane
    BY <2>1, PollStep, TakeStep, SaveStep, ReadStep, AcknowledgeStep DEF Lane
  <2>2. CASE PolicyFails \/ Poll(FALSE) \/ Stop
    BY <2>2, ReadStep, PollStep, StopStep
  <2>3. CASE \E r \in Parkings : Queue(r) \/ TimePasses(r)
    BY <2>3, QueueStep, TimeStep
  <2>4. CASE \E c \in Cars : ChangeCar(c) \/ LinkMember(c) \/ OtherShop(c)
    BY <2>4, CarStep, OtherShopStep
  <2>5. CASE \E f \in flying : LandsLate(f)
    BY <2>5, LateStep
  <2>6. CASE UNCHANGED kvars
    <3>1. ParkingTypeOK' /\ Shown'
      BY <2>6 DEF kvars, PInv, ParkingTypeOK, Shown
    <3> QED
      BY <2>6, <3>1, LaneRests DEF kvars, PInv, Begun, Fresh
  <2> QED
    BY <2>1, <2>2, <2>3, <2>4, <2>5, <2>6 DEF ParkingNext
<1> QED
  BY <1>1, <1>2, PTL DEF ParkingSpec

\* A request adds its discount at most once, SUCCESS is real, and the car that
\* is shown as registered is that of the request.
THEOREM RegistrationIsReal == ParkingSpec => []ParkingIsReal
<1>1. ASSUME PInv PROVE ParkingIsReal
  <2>1. ShownCarRegistered
    BY <1>1 DEF PInv, Shown, ShownCarRegistered
  <2> QED
    BY <1>1, <2>1 DEF PInv, ParkingIsReal
<1> QED
  BY <1>1, ParkingInvariant, PTL

-----------------------------------------------------------------------------
(* The phones of the staff.                                                *)

\* The pushes there can be, and what a sender and a wakeup can be at.
Keys == [kind : {"event"}, of : Events, day : {0}, device : Devices]
          \cup [kind : {"briefing"}, of : Schedules, day : 1..MaxDays, device : Devices]
SenderState ==
  {Rest} \cup [pc : {"record", "rows"}, event : Events] \cup [pc : {"send"}, todo : SUBSET Keys]
    \cup [pc : {"claim"}, due : SUBSET Schedules, mine : SUBSET Schedules, day : 1..MaxDays]
WakeState == {Rest} \cup [pc : {"mark", "answer"}, event : Events]
ScheduleRow == [status : {"on", "off", "gone"}, at : DeliveryTimes, last : 0..MaxDays, again : BOOLEAN]

PushTypeOK ==
  /\ clock \in [day : 1..MaxDays, time : DeliveryTimes]
  /\ schedule \in [Schedules -> ScheduleRow]
  /\ wanted \in BOOLEAN
  /\ events \in Seq(Events)
  /\ device \in [Devices -> {"on", "off", "gone"}]
  /\ sender \in [Senders -> SenderState]
  /\ waking \in [Devices -> Nat]
  /\ wake \in [Devices -> [Wakes -> WakeState]]
  /\ delivered \subseteq Events \X Devices
  /\ sent \in [DOMAIN sent -> Nat] /\ DOMAIN sent \subseteq Keys
  /\ told \in [DOMAIN told -> Nat] /\ DOMAIN told \subseteq Events \X Devices
  /\ missed \subseteq Devices /\ met \subseteq Devices
  /\ upsets \in Nat

\* What a sender has still to send.
ToSend(t) ==
  CASE t.pc = "rows" -> {EventPush(t.event, d) : d \in Devices}
    [] t.pc = "send" -> t.todo
    [] t.pc = "claim" -> {BriefingPush(s, t.day, d) : s \in t.mine, d \in Devices}
    [] OTHER -> {}
\* A push that may be sent once more.
Loose(one) == one.kind = "briefing" /\ schedule[one.of].again
Happened(one) ==
  /\ one.kind = "event" => one.of \in ToSet(events)
  /\ one.kind = "briefing" /\ ~schedule[one.of].again => one.day <= schedule[one.of].last

\* A push is sent by one sender, which has not sent it yet; what is sent was
\* recorded, or claimed for a day that is not after the last.
SentByOne ==
  /\ \A h, k \in Senders : h # k => \A one \in ToSend(sender[h]) \cap ToSend(sender[k]) : Loose(one)
  /\ \A h \in Senders : \A one \in ToSend(sender[h]) :
       Happened(one) /\ (one \in DOMAIN sent => Loose(one))
  /\ \A one \in DOMAIN sent : Happened(one) /\ (sent[one] = 1 \/ Loose(one))
DaysPass ==
  /\ \A s \in Schedules : schedule[s].last <= clock.day
  /\ \A h \in Senders : sender[h].pc = "claim" => sender[h].day <= clock.day

\* A wakeup tells an event that no other told; a phone is told once what it shows.
Asking(d, k) == wake[d][k].pc = "mark"
Answered(d, k) == wake[d][k].pc = "answer"
ToldByOne ==
  /\ \A one \in DOMAIN told : one \in delivered
  /\ \A d \in Devices, k \in Wakes : /\ Asking(d, k) => wake[d][k].event \in ToSet(events)
                                     /\ Answered(d, k) => <<wake[d][k].event, d>> \in delivered
  /\ \A d \in Devices \ met :
       /\ \A j, k \in Wakes : wake[d][j] # Rest /\ wake[d][k] # Rest => j = k
       /\ \A k \in Wakes : Asking(d, k) => <<wake[d][k].event, d>> \notin delivered
       /\ \A k \in Wakes : Answered(d, k) => <<wake[d][k].event, d>> \notin DOMAIN told
       /\ \A e \in Events : <<e, d>> \in DOMAIN told => told[<<e, d>>] = 1

\* The events that no wakeup has told the phone, or is about to; those for which
\* it will be woken.
ToTell(d) ==
  {e \in ToSet(events) : <<e, d>> \notin delivered /\ \A k \in Wakes : Asking(d, k) => wake[d][k].event # e}
ToWake(d) == {e \in Events : \E h \in Senders : EventPush(e, d) \in ToSend(sender[h])}

\* A phone is on, and is woken at least as often as there is something to tell
\* it; what it was told it shows.
Enough(d) ==
  /\ device[d] = "on"
  /\ Cardinality(ToTell(d)) <= waking[d] + Cardinality(ToWake(d))
  /\ \A e \in Events : <<e, d>> \in delivered =>
       <<e, d>> \in DOMAIN told \/ \E k \in Wakes : Answered(d, k) /\ wake[d][k].event = e
WokenEnough == \A d \in Devices \ (missed \cup met) : Enough(d)

PushInv == PushTypeOK /\ SentByOne /\ DaysPass /\ ToldByOne /\ WokenEnough

-----------------------------------------------------------------------------
\* What a sender and a wakeup are by their pc, and what a sender has to send.
LEMMA SenderIs ==
  ASSUME NEW t \in SenderState
  PROVE  /\ t.pc = "idle" => t = Rest
         /\ t.pc \in {"record", "rows"} => t \in [pc : {"record", "rows"}, event : Events]
         /\ t.pc = "send" => t \in [pc : {"send"}, todo : SUBSET Keys]
         /\ t.pc = "claim" =>
              t \in [pc : {"claim"}, due : SUBSET Schedules, mine : SUBSET Schedules, day : 1..MaxDays]
         /\ t.pc \in {"idle", "record", "rows", "send", "claim"}
  BY DEF SenderState, Rest

LEMMA WakeIs ==
  ASSUME NEW w \in WakeState
  PROVE  /\ w = Rest <=> w.pc = "idle"
         /\ w # Rest => w \in [pc : {"mark", "answer"}, event : Events]
         /\ w.pc \in {"idle", "mark", "answer"}
  BY DEF WakeState, Rest

LEMMA ToSendIs ==
  ASSUME NEW t
  PROVE  /\ t.pc = "rows" => ToSend(t) = {EventPush(t.event, d) : d \in Devices}
         /\ t.pc = "send" => ToSend(t) = t.todo
         /\ t.pc = "claim" => ToSend(t) = {BriefingPush(s, t.day, d) : s \in t.mine, d \in Devices}
         /\ t.pc \notin {"rows", "send", "claim"} => ToSend(t) = {}
  BY DEF ToSend

LEMMA PushIs ==
  ASSUME NEW d \in Devices
  PROVE  /\ \A e \in Events : /\ EventPush(e, d) \in Keys
                              /\ EventPush(e, d).kind = "event" /\ EventPush(e, d).of = e
                              /\ EventPush(e, d).device = d
         /\ \A s \in Schedules, day \in 1..MaxDays :
              /\ BriefingPush(s, day, d) \in Keys
              /\ BriefingPush(s, day, d).kind = "briefing" /\ BriefingPush(s, day, d).of = s
              /\ BriefingPush(s, day, d).day = day /\ BriefingPush(s, day, d).device = d
  BY DEF Keys, EventPush, BriefingPush

LEMMA KeyIs ==
  ASSUME NEW one \in Keys
  PROVE  /\ one.device \in Devices /\ one.kind \in {"event", "briefing"}
         /\ one.kind = "event" => one.of \in Events /\ one = EventPush(one.of, one.device)
         /\ one.kind = "briefing" => one.of \in Schedules /\ one.day \in 1..MaxDays
  BY DEF Keys, EventPush

\* Counting: the key is there, once more than before.
LEMMA AddIs ==
  ASSUME NEW f, f \in [DOMAIN f -> Nat], NEW k
  PROVE  /\ DOMAIN Add(f, k) = DOMAIN f \cup {k}
         /\ Add(f, k) \in [DOMAIN Add(f, k) -> Nat]
         /\ \A x \in DOMAIN f : x # k => Add(f, k)[x] = f[x]
         /\ k \notin DOMAIN f => Add(f, k)[k] = 1
  BY DEF Add

LEMMA SenderTypes ==
  /\ Rest \in SenderState
  /\ \A e \in Events : [pc |-> "record", event |-> e] \in SenderState /\ [pc |-> "rows", event |-> e] \in SenderState
  /\ \A T \in SUBSET Keys : [pc |-> "send", todo |-> T] \in SenderState
  /\ \A D, M \in SUBSET Schedules, day \in 1..MaxDays :
       [pc |-> "claim", due |-> D, mine |-> M, day |-> day] \in SenderState
  BY DEF SenderState, Rest

\* What a step makes of a row, a sender, a wakeup.
LEMMA RowClaimed ==
  ASSUME NEW r \in ScheduleRow, NEW day \in 0..MaxDays
  PROVE  /\ Claimed(r, day) \in ScheduleRow
         /\ Claimed(r, day).last = day /\ Claimed(r, day).again = (r.again \/ day # clock.day)
         /\ Claimed(r, day).status = r.status
  BY DEF Claimed, ScheduleRow

LEMMA RowSaved ==
  ASSUME NEW r \in ScheduleRow, NEW status \in {"on", "off", "gone"}, NEW at \in DeliveryTimes
  PROVE  /\ [r EXCEPT !.status = status, !.at = at] \in ScheduleRow
         /\ [r EXCEPT !.status = status, !.at = at].last = r.last
         /\ [r EXCEPT !.status = status, !.at = at].again = r.again
  BY DEF ScheduleRow

USE PushConstants

LEMMA InitTypes == PushInit => PushTypeOK
<1> SUFFICES ASSUME PushInit PROVE PushTypeOK
  OBVIOUS
<1>1. Never \in [DOMAIN Never -> Nat] /\ DOMAIN Never = {}
  BY DEF Never
<1>2. Rest \in SenderState /\ Rest \in WakeState
  BY DEF SenderState, WakeState
<1> QED
  BY <1>1, <1>2 DEF PushInit, PushTypeOK, ScheduleRow, DeliveryTimes

LEMMA NextTypes ==
  ASSUME PushTypeOK, PushNext
  PROVE  PushTypeOK'
<1> USE DEF PushTypeOK
<1>1. CASE DayPasses
  BY <1>1 DEF DayPasses, DeliveryTimes
<1>2. CASE SaveSettings
  BY <1>2 DEF SaveSettings, Upset
<1>3. ASSUME NEW s \in Schedules, WorkerStarts(s)
      PROVE  PushTypeOK'
  BY <1>3 DEF WorkerStarts, ScheduleRow, DeliveryTimes
<1>4. ASSUME NEW s \in Schedules, NEW status \in {"on", "off", "gone"}, NEW at \in DeliveryTimes,
             SaveSchedule(s, status, at)
      PROVE  PushTypeOK'
  <2>1. [schedule[s] EXCEPT !.status = status, !.at = at] \in ScheduleRow
    <3>1. schedule[s] \in ScheduleRow
      OBVIOUS
    <3> QED
      BY <3>1, RowSaved
  <2>2. schedule' \in [Schedules -> ScheduleRow]
    BY <1>4, <2>1 DEF SaveSchedule
  <2> QED
    BY <1>4, <2>2 DEF SaveSchedule, Upset
<1>5. ASSUME NEW d \in Devices, PushLost(d)
      PROVE  PushTypeOK'
  BY <1>5 DEF PushLost, Upset
<1>6. ASSUME NEW d \in Devices, NEW status \in {"on", "off", "gone"}, SetDevice(d, status)
      PROVE  PushTypeOK'
  BY <1>6 DEF SetDevice, Upset
<1>7. ASSUME NEW d \in Devices, NEW k \in Wakes, Ask(d, k)
      PROVE  PushTypeOK'
  <2>1. wake' \in [Devices -> [Wakes -> WakeState]]
    <3>1. CASE UNCHANGED wake
      BY <3>1
    <3>2. ASSUME NEW i \in Untold(d), Woken(d, k, [pc |-> "mark", event |-> events[i]])
          PROVE  wake' \in [Devices -> [Wakes -> WakeState]]
      <4>1. events[i] \in Events
        BY DEF Untold
      <4>2. [pc |-> "mark", event |-> events[i]] \in WakeState
        BY <4>1 DEF WakeState
      <4> QED
        BY <3>2, <4>2 DEF Woken
    <3> QED
      BY <1>7, <3>1, <3>2 DEF Ask
  <2>2. waking' \in [Devices -> Nat] /\ met' \subseteq Devices
    BY <1>7 DEF Ask
  <2> QED
    BY <1>7, <2>1, <2>2 DEF Ask
<1>8. ASSUME NEW d \in Devices, NEW k \in Wakes, Mark(d, k)
      PROVE  PushTypeOK'
  <2> DEFINE w == wake[d][k]
  <2>1. w \in [pc : {"mark", "answer"}, event : Events]
    <3>1. w \in WakeState
      OBVIOUS
    <3> QED
      BY <1>8, <3>1, WakeIs DEF Mark, Rest
  <2>2. [pc |-> "answer", event |-> w.event] \in WakeState
    BY <2>1 DEF WakeState
  <2>3. wake' \in [Devices -> [Wakes -> WakeState]]
    BY <1>8, <2>2 DEF Mark, Woken
  <2> QED
    BY <1>8, <2>1, <2>3 DEF Mark
<1>9. ASSUME NEW d \in Devices, NEW k \in Wakes, Show(d, k)
      PROVE  PushTypeOK'
  <2> DEFINE w == wake[d][k]
  <2>1. w \in [pc : {"mark", "answer"}, event : Events]
    <3>1. w \in WakeState
      OBVIOUS
    <3> QED
      BY <1>9, <3>1, WakeIs DEF Show, Rest
  <2>2. wake' \in [Devices -> [Wakes -> WakeState]]
    BY <1>9 DEF Show, Woken, WakeState
  <2>3. told' = Add(told, <<w.event, d>>)
    BY <1>9 DEF Show
  <2>4. told' \in [DOMAIN told' -> Nat] /\ DOMAIN told' \subseteq Events \X Devices
    <3>1. told \in [DOMAIN told -> Nat] /\ DOMAIN told \subseteq Events \X Devices
      OBVIOUS
    <3>2. <<w.event, d>> \in Events \X Devices
      BY <2>1
    <3> QED
      <4> DEFINE x == <<w.event, d>>
      <4>1. /\ DOMAIN Add(told, x) = DOMAIN told \cup {x}
            /\ Add(told, x) \in [DOMAIN Add(told, x) -> Nat]
        BY ONLY <3>1, AddIs
      <4> HIDE DEF x
      <4>2. told' = Add(told, x) /\ x \in Events \X Devices
        BY <2>3, <3>2 DEF x
      <4> QED
        BY ONLY <3>1, <4>1, <4>2, Zenon
  <2> QED
    BY <1>9, <2>2, <2>4 DEF Show
<1>10. ASSUME NEW d \in Devices, NEW k \in Wakes, AnswerLost(d, k)
       PROVE  PushTypeOK'
  <2>1. wake' \in [Devices -> [Wakes -> WakeState]]
    BY <1>10 DEF AnswerLost, Woken, WakeState
  <2> QED
    BY <1>10, <2>1 DEF AnswerLost, Upset
<1>11. ASSUME NEW h \in Senders, BriefingRead(h)
       PROVE  PushTypeOK'
  <2>1. [pc |-> "claim", due |-> {s \in Schedules : Due(s)}, mine |-> {}, day |-> clock.day] \in SenderState
    BY SenderTypes
  <2> QED
    BY <1>11, <2>1 DEF BriefingRead, Start
<1>12. ASSUME NEW h \in Senders, BriefingClaim(h)
       PROVE  PushTypeOK'
  <2> DEFINE t == sender[h]
  <2>1. t \in [pc : {"claim"}, due : SUBSET Schedules, mine : SUBSET Schedules, day : 1..MaxDays]
    BY <1>12, SenderIs DEF BriefingClaim
  <2>2. PICK s \in t.due :
          /\ schedule' = IF Claims(s, t.day)
                         THEN [schedule EXCEPT ![s] = Claimed(@, t.day)] ELSE schedule
          /\ Goes(h, [pc |-> "claim", due |-> t.due \ {s}, day |-> t.day,
                      mine |-> t.mine \cup {x \in {s} : Claims(x, t.day)}])
    BY <1>12 DEF BriefingClaim
  <2>3. s \in Schedules
    BY <2>1, <2>2
  <2>4. [pc |-> "claim", due |-> t.due \ {s}, day |-> t.day, mine |-> t.mine \cup {x \in {s} : Claims(x, t.day)}]
          \in SenderState
    <3>1. t.due \ {s} \in SUBSET Schedules /\ t.mine \cup {x \in {s} : Claims(x, t.day)} \in SUBSET Schedules
      BY <2>1, <2>3
    <3>2. t.day \in 1..MaxDays
      BY <2>1
    <3> QED
      BY <3>1, <3>2, SenderTypes
  <2>5. sender' \in [Senders -> SenderState]
    BY <2>2, <2>4 DEF Goes
  <2>6. schedule' \in [Schedules -> ScheduleRow]
    <3>1. t.day \in 0..MaxDays
      BY <2>1
    <3>2. schedule[s] \in ScheduleRow
      BY <2>3
    <3>3. Claimed(schedule[s], t.day) \in ScheduleRow
      BY <3>1, <3>2, RowClaimed
    <3>4. CASE Claims(s, t.day)
      BY <2>2, <3>3, <3>4
    <3> QED
      BY <2>2, <3>4
  <2> QED
    BY <1>12, <2>5, <2>6 DEF BriefingClaim
<1>13. ASSUME NEW h \in Senders, BriefingRows(h)
       PROVE  PushTypeOK'
  <2> DEFINE t == sender[h]
             T == {BriefingPush(s, t.day, d) : s \in t.mine, d \in Enabled}
  <2>1. t \in [pc : {"claim"}, due : SUBSET Schedules, mine : SUBSET Schedules, day : 1..MaxDays]
    BY <1>13, SenderIs DEF BriefingRows
  <2>2. T \in SUBSET Keys
    BY <2>1, PushIs DEF Enabled
  <2>3. sender' \in [Senders -> SenderState]
    BY <1>13, <2>2, SenderTypes DEF BriefingRows, Goes
  <2> QED
    BY <1>13, <2>3 DEF BriefingRows
<1>14. ASSUME NEW h \in Senders, NEW e \in Events, Report(h, e)
       PROVE  PushTypeOK'
  BY <1>14, SenderTypes DEF Report, Start
<1>15. ASSUME NEW h \in Senders, Record(h)
       PROVE  PushTypeOK'
  <2>1. sender[h].event \in Events
    BY <1>15, SenderIs DEF Record
  <2>2. sender' \in [Senders -> SenderState]
    BY <1>15, <2>1, SenderTypes DEF Record, Goes
  <2>3. events' \in Seq(Events)
    BY <1>15, <2>1 DEF Record
  <2> QED
    BY <1>15, <2>2, <2>3 DEF Record
<1>16. ASSUME NEW h \in Senders, EventRows(h)
       PROVE  PushTypeOK'
  <2> DEFINE T == {EventPush(sender[h].event, d) : d \in Enabled}
  <2>1. sender[h].event \in Events
    BY <1>16, SenderIs DEF EventRows
  <2>2. T \in SUBSET Keys
    BY <2>1, PushIs DEF Enabled
  <2>3. sender' \in [Senders -> SenderState]
    BY <1>16, <2>2, SenderTypes DEF EventRows, Goes
  <2> QED
    BY <1>16, <2>3 DEF EventRows
<1>17. ASSUME NEW h \in Senders, NEW result \in {"taken", "refused", "expired"}, Send(h, result)
       PROVE  PushTypeOK'
  <2> DEFINE t == sender[h]
  <2>1. t \in [pc : {"send"}, todo : SUBSET Keys]
    BY <1>17, SenderIs DEF Send
  <2>2. PICK one \in t.todo :
          /\ Goes(h, [pc |-> "send", todo |-> t.todo \ {one}])
          /\ sent' = Add(sent, one)
          /\ waking' = IF result = "taken" THEN [waking EXCEPT ![one.device] = @ + 1] ELSE waking
          /\ IF result = "taken" THEN UNCHANGED <<missed, upsets>> ELSE Upset /\ missed' = missed \cup {one.device}
          /\ device' = IF result = "expired" /\ device[one.device] = "on"
                       THEN [device EXCEPT ![one.device] = "off"] ELSE device
    BY <1>17 DEF Send
  <2>3. one \in Keys /\ one.device \in Devices
    BY <2>1, <2>2, KeyIs
  <2>5. t.todo \ {one} \in SUBSET Keys
    BY <2>1
  <2>6. sender' \in [Senders -> SenderState]
    BY <2>2, <2>5, SenderTypes DEF Goes
  <2>7. sent' \in [DOMAIN sent' -> Nat] /\ DOMAIN sent' \subseteq Keys
    <3>1. sent \in [DOMAIN sent -> Nat] /\ DOMAIN sent \subseteq Keys
      OBVIOUS
    <3> QED
      <4>1. /\ DOMAIN Add(sent, one) = DOMAIN sent \cup {one}
            /\ Add(sent, one) \in [DOMAIN Add(sent, one) -> Nat]
        BY ONLY <3>1, AddIs
      <4>2. sent' = Add(sent, one)
        BY <2>2
      <4> QED
        BY ONLY <2>3, <3>1, <4>1, <4>2, Zenon
  <2>8. waking' \in [Devices -> Nat] /\ missed' \subseteq Devices /\ upsets' \in Nat
        /\ device' \in [Devices -> {"on", "off", "gone"}]
    BY <2>2, <2>3 DEF Upset
  <2> QED
    BY <1>17, <2>6, <2>7, <2>8 DEF Send
<1>18. ASSUME NEW h \in Senders, SendDone(h)
       PROVE  PushTypeOK'
  BY <1>18, SenderTypes DEF SendDone, Goes
<1>19. ASSUME NEW h \in Senders, SenderDies(h)
       PROVE  PushTypeOK'
  BY <1>19, SenderTypes DEF SenderDies, Goes, Upset
<1> QED
  BY <1>1, <1>2, <1>3, <1>4, <1>5, <1>6, <1>7, <1>8, <1>9, <1>10, <1>11, <1>12, <1>13, <1>14, <1>15, <1>16, <1>17,
     <1>18, <1>19 DEF PushNext

-----------------------------------------------------------------------------
(* Who sends what.                                                         *)

LEMMA ToSendKeys ==
  ASSUME NEW t \in SenderState
  PROVE  ToSend(t) \subseteq Keys
<1>1. CASE t.pc = "rows"
  BY <1>1, SenderIs, ToSendIs, PushIs
<1>2. CASE t.pc = "send"
  BY <1>2, SenderIs, ToSendIs
<1>3. CASE t.pc = "claim"
  <2>1. t.mine \subseteq Schedules /\ t.day \in 1..MaxDays
    BY <1>3, SenderIs
  <2> QED
    BY <1>3, <2>1, ToSendIs, PushIs
<1> QED
  BY <1>1, <1>2, <1>3, ToSendIs

LEMMA ToSetAppend ==
  ASSUME NEW s \in Seq(Events), NEW e \in Events
  PROVE  ToSet(Append(s, e)) = ToSet(s) \cup {e}
<1>1. \A i \in DOMAIN s : i \in DOMAIN Append(s, e) /\ Append(s, e)[i] = s[i]
  OBVIOUS
<1>2. Len(s) + 1 \in DOMAIN Append(s, e) /\ Append(s, e)[Len(s) + 1] = e
  OBVIOUS
<1>3. \A i \in DOMAIN Append(s, e) : i \in DOMAIN s \/ i = Len(s) + 1
  OBVIOUS
<1>4. ASSUME NEW x \in ToSet(Append(s, e))
      PROVE  x \in ToSet(s) \cup {e}
  <2>1. PICK i \in DOMAIN Append(s, e) : x = Append(s, e)[i]
    BY DEF ToSet
  <2> QED
    BY <1>1, <1>2, <1>3, <2>1 DEF ToSet
<1>5. ASSUME NEW x \in ToSet(s)
      PROVE  x \in ToSet(Append(s, e))
  <2>1. PICK i \in DOMAIN s : x = s[i]
    BY DEF ToSet
  <2> QED
    BY <1>1, <2>1 DEF ToSet
<1>6. e \in ToSet(Append(s, e))
  BY <1>2 DEF ToSet
<1> QED
  BY <1>4, <1>5, <1>6

\* What no step takes back of the schedules and the events.
Forwards ==
  /\ ToSet(events) \subseteq ToSet(events')
  /\ \A s \in Schedules : /\ schedule[s].again => schedule'[s].again
                          /\ ~schedule'[s].again => schedule[s].last <= schedule'[s].last

LEMMA Kept ==
  ASSUME PushTypeOK, PushTypeOK', Forwards, NEW one \in Keys
  PROVE  /\ Loose(one) => Loose(one)'
         /\ Happened(one) => Happened(one)'
<1>1. one.kind = "briefing" => one.of \in Schedules /\ one.day \in 1..MaxDays
  BY KeyIs
<1>2. Loose(one) => Loose(one)'
  BY <1>1 DEF Loose, Forwards
<1>3. \A s \in Schedules : /\ schedule[s].last \in Int /\ schedule'[s].last \in Int
                           /\ schedule[s].again \in BOOLEAN /\ schedule'[s].again \in BOOLEAN
  BY DEF PushTypeOK, ScheduleRow
<1>4. ASSUME Happened(one), one.kind = "briefing", ~schedule'[one.of].again
      PROVE  one.day <= schedule'[one.of].last
  <2>1. one.of \in Schedules /\ one.day \in Int
    BY <1>1, <1>4
  <2>2. ~schedule[one.of].again /\ schedule[one.of].last <= schedule'[one.of].last
    BY <1>4, <2>1 DEF Forwards
  <2>3. one.day <= schedule[one.of].last
    BY <1>4, <2>2 DEF Happened
  <2> QED
    BY <1>3, <2>1, <2>2, <2>3
<1>5. ASSUME Happened(one), one.kind = "event"
      PROVE  one.of \in ToSet(events')
  BY <1>5 DEF Happened, Forwards
<1> QED
  BY <1>2, <1>4, <1>5 DEF Happened

\* A step after which every sender has no more to send than before.
LEMMA Fewer ==
  ASSUME PushTypeOK, PushTypeOK', SentByOne, Forwards, sent' = sent,
         \A h \in Senders : ToSend(sender'[h]) \subseteq ToSend(sender[h])
  PROVE  SentByOne'
<1>1. \A h \in Senders : sender[h] \in SenderState
  BY DEF PushTypeOK
<1>2. \A h \in Senders : ToSend(sender[h]) \subseteq Keys
  BY <1>1, ToSendKeys
<1>3. DOMAIN sent \subseteq Keys
  BY DEF PushTypeOK
<1>4. \A one \in Keys : (Loose(one) => Loose(one)') /\ (Happened(one) => Happened(one)')
  BY Kept
<1>5. ASSUME NEW h \in Senders, NEW k \in Senders, h # k, NEW one \in ToSend(sender'[h]) \cap ToSend(sender'[k])
      PROVE  Loose(one)'
  BY <1>2, <1>4, <1>5 DEF SentByOne
<1>6. ASSUME NEW h \in Senders, NEW one \in ToSend(sender'[h])
      PROVE  Happened(one)' /\ (one \in DOMAIN sent' => Loose(one)')
  BY <1>2, <1>4, <1>6 DEF SentByOne
<1>7. ASSUME NEW one \in DOMAIN sent'
      PROVE  Happened(one)' /\ (sent'[one] = 1 \/ Loose(one)')
  BY <1>3, <1>4, <1>7 DEF SentByOne
<1> QED
  BY <1>5, <1>6, <1>7 DEF SentByOne

\* One sender goes on, with no more to send than before.
LEMMA RequestGoesOn ==
  ASSUME PushTypeOK, PushTypeOK', SentByOne, DaysPass, Forwards, sent' = sent, NEW h \in Senders, NEW t,
         Goes(h, t), ToSend(t) \subseteq ToSend(sender[h]), UNCHANGED <<clock, schedule>>,
         t.pc = "claim" => t.day <= clock.day
  PROVE  SentByOne' /\ DaysPass'
<1>1. sender'[h] = t /\ \A k \in Senders \ {h} : sender'[k] = sender[k]
  BY DEF Goes, PushTypeOK
<1>2. \A k \in Senders : ToSend(sender'[k]) \subseteq ToSend(sender[k])
  BY <1>1
<1>3. SentByOne'
  BY <1>2, Fewer
<1>4. DaysPass'
  BY <1>1 DEF DaysPass
<1> QED
  BY <1>3, <1>4

LEMMA RecordKeeps ==
  ASSUME PushTypeOK, PushTypeOK', SentByOne, DaysPass, NEW h \in Senders, Record(h)
  PROVE  SentByOne' /\ DaysPass'
<1> DEFINE e == sender[h].event
           t == [pc |-> "rows", event |-> e]
<1>1. e \in Events
  BY SenderIs DEF Record, PushTypeOK
<1>2. UNCHANGED <<clock, schedule>> /\ sent' = sent
  BY DEF Record
<1>3. CASE Recorded(e)
  <2>1. Forwards
    BY <1>2, <1>3 DEF Record, Forwards, PushTypeOK, ScheduleRow
  <2>2. Goes(h, Rest) /\ ToSend(Rest) = {} /\ Rest.pc # "claim"
    BY <1>3, ToSendIs DEF Record, Rest
  <2> QED
    BY <1>2, <2>1, <2>2, RequestGoesOn
<1>4. CASE ~Recorded(e)
  <2>1. events' = Append(events, e) /\ Goes(h, t)
    BY <1>4 DEF Record
  <2>2. ToSet(events') = ToSet(events) \cup {e}
    BY <1>1, <2>1, ToSetAppend DEF PushTypeOK
  <2>3. Forwards
    BY <1>2, <2>2 DEF Forwards, PushTypeOK, ScheduleRow
  <2>4. sender'[h] = t /\ \A k \in Senders \ {h} : sender'[k] = sender[k]
    BY <2>1 DEF Goes, PushTypeOK
  <2>5. ToSend(t) = {EventPush(e, d) : d \in Devices}
    BY ToSendIs
  <2>6. \A one \in ToSend(t) : one \in Keys /\ one.kind = "event" /\ one.of = e
    BY <1>1, <2>5, PushIs
  <2>7. \A one : Happened(one) /\ one.kind = "event" => one.of # e
    BY <1>4 DEF Happened, Recorded
  <2>8. /\ \A k \in Senders : ToSend(sender[k]) \subseteq Keys
        /\ DOMAIN sent \subseteq Keys
    BY ToSendKeys DEF PushTypeOK
  <2>9. \A one \in Keys : (Loose(one) => Loose(one)') /\ (Happened(one) => Happened(one)')
    BY <2>3, Kept
  <2>10. \A one \in ToSend(t) : /\ one \notin DOMAIN sent
                                /\ \A k \in Senders : one \notin ToSend(sender[k])
    BY <2>6, <2>7 DEF SentByOne
  <2>11. \A one \in ToSend(t) : Happened(one)'
    BY <2>2, <2>6 DEF Happened
  <2>12. ASSUME NEW j \in Senders, NEW k \in Senders, j # k, NEW one \in ToSend(sender'[j]) \cap ToSend(sender'[k])
         PROVE  Loose(one)'
    <3>1. j # h /\ k # h
      BY <2>4, <2>10, <2>12
    <3> QED
      BY <2>4, <2>8, <2>9, <2>12, <3>1 DEF SentByOne
  <2>13. ASSUME NEW k \in Senders, NEW one \in ToSend(sender'[k])
         PROVE  Happened(one)' /\ (one \in DOMAIN sent' => Loose(one)')
    <3>1. CASE k = h
      BY <1>2, <2>4, <2>10, <2>11, <2>13, <3>1
    <3>2. CASE k # h
      BY <1>2, <2>4, <2>8, <2>9, <2>13, <3>2 DEF SentByOne
    <3> QED
      BY <3>1, <3>2
  <2>14. ASSUME NEW one \in DOMAIN sent'
         PROVE  Happened(one)' /\ (sent'[one] = 1 \/ Loose(one)')
    BY <1>2, <2>8, <2>9, <2>14 DEF SentByOne
  <2>15. SentByOne'
    BY <2>12, <2>13, <2>14 DEF SentByOne
  <2>16. DaysPass'
    BY <1>2, <2>4 DEF DaysPass
  <2> QED
    BY <2>15, <2>16
<1> QED
  BY <1>3, <1>4

LEMMA ClaimKeeps ==
  ASSUME PushTypeOK, PushTypeOK', SentByOne, DaysPass, NEW h \in Senders, BriefingClaim(h)
  PROVE  SentByOne' /\ DaysPass'
<1> DEFINE t == sender[h]
<1>1. t \in [pc : {"claim"}, due : SUBSET Schedules, mine : SUBSET Schedules, day : 1..MaxDays]
  BY SenderIs DEF BriefingClaim, PushTypeOK
<1>2. PICK s \in t.due :
        /\ schedule' = IF Claims(s, t.day) THEN [schedule EXCEPT ![s] = Claimed(@, t.day)] ELSE schedule
        /\ Goes(h, [pc |-> "claim", due |-> t.due \ {s}, day |-> t.day,
                    mine |-> t.mine \cup {x \in {s} : Claims(x, t.day)}])
  BY DEF BriefingClaim
<1> DEFINE u == [pc |-> "claim", due |-> t.due \ {s}, day |-> t.day,
                 mine |-> t.mine \cup {x \in {s} : Claims(x, t.day)}]
<1>3. s \in Schedules /\ t.day \in 1..MaxDays /\ t.mine \subseteq Schedules /\ t.pc = "claim"
  BY <1>1, <1>2
<1>4. UNCHANGED <<clock, events, sent>>
  BY DEF BriefingClaim
<1>5. /\ ToSend(t) = {BriefingPush(x, t.day, d) : x \in t.mine, d \in Devices}
      /\ ToSend(u) = {BriefingPush(x, t.day, d) : x \in u.mine, d \in Devices}
      /\ u.pc = "claim" /\ u.day = t.day /\ u.mine = t.mine \cup {x \in {s} : Claims(x, t.day)}
  BY <1>3, ToSendIs
<1>6. t.day <= clock.day
  BY <1>3 DEF DaysPass
<1>7. sender'[h] = u /\ \A k \in Senders \ {h} : sender'[k] = sender[k]
  BY <1>2 DEF Goes, PushTypeOK
<1> HIDE DEF u
<1>8. CASE ~Claims(s, t.day)
  <2>1. schedule' = schedule /\ u.mine = t.mine
    BY <1>2, <1>5, <1>8
  <2>2. Forwards
    BY <1>4, <2>1 DEF Forwards, PushTypeOK, ScheduleRow
  <2>3. Goes(h, u)
    BY <1>2 DEF u
  <2>4. ToSend(u) \subseteq ToSend(t)
    BY <1>5, <2>1
  <2> QED
    BY <1>4, <1>5, <1>6, <2>1, <2>2, <2>3, <2>4, RequestGoesOn
<1>9. CASE Claims(s, t.day)
  <2>1. schedule' = [schedule EXCEPT ![s] = Claimed(@, t.day)]
    BY <1>2, <1>9
  <2>2. /\ schedule'[s].last = t.day
        /\ schedule'[s].again = (schedule[s].again \/ t.day # clock.day)
        /\ \A x \in Schedules \ {s} : schedule'[x] = schedule[x]
    <3>1. schedule[s] \in ScheduleRow /\ t.day \in 0..MaxDays
      BY <1>3 DEF PushTypeOK
    <3>2. schedule'[s] = Claimed(schedule[s], t.day)
      BY <1>3, <2>1 DEF PushTypeOK
    <3> QED
      BY <1>3, <2>1, <3>1, <3>2, RowClaimed DEF PushTypeOK
  <2>3. schedule[s].last # t.day /\ schedule[s].last <= clock.day /\ schedule[s].last \in Int /\ clock.day \in Int
    BY <1>3, <1>9 DEF Claims, DaysPass, PushTypeOK, ScheduleRow
  <2>4. Forwards
    <3>1. ToSet(events) \subseteq ToSet(events')
      BY <1>4
    <3>2. ASSUME NEW x \in Schedules
          PROVE  /\ schedule[x].again => schedule'[x].again
                 /\ ~schedule'[x].again => schedule[x].last <= schedule'[x].last
      <4>1. CASE x = s
        BY <2>2, <2>3, <4>1
      <4>2. CASE x # s
        BY <2>2, <4>2 DEF PushTypeOK, ScheduleRow
      <4> QED
        BY <4>1, <4>2
    <3> QED
      BY <3>1, <3>2 DEF Forwards
  <2>5. \A one \in Keys : (Loose(one) => Loose(one)') /\ (Happened(one) => Happened(one)')
    BY <2>4, Kept
  <2>6. /\ \A k \in Senders : ToSend(sender[k]) \subseteq Keys
        /\ DOMAIN sent \subseteq Keys
    BY ToSendKeys DEF PushTypeOK
  <2>7. ASSUME NEW one \in ToSend(u) \ ToSend(t)
        PROVE  /\ one \in Keys /\ Happened(one)'
               /\ \/ Loose(one)'
                  \/ one \notin DOMAIN sent /\ \A k \in Senders : one \notin ToSend(sender[k])
    <3>1. PICK x \in u.mine, d \in Devices : one = BriefingPush(x, t.day, d)
      BY <1>5
    <3>2. x = s
      BY <1>5, <3>1
    <3>3. one \in Keys /\ one.kind = "briefing" /\ one.of = s /\ one.day = t.day
      BY <1>3, <3>1, <3>2, PushIs
    <3>4. Happened(one)'
      BY <2>2, <3>3, <1>3 DEF Happened
    <3>5. ASSUME ~schedule'[s].again
          PROVE  ~Happened(one)
      <4>1. ~schedule[s].again /\ t.day = clock.day
        BY <2>2, <3>5
      <4>2. ~(t.day <= schedule[s].last)
        BY <2>3, <4>1
      <4> QED
        BY <3>3, <4>1, <4>2 DEF Happened
    <3>6. schedule'[s].again => Loose(one)'
      BY <3>3 DEF Loose
    <3> QED
      BY <3>3, <3>4, <3>5, <3>6 DEF SentByOne
  <2>8. ASSUME NEW j \in Senders, NEW k \in Senders, j # k, NEW one \in ToSend(sender'[j]) \cap ToSend(sender'[k])
        PROVE  Loose(one)'
    <3>1. CASE one \in ToSend(sender[j]) /\ one \in ToSend(sender[k])
      BY <2>5, <2>6, <2>8, <3>1 DEF SentByOne
    <3>2. CASE j = h /\ one \notin ToSend(t)
      BY <1>7, <2>7, <2>8, <3>2
    <3>3. CASE k = h /\ one \notin ToSend(t)
      BY <1>7, <2>7, <2>8, <3>3
    <3> QED
      BY <1>7, <2>8, <3>1, <3>2, <3>3
  <2>9. ASSUME NEW k \in Senders, NEW one \in ToSend(sender'[k])
        PROVE  Happened(one)' /\ (one \in DOMAIN sent' => Loose(one)')
    <3>1. CASE one \in ToSend(sender[k])
      BY <1>4, <2>5, <2>6, <3>1 DEF SentByOne
    <3>2. CASE one \notin ToSend(sender[k])
      <4>1. k = h /\ one \in ToSend(u) \ ToSend(t)
        BY <1>7, <2>9, <3>2
      <4> QED
        BY <1>4, <2>7, <4>1
    <3> QED
      BY <3>1, <3>2
  <2>10. ASSUME NEW one \in DOMAIN sent'
         PROVE  Happened(one)' /\ (sent'[one] = 1 \/ Loose(one)')
    BY <1>4, <2>5, <2>6, <2>10 DEF SentByOne
  <2>11. SentByOne'
    BY <2>8, <2>9, <2>10 DEF SentByOne
  <2>12. DaysPass'
    <3>1. \A x \in Schedules : schedule'[x].last <= clock'.day
      BY <1>4, <1>6, <2>2 DEF DaysPass
    <3>2. \A k \in Senders : sender'[k].pc = "claim" => sender'[k].day <= clock'.day
      BY <1>4, <1>5, <1>6, <1>7 DEF DaysPass
    <3> QED
      BY <3>1, <3>2 DEF DaysPass
  <2> QED
    BY <2>11, <2>12
<1> QED
  BY <1>8, <1>9

LEMMA SendKeeps ==
  ASSUME PushTypeOK, PushTypeOK', SentByOne, DaysPass, NEW h \in Senders,
         NEW result \in {"taken", "refused", "expired"}, Send(h, result)
  PROVE  SentByOne' /\ DaysPass'
<1> DEFINE t == sender[h]
<1>1. t.pc = "send" /\ ToSend(t) = t.todo
  BY ToSendIs DEF Send
<1>2. PICK one \in t.todo : /\ Goes(h, [pc |-> "send", todo |-> t.todo \ {one}])
                            /\ sent' = Add(sent, one)
  BY DEF Send
<1> DEFINE u == [pc |-> "send", todo |-> t.todo \ {one}]
<1>3. ToSend(u) = t.todo \ {one} /\ u.pc = "send"
  BY ToSendIs
<1>4. sender'[h] = u /\ \A k \in Senders \ {h} : sender'[k] = sender[k]
  BY <1>2 DEF Goes, PushTypeOK
<1> HIDE DEF u
<1>5. UNCHANGED <<clock, schedule, events>>
  BY DEF Send
<1>6. /\ \A x : Loose(x)' = Loose(x)
      /\ \A x : Happened(x)' = Happened(x)
  BY <1>5 DEF Loose, Happened
<1>7. /\ DOMAIN sent' = DOMAIN sent \cup {one}
      /\ \A x \in DOMAIN sent : x # one => sent'[x] = sent[x]
      /\ one \notin DOMAIN sent => sent'[one] = 1
  <2>1. sent \in [DOMAIN sent -> Nat]
    BY DEF PushTypeOK
  <2> QED
    BY ONLY <1>2, <2>1, AddIs
<1>8. Happened(one) /\ (one \in DOMAIN sent => Loose(one))
  BY <1>1, <1>2 DEF SentByOne
<1>9. \A k \in Senders : ToSend(sender'[k]) \subseteq ToSend(sender[k])
  BY <1>1, <1>3, <1>4
<1>10. \A k \in Senders : one \in ToSend(sender'[k]) => Loose(one)
  BY <1>1, <1>2, <1>3, <1>4 DEF SentByOne
<1>11. ASSUME NEW k \in Senders, NEW x \in ToSend(sender'[k])
       PROVE  Happened(x)' /\ (x \in DOMAIN sent' => Loose(x)')
  BY <1>6, <1>7, <1>9, <1>10, <1>11 DEF SentByOne
<1>12. ASSUME NEW j \in Senders, NEW k \in Senders, j # k, NEW x \in ToSend(sender'[j]) \cap ToSend(sender'[k])
       PROVE  Loose(x)'
  BY <1>6, <1>9, <1>12 DEF SentByOne
<1>13. ASSUME NEW x \in DOMAIN sent'
       PROVE  Happened(x)' /\ (sent'[x] = 1 \/ Loose(x)')
  <2>1. CASE x = one
    BY <1>6, <1>7, <1>8, <2>1
  <2>2. CASE x # one
    BY <1>6, <1>7, <1>13, <2>2 DEF SentByOne
  <2> QED
    BY <2>1, <2>2
<1>14. SentByOne'
  BY <1>11, <1>12, <1>13 DEF SentByOne
<1>15. DaysPass'
  BY <1>3, <1>4, <1>5 DEF DaysPass
<1> QED
  BY <1>14, <1>15

LEMMA NextSends ==
  ASSUME PushTypeOK, PushTypeOK', SentByOne, DaysPass, PushNext
  PROVE  SentByOne' /\ DaysPass'
<1>1. ASSUME UNCHANGED <<schedule, events, sender, sent>>, clock'.day >= clock.day
      PROVE  SentByOne' /\ DaysPass'
  <2>1. Forwards
    BY <1>1 DEF Forwards, PushTypeOK, ScheduleRow
  <2>2. SentByOne'
    BY <1>1, <2>1, Fewer
  <2>3. DaysPass'
    <3>1. \A s \in Schedules : schedule[s].last \in Int /\ clock.day \in Int /\ clock'.day \in Int
      BY DEF PushTypeOK, ScheduleRow
    <3>2. ASSUME NEW h \in Senders, sender[h].pc = "claim"
          PROVE  sender[h].day \in Int
      BY <3>2, SenderIs DEF PushTypeOK
    <3>3. \A s \in Schedules : schedule'[s].last <= clock'.day
      BY <1>1, <3>1 DEF DaysPass
    <3>4. ASSUME NEW h \in Senders, sender'[h].pc = "claim"
          PROVE  sender'[h].day <= clock'.day
      <4>1. sender[h].pc = "claim" /\ sender'[h].day = sender[h].day
        BY <1>1, <3>4
      <4>2. clock.day \in Int /\ clock'.day \in Int
        BY DEF PushTypeOK
      <4> QED
        BY <1>1, <3>2, <4>1, <4>2 DEF DaysPass
    <3> QED
      BY <3>3, <3>4 DEF DaysPass
  <2> QED
    BY <2>2, <2>3
<1>2. CASE DayPasses
  <2>1. UNCHANGED <<schedule, events, sender, sent>>
    BY <1>2 DEF DayPasses
  <2>2. clock'.day = clock.day \/ clock'.day = clock.day + 1
    BY <1>2 DEF DayPasses, PushTypeOK
  <2>3. clock.day \in Int
    BY DEF PushTypeOK
  <2> QED
    BY <1>1, <2>1, <2>2, <2>3
<1>3. CASE UNCHANGED <<clock, schedule, events, sender, sent>>
  BY <1>1, <1>3 DEF PushTypeOK
<1>4. ASSUME NEW s \in Schedules, WorkerStarts(s)
      PROVE  SentByOne' /\ DaysPass'
  <2>1. /\ schedule'[s].again = TRUE /\ schedule'[s].last = 0
        /\ \A x \in Schedules \ {s} : schedule'[x] = schedule[x]
    BY <1>4 DEF WorkerStarts, PushTypeOK
  <2>2. Forwards
    BY <1>4, <2>1 DEF WorkerStarts, Forwards, PushTypeOK, ScheduleRow
  <2>3. SentByOne'
    BY <1>4, <2>2, Fewer DEF WorkerStarts
  <2> QED
    BY <1>4, <2>1, <2>3 DEF WorkerStarts, DaysPass, PushTypeOK
<1>5. ASSUME NEW s \in Schedules, NEW status \in {"on", "off", "gone"}, NEW at \in DeliveryTimes,
             SaveSchedule(s, status, at)
      PROVE  SentByOne' /\ DaysPass'
  <2>1. /\ schedule'[s].again = schedule[s].again /\ schedule'[s].last = schedule[s].last
        /\ \A x \in Schedules \ {s} : schedule'[x] = schedule[x]
    <3>1. schedule[s] \in ScheduleRow /\ schedule'[s] = [schedule[s] EXCEPT !.status = status, !.at = at]
      BY <1>5 DEF SaveSchedule, PushTypeOK
    <3>2. \A x \in Schedules \ {s} : schedule'[x] = schedule[x]
      BY <1>5 DEF SaveSchedule, PushTypeOK
    <3>3. schedule'[s].again = schedule[s].again /\ schedule'[s].last = schedule[s].last
      <4> DEFINE r == schedule[s]
      <4>1. r \in ScheduleRow /\ schedule'[s] = [r EXCEPT !.status = status, !.at = at]
        BY <3>1
      <4> HIDE DEF r
      <4>2. schedule'[s].again = r.again /\ schedule'[s].last = r.last
        BY ONLY <4>1 DEF ScheduleRow
      <4> QED
        BY <4>2 DEF r
    <3> QED
      BY <3>2, <3>3
  <2>2. Forwards
    BY <1>5, <2>1 DEF SaveSchedule, Forwards, PushTypeOK, ScheduleRow
  <2>3. SentByOne'
    BY <1>5, <2>2, Fewer DEF SaveSchedule
  <2> QED
    BY <1>5, <2>1, <2>3 DEF SaveSchedule, DaysPass, PushTypeOK
<1>6. UNCHANGED <<schedule, events>> => Forwards
  BY DEF Forwards, PushTypeOK, ScheduleRow
<1>7. ToSend(Rest) = {} /\ Rest.pc # "claim"
  BY ToSendIs DEF Rest
<1>8. ASSUME NEW h \in Senders, BriefingRead(h)
      PROVE  SentByOne' /\ DaysPass'
  <2> DEFINE t == [pc |-> "claim", due |-> {s \in Schedules : Due(s)}, mine |-> {}, day |-> clock.day]
  <2>1. Goes(h, t) /\ UNCHANGED <<clock, schedule, events, sent>>
    BY <1>8 DEF BriefingRead, Start, Goes
  <2>2. ToSend(t) = {} /\ t.day = clock.day
    BY ToSendIs
  <2>3. t.day <= clock.day
    BY <2>2 DEF PushTypeOK
  <2> HIDE DEF t
  <2> QED
    BY <1>6, <2>1, <2>2, <2>3, RequestGoesOn
<1>9. ASSUME NEW h \in Senders, BriefingRows(h)
      PROVE  SentByOne' /\ DaysPass'
  <2> DEFINE u == sender[h]
             t == [pc |-> "send", todo |-> {BriefingPush(s, u.day, d) : s \in u.mine, d \in Enabled}]
  <2>1. UNCHANGED <<clock, schedule, events, sent>>
    BY <1>9 DEF BriefingRows
  <2>2. Goes(h, Rest) \/ Goes(h, t)
    BY <1>9 DEF BriefingRows
  <2>3. ToSend(t) \subseteq ToSend(u) /\ t.pc = "send"
    BY <1>9, ToSendIs DEF BriefingRows, Enabled
  <2> HIDE DEF t
  <2> QED
    BY <1>6, <1>7, <2>1, <2>2, <2>3, RequestGoesOn
<1>10. ASSUME NEW h \in Senders, NEW e \in Events, Report(h, e)
       PROVE  SentByOne' /\ DaysPass'
  <2> DEFINE t == [pc |-> "record", event |-> e]
  <2>1. Goes(h, t) /\ UNCHANGED <<clock, schedule, events, sent>>
    BY <1>10 DEF Report, Start, Goes
  <2>2. ToSend(t) = {} /\ t.pc = "record"
    BY ToSendIs
  <2> HIDE DEF t
  <2> QED
    BY <1>6, <2>1, <2>2, RequestGoesOn
<1>11. ASSUME NEW h \in Senders, EventRows(h)
       PROVE  SentByOne' /\ DaysPass'
  <2> DEFINE u == sender[h]
             t == [pc |-> "send", todo |-> {EventPush(u.event, d) : d \in Enabled}]
  <2>1. Goes(h, t) /\ UNCHANGED <<clock, schedule, events, sent>>
    BY <1>11 DEF EventRows
  <2>2. ToSend(t) \subseteq ToSend(u) /\ t.pc = "send"
    BY <1>11, ToSendIs DEF EventRows, Enabled
  <2> HIDE DEF t
  <2> QED
    BY <1>6, <2>1, <2>2, RequestGoesOn
<1>12. ASSUME NEW h \in Senders, SendDone(h) \/ SenderDies(h)
       PROVE  SentByOne' /\ DaysPass'
  <2>1. Goes(h, Rest) /\ UNCHANGED <<clock, schedule, events, sent>>
    BY <1>12 DEF SendDone, SenderDies
  <2> QED
    BY <1>6, <1>7, <2>1, RequestGoesOn
<1>13. CASE SaveSettings
  BY <1>3, <1>13 DEF SaveSettings
<1>14. ASSUME NEW d \in Devices, PushLost(d) \/ \E status \in {"on", "off", "gone"} : SetDevice(d, status)
       PROVE  SentByOne' /\ DaysPass'
  BY <1>3, <1>14 DEF PushLost, SetDevice
<1>15. ASSUME NEW d \in Devices, NEW k \in Wakes, Ask(d, k) \/ Mark(d, k) \/ Show(d, k) \/ AnswerLost(d, k)
       PROVE  SentByOne' /\ DaysPass'
  BY <1>3, <1>15 DEF Ask, Mark, Show, AnswerLost
<1> QED
  BY <1>2, <1>4, <1>5, <1>8, <1>9, <1>10, <1>11, <1>12, <1>13, <1>14, <1>15, RecordKeeps, ClaimKeeps, SendKeeps
     DEF PushNext

-----------------------------------------------------------------------------
(* What a phone is told.                                                   *)

LEMMA NextTells ==
  ASSUME PushTypeOK, PushTypeOK', ToldByOne, PushNext
  PROVE  ToldByOne'
<1>1. ASSUME UNCHANGED <<wake, delivered, told, met>>, ToSet(events) \subseteq ToSet(events')
      PROVE  ToldByOne'
  BY <1>1 DEF ToldByOne, Asking, Answered
<1>2. CASE UNCHANGED <<wake, delivered, told, met, events>>
  BY <1>1, <1>2
<1>3. ASSUME NEW h \in Senders, Record(h)
      PROVE  ToldByOne'
  <2>1. sender[h].event \in Events
    BY <1>3, SenderIs DEF Record, PushTypeOK
  <2>2. ToSet(events) \subseteq ToSet(events')
    BY <1>3, <2>1, ToSetAppend DEF Record, PushTypeOK
  <2> QED
    BY <1>1, <1>3, <2>2 DEF Record
<1>4. \A d \in Devices, k \in Wakes : wake[d][k] \in WakeState /\ wake'[d][k] \in WakeState
  BY DEF PushTypeOK
<1>5. \A d \in Devices, k \in Wakes : wake[d][k] = Rest => ~Asking(d, k) /\ ~Answered(d, k)
  BY DEF Rest, Asking, Answered
<1>6. ASSUME NEW d \in Devices, NEW k \in Wakes, NEW w, Woken(d, k, w)
      PROVE  /\ wake'[d][k] = w
             /\ \A x \in Devices, j \in Wakes : x # d \/ j # k => wake'[x][j] = wake[x][j]
  BY <1>6 DEF Woken, PushTypeOK
<1>7. ASSUME NEW d \in Devices, NEW k \in Wakes, Ask(d, k)
      PROVE  ToldByOne'
  <2>1. /\ UNCHANGED <<events, delivered, told>> /\ wake[d][k] = Rest
        /\ met \subseteq met' /\ (d \notin met' => \A j \in Wakes : wake[d][j] = Rest)
    BY <1>7 DEF Ask
  <2>2. CASE UNCHANGED wake
    BY <2>1, <2>2 DEF ToldByOne, Asking, Answered
  <2>3. ASSUME NEW i \in Untold(d), Woken(d, k, [pc |-> "mark", event |-> events[i]])
        PROVE  ToldByOne'
    <3>1. /\ wake'[d][k] = [pc |-> "mark", event |-> events[i]]
          /\ \A x \in Devices, j \in Wakes : x # d \/ j # k => wake'[x][j] = wake[x][j]
      BY <1>6, <2>3
    <3>2. events[i] \in ToSet(events) /\ <<events[i], d>> \notin delivered
      BY DEF Untold, ToSet
    <3>3. \A x \in Devices, j \in Wakes : /\ Asking(x, j)' => wake'[x][j].event \in ToSet(events')
                                          /\ Answered(x, j)' => <<wake'[x][j].event, x>> \in delivered'
      <4>1. CASE UNCHANGED wake
        BY <2>1, <4>1 DEF ToldByOne, Asking, Answered
      <4>2. ASSUME NEW x \in Devices, NEW j \in Wakes, x # d \/ j # k
            PROVE  /\ Asking(x, j)' => wake'[x][j].event \in ToSet(events')
                   /\ Answered(x, j)' => <<wake'[x][j].event, x>> \in delivered'
        <5>1. wake'[x][j] = wake[x][j]
          BY <3>1, <4>2
        <5> QED
          BY <2>1, <5>1 DEF ToldByOne, Asking, Answered
      <4>3. ~Answered(d, k)' /\ wake'[d][k].event = events[i]
        BY <3>1 DEF Answered
      <4>4. wake'[d][k].event \in ToSet(events')
        BY <2>1, <3>2, <4>3
      <4> QED
        BY <4>2, <4>3, <4>4
    <3>4. ASSUME NEW x \in Devices \ met', x # d
          PROVE  \A j \in Wakes : wake'[x][j] = wake[x][j] /\ x \notin met
      BY <2>1, <3>1, <3>4
    <3>5. ASSUME d \notin met'
          PROVE  /\ \A j, l \in Wakes : wake'[d][j] # Rest /\ wake'[d][l] # Rest => j = l
                 /\ \A j \in Wakes : Asking(d, j)' => <<wake'[d][j].event, d>> \notin delivered'
                 /\ \A j \in Wakes : ~Answered(d, j)'
                 /\ \A e \in Events : <<e, d>> \in DOMAIN told' => told'[<<e, d>>] = 1
      <4>1. \A j \in Wakes \ {k} : wake'[d][j] = Rest
        BY <2>1, <3>1, <3>5
      <4> QED
        BY <2>1, <3>1, <3>2, <3>5, <4>1 DEF ToldByOne, Asking, Answered, Rest
    <3>6. ASSUME NEW x \in Devices \ met', x # d
          PROVE  /\ \A j, l \in Wakes : wake'[x][j] # Rest /\ wake'[x][l] # Rest => j = l
                 /\ \A j \in Wakes : Asking(x, j)' => <<wake'[x][j].event, x>> \notin delivered'
                 /\ \A j \in Wakes : Answered(x, j)' => <<wake'[x][j].event, x>> \notin DOMAIN told'
                 /\ \A e \in Events : <<e, x>> \in DOMAIN told' => told'[<<e, x>>] = 1
      BY <2>1, <3>4, <3>6 DEF ToldByOne, Asking, Answered
    <3>7. \A one \in DOMAIN told' : one \in delivered'
      BY <2>1 DEF ToldByOne
    <3> QED
      BY <3>3, <3>5, <3>6, <3>7 DEF ToldByOne
  <2> QED
    BY <1>7, <2>2, <2>3 DEF Ask
<1>8. ASSUME NEW d \in Devices, NEW k \in Wakes, AnswerLost(d, k)
      PROVE  ToldByOne'
  <2>1. /\ wake'[d][k] = Rest
        /\ \A x \in Devices, j \in Wakes : x # d \/ j # k => wake'[x][j] = wake[x][j]
        /\ UNCHANGED <<events, delivered, told, met>>
    BY <1>6, <1>8 DEF AnswerLost
  <2>2. \A x \in Devices, j \in Wakes : wake'[x][j] = wake[x][j] \/ wake'[x][j] = Rest
    BY <2>1
  <2>3. Rest.pc = "idle"
    BY DEF Rest
  <2> QED
    BY <2>1, <2>2, <2>3 DEF ToldByOne, Asking, Answered
<1>9. ASSUME NEW d \in Devices, NEW k \in Wakes, Mark(d, k)
      PROVE  ToldByOne'
  <2> DEFINE e == wake[d][k].event
             w == [pc |-> "answer", event |-> e]
  <2>1. Woken(d, k, w) /\ delivered' = delivered \cup {<<e, d>>} /\ Asking(d, k)
    BY <1>9 DEF Mark, Asking
  <2>2. UNCHANGED <<events, told, met>>
    BY <1>9 DEF Mark
  <2>3. /\ wake'[d][k] = w
        /\ \A x \in Devices, j \in Wakes : x # d \/ j # k => wake'[x][j] = wake[x][j]
    BY <1>6, <2>1
  <2>4. w.pc = "answer" /\ w.event = e /\ w # Rest /\ wake[d][k] # Rest
    BY <2>1 DEF Rest, Asking
  <2> HIDE DEF w, e
  <2>5. \A one \in DOMAIN told' : one \in delivered'
    BY <2>1, <2>2 DEF ToldByOne
  <2>6. \A x \in Devices, j \in Wakes : /\ Asking(x, j)' => wake'[x][j].event \in ToSet(events')
                                        /\ Answered(x, j)' => <<wake'[x][j].event, x>> \in delivered'
    BY <2>1, <2>2, <2>3, <2>4 DEF ToldByOne, Asking, Answered
  <2>7. ASSUME NEW x \in Devices \ met', x # d
        PROVE  /\ \A j, l \in Wakes : wake'[x][j] # Rest /\ wake'[x][l] # Rest => j = l
               /\ \A j \in Wakes : Asking(x, j)' => <<wake'[x][j].event, x>> \notin delivered'
               /\ \A j \in Wakes : Answered(x, j)' => <<wake'[x][j].event, x>> \notin DOMAIN told'
               /\ \A y \in Events : <<y, x>> \in DOMAIN told' => told'[<<y, x>>] = 1
    <3>1. \A y : <<y, x>> # <<e, d>>
      BY <2>7
    <3>2. \A j \in Wakes : wake'[x][j] = wake[x][j]
      BY <2>3, <2>7
    <3> QED
      BY <2>1, <2>2, <2>7, <3>1, <3>2 DEF ToldByOne, Asking, Answered
  <2>8. ASSUME d \notin met'
        PROVE  /\ \A j, l \in Wakes : wake'[d][j] # Rest /\ wake'[d][l] # Rest => j = l
               /\ \A j \in Wakes : ~Asking(d, j)'
               /\ \A j \in Wakes : Answered(d, j)' => <<wake'[d][j].event, d>> \notin DOMAIN told'
               /\ \A y \in Events : <<y, d>> \in DOMAIN told' => told'[<<y, d>>] = 1
    <3>1. d \in Devices \ met
      BY <2>2, <2>8
    <3>2. \A j \in Wakes \ {k} : wake'[d][j] = Rest
      BY <2>3, <2>4, <3>1 DEF ToldByOne
    <3>3. <<e, d>> \notin DOMAIN told
      BY <2>1, <3>1 DEF ToldByOne, e
    <3>4. \A j \in Wakes \ {k} : ~Asking(d, j)' /\ ~Answered(d, j)'
      BY <3>2 DEF Asking, Answered, Rest
    <3>5. ~Asking(d, k)' /\ wake'[d][k].event = e
      BY <2>3, <2>4 DEF Asking
    <3> QED
      BY <2>1, <2>2, <3>1, <3>2, <3>3, <3>4, <3>5 DEF ToldByOne
  <2> QED
    BY <2>5, <2>6, <2>7, <2>8 DEF ToldByOne
<1>10. ASSUME NEW d \in Devices, NEW k \in Wakes, Show(d, k)
       PROVE  ToldByOne'
  <2> DEFINE e == wake[d][k].event
  <2>1. Woken(d, k, Rest) /\ told' = Add(told, <<e, d>>) /\ Answered(d, k)
    BY <1>10 DEF Show, Answered
  <2>2. UNCHANGED <<events, delivered, met>>
    BY <1>10 DEF Show
  <2>3. /\ wake'[d][k] = Rest
        /\ \A x \in Devices, j \in Wakes : x # d \/ j # k => wake'[x][j] = wake[x][j]
    BY <1>6, <2>1
  <2>4. wake[d][k] # Rest /\ Rest.pc = "idle"
    BY <2>1 DEF Rest, Answered
  <2>5. /\ DOMAIN told' = DOMAIN told \cup {<<e, d>>}
        /\ \A x \in DOMAIN told : x # <<e, d>> => told'[x] = told[x]
        /\ <<e, d>> \notin DOMAIN told => told'[<<e, d>>] = 1
    <3>1. told \in [DOMAIN told -> Nat]
      BY DEF PushTypeOK
    <3> HIDE DEF e
    <3> QED
      BY ONLY <2>1, <3>1, AddIs
  <2> HIDE DEF e
  <2>6. \A x \in Devices, j \in Wakes : /\ Asking(x, j)' => wake'[x][j].event \in ToSet(events')
                                        /\ Answered(x, j)' => <<wake'[x][j].event, x>> \in delivered'
    BY <2>1, <2>2, <2>3, <2>4 DEF ToldByOne, Asking, Answered
  <2>7. ASSUME NEW x \in Devices \ met', x # d
        PROVE  /\ \A j, l \in Wakes : wake'[x][j] # Rest /\ wake'[x][l] # Rest => j = l
               /\ \A j \in Wakes : Asking(x, j)' => <<wake'[x][j].event, x>> \notin delivered'
               /\ \A j \in Wakes : Answered(x, j)' => <<wake'[x][j].event, x>> \notin DOMAIN told'
               /\ \A y \in Events : <<y, x>> \in DOMAIN told' => told'[<<y, x>>] = 1
    <3>1. \A y : <<y, x>> # <<e, d>>
      BY <2>7
    <3>2. \A j \in Wakes : wake'[x][j] = wake[x][j]
      BY <2>3, <2>7
    <3> QED
      BY <2>2, <2>5, <2>7, <3>1, <3>2 DEF ToldByOne, Asking, Answered
  <2>8. ASSUME d \notin met'
        PROVE  /\ \A j \in Wakes : wake'[d][j] = Rest /\ ~Asking(d, j)' /\ ~Answered(d, j)'
               /\ \A y \in Events : <<y, d>> \in DOMAIN told' => told'[<<y, d>>] = 1
    <3>1. d \in Devices \ met
      BY <2>2, <2>8
    <3>2. \A j \in Wakes : wake'[d][j] = Rest
      BY <2>3, <2>4, <3>1 DEF ToldByOne
    <3>3. <<e, d>> \notin DOMAIN told
      BY <2>1, <3>1 DEF ToldByOne, e
    <3>4. \A j \in Wakes : ~Asking(d, j)' /\ ~Answered(d, j)'
      BY <2>4, <3>2 DEF Asking, Answered
    <3> QED
      BY <2>5, <3>1, <3>2, <3>3, <3>4 DEF ToldByOne
  <2>9. \A one \in DOMAIN told' : one \in delivered'
    <3>1. <<e, d>> \in delivered
      <4>1. Answered(d, k) => <<wake[d][k].event, d>> \in delivered
        BY DEF ToldByOne
      <4> QED
        BY <2>1, <4>1 DEF e
    <3> QED
      BY <2>2, <2>5, <3>1 DEF ToldByOne
  <2> QED
    BY <2>6, <2>7, <2>8, <2>9 DEF ToldByOne
<1>11. CASE DayPasses \/ SaveSettings
  BY <1>2, <1>11 DEF DayPasses, SaveSettings
<1>12. ASSUME NEW s \in Schedules,
              WorkerStarts(s) \/ \E status \in {"on", "off", "gone"}, at \in DeliveryTimes : SaveSchedule(s, status, at)
       PROVE  ToldByOne'
  BY <1>2, <1>12 DEF WorkerStarts, SaveSchedule
<1>13. ASSUME NEW d \in Devices, PushLost(d) \/ \E status \in {"on", "off", "gone"} : SetDevice(d, status)
       PROVE  ToldByOne'
  BY <1>2, <1>13 DEF PushLost, SetDevice
<1>14. ASSUME NEW h \in Senders, \/ BriefingRead(h) \/ BriefingClaim(h) \/ BriefingRows(h) \/ EventRows(h)
                                 \/ SendDone(h) \/ SenderDies(h)
       PROVE  ToldByOne'
  BY <1>2, <1>14 DEF BriefingRead, BriefingClaim, BriefingRows, EventRows, SendDone, SenderDies
<1>15. ASSUME NEW h \in Senders, \/ \E e \in Events : Report(h, e)
                                 \/ \E result \in {"taken", "refused", "expired"} : Send(h, result)
       PROVE  ToldByOne'
  BY <1>2, <1>15 DEF Report, Send
<1> QED
  BY <1>3, <1>7, <1>8, <1>9, <1>10, <1>11, <1>12, <1>13, <1>14, <1>15 DEF PushNext

-----------------------------------------------------------------------------
(* How often it is woken.                                                  *)

IsCount(S) == IsFiniteSet(S) /\ Cardinality(S) \in Nat
AllCounted == \A d \in Devices :
  ToTell(d) \subseteq ToSet(events) /\ ToWake(d) \subseteq ToSet(events) /\ IsCount(ToTell(d)) /\ IsCount(ToWake(d))

LEMMA Countable ==
  PushTypeOK /\ SentByOne => AllCounted
<1> SUFFICES ASSUME PushTypeOK, SentByOne, NEW d \in Devices
             PROVE  /\ ToTell(d) \subseteq ToSet(events) /\ ToWake(d) \subseteq ToSet(events)
                    /\ IsCount(ToTell(d)) /\ IsCount(ToWake(d))
  BY DEF AllCounted
<1>1. IsFiniteSet(ToSet(events))
  <2>1. events \in [1..Len(events) -> ToSet(events)] /\ DOMAIN events = 1..Len(events) /\ Len(events) \in Nat
    BY DEF PushTypeOK, ToSet
  <2>2. events \in Surjection(1..Len(events), ToSet(events))
    BY <2>1 DEF Surjection, ToSet
  <2>3. IsFiniteSet(1..Len(events))
    BY <2>1, FS_Interval
  <2> QED
    BY <2>2, <2>3, FS_Surjection
<1>2. ToTell(d) \subseteq ToSet(events)
  BY DEF ToTell
<1>3. ToWake(d) \subseteq ToSet(events)
  <2>1. ASSUME NEW e \in Events, NEW h \in Senders, EventPush(e, d) \in ToSend(sender[h])
        PROVE  e \in ToSet(events)
    <3>1. Happened(EventPush(e, d))
      BY <2>1 DEF SentByOne
    <3> QED
      BY <3>1, PushIs DEF Happened
  <2> QED
    BY <2>1 DEF ToWake
<1> QED
  BY <1>1, <1>2, <1>3, FS_Subset, FS_CardinalityType DEF IsCount

LEMMA CountableThen ==
  PushTypeOK' /\ SentByOne' => AllCounted'
BY Countable, PTL

\* A step that takes no wakeup from a phone and tells it nothing.
LEMMA EnoughKept ==
  ASSUME PushTypeOK, PushTypeOK', SentByOne, SentByOne', NEW d \in Devices, Enough(d),
         device'[d] = device[d], waking'[d] = waking[d], wake'[d] = wake[d], UNCHANGED <<events, delivered, told>>,
         \A e \in Events, h \in Senders :
           EventPush(e, d) \in ToSend(sender[h]) => EventPush(e, d) \in ToSend(sender'[h])
  PROVE  Enough(d)'
<1>1. ToTell(d)' = ToTell(d)
  BY DEF ToTell, Asking
<1>2. ToWake(d) \subseteq ToWake(d)'
  BY DEF ToWake
<1>3. IsFiniteSet(ToWake(d)') /\ Cardinality(ToWake(d)') \in Nat
  BY Countable, CountableThen DEF AllCounted, IsCount
<1>4. Cardinality(ToWake(d)) <= Cardinality(ToWake(d)')
  BY <1>2, <1>3, FS_Subset
<1>5. /\ Cardinality(ToTell(d)) \in Nat /\ Cardinality(ToWake(d)) \in Nat /\ waking[d] \in Nat
  BY Countable DEF AllCounted, IsCount, PushTypeOK
<1>6. Cardinality(ToTell(d)') <= waking'[d] + Cardinality(ToWake(d)')
  BY <1>1, <1>3, <1>4, <1>5 DEF Enough
<1>7. \A e \in Events : <<e, d>> \in delivered' =>
        <<e, d>> \in DOMAIN told' \/ \E k \in Wakes : Answered(d, k)' /\ wake'[d][k].event = e
  BY DEF Enough, Answered
<1> QED
  BY <1>6, <1>7 DEF Enough

LEMMA RecordEnough ==
  ASSUME PushTypeOK, PushTypeOK', SentByOne, SentByOne', NEW h \in Senders, Record(h), NEW d \in Devices, Enough(d)
  PROVE  Enough(d)'
<1> DEFINE e == sender[h].event
           t == [pc |-> "rows", event |-> e]
<1>1. e \in Events
  BY SenderIs DEF Record, PushTypeOK
<1>2. UNCHANGED <<device, waking, wake, delivered, told>>
  BY DEF Record
<1>3. ToSend(sender[h]) = {}
  BY ToSendIs DEF Record
<1>4. \A k \in Senders \ {h} : sender'[k] = sender[k]
  BY DEF Record, Goes, PushTypeOK
<1>5. \A x \in Events, k \in Senders :
        EventPush(x, d) \in ToSend(sender[k]) => EventPush(x, d) \in ToSend(sender'[k])
  BY <1>3, <1>4
<1>6. CASE Recorded(e)
  BY <1>2, <1>5, <1>6, EnoughKept DEF Record
<1>7. CASE ~Recorded(e)
  <2>1. events' = Append(events, e) /\ sender'[h] = t
    BY <1>7 DEF Record, Goes, PushTypeOK
  <2>2. ToSet(events') = ToSet(events) \cup {e} /\ e \notin ToSet(events)
    BY <1>1, <1>7, <2>1, ToSetAppend DEF PushTypeOK, Recorded
  <2>3. ToTell(d)' \subseteq ToTell(d) \cup {e}
    BY <1>2, <2>2 DEF ToTell, Asking
  <2>4. e \in ToWake(d)'
    <3>1. EventPush(e, d) \in ToSend(t)
      BY ToSendIs
    <3> QED
      BY <1>1, <2>1, <3>1 DEF ToWake
  <2>5. ToWake(d) \cup {e} \subseteq ToWake(d)'
    BY <1>5, <2>4 DEF ToWake
  <2>6. e \notin ToWake(d) /\ e \notin ToTell(d)
    BY <2>2, Countable DEF AllCounted
  <2>7. /\ IsFiniteSet(ToTell(d)) /\ Cardinality(ToTell(d)) \in Nat
        /\ IsFiniteSet(ToWake(d)) /\ Cardinality(ToWake(d)) \in Nat
        /\ IsFiniteSet(ToWake(d)') /\ Cardinality(ToWake(d)') \in Nat /\ Cardinality(ToTell(d)') \in Nat
    BY Countable, CountableThen DEF AllCounted, IsCount
  <2>8. /\ Cardinality(ToTell(d) \cup {e}) = Cardinality(ToTell(d)) + 1 /\ IsFiniteSet(ToTell(d) \cup {e})
        /\ Cardinality(ToWake(d) \cup {e}) = Cardinality(ToWake(d)) + 1
    BY <2>6, <2>7, FS_AddElement
  <2>9. /\ Cardinality(ToTell(d)') <= Cardinality(ToTell(d)) + 1
        /\ Cardinality(ToWake(d)) + 1 <= Cardinality(ToWake(d)')
    BY <2>3, <2>5, <2>7, <2>8, FS_Subset
  <2>10. waking[d] \in Nat
    BY DEF PushTypeOK
  <2>11. Cardinality(ToTell(d)') <= waking'[d] + Cardinality(ToWake(d)')
    BY <1>2, <2>7, <2>9, <2>10 DEF Enough
  <2>12. \A x \in Events : <<x, d>> \in delivered' =>
           <<x, d>> \in DOMAIN told' \/ \E k \in Wakes : Answered(d, k)' /\ wake'[d][k].event = x
    BY <1>2 DEF Enough, Answered
  <2> QED
    BY <1>2, <2>11, <2>12 DEF Enough
<1> QED
  BY <1>6, <1>7

LEMMA SendEnough ==
  ASSUME PushTypeOK, PushTypeOK', SentByOne, SentByOne', NEW h \in Senders,
         NEW result \in {"taken", "refused", "expired"}, Send(h, result), NEW d \in Devices \ missed', Enough(d)
  PROVE  Enough(d)'
<1> DEFINE t == sender[h]
<1>1. t.pc = "send" /\ ToSend(t) = t.todo /\ t.todo \subseteq Keys
  <2>1. t \in SenderState
    BY DEF PushTypeOK
  <2>2. t.pc = "send"
    BY DEF Send
  <2> QED
    BY <2>1, <2>2, ToSendIs, SenderIs
<1>2. PICK one \in t.todo :
        /\ Goes(h, [pc |-> "send", todo |-> t.todo \ {one}])
        /\ waking' = IF result = "taken" THEN [waking EXCEPT ![one.device] = @ + 1] ELSE waking
        /\ IF result = "taken" THEN UNCHANGED <<missed, upsets>> ELSE Upset /\ missed' = missed \cup {one.device}
        /\ device' = IF result = "expired" /\ device[one.device] = "on"
                     THEN [device EXCEPT ![one.device] = "off"] ELSE device
  BY DEF Send
<1> DEFINE u == [pc |-> "send", todo |-> t.todo \ {one}]
<1>3. ToSend(u) = t.todo \ {one}
  BY ToSendIs
<1>4. sender'[h] = u /\ \A k \in Senders \ {h} : sender'[k] = sender[k]
  BY <1>2 DEF Goes, PushTypeOK
<1> HIDE DEF u
<1>5. UNCHANGED <<events, wake, delivered, told>>
  BY DEF Send
<1>6. one \in Keys /\ one.device \in Devices
  BY <1>1, <1>2, KeyIs
<1>7. \A e \in Events, k \in Senders :
        EventPush(e, d) \in ToSend(sender[k]) /\ EventPush(e, d) # one => EventPush(e, d) \in ToSend(sender'[k])
  BY <1>1, <1>3, <1>4
<1>8. CASE one.device # d
  <2>1. \A e \in Events : EventPush(e, d) # one
    BY <1>8, PushIs
  <2>2. device'[d] = device[d] /\ waking'[d] = waking[d]
    BY <1>2, <1>6, <1>8 DEF PushTypeOK
  <2> QED
    BY <1>5, <1>7, <2>1, <2>2, EnoughKept
<1>9. CASE one.device = d
  <2>1. result = "taken"
    BY <1>2, <1>9
  <2>2. device'[d] = "on" /\ waking'[d] = waking[d] + 1 /\ waking[d] \in Nat
    BY <1>2, <1>9, <2>1 DEF PushTypeOK, Enough
  <2>3. ToTell(d)' = ToTell(d)
    BY <1>5 DEF ToTell, Asking
  <2>4. /\ IsFiniteSet(ToTell(d)) /\ Cardinality(ToTell(d)) \in Nat
        /\ IsFiniteSet(ToWake(d)) /\ Cardinality(ToWake(d)) \in Nat
        /\ IsFiniteSet(ToWake(d)') /\ Cardinality(ToWake(d)') \in Nat
    BY Countable, CountableThen DEF AllCounted, IsCount
  <2>5. ToWake(d) \ {one.of} \subseteq ToWake(d)'
    <3>1. ASSUME NEW e \in ToWake(d), e # one.of
          PROVE  e \in ToWake(d)'
      <4>1. e \in Events /\ \E k \in Senders : EventPush(e, d) \in ToSend(sender[k])
        BY <3>1 DEF ToWake
      <4>2. EventPush(e, d) # one
        BY <3>1, <4>1, PushIs
      <4> QED
        BY <1>7, <4>1, <4>2 DEF ToWake
    <3> QED
      BY <3>1
  <2>6. Cardinality(ToWake(d)) <= Cardinality(ToWake(d)') + 1
    <3>1. /\ Cardinality(ToWake(d) \ {one.of}) \in {Cardinality(ToWake(d)), Cardinality(ToWake(d)) - 1}
          /\ IsFiniteSet(ToWake(d) \ {one.of})
      BY <2>4, FS_RemoveElement
    <3>2. Cardinality(ToWake(d) \ {one.of}) <= Cardinality(ToWake(d)')
      BY <2>4, <2>5, FS_Subset
    <3> QED
      BY <2>4, <3>1, <3>2
  <2>7. Cardinality(ToTell(d)') <= waking'[d] + Cardinality(ToWake(d)')
    BY <2>2, <2>3, <2>4, <2>6 DEF Enough
  <2>8. \A x \in Events : <<x, d>> \in delivered' =>
          <<x, d>> \in DOMAIN told' \/ \E k \in Wakes : Answered(d, k)' /\ wake'[d][k].event = x
    BY <1>5 DEF Enough, Answered
  <2> QED
    BY <2>2, <2>7, <2>8 DEF Enough
<1> QED
  BY <1>8, <1>9

LEMMA AskEnough ==
  ASSUME PushTypeOK, PushTypeOK', SentByOne, SentByOne', NEW d \in Devices, NEW k \in Wakes, Ask(d, k),
         d \notin met', Enough(d)
  PROVE  Enough(d)'
<1>1. /\ UNCHANGED <<device, sender, events, delivered, told>> /\ wake[d][k] = Rest
      /\ \A j \in Wakes : wake[d][j] = Rest
      /\ waking[d] > 0 /\ waking' = [waking EXCEPT ![d] = @ - 1]
  BY DEF Ask
<1>2. waking'[d] = waking[d] - 1 /\ waking[d] \in Nat /\ device[d] = "on"
  BY <1>1 DEF PushTypeOK, Enough
<1>3. ToWake(d)' = ToWake(d)
  BY <1>1 DEF ToWake
<1>4. /\ IsFiniteSet(ToTell(d)) /\ Cardinality(ToTell(d)) \in Nat
      /\ IsFiniteSet(ToWake(d)) /\ Cardinality(ToWake(d)) \in Nat /\ Cardinality(ToTell(d)') \in Nat
  BY Countable, CountableThen DEF AllCounted, IsCount
<1>5. \A j \in Wakes : ~Asking(d, j) /\ ~Answered(d, j)
  BY <1>1 DEF Asking, Answered, Rest
<1>6. \A x \in Events : <<x, d>> \in delivered' => <<x, d>> \in DOMAIN told'
  BY <1>1, <1>5 DEF Enough
<1>7. CASE Untold(d) = {} /\ UNCHANGED wake
  <2>1. ToTell(d)' = {}
    BY <1>1, <1>7 DEF ToTell, Untold, ToSet
  <2>2. Cardinality(ToTell(d)') = 0
    BY <2>1, FS_EmptySet
  <2>3. 0 <= waking'[d] + Cardinality(ToWake(d)')
    BY <1>1, <1>2, <1>3, <1>4
  <2> QED
    BY <1>1, <1>2, <1>6, <2>2, <2>3 DEF Enough
<1>8. ASSUME NEW i \in Untold(d), Woken(d, k, [pc |-> "mark", event |-> events[i]])
      PROVE  Enough(d)'
  <2> DEFINE e == events[i]
  <2>1. e \in ToTell(d)
    BY <1>5 DEF ToTell, Untold, ToSet
  <2>2. wake'[d][k].pc = "mark" /\ wake'[d][k].event = e
    BY <1>8 DEF Woken, PushTypeOK
  <2> HIDE DEF e
  <2>3. ToTell(d)' \subseteq ToTell(d) \ {e}
    BY <1>1, <1>5, <2>2 DEF ToTell, Asking
  <2>4. IsFiniteSet(ToTell(d) \ {e}) /\ Cardinality(ToTell(d) \ {e}) = Cardinality(ToTell(d)) - 1
    BY <1>4, <2>1, FS_RemoveElement
  <2>5. Cardinality(ToTell(d)') <= Cardinality(ToTell(d)) - 1
    BY <2>3, <2>4, FS_Subset
  <2>6. Cardinality(ToTell(d)') <= waking'[d] + Cardinality(ToWake(d)')
    BY <1>2, <1>3, <1>4, <2>5 DEF Enough
  <2> QED
    BY <1>1, <1>2, <1>6, <2>6 DEF Enough
<1> QED
  BY <1>2, <1>7, <1>8 DEF Ask

LEMMA MarkEnough ==
  ASSUME PushTypeOK, PushTypeOK', SentByOne, SentByOne', ToldByOne, NEW d \in Devices \ met, NEW k \in Wakes,
         Mark(d, k), Enough(d)
  PROVE  Enough(d)'
<1> DEFINE e == wake[d][k].event
<1>1. /\ UNCHANGED <<device, sender, events, told, waking>> /\ wake[d][k].pc = "mark"
      /\ delivered' = delivered \cup {<<e, d>>}
  BY DEF Mark
<1>2. wake'[d][k] = [pc |-> "answer", event |-> e] /\ \A j \in Wakes \ {k} : wake'[d][j] = wake[d][j]
  BY DEF Mark, Woken, PushTypeOK
<1> HIDE DEF e
<1>3. \A j \in Wakes \ {k} : wake[d][j] = Rest
  BY <1>1 DEF ToldByOne, Rest
<1>4. ToTell(d)' \subseteq ToTell(d)
  <2>1. ASSUME NEW x \in ToTell(d)'
        PROVE  x \in ToTell(d)
    <3>1. x \in ToSet(events) /\ <<x, d>> \notin delivered /\ x # e
      BY <1>1, <2>1 DEF ToTell
    <3>2. \A j \in Wakes : Asking(d, j) => wake[d][j].event # x
      BY <1>3, <3>1 DEF Asking, Rest, e
    <3> QED
      BY <3>1, <3>2 DEF ToTell
  <2> QED
    BY <2>1
<1>5. ToWake(d)' = ToWake(d)
  BY <1>1 DEF ToWake
<1>6. /\ IsFiniteSet(ToTell(d)) /\ Cardinality(ToTell(d)) \in Nat
      /\ Cardinality(ToWake(d)) \in Nat /\ Cardinality(ToTell(d)') \in Nat
  BY Countable, CountableThen DEF AllCounted, IsCount
<1>7. Cardinality(ToTell(d)') <= Cardinality(ToTell(d))
  BY <1>4, <1>6, FS_Subset
<1>8. waking[d] \in Nat
  BY DEF PushTypeOK
<1>9. Cardinality(ToTell(d)') <= waking'[d] + Cardinality(ToWake(d)')
  BY <1>1, <1>5, <1>6, <1>7, <1>8 DEF Enough
<1>10. ASSUME NEW x \in Events, <<x, d>> \in delivered'
       PROVE  <<x, d>> \in DOMAIN told' \/ \E j \in Wakes : Answered(d, j)' /\ wake'[d][j].event = x
  <2>1. Answered(d, k)' /\ wake'[d][k].event = e
    BY <1>2 DEF Answered
  <2>2. \A j \in Wakes : ~Answered(d, j)
    BY <1>1, <1>3 DEF Answered, Rest
  <2>3. CASE x = e
    BY <2>1, <2>3
  <2>4. CASE x # e
    BY <1>1, <1>10, <2>2, <2>4 DEF Enough
  <2> QED
    BY <2>3, <2>4
<1> QED
  BY <1>1, <1>9, <1>10 DEF Enough

LEMMA ShowEnough ==
  ASSUME PushTypeOK, PushTypeOK', SentByOne, SentByOne', ToldByOne, NEW d \in Devices, NEW k \in Wakes,
         Show(d, k), Enough(d)
  PROVE  Enough(d)'
<1> DEFINE e == wake[d][k].event
<1>1. /\ UNCHANGED <<device, sender, events, delivered, waking>> /\ wake[d][k].pc = "answer"
      /\ told' = Add(told, <<e, d>>)
  BY DEF Show
<1>2. wake'[d][k] = Rest /\ \A j \in Wakes \ {k} : wake'[d][j] = wake[d][j]
  BY DEF Show, Woken, PushTypeOK
<1>3. DOMAIN told' = DOMAIN told \cup {<<e, d>>}
  BY <1>1 DEF Add
<1>4. ToTell(d)' = ToTell(d)
  <2>1. ~Asking(d, k) /\ ~Asking(d, k)'
    BY <1>1, <1>2 DEF Asking, Rest
  <2> QED
    BY <1>1, <1>2, <2>1 DEF ToTell, Asking
<1>5. ToWake(d)' = ToWake(d)
  BY <1>1 DEF ToWake
<1>6. \A x \in Events : <<x, d>> \in delivered' =>
        <<x, d>> \in DOMAIN told' \/ \E j \in Wakes : Answered(d, j)' /\ wake'[d][j].event = x
  <2>1. \A j \in Wakes \ {k} : Answered(d, j)' = Answered(d, j)
    BY <1>2 DEF Answered
  <2> QED
    BY <1>1, <1>2, <1>3, <2>1 DEF Enough
<1> QED
  BY <1>1, <1>4, <1>5, <1>6 DEF Enough

LEMMA NextWakes ==
  ASSUME PushTypeOK, PushTypeOK', SentByOne, SentByOne', ToldByOne, WokenEnough, PushNext
  PROVE  WokenEnough'
<1> SUFFICES ASSUME NEW d \in Devices \ (missed' \cup met')
             PROVE  Enough(d)'
  BY DEF WokenEnough
<1>1. missed \subseteq missed' /\ met \subseteq met' => Enough(d)
  BY DEF WokenEnough
<1>2. ASSUME UNCHANGED <<device, sender, events, waking, wake, delivered, told, missed, met>>
      PROVE  Enough(d)'
  BY <1>1, <1>2, EnoughKept
<1>3. CASE DayPasses \/ SaveSettings
  BY <1>2, <1>3 DEF DayPasses, SaveSettings
<1>4. ASSUME NEW s \in Schedules,
             WorkerStarts(s) \/ \E status \in {"on", "off", "gone"}, at \in DeliveryTimes : SaveSchedule(s, status, at)
      PROVE  Enough(d)'
  BY <1>2, <1>4 DEF WorkerStarts, SaveSchedule
<1>5. ASSUME NEW x \in Devices, PushLost(x) \/ \E status \in {"on", "off", "gone"} : SetDevice(x, status)
      PROVE  Enough(d)'
  <2>1. /\ x \in missed' /\ missed \subseteq missed' /\ UNCHANGED <<sender, events, wake, delivered, told, met>>
    BY <1>5 DEF PushLost, SetDevice
  <2>2. d # x
    BY <2>1
  <2>3. device'[d] = device[d] /\ waking'[d] = waking[d]
    BY <1>5, <2>2 DEF PushLost, SetDevice, PushTypeOK
  <2> QED
    BY <1>1, <2>1, <2>3, EnoughKept
<1>6. ASSUME NEW x \in Devices, NEW k \in Wakes, x # d, Ask(x, k) \/ Mark(x, k) \/ Show(x, k)
      PROVE  Enough(d)'
  <2>1. /\ missed' = missed /\ met \subseteq met' /\ UNCHANGED <<device, sender, events>>
        /\ waking'[d] = waking[d] /\ wake'[d] = wake[d]
    BY <1>6 DEF Ask, Mark, Show, Woken, PushTypeOK
  <2>2. Enough(d)
    BY <1>1, <2>1
  <2>3. CASE Ask(x, k)
    BY <2>1, <2>2, <2>3, EnoughKept DEF Ask
  <2>4. ToTell(d)' = ToTell(d) /\ ToWake(d)' = ToWake(d)
    <3>1. \A e : <<e, d>> \in delivered' <=> <<e, d>> \in delivered
      BY <1>6 DEF Ask, Mark, Show
    <3> QED
      BY <2>1, <3>1 DEF ToTell, ToWake, Asking
  <2>5. \A e \in Events : <<e, d>> \in delivered' =>
          <<e, d>> \in DOMAIN told' \/ \E j \in Wakes : Answered(d, j)' /\ wake'[d][j].event = e
    <3>1. \A e : <<e, d>> \in delivered' <=> <<e, d>> \in delivered
      BY <1>6 DEF Ask, Mark, Show
    <3>2. DOMAIN told \subseteq DOMAIN told'
      BY <1>6 DEF Ask, Mark, Show, Add
    <3> QED
      BY <2>1, <2>2, <3>1, <3>2 DEF Enough, Answered
  <2> QED
    BY <2>1, <2>2, <2>4, <2>5 DEF Enough
<1>7. ASSUME NEW k \in Wakes, Ask(d, k)
      PROVE  Enough(d)'
  <2>1. missed' = missed /\ met \subseteq met'
    BY <1>7 DEF Ask
  <2> QED
    BY <1>1, <1>7, <2>1, AskEnough
<1>8. ASSUME NEW k \in Wakes, Mark(d, k)
      PROVE  Enough(d)'
  <2>1. missed' = missed /\ met' = met
    BY <1>8 DEF Mark
  <2> QED
    BY <1>1, <1>8, <2>1, MarkEnough
<1>9. ASSUME NEW k \in Wakes, Show(d, k)
      PROVE  Enough(d)'
  <2>1. missed' = missed /\ met' = met
    BY <1>9 DEF Show
  <2> QED
    BY <1>1, <1>9, <2>1, ShowEnough
<1>10. ASSUME NEW x \in Devices, NEW k \in Wakes, AnswerLost(x, k)
       PROVE  Enough(d)'
  <2>1. /\ x \in missed' /\ missed \subseteq missed'
        /\ UNCHANGED <<device, waking, sender, events, delivered, told, met>>
    BY <1>10 DEF AnswerLost
  <2>2. wake'[d] = wake[d]
    BY <1>10, <2>1 DEF AnswerLost, Woken, PushTypeOK
  <2> QED
    BY <1>1, <2>1, <2>2, EnoughKept
<1>11. ASSUME NEW h \in Senders, NEW t, Goes(h, t),
              \A e \in Events : EventPush(e, d) \in ToSend(sender[h]) => EventPush(e, d) \in ToSend(t),
              UNCHANGED <<device, events, waking, wake, delivered, told, missed, met>>
       PROVE  Enough(d)'
  <2>1. \A e \in Events, k \in Senders :
          EventPush(e, d) \in ToSend(sender[k]) => EventPush(e, d) \in ToSend(sender'[k])
    BY <1>11 DEF Goes, PushTypeOK
  <2> QED
    BY <1>1, <1>11, <2>1, EnoughKept
<1>12. \A h \in Senders : sender[h].pc = "claim" => \A e \in Events : EventPush(e, d) \notin ToSend(sender[h])
  <2>1. ASSUME NEW h \in Senders, sender[h].pc = "claim", NEW e \in Events, EventPush(e, d) \in ToSend(sender[h])
        PROVE  FALSE
    <3>1. PICK s \in sender[h].mine, x \in Devices : EventPush(e, d) = BriefingPush(s, sender[h].day, x)
      BY <2>1, ToSendIs
    <3>2. EventPush(e, d).kind = "event" /\ BriefingPush(s, sender[h].day, x).kind = "briefing"
      BY DEF EventPush, BriefingPush
    <3> QED
      BY <3>1, <3>2
  <2> QED
    BY <2>1
<1>13. ASSUME NEW h \in Senders, BriefingRead(h) \/ \E e \in Events : Report(h, e)
       PROVE  Enough(d)'
  <2>1. sender[h] = Rest /\ \E t : Goes(h, t)
    BY <1>13 DEF BriefingRead, Report, Start, Goes
  <2>2. ToSend(sender[h]) = {}
    BY <2>1, ToSendIs DEF Rest
  <2>3. UNCHANGED <<device, events, waking, wake, delivered, told, missed, met>>
    BY <1>13 DEF BriefingRead, Report
  <2> QED
    BY <1>11, <2>1, <2>2, <2>3
<1>14. ASSUME NEW h \in Senders, BriefingClaim(h) \/ BriefingRows(h)
       PROVE  Enough(d)'
  <2>1. sender[h].pc = "claim" /\ \E t : Goes(h, t)
    <3>1. CASE BriefingClaim(h)
      BY <3>1 DEF BriefingClaim
    <3>2. CASE BriefingRows(h)
      BY <3>2 DEF BriefingRows
    <3> QED
      BY <1>14, <3>1, <3>2
  <2>2. UNCHANGED <<device, events, waking, wake, delivered, told, missed, met>>
    BY <1>14 DEF BriefingClaim, BriefingRows
  <2> QED
    BY <1>11, <1>12, <2>1, <2>2
<1>15. ASSUME NEW h \in Senders, Record(h)
       PROVE  Enough(d)'
  <2>1. missed' = missed /\ met' = met
    BY <1>15 DEF Record
  <2> QED
    BY <1>1, <1>15, <2>1, RecordEnough
<1>16. ASSUME NEW h \in Senders, EventRows(h)
       PROVE  Enough(d)'
  <2> DEFINE u == sender[h]
             t == [pc |-> "send", todo |-> {EventPush(u.event, x) : x \in Enabled}]
  <2>1. Goes(h, t) /\ u.pc = "rows" /\ UNCHANGED <<device, events, waking, wake, delivered, told, missed, met>>
    BY <1>16 DEF EventRows
  <2>2. ToSend(t) = {EventPush(u.event, x) : x \in Enabled} /\ ToSend(u) = {EventPush(u.event, x) : x \in Devices}
    BY <2>1, ToSendIs
  <2> HIDE DEF t
  <2>3. d \in Enabled
    BY <1>1, <2>1 DEF Enough, Enabled
  <2>4. ASSUME NEW e \in Events, EventPush(e, d) \in ToSend(u)
        PROVE  EventPush(e, d) \in ToSend(t)
    <3>1. PICK x \in Devices : EventPush(e, d) = EventPush(u.event, x)
      BY <2>2, <2>4
    <3>2. e = u.event
      BY <3>1 DEF EventPush
    <3> QED
      BY <2>2, <2>3, <3>2
  <2> QED
    BY <1>11, <2>1, <2>4
<1>17. ASSUME NEW h \in Senders, NEW result \in {"taken", "refused", "expired"}, Send(h, result)
       PROVE  Enough(d)'
  <2>1. missed \subseteq missed' /\ met' = met
    BY <1>17 DEF Send
  <2> QED
    BY <1>1, <1>17, <2>1, SendEnough
<1>18. ASSUME NEW h \in Senders, SendDone(h)
       PROVE  Enough(d)'
  <2>1. Goes(h, Rest) /\ sender[h].pc = "send" /\ sender[h].todo = {}
    BY <1>18 DEF SendDone
  <2>2. ToSend(sender[h]) = {}
    BY <2>1, ToSendIs
  <2>3. UNCHANGED <<device, events, waking, wake, delivered, told, missed, met>>
    BY <1>18 DEF SendDone
  <2> QED
    BY <1>11, <2>1, <2>2, <2>3
<1>19. ASSUME NEW h \in Senders, SenderDies(h)
       PROVE  FALSE
  BY <1>19 DEF SenderDies
<1> QED
  BY <1>3, <1>4, <1>5, <1>6, <1>7, <1>8, <1>9, <1>10, <1>13, <1>14, <1>15, <1>16, <1>17, <1>18, <1>19 DEF PushNext

-----------------------------------------------------------------------------
LEMMA InitPush == PushInit => PushInv
<1> SUFFICES ASSUME PushInit PROVE PushInv
  OBVIOUS
<1>1. PushTypeOK
  BY InitTypes
<1>2. /\ \A h \in Senders : sender[h] = Rest /\ ToSend(sender[h]) = {}
      /\ \A d \in Devices, k \in Wakes : wake[d][k] = Rest
      /\ Rest.pc = "idle"
  BY ToSendIs DEF PushInit, Rest
<1>3. DOMAIN sent = {} /\ DOMAIN told = {} /\ ToSet(events) = {} /\ delivered = {}
  BY DEF PushInit, Never, ToSet
<1>4. SentByOne
  BY <1>2, <1>3 DEF SentByOne
<1>5. DaysPass
  BY <1>2 DEF PushInit, DaysPass
<1>6. ToldByOne
  BY <1>2, <1>3 DEF ToldByOne, Asking, Answered
<1>7. ASSUME NEW d \in Devices \ (missed \cup met)
      PROVE  Enough(d)
  <2>1. ToTell(d) = {} /\ ToWake(d) = {}
    BY <1>2, <1>3 DEF ToTell, ToWake
  <2>2. waking[d] = 0 /\ device[d] = "on"
    BY DEF PushInit
  <2> QED
    BY <1>3, <2>1, <2>2, FS_EmptySet DEF Enough
<1> QED
  BY <1>1, <1>4, <1>5, <1>6, <1>7 DEF PushInv, WokenEnough

LEMMA PushStays == PushInv /\ UNCHANGED pvars => PushInv'
<1> SUFFICES ASSUME PushInv, UNCHANGED pvars PROVE PushInv'
  OBVIOUS
<1> USE DEF PushInv, pvars
<1>1. PushTypeOK'
  BY DEF PushTypeOK
<1>2. SentByOne' /\ DaysPass'
  BY DEF SentByOne, DaysPass, Loose, Happened
<1>3. ToldByOne'
  BY DEF ToldByOne, Asking, Answered
<1>4. WokenEnough'
  <2>1. ASSUME NEW d
        PROVE  ToTell(d)' = ToTell(d) /\ ToWake(d)' = ToWake(d)
    BY DEF ToTell, ToWake, Asking
  <2>2. ASSUME NEW d, Enough(d)
        PROVE  Enough(d)'
    BY <2>1, <2>2 DEF Enough, Answered
  <2> QED
    BY <2>2 DEF WokenEnough
<1> QED
  BY <1>1, <1>2, <1>3, <1>4

LEMMA PushTells == PushInv => ToldOnce
<1> SUFFICES ASSUME PushInv PROVE ToldOnce
  OBVIOUS
<1> USE DEF PushInv
<1>1. AtMostOnce
  <2>1. \A one \in DOMAIN sent : sent[one] = 1 \/ (one.kind = "briefing" /\ schedule[one.of].again)
    BY DEF SentByOne, Loose
  <2>2. ASSUME NEW one \in DOMAIN told, one[2] \notin met
        PROVE  told[one] = 1
    <3>1. PICK e \in Events, d \in Devices : one = <<e, d>>
      BY DEF PushTypeOK
    <3> QED
      BY <2>2, <3>1 DEF ToldByOne
  <2> QED
    BY <2>1, <2>2 DEF AtMostOnce
<1>2. ASSUME NEW d \in Devices \ (missed \cup met), \A h \in Senders : sender[h] = Rest, waking[d] = 0,
             \A k \in Wakes : wake[d][k] = Rest, NEW e \in Events, EventPush(e, d) \in DOMAIN sent
      PROVE  <<e, d>> \in DOMAIN told
  <2>1. e \in ToSet(events)
    <3>1. Happened(EventPush(e, d))
      BY <1>2 DEF SentByOne
    <3> QED
      BY <3>1, PushIs DEF Happened
  <2>2. Enough(d)
    BY DEF WokenEnough
  <2>3. ToWake(d) = {}
    BY <1>2, ToSendIs DEF ToWake, Rest
  <2>4. Cardinality(ToTell(d)) <= 0
    BY <1>2, <2>2, <2>3, FS_EmptySet DEF Enough
  <2>5. ToTell(d) = {}
    <3>1. IsFiniteSet(ToTell(d)) /\ Cardinality(ToTell(d)) \in Nat
      BY Countable DEF AllCounted, IsCount
    <3> QED
      BY <2>4, <3>1, FS_EmptySet
  <2>6. \A k \in Wakes : ~Asking(d, k) /\ ~Answered(d, k)
    BY <1>2 DEF Asking, Answered, Rest
  <2>7. <<e, d>> \in delivered
    BY <2>1, <2>5, <2>6 DEF ToTell
  <2> QED
    BY <2>2, <2>6, <2>7 DEF Enough
<1>3. NothingUntold
  BY <1>2 DEF NothingUntold
<1> QED
  BY <1>1, <1>3 DEF ToldOnce

THEOREM PushInvariant == PushSpec => []PushInv
<1>1. PushInv /\ [PushNext]_pvars => PushInv'
  <2> SUFFICES ASSUME PushInv, PushNext PROVE PushInv'
    BY PushStays
  <2>1. PushTypeOK'
    BY NextTypes DEF PushInv
  <2>2. SentByOne' /\ DaysPass'
    BY <2>1, NextSends DEF PushInv
  <2>3. ToldByOne'
    BY <2>1, NextTells DEF PushInv
  <2>4. WokenEnough'
    BY <2>1, <2>2, NextWakes DEF PushInv
  <2> QED
    BY <2>1, <2>2, <2>3, <2>4 DEF PushInv
<1> QED
  BY <1>1, InitPush, PTL DEF PushSpec

THEOREM EveryPhoneTold == PushSpec => []ToldOnce
  BY PushInvariant, PushTells, PTL

-----------------------------------------------------------------------------
(* The stamps and the coupons of a member.                                  *)
USE CouponConstants

\* What a coupon, a row and a request can be.
OneCoupon == {<<c>> : c \in Coupons}
RowIds == Games \X Nat
CouponRow == [status : {"none", "ACTIVE", "EXPIRED", "CANCELLED", "USED"}, by : {Nobody} \cup RowIds]
PayRow == [status : {"PENDING", "COMPLETED", "USER_CANCELLED", "CANCELLED"}, coupon : {<<>>} \cup OneCoupon]
Thens == {"idle", "redeem"}
OnStamps ==
  [pc : {"expire", "balance"}, then : Thens] \cup [pc : {"count"}, balance : Int, then : Thens]
    \cup [pc : {"issue"}, balance : Int, cycle : Autos, then : Thens] \cup [pc : {"redeem", "use"}]
OnRows ==
  [pc : {"validate", "plan", "check"}, row : RowIds, coupon : OneCoupon]
    \cup [pc : {"settle", "cancel"}, row : RowIds, coupon : {<<>>} \cup OneCoupon]
    \cup [pc : {"change"}, row : RowIds]

CouponTypeOK ==
  /\ earned \in SUBSET Games /\ IsFiniteSet(earned) /\ deducted \in SUBSET Autos
  /\ adjusted \in Nat /\ manual \in {"none", "used", "cancelled"}
  /\ coupon \in [Coupons -> CouponRow] /\ overdue \in SUBSET Coupons
  /\ rows \in [Games -> Seq(PayRow)]
  /\ request \in [Callers -> {NoRequest} \cup OnStamps \cup OnRows]
  /\ crossed \in SUBSET Games /\ stale \in BOOLEAN

\* Who works on a row, and what it still knows of it: a coupon goes from a row
\* at most, a row that was paid keeps its own.
Works(q) == request[q].pc \in AtRows
Reads(q) == request[q].pc \in {"check", "settle", "change", "cancel"}
IsRow(at) == at[2] \in 1..Latest(at[1])
Paid == {"COMPLETED", "CANCELLED"}
ReadRight(q) ==
  LET at == request[q].row IN
    /\ IsRow(at)
    /\ request[q].pc = "cancel" => RowOf(at).status \in Paid /\ RowOf(at).coupon = request[q].coupon
    /\ request[q].pc \in {"check", "settle"} =>
         /\ RowOf(at).coupon \in {<<>>, request[q].coupon}
         /\ at[1] \notin crossed => RowOf(at).status = "PENDING" /\ RowOf(at).coupon = request[q].coupon
RowsRead == \A q \in Callers : Reads(q) => ReadRight(q)
\* Two requests on the rows of one reservation have crossed.
Alone ==
  \A p, q \in Callers : p # q /\ Works(p) /\ Works(q) /\ request[p].row[1] = request[q].row[1] =>
    request[q].row[1] \in crossed
\* A coupon is used by a row that there is.
Uses(c, at) == coupon[c].status = "USED" /\ coupon[c].by = at
UsedOnce ==
  /\ \A g \in Games : \A i \in 1..Latest(g) :
       rows[g][i].status = "COMPLETED" /\ rows[g][i].coupon # <<>> => Uses(rows[g][i].coupon[1], <<g, i>>)
  /\ \A c \in Coupons : \A at \in RowIds : Uses(c, at) =>
       IsRow(at) /\ (at[1] \in crossed \/ (Standing(at) /\ RowOf(at).coupon = <<c>>))
  /\ \A c \in Coupons : coupon[c].status = "USED" => coupon[c].by \in RowIds

CouponInv == CouponTypeOK /\ RowsRead /\ Alone /\ UsedOnce /\ StampsForCoupons

-----------------------------------------------------------------------------

LEMMA OneIs ==
  ASSUME NEW x \in {<<>>} \cup OneCoupon
  PROVE  x # <<>> => x[1] \in Coupons /\ x = <<x[1]>>
  BY DEF OneCoupon

\* What a request knows tells where it is.
LEMMA OnRowsIs ==
  ASSUME NEW r \in {NoRequest} \cup OnStamps \cup OnRows, r.pc \in AtRows
  PROVE  /\ r \in OnRows /\ r.row \in RowIds /\ r.row[1] \in Games /\ r.row[2] \in Nat
         /\ r.pc \in {"validate", "plan", "check"} =>
              r.coupon \in OneCoupon /\ r.coupon[1] \in Coupons /\ r.coupon = <<r.coupon[1]>>
         /\ r.pc \in {"settle", "cancel"} => r.coupon \in {<<>>} \cup OneCoupon
  BY OneIs DEF OnRows, OnStamps, NoRequest, AtRows, RowIds, OneCoupon

LEMMA OnStampsIs ==
  ASSUME NEW r \in {NoRequest} \cup OnStamps \cup OnRows
  PROVE  /\ r.pc \in {"expire", "balance", "count", "issue"} => r.then \in Thens
         /\ r.pc \in {"count", "issue"} => r.balance \in Int
         /\ r.pc = "issue" => r.cycle \in Autos
  BY DEF OnRows, OnStamps, NoRequest

\* The requests that there can be.
LEMMA RequestTypes ==
  /\ \A then \in Thens : /\ ToIssue(then) \in OnStamps /\ ToBenefits(then) \in OnStamps
                         /\ [pc |-> then] \in {NoRequest} \cup OnStamps
                         /\ \A n \in Int : [pc |-> "count", balance |-> n, then |-> then] \in OnStamps
                         /\ \A n \in Int, k \in Autos :
                              [pc |-> "issue", balance |-> n, cycle |-> k, then |-> then] \in OnStamps
  /\ [pc |-> "use"] \in OnStamps
  BY DEF ToIssue, ToBenefits, OnStamps, Thens, NoRequest

LEMMA ExpiredIs ==
  ASSUME CouponTypeOK
  PROVE  /\ Expired \in [Coupons -> CouponRow]
         /\ \A c \in Coupons : /\ Expired[c].by = coupon[c].by
                               /\ Expired[c].status = "USED" <=> coupon[c].status = "USED"
                               /\ Expired[c].status = "none" <=> coupon[c].status = "none"
<1>1. ASSUME NEW r \in CouponRow, r.status = "ACTIVE"
      PROVE  /\ [r EXCEPT !.status = "EXPIRED"] \in CouponRow
             /\ [r EXCEPT !.status = "EXPIRED"].by = r.by /\ [r EXCEPT !.status = "EXPIRED"].status = "EXPIRED"
  BY DEF CouponRow
<1>2. ASSUME NEW c \in Coupons
      PROVE  /\ Expired[c] \in CouponRow /\ Expired[c].by = coupon[c].by
             /\ Expired[c].status = "USED" <=> coupon[c].status = "USED"
             /\ Expired[c].status = "none" <=> coupon[c].status = "none"
  <2>1. coupon[c] \in CouponRow
    BY DEF CouponTypeOK
  <2>2. CASE c \in overdue /\ coupon[c].status = "ACTIVE"
    <3>1. Expired[c] = [coupon[c] EXCEPT !.status = "EXPIRED"]
      BY <2>2 DEF Expired
    <3> QED
      BY <1>1, <2>1, <2>2, <3>1
  <2>3. CASE ~(c \in overdue /\ coupon[c].status = "ACTIVE")
    <3>1. Expired[c] = coupon[c]
      BY <2>3 DEF Expired
    <3> QED
      BY <2>1, <3>1
  <2> QED
    BY <2>2, <2>3
<1>3. Expired \in [Coupons -> CouponRow]
  BY <1>2 DEF Expired
<1> QED
  BY <1>2, <1>3

\* How many stamps there are, and coupons made of them.
LEMMA BalanceIs ==
  ASSUME CouponTypeOK
  PROVE  /\ Balance \in Int /\ IsFiniteSet(deducted)
         /\ Issued \in Nat /\ Cardinality(earned) \in Nat /\ Cardinality(deducted) \in Nat
<1>1. IsFiniteSet(Autos)
  BY FS_Interval DEF Autos
<1>2. IsFiniteSet(deducted) /\ IsFiniteSet({k \in Autos : coupon[k].status # "none"})
  BY <1>1, FS_Subset DEF CouponTypeOK
<1>3. Cardinality(earned) \in Nat /\ Cardinality(deducted) \in Nat /\ Issued \in Nat
  BY <1>2, FS_CardinalityType DEF CouponTypeOK, Issued
<1> QED
  BY <1>2, <1>3 DEF CouponTypeOK, Balance

LEMMA RowIs ==
  ASSUME CouponTypeOK, NEW g \in Games, NEW i \in 1..Latest(g)
  PROVE  rows[g][i] \in PayRow /\ rows[g] \in Seq(PayRow) /\ Latest(g) \in Nat /\ i \in Nat
  BY DEF CouponTypeOK, Latest

\* One row is written.
RowWritten(g, i, r) == rows' = [rows EXCEPT ![g] = [rows[g] EXCEPT ![i] = r]]
WithStatus(bill, status) == [bill EXCEPT !.status = status]
InCash(bill) == [bill EXCEPT !.coupon = <<>>]
LEMMA RowSet ==
  ASSUME CouponTypeOK, NEW g \in Games, NEW i \in 1..Latest(g), NEW r \in PayRow, RowWritten(g, i, r)
  PROVE  /\ rows' \in [Games -> Seq(PayRow)]
         /\ \A h \in Games : Len(rows'[h]) = Latest(h)
         /\ \A h \in Games : h # g => rows'[h] = rows[h]
         /\ \A j \in 1..Latest(g) : j # i => rows'[g][j] = rows[g][j]
         /\ rows'[g][i] = r
<1>1. [rows[g] EXCEPT ![i] = r] \in Seq(PayRow) /\ Len([rows[g] EXCEPT ![i] = r]) = Latest(g)
  BY RowIs DEF Latest
<1> QED
  BY <1>1 DEF RowWritten, CouponTypeOK, Latest

LEMMA PayRowSet ==
  ASSUME NEW r \in PayRow, NEW status \in {"PENDING", "COMPLETED", "USER_CANCELLED", "CANCELLED"}
  PROVE  /\ WithStatus(r, status) \in PayRow /\ WithStatus(r, status).status = status
         /\ WithStatus(r, status).coupon = r.coupon
         /\ InCash(r) \in PayRow /\ InCash(r).status = r.status /\ InCash(r).coupon = <<>>
  BY DEF PayRow, WithStatus, InCash

-----------------------------------------------------------------------------
\* What the steps do to the rows: a plan, a payment, another method, a
\* cancellation.
Planned(g) ==
  /\ rows' \in [Games -> Seq(PayRow)] /\ Len(rows'[g]) = Latest(g) + 1
  /\ \A h \in Games : h # g => rows'[h] = rows[h]
  /\ \A i \in 1..Latest(g) :
       /\ rows'[g][i].coupon = rows[g][i].coupon
       /\ rows[g][i].status # "PENDING" => rows'[g][i].status = rows[g][i].status
       /\ rows[g][i].status = "PENDING" => rows'[g][i].status = "USER_CANCELLED"
  /\ rows'[g][Latest(g) + 1].status = "PENDING"
LEMMA PlanWritten ==
  ASSUME CouponTypeOK, NEW q \in Callers, PlanWrite(q), NEW g, g = request[q].row[1]
  PROVE  g \in Games /\ Planned(g)
<1> DEFINE Replaced(bill) == IF bill.status = "PENDING" THEN [bill EXCEPT !.status = "USER_CANCELLED"] ELSE bill
           new == [status |-> "PENDING", coupon |-> request[q].coupon]
           old == [i \in DOMAIN rows[g] |-> Replaced(rows[g][i])]
<1>1. request[q].pc = "plan" /\ request[q] \in {NoRequest} \cup OnStamps \cup OnRows
  BY DEF PlanWrite, CouponTypeOK
<1>2. g \in Games /\ request[q].coupon \in OneCoupon
  BY <1>1, OnRowsIs DEF AtRows
<1>3. new \in PayRow
  BY <1>2 DEF PayRow
<1>4. rows[g] \in Seq(PayRow)
  BY <1>2 DEF CouponTypeOK
<1>5. ASSUME NEW i \in 1..Latest(g)
      PROVE  /\ Replaced(rows[g][i]) \in PayRow /\ Replaced(rows[g][i]).coupon = rows[g][i].coupon
             /\ rows[g][i].status # "PENDING" => Replaced(rows[g][i]).status = rows[g][i].status
             /\ rows[g][i].status = "PENDING" => Replaced(rows[g][i]).status = "USER_CANCELLED"
  <2>1. rows[g][i] \in PayRow
    BY <1>2, RowIs
  <2>2. Replaced(rows[g][i]) = IF rows[g][i].status = "PENDING" THEN WithStatus(rows[g][i], "USER_CANCELLED") ELSE rows[g][i]
    BY DEF WithStatus
  <2> QED
    BY <2>1, <2>2, PayRowSet
<1>6. rows' = [rows EXCEPT ![g] = Append(old, new)]
  BY DEF PlanWrite
<1> HIDE DEF Replaced, new
<1>7. DOMAIN rows[g] = 1..Latest(g) /\ Latest(g) \in Nat
  BY <1>4 DEF Latest
<1>8. /\ old \in Seq(PayRow) /\ Len(old) = Latest(g)
      /\ \A i \in 1..Latest(g) : old[i] = Replaced(rows[g][i])
  BY <1>5, <1>7
<1> HIDE DEF old
<1>9. /\ Append(old, new) \in Seq(PayRow) /\ Len(Append(old, new)) = Latest(g) + 1
      /\ \A i \in 1..Latest(g) : Append(old, new)[i] = old[i]
      /\ Append(old, new)[Latest(g) + 1] = new
  BY <1>3, <1>8, <1>7
<1>10. rows' \in [Games -> Seq(PayRow)] /\ rows'[g] = Append(old, new) /\ \A h \in Games : h # g => rows'[h] = rows[h]
  BY <1>2, <1>6, <1>9 DEF CouponTypeOK
<1> QED
  BY <1>2, <1>5, <1>8, <1>9, <1>10 DEF new, Planned

LEMMA SettleWritten ==
  ASSUME CouponTypeOK, RowsRead, NEW q \in Callers, Settle(q),
         NEW g, g = request[q].row[1], NEW i, i = request[q].row[2],
         NEW c, c = request[q].coupon
  PROVE  /\ g \in Games /\ i \in 1..Latest(g) /\ c \in {<<>>} \cup OneCoupon
         /\ \/ UNCHANGED rows /\ ~(rows[g][i].status = "PENDING" /\ (c = <<>> \/ Usable(c[1])))
            \/ /\ rows[g][i].status = "PENDING" /\ (c = <<>> \/ Usable(c[1]))
               /\ RowWritten(g, i, WithStatus(rows[g][i], "COMPLETED"))
         /\ coupon' = IF c # <<>> /\ Usable(c[1])
                      THEN [coupon EXCEPT ![c[1]] = [status |-> "USED", by |-> <<g, i>>]]
                      ELSE coupon
<1>1. request[q].pc = "settle" /\ request[q] \in {NoRequest} \cup OnStamps \cup OnRows
  BY DEF Settle, CouponTypeOK
<1>2. /\ request[q].row \in RowIds /\ g \in Games /\ c \in {<<>>} \cup OneCoupon
      /\ request[q].row = <<g, i>>
  BY <1>1, OnRowsIs DEF AtRows, RowIds
<1>3. i \in 1..Latest(g)
  BY <1>1 DEF RowsRead, Reads, ReadRight, IsRow
<1>4. rows[g] \in Seq(PayRow) /\ rows[g][i] \in PayRow
  BY <1>2, <1>3, RowIs
<1>5. [rows EXCEPT ![g][i].status = "COMPLETED"]
       = [rows EXCEPT ![g] = [rows[g] EXCEPT ![i] = [rows[g][i] EXCEPT !.status = "COMPLETED"]]]
  OBVIOUS
<1> QED
  BY <1>2, <1>3, <1>5 DEF Settle, Spendable, RowOf, RowWritten, WithStatus, InCash

LEMMA ChangeWritten ==
  ASSUME CouponTypeOK, RowsRead, NEW q \in Callers, ChangeWrite(q),
         NEW g, g = request[q].row[1], NEW i, i = request[q].row[2]
  PROVE  /\ g \in Games /\ i \in 1..Latest(g)
         /\ \/ UNCHANGED rows
            \/ /\ rows[g][i].status = "PENDING"
               /\ RowWritten(g, i, InCash(rows[g][i]))
<1>1. request[q].pc = "change" /\ request[q] \in {NoRequest} \cup OnStamps \cup OnRows
  BY DEF ChangeWrite, CouponTypeOK
<1>2. request[q].row \in RowIds /\ g \in Games /\ request[q].row = <<g, i>>
  BY <1>1, OnRowsIs DEF AtRows, RowIds
<1>3. i \in 1..Latest(g)
  BY <1>1 DEF RowsRead, Reads, ReadRight, IsRow
<1>5. [rows EXCEPT ![g][i].coupon = <<>>]
       = [rows EXCEPT ![g] = [rows[g] EXCEPT ![i] = [rows[g][i] EXCEPT !.coupon = <<>>]]]
  OBVIOUS
<1> QED
  BY <1>2, <1>3, <1>5 DEF ChangeWrite, RowOf, RowWritten, WithStatus, InCash

LEMMA CancelWritten ==
  ASSUME CouponTypeOK, RowsRead, NEW q \in Callers, CancelWrite(q),
         NEW g, g = request[q].row[1], NEW i, i = request[q].row[2],
         NEW c, c = request[q].coupon
  PROVE  /\ g \in Games /\ i \in 1..Latest(g) /\ c \in {<<>>} \cup OneCoupon
         /\ rows[g][i].status \in Paid /\ rows[g][i].coupon = c
         /\ RowWritten(g, i, WithStatus(rows[g][i], "CANCELLED"))
         /\ coupon' = IF c # <<>> /\ Uses(c[1], <<g, i>>)
                      THEN [coupon EXCEPT ![c[1]] = [status |-> IF c[1] \in overdue THEN "EXPIRED" ELSE "ACTIVE", by |-> Nobody]]
                      ELSE coupon
<1>1. request[q].pc = "cancel" /\ request[q] \in {NoRequest} \cup OnStamps \cup OnRows
  BY DEF CancelWrite, CouponTypeOK
<1>2. /\ request[q].row \in RowIds /\ g \in Games /\ c \in {<<>>} \cup OneCoupon
      /\ request[q].row = <<g, i>>
  BY <1>1, OnRowsIs DEF AtRows, RowIds
<1>3. i \in 1..Latest(g) /\ rows[g][i].status \in Paid /\ rows[g][i].coupon = c
  BY <1>1, <1>2 DEF RowsRead, Reads, ReadRight, IsRow, RowOf
<1>5. [rows EXCEPT ![g][i].status = "CANCELLED"]
       = [rows EXCEPT ![g] = [rows[g] EXCEPT ![i] = [rows[g][i] EXCEPT !.status = "CANCELLED"]]]
  OBVIOUS
<1> QED
  BY <1>2, <1>3, <1>5 DEF CancelWrite, GivenBack, Uses, RowWritten, WithStatus, InCash

\* One row at most is written by those three, and it keeps what was paid.
OneRow(g, i) ==
  /\ rows' \in [Games -> Seq(PayRow)]
  /\ \A h \in Games : Len(rows'[h]) = Latest(h)
  /\ \A h \in Games : h # g => rows'[h] = rows[h]
  /\ \A j \in 1..Latest(g) : j # i => rows'[g][j] = rows[g][j]
  /\ rows'[g][i].coupon \in {<<>>, rows[g][i].coupon}
  /\ rows[g][i].status \in Paid => rows'[g][i].status \in Paid /\ rows'[g][i].coupon = rows[g][i].coupon
LEMMA OneWritten ==
  ASSUME CouponTypeOK, RowsRead, NEW q \in Callers, Settle(q) \/ ChangeWrite(q) \/ CancelWrite(q),
         NEW g, g = request[q].row[1], NEW i, i = request[q].row[2]
  PROVE  g \in Games /\ i \in 1..Latest(g) /\ OneRow(g, i)
<1>1. g \in Games /\ i \in 1..Latest(g)
  BY SettleWritten, ChangeWritten, CancelWritten
<1>2. rows[g][i] \in PayRow
  BY <1>1, RowIs
<1>3. ASSUME UNCHANGED rows
      PROVE  OneRow(g, i)
  BY <1>1, <1>3 DEF CouponTypeOK, Latest, OneRow
<1>4. ASSUME NEW r \in PayRow, RowWritten(g, i, r), r.coupon \in {<<>>, rows[g][i].coupon},
             rows[g][i].status \in Paid => r.status \in Paid /\ r.coupon = rows[g][i].coupon
      PROVE  OneRow(g, i)
  <2>1. /\ rows' \in [Games -> Seq(PayRow)]
        /\ \A h \in Games : Len(rows'[h]) = Latest(h)
        /\ \A h \in Games : h # g => rows'[h] = rows[h]
        /\ \A j \in 1..Latest(g) : j # i => rows'[g][j] = rows[g][j]
        /\ rows'[g][i] = r
    BY <1>1, <1>4, RowSet
  <2> QED
    BY <1>4, <2>1 DEF OneRow
<1>5. \A status \in Paid : /\ WithStatus(rows[g][i], status) \in PayRow /\ WithStatus(rows[g][i], status).status \in Paid
                           /\ WithStatus(rows[g][i], status).coupon = rows[g][i].coupon
  BY <1>2, PayRowSet DEF Paid
<1>6. CASE Settle(q) \/ CancelWrite(q)
  <2>1. UNCHANGED rows \/ \E status \in Paid : RowWritten(g, i, WithStatus(rows[g][i], status))
    <3>1. Settle(q) => UNCHANGED rows \/ RowWritten(g, i, WithStatus(rows[g][i], "COMPLETED"))
      BY SettleWritten
    <3>2. CancelWrite(q) => RowWritten(g, i, WithStatus(rows[g][i], "CANCELLED"))
      BY CancelWritten
    <3> QED
      BY <1>6, <3>1, <3>2 DEF Paid
  <2> QED
    BY <1>1, <1>3, <1>4, <1>5, <2>1
<1>7. CASE ChangeWrite(q)
  <2>1. UNCHANGED rows \/ (rows[g][i].status = "PENDING" /\ RowWritten(g, i, InCash(rows[g][i])))
    BY <1>7, ChangeWritten
  <2>2. "PENDING" \notin Paid
    BY DEF Paid
  <2>3. InCash(rows[g][i]) \in PayRow /\ InCash(rows[g][i]).coupon = <<>>
    BY <1>2, PayRowSet
  <2> QED
    BY <1>1, <1>3, <1>4, <2>1, <2>2, <2>3
<1> QED
  BY <1>6, <1>7

-----------------------------------------------------------------------------
\* Types.
LEMMA CouponNextTypes ==
  ASSUME CouponTypeOK, RowsRead, CouponNext
  PROVE  CouponTypeOK'
<1>1. \A q \in Callers : request[q] \in {NoRequest} \cup OnStamps \cup OnRows
  BY DEF CouponTypeOK
<1>2. ASSUME NEW q \in Callers, NEW next \in {NoRequest} \cup OnStamps \cup OnRows, GoesOn(q, next) \/ Asks(q, next)
      PROVE  request' \in [Callers -> {NoRequest} \cup OnStamps \cup OnRows]
  BY <1>2 DEF CouponTypeOK, GoesOn, Asks
<1>3. \A then \in Thens : ToIssue(then) \in OnStamps /\ ToBenefits(then) \in OnStamps
  BY RequestTypes
<1>4. "idle" \in Thens /\ NoRequest \in {NoRequest}
  BY DEF Thens
<1>5. ASSUME NEW c, CouponEnds(c), c \in Coupons
      PROVE  CouponTypeOK'
  BY <1>5 DEF CouponEnds, CouponTypeOK, ledger, bills
<1>6. ASSUME NEW q \in Callers, Adjust(q)
      PROVE  CouponTypeOK'
  <2>1. request' \in [Callers -> {NoRequest} \cup OnStamps \cup OnRows]
    BY <1>2, <1>3, <1>4, <1>6 DEF Adjust
  <2> QED
    BY <1>6, <2>1 DEF Adjust, CouponTypeOK, bills
<1>7. ASSUME NEW q \in Callers, Expire(q)
      PROVE  CouponTypeOK'
  <2>1. request' \in [Callers -> {NoRequest} \cup OnStamps \cup OnRows]
    BY <1>1, <1>2, <1>3, <1>7, OnStampsIs DEF Expire
  <2> QED
    BY <1>7, <2>1, ExpiredIs DEF Expire, CouponTypeOK, ledger, bills
<1>8. ASSUME NEW q \in Callers, ReadBalance(q)
      PROVE  CouponTypeOK'
  <2>1. request[q].then \in Thens /\ Balance \in Int
    BY <1>1, <1>8, OnStampsIs, BalanceIs DEF ReadBalance
  <2>2. PICK next : GoesOn(q, next) /\ next \in {NoRequest} \cup OnStamps
    BY <1>8, <2>1, RequestTypes DEF ReadBalance
  <2>3. request' \in [Callers -> {NoRequest} \cup OnStamps \cup OnRows]
    BY <1>2, <2>2
  <2> QED
    BY <1>8, <2>3 DEF ReadBalance, CouponTypeOK, ledger, bills
<1>9. ASSUME NEW q \in Callers, ReadCount(q)
      PROVE  CouponTypeOK'
  <2>1. request[q].then \in Thens /\ request[q].balance \in Int /\ Issued + 1 \in Autos
    BY <1>1, <1>9, OnStampsIs, BalanceIs DEF ReadCount, Autos
  <2>2. request' \in [Callers -> {NoRequest} \cup OnStamps \cup OnRows]
    BY <1>2, <1>9, <2>1, RequestTypes DEF ReadCount
  <2> QED
    BY <1>9, <2>2 DEF ReadCount, CouponTypeOK, ledger, bills
<1>10. ASSUME NEW q \in Callers, Issue(q)
       PROVE  CouponTypeOK'
  <2>1. request[q].then \in Thens /\ request[q].cycle \in Autos
    BY <1>1, <1>10, OnStampsIs DEF Issue
  <2>2. request' \in [Callers -> {NoRequest} \cup OnStamps \cup OnRows]
    BY <1>2, <1>3, <1>10, <2>1 DEF Issue
  <2>3. coupon' \in [Coupons -> CouponRow] /\ deducted' \in SUBSET Autos /\ stale' \in BOOLEAN
    BY <1>10, <2>1 DEF Issue, CouponTypeOK, CouponRow
  <2> QED
    BY <1>10, <2>2, <2>3 DEF Issue, CouponTypeOK, bills
<1>11. ASSUME NEW q \in Callers, RedeemRead(q)
       PROVE  CouponTypeOK'
  <2>1. request' \in [Callers -> {NoRequest} \cup OnStamps \cup OnRows]
    BY <1>2, <1>11, RequestTypes DEF RedeemRead
  <2> QED
    BY <1>11, <2>1 DEF RedeemRead, CouponTypeOK, ledger, bills
<1>12. ASSUME NEW q \in Callers, RedeemWrite(q) \/ CancelUse(q)
       PROVE  CouponTypeOK'
  <2>1. request' \in [Callers -> {NoRequest} \cup OnStamps \cup OnRows]
    BY <1>2, <1>3, <1>4, <1>12 DEF RedeemWrite, CancelUse
  <2> QED
    BY <1>12, <2>1 DEF RedeemWrite, CancelUse, CouponTypeOK, bills
<1>13. ASSUME NEW q \in Callers, NEW then \in {"idle", "redeem"}, Benefits(q, then)
       PROVE  CouponTypeOK'
  <2>1. request' \in [Callers -> {NoRequest} \cup OnStamps \cup OnRows]
    BY <1>2, <1>3, <1>13 DEF Benefits, Thens
  <2> QED
    BY <1>13, <2>1 DEF Benefits, CouponTypeOK, ledger, bills
<1>14. ASSUME NEW q \in Callers, NEW g \in Games, Earn(q, g)
       PROVE  CouponTypeOK'
  <2>1. request' \in [Callers -> {NoRequest} \cup OnStamps \cup OnRows]
    BY <1>2, <1>3, <1>4, <1>14 DEF Earn
  <2>2. earned' \in SUBSET Games /\ IsFiniteSet(earned')
    BY <1>14, FS_AddElement DEF Earn, CouponTypeOK
  <2> QED
    BY <1>14, <2>1, <2>2 DEF Earn, CouponTypeOK, bills
<1>15. ASSUME NEW q \in Callers, NEW c \in Coupons, Grant(q, c) \/ CancelCoupon(q, c)
       PROVE  CouponTypeOK'
  <2>1. request' \in [Callers -> {NoRequest} \cup OnStamps \cup OnRows]
    BY <1>2, <1>3, <1>4, <1>15 DEF Grant, CancelCoupon
  <2>2. coupon' \in [Coupons -> CouponRow]
    BY <1>15 DEF Grant, CancelCoupon, CouponTypeOK, CouponRow
  <2> QED
    BY <1>15, <2>1, <2>2 DEF Grant, CancelCoupon, CouponTypeOK, ledger, bills
<1>16. ASSUME NEW q \in Callers, Dies(q)
       PROVE  CouponTypeOK'
  <2>1. request' \in [Callers -> {NoRequest} \cup OnStamps \cup OnRows]
    BY <1>2, <1>4, <1>16 DEF Dies
  <2> QED
    BY <1>16, <2>1 DEF Dies, CouponTypeOK, ledger, bills
<1>17. ASSUME NEW q \in Callers, NEW g \in Games, NEW first \in OnRows, StartOn(q, g, first),
              UNCHANGED <<ledger, coupon, overdue, rows, stale>>
       PROVE  CouponTypeOK'
  <2>1. request' \in [Callers -> {NoRequest} \cup OnStamps \cup OnRows]
    BY <1>2, <1>17 DEF StartOn
  <2> QED
    BY <1>17, <2>1 DEF StartOn, CouponTypeOK, ledger
<1>18. ASSUME NEW g \in Games, NEW i \in 1..Latest(g), NEW c \in {<<>>} \cup OneCoupon
       PROVE  /\ <<g, i>> \in RowIds /\ <<g, 0>> \in RowIds
              /\ [pc |-> "settle", row |-> <<g, i>>, coupon |-> c] \in OnRows
              /\ [pc |-> "cancel", row |-> <<g, i>>, coupon |-> c] \in OnRows
              /\ c # <<>> => [pc |-> "check", row |-> <<g, i>>, coupon |-> c] \in OnRows
              /\ [pc |-> "change", row |-> <<g, i>>] \in OnRows
  BY RowIs DEF OnRows, RowIds
<1>19. ASSUME NEW q \in Callers, NEW g \in Games, NEW c \in Coupons, PlanRead(q, g, c)
       PROVE  CouponTypeOK'
  <2>1. [pc |-> "validate", row |-> <<g, 0>>, coupon |-> <<c>>] \in OnRows
    BY DEF OnRows, RowIds, OneCoupon
  <2> QED
    BY <1>17, <1>19, <2>1 DEF PlanRead
<1>20. \A g \in Games : Latest(g) \in Nat /\ \A i \in 1..Latest(g) : rows[g][i].coupon \in {<<>>} \cup OneCoupon
  <2>1. \A r \in PayRow : r.coupon \in {<<>>} \cup OneCoupon
    BY DEF PayRow
  <2>2. \A g \in Games : Latest(g) \in Nat
    BY DEF CouponTypeOK, Latest
  <2> QED
    BY <2>1, <2>2, RowIs
<1>21. ASSUME NEW q \in Callers, NEW g \in Games, SettleRead(q, g) \/ ChangeRead(q, g)
       PROVE  CouponTypeOK'
  <2>1. Latest(g) \in 1..Latest(g)
    BY <1>20, <1>21 DEF SettleRead, ChangeRead, Pending
  <2>2. CASE SettleRead(q, g)
    <3> DEFINE c == rows[g][Latest(g)].coupon
               first == [pc |-> IF c = <<>> THEN "settle" ELSE "check", row |-> <<g, Latest(g)>>, coupon |-> c]
    <3>1. c \in {<<>>} \cup OneCoupon
      BY <1>20, <2>1
    <3>2. first \in OnRows
      BY <1>18, <2>1, <3>1
    <3>3. StartOn(q, g, first) /\ UNCHANGED <<ledger, coupon, overdue, rows, stale>>
      BY <2>2 DEF SettleRead
    <3> QED
      BY <1>17, <3>2, <3>3
  <2>3. CASE ChangeRead(q, g)
    BY <1>17, <1>18, <2>1, <2>3 DEF ChangeRead
  <2> QED
    BY <1>21, <2>2, <2>3
<1>22. ASSUME NEW q \in Callers, NEW g \in Games, CancelRead(q, g)
       PROVE  CouponTypeOK'
  <2>1. PICK i \in 1..Latest(g) : StartOn(q, g, [pc |-> "cancel", row |-> <<g, i>>, coupon |-> rows[g][i].coupon])
    BY <1>22 DEF CancelRead
  <2>2. UNCHANGED <<ledger, coupon, overdue, rows, stale>>
    BY <1>22 DEF CancelRead
  <2>3. [pc |-> "cancel", row |-> <<g, i>>, coupon |-> rows[g][i].coupon] \in OnRows
    BY <1>18, <1>20
  <2> QED
    BY <1>17, <2>1, <2>2, <2>3
<1>23. ASSUME NEW q \in Callers, PlanCheck(q) \/ SettleCheck(q)
       PROVE  CouponTypeOK'
  <2>1. request[q].pc \in {"validate", "check"} /\ request[q] \in {NoRequest} \cup OnStamps \cup OnRows
    BY <1>1, <1>23 DEF PlanCheck, SettleCheck
  <2>2. /\ request[q].pc = "validate" => [request[q] EXCEPT !.pc = "plan"] \in OnRows
        /\ request[q].pc = "check" => [request[q] EXCEPT !.pc = "settle"] \in OnRows
    BY <2>1 DEF OnRows, OnStamps, NoRequest
  <2>3. PICK next \in {NoRequest} \cup OnRows : GoesOn(q, next)
    BY <1>23, <2>1, <2>2 DEF PlanCheck, SettleCheck, Validate
  <2>4. request' \in [Callers -> {NoRequest} \cup OnStamps \cup OnRows]
    BY <1>2, <2>3
  <2> QED
    BY <1>23, <2>4, ExpiredIs DEF PlanCheck, SettleCheck, Validate, CouponTypeOK, ledger, bills
<1>24. ASSUME NEW q \in Callers, PlanWrite(q) \/ Settle(q) \/ ChangeWrite(q) \/ CancelWrite(q)
       PROVE  CouponTypeOK'
  <2> DEFINE g == request[q].row[1]
             i == request[q].row[2]
             c == request[q].coupon
  <2>1. request' \in [Callers -> {NoRequest} \cup OnStamps \cup OnRows]
    BY <1>2, <1>4, <1>24 DEF PlanWrite, Settle, ChangeWrite, CancelWrite
  <2>2. rows' \in [Games -> Seq(PayRow)]
    <3>1. CASE PlanWrite(q)
      BY <3>1, PlanWritten DEF Planned
    <3>3. CASE Settle(q) \/ ChangeWrite(q) \/ CancelWrite(q)
      BY <3>3, OneWritten DEF OneRow
    <3> QED
      BY <1>24, <3>1, <3>3
  <2>3. coupon' \in [Coupons -> CouponRow]
    <3>1. CASE UNCHANGED coupon
      BY <3>1 DEF CouponTypeOK
    <3>2. CASE Settle(q)
      <4>1. /\ g \in Games /\ i \in 1..Latest(g) /\ c \in {<<>>} \cup OneCoupon
            /\ coupon' = IF c # <<>> /\ Usable(c[1])
                         THEN [coupon EXCEPT ![c[1]] = [status |-> "USED", by |-> <<g, i>>]]
                         ELSE coupon
        BY <3>2, SettleWritten
      <4>2. [status |-> "USED", by |-> <<g, i>>] \in CouponRow
        BY <1>18, <4>1 DEF CouponRow
      <4> QED
        BY <4>1, <4>2 DEF CouponTypeOK
    <3>3. CASE CancelWrite(q)
      <4>1. [status |-> IF c[1] \in overdue THEN "EXPIRED" ELSE "ACTIVE", by |-> Nobody] \in CouponRow
        BY DEF CouponRow
      <4>2. /\ c \in {<<>>} \cup OneCoupon
            /\ coupon' = IF c # <<>> /\ Uses(c[1], <<g, i>>)
                         THEN [coupon EXCEPT ![c[1]] = [status |-> IF c[1] \in overdue THEN "EXPIRED" ELSE "ACTIVE", by |-> Nobody]]
                         ELSE coupon
        BY <3>3, CancelWritten
      <4> QED
        BY <4>1, <4>2 DEF CouponTypeOK
    <3>4. CASE PlanWrite(q) \/ ChangeWrite(q)
      BY <3>1, <3>4 DEF PlanWrite, ChangeWrite
    <3> QED
      BY <1>24, <3>2, <3>3, <3>4
  <2> QED
    BY <1>24, <2>1, <2>2, <2>3 DEF PlanWrite, Settle, ChangeWrite, CancelWrite, CouponTypeOK, ledger
<1>25. Gifts \subseteq Coupons
  BY DEF Coupons
<1> QED
  BY <1>5, <1>6, <1>7, <1>8, <1>9, <1>10, <1>11, <1>12, <1>13, <1>14, <1>15, <1>16, <1>19, <1>21, <1>22, <1>23, <1>24, <1>25
     DEF CouponNext

-----------------------------------------------------------------------------
\* Who works on the rows, and what it knows of them: a request begins, goes on,
\* or writes the row and ends.

\* What a write leaves of the rows of a reservation.
RowsKept(g) ==
  \A i \in 1..Latest(g) :
    /\ i \in 1..Len(rows'[g])
    /\ rows'[g][i].coupon \in {<<>>, rows[g][i].coupon}
    /\ rows[g][i].status \in Paid => rows'[g][i].status \in Paid /\ rows'[g][i].coupon = rows[g][i].coupon

LEMMA WorkBegins ==
  ASSUME CouponTypeOK, RowsRead, Alone, UNCHANGED rows, NEW q \in Callers, NEW g \in Games, NEW first,
         StartOn(q, g, first), first.pc \in AtRows, first.row[1] = g,
         first.pc \in {"check", "settle", "change", "cancel"} => IsRow(first.row),
         first.pc = "cancel" => RowOf(first.row).status \in Paid /\ RowOf(first.row).coupon = first.coupon,
         first.pc \in {"check", "settle"} => RowOf(first.row).status = "PENDING" /\ RowOf(first.row).coupon = first.coupon
  PROVE  RowsRead' /\ Alone'
<1>1. /\ request' = [request EXCEPT ![q] = first] /\ request \in [Callers -> {NoRequest} \cup OnStamps \cup OnRows]
      /\ crossed \subseteq crossed'
      /\ \A p \in Callers : Works(p) /\ request[p].row[1] = g => g \in crossed'
  BY DEF StartOn, Asks, CouponTypeOK, Works
<1>2. request'[q] = first /\ \A p \in Callers : p # q => request'[p] = request[p]
  BY <1>1
<1>3. ASSUME NEW p \in Callers, Reads(p)'
      PROVE  ReadRight(p)'
  <2>1. CASE p = q
    BY <1>2, <1>3, <2>1 DEF Reads, ReadRight, IsRow, RowOf, Latest
  <2>2. CASE p # q
    <3>1. Reads(p) /\ ReadRight(p)
      BY <1>2, <1>3, <2>2 DEF Reads, RowsRead
    <3> QED
      BY <1>1, <1>2, <2>2, <3>1 DEF ReadRight, IsRow, RowOf, Latest
  <2> QED
    BY <2>1, <2>2
<1>4. ASSUME NEW p \in Callers, NEW o \in Callers, o # p, Works(o)', Works(p)', request'[o].row[1] = request'[p].row[1]
      PROVE  request'[p].row[1] \in crossed'
  <2>1. CASE p = q
    <3>1. request'[p].row[1] = g /\ Works(o) /\ request[o].row[1] = g
      BY <1>2, <1>4, <2>1 DEF Works
    <3> QED
      BY <1>1, <3>1
  <2>2. CASE o = q
    <3>1. request'[p].row[1] = g /\ Works(p) /\ request[p].row[1] = g
      BY <1>2, <1>4, <2>2 DEF Works
    <3> QED
      BY <1>1, <3>1
  <2>3. CASE o # q /\ p # q
    <3>1. Works(o) /\ Works(p) /\ request[o].row[1] = request[p].row[1] /\ request'[p] = request[p]
      BY <1>2, <1>4, <2>3 DEF Works
    <3> QED
      BY <1>1, <1>4, <3>1 DEF Alone
  <2> QED
    BY <2>1, <2>2, <2>3
<1> QED
  BY <1>3, <1>4 DEF RowsRead, Alone

LEMMA WorkGoesOn ==
  ASSUME CouponTypeOK, RowsRead, Alone, UNCHANGED <<rows, crossed>>, NEW q \in Callers, NEW next,
         request' = [request EXCEPT ![q] = next],
         \/ next.pc \notin AtRows
         \/ request[q].pc = "validate" /\ next = [request[q] EXCEPT !.pc = "plan"]
         \/ request[q].pc = "check" /\ next = [request[q] EXCEPT !.pc = "settle"]
  PROVE  RowsRead' /\ Alone'
<1>1. request'[q] = next /\ \A p \in Callers : p # q => request'[p] = request[p]
  BY DEF CouponTypeOK
<1>2. /\ next.pc \in AtRows => Works(q) /\ next.row = request[q].row /\ next.coupon = request[q].coupon
      /\ next.pc \in AtRows => next.pc = "plan" \/ (next.pc = "settle" /\ request[q].pc = "check")
  <2>1. CASE next.pc \notin AtRows
    BY <2>1
  <2>2. CASE request[q].pc = "validate" /\ next = [request[q] EXCEPT !.pc = "plan"]
    <3>1. request[q] \in OnRows
      BY <2>2, OnRowsIs DEF CouponTypeOK, AtRows
    <3>2. next.pc = "plan" /\ next.row = request[q].row /\ next.coupon = request[q].coupon
      BY <2>2, <3>1 DEF OnRows
    <3> QED
      BY <2>2, <3>2 DEF Works, AtRows
  <2>3. CASE request[q].pc = "check" /\ next = [request[q] EXCEPT !.pc = "settle"]
    <3>1. request[q] \in OnRows
      BY <2>3, OnRowsIs DEF CouponTypeOK, AtRows
    <3>2. next.pc = "settle" /\ next.row = request[q].row /\ next.coupon = request[q].coupon
      BY <2>3, <3>1 DEF OnRows
    <3> QED
      BY <2>3, <3>2 DEF Works, AtRows
  <2> QED
    BY <2>1, <2>2, <2>3
<1>3. ASSUME NEW p \in Callers, Reads(p)'
      PROVE  ReadRight(p)'
  <2>1. CASE p = q
    <3>1. /\ next.pc = "settle" /\ request[q].pc = "check" /\ next.row = request[q].row /\ next.coupon = request[q].coupon
          /\ request'[p] = next
      BY <1>1, <1>2, <1>3, <2>1 DEF Reads, AtRows
    <3>2. ReadRight(q)
      BY <3>1 DEF RowsRead, Reads
    <3> DEFINE at == request[q].row
               c == request[q].coupon
    <3>3. /\ IsRow(at) /\ RowOf(at).coupon \in {<<>>, c}
          /\ at[1] \notin crossed => RowOf(at).status = "PENDING" /\ RowOf(at).coupon = c
      BY <3>1, <3>2 DEF ReadRight
    <3>4. request'[p].pc = "settle" /\ request'[p].row = at /\ request'[p].coupon = c
      BY <3>1
    <3> HIDE DEF at, c
    <3>5. UNCHANGED rows /\ UNCHANGED crossed
      OBVIOUS
    <3> QED
      BY <3>3, <3>4, <3>5 DEF ReadRight, IsRow, RowOf, Latest
  <2>2. CASE p # q
    <3>1. Reads(p) /\ ReadRight(p)
      BY <1>1, <1>3, <2>2 DEF Reads, RowsRead
    <3> QED
      BY <1>1, <2>2, <3>1 DEF ReadRight, IsRow, RowOf, Latest
  <2> QED
    BY <2>1, <2>2
<1>4. \A p \in Callers : Works(p)' => Works(p) /\ request'[p].row = request[p].row
  BY <1>1, <1>2 DEF Works
<1>5. Alone'
  BY <1>4 DEF Alone
<1> QED
  BY <1>3, <1>5 DEF RowsRead

LEMMA WorkEnds ==
  ASSUME CouponTypeOK, RowsRead, Alone, UNCHANGED crossed, NEW q \in Callers, NEW g \in Games,
         Works(q), request[q].row[1] = g, GoesOn(q, NoRequest), RowsKept(g),
         \A h \in Games : h # g => rows'[h] = rows[h]
  PROVE  RowsRead' /\ Alone'
<1>1. request'[q] = NoRequest /\ \A p \in Callers : p # q => request'[p] = request[p]
  BY DEF GoesOn, CouponTypeOK
<1>2. ~Works(q)' /\ ~Reads(q)'
  BY <1>1 DEF Works, Reads, NoRequest, AtRows
<1>3. ASSUME NEW p \in Callers, Reads(p)'
      PROVE  ReadRight(p)'
  <2>1. p # q /\ request'[p] = request[p] /\ Reads(p) /\ ReadRight(p)
    BY <1>1, <1>2, <1>3 DEF Reads, RowsRead
  <2>2. Works(p) /\ request[p].row \in RowIds
    BY <2>1, OnRowsIs DEF Works, Reads, AtRows, CouponTypeOK
  <2>3. CASE request[p].row[1] = g
    <3>1. g \in crossed
      BY <2>1, <2>2, <2>3 DEF Alone
    <3> DEFINE at == request[p].row
    <3>2. at[1] = g /\ at[2] \in 1..Latest(g)
      BY <2>1, <2>3 DEF ReadRight, IsRow
    <3>3. /\ at[2] \in 1..Len(rows'[g])
          /\ rows'[g][at[2]].coupon \in {<<>>, rows[g][at[2]].coupon}
          /\ rows[g][at[2]].status \in Paid => rows'[g][at[2]].status \in Paid /\ rows'[g][at[2]].coupon = rows[g][at[2]].coupon
      BY <3>2 DEF RowsKept
    <3> HIDE DEF at
    <3>4. at = request[p].row
      BY DEF at
    <3> QED
      BY <2>1, <3>1, <3>2, <3>3, <3>4 DEF ReadRight, IsRow, RowOf, Latest
  <2>4. CASE request[p].row[1] # g
    <3>1. rows'[request[p].row[1]] = rows[request[p].row[1]]
      BY <2>2, <2>4 DEF RowIds
    <3> QED
      BY <2>1, <3>1 DEF ReadRight, IsRow, RowOf, Latest
  <2> QED
    BY <2>3, <2>4
<1>4. \A p \in Callers : Works(p)' => Works(p) /\ request'[p].row = request[p].row
  BY <1>1, <1>2 DEF Works
<1>5. Alone'
  BY <1>4 DEF Alone
<1> QED
  BY <1>3, <1>5 DEF RowsRead

-----------------------------------------------------------------------------
\* Which row uses which coupon: what a step leaves of it.
LEMMA UsesRest ==
  ASSUME CouponTypeOK, UsedOnce, UNCHANGED rows, crossed \subseteq crossed',
         \A c \in Coupons : /\ coupon'[c].status = "USED" <=> coupon[c].status = "USED"
                            /\ coupon[c].status = "USED" => coupon'[c].by = coupon[c].by
  PROVE  UsedOnce'
<1>1. \A c \in Coupons : \A at \in RowIds : Uses(c, at)' <=> Uses(c, at)
  BY DEF Uses
<1>2. \A g \in Games : \A i \in 1..Latest(g) : <<g, i>> \in RowIds /\ rows[g][i] \in PayRow
  BY RowIs DEF RowIds
<1>3. \A g \in Games : \A i \in 1..Latest(g) : rows[g][i].coupon # <<>> => rows[g][i].coupon[1] \in Coupons
  BY <1>2, OneIs DEF PayRow
<1>4. ASSUME NEW g \in Games, NEW i \in 1..Latest(g), rows[g][i].status = "COMPLETED", rows[g][i].coupon # <<>>
      PROVE  Uses(rows[g][i].coupon[1], <<g, i>>)'
  <2>1. Uses(rows[g][i].coupon[1], <<g, i>>)
    BY <1>4 DEF UsedOnce
  <2> QED
    BY <1>1, <1>2, <1>3, <1>4, <2>1 DEF Uses
<1>5. ASSUME NEW c \in Coupons, NEW at \in RowIds, Uses(c, at)'
      PROVE  IsRow(at)' /\ (at[1] \in crossed' \/ (Standing(at)' /\ RowOf(at)'.coupon = <<c>>))
  <2>1. Uses(c, at)
    BY <1>1, <1>5
  <2>2. IsRow(at) /\ (at[1] \in crossed \/ (Standing(at) /\ RowOf(at).coupon = <<c>>))
    BY <2>1 DEF UsedOnce
  <2> QED
    BY <2>2 DEF IsRow, Standing, RowOf, Latest
<1> QED
  BY <1>4, <1>5 DEF UsedOnce, Latest

LEMMA PlanUses ==
  ASSUME CouponTypeOK, UsedOnce, NEW q \in Callers, PlanWrite(q), NEW g, g = request[q].row[1]
  PROVE  UsedOnce'
<1>1. /\ g \in Games /\ rows' \in [Games -> Seq(PayRow)] /\ Len(rows'[g]) = Latest(g) + 1
      /\ \A h \in Games : h # g => rows'[h] = rows[h]
      /\ \A i \in 1..Latest(g) : /\ rows'[g][i].coupon = rows[g][i].coupon
                                 /\ rows[g][i].status # "PENDING" => rows'[g][i].status = rows[g][i].status
                                 /\ rows[g][i].status = "PENDING" => rows'[g][i].status = "USER_CANCELLED"
      /\ rows'[g][Latest(g) + 1].status = "PENDING"
  <2>1. g \in Games /\ Planned(g)
    BY PlanWritten
  <2> QED
    BY <2>1 DEF Planned
<1>2. coupon' = coupon /\ crossed' = crossed
  BY DEF PlanWrite
<1>3. \A h \in Games : Latest(h) \in Nat
  BY DEF CouponTypeOK, Latest
<1>4. ASSUME NEW h \in Games, NEW i \in 1..Len(rows'[h]), rows'[h][i].status = "COMPLETED"
      PROVE  i \in 1..Latest(h) /\ rows[h][i].status = "COMPLETED" /\ rows'[h][i].coupon = rows[h][i].coupon
  <2>1. CASE h = g
    <3>1. i # Latest(g) + 1
      BY <1>1, <1>4, <2>1
    <3>2. i \in 1..Latest(g)
      BY <1>1, <1>3, <2>1, <3>1
    <3> QED
      BY <1>1, <1>4, <2>1, <3>2
  <2>2. CASE h # g
    BY <1>1, <1>4, <2>2 DEF Latest
  <2> QED
    BY <2>1, <2>2
<1>5. ASSUME NEW h \in Games, NEW i \in 1..Latest(h)
      PROVE  /\ i \in 1..Len(rows'[h])
             /\ rows[h][i].status = "COMPLETED" => rows'[h][i].status = "COMPLETED" /\ rows'[h][i].coupon = rows[h][i].coupon
  <2>1. CASE h = g
    BY <1>1, <1>3, <2>1
  <2>2. CASE h # g
    BY <1>1, <2>2 DEF Latest
  <2> QED
    BY <2>1, <2>2
<1>6. ASSUME NEW h \in Games, NEW i \in 1..Len(rows'[h]), rows'[h][i].status = "COMPLETED", rows'[h][i].coupon # <<>>
      PROVE  Uses(rows[h][i].coupon[1], <<h, i>>) /\ rows'[h][i].coupon = rows[h][i].coupon
  BY <1>4, <1>6 DEF UsedOnce
<1>7. ASSUME NEW c \in Coupons, NEW at \in RowIds, Uses(c, at)'
      PROVE  IsRow(at)' /\ (at[1] \in crossed' \/ (Standing(at)' /\ RowOf(at)'.coupon = <<c>>))
  <2>1. Uses(c, at)
    BY <1>2, <1>7 DEF Uses
  <2>2. IsRow(at) /\ (at[1] \in crossed \/ (Standing(at) /\ RowOf(at).coupon = <<c>>)) /\ at[1] \in Games
    BY <2>1 DEF UsedOnce, RowIds
  <2> QED
    BY <1>2, <1>5, <2>2 DEF IsRow, Standing, RowOf, Latest
<1> QED
  BY <1>2, <1>6, <1>7 DEF UsedOnce, Latest, Uses

\* The rows that a payment, another method or a cancellation does not write.
LEMMA OtherRows ==
  ASSUME CouponTypeOK, RowsRead, NEW q \in Callers, Settle(q) \/ ChangeWrite(q) \/ CancelWrite(q),
         NEW g, g = request[q].row[1], NEW i, i = request[q].row[2], NEW at \in RowIds
  PROVE  /\ IsRow(at)' <=> IsRow(at)
         /\ IsRow(at) /\ at # <<g, i>> => RowOf(at)' = RowOf(at)
<1>1. /\ g \in Games /\ i \in 1..Latest(g)
      /\ \A h \in Games : Len(rows'[h]) = Latest(h)
      /\ \A h \in Games : h # g => rows'[h] = rows[h]
      /\ \A j \in 1..Latest(g) : j # i => rows'[g][j] = rows[g][j]
  <2>1. g \in Games /\ i \in 1..Latest(g) /\ OneRow(g, i)
    BY OneWritten
  <2> QED
    BY <2>1 DEF OneRow
<1>2. at[1] \in Games /\ at = <<at[1], at[2]>>
  BY DEF RowIds
<1>3. IsRow(at)' <=> IsRow(at)
  BY <1>1, <1>2 DEF IsRow, Latest
<1>4. ASSUME IsRow(at), at # <<g, i>>
      PROVE  RowOf(at)' = RowOf(at)
  BY <1>1, <1>2, <1>4 DEF IsRow, RowOf
<1> QED
  BY <1>3, <1>4

\* A row, told by its number or as a pair.
LEMMA RowAt ==
  ASSUME CouponTypeOK, NEW g \in Games, NEW i \in 1..Latest(g), NEW at, at = <<g, i>>
  PROVE  /\ at \in RowIds /\ at[1] = g /\ at[2] = i /\ IsRow(at)
         /\ RowOf(at) = rows[g][i] /\ RowOf(at)' = rows'[g][i]
         /\ RowOf(at).coupon \in {<<>>} \cup OneCoupon
         /\ RowOf(at).coupon # <<>> => RowOf(at).coupon[1] \in Coupons /\ RowOf(at).coupon = <<RowOf(at).coupon[1]>>
<1>1. rows[g][i] \in PayRow /\ i \in Nat
  BY RowIs
<1>2. rows[g][i].coupon \in {<<>>} \cup OneCoupon
  BY <1>1 DEF PayRow
<1>3. at \in RowIds /\ at[1] = g /\ at[2] = i /\ IsRow(at) /\ RowOf(at) = rows[g][i] /\ RowOf(at)' = rows'[g][i]
  BY <1>1 DEF RowIds, IsRow, RowOf
<1> QED
  BY <1>2, <1>3, OneIs

\* A step that writes one row, and the coupon that this row uses.
OwnUse(own) ==
  /\ Standing(own) /\ RowOf(own).coupon # <<>> => Uses(RowOf(own).coupon[1], own)
  /\ \A k \in Coupons : Uses(k, own) => own[1] \in crossed \/ (Standing(own) /\ RowOf(own).coupon = <<k>>)
LEMMA UsesWritten ==
  ASSUME CouponTypeOK, rows' \in [Games -> Seq(PayRow)], UsedOnce, UNCHANGED crossed, NEW own \in RowIds, IsRow(own),
         \A at \in RowIds : /\ IsRow(at)' <=> IsRow(at)
                            /\ IsRow(at) /\ at # own => RowOf(at)' = RowOf(at),
         \A k \in Coupons : \A at \in RowIds : at # own => (Uses(k, at)' <=> Uses(k, at)),
         \A k \in Coupons : coupon'[k].status = "USED" => coupon'[k].by \in RowIds,
         OwnUse(own)'
  PROVE  UsedOnce'
<1>1. ASSUME NEW g \in Games, NEW i \in 1..Len(rows'[g]), rows'[g][i].status = "COMPLETED", rows'[g][i].coupon # <<>>
      PROVE  Uses(rows[g][i].coupon[1], <<g, i>>)'
  <2> DEFINE at == <<g, i>>
  <2>1. at \in RowIds /\ at[1] = g /\ at[2] = i /\ RowOf(at)' = rows'[g][i] /\ IsRow(at)'
    BY DEF RowIds, RowOf, IsRow, Latest
  <2>2. CASE at = own
    BY <1>1, <2>1, <2>2 DEF OwnUse, Standing
  <2>3. CASE at # own
    <3>1. IsRow(at) /\ i \in 1..Latest(g)
      BY <2>1 DEF IsRow
    <3>2. rows'[g][i] = rows[g][i]
      BY <2>1, <2>3, <3>1 DEF RowOf
    <3>3. Uses(rows[g][i].coupon[1], at) /\ rows[g][i].coupon[1] \in Coupons
      BY <1>1, <3>1, <3>2, RowAt DEF UsedOnce
    <3>4. \A k \in Coupons : Uses(k, at) => Uses(k, at)'
      BY <2>1, <2>3
    <3>5. ASSUME NEW k \in Coupons, k = rows[g][i].coupon[1], Uses(k, at)'
          PROVE  Uses(rows[g][i].coupon[1], <<g, i>>)'
      BY <3>2, <3>5 DEF Uses
    <3> QED
      BY <3>3, <3>4, <3>5
  <2> QED
    BY <2>2, <2>3
<1>2. ASSUME NEW k \in Coupons, NEW at \in RowIds, Uses(k, at)'
      PROVE  (IsRow(at) /\ (at[1] \in crossed \/ (Standing(at) /\ RowOf(at).coupon = <<k>>)))'
  <2>1. CASE at = own
    BY <1>2, <2>1 DEF OwnUse
  <2>2. CASE at # own
    <3>1. Uses(k, at)
      BY <1>2, <2>2
    <3>2. IsRow(at) /\ (at[1] \in crossed \/ (Standing(at) /\ RowOf(at).coupon = <<k>>))
      BY <3>1 DEF UsedOnce
    <3> QED
      BY <2>2, <3>2 DEF Standing
  <2> QED
    BY <2>1, <2>2
<1> QED
  BY <1>1, <1>2 DEF UsedOnce, Latest

\* A payment with a coupon: the coupon was free, and the row that holds it is the
\* one that the request read, unless another request was at the reservation.
LEMMA SettleUses ==
  ASSUME CouponTypeOK, CouponTypeOK', RowsRead, UsedOnce, NEW q \in Callers, Settle(q),
         NEW g, g = request[q].row[1], NEW i, i = request[q].row[2], NEW c, c = request[q].coupon, NEW own, own = <<g, i>>
  PROVE  UsedOnce'
<1> DEFINE Spends == c # <<>> /\ Usable(c[1])
           Writes == rows[g][i].status = "PENDING" /\ (c = <<>> \/ Usable(c[1]))
<1>1. /\ g \in Games /\ i \in 1..Latest(g) /\ c \in {<<>>} \cup OneCoupon
      /\ (UNCHANGED rows /\ ~Writes) \/ (Writes /\ RowWritten(g, i, WithStatus(rows[g][i], "COMPLETED")))
      /\ coupon' = IF Spends THEN [coupon EXCEPT ![c[1]] = [status |-> "USED", by |-> <<g, i>>]] ELSE coupon
  BY SettleWritten
<1>2. /\ own \in RowIds /\ own[1] = g /\ IsRow(own) /\ RowOf(own) = rows[g][i] /\ RowOf(own)' = rows'[g][i]
      /\ RowOf(own).coupon # <<>> => RowOf(own).coupon[1] \in Coupons
  BY <1>1, RowAt
<1>3. c # <<>> => c[1] \in Coupons /\ c = <<c[1]>>
  BY <1>1, OneIs
<1>4. /\ RowOf(own).coupon \in {<<>>, c}
      /\ g \notin crossed => RowOf(own).status = "PENDING" /\ RowOf(own).coupon = c
  <2>1. request[q].pc = "settle" /\ request[q].row = own
    <3>1. request[q].pc = "settle" /\ request[q] \in {NoRequest} \cup OnStamps \cup OnRows
      BY DEF Settle, CouponTypeOK
    <3> QED
      BY <3>1, OnRowsIs DEF AtRows, RowIds
  <2> QED
    BY <1>2, <2>1 DEF RowsRead, Reads, ReadRight
<1>5. /\ ~Writes => RowOf(own)' = RowOf(own)
      /\ Writes => Standing(own)' /\ RowOf(own)'.coupon = RowOf(own).coupon
  <2>1. CASE ~Writes
    BY <1>1, <1>2, <2>1
  <2>2. CASE Writes
    <3>1. rows[g][i] \in PayRow
      BY <1>1, RowIs
    <3>2. /\ WithStatus(rows[g][i], "COMPLETED") \in PayRow /\ WithStatus(rows[g][i], "COMPLETED").status = "COMPLETED"
          /\ WithStatus(rows[g][i], "COMPLETED").coupon = rows[g][i].coupon
      BY <3>1, PayRowSet
    <3>3. rows'[g][i] = WithStatus(rows[g][i], "COMPLETED")
      BY <1>1, <2>2, <3>2, RowSet
    <3> QED
      BY <1>2, <2>2, <3>2, <3>3 DEF Standing
  <2> QED
    BY <2>1, <2>2
<1>6. \A at \in RowIds : /\ IsRow(at)' <=> IsRow(at)
                         /\ IsRow(at) /\ at # own => RowOf(at)' = RowOf(at)
  BY OtherRows
<1>7. \A k \in Coupons : \A at \in RowIds :
        /\ Spends /\ k = c[1] => ~Uses(k, at) /\ (Uses(k, at)' <=> at = own)
        /\ ~(Spends /\ k = c[1]) => (Uses(k, at)' <=> Uses(k, at))
  BY <1>1 DEF Uses, Usable, CouponTypeOK
<1>8. \A k \in Coupons : coupon'[k].status = "USED" => coupon'[k].by \in RowIds
  BY <1>1, <1>2 DEF CouponTypeOK, UsedOnce
<1>9. (Standing(own) /\ RowOf(own).coupon # <<>> => Uses(RowOf(own).coupon[1], own))
  BY <1>1, <1>2 DEF UsedOnce, Standing
<1>10. \A k \in Coupons : Uses(k, own) => g \in crossed \/ (Standing(own) /\ RowOf(own).coupon = <<k>>)
  BY <1>2 DEF UsedOnce
<1>11. RowOf(own)'.coupon = RowOf(own).coupon
  BY <1>5
<1>12. ASSUME Standing(own)', RowOf(own)'.coupon # <<>>
       PROVE  Uses(RowOf(own).coupon[1], own)'
  <2>1. RowOf(own).coupon = c /\ c # <<>> /\ c[1] \in Coupons
    BY <1>3, <1>4, <1>11, <1>12
  <2>2. Uses(c[1], own)'
    <3>1. CASE Writes
      BY <1>2, <1>7, <2>1, <3>1
    <3>2. CASE ~Writes
      <4>1. Uses(c[1], own)
        BY <1>5, <1>9, <1>12, <2>1, <3>2 DEF Standing
      <4> QED
        BY <1>2, <1>7, <2>1, <4>1
    <3> QED
      BY <3>1, <3>2
  <2> QED
    BY <1>11, <2>1, <2>2 DEF Uses
<1>13. ASSUME NEW k \in Coupons, Uses(k, own)', g \notin crossed
       PROVE  Standing(own)' /\ RowOf(own)'.coupon = <<k>>
  <2>1. CASE Spends /\ k = c[1]
    BY <1>2, <1>3, <1>4, <1>5, <1>11, <1>13, <2>1
  <2>2. CASE ~(Spends /\ k = c[1])
    <3>1. Uses(k, own)
      BY <1>2, <1>7, <1>13, <2>2
    <3>2. Standing(own) /\ RowOf(own).coupon = <<k>>
      BY <1>10, <1>13, <3>1
    <3>3. RowOf(own).status = "PENDING"
      BY <1>4, <1>13
    <3> QED
      BY <3>2, <3>3 DEF Standing
  <2> QED
    BY <2>1, <2>2
<1>14. rows' \in [Games -> Seq(PayRow)] /\ UNCHANGED crossed
  BY DEF CouponTypeOK, Settle
<1>15. OwnUse(own)'
  BY <1>2, <1>12, <1>13, <1>14 DEF OwnUse
<1>16. \A k \in Coupons : \A at \in RowIds : at # own => (Uses(k, at)' <=> Uses(k, at))
  BY <1>7
<1> QED
  BY <1>2, <1>6, <1>8, <1>14, <1>15, <1>16, UsesWritten

\* A change of method writes a row that waits, which uses nothing.
LEMMA ChangeUses ==
  ASSUME CouponTypeOK, CouponTypeOK', RowsRead, UsedOnce, NEW q \in Callers, ChangeWrite(q),
         NEW g, g = request[q].row[1], NEW i, i = request[q].row[2], NEW own, own = <<g, i>>
  PROVE  UsedOnce'
<1>1. /\ g \in Games /\ i \in 1..Latest(g)
      /\ UNCHANGED rows \/ (rows[g][i].status = "PENDING" /\ RowWritten(g, i, InCash(rows[g][i])))
  BY ChangeWritten
<1>2. own \in RowIds /\ own[1] = g /\ IsRow(own) /\ RowOf(own) = rows[g][i] /\ RowOf(own)' = rows'[g][i]
  BY <1>1, RowAt
<1>3. UNCHANGED <<coupon, crossed>> /\ rows' \in [Games -> Seq(PayRow)]
  BY DEF ChangeWrite, CouponTypeOK
<1>4. RowOf(own)' = RowOf(own) \/ (~Standing(own) /\ ~Standing(own)')
  <2>1. CASE UNCHANGED rows
    BY <1>2, <2>1
  <2>2. CASE rows[g][i].status = "PENDING" /\ RowWritten(g, i, InCash(rows[g][i]))
    <3>1. rows[g][i] \in PayRow
      BY <1>1, RowIs
    <3>2. InCash(rows[g][i]) \in PayRow /\ InCash(rows[g][i]).status = rows[g][i].status
      BY <3>1, PayRowSet
    <3>3. rows'[g][i] = InCash(rows[g][i])
      BY <1>1, <2>2, <3>2, RowSet
    <3> QED
      BY <1>2, <2>2, <3>2, <3>3 DEF Standing
  <2> QED
    BY <1>1, <2>1, <2>2
<1>5. \A at \in RowIds : /\ IsRow(at)' <=> IsRow(at)
                         /\ IsRow(at) /\ at # own => RowOf(at)' = RowOf(at)
  BY OtherRows
<1>6. \A k, at : Uses(k, at)' <=> Uses(k, at)
  BY <1>3 DEF Uses
<1>7. (Standing(own) /\ RowOf(own).coupon # <<>> => Uses(RowOf(own).coupon[1], own))
  BY <1>1, <1>2 DEF UsedOnce, Standing
<1>8. \A k \in Coupons : Uses(k, own) => g \in crossed \/ (Standing(own) /\ RowOf(own).coupon = <<k>>)
  BY <1>2 DEF UsedOnce
<1>9. OwnUse(own)'
  <2>1. CASE RowOf(own)' = RowOf(own)
    BY <1>2, <1>3, <1>7, <1>8, <2>1 DEF OwnUse, Standing, Uses
  <2>2. CASE ~Standing(own) /\ ~Standing(own)'
    BY <1>2, <1>3, <1>6, <1>8, <2>2 DEF OwnUse
  <2> QED
    BY <1>4, <2>1, <2>2
<1>10. \A k \in Coupons : coupon'[k].status = "USED" => coupon'[k].by \in RowIds
  BY <1>3 DEF UsedOnce
<1> QED
  BY <1>2, <1>3, <1>5, <1>6, <1>9, <1>10, UsesWritten

\* A cancellation gives back what its own row uses.
LEMMA CancelUses ==
  ASSUME CouponTypeOK, CouponTypeOK', RowsRead, UsedOnce, NEW q \in Callers, CancelWrite(q),
         NEW g, g = request[q].row[1], NEW i, i = request[q].row[2], NEW c, c = request[q].coupon, NEW own, own = <<g, i>>
  PROVE  UsedOnce'
<1> DEFINE Back == c # <<>> /\ Uses(c[1], own)
           new == [status |-> IF c[1] \in overdue THEN "EXPIRED" ELSE "ACTIVE", by |-> Nobody]
<1>1. /\ g \in Games /\ i \in 1..Latest(g) /\ c \in {<<>>} \cup OneCoupon
      /\ rows[g][i].coupon = c /\ RowWritten(g, i, WithStatus(rows[g][i], "CANCELLED"))
      /\ coupon' = IF Back THEN [coupon EXCEPT ![c[1]] = new] ELSE coupon
  BY CancelWritten
<1>2. own \in RowIds /\ own[1] = g /\ IsRow(own) /\ RowOf(own) = rows[g][i] /\ RowOf(own)' = rows'[g][i]
  BY <1>1, RowAt
<1>3. c # <<>> => c[1] \in Coupons /\ c = <<c[1]>>
  BY <1>1, OneIs
<1>4. ~Standing(own)'
  <2>1. rows[g][i] \in PayRow
    BY <1>1, RowIs
  <2>2. WithStatus(rows[g][i], "CANCELLED") \in PayRow /\ WithStatus(rows[g][i], "CANCELLED").status = "CANCELLED"
    BY <2>1, PayRowSet
  <2>3. rows'[g][i] = WithStatus(rows[g][i], "CANCELLED")
    BY <1>1, <2>2, RowSet
  <2> QED
    BY <1>2, <2>2, <2>3 DEF Standing
<1>5. \A at \in RowIds : /\ IsRow(at)' <=> IsRow(at)
                         /\ IsRow(at) /\ at # own => RowOf(at)' = RowOf(at)
  BY OtherRows
<1>6. new.status # "USED"
  OBVIOUS
<1> HIDE DEF new
<1>7. \A k \in Coupons : \A at \in RowIds :
        /\ Back /\ k = c[1] => ~Uses(k, at)' /\ (Uses(k, at) => at = own)
        /\ ~(Back /\ k = c[1]) => (Uses(k, at)' <=> Uses(k, at))
  BY <1>1, <1>6 DEF Uses, CouponTypeOK
<1>8. \A k \in Coupons : coupon'[k].status = "USED" => coupon'[k].by \in RowIds
  BY <1>1, <1>6 DEF CouponTypeOK, UsedOnce
<1>9. ASSUME NEW k \in Coupons, Uses(k, own)'
      PROVE  g \in crossed
  <2>1. Uses(k, own) /\ ~(Back /\ k = c[1])
    BY <1>2, <1>7, <1>9
  <2>2. g \in crossed \/ RowOf(own).coupon = <<k>>
    BY <1>2, <2>1 DEF UsedOnce
  <2>3. RowOf(own).coupon = c
    BY <1>1, <1>2
  <2>4. <<k>> # <<>> /\ <<k>>[1] = k
    OBVIOUS
  <2>5. CASE RowOf(own).coupon = <<k>>
    <3>1. c = <<k>>
      BY <2>3, <2>5
    <3>2. c # <<>> /\ c[1] = k
      BY <2>4, <3>1
    <3>3. Uses(c[1], own)
      BY <2>1, <3>2
    <3> QED
      BY <2>1, <3>2, <3>3
  <2> QED
    BY <2>2, <2>5
<1>10. rows' \in [Games -> Seq(PayRow)] /\ UNCHANGED crossed
  BY DEF CouponTypeOK, CancelWrite
<1>11. OwnUse(own)'
  BY <1>2, <1>4, <1>9, <1>10 DEF OwnUse
<1>12. \A k \in Coupons : \A at \in RowIds : at # own => (Uses(k, at)' <=> Uses(k, at))
  BY <1>7
<1> QED
  BY <1>2, <1>5, <1>8, <1>10, <1>11, <1>12, UsesWritten

-----------------------------------------------------------------------------
\* Stamps and coupons.
LEMMA StampsRest ==
  ASSUME StampsForCoupons, UNCHANGED <<ledger, stale>>,
         \A k \in Autos : coupon'[k].status = "none" <=> coupon[k].status = "none"
  PROVE  StampsForCoupons'
<1>1. Balance' = Balance /\ deducted' = deducted /\ stale' = stale
  BY DEF Balance, ledger
<1> QED
  BY <1>1 DEF StampsForCoupons

LEMMA GoalTimes ==
  ASSUME NEW n \in Nat
  PROVE  Goal * n \in Nat /\ Goal * (n + 1) = Goal * n + Goal
  OBVIOUS

LEMMA StampsCounted ==
  ASSUME CouponTypeOK, StampsForCoupons, coupon' = coupon,
         NEW q \in Callers, Adjust(q) \/ RedeemWrite(q) \/ CancelUse(q) \/ \E g \in Games : Earn(q, g)
  PROVE  StampsForCoupons'
<1>1. Balance \in Int /\ Cardinality(earned) \in Nat /\ Cardinality(deducted) \in Nat /\ Goal \in Nat /\ adjusted \in Nat
  BY BalanceIs DEF CouponTypeOK
<1>2. /\ Goal * Cardinality(deducted) \in Nat
      /\ Goal * (Cardinality(deducted) + 1) = Goal * Cardinality(deducted) + Goal
      /\ Goal * (Cardinality(deducted) + 0) = Goal * Cardinality(deducted)
  BY <1>1, GoalTimes
<1>3. deducted' = deducted /\ (stale => stale')
  <2>1. deducted' = deducted
    BY DEF Adjust, RedeemWrite, CancelUse, Earn
  <2>2. stale' = stale \/ stale' = (stale \/ Balance < Goal)
    BY Zenon DEF Adjust, RedeemWrite, CancelUse, Earn
  <2> QED
    <3>1. CASE stale' = stale
      BY <2>1, <3>1
    <3>2. CASE stale' = (stale \/ Balance < Goal)
      BY <2>1, <3>2, Zenon
    <3> QED
      BY <2>2, <3>1, <3>2
<1>4. ASSUME stale' \/ Balance' >= 0
      PROVE  StampsForCoupons'
  <2>1. \A k \in Autos : k \in deducted' <=> coupon'[k].status # "none"
    BY <1>3 DEF StampsForCoupons
  <2> QED
    BY <1>4, <2>1, Zenon DEF StampsForCoupons
<1>5. ASSUME NEW n \in Nat, Balance' = Balance + n
      PROVE  StampsForCoupons'
  <2>1. Balance >= 0 => Balance' >= 0
    BY <1>1, <1>5
  <2>2. stale \/ Balance >= 0
    BY Zenon DEF StampsForCoupons
  <2> QED
    BY <1>3, <1>4, <2>1, <2>2, Zenon
<1> DEFINE Spent(m) == Goal * (Cardinality(deducted) + IF m = "used" THEN 1 ELSE 0)
<1>6. /\ Spent(manual) \in Int /\ Spent("used") = Spent("none") + Goal /\ Spent("cancelled") = Spent("none")
      /\ Spent("none") \in Int
      /\ Balance = Cardinality(earned) + (adjusted - Spent(manual))
      /\ Balance' = Cardinality(earned') + (adjusted' - Spent(manual'))
  <2>1. /\ Balance = Cardinality(earned) + (adjusted - Spent(manual))
        /\ Balance' = Cardinality(earned') + (adjusted' - Spent(manual'))
    <3>1. Balance = Cardinality(earned) + (adjusted - Spent(manual))
      BY DEF Balance
    <3>2. Balance' = Cardinality(earned') + (adjusted' - Goal * (Cardinality(deducted') + IF manual' = "used" THEN 1 ELSE 0))
      BY DEF Balance
    <3>3. deducted' = deducted
      BY <1>3, Zenon
    <3> QED
      BY <3>1, <3>2, <3>3
  <2>2. ASSUME NEW m, m = "used"
        PROVE  Spent(m) = Goal * Cardinality(deducted) + Goal
    BY <1>2, <2>2
  <2>3. ASSUME NEW m, m # "used"
        PROVE  Spent(m) = Goal * Cardinality(deducted)
    BY <1>2, <2>3
  <2> HIDE DEF Spent
  <2> QED
    BY <1>1, <1>2, <2>1, <2>2, <2>3
<1> HIDE DEF Spent
<1>7. CASE Adjust(q)
  <2>1. earned' = earned /\ manual' = manual /\ adjusted' = adjusted + 1
    BY <1>7 DEF Adjust
  <2>2. Balance' = Balance + 1
    BY <1>1, <1>6, <2>1
  <2> QED
    BY <1>5, <2>2
<1>8. CASE RedeemWrite(q)
  <2>1. earned' = earned /\ adjusted' = adjusted /\ manual = "none" /\ manual' = "used"
    BY <1>8 DEF RedeemWrite
  <2>2. stale' = (stale \/ Balance < Goal)
    BY <1>8 DEF RedeemWrite
  <2>3. Balance < Goal \/ Balance' >= 0
    BY <1>1, <1>6, <2>1
  <2> QED
    BY <1>4, <2>2, <2>3, Zenon
<1>9. CASE CancelUse(q)
  <2>1. earned' = earned /\ adjusted' = adjusted /\ manual = "used" /\ manual' = "cancelled"
    BY <1>9 DEF CancelUse
  <2>2. Balance' = Balance + Goal
    BY <1>1, <1>6, <2>1
  <2> QED
    BY <1>1, <1>5, <2>2
<1>10. ASSUME NEW g \in Games, Earn(q, g)
       PROVE  StampsForCoupons'
  <2>1. Cardinality(earned') = Cardinality(earned) + 1
    BY <1>10, FS_AddElement DEF Earn, CouponTypeOK
  <2>2. adjusted' = adjusted /\ manual' = manual
    BY <1>10 DEF Earn
  <2>3. Balance' = Balance + 1
    BY <1>1, <1>6, <2>1, <2>2
  <2> QED
    BY <1>5, <2>3
<1> QED
  BY <1>7, <1>8, <1>9, <1>10

LEMMA StampsTaken ==
  ASSUME CouponTypeOK, StampsForCoupons, NEW q \in Callers, Issue(q)
  PROVE  /\ StampsForCoupons'
         /\ \A c \in Coupons : /\ coupon'[c].status = "USED" <=> coupon[c].status = "USED"
                               /\ coupon[c].status = "USED" => coupon'[c].by = coupon[c].by
<1> DEFINE k == request[q].cycle
<1>1. k \in Autos
  BY OnStampsIs DEF Issue, CouponTypeOK
<1>2. /\ coupon' = IF coupon[k].status = "none" THEN [coupon EXCEPT ![k] = [status |-> "ACTIVE", by |-> Nobody]] ELSE coupon
      /\ deducted' = deducted \cup {k} /\ stale' = (stale \/ (k \notin deducted /\ Balance < Goal))
      /\ UNCHANGED <<earned, adjusted, manual>>
  BY DEF Issue
<1> HIDE DEF k
<1>3. coupon \in [Coupons -> CouponRow] /\ Autos \subseteq Coupons
  BY DEF CouponTypeOK, Coupons
<1>4. /\ coupon'[k].status # "none" /\ \A c \in Coupons : c # k => coupon'[c] = coupon[c]
      /\ coupon[k].status # "none" => coupon'[k] = coupon[k]
      /\ coupon[k].status = "none" => coupon'[k].status = "ACTIVE"
  BY <1>1, <1>2, <1>3
<1>5. Balance \in Int /\ Cardinality(earned) \in Nat /\ Cardinality(deducted) \in Nat /\ Goal \in Nat /\ adjusted \in Int
      /\ IsFiniteSet(deducted)
  BY BalanceIs DEF CouponTypeOK
<1>6. k \notin deducted => Balance' = Balance - Goal
  <2>1. k \notin deducted => Cardinality(deducted') = Cardinality(deducted) + 1
    BY <1>2, <1>5, FS_AddElement
  <2>2. ASSUME NEW m \in {0, 1}
        PROVE  Goal * (Cardinality(deducted) + 1 + m) = Goal * (Cardinality(deducted) + m) + Goal
    <3>1. Cardinality(deducted) + m \in Nat /\ Cardinality(deducted) + 1 + m = (Cardinality(deducted) + m) + 1
      BY <1>5
    <3> QED
      BY <3>1, GoalTimes
  <2>3. Goal * (Cardinality(deducted) + 0) \in Nat /\ Goal * (Cardinality(deducted) + 1) \in Nat
    BY <1>5, GoalTimes
  <2>4. CASE manual = "used"
    BY <1>2, <1>5, <2>1, <2>2, <2>3, <2>4 DEF Balance
  <2>5. CASE manual # "used"
    BY <1>2, <1>5, <2>1, <2>2, <2>3, <2>5 DEF Balance
  <2> QED
    BY <2>4, <2>5
<1>7. k \in deducted => Balance' = Balance
  <2>1. k \in deducted => deducted' = deducted
    BY <1>2
  <2> QED
    BY <1>2, <2>1 DEF Balance
<1>8. stale' \/ Balance' >= 0
  <2>1. k \notin deducted => Balance < Goal \/ Balance' >= 0
    BY <1>5, <1>6
  <2>2. stale \/ Balance >= 0
    BY Zenon DEF StampsForCoupons
  <2>3. stale' = (stale \/ (k \notin deducted /\ Balance < Goal))
    BY <1>2
  <2>4. k \in deducted => (Balance >= 0 => Balance' >= 0)
    BY <1>7
  <2> QED
    BY <2>1, <2>2, <2>3, <2>4, Zenon
<1>9. \A j \in Autos : j \in deducted' <=> coupon'[j].status # "none"
  BY <1>1, <1>2, <1>3, <1>4 DEF StampsForCoupons
<1>10. StampsForCoupons'
  BY <1>8, <1>9, Zenon DEF StampsForCoupons
<1>11. \A c \in Coupons : /\ coupon'[c].status = "USED" <=> coupon[c].status = "USED"
                          /\ coupon[c].status = "USED" => coupon'[c].by = coupon[c].by
  <2>1. coupon'[k].status = "USED" <=> coupon[k].status = "USED"
    BY <1>4
  <2>2. coupon[k].status = "USED" => coupon'[k].by = coupon[k].by
    BY <1>4
  <2> QED
    BY <1>4, <2>1, <2>2
<1> QED
  BY <1>10, <1>11
-----------------------------------------------------------------------------
LEMMA CouponInitially ==
  ASSUME CouponInit
  PROVE  CouponInv
<1>1. CouponTypeOK
  <2>1. coupon \in [Coupons -> CouponRow]
    <3>1. [status |-> "none", by |-> Nobody] \in CouponRow
      BY DEF CouponRow
    <3> QED
      BY <3>1 DEF CouponInit
  <2>2. rows \in [Games -> Seq(PayRow)]
    <3>1. <<>> \in Seq(PayRow)
      OBVIOUS
    <3> QED
      BY <3>1 DEF CouponInit
  <2>3. request \in [Callers -> {NoRequest} \cup OnStamps \cup OnRows]
    BY DEF CouponInit
  <2> QED
    BY <2>1, <2>2, <2>3, FS_EmptySet DEF CouponInit, CouponTypeOK
<1>2. RowsRead /\ Alone /\ \A q \in Callers : ~Works(q)
  BY DEF CouponInit, RowsRead, Alone, Works, Reads, AtRows, NoRequest
<1>3. UsedOnce
  <2>1. \A g \in Games : Latest(g) = 0
    BY DEF CouponInit, Latest
  <2>2. \A g \in Games : \A i \in 1..Latest(g) : FALSE
    BY <2>1
  <2>3. \A c \in Coupons : coupon[c].status # "USED"
    BY DEF CouponInit
  <2> QED
    BY <2>2, <2>3 DEF UsedOnce, Uses
<1>4. StampsForCoupons
  <2>1. Balance = 0
    <3>1. Cardinality(earned) = 0 /\ Cardinality(deducted) = 0 /\ adjusted = 0 /\ manual # "used"
      BY FS_EmptySet DEF CouponInit
    <3>2. Balance = 0 + 0 - Goal * (0 + 0)
      BY <3>1 DEF Balance
    <3> QED
      BY <3>2
  <2>2. \A k \in Autos : k \in Coupons /\ coupon[k].status = "none" /\ k \notin deducted
    BY DEF CouponInit, Coupons
  <2> QED
    BY <2>1, <2>2 DEF StampsForCoupons
<1> QED
  BY <1>1, <1>2, <1>3, <1>4 DEF CouponInv

\* What a step leaves of the coupons that are used, and of those that there are.
CouponsKept ==
  \A c \in Coupons : /\ coupon'[c].status = "USED" <=> coupon[c].status = "USED"
                     /\ coupon[c].status = "USED" => coupon'[c].by = coupon[c].by
NoneKept == \A k \in Autos : coupon'[k].status = "none" <=> coupon[k].status = "none"

LEMMA CouponKept ==
  ASSUME CouponTypeOK
  PROVE  /\ coupon' = coupon \/ coupon' = Expired => CouponsKept /\ NoneKept
         /\ \A q \in Callers : \A c \in Coupons : CancelCoupon(q, c) => CouponsKept /\ NoneKept
         /\ \A q \in Callers : \A c \in Gifts : Grant(q, c) => CouponsKept /\ NoneKept
<1>1. Autos \subseteq Coupons /\ Gifts \subseteq Coupons /\ \A c \in Gifts : c \notin Autos
  BY DEF Coupons, Autos
<1>2. coupon' = coupon \/ coupon' = Expired => CouponsKept /\ NoneKept
  BY <1>1, ExpiredIs DEF CouponsKept, NoneKept
<1>3. coupon \in [Coupons -> CouponRow]
  BY DEF CouponTypeOK
<1>4. ASSUME NEW q \in Callers, NEW c \in Coupons, CancelCoupon(q, c)
      PROVE  CouponsKept /\ NoneKept
  <2>1. \A d \in Coupons : d # c => coupon'[d] = coupon[d]
    BY <1>3, <1>4 DEF CancelCoupon
  <2>2. coupon'[c].status = "CANCELLED" /\ coupon[c].status \in {"ACTIVE", "EXPIRED"}
    BY <1>3, <1>4 DEF CancelCoupon, CouponRow
  <2> QED
    BY <1>1, <2>1, <2>2 DEF CouponsKept, NoneKept
<1>5. ASSUME NEW q \in Callers, NEW c \in Gifts, Grant(q, c)
      PROVE  CouponsKept /\ NoneKept
  <2>1. \A d \in Coupons : d # c => coupon'[d] = coupon[d]
    BY <1>3, <1>5 DEF Grant
  <2>2. coupon'[c].status = "ACTIVE" /\ coupon[c].status = "none"
    BY <1>1, <1>3, <1>5 DEF Grant, CouponRow
  <2> QED
    BY <1>1, <2>1, <2>2 DEF CouponsKept, NoneKept
<1> QED
  BY <1>2, <1>4, <1>5

\* The requests about stamps, and those that die, leave the rows alone.
AboutStamps(q) ==
  \/ Adjust(q) \/ Expire(q) \/ ReadBalance(q) \/ ReadCount(q) \/ Issue(q) \/ RedeemRead(q) \/ RedeemWrite(q)
  \/ CancelUse(q) \/ Dies(q) \/ (\E then \in {"idle", "redeem"} : Benefits(q, then))
  \/ (\E c \in Gifts : Grant(q, c)) \/ (\E c \in Coupons : CancelCoupon(q, c)) \/ (\E g \in Games : Earn(q, g))
LEMMA StampWork ==
  ASSUME CouponTypeOK, RowsRead, Alone, NEW q \in Callers, AboutStamps(q)
  PROVE  RowsRead' /\ Alone' /\ UNCHANGED <<rows, crossed>>
<1>1. \A then : /\ ToIssue(then).pc \notin AtRows /\ ToBenefits(then).pc \notin AtRows
                /\ then \in Thens => [pc |-> then].pc \notin AtRows
  BY DEF ToIssue, ToBenefits, AtRows, Thens
<1>2. /\ NoRequest.pc \notin AtRows /\ [pc |-> "use"].pc \notin AtRows
      /\ \A n, then : [pc |-> "count", balance |-> n, then |-> then].pc \notin AtRows
      /\ \A n, k, then : [pc |-> "issue", balance |-> n, cycle |-> k, then |-> then].pc \notin AtRows
  BY DEF NoRequest, AtRows
<1>3. ReadBalance(q) => request[q].then \in Thens
  BY OnStampsIs DEF ReadBalance, CouponTypeOK
<1>4. ReadBalance(q) => \E next : request' = [request EXCEPT ![q] = next] /\ next.pc \notin AtRows
  <2> DEFINE then == request[q].then
             next == IF Balance >= Goal THEN [pc |-> "count", balance |-> Balance, then |-> then]
                     ELSE IF then = "idle" THEN NoRequest ELSE [pc |-> then]
  <2>1. ReadBalance(q) => request' = [request EXCEPT ![q] = next]
    BY DEF ReadBalance, GoesOn
  <2>2. ReadBalance(q) => next.pc \notin AtRows
    BY <1>1, <1>2, <1>3
  <2> HIDE DEF next
  <2> QED
    BY <2>1, <2>2
<1>5. Issue(q) \/ Expire(q) => \E next : request' = [request EXCEPT ![q] = next] /\ next.pc \notin AtRows
  BY <1>1 DEF Issue, Expire, GoesOn
<1>6. ReadCount(q) => \E next : request' = [request EXCEPT ![q] = next] /\ next.pc \notin AtRows
  BY <1>2 DEF ReadCount, GoesOn
<1>7. RedeemRead(q) \/ Dies(q) => \E next : request' = [request EXCEPT ![q] = next] /\ next.pc \notin AtRows
  BY <1>2 DEF RedeemRead, Dies, GoesOn
<1>8. ASSUME \/ Adjust(q) \/ RedeemWrite(q) \/ CancelUse(q) \/ \E then \in {"idle", "redeem"} : Benefits(q, then)
             \/ \E c \in Gifts : Grant(q, c)
             \/ \E c \in Coupons : CancelCoupon(q, c)
             \/ \E g \in Games : Earn(q, g)
      PROVE  \E next : request' = [request EXCEPT ![q] = next] /\ next.pc \notin AtRows
  BY <1>1, <1>8 DEF Adjust, RedeemWrite, CancelUse, Benefits, Grant, CancelCoupon, Earn, GoesOn, Asks
<1>9. PICK next : request' = [request EXCEPT ![q] = next] /\ next.pc \notin AtRows
  BY <1>4, <1>5, <1>6, <1>7, <1>8 DEF AboutStamps
<1>10. UNCHANGED <<rows, crossed>>
  BY DEF AboutStamps, Adjust, Expire, ReadBalance, ReadCount, Issue, RedeemRead, RedeemWrite, CancelUse, Dies, Benefits,
         Grant, CancelCoupon, Earn, bills
<1> QED
  BY <1>9, <1>10, WorkGoesOn

LEMMA StampStep ==
  ASSUME CouponInv, NEW q \in Callers, AboutStamps(q)
  PROVE  RowsRead' /\ Alone' /\ UsedOnce' /\ StampsForCoupons'
<1>1. RowsRead' /\ Alone' /\ UNCHANGED <<rows, crossed>>
  BY StampWork DEF CouponInv
<1>2. CouponTypeOK /\ UsedOnce /\ StampsForCoupons
  BY DEF CouponInv
<1>3. ASSUME CouponsKept
      PROVE  UsedOnce'
  BY <1>1, <1>2, <1>3, UsesRest DEF CouponsKept
<1>4. CASE Issue(q)
  BY <1>1, <1>2, <1>3, <1>4, StampsTaken DEF CouponsKept
<1>5. CASE Adjust(q) \/ RedeemWrite(q) \/ CancelUse(q) \/ \E g \in Games : Earn(q, g)
  <2>1. coupon' = coupon
    BY <1>5 DEF Adjust, RedeemWrite, CancelUse, Earn
  <2> QED
    BY <1>1, <1>2, <1>3, <1>5, <2>1, StampsCounted, CouponKept
<1>6. CASE \/ Expire(q) \/ ReadBalance(q) \/ ReadCount(q) \/ RedeemRead(q) \/ Dies(q)
           \/ \E then \in {"idle", "redeem"} : Benefits(q, then)
           \/ \E c \in Gifts : Grant(q, c)
           \/ \E c \in Coupons : CancelCoupon(q, c)
  <2>1. CouponsKept /\ NoneKept
    <3>1. CASE \E c \in Gifts : Grant(q, c)
      BY <1>2, <3>1, CouponKept
    <3>2. CASE \E c \in Coupons : CancelCoupon(q, c)
      BY <1>2, <3>2, CouponKept
    <3>3. ASSUME Expire(q) \/ ReadBalance(q) \/ ReadCount(q) \/ RedeemRead(q) \/ Dies(q)
                 \/ \E then \in {"idle", "redeem"} : Benefits(q, then)
          PROVE  coupon' = coupon \/ coupon' = Expired
      BY <3>3 DEF Expire, ReadBalance, ReadCount, RedeemRead, Dies, Benefits
    <3> QED
      BY <1>2, <1>6, <3>1, <3>2, <3>3, CouponKept
  <2>2. UNCHANGED <<ledger, stale>>
    BY <1>6 DEF Expire, ReadBalance, ReadCount, RedeemRead, Dies, Benefits, Grant, CancelCoupon
  <2>3. StampsForCoupons'
    BY <1>2, <2>1, <2>2, StampsRest DEF NoneKept
  <2> QED
    BY <1>1, <1>3, <2>1, <2>3
<1> QED
  BY <1>4, <1>5, <1>6 DEF AboutStamps

\* The requests about rows that write none.
LEMMA RowReadStep ==
  ASSUME CouponInv, NEW q \in Callers,
         \/ PlanCheck(q) \/ SettleCheck(q)
         \/ \E g \in Games : \/ SettleRead(q, g) \/ ChangeRead(q, g) \/ CancelRead(q, g)
                             \/ \E c \in Coupons : PlanRead(q, g, c)
  PROVE  RowsRead' /\ Alone' /\ UsedOnce' /\ StampsForCoupons'
<1>1. CouponTypeOK /\ RowsRead /\ Alone /\ UsedOnce /\ StampsForCoupons
  BY DEF CouponInv
<1>2. UNCHANGED rows /\ UNCHANGED <<ledger, stale>> /\ crossed \subseteq crossed' /\ (coupon' = coupon \/ coupon' = Expired)
  BY DEF PlanCheck, SettleCheck, Validate, SettleRead, ChangeRead, CancelRead, PlanRead, StartOn, bills
<1>3. UsedOnce' /\ StampsForCoupons'
  BY <1>1, <1>2, UsesRest, StampsRest, CouponKept DEF CouponsKept, NoneKept
<1>4. ASSUME PlanCheck(q) \/ SettleCheck(q)
      PROVE  RowsRead' /\ Alone'
  <2>1. UNCHANGED <<rows, crossed>>
    BY <1>4 DEF PlanCheck, SettleCheck, bills
  <2>2. NoRequest.pc \notin AtRows
    BY DEF NoRequest, AtRows
  <2>3. CASE PlanCheck(q)
    <3> DEFINE next == IF Usable(request[q].coupon[1]) THEN [request[q] EXCEPT !.pc = "plan"] ELSE NoRequest
    <3>1. request[q].pc = "validate" /\ request' = [request EXCEPT ![q] = next]
      BY <2>3 DEF PlanCheck, Validate, GoesOn
    <3>2. next.pc \notin AtRows \/ next = [request[q] EXCEPT !.pc = "plan"]
      BY <2>2
    <3> HIDE DEF next
    <3> QED
      BY <1>1, <2>1, <3>1, <3>2, WorkGoesOn
  <2>4. CASE SettleCheck(q)
    <3> DEFINE next == IF Usable(request[q].coupon[1]) THEN [request[q] EXCEPT !.pc = "settle"] ELSE NoRequest
    <3>1. request[q].pc = "check" /\ request' = [request EXCEPT ![q] = next]
      BY <2>4 DEF SettleCheck, Validate, GoesOn
    <3>2. next.pc \notin AtRows \/ next = [request[q] EXCEPT !.pc = "settle"]
      BY <2>2
    <3> HIDE DEF next
    <3> QED
      BY <1>1, <2>1, <3>1, <3>2, WorkGoesOn
  <2> QED
    BY <1>4, <2>3, <2>4
<1>5. ASSUME NEW g \in Games, SettleRead(q, g) \/ ChangeRead(q, g)
      PROVE  RowsRead' /\ Alone'
  <2> DEFINE i == Latest(g)
             c == rows[g][i].coupon
  <2>1. i \in 1..Latest(g) /\ rows[g][i].status = "PENDING"
    BY <1>1, <1>5 DEF SettleRead, ChangeRead, Pending, CouponTypeOK, Latest
  <2>2. IsRow(<<g, i>>) /\ RowOf(<<g, i>>) = rows[g][i]
    BY <1>1, <2>1, RowAt
  <2>3. CASE SettleRead(q, g)
    <3> DEFINE first == [pc |-> IF c = <<>> THEN "settle" ELSE "check", row |-> <<g, i>>, coupon |-> c]
    <3>1. StartOn(q, g, first)
      BY <2>3 DEF SettleRead
    <3>2. first.pc \in {"settle", "check"} /\ first.pc \in AtRows /\ first.row = <<g, i>> /\ first.row[1] = g /\ first.coupon = c
      BY DEF AtRows
    <3> HIDE DEF first
    <3> QED
      BY <1>1, <1>2, <2>1, <2>2, <3>1, <3>2, WorkBegins
  <2>4. CASE ChangeRead(q, g)
    <3> DEFINE first == [pc |-> "change", row |-> <<g, i>>]
    <3>1. StartOn(q, g, first)
      BY <2>4 DEF ChangeRead
    <3>2. first.pc = "change" /\ first.pc \in AtRows /\ first.row = <<g, i>> /\ first.row[1] = g
      BY DEF AtRows
    <3> HIDE DEF first
    <3> QED
      BY <1>1, <1>2, <2>1, <2>2, <3>1, <3>2, WorkBegins
  <2> QED
    BY <1>5, <2>3, <2>4
<1>6. ASSUME NEW g \in Games, CancelRead(q, g)
      PROVE  RowsRead' /\ Alone'
  <2>1. PICK i \in 1..Latest(g) :
          Standing(<<g, i>>) /\ StartOn(q, g, [pc |-> "cancel", row |-> <<g, i>>, coupon |-> rows[g][i].coupon])
    BY <1>6 DEF CancelRead
  <2> DEFINE first == [pc |-> "cancel", row |-> <<g, i>>, coupon |-> rows[g][i].coupon]
  <2>2. IsRow(<<g, i>>) /\ RowOf(<<g, i>>) = rows[g][i]
    BY <1>1, RowAt
  <2>3. StartOn(q, g, first) /\ RowOf(<<g, i>>).status \in Paid
    BY <2>1 DEF Standing, Paid
  <2>4. first.pc = "cancel" /\ first.pc \in AtRows /\ first.row = <<g, i>> /\ first.row[1] = g /\ first.coupon = rows[g][i].coupon
    BY DEF AtRows
  <2> HIDE DEF first
  <2> QED
    BY <1>1, <1>2, <2>2, <2>3, <2>4, WorkBegins
<1>7. ASSUME NEW g \in Games, NEW c \in Coupons, PlanRead(q, g, c)
      PROVE  RowsRead' /\ Alone'
  <2> DEFINE first == [pc |-> "validate", row |-> <<g, 0>>, coupon |-> <<c>>]
  <2>1. StartOn(q, g, first)
    BY <1>7 DEF PlanRead
  <2>2. first.pc = "validate" /\ first.pc \in AtRows /\ first.row[1] = g
    BY DEF AtRows
  <2> HIDE DEF first
  <2> QED
    BY <1>1, <1>2, <2>1, <2>2, WorkBegins
<1> QED
  BY <1>3, <1>4, <1>5, <1>6, <1>7

\* The requests that write a row.
LEMMA WriteStep ==
  ASSUME CouponInv, CouponTypeOK', NEW q \in Callers, PlanWrite(q) \/ Settle(q) \/ ChangeWrite(q) \/ CancelWrite(q),
         NEW g, g = request[q].row[1], NEW i, i = request[q].row[2], NEW c, c = request[q].coupon
  PROVE  RowsRead' /\ Alone' /\ UsedOnce' /\ StampsForCoupons'
<1>1. CouponTypeOK /\ RowsRead /\ Alone /\ UsedOnce /\ StampsForCoupons
  BY DEF CouponInv
<1>2. Works(q) /\ GoesOn(q, NoRequest) /\ UNCHANGED crossed /\ UNCHANGED <<ledger, stale>>
  BY DEF PlanWrite, Settle, ChangeWrite, CancelWrite, Works, AtRows
<1>3. UsedOnce'
  BY <1>1, PlanUses, SettleUses, ChangeUses, CancelUses
<1>4. g \in Games /\ RowsKept(g) /\ \A h \in Games : h # g => rows'[h] = rows[h]
  <2>1. CASE PlanWrite(q)
    <3>1. g \in Games /\ Planned(g)
      BY <1>1, <2>1, PlanWritten
    <3>2. Latest(g) \in Nat
      BY <1>1, <3>1 DEF CouponTypeOK, Latest
    <3>3. \A j \in 1..Latest(g) : j \in 1..Len(rows'[g])
      BY <3>1, <3>2 DEF Planned
    <3>4. \A status \in Paid : status # "PENDING"
      BY DEF Paid
    <3> QED
      BY <3>1, <3>3, <3>4 DEF Planned, RowsKept
  <2>2. CASE Settle(q) \/ ChangeWrite(q) \/ CancelWrite(q)
    <3>1. g \in Games /\ i \in 1..Latest(g) /\ OneRow(g, i)
      BY <1>1, <2>2, OneWritten
    <3> QED
      BY <3>1 DEF OneRow, RowsKept
  <2> QED
    BY <2>1, <2>2
<1>5. RowsRead' /\ Alone'
  BY <1>1, <1>2, <1>4, WorkEnds
<1>6. NoneKept
  <2>1. Autos \subseteq Coupons /\ coupon \in [Coupons -> CouponRow]
    BY <1>1 DEF Coupons, CouponTypeOK
  <2>2. CASE coupon' = coupon
    BY <2>2 DEF NoneKept
  <2>3. CASE Settle(q)
    <3>1. /\ c \in {<<>>} \cup OneCoupon
          /\ coupon' = IF c # <<>> /\ Usable(c[1])
                       THEN [coupon EXCEPT ![c[1]] = [status |-> "USED", by |-> <<g, i>>]]
                       ELSE coupon
      BY <1>1, <2>3, SettleWritten
    <3>2. c # <<>> => c[1] \in Coupons
      BY <3>1, OneIs
    <3> QED
      BY <2>1, <3>1, <3>2 DEF NoneKept, Usable
  <2>4. CASE CancelWrite(q)
    <3> DEFINE new == [status |-> IF c[1] \in overdue THEN "EXPIRED" ELSE "ACTIVE", by |-> Nobody]
    <3>1. /\ c \in {<<>>} \cup OneCoupon
          /\ coupon' = IF c # <<>> /\ Uses(c[1], <<g, i>>) THEN [coupon EXCEPT ![c[1]] = new] ELSE coupon
      BY <1>1, <2>4, CancelWritten
    <3>2. c # <<>> => c[1] \in Coupons
      BY <3>1, OneIs
    <3>3. new.status # "none"
      OBVIOUS
    <3> HIDE DEF new
    <3> QED
      BY <2>1, <3>1, <3>2, <3>3 DEF NoneKept, Uses
  <2>5. PlanWrite(q) \/ ChangeWrite(q) => coupon' = coupon
    BY DEF PlanWrite, ChangeWrite
  <2> QED
    BY <2>2, <2>3, <2>4, <2>5
<1> QED
  BY <1>1, <1>2, <1>3, <1>5, <1>6, StampsRest DEF NoneKept

\* A step that only lets time pass, or none.
LEMMA Elsewhere ==
  ASSUME CouponInv, UNCHANGED <<ledger, coupon, bills, request, stale>>
  PROVE  RowsRead' /\ Alone' /\ UsedOnce' /\ StampsForCoupons'
<1>1. CouponTypeOK /\ RowsRead /\ Alone /\ UsedOnce /\ StampsForCoupons
  BY DEF CouponInv
<1>2. /\ UNCHANGED rows /\ UNCHANGED crossed /\ UNCHANGED request /\ UNCHANGED coupon
      /\ UNCHANGED <<ledger, stale>>
  BY DEF bills
<1>3. UsedOnce' /\ StampsForCoupons'
  BY <1>1, <1>2, UsesRest, StampsRest
<1>4. RowsRead'
  BY <1>1, <1>2 DEF RowsRead, Reads, ReadRight, IsRow, RowOf, Latest
<1>5. Alone'
  BY <1>1, <1>2 DEF Alone, Works
<1> QED
  BY <1>3, <1>4, <1>5

LEMMA CouponStep ==
  ASSUME CouponInv, [CouponNext]_mvars
  PROVE  CouponInv'
<1>1. CASE UNCHANGED mvars
  <2>1. CouponTypeOK'
    BY <1>1 DEF mvars, CouponInv, CouponTypeOK
  <2>2. UNCHANGED <<ledger, coupon, bills, request, stale>>
    BY <1>1 DEF mvars, ledger, bills
  <2> QED
    BY <2>1, <2>2, Elsewhere DEF CouponInv
<1>2. CASE CouponNext
  <2>1. CouponTypeOK'
    BY <1>2, CouponNextTypes DEF CouponInv
  <2>2. ASSUME NEW c \in Coupons, CouponEnds(c)
        PROVE  RowsRead' /\ Alone' /\ UsedOnce' /\ StampsForCoupons'
    BY <2>2, Elsewhere DEF CouponEnds
  <2>3. ASSUME NEW q \in Callers, AboutStamps(q)
        PROVE  RowsRead' /\ Alone' /\ UsedOnce' /\ StampsForCoupons'
    BY <2>3, StampStep
  <2>4. ASSUME NEW q \in Callers,
               \/ PlanCheck(q) \/ SettleCheck(q)
               \/ \E g \in Games : \/ SettleRead(q, g) \/ ChangeRead(q, g) \/ CancelRead(q, g)
                                   \/ \E c \in Coupons : PlanRead(q, g, c)
        PROVE  RowsRead' /\ Alone' /\ UsedOnce' /\ StampsForCoupons'
    BY <2>4, RowReadStep
  <2>5. ASSUME NEW q \in Callers, PlanWrite(q) \/ Settle(q) \/ ChangeWrite(q) \/ CancelWrite(q)
        PROVE  RowsRead' /\ Alone' /\ UsedOnce' /\ StampsForCoupons'
    BY <2>1, <2>5, WriteStep
  <2> QED
    BY <1>2, <2>1, <2>2, <2>3, <2>4, <2>5 DEF CouponNext, CouponInv, AboutStamps
<1> QED
  BY <1>1, <1>2

\* Every request still knows what it needs of its row, one reservation is worked
\* on by one request or marked as crossed, and a coupon is used by one row.
THEOREM CouponInvariant == CouponSpec => []CouponInv
<1> QED
  BY CouponInitially, CouponStep, PTL DEF CouponSpec

\* A coupon is spent once and given back by the cancellation of the row that used
\* it, and the coupons that are made of stamps are those that took stamps.
THEOREM CouponsReal == CouponSpec => []CouponsAddUp
<1>1. CouponInv => CouponsAddUp
  <2>1. SUFFICES ASSUME CouponInv
                 PROVE  SpentOnce
    BY <2>1 DEF CouponsAddUp, CouponInv
  <2>2. CouponTypeOK /\ UsedOnce
    BY <2>1 DEF CouponInv
  <2>3. ASSUME NEW g \in Games, NEW i \in 1..Latest(g), Standing(<<g, i>>), rows[g][i].coupon # <<>>
        PROVE  coupon[rows[g][i].coupon[1]] = [status |-> "USED", by |-> <<g, i>>]
    <3> DEFINE k == rows[g][i].coupon[1]
    <3>1. RowOf(<<g, i>>) = rows[g][i] /\ k \in Coupons
      BY <2>2, <2>3, RowAt
    <3>2. Uses(k, <<g, i>>)
      BY <2>2, <2>3, <3>1 DEF UsedOnce, Standing
    <3>3. coupon[k] \in CouponRow
      BY <2>2, <3>1 DEF CouponTypeOK
    <3> HIDE DEF k
    <3>4. coupon[k] = [status |-> "USED", by |-> <<g, i>>]
      BY <3>2, <3>3 DEF Uses, CouponRow
    <3> QED
      BY <3>4 DEF k
  <2>4. ASSUME NEW c \in Coupons, coupon[c].status = "USED"
        PROVE  LET at == coupon[c].by IN at[1] \in crossed \/ (Standing(at) /\ RowOf(at).coupon = <<c>>)
    BY <2>2, <2>4 DEF UsedOnce, Uses
  <2> QED
    BY <2>3, <2>4 DEF SpentOnce
<1> QED
  BY <1>1, CouponInvariant, PTL
=============================================================================
