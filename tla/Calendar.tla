------------------------------ MODULE Calendar ------------------------------
(***************************************************************************)
(* The table `reservations` and the handlers of db/reservations.ts: the    *)
(* web form of a customer, the calendar of the staff, the games that the   *)
(* controller reports stopped, and the import of Naver's bookings.         *)
(*                                                                         *)
(* A live row occupies its slot through active_slot_key, which is unique:  *)
(* the canonical key of the slot, or a key of the row's own when the staff *)
(* put it on a slot that is taken.  Handlers read the row, then the other  *)
(* rows of the slot, then write; requests run side by side, and one may be *)
(* dropped between two steps.                                              *)
(***************************************************************************)
EXTENDS Integers, FiniteSets, FiniteSetsExt

CONSTANTS
  Web,        \* reservations of customers; each carries its idempotency key
  Staff,      \* reservations the staff makes or copies
  Naver,      \* bookings of Naver, by number
  Times,      \* times of one day, in order
  Rooms,
  Requests,   \* requests under way at once (a bound)
  MaxEdits    \* requests of the staff and imports in a behaviour (a bound)

\* Where a row comes from stays (source); times are counted.
ASSUME CalendarConstants == Times \subseteq Nat /\ Web \cap Staff = {} /\ Naver \cap (Web \cup Staff) = {}

Rows == Web \cup Staff \cup Naver
Slots == Times \X Rooms                       \* <<time, room>>
Live == {"booked", "arrived"}
Closed == {"completed", "cancelled"}
SourceStates == {"booked", "completed", "cancelled"}

VARIABLES
  row,        \* reservations
  done,       \* the events complete and auto_complete_game_stopped
  req,        \* the requests under way
  edits,      \* how many edits were begun
  \* what the properties remember
  edited,     \* rows the staff assigned, moved or changed
  placed,     \* the slot the staff gave a row of Naver, last
  store       \* rows the staff or the controller completed

cvars == <<row, done, req, edits, edited, placed, store>>

NoKey == <<>>
Canonical(s) == <<s, TRUE>>
Own(s) == <<s, FALSE>>                        \* `slot|admin|id`
NoRow == [status |-> "none", slot |-> <<>>, key |-> NoKey, over |-> FALSE]
Idle == [pc |-> "idle"]

CalendarInit ==
  /\ row = [r \in Rows |-> NoRow]
  /\ done = [r \in Rows |-> FALSE]
  /\ req = [q \in Requests |-> Idle]
  /\ edits = 0
  /\ edited = [r \in Rows |-> FALSE]
  /\ placed = [r \in Rows |-> <<>>]
  /\ store = [r \in Rows |-> FALSE]

IsLive(r) == row[r].status \in Live
Others(r, s) == {x \in Rows \ {r} : IsLive(x) /\ row[x].slot = s}
KeyFree(r, key) == key[2] => \A x \in Rows \ {r} : row[x].key # key

Begin(q, first) == req[q] = Idle /\ req' = [req EXCEPT ![q] = first]
Over(q) == req' = [req EXCEPT ![q] = Idle]
BeginEdit(q, first) == edits < MaxEdits /\ edits' = edits + 1 /\ Begin(q, first)

\* A request that fails, or whose server stops, changes nothing more.
Dropped(q) ==
  /\ req[q] # Idle /\ Over(q)
  /\ UNCHANGED <<row, done, edits, edited, placed, store>>

-----------------------------------------------------------------------------
(* The customer: the first free time of the room, then the row.            *)

Occupied(room) == {t \in Times : \E r \in Rows : IsLive(r) /\ row[r].key # NoKey /\ row[r].slot = <<t, room>>}
WebAsk(q, r, room) ==
  LET free == Times \ Occupied(room)
  IN  /\ free # {}
      /\ Begin(q, [pc |-> "insert", row |-> r, to |-> <<Min(free), room>>])
      /\ UNCHANGED <<row, done, edits, edited, placed, store>>
\* createWebReservation; a repeated request finds the row of the first.
WebInsert(q) ==
  /\ req[q].pc = "insert"
  /\ LET r == req[q].row
         key == Canonical(req[q].to)
     IN  IF row[r].status # "none" THEN UNCHANGED row
         ELSE /\ KeyFree(r, key)
              /\ row' = [row EXCEPT ![r] = [NoRow EXCEPT !.status = "booked", !.slot = req[q].to, !.key = key]]
  /\ Over(q)
  /\ UNCHANGED <<done, edits, edited, placed, store>>

-----------------------------------------------------------------------------
(* updateReservation: the changes of status are one guarded write each.    *)

\* Mutant of SetStatus: a cancelled row keeps its key.
SetStatusKeyKept(r, from, to) ==
  /\ row[r].status \in from
  /\ row' = [row EXCEPT ![r].status = to, ![r].key = IF to = "completed" THEN NoKey ELSE @]
SetStatus(r, from, to) ==
  /\ row[r].status \in from
  /\ row' = [row EXCEPT ![r].status = to, ![r].key = IF to \in Closed THEN NoKey ELSE @]

Arrive(r) == SetStatus(r, {"booked"}, "arrived") /\ UNCHANGED <<done, req, edits, edited, placed, store>>
UndoArrive(r) == SetStatus(r, {"arrived"}, "booked") /\ UNCHANGED <<done, req, edits, edited, placed, store>>
Cancel(r) == SetStatus(r, Live, "cancelled") /\ UNCHANGED <<done, req, edits, edited, placed, store>>

\* complete, and completeArrivedReservationForRoom with from = {"arrived"}:
\* the event that an import looks for is a second write.
Complete(q, r, from) ==
  /\ SetStatus(r, from, "completed")
  /\ store' = [store EXCEPT ![r] = TRUE]
  /\ Begin(q, [pc |-> "event", row |-> r, seen |-> row[r]])
  /\ UNCHANGED <<done, edits, edited, placed>>
CompleteEvent(q) ==
  /\ req[q].pc = "event"
  /\ done' = [done EXCEPT ![req[q].row] = TRUE]
  /\ Over(q)
  /\ UNCHANGED <<row, edits, edited, placed, store>>

\* deleteClosedReservation: the events go with the row, and go even if the
\* row has been opened again since it was read.  Requests under way for a row
\* that is gone find nothing to write.
DeleteAsk(q, r) ==
  /\ row[r].status \in Closed
  /\ BeginEdit(q, [pc |-> "delete", row |-> r])
  /\ UNCHANGED <<row, done, edited, placed, store>>
Lapsed(q, r) == req[q].pc \in {"event", "look", "write", "importLook"} /\ req[q].row = r /\ req[q].seen # NoRow
Delete(q) ==
  /\ req[q].pc = "delete"
  /\ LET r == req[q].row
         gone == row[r].status \in Closed
         clear(f, none) == IF gone THEN [f EXCEPT ![r] = none] ELSE f
     IN  /\ done' = [done EXCEPT ![r] = FALSE]
         /\ row' = clear(row, NoRow)
         /\ edited' = clear(edited, FALSE) /\ placed' = clear(placed, <<>>) /\ store' = clear(store, FALSE)
         /\ req' = [x \in Requests |-> IF x = q \/ (gone /\ Lapsed(x, r)) THEN Idle ELSE req[x]]
  /\ UNCHANGED edits

-----------------------------------------------------------------------------
(* The edits of the staff.  Each reads its row, then the slot it goes to.  *)

\* createAdminReservation, and a copy of any row that is not cancelled.
CreateAsk(q, r, s) ==
  /\ row[r].status = "none"
  /\ BeginEdit(q, [pc |-> "look", op |-> "create", row |-> r, to |-> s, seen |-> NoRow, key |-> NoKey])
  /\ UNCHANGED <<row, done, edited, placed, store>>
\* assign changes the room only; move and details give a slot.
EditAsk(q, op, r, s) ==
  /\ row[r].status # "none"
  /\ op = "assign" => s[1] = row[r].slot[1]
  /\ BeginEdit(q, [pc |-> "look", op |-> op, row |-> r, to |-> s, seen |-> row[r], key |-> NoKey])
  /\ UNCHANGED <<row, done, edited, placed, store>>

\* adminActiveSlotKey
AdminKey(r, s) == IF Others(r, s) = {} THEN Canonical(s) ELSE Own(s)
Look(q) ==
  /\ req[q].pc = "look"
  /\ req' = [req EXCEPT ![q].pc = "write",
                         ![q].key = IF req[q].seen.status \in Closed THEN NoKey ELSE AdminKey(req[q].row, req[q].to)]
  /\ UNCHANGED <<row, done, edits, edited, placed, store>>

\* updatedScheduleOverride, of the row that was read
Overridden(r, seen, s) == IF r \in Naver THEN seen.over \/ seen.slot # s ELSE seen.over
EditStands(op, status) ==
  CASE op = "assign" -> TRUE
    [] op = "move" -> status \notin Closed
    [] op = "details" -> status # "cancelled"
Edit(q) ==
  /\ req[q].pc = "write" /\ req[q].op \in {"assign", "move", "details"}
  /\ LET r == req[q].row
         s == IF req[q].op = "assign" THEN <<row[r].slot[1], req[q].to[2]>> ELSE req[q].to
         over == Overridden(r, req[q].seen, req[q].to)
     IN  IF row[r].status # "none" /\ EditStands(req[q].op, row[r].status)
         THEN /\ req[q].key # NoKey => KeyFree(r, req[q].key)
              /\ row' = [row EXCEPT ![r] = [@ EXCEPT !.slot = s, !.key = req[q].key, !.over = over]]
              /\ edited' = [edited EXCEPT ![r] = TRUE]
              /\ placed' = [placed EXCEPT ![r] = IF over THEN s ELSE <<>>]
         ELSE UNCHANGED <<row, edited, placed>>
  /\ Over(q)
  /\ UNCHANGED <<done, edits, store>>
Create(q) ==
  /\ req[q].pc = "write" /\ req[q].op = "create"
  /\ row[req[q].row].status = "none" /\ KeyFree(req[q].row, req[q].key)
  /\ row' = [row EXCEPT ![req[q].row] = [NoRow EXCEPT !.status = "booked", !.slot = req[q].to, !.key = req[q].key]]
  /\ Over(q)
  /\ UNCHANGED <<done, edits, edited, placed, store>>

-----------------------------------------------------------------------------
(* upsertImportedReservation: a booking of Naver as it was observed.       *)

\* resolveImportedOperationalState
Resolved(source, status, completedHere) ==
  IF source = "cancelled" THEN "cancelled"
  ELSE IF status = "arrived" \/ (status = "completed" /\ completedHere) THEN status
  ELSE "booked"

ImportAsk(q, r, source, s) ==
  /\ BeginEdit(q, [pc |-> "importLook", op |-> "import", row |-> r, seen |-> row[r], key |-> NoKey,
                   state |-> Resolved(source, row[r].status, done[r]),
                   from |-> s, to |-> IF row[r].over THEN row[r].slot ELSE s])
  /\ UNCHANGED <<row, done, edited, placed, store>>
\* A new row takes the canonical key without a look; the database refuses it
\* if the slot is taken.
ImportLook(q) ==
  /\ req[q].pc = "importLook"
  /\ LET key == IF req[q].state \in Closed THEN NoKey
                ELSE IF req[q].seen.status = "none" THEN Canonical(req[q].to)
                ELSE AdminKey(req[q].row, req[q].to)
     IN  req' = [req EXCEPT ![q].pc = "write", ![q].key = key]
  /\ UNCHANGED <<row, done, edits, edited, placed, store>>

\* Mutant of ImportSlot: the slot is the one worked out before.
ImportSlotSeen(q) == req[q].to
\* The status and the key are those that were worked out; whether the slot is
\* overridden is asked again.
ImportSlot(q) == IF row[req[q].row].over THEN row[req[q].row].slot ELSE req[q].from
Import(q) ==
  /\ req[q].pc = "write" /\ req[q].op = "import"
  /\ req[q].key # NoKey => KeyFree(req[q].row, req[q].key)
  /\ LET r == req[q].row
         next == [status |-> req[q].state, slot |-> ImportSlot(q), key |-> req[q].key, over |-> row[r].over]
     IN  IF req[q].seen.status = "none"
         THEN row[r].status = "none" /\ row' = [row EXCEPT ![r] = next]
         ELSE row' = IF row[r].status = "none" THEN row ELSE [row EXCEPT ![r] = next]
  /\ Over(q)
  /\ UNCHANGED <<done, edits, edited, placed, store>>

CalendarNext ==
  \/ \E q \in Requests :
       \/ \E r \in Web, room \in Rooms : WebAsk(q, r, room)
       \/ \E r \in Rows, from \in {{"arrived"}, Live \cup {"completed"}} : Complete(q, r, from)
       \/ \E r \in Rows : DeleteAsk(q, r)
       \/ \E r \in Staff, s \in Slots : CreateAsk(q, r, s)
       \/ \E r \in Rows, s \in Slots, op \in {"assign", "move", "details"} : EditAsk(q, op, r, s)
       \/ \E r \in Naver, s \in Slots, source \in SourceStates : ImportAsk(q, r, source, s)
       \/ WebInsert(q) \/ CompleteEvent(q) \/ Delete(q) \/ Look(q) \/ Edit(q) \/ Create(q)
       \/ ImportLook(q) \/ Import(q) \/ Dropped(q)
  \/ \E r \in Rows : Arrive(r) \/ UndoArrive(r) \/ Cancel(r)
CalendarSpec == CalendarInit /\ [][CalendarNext]_cvars

-----------------------------------------------------------------------------
SlotKey == {NoKey} \cup (Slots \X BOOLEAN)
Booking == {NoRow} \cup [status : Live \cup Closed, slot : Slots, key : SlotKey, over : BOOLEAN]
Edits == {"assign", "move", "details"}
Request ==
  {Idle} \cup [pc : {"insert"}, row : Web, to : Slots] \cup [pc : {"delete"}, row : Rows]
    \cup [pc : {"event"}, row : Rows, seen : Booking]
    \cup [pc : {"look", "write"}, op : {"create"}, row : Staff, to : Slots, seen : {NoRow}, key : SlotKey]
    \cup [pc : {"look", "write"}, op : Edits, row : Rows, to : Slots, seen : Booking \ {NoRow}, key : SlotKey]
    \cup [pc : {"importLook", "write"}, op : {"import"}, row : Naver, seen : Booking, key : SlotKey,
          state : Live \cup Closed, from : Slots, to : Slots]

RowsOK == /\ row \in [Rows -> Booking]
          /\ \A r \in Rows : row[r].over => r \in Naver
\* The index reservations_active_slot_key_uidx: a key that is free of its row
\* is of one row.
SlotsApart == \A r, x \in Rows : row[r].key = row[x].key /\ row[r].key # NoKey /\ row[r].key[2] => r = x
MarksOK == /\ done \in [Rows -> BOOLEAN] /\ edited \in [Rows -> BOOLEAN] /\ store \in [Rows -> BOOLEAN]
           /\ placed \in [Rows -> Slots \cup {<<>>}]
\* Rows and requests are what the handlers write, and no slot has two canonical
\* keys.
CalendarTypeOK == RowsOK /\ MarksOK /\ req \in [Requests -> Request] /\ SlotsApart

\* A reservation that a customer made and the staff did not edit holds the key
\* of its slot exactly while it is live, so no second customer is sold the slot
\* (createWebReservation relies on the unique key), whatever the staff and the
\* imports do to other rows meanwhile; nor does any other row that is closed
\* keep a slot from customers.
CustomerSlot ==
  \A r \in Rows : ~edited[r] =>
    /\ row[r].status \in Closed => row[r].key = NoKey
    /\ r \in Web /\ IsLive(r) => row[r].key = Canonical(row[r].slot)

\* A booking of Naver that the staff placed stays there: no import, however
\* stale what it read, moves it back to Naver's slot (schedule_overridden).
StaysPlaced == \A r \in Naver : row[r].over => row[r].slot = placed[r]

\* A booking is completed by the store and never because Naver says it was used
\* (resolveImportedOperationalState).
CompletedByStore == \A r \in Rows : row[r].status = "completed" => store[r]

\* What the store decided about a booking stands against Naver.
StoreDecides == StaysPlaced /\ CompletedByStore
=============================================================================
