--------------------------- MODULE NaverDelivery ---------------------------
(***************************************************************************)
(* How a booking of Naver reaches the calendar: the runs of                *)
(* naver-collector/sw.js (runAutoOnce) over the table of Calendar.  A run  *)
(* empties the outbox, reads the bookings, queues what is new, and empties *)
(* the outbox again.  The import answers for a whole batch; the answer may *)
(* be lost, and the browser may stop the worker at any await, when the     *)
(* batch it has sent is still imported.                                    *)
(*                                                                         *)
(* The import of one booking is one step here; Calendar cuts it up.  The   *)
(* two Google sheets, which are sent the same entries, are left out.       *)
(***************************************************************************)
EXTENDS Calendar, Sequences, SequencesExt

CONSTANTS
  Offers,     \* the slots at which each booking may be made
  MaxChanges, \* changes at Naver in a behaviour (a bound)
  MaxFaults   \* stops of the worker, failed and lost requests (a bound)

VARIABLES
  naver,      \* the bookings at Naver
  changes,
  outbox,     \* bookingDeliveryOutbox, latest entry first
  states,     \* bookingEventStates: what each booking was last delivered as
  run,        \* the run that has the lease
  faults

dvars == <<row, done, req, edits, edited, placed, store, naver, changes, outbox, states, run, faults>>

NoBooking == [source |-> "none", slot |-> <<>>]
NoRun == [pc |-> "idle"]
Entry(b, booking) == [row |-> b, source |-> booking.source, slot |-> booking.slot]

DeliveryInit ==
  /\ CalendarInit
  /\ naver = [b \in Naver |-> NoBooking]
  /\ changes = 0
  /\ outbox = <<>>
  /\ states = [b \in Naver |-> NoBooking]
  /\ run = NoRun
  /\ faults = 0

-----------------------------------------------------------------------------
(* Naver: a slot is sold once; a booking is moved, cancelled or used.      *)

AtNaver(b, source, s) ==
  /\ changes < MaxChanges /\ changes' = changes + 1
  /\ source \in {"booked", "completed"} =>
       \A x \in Naver \ {b} : ~(naver[x].source \in {"booked", "completed"} /\ naver[x].slot = s)
  /\ naver' = [naver EXCEPT ![b] = [source |-> source, slot |-> s]]
  /\ UNCHANGED <<cvars, outbox, states, run, faults>>
Book(b) == naver[b] = NoBooking /\ \E s \in Offers[b] : AtNaver(b, "booked", s)
Change(b) ==
  /\ naver[b].source = "booked"
  /\ \/ \E s \in Offers[b] \ {naver[b].slot} : AtNaver(b, "booked", s)
     \/ \E source \in {"cancelled", "completed"} : AtNaver(b, source, naver[b].slot)

-----------------------------------------------------------------------------
(* The store meanwhile: guests arrive, leave and cancel, and the web sells. *)

AtStore ==
  /\ \/ \E r \in Rows : Arrive(r) \/ Cancel(r)
     \/ \E q \in Requests :
          \/ \E r \in Web, room \in Rooms : WebAsk(q, r, room)
          \/ \E r \in Rows : Complete(q, r, {"arrived"})
          \/ WebInsert(q) \/ CompleteEvent(q) \/ Dropped(q)
  /\ UNCHANGED <<naver, changes, outbox, states, run, faults>>

-----------------------------------------------------------------------------
(* A run.                                                                  *)

Goes(pc) == run' = [run EXCEPT !.pc = pc]
Drained == run' = IF run.next = "collect" THEN [pc |-> "collect"] ELSE NoRun

Start ==                                          \* acquireRun
  /\ run = NoRun
  /\ run' = [pc |-> "drain", next |-> "collect"]
  /\ UNCHANGED <<cvars, naver, changes, outbox, states, faults>>
Post ==                                           \* drainOutbox, up to the request
  /\ run.pc = "drain"
  /\ IF outbox = <<>> THEN Drained
     ELSE run' = [pc |-> "import", next |-> run.next, batch |-> outbox, at |-> 1, failed |-> FALSE]
  /\ UNCHANGED <<cvars, naver, changes, outbox, states, faults>>

\* The route of the import takes the rows one by one; one that fails is counted.
Pending == run.pc \in {"import", "orphan"} /\ run.at <= Len(run.batch)
ImportOne ==
  /\ Pending
  /\ LET e == run.batch[run.at]
         seen == row[e.row]
         state == Resolved(e.source, seen.status, done[e.row])
         to == IF seen.over THEN seen.slot ELSE e.slot
         key == IF state \in Closed THEN NoKey
                ELSE IF seen.status = "none" THEN Canonical(to) ELSE AdminKey(e.row, to)
         ok == key # NoKey => KeyFree(e.row, key)
     IN  /\ row' = IF ok THEN [row EXCEPT ![e.row] = [@ EXCEPT !.status = state, !.slot = to, !.key = key]]
                   ELSE row
         /\ run' = [run EXCEPT !.at = @ + 1, !.failed = @ \/ ~ok]
  /\ UNCHANGED <<done, req, edits, edited, placed, store, naver, changes, outbox, states, faults>>

\* Mutant of Delivered: any answer counts as success.
DeliveredAny == run.pc = "import" /\ ~Pending
\* success is false if a row failed: the whole batch stays in the outbox.
Delivered == run.pc = "import" /\ ~Pending /\ ~run.failed
Answer ==
  /\ run.pc = "import" /\ ~Pending
  /\ IF Delivered THEN Goes("mark") ELSE Drained
  /\ UNCHANGED <<cvars, naver, changes, outbox, states, faults>>
Fault == faults < MaxFaults /\ faults' = faults + 1
\* The request is lost on its way, or its answer is.
Lost ==
  /\ run.pc = "import" /\ (run.at = 1 \/ ~Pending)
  /\ Drained /\ Fault
  /\ UNCHANGED <<cvars, naver, changes, outbox, states>>

\* markDestinationDelivered: of two entries of a booking the later one counts.
Mark ==
  /\ run.pc = "mark" /\ Goes("save")
  /\ states' = [b \in Naver |->
       LET mine == SelectSeq(run.batch, LAMBDA e : e.row = b)
       IN  IF mine = <<>> THEN states[b] ELSE [source |-> Last(mine).source, slot |-> Last(mine).slot]]
  /\ UNCHANGED <<cvars, naver, changes, outbox, faults>>
Save ==
  /\ run.pc = "save" /\ Drained
  /\ outbox' = <<>>
  /\ UNCHANGED <<cvars, naver, changes, states, faults>>

\* Mutant of ToSend: a booking that only moved is not sent.
ToSendByStatus(b) == naver[b].source # states[b].source
\* collectBookingsFromNaverApi and selectPendingBookings.  The bookings come in
\* the order of Naver's lists; the request may fail, which ends the run.
ToSend(b) == naver[b] # states[b]
Collect ==
  /\ run.pc = "collect"
  /\ \E items \in SetToSeqs({Entry(b, naver[b]) : b \in {x \in Naver : ToSend(x)}}) :
       run' = [pc |-> "queue", items |-> items]
  /\ UNCHANGED <<cvars, naver, changes, outbox, states, faults>>
CollectFails ==
  /\ run.pc = "collect" /\ run' = NoRun /\ Fault
  /\ UNCHANGED <<cvars, naver, changes, outbox, states>>
\* enqueueBookings: one entry for a booking and a state of it, and the outbox is
\* stored with the latest entry first.
SameEvent(e, f) == e.row = f.row /\ e.source = f.source
Queue ==
  /\ run.pc = "queue"
  /\ outbox' = run.items \o SelectSeq(outbox, LAMBDA e : \A i \in 1..Len(run.items) : ~SameEvent(e, run.items[i]))
  /\ run' = [pc |-> "drain", next |-> "end"]
  /\ UNCHANGED <<cvars, naver, changes, states, faults>>

\* The worker is stopped; another run starts once the lease has expired, by
\* when the batch has been imported or was lost.
Stopped ==
  /\ run.pc \notin {"idle", "orphan"} /\ Fault
  /\ run' = IF run.pc = "import" THEN [run EXCEPT !.pc = "orphan"] ELSE NoRun
  /\ UNCHANGED <<cvars, naver, changes, outbox, states>>
LeaseExpires ==
  /\ run.pc = "orphan" /\ (run.at = 1 \/ ~Pending)
  /\ run' = NoRun
  /\ UNCHANGED <<cvars, naver, changes, outbox, states, faults>>

Run == Start \/ Post \/ ImportOne \/ Answer \/ Mark \/ Save \/ Collect \/ Queue \/ LeaseExpires
DeliveryNext ==
  \/ \E b \in Naver : Book(b) \/ Change(b)
  \/ AtStore \/ Run \/ Lost \/ CollectFails \/ Stopped
DeliverySpec == DeliveryInit /\ [][DeliveryNext]_dvars

\* The alarm starts a run every half minute and what is started goes on.
FairDeliverySpec == DeliverySpec /\ WF_dvars(Run)

-----------------------------------------------------------------------------
\* What the collector keeps.
DeliveryTypeOK ==
  /\ CalendarTypeOK
  /\ \A b \in Naver : {naver[b].source, states[b].source} \subseteq {"none"} \cup SourceStates
  /\ \A i, j \in 1..Len(outbox) : i # j => ~SameEvent(outbox[i], outbox[j])

\* The calendar shows booking b as it stands at Naver: the store may close a
\* booking on its own, and Naver's cancellation always counts.
Shown(b) ==
  CASE naver[b].source = "none" -> TRUE
    [] naver[b].source = "cancelled" -> row[b].status = "cancelled"
    [] OTHER -> row[b].status # "none" /\ (IsLive(b) => row[b].slot = naver[b].slot)

\* A booking that the collector will not send again is shown right: nothing that
\* was lost, refused, sent twice or sent out of order is taken for delivered.
NothingForgotten ==
  \A b \in Naver :
    (/\ ~ToSend(b)
     /\ \A i \in 1..Len(outbox) : outbox[i].row # b
     /\ run.pc \notin {"import", "orphan"}) => Shown(b)

\* Once Naver's bookings no longer change, the calendar comes to show them and
\* keeps to it, whatever was lost on the way.
CalendarFollows == <>[](\A b \in Naver : Shown(b))

\* Naver's cancellation always cancels the reservation of the store.
CancellationArrives == \A b \in Naver : <>[](naver[b].source = "cancelled" => row[b].status = "cancelled")
=============================================================================
