---------------------------- MODULE KioskBooking ----------------------------
(***************************************************************************)
(* A kiosk visit up to its payment: db/customer-flow.ts from the session   *)
(* of a customer to the paid reservation.  Several kiosks and the web      *)
(* compete for the slots of the day.  A slot may be taken in three tables  *)
(* (holds, appended games, reservations), each with a unique key of its    *)
(* own; across the tables only the reads of a handler keep two visits      *)
(* apart.  The staff's calendar changes any row of `reservations`, those   *)
(* of the kiosks too, and asks neither for their payment nor for their     *)
(* visit.  Every handler that reads and then writes is cut between the     *)
(* two, and the server may drop a request between two steps.               *)
(*                                                                         *)
(* A screen sends one action at a time (its buttons wait for the answer),  *)
(* while the draft of the form is saved in the background next to it.      *)
(***************************************************************************)
EXTENDS Integers, FiniteSets, FiniteSetsExt

CONSTANTS
  Visits,     \* sessions of the kiosks
  NSlots,     \* bookable slots of the day, in the order they are offered
  Web,        \* reservations made outside of the kiosk
  WebSlot,    \* the slot of each of them
  Parties,    \* party sizes of each visit; the price of a game is that of its party
  MaxRev,     \* drafts each screen saves (a bound)
  MaxGames,   \* games of each visit (a bound; the code stops at ten)
  None

Slots == 1..NSlots
Games == UNION {1..MaxGames[v] : v \in Visits}
Seats == Web \cup (Visits \X Games)       \* rows of `reservations`

ASSUME BookingConstants ==
  /\ NSlots \in Nat
  /\ Web \cap (Visits \X Games) = {} /\ None \notin Seats
  /\ WebSlot \in [Web -> Slots]
  /\ Parties \in [Visits -> SUBSET Nat]
  /\ MaxRev \in [Visits -> Nat] /\ MaxGames \in [Visits -> Nat \ {0}]

VARIABLES
  visit,      \* customer_visits
  hold,       \* customer_room_holds: the slot each visit holds, 0 if its row is not ACTIVE
  game,       \* customer_visit_games: one row per visit and sequence
  seat,       \* reservations
  plan,       \* the payment of the visit: its state and the seats it pays for
  req,        \* the action a screen is waiting for
  draft,      \* the draft a screen is saving
  desk,       \* the edit of each reservation that the staff's calendar has under way
  \* what the properties remember
  edited      \* reservations that the calendar made or changed

bvars == <<visit, hold, game, seat, plan, req, draft, desk, edited>>

Open == {"DRAFT", "HOLD"}
Booked == {"booked", "arrived"}
Closed == {"completed", "cancelled"}
Idle == [pc |-> "idle"]
NoPlan == [status |-> "none", seats |-> {}]
NoGame == [status |-> "NONE", slot |-> 0, keyed |-> FALSE, party |-> 0, base |-> 0]
Ended == [NoGame EXCEPT !.status = "ENDED"]       \* CANCELLED or EXPIRED

BookingInit ==
  /\ visit = [v \in Visits |-> [status |-> "NONE", flow |-> "WALK_IN", party |-> 0,
                                rev |-> 0, seat |-> None]]
  /\ hold = [v \in Visits |-> 0]
  /\ game = [v \in Visits |-> [n \in Games |-> NoGame]]
  /\ seat = [s \in Seats |-> [status |-> "none", slot |-> 0, key |-> 0, paid |-> FALSE]]
  /\ plan = [v \in Visits |-> NoPlan]
  /\ req = [v \in Visits |-> Idle]
  /\ draft = [v \in Visits |-> Idle]
  /\ desk = [s \in Seats |-> Idle] /\ edited = {}

-----------------------------------------------------------------------------
(* Expiry: every request of any session first ends what is past its time    *)
(* (expireKioskRows).  A request takes less time than it adds to its visit.  *)

EndHold(v) == hold' = [hold EXCEPT ![v] = 0]
EndGames(v, states) ==
  game' = [game EXCEPT ![v] = [n \in Games |-> IF @[n].status \in states THEN Ended ELSE @[n]]]

HoldExpires(v) ==
  /\ hold[v] # 0 /\ EndHold(v)
  /\ UNCHANGED <<visit, game, seat, plan, req, draft>>
GameExpires(v, n) ==
  /\ game[v][n].status = "HOLD"
  /\ game' = [game EXCEPT ![v][n] = Ended]
  /\ UNCHANGED <<visit, hold, seat, plan, req, draft>>
VisitExpires(v) ==
  /\ visit[v].status \in Open /\ req[v] = Idle /\ draft[v] = Idle
  /\ visit' = [visit EXCEPT ![v].status = "EXPIRED", ![v].seat = None]
  /\ UNCHANGED <<hold, game, seat, plan, req, draft>>

\* visitForToken: a request of visit v starts if its row may, and keeps `first`
\* for its next step.
Session(v, may(_), first) ==
  /\ visit[v].status \notin {"NONE", "EXPIRED"} /\ req[v] = Idle /\ may(visit[v])
  /\ req' = [req EXCEPT ![v] = first]
  /\ UNCHANGED <<visit, hold, game, seat, plan, draft>>

OpenRow(row) == row.status \in Open
WalkIn(row) == OpenRow(row) /\ row.flow = "WALK_IN" /\ row.party > 0

\* The request of v goes on at pc, or is over.
GoOn(v, pc) == req' = [req EXCEPT ![v].pc = pc]
Over(v) == req' = [req EXCEPT ![v] = Idle]

\* A refused or a dropped request changes nothing more.
Dropped(v) ==
  /\ req[v] # Idle /\ Over(v)
  /\ UNCHANGED <<visit, hold, game, seat, plan, draft>>

-----------------------------------------------------------------------------
(* The session and its draft.                                              *)

Create(v, p) ==
  /\ visit[v].status = "NONE"
  /\ visit' = [visit EXCEPT ![v].status = "DRAFT", ![v].party = p]
  /\ UNCHANGED <<hold, game, seat, plan, req, draft>>

\* applyKioskDraftSnapshot: the status is read first, the write asks only
\* that no newer revision has been saved.
DraftRead(v, p) ==
  /\ draft[v] = Idle /\ visit[v].status \in Open /\ visit[v].rev < MaxRev[v]
  /\ draft' = [draft EXCEPT ![v] = [pc |-> "write", party |-> p, rev |-> visit[v].rev + 1]]
  /\ UNCHANGED <<visit, hold, game, seat, plan, req>>
DraftWrite(v) ==
  /\ draft[v] # Idle
  /\ draft' = [draft EXCEPT ![v] = Idle]
  /\ visit' = IF visit[v].rev <= draft[v].rev
              THEN [visit EXCEPT ![v].party = draft[v].party, ![v].rev = draft[v].rev] ELSE visit
  /\ UNCHANGED <<hold, game, seat, plan, req>>

ResetRead(v) == Session(v, LAMBDA row : row.status \notin {"PAYMENT_PENDING", "PREPARING"},
                           [pc |-> "reset"])
ResetWrite(v) ==
  /\ req[v].pc = "reset"
  /\ EndHold(v) /\ EndGames(v, {"HOLD"})
  /\ visit' = [visit EXCEPT ![v].status = "CANCELLED",
                            ![v].seat = IF visit[v].status \in Open THEN None ELSE @]
  /\ Over(v)
  /\ UNCHANGED <<seat, plan, draft>>

-----------------------------------------------------------------------------
(* Slots.                                                                  *)

Taken == {seat[s].slot : s \in {x \in Seats : seat[x].status \in Booked}}
           \cup {hold[v] : v \in Visits}
           \cup {game[p[1]][p[2]].slot : p \in {x \in Visits \X Games :
                    LET g == game[x[1]][x[2]] IN g.status = "HOLD" /\ g.keyed}}
Free == Slots \ Taken                              \* getKioskAvailability

\* The unique keys: of the holds, and of the appended games.
HoldKeyFree(v, s) == \A w \in Visits \ {v} : hold[w] # s
GameKeyFree(s) == \A w \in Visits, n \in Games : ~(game[w][n].keyed /\ game[w][n].slot = s)

\* holdKioskSlot: the customer picks a slot of the timetable.
HoldRead(v, s) == Session(v, WalkIn, [pc |-> "holdWrite", slot |-> s]) /\ s \in Free
TakeHold(v, s) == hold' = [hold EXCEPT ![v] = s]
HoldWrite(v) ==
  /\ req[v].pc = "holdWrite" /\ HoldKeyFree(v, req[v].slot)
  /\ TakeHold(v, req[v].slot)
  /\ visit' = [visit EXCEPT ![v].status = "HOLD"]
  /\ Over(v)
  /\ UNCHANGED <<game, seat, plan, draft>>

\* autoAssignKioskSlot: the first free slot, checked once more, and written
\* for the draft that was read.  The reads up to the choice are one step.
LastGame(v) == Max({0} \cup {n \in Games : game[v][n].status \notin {"NONE", "ENDED"}})
After(v, append) == IF append /\ LastGame(v) > 0 THEN game[v][LastGame(v)].slot ELSE 0
AssignRead(v, append) ==
  LET fit == {s \in Free : s > After(v, append)}
  IN  /\ req[v] = Idle /\ WalkIn(visit[v]) /\ fit # {}
      /\ append => LastGame(v) \in 1..(MaxGames[v] - 1)
      /\ Session(v, WalkIn, [pc |-> IF append THEN "appendCheck" ELSE "assignCheck",
                             rev |-> visit[v].rev, party |-> visit[v].party, slot |-> Min(fit)])

\* Mutant of SameDraft: the draft is not compared.
SameDraftDropped(v) == visit[v].status \in Open
SameDraft(v) ==
  visit[v].status \in Open /\ visit[v].rev = req[v].rev /\ visit[v].party = req[v].party
AssignCheck(v) ==                                 \* recheckKioskAutoAssignSlot
  /\ req[v].pc \in {"assignCheck", "appendCheck"}
  /\ SameDraft(v) /\ req[v].slot \in Free
  /\ GoOn(v, IF req[v].pc = "assignCheck" THEN "assignWrite" ELSE "appendWrite")
  /\ UNCHANGED <<visit, hold, game, seat, plan, draft>>
NewGame(v, keyed) ==
  [status |-> "HOLD", slot |-> req[v].slot, keyed |-> keyed, party |-> visit[v].party,
   base |-> req[v].party]
AssignWrite(v) ==
  /\ req[v].pc = "assignWrite" /\ SameDraft(v) /\ HoldKeyFree(v, req[v].slot)
  /\ TakeHold(v, req[v].slot)
  /\ game' = [game EXCEPT ![v] = [n \in Games |->
                IF n = 1 THEN NewGame(v, FALSE) ELSE IF @[n].status = "HOLD" THEN Ended ELSE @[n]]]
  /\ visit' = [visit EXCEPT ![v].status = "HOLD"]
  /\ Over(v)
  /\ UNCHANGED <<seat, plan, draft>>
AppendWrite(v) ==
  /\ req[v].pc = "appendWrite" /\ SameDraft(v) /\ GameKeyFree(req[v].slot)
  /\ LET n == LastGame(v) + 1
     IN  /\ n \in Games /\ game[v][n] = NoGame     \* the key (visit, sequence)
         /\ game' = [game EXCEPT ![v][n] = NewGame(v, TRUE)]
  /\ Over(v)
  /\ UNCHANGED <<visit, hold, seat, plan, draft>>

-----------------------------------------------------------------------------
(* Reservations.  A row that a customer makes takes the canonical key of    *)
(* its slot, active_slot_key, which is unique; a key of 0 meets no other: it *)
(* is NULL, or `slot|admin|id` of a row put where another is.               *)

\* Mutant of KeyFree: only the reservations of the web count.
KeyFreeOfWeb(r, s) == \A t \in Web \ {r} : seat[t].key # s
KeyFree(r, s) == \A t \in Seats \ {r} : seat[t].key # s
NewSeat(s, key) == [status |-> "booked", slot |-> s, key |-> key, paid |-> FALSE]

\* A customer on the web, or a new booking of Naver.
WebBook(w) ==
  /\ seat[w].status = "none" /\ KeyFree(w, WebSlot[w])
  /\ seat' = [seat EXCEPT ![w] = NewSeat(WebSlot[w], WebSlot[w])]
  /\ UNCHANGED <<visit, hold, game, plan, req, draft>>

\* selectKioskReservation, flow RESERVATION.  A visit that was cancelled or
\* has expired gives the reservation back; any other keeps it.
SelectRead(v) == Session(v, OpenRow, [pc |-> "select"])
Linked(v, w) == {u \in Visits \ {v} : visit[u].seat = w}
SelectWrite(v, w) ==
  /\ req[v].pc = "select" /\ seat[w].status \notin {"none", "cancelled"}
  /\ \A u \in Linked(v, w) : visit[u].status \in {"CANCELLED", "EXPIRED"}
  /\ visit' = [u \in Visits |->
       CASE u = v -> [visit[v] EXCEPT !.flow = "RESERVATION", !.status = "HOLD", !.seat = w]
         [] u \in Linked(v, w) -> [visit[u] EXCEPT !.seat = None]
         [] OTHER -> visit[u]]
  /\ Over(v)
  /\ UNCHANGED <<hold, game, seat, plan, draft>>

-----------------------------------------------------------------------------
(* Checkout: startKioskCheckout and createReservationsForVisit.            *)

HeldGames(v) == {n \in Games : game[v][n].status = "HOLD"}
ToReserve(v) ==
  IF HeldGames(v) = {} THEN {[n |-> 1, slot |-> hold[v]]}
  ELSE {[n |-> n, slot |-> game[v][n].slot] : n \in HeldGames(v)}

CheckoutRead(v) ==
  Session(v, LAMBDA row : row.status \in Open \cup {"PAYMENT_PENDING"},
             [pc |-> "seats", seat |-> visit[v].seat])
\* A visit that has its reservation goes straight on to the plan.
KeepSeat(v) ==
  /\ req[v].pc = "seats" /\ req[v].seat # None
  /\ req' = [req EXCEPT ![v] = [pc |-> "pending", seats |-> {@.seat}]]
  /\ UNCHANGED <<visit, hold, game, seat, plan, draft>>
\* Else its hold must still be valid.  The games it holds are read with it.
CheckHold(v) ==
  /\ req[v].pc = "seats" /\ req[v].seat = None /\ hold[v] # 0
  /\ req' = [req EXCEPT ![v] = [pc |-> "reserve", todo |-> ToReserve(v), seats |-> {}]]
  /\ UNCHANGED <<visit, hold, game, seat, plan, draft>>

\* createWebReservation under the key of the game, then the game's own row.
Reserve(v) ==
  /\ req[v].pc = "reserve" /\ req[v].todo # {}
  /\ LET next == CHOOSE t \in req[v].todo : \A u \in req[v].todo : t.n <= u.n
         mine == <<v, next.n>>
     IN  /\ seat[mine].status = "none" => KeyFree(mine, next.slot)
         /\ seat' = IF seat[mine].status # "none" THEN seat
                    ELSE [seat EXCEPT ![mine] = NewSeat(next.slot, next.slot)]
         /\ game' = IF game[v][next.n].status = "NONE" THEN game
                    ELSE [game EXCEPT ![v][next.n] = [@ EXCEPT !.status = "RESERVED", !.keyed = FALSE]]
         /\ req' = [req EXCEPT ![v].todo = @ \ {next}, ![v].seats = @ \cup {mine}]
  /\ UNCHANGED <<visit, hold, plan, draft>>
Primary(v) == CHOOSE s \in req[v].seats : \A t \in req[v].seats : s[2] <= t[2]
Convert(v) ==
  /\ req[v].pc = "reserve" /\ req[v].todo = {}
  /\ EndHold(v)
  /\ visit' = [visit EXCEPT ![v].seat = Primary(v)]
  /\ req' = [req EXCEPT ![v] = [pc |-> "pending", seats |-> @.seats]]
  /\ UNCHANGED <<game, seat, plan, draft>>
\* The visit is made PAYMENT_PENDING whatever it is by now.
Pending(v) ==
  /\ req[v].pc = "pending"
  /\ visit' = [visit EXCEPT ![v].status = "PAYMENT_PENDING"]
  /\ GoOn(v, "plan")
  /\ UNCHANGED <<hold, game, seat, plan, draft>>
\* preparePaymentPlan: a plan that was made is found again; a new one is for
\* rows that stand, and for several only if none is paid.
PlanAllowed(S) ==
  \A s \in S : seat[s].status # "cancelled" /\ (seat[s].paid => S = {s})
MakePlan(v) ==
  /\ req[v].pc = "plan"
  /\ plan[v].status = "none" => PlanAllowed(req[v].seats)
  /\ plan' = IF plan[v].status # "none" THEN plan
             ELSE [plan EXCEPT ![v] = [status |-> "pending", seats |-> req[v].seats]]
  /\ GoOn(v, "pay")
  /\ UNCHANGED <<visit, hold, game, seat, draft>>

\* The card is sent to the terminal, or the plan was already paid.
PayCard(v) ==
  /\ req[v].pc = "pay" /\ plan[v].status = "pending"
  /\ plan' = [plan EXCEPT ![v].status = "processing"]
  /\ Over(v)
  /\ UNCHANGED <<visit, hold, game, seat, draft>>
CardResult(v, approved) ==
  /\ plan[v].status = "processing"
  /\ plan' = [plan EXCEPT ![v].status = IF approved THEN "paid" ELSE "pending"]
  /\ seat' = IF approved THEN [s \in Seats |-> IF s \in plan[v].seats THEN [seat[s] EXCEPT !.paid = TRUE] ELSE seat[s]]
             ELSE seat
  /\ UNCHANGED <<visit, hold, game, req, draft>>

\* waitKioskPayment, and the end of startKioskCheckout, for a paid plan.
WaitRead(v) == Session(v, LAMBDA row : row.status = "PAYMENT_PENDING" /\ row.seat # None,
                          [pc |-> "wait", seat |-> visit[v].seat])
MarkPaid(v) ==
  /\ req[v].pc \in {"wait", "pay"} /\ plan[v].status = "paid"
  /\ visit' = [visit EXCEPT ![v].status = "PREPARING"]
  /\ seat' = [s \in Seats |-> IF s = visit[v].seat /\ seat[s].status = "booked"
                              THEN [seat[s] EXCEPT !.status = "arrived"] ELSE seat[s]]
  /\ game' = [game EXCEPT ![v] = [n \in Games |->
                IF @[n].status # "RESERVED" THEN @[n]
                ELSE [@[n] EXCEPT !.status = IF <<v, n>> = visit[v].seat THEN "PREPARING" ELSE "PAID_WAITING"]]]
  /\ Over(v)
  /\ UNCHANGED <<hold, plan, draft>>

-----------------------------------------------------------------------------
(* The customer cancels before the card is sent: cancelKioskCheckout.      *)

SeatsOf(v) == {s \in {visit[v].seat} \cup {<<v, n>> : n \in {m \in Games : game[v][m].status = "RESERVED"}} : s # None}
CancelRead(v) ==
  Session(v, LAMBDA row : /\ row.status = "PAYMENT_PENDING" /\ row.flow = "WALK_IN" /\ row.seat # None
                          /\ \A n \in Games : game[v][n].status \in {"NONE", "HOLD", "RESERVED"}
                          /\ \A s \in SeatsOf(v) : seat[s].status = "booked" /\ ~seat[s].paid,
             [pc |-> "cancelPlan"])
NotStarted(v) == plan[v].status \in {"none", "pending"}
CancelPlan(v) ==                                   \* cancelUnstartedKioskPaymentPlan
  /\ req[v].pc = "cancelPlan" /\ NotStarted(v) /\ visit[v].status = "PAYMENT_PENDING"
  /\ plan[v].status = "pending" => plan[v].seats = SeatsOf(v)
  /\ plan' = [plan EXCEPT ![v] = NoPlan]
  /\ GoOn(v, "cancelRows")
  /\ UNCHANGED <<visit, hold, game, seat, draft>>
CancelRows(v) ==
  /\ req[v].pc = "cancelRows"
  /\ LET mine == SeatsOf(v)
         cancelled == {s \in mine : seat[s].status = "booked" /\ ~seat[s].paid}
     IN  /\ seat' = [s \in Seats |-> IF s \in cancelled
                                     THEN [seat[s] EXCEPT !.status = "cancelled", !.key = 0] ELSE seat[s]]
         /\ visit' = IF visit[v].status = "PAYMENT_PENDING" /\ \A s \in mine : seat'[s].status = "cancelled"
                     THEN [visit EXCEPT ![v].status = "CANCELLED", ![v].seat = None] ELSE visit
  /\ EndHold(v) /\ EndGames(v, {"HOLD", "RESERVED"})
  /\ Over(v)
  /\ UNCHANGED <<plan, draft>>

-----------------------------------------------------------------------------
(* The operator.                                                           *)

Terminate(v) ==
  /\ visit[v].status \notin {"NONE", "CANCELLED", "EXPIRED", "ABANDONED"}
  /\ EndHold(v)
  /\ visit' = [visit EXCEPT ![v].status = "ABANDONED"]
  /\ UNCHANGED <<game, seat, plan, req, draft>>
ReleaseHold(v) ==                                  \* forceReleaseKioskHold
  /\ hold[v] # 0 /\ EndHold(v)
  /\ visit' = [visit EXCEPT ![v].status = IF @ = "HOLD" THEN "CANCELLED" ELSE @]
  /\ UNCHANGED <<game, seat, plan, req, draft>>

-----------------------------------------------------------------------------
(* The staff's calendar: updateReservation and createAdminReservation, on    *)
(* any row, with one edit of a row under way at a time.  (Calendar has the   *)
(* rest of it: the imports, and the deletion of rows that are closed.)       *)

\* The changes of status are one guarded write each; an edit has three steps.
StaffSets(s, from, to) ==
  /\ seat[s].status \in from
  /\ seat' = [seat EXCEPT ![s].status = to, ![s].key = IF to \in Closed THEN 0 ELSE @]
  /\ edited' = edited \cup {s}
  /\ UNCHANGED desk
StaffArrives(s) == StaffSets(s, {"booked"}, "arrived")
StaffUndoes(s) == StaffSets(s, {"arrived"}, "booked")
StaffCompletes(s) == StaffSets(s, Booked \cup {"completed"}, "completed")  \* so do reports of the room
StaffCancels(s) == StaffSets(s, Booked \cup {"cancelled"}, "cancelled")
\* The payment that the staff notes on a row.
StaffSettles(s) ==
  /\ seat[s].status # "none"
  /\ seat' = [seat EXCEPT ![s].paid = TRUE]
  /\ edited' = edited \cup {s}
  /\ UNCHANGED desk

\* The row is read, or a new one is asked for; slot 0 is on another day.
EditAsk(s, op, to) ==
  /\ desk[s] = Idle
  /\ IF seat[s].status = "none" THEN s \in Web /\ op = "create" ELSE op # "create"
  /\ desk' = [desk EXCEPT ![s] = [pc |-> "look", op |-> op, to |-> to, key |-> 0,
                                  closed |-> seat[s].status \in Closed]]
  /\ UNCHANGED <<seat, edited>>
\* adminActiveSlotKey: the canonical key only if no other live row is there.
AdminKey(s, to) == IF \E t \in Seats \ {s} : seat[t].status \in Booked /\ seat[t].slot = to THEN 0 ELSE to
EditLook(s) ==
  /\ desk[s].pc = "look"
  /\ desk' = [desk EXCEPT ![s].pc = "write",
                          ![s].key = IF desk[s].closed THEN 0 ELSE AdminKey(s, desk[s].to)]
  /\ UNCHANGED <<seat, edited>>
EditStands(op, status) ==
  CASE op = "create" -> status = "none"
    [] op = "assign" -> TRUE
    [] op = "move" -> status \notin Closed
    [] op = "details" -> status # "cancelled"
EditWrite(s) ==
  /\ desk[s].pc = "write"
  /\ desk' = [desk EXCEPT ![s] = Idle]
  /\ IF EditStands(desk[s].op, seat[s].status)
     THEN /\ desk[s].key # 0 => KeyFree(s, desk[s].key)
          /\ seat' = [seat EXCEPT ![s] = IF desk[s].op = "create" THEN NewSeat(desk[s].to, desk[s].key)
                                         ELSE [@ EXCEPT !.slot = desk[s].to, !.key = desk[s].key]]
          /\ edited' = edited \cup {s}
     ELSE UNCHANGED <<seat, edited>>
EditDropped(s) ==
  /\ desk[s] # Idle
  /\ desk' = [desk EXCEPT ![s] = Idle]
  /\ UNCHANGED <<seat, edited>>

Edits == {"create", "assign", "move", "details"}
Desk(s) ==
  /\ \/ StaffArrives(s) \/ StaffUndoes(s) \/ StaffCompletes(s) \/ StaffCancels(s) \/ StaffSettles(s)
     \/ EditLook(s) \/ EditWrite(s) \/ EditDropped(s)
     \/ \E op \in Edits, to \in Slots \cup {0} : EditAsk(s, op, to)
  /\ UNCHANGED <<visit, hold, game, plan, req, draft>>

-----------------------------------------------------------------------------
Clock == \E v \in Visits : HoldExpires(v) \/ VisitExpires(v) \/ \E n \in Games : GameExpires(v, n)
Customer(v) ==
  \/ \E p \in Parties[v] : Create(v, p) \/ DraftRead(v, p)
  \/ DraftWrite(v) \/ ResetRead(v) \/ ResetWrite(v)
  \/ HoldWrite(v) \/ \E s \in Slots : HoldRead(v, s)
  \/ AssignCheck(v) \/ AssignWrite(v) \/ AppendWrite(v)
  \/ \E append \in BOOLEAN : AssignRead(v, append)
  \/ SelectRead(v) \/ \E w \in Web : SelectWrite(v, w)
  \/ CheckoutRead(v) \/ KeepSeat(v) \/ CheckHold(v) \/ Reserve(v) \/ Convert(v)
  \/ Pending(v) \/ MakePlan(v) \/ PayCard(v) \/ WaitRead(v) \/ MarkPaid(v)
  \/ CancelRead(v) \/ CancelPlan(v) \/ CancelRows(v)
Others ==
  \/ \E v \in Visits : Terminate(v) \/ ReleaseHold(v) \/ Dropped(v)
                       \/ \E approved \in BOOLEAN : CardResult(v, approved)
  \/ \E w \in Web : WebBook(w)

\* What is not the calendar's leaves its edits alone.
Kiosks == (Clock \/ Others \/ \E v \in Visits : Customer(v)) /\ UNCHANGED <<desk, edited>>
BookingNext == Kiosks \/ \E s \in Seats : Desk(s)
BookingSpec == BookingInit /\ [][BookingNext]_bvars

-----------------------------------------------------------------------------
VisitRow == [status : {"NONE", "DRAFT", "HOLD", "PAYMENT_PENDING", "PREPARING",
                       "CANCELLED", "EXPIRED", "ABANDONED"},
             flow : {"WALK_IN", "RESERVATION"}, party : Nat, rev : Nat, seat : Seats \cup {None}]
GameRow == [status : {"NONE", "HOLD", "ENDED", "RESERVED", "PREPARING", "PAID_WAITING"},
            slot : Slots \cup {0}, keyed : BOOLEAN, party : Nat, base : Nat]
SeatRow == [status : {"none"} \cup Booked \cup Closed, slot : Slots \cup {0}, key : Slots \cup {0}, paid : BOOLEAN]
Request ==
  [pc : {"idle", "reset", "select", "cancelPlan", "cancelRows"}]
    \cup [pc : {"holdWrite"}, slot : Slots]
    \cup [pc : {"assignCheck", "appendCheck", "assignWrite", "appendWrite"}, rev : Nat, party : Nat, slot : Slots]
    \cup [pc : {"seats", "wait"}, seat : Seats \cup {None}]
    \cup [pc : {"reserve"}, todo : SUBSET [n : Games, slot : Slots], seats : SUBSET Seats]
    \cup [pc : {"pending", "plan", "pay"}, seats : SUBSET Seats]
DraftRequest == {Idle} \cup [pc : {"write"}, party : Nat, rev : Nat]
DeskRequest ==
  {Idle} \cup [pc : {"look", "write"}, op : Edits, to : Slots \cup {0},
               key : Slots \cup {0}, closed : BOOLEAN]

VisitsOK == visit \in [Visits -> VisitRow] /\ \A v \in Visits : visit[v].rev <= MaxRev[v]
HoldsOK == hold \in [Visits -> Slots \cup {0}]
GameFits(g) == (g.keyed => g.status = "HOLD") /\ (g.status = "HOLD" => g.slot # 0)
GamesOK == game \in [Visits -> [Games -> GameRow]] /\ \A v \in Visits, n \in Games : GameFits(game[v][n])
SeatsOK == seat \in [Seats -> SeatRow]
PlansOK == plan \in [Visits -> [status : {"none", "pending", "processing", "paid"}, seats : SUBSET Seats]]
RequestsOK == req \in [Visits -> Request]
DraftsOK == draft \in [Visits -> DraftRequest] /\ \A v \in Visits : draft[v] # Idle => draft[v].rev <= MaxRev[v]
DeskOK == desk \in [Seats -> DeskRequest] /\ edited \subseteq Seats
\* The rows hold values the schema and the handlers allow, and a request what
\* its handler has read.
BookingTypeOK == VisitsOK /\ HoldsOK /\ GamesOK /\ SeatsOK /\ PlansOK /\ RequestsOK /\ DraftsOK /\ DeskOK

\* What a customer has paid for, or is paying for, at a kiosk stands in the
\* calendar, in a slot no other customer has: whoever else books, holds, cancels,
\* expires or is terminated meanwhile, no row is cancelled behind the payment or
\* sold twice.  Only the staff's calendar can do that, which asks for no payment
\* (db/reservations.ts:793-894): it cancels, completes or moves a row of the
\* visit, or puts another row over it.
Untouched(v) == \A n \in Games : <<v, n>> \notin edited
PaidHasSeat ==
  \A v \in Visits : plan[v].status \in {"processing", "paid"} /\ Untouched(v) =>
    \A s \in plan[v].seats \ Web :
      /\ seat[s].status \in Booked
      /\ \A t \in Seats \ ({s} \cup edited) : seat[t].status \in Booked => seat[t].slot # seat[s].slot

\* A game is priced for the party it is booked for, although the draft of the
\* party is saved next to the request that assigns the game.
PricedForParty ==
  \A v \in Visits, n \in Games : game[v][n].status # "NONE" => game[v][n].base = game[v][n].party
=============================================================================
