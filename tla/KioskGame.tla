----------------------------- MODULE KioskGame -----------------------------
(***************************************************************************)
(* A kiosk visit from its payment to the end of its last game, in one room *)
(* (db/customer-flow.ts, app/api/agent/ack and sync, auto-complete.ts).    *)
(* The status of a visit is written by the customer's screen, by the       *)
(* staff, by the ACK of a command to the Legacy Manager and by the reports *)
(* of the room.  Most handlers read the visit, do something that takes     *)
(* time, and then write the row whatever it is by then.                    *)
(*                                                                         *)
(* The payment is its outcome only (CloudPayments has the rest), and the   *)
(* command queue is the one command a room may have (ControlQueue).        *)
(***************************************************************************)
EXTENDS Integers, FiniteSets, FiniteSetsExt

CONSTANTS
  Guests,
  Paid,       \* games of each visit, 0 for one that came with a reservation
  MaxCmds,    \* commands queued in a behaviour (a bound)
  MaxTurns,   \* games the room starts in a behaviour (a bound)
  Nobody

ASSUME GameConstants ==
  Paid \in [Guests -> Nat] /\ {"staff", "bridge"} \cap Guests = {} /\ Nobody \notin Guests

Rounds == {1} \cup UNION {1..Paid[v] : v \in Guests}

VARIABLES
  trip,       \* customer_visits: the status, and which game the row points to
  round,      \* customer_visit_games
  row,        \* reservations: the one of each game
  bill,       \* the payment of the visit
  alloc,      \* customer_stamp_allocations: one for each game
  ledger,     \* EARN rows of stamp_ledger: their reference key and reservation
  cmd,        \* the live command of the room
  stopped,    \* a stop was completed less than two minutes ago
  real,       \* the room: its game, and the team its window shows
  seen,       \* rooms.status
  ask,        \* requests in the server: one of each screen, of the staff, of the bridge
  over,       \* history: visits that staff sent on from STAFF_REVIEW unpaid
  spent       \* the bounds used up

gvars == <<trip, round, row, bill, alloc, ledger, cmd, stopped, real, seen, ask, over, spent>>
tables == <<round, row, alloc, ledger>>
outside == <<cmd, stopped, real, seen, spent>>

NoAsk == [pc |-> "idle"]
NoCmd == [status |-> "none"]
Paying == {"PAYMENT_PENDING", "WAITING_STAFF_CONFIRMATION"}
OnTheWay == {"PREPARING", "READY_TO_PLAY", "PLAYING"}

GameInit ==
  /\ trip = [v \in Guests |-> [status |-> "PAYMENT_PENDING", cur |-> 1]]
  /\ round = [v \in Guests |-> [n \in Rounds |-> IF n <= Paid[v] THEN "RESERVED" ELSE "NONE"]]
  /\ row = [v \in Guests |-> [n \in Rounds |-> IF n = 1 \/ n <= Paid[v] THEN "booked" ELSE "none"]]
  /\ bill = [v \in Guests |-> "pending"]
  /\ alloc = [v \in Guests |-> [n \in Rounds |-> "PENDING"]]
  /\ ledger = {}
  /\ cmd = NoCmd
  /\ stopped = FALSE
  /\ real = [status |-> "waiting", team |-> Nobody]
  /\ seen = "waiting"
  /\ ask = [a \in Guests \cup {"staff", "bridge"} |-> NoAsk]
  /\ over = {}
  /\ spent = [cmds |-> 0, turns |-> 0]

SetStatus(v, status) == trip' = [trip EXCEPT ![v].status = status]
Moves(a, pc) == ask' = [ask EXCEPT ![a].pc = pc]
Answered(a) == ask' = [ask EXCEPT ![a] = NoAsk]

\* A request reads the visit, and is kept with the game the row points to.
Reads(a, v, states, pc) ==
  /\ ask[a] = NoAsk /\ trip[v].status \in states
  /\ ask' = [ask EXCEPT ![a] = [pc |-> pc, v |-> v, n |-> trip[v].cur]]
  /\ UNCHANGED <<trip, tables, bill, outside, over>>

\* A refused or a dropped request does nothing more.
Lost(a) ==
  /\ ask[a] # NoAsk /\ Answered(a)
  /\ UNCHANGED <<trip, tables, bill, outside, over>>

-----------------------------------------------------------------------------
(* The payment.                                                            *)

CardRead(v) == bill[v] = "pending" /\ Reads(v, v, Paying, "card")   \* processKioskPayment
CardWrite(v) ==
  /\ ask[v].pc = "card"
  /\ SetStatus(v, "PAYMENT_PENDING") /\ Answered(v)
  /\ bill' = [bill EXCEPT ![v] = IF @ = "pending" THEN "processing" ELSE @]
  /\ UNCHANGED <<tables, outside, over>>
CardAnswer(v, result) ==
  /\ bill[v] = "processing"
  /\ bill' = [bill EXCEPT ![v] = result]
  /\ UNCHANGED <<trip, tables, outside, ask, over>>
\* The payment screens of the staff: an UNKNOWN is reconciled, a row is booked.
Settle(v) ==
  /\ bill[v] \in {"unknown", "pending"}
  /\ bill' = [bill EXCEPT ![v] = "paid"]
  /\ UNCHANGED <<trip, tables, outside, ask, over>>

\* markVisitWaitingForStaff: one statement, for cash and bank transfer.
WaitForStaff(v) ==
  /\ trip[v].status \in Paying /\ bill[v] = "pending"
  /\ SetStatus(v, "WAITING_STAFF_CONFIRMATION")
  /\ UNCHANGED <<tables, bill, outside, ask, over>>

MarkAfterPayment(v, n) ==
  /\ SetStatus(v, "PREPARING")
  /\ row' = [row EXCEPT ![v][n] = IF @ = "booked" THEN "arrived" ELSE @]
  /\ round' = [round EXCEPT ![v] = [m \in Rounds |->
                IF @[m] # "RESERVED" THEN @[m] ELSE IF m = n THEN "PREPARING" ELSE "PAID_WAITING"]]
  /\ UNCHANGED <<alloc, ledger>>

WaitAsk(v) == Reads(v, v, Paying, "wait")                          \* waitKioskPayment

\* Mutant of WaitPaid: any result of the card ends the wait.
WaitPaidChanged(v) ==
  /\ ask[v].pc = "wait" /\ bill[v] \notin {"pending", "processing"}
  /\ MarkAfterPayment(v, ask[v].n) /\ Answered(v)
  /\ UNCHANGED <<bill, outside, over>>
WaitPaid(v) ==
  /\ ask[v].pc = "wait" /\ bill[v] = "paid"
  /\ MarkAfterPayment(v, ask[v].n) /\ Answered(v)
  /\ UNCHANGED <<bill, outside, over>>
WaitUnknown(v) ==
  /\ ask[v].pc = "wait" /\ bill[v] = "unknown"
  /\ SetStatus(v, "STAFF_REVIEW") /\ Answered(v)
  /\ UNCHANGED <<tables, bill, outside, over>>

-----------------------------------------------------------------------------
(* The staff.                                                              *)

Staff(pc) == ask["staff"].pc = pc
Asked == ask["staff"].v

ReviewRead(v) == Reads("staff", v, {"WAITING_STAFF_CONFIRMATION"}, "review")
ReviewWrite ==
  /\ Staff("review") /\ SetStatus(Asked, "STAFF_REVIEW") /\ Answered("staff")
  /\ UNCHANGED <<tables, bill, outside, over>>

ConfirmRead(v) ==                                          \* confirmKioskManualPayment
  bill[v] = "pending" /\ Reads("staff", v, {"WAITING_STAFF_CONFIRMATION"}, "confirm")
ConfirmBook ==
  /\ Staff("confirm") /\ bill[Asked] = "pending"
  /\ bill' = [bill EXCEPT ![Asked] = "paid"]
  /\ Moves("staff", "confirmed")
  /\ UNCHANGED <<trip, tables, outside, over>>
ConfirmMark ==
  /\ Staff("confirmed") /\ MarkAfterPayment(Asked, ask["staff"].n) /\ Answered("staff")
  /\ UNCHANGED <<bill, outside, over>>

\* queueVisitCommand: a room takes one live command.
Queue(v, act) ==
  /\ cmd = NoCmd /\ spent.cmds < MaxCmds
  /\ cmd' = [status |-> "pending", act |-> act, v |-> v]
  /\ spent' = [spent EXCEPT !.cmds = @ + 1]
  /\ UNCHANGED <<stopped, real, seen>>

PrepareRead(v) == Reads("staff", v, {"PREPARING"}, "prepare")       \* markKioskVisitReady
PrepareQueue ==
  /\ Staff("prepare") /\ Queue(Asked, "set_info") /\ Answered("staff")
  /\ UNCHANGED <<trip, tables, bill, over>>

Reenterable == {"PREPARING", "READY_TO_PLAY", "START_FAILED", "STAFF_REVIEW"}
ReinputRead(v) == Reads("staff", v, Reenterable, "reinput")         \* reinputKioskVisitInfo
ReinputQueue ==
  /\ Staff("reinput") /\ Queue(Asked, "set_info") /\ Moves("staff", "reentered")
  /\ UNCHANGED <<trip, tables, bill, over>>
ReinputWrite ==
  /\ Staff("reentered") /\ SetStatus(Asked, "PREPARING") /\ Answered("staff")
  /\ over' = IF bill[Asked] = "paid" THEN over ELSE over \cup {Asked}
  /\ UNCHANGED <<tables, bill, outside>>

StopRead(v) == seen = "running" /\ Reads("staff", v, {"PLAYING"}, "stop")
StopQueue ==
  /\ Staff("stop") /\ Queue(Asked, "stop") /\ Answered("staff")
  /\ UNCHANGED <<trip, tables, bill, over>>

Terminable == Paying \cup Reenterable                  \* evaluateKioskVisitCleanup
TerminateRead(v) == Reads("staff", v, Terminable, "terminate")
TerminateWrite ==
  /\ Staff("terminate") /\ SetStatus(Asked, "ABANDONED") /\ Answered("staff")
  /\ cmd' = IF cmd # NoCmd /\ cmd.status = "pending" /\ cmd.v = Asked THEN NoCmd ELSE cmd
  /\ UNCHANGED <<tables, bill, stopped, real, seen, spent, over>>

\* startKioskGame and startKioskGameFromDevice (canCustomerStart).
StartRead(v) == seen = "waiting" /\ Reads(v, v, {"READY_TO_PLAY"}, "start")
StartQueue(v) ==
  /\ ask[v].pc = "start" /\ Queue(v, "start") /\ Answered(v)
  /\ UNCHANGED <<trip, tables, bill, over>>

-----------------------------------------------------------------------------
(* The room and its command.                                               *)

Turn(status) == real' = [real EXCEPT !.status = status]

Run(ok) ==
  /\ cmd # NoCmd /\ cmd.status = "pending"
  /\ cmd' = [status |-> "run", act |-> cmd.act, v |-> cmd.v, ok |-> ok]
  /\ CASE ~ok -> UNCHANGED <<real, spent>>
       [] ok /\ cmd.act = "set_info" -> real' = [real EXCEPT !.team = cmd.v] /\ UNCHANGED spent
       [] ok /\ cmd.act = "stop" -> Turn("waiting") /\ UNCHANGED spent
       [] OTHER -> /\ Turn("running") /\ spent.turns < MaxTurns
                   /\ spent' = [spent EXCEPT !.turns = @ + 1]
  /\ UNCHANGED <<trip, tables, bill, stopped, seen, ask, over>>
\* It expires or times out: nobody tells the visit, and a late ACK is a conflict.
CommandEnds ==
  /\ cmd # NoCmd /\ cmd' = NoCmd
  /\ UNCHANGED <<trip, tables, bill, stopped, real, seen, ask, over, spent>>
StartByHand ==
  /\ real.status = "waiting" /\ spent.turns < MaxTurns
  /\ Turn("running") /\ spent' = [spent EXCEPT !.turns = @ + 1]
  /\ UNCHANGED <<trip, tables, bill, cmd, stopped, seen, ask, over>>
GameEnds ==
  /\ real.status = "running" /\ Turn("waiting")
  /\ UNCHANGED <<trip, tables, bill, cmd, stopped, seen, ask, over, spent>>
StopForgotten ==
  /\ stopped /\ stopped' = FALSE
  /\ UNCHANGED <<trip, tables, bill, cmd, real, seen, ask, over, spent>>

-----------------------------------------------------------------------------
(* What the bridge tells: the ACK, and the room as it was when the message *)
(* was built.                                                              *)

Bridge == ask["bridge"]

AckArrives ==
  /\ Bridge = NoAsk /\ cmd # NoCmd /\ cmd.status = "run"
  /\ ask' = [ask EXCEPT !["bridge"] = [pc |-> "result", act |-> cmd.act, v |-> cmd.v, ok |-> cmd.ok,
                                    next |-> real.status, team |-> real.team]]
  /\ cmd' = NoCmd
  /\ stopped' = (stopped \/ (cmd.ok /\ cmd.act = "stop"))
  /\ UNCHANGED <<trip, tables, bill, real, seen, over, spent>>

AckResult ==                                               \* syncKioskCommandResult
  /\ Bridge.pc = "result"
  /\ LET a == Bridge
         at(states, status) == trip' = IF trip[a.v].status \in states
                                        THEN [trip EXCEPT ![a.v].status = status] ELSE trip
         n == trip[a.v].cur
     IN  /\ CASE a.ok /\ a.act = "set_info" -> at({"PREPARING"}, "READY_TO_PLAY")
              [] ~a.ok /\ a.act = "stop" -> at({"PLAYING"}, "STAFF_REVIEW")
              [] ~a.ok /\ a.act # "stop" -> at({"PREPARING", "READY_TO_PLAY"}, "START_FAILED")
              [] OTHER -> UNCHANGED trip
         /\ round' = IF a.ok /\ a.act = "set_info" /\ round[a.v][n] # "NONE"
                    THEN [round EXCEPT ![a.v][n] = "READY_TO_PLAY"] ELSE round
  /\ Moves("bridge", "report")
  /\ UNCHANGED <<row, alloc, ledger, bill, outside, over>>

SyncSent ==
  /\ Bridge = NoAsk
  /\ ask' = [ask EXCEPT !["bridge"] = [pc |-> "report", next |-> real.status, team |-> real.team]]
  /\ UNCHANGED <<trip, tables, bill, outside, over>>

Report ==                                               \* upsertRoom
  /\ Bridge.pc = "report"
  /\ ask' = [ask EXCEPT !["bridge"] = [pc |-> "visit", prev |-> seen, next |-> @.next, team |-> @.team]]
  /\ seen' = Bridge.next
  /\ UNCHANGED <<trip, tables, bill, cmd, stopped, real, spent, over>>

\* syncKioskRoomTransition, first half: any running report.
Plays(v) ==
  /\ Bridge.pc = "visit" /\ Bridge.next = "running"
  /\ trip[v].status = "READY_TO_PLAY"                     \* the one touched last
  /\ SetStatus(v, "PLAYING")
  /\ round' = [round EXCEPT ![v][trip[v].cur] = IF @ = "NONE" THEN @ ELSE "PLAYING"]
  /\ Moves("bridge", "seat")
  /\ UNCHANGED <<row, alloc, ledger, bill, outside, over>>

SeatKey(v, n) == <<"reservation", v, n>>

\* Mutant of StampKey: the visit books under the key of its allocation.
StampKeyAllocation(v, n) == <<"allocation", v, n>>
StampKey(v, n) == SeatKey(v, n)
Earn(v, n) == {[key |-> StampKey(v, n), seat |-> <<v, n>>]}

\* Mutant of NextGames: one game is left out.
NextGamesLater(v, n) == {m \in Rounds : m > n + 1 /\ round[v][m] = "PAID_WAITING"}
NextGames(v, n) == {m \in Rounds : m > n /\ round[v][m] = "PAID_WAITING"}

\* Second half: the running game has ended, by itself or by a stop.
Ends(v) ==
  /\ Bridge.pc = "visit" /\ Bridge.prev = "running" /\ Bridge.next # "running"
  /\ trip[v].status = "PLAYING"
  /\ LET n == trip[v].cur
         end == IF stopped THEN "ABORTED" ELSE "COMPLETED"
         more == IF ~stopped /\ round[v][n] # "NONE"
                 THEN NextGames(v, n) ELSE {}
         gone == [m \in Rounds |-> IF m = n /\ round[v][n] # "NONE" THEN end ELSE round[v][m]]
     IN  /\ IF more = {}
            THEN /\ SetStatus(v, end)
                 /\ round' = [round EXCEPT ![v] = gone]
                 /\ UNCHANGED row
            ELSE LET m == Min(more)
                 IN  /\ trip' = [trip EXCEPT ![v] = [status |-> "PREPARING", cur |-> m]]
                     /\ round' = [round EXCEPT ![v] = [gone EXCEPT ![m] = "PREPARING"]]
                     /\ row' = [row EXCEPT ![v][m] = IF @ = "booked" THEN "arrived" ELSE @]
         /\ IF ~stopped /\ alloc[v][n] = "PENDING"
            THEN /\ alloc' = [alloc EXCEPT ![v][n] = "EARNED"]
                 /\ ledger' = ledger \cup Earn(v, n)
            ELSE UNCHANGED <<alloc, ledger>>
  /\ Moves("bridge", "seat")
  /\ UNCHANGED <<bill, outside, over>>

NoVisit ==
  /\ Bridge.pc = "visit"
  /\ \A v \in Guests : /\ Bridge.next = "running" => trip[v].status # "READY_TO_PLAY"
                       /\ Bridge.prev = "running" /\ Bridge.next # "running" => trip[v].status # "PLAYING"
  /\ Moves("bridge", "seat")
  /\ UNCHANGED <<trip, tables, bill, outside, over>>

\* autoCompleteStoppedRoom: of the team's arrived reservations the one
\* scheduled last; a kiosk walk-in earns its stamp only with its visit.
StoppedSeats ==
  IF Bridge.prev = "running" /\ Bridge.next = "waiting" /\ Bridge.team # Nobody
  THEN {n \in Rounds : row[Bridge.team][n] = "arrived"} ELSE {}
AutoComplete ==
  /\ Bridge.pc = "seat" /\ StoppedSeats # {}
  /\ LET v == Bridge.team
         n == Max(StoppedSeats)
     IN  /\ row' = [row EXCEPT ![v][n] = "completed"]
         /\ ledger' = IF Paid[v] > 0 THEN ledger
                      ELSE ledger \cup {[key |-> SeatKey(v, n), seat |-> <<v, n>>]}
  /\ Answered("bridge")
  /\ UNCHANGED <<trip, round, alloc, bill, outside, over>>
ReportDone ==
  /\ Bridge.pc = "seat" /\ StoppedSeats = {} /\ Answered("bridge")
  /\ UNCHANGED <<trip, tables, bill, outside, over>>

-----------------------------------------------------------------------------
Guest(v) ==
  \/ CardRead(v) \/ CardWrite(v) \/ WaitForStaff(v)
  \/ WaitAsk(v) \/ WaitPaid(v) \/ WaitUnknown(v) \/ StartRead(v) \/ StartQueue(v)
  \/ Settle(v) \/ \E result \in {"paid", "pending", "unknown"} : CardAnswer(v, result)
Operator ==
  \/ \E v \in Guests : \/ ReviewRead(v) \/ ConfirmRead(v) \/ PrepareRead(v)
                       \/ ReinputRead(v) \/ StopRead(v) \/ TerminateRead(v)
  \/ ReviewWrite \/ ConfirmBook \/ ConfirmMark \/ PrepareQueue \/ ReinputQueue
  \/ ReinputWrite \/ StopQueue \/ TerminateWrite
Room ==
  \/ \E ok \in BOOLEAN : Run(ok)
  \/ CommandEnds \/ StartByHand \/ GameEnds \/ StopForgotten
Server ==
  \/ AckArrives \/ AckResult \/ SyncSent
  \/ Report \/ NoVisit \/ AutoComplete \/ ReportDone
  \/ \E v \in Guests : Plays(v) \/ Ends(v)
  \/ \E a \in DOMAIN ask : Lost(a)

GameNext == Operator \/ Room \/ Server \/ \E v \in Guests : Guest(v)
GameSpec == GameInit /\ [][GameNext]_gvars

-----------------------------------------------------------------------------
Phases == {"waiting", "running"}
Teams == Guests \cup {Nobody}
Acts == {"set_info", "start", "stop"}
TripStates == Terminable \cup OnTheWay \cup {"COMPLETED", "ABORTED", "ABANDONED"}
RoundStates == OnTheWay \cup {"NONE", "RESERVED", "PAID_WAITING", "COMPLETED", "ABORTED"}
ScreenAsk == {NoAsk} \cup [pc : {"card", "wait", "start"}, v : Guests, n : Rounds]
StaffAsk ==
  {NoAsk} \cup [pc : {"review", "confirm", "confirmed", "prepare", "reinput", "reentered", "stop", "terminate"},
                v : Guests, n : Rounds]
BridgeAsk ==
  {NoAsk} \cup [pc : {"result", "report"}, act : Acts, v : Guests, ok : BOOLEAN, next : Phases, team : Teams]
    \cup [pc : {"report"}, next : Phases, team : Teams]
    \cup [pc : {"visit", "seat"}, prev : Phases, next : Phases, team : Teams]

TablesOK ==
  /\ trip \in [Guests -> [status : TripStates, cur : Rounds]]
  /\ round \in [Guests -> [Rounds -> RoundStates]]
  /\ row \in [Guests -> [Rounds -> {"none", "booked", "arrived", "completed"}]]
  /\ alloc \in [Guests -> [Rounds -> {"PENDING", "EARNED"}]]
  /\ bill \in [Guests -> {"pending", "processing", "paid", "unknown"}]
RoomOK ==
  /\ cmd \in {NoCmd} \cup [status : {"pending"}, act : Acts, v : Guests]
               \cup [status : {"run"}, act : Acts, v : Guests, ok : BOOLEAN]
  /\ real \in [status : Phases, team : Teams] /\ seen \in Phases /\ stopped \in BOOLEAN
AsksOK ==
  /\ ask \in [Guests \cup {"staff", "bridge"} -> ScreenAsk \cup StaffAsk \cup BridgeAsk]
  /\ \A v \in Guests : ask[v] \in ScreenAsk /\ (ask[v] # NoAsk => ask[v].v = v)
  /\ ask["staff"] \in StaffAsk /\ ask["bridge"] \in BridgeAsk
\* The rows hold the states the handlers know, and each request what it read.
GameTypeOK == TablesOK /\ RoomOK /\ AsksOK

\* A visit is prepared, started and played only when its payment is paid,
\* through late answers, two payment screens and commands in flight, unless
\* staff sent it on from the review of its payment.
PaidBeforePlay ==
  \A v \in Guests \ over : trip[v].status \in OnTheWay => bill[v] = "paid"
PlayIsPaid ==
  \A v \in Guests : trip[v].status \in OnTheWay => bill[v] = "paid"

\* A game earns stamps once, although the end of the visit and the end of
\* the reservation both book them, from reports that repeat.
StampsOnce == \A a, b \in ledger : a.seat = b.seat => a = b

\* The games of a visit are played in their order, and it is completed only
\* when none that it has paid for waits, whichever ACK or report comes late.
GamesInOrder ==
  \A v \in Guests, n \in Rounds :
    /\ n < trip[v].cur => round[v][n] = "COMPLETED"
    /\ n > trip[v].cur => round[v][n] \in {"NONE", "RESERVED", "PAID_WAITING"}
    /\ trip[v].status = "COMPLETED" => round[v][n] # "PAID_WAITING"
=============================================================================
