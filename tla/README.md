# Verification of the Jumping Battle store controller

TLA+ models of the program in `src/`, TLC configurations that check them on
small instances, and theorems that TLAPS proves for every instance. The project
covers the rules of the program: payments from the request of a screen to the
card terminal and back, on both ways to the terminal; the control commands of the
game rooms; kiosk visits from the first choice of a slot to the last game; the
calendar with its web form, staff and imports; the screen of the kiosk; the Naver collector with its stock;
passes, stamps and coupons; parking; add-on sales and the figures of a day; and
the notifications. Paths below are relative to `src/`.

## 1. The system

A store sells sessions in game rooms. Reservations and payments live in the
cloud (a Cloudflare worker with a D1 database); the game rooms and the card
terminal are reached by one Windows PC in the store, the Store Bridge.

    kiosk, admin, member screens --> app/api/* --> db/*.ts --> D1 tables
             |                                                   |  commands
             |          Store Bridge (bridge/*.py)  <-- claim ---+
             +-- direct -->|     |      |           --- ACK ---->+
              Legacy Manager   MPOS   parking site
    Naver collector (browser extension) --- import batches ---> app/api/import
             |  ^
             v  | stocks and bookings
          Naver site                         phones of the staff <-- push

D1 runs one statement, or one batch of statements, atomically. A request
handler is a sequence of such statements with `await` in between, and any
number of handlers run at once: everything they read may have changed when they
write. The bridge polls for commands, runs them, writes a journal
(`bridge-state.json`) and an SQLite transaction store, and acknowledges each
command until the cloud has answered. A screen in the store may also ask the
bridge for a card payment directly, with an intent that the cloud has signed; its
result reaches the cloud by the screen's request and by the bridge's outbox.

| Component | State | Operations | What is hard | What makes it correct |
|---|---|---|---|---|
| payment ledger, `db/payment-ledger.ts` | none: functions of the attempts | totals, status, lock of the amount | refunds, retries and unknown outcomes mixed | the status says what stands in the ledger |
| payment requests, `db/payments.ts` | `payments`, `payment_attempts`, `payment_allocations` | plan, process, start, retry, change method, cancel, cancel all, reconcile, complete, top up, link and unlink a slip, delete | two requests between each other's statements; deaths between statements; a party or a price that changes after the payment | one row at the terminal; settled rows final; unknown rows isolated; no overpayment; no charge forgotten |
| payment commands, `app/api/agent/*` | `commands` | claim, requeue, expire, finalize, apply | lost claims and ACKs, late ACKs, duplicates | a result is applied once, a charge is never forgotten, every row settles |
| bridge payment path, `bridge/jumping_bridge.py`, `payment_service.py`, `mpos_lan/*` | journal, ACK outbox, transaction store, device lock | run, replay, report, retry the ACK, restart | a crash around the charge; redelivery | a card is presented at most once; a charge is never denied; one refund for one approval |
| local payment transport, `db/payment-intents.ts`, `bridge/local_payment_server.py` | `payment_intents` and the bridge's local tables | intend, bind, release, run, upload, mark unknown | the result returns on two paths; screens that give up; expiry | an intent runs once, its result is booked, a part is paid once |
| kiosk visit, `db/customer-flow.ts` | sessions, drafts, holds, visits, games | hold, assign, reserve, check out, prepare, start, follow the room, stop | slots in three tables; late ACKs, reports and payments | a paid visit has its seat, at the price of its party; it plays what it paid, in order, once |
| game control, `db/control.ts`, `db/control-readiness.ts`, `app/api/commands` | `commands`, `room_control_runtime`, `agent_runtime` | check readiness, queue, claim, expire, time out, ACK, heartbeat | a check and an INSERT apart, ambiguous timeouts, late ACKs and reports | commands that are live share no room; a failed room is ready only after a success |
| bridge control path, `bridge/jumping_bridge.py` | journal, ACK outbox, control state, room errors, recovery | run, record, report, recover, restart | three threads over one state; restarts; failed saves | one command at the Legacy Manager at a time; what is shown as done was done; errors end |
| reservations and calendar, `db/reservations.ts` | `reservations` with their slot keys, events | book on the web, create, edit, move, cancel, delete, import, complete | handlers that write from stale reads, with one UNIQUE key between them | a slot is sold to one customer; what the store decided stays decided |
| member passes and coupons, `db/member-benefits.ts` | passes, credits, ledger, stamps, coupons | buy, use, restore, earn, redeem, expire, cancel | balance and entries in separate statements | the balance is what was bought less what was used; a coupon pays once |
| add-on sales, `db/add-on-sales.ts`, `app/add-on-allocation.ts` | orders and lines | sell alone, beside a game or a group, pay, cancel, delete | one payment for two things; shares that are rounded | the day counts each won once; an order is paid when its payment is |
| Legacy Manager automation, `ManagerUI` and `_execute` of `bridge/jumping_bridge.py` | the rooms last seen running, threads that press | write a room, start, stop, stop all, look | messages nobody acknowledges, staff at the same window, questions that name no room | what is reported as done is what the window shows |
| parking, `db/parking-registration.ts`, `bridge/parking_service.py` | registrations | request, claim, register, verify, acknowledge | an answer that is lost | a car is registered once, and what is shown as registered is |
| Naver collector, `naver-collector/sw.js`, `db/naver-stock.ts` | outbox, fingerprints, lease, owned slots | observe, post, close and open slots | a worker that stops anywhere; batches lost, refused, repeated | no change is forgotten; the calendar follows Naver, the stocks the calendar |
| notifications, `db/push-notifications.ts` | schedules, events, deliveries | schedule, claim, send, ask | wakeups at once; pushes that say nothing | a phone is told once, and the newest |
| the screen of the kiosk, `app/kiosk/KioskApp.tsx`, `party-persistence.ts` | the visit it shows, what it saves in the background | enter a party, assign, quote, check out, go home | saves behind the customer's back, answers to a visit that is over | a visit pays what its customer was shown, and sees nothing of another |
| member accounts, latency traces, remote console, other screens | sessions, traces | - | - | - |

## 2. Modules

| Module | Models | Uses |
|---|---|---|
| `PaymentLedger` | `db/payment-ledger.ts` and the row selectors of `db/payments.ts`, as operators on the table of attempts | - |
| `AttemptLifecycle` | the abstract specification: what an attempt promises the till | - |
| `CloudPayments` | tables, request handlers, command queue and ACK of the cloud | `PaymentLedger`, instance of `AttemptLifecycle` |
| `CloudPayments_proofs` | its inductive invariant and theorems | `CloudPayments` |
| `StoreBridge` | the bridge's payment loop, journal, outbox, transaction store, device lock, and the terminal | - |
| `StoreBridge_proofs` | its inductive invariant and theorems | `StoreBridge` |
| `PaymentSystem` | cloud and bridge joined, with message loss, crashes and expiry | `CloudPayments`, instance of `StoreBridge` |
| `PaymentSystem_proofs` | that it is a `CloudPayments`, its inductive invariant and theorems | `PaymentSystem`, `CloudPayments_proofs`, instance of `StoreBridge_proofs` |
| `LocalPayment` | direct payment: intents, screen, local server and its outbox, the way back | - |
| `TillCorrections` | top-ups, slips of the terminal, unlinking, refunds, deletion of a record | - |
| `AddOnSales` | sales and their payment plans, and the figures of the day | - |
| `ControlQueue` | tables, requests and maintenance of the control commands in the cloud | - |
| `ControlSystem` | the bridge's control loop, recovery and heartbeat, joined with the queue | `ControlQueue` |
| `ControlSystem_proofs` | the inductive invariant and the theorems about control | `ControlSystem` |
| `LocalPayment_proofs` | its inductive invariant and theorems | `LocalPayment` |
| `ManagerRooms` | the Manager's window, and how the bridge writes, starts and stops a room in it | - |
| `ManagerRooms_proofs` | its inductive invariant and theorem | `ManagerRooms` |
| `KioskScreen` | the screen of one kiosk, its background saves, and the handlers its requests reach | - |
| `KioskBooking` | a visit from its first choice to the payment, with rivals for the slots | - |
| `KioskGame` | paid visits, staff, commands, reports of the room, stamps | - |
| `Calendar` | reservations, slot keys, and everybody who writes them | - |
| `MemberPass`, `MemberCoupons` | passes and stamps; coupons | - |
| `Parking` | request, claim, the site, acknowledgement | - |
| `NaverDelivery` | the collector's run, its outbox, the import | - |
| `NaverStock` | closing and opening of slots at Naver | - |
| `PushDelivery` | schedules, events, phones | - |
| `Kiosk_proofs` | the inductive invariants and the theorems of the visits and of the kiosk's screen | `KioskBooking`, `KioskGame`, `KioskScreen` |
| `Desk_proofs` | the same for the calendar, parking, the notifications and the coupons | `Calendar`, `Parking`, `PushDelivery`, `MemberCoupons` |
| `MC_*` | values for TLC; a module whose name stands for several parts joins small systems that share nothing (`part` says which one a behaviour is of) | |

### How state and actions correspond to the code

**CloudPayments.** `payment`, `attempt` and `command` are the tables. A row id is
`payment_attempts.id`, which is also the transactionUuid of the command the row
dispatches, so `command[a]` is the status of the one command of row `a`. `active`
says that the row holds `active_key` (`MPOS:ACTIVE`), whose UNIQUE index is the
lock of the terminal. `req[w]` is the request worker `w` serves: the name of the
next statement (`pc`) and what the handler has read and still needs. One action
is one statement or batch, with the reads that directly precede it:

* plan (`preparePaymentPlan`): `PrepareRead`, `PrepareNumber`, `PrepareWrite`,
  `PrepareReadback`;
* run a row (`processPaymentTransaction`, `processPreparedPaymentTransaction`,
  `executePaymentAttempt`): `ProcessRead` or `StartPrepared`, `ExecuteCheck`,
  then `ExecuteCard` (one batch: row, terminal, command) or `ExecuteManual`;
* retry: `RetryRead`, `RetryNumber`, `RetryInsert`; change of method:
  `ChangeRead`, `ChangeWrite`;
* refund (`createCancellation`): `CancelRead`, `CancelCheck`, `CancelInsert`;
  full cancellation: `FullRead`, `FullFlag`, `Advance` (a turn of the loop),
  `FullFinish`;
* `reconcileUnknownPayment`: `ReconcileRead`, `ReconcileWrite`;
* `syncReservationPaymentSummary`: `SyncRead`, `SyncWrite`; the handler that
  calls it goes on at `next`;
* the bridge's side: `Claim`, `Requeue` (a claim older than 30 s), `Expire`
  (two minutes), `AckFinalize` (`finalizeCommandAck`), `AckRead`, `AckWrite`
  (`completePaymentCommand`), `AckResume`, `Respond`;
* `Abort`: the worker dies or D1 refuses a statement, before any step.

**StoreBridge.** `journal`, `result` and `outbox` are the fields of
`processedCommands` in `bridge-state.json`; `tx` and `lock` are the tables of the
transaction store; `task` is where the payment loop is and `wire` the ACK that
waits for its answer, both lost in a crash. `card` and `runs` are outside of the
program: what the issuer did, and how often the vendor module was called.

**PaymentSystem.** `Poll` is a claim and its delivery, `PollLost` a claim whose
answer is lost. `AckFirst`, `AckAgain`, `AckEnd` and `AckLost` are the ACK on the
wire: the first one that finds the command claimed goes on to apply the result,
every other is answered as a duplicate (200) or a conflict (409), and both
resolve the entry of the outbox. The requests of the screens and the queue act
as in `CloudPayments`; the result of an ACK is no longer free but the one in the
journal.

**LocalPayment.** `row` and `intent` are the cloud's tables, `screen` is what each
screen waits for, `flight` the requests on their way to the local server; `saved`,
`deal` and `posts` are the tables of the bridge (`local_payment_intents`,
`local_payment_transactions`, `cloud_sync_outbox`), `running` its lock, and `mpos` what
the transaction store knows. `Ask`, `Bind` and `ReleaseRead` with `Revoke` are
`db/payment-intents.ts`; `Prepare`, `Execute`, `Terminal`, `Present` and `Complete` are
`local_payment_server.py`, cut where the terminal works; `SyncRead` to `SyncDone` is the
result on its way to the cloud with the four statements that apply it there;
`UnknownRead` to `UnknownApply` is the screen that gives up. `CloudSend`, `Cash`,
`Again` and `Reconcile` are the other ways to settle the same part.

**TillCorrections.** `rows` is `payment_attempts` with every plan of the
reservation, `payment` its row of `payments`, `people` the party, which the calendar
may raise or lower (`Edit`) and a top-up raises itself. A top-up names the party its sender
was shown, marks its rows with its key (`note`), and a slip booked on such a row, or its
unlinking, writes over the mark. `joined`, `unmarked` and `lowered` are history. `till[t]` is what a request of a screen
has read and not yet written: `SlipRead` and then `SlipClaim`, `SlipAgain`,
`SlipAppend` or `SlipNew` (the four branches of `linkExternalApproval`), `TopUpRead` and
`TopUpWrite`, `UnlinkRead` and `UnlinkWrite`, `DeleteRead` and `DeleteWrite`, and
`ReadSummary` and `WriteSummary` after each.

**AddOnSales.** `order` is the sale, `payment` and `parts` its plan, `bill` what the
summary writes into the reservations of a game or a group. `Plan`, `Dispatch`,
`Answer`, `Settle`, `Refund`, `CancelPending` and `DeleteRecord` are the requests;
`Summarise` is the sync that every one of them ends with, with `AllocateAddOn` and
`ShareOf`, the rules that divide a payment by method and by game. The operators
from `Linked` to `DayTotal` are the figures of the day.

**ControlQueue.** `command` is the table of commands, in the order of
`created_at`; `room` is `room_control_runtime` (`cmd` is `current_command_id`,
`seen` is `state_seen_at`); `agent` is what `evaluateControlReadiness` makes of
`agent_runtime`. A request of a screen (`app/api/commands/route.ts`) is `Ask`, its
readiness check (`Ready`), and later `Insert` or `InsertRefused`, its INSERT with the
two triggers of `db/control.ts:202` and `:221`; `asking` is the request in between.
`queueVisitCommand` of the kiosk makes the same check and INSERT. `Claim` is
the poll of the fast lane, `Expire` and `TimeOut` the two batches of a sync,
`Acknowledge` is `finalizeCommandAck` with its three outcomes, and `Heartbeat`
the update of `agent_runtime` and `upsertRoomControlStates`.

**ControlSystem.** `journal` and `outbox` are `processed_commands` and the ACKs
pending in it; `task` is the control loop; `control` holds `_control_state`, the
active command and the count of recovery probes; `errors` and `okAt` are
`_room_control_errors` and `_room_control_last_success_at`; `probe` is
`_manager_probe_at`, whether the last refresh is too old, and how far the recovery
is; `beat` is the heartbeat on its way. The three threads are:

* the control loop: `Receive` (poll, record as executing, BUSY), `Execute` (under
  the lock of the Manager), `Save`, `AckServed` or `AckUnanswered`, and `Flush`
  of the outbox;
* `run_once`: `Refresh`, and the recovery in the order of its locks, `RecoverProbe`,
  `RecoverRead`, `RecoverRecord`, `RecoverSet`, or `RecoverRefused`;
* the heartbeat: `BeatSend` (the snapshot), then `BeatArrives` or `BeatLost`.

`did` is outside of the program: the commands that the Manager really did.
`AckLate` is an ACK that is served when its caller has given up.

**ManagerRooms.** `window` is the panel of each room with its game, `dialog` the one question
that a stop opens, `mail` the messages on their way to the Manager's broker, `plays` starts
that it has been asked for; `cache` is `state.rooms` and `job` the command at work. `ReadPanel`,
`Send`, `Verify` and, when the panel does not show the message, `ReadToType` to `Check` are
`set_room_info`; `PressPlay` and `Started` are `_start_room`; `Halt`, `Confirm` and `Wait` are
`_stop_room`, whose thread `press` presses (`StopPressed`) perhaps after its command has
failed; `BeginAllStop` and `NextRoom` are all_stop. `Hand*` are the staff at the window.

**KioskScreen.** One screen that opens one visit after the other; a generation (`gen`) tells
them apart, as `flowGenerationRef` does. `form` is what the customer entered and its
revision, `queue` and `drain` the draft that is saved in the background, `tasks` and `ticket`
the parties the coordinator of `party-persistence.ts` saves one after the other, `work` the
handler of the button that was pressed; `wire` has the requests with what the server has
read for them, `table` the visits of the server. A request is sent, served in its
statements, answered, and perhaps no longer awaited (an abort). What a checkout asks for is
taken when its button is pressed (`party`, `sum` and `due` of `work`), and sent when the party is
saved. `bills` is history: what was entered, shown and found when a checkout was served.

**KioskBooking.** `visit`, `hold`, `game` and `seat` are `customer_visits`,
`customer_room_holds`, `customer_visit_games` and `reservations`; the three tables
that take a slot have a UNIQUE key each and none between them. `req[v]` is the request
a screen waits for, cut where it awaits, `draft[v]` the form that is saved in the
background next to it. `Create` to `AppendWrite` choose slots, `CheckoutRead` to
`CardResult` are the checkout in its eight statements, `WaitRead` and `MarkPaid` the
result, `CancelRead` to `CancelRows` its cancellation; `HoldExpires`, `GameExpires` and
`VisitExpires` are the clock, `WebBook`, `Terminate` and `ReleaseHold` the others. The staff's
calendar (`Desk(s)`) changes any row: `StaffArrives`, `StaffUndoes`, `StaffCompletes`, `StaffCancels`
and `StaffSettles` in one guarded write, while an assignment, a move, an edit of the details or a
new booking reads (`EditAsk`), chooses a key (`EditLook`: the canonical one, or one of its own where
another live row is) and writes (`EditWrite`); `desk[s]` is that edit, `edited` the rows the
calendar made or changed (history). None of it asks for a payment or a visit, as in
`db/reservations.ts:774-945`.

**KioskGame.** `trip`, `round`, `row` and `bill` (the visit, its games, its reservation and its
plan) go on from there, `ask` is the request somebody waits for; `alloc` and `ledger`
book the stamps; `cmd` is the command of the room, `real` what the room does, `seen` what
the last report said. The customer's screen pays, waits and starts, staff review,
confirm, prepare, enter again, stop and terminate, the bridge's requests (`AckArrives`
with `AckResult`, `SyncSent` with `Report`, `Plays`, `Ends`, `AutoComplete`) move
visits, games and seats.

**Calendar.** `row` is `reservations` with `active_slot_key`, `done` the events that say
the store completed a row. Each handler is cut between its reads and its write:
`WebAsk` and `WebInsert`, `EditAsk`, `Look` and `Edit` (assign, details, move),
`CreateAsk`, `Look` and `Create` (a new row or a copy), `Complete` and `CompleteEvent`,
`DeleteAsk` and `Delete`, `ImportAsk`, `ImportLook` and `Import`. `edited`, `placed` and
`store` are history.

**MemberPass, MemberCoupons.** `order`, `paid`, `pass`, `uses`, `restored` and `stamps` are
the order of a pass, its payment, `member_passes`, and the entries of `pass_ledger` and
`stamp_ledger`; in `MemberCoupons` the stamp ledger is four variables by type, and
`coupon` and `rows` are `member_coupons` and the rows that use one. Reads and writes are
separate, as in the handlers; a handler that a request only calls first
(`expireCoupons`, `getMemberBenefits`, the automatic coupons) is a step of its request
(`ToBenefits`).

**Parking.** `row`, `command` and `shown` are the cloud, `inbox` and `work` the lane
of the bridge, `site` the discount a car has at the parking site, and `flying` savings
whose request was sent and has not taken effect. `Poll` gives up old commands and
claims the rest; `Take`, `Save`, `Confirm`, `Recheck`, `Resave` and `Final` are
`register` of `parking_service.py`; `Acknowledge` is its report.

**NaverDelivery, NaverStock.** `run` is the fast run of the extension with its lease:
`Start`, `Post`, then the import of the batch booking by booking (`ImportOne`, an
instance of `Calendar`'s import), `Answer`, `Mark`, `Save`, `Collect`, `Queue`. `outbox`
and `states` are in the extension's storage. In `NaverStock` the run is `ReadStatus`,
`ReadPlan`, `Close` and `Keep` for each slot, `Open` and `Forget` for each, `Send`; `local`
and `server` are the two memories of the slots it closed. `Stopped`, `LeaseExpires` and
`Slip` are what goes wrong.

**PushDelivery.** `schedule`, `events`, `device` and `delivered` are tables, `sender` the
requests that send, `wake` what each wakeup of a phone does: `Ask`, `Mark`, `Show`.

### Abstractions of the payments

* `requested_at` orders rows as their ids do, which are given in order of
  insertion. The order of `completed_at`, in which a full cancellation picks
  rows, is left open. `attempt_number` of a refund is not used and dropped.
* The reads of `paymentContext` are one snapshot. Between statements of other
  handlers there is always a point at which the writes of interest have or have
  not happened; no property depends on a mix of them.
* The first plan of a payment inserts the payment too. When two first plans
  race, the second one's rows carry a payment id the UNIQUE reservation has not
  kept and its batch fails on the foreign key: `whole = "NONE"` in the request.
* Amounts are small numbers; the amount owed is the constant `Payable` and a
  plan covers it. `errorCode = RECONCILIATION_REQUIRED` counts as UNKNOWN.
* The derived request keys of a full cancellation never collide: `NoKey`.
* `Expire` is the expiry of a command and the statement that ends its row; the
  lemma `QueueStep` of the proofs shows that the second never changes a row.
* The kiosk starts a row it finds in the overview it has just read; the key
  check, the overview and the choice of the row are one step, `StartPrepared`.
  It does not look for an unknown row; the admin screen does.
* Only the fast lane of the bridge carries payment commands, one at a time:
  `TerminalExclusive` says the cloud queues no second one. A failure to save the
  journal stops the bridge, the crash path. The eviction of old entries from the
  journal has the effect of its loss and is part of `JournalLoss`.
* `USER_CANCELLED` is an ERROR of the bridge with that error code.
* An exception in the ACK's handler leaves the ACK to `AckLost`.
* `LocalPayment`: one payment of one part; `payments.status` is derived; ERROR and
  BUSY of the terminal stand as DECLINED; the store of the transactions is what
  `StoreBridge` says; the read and the write of `completePaymentCommand` are one step;
  a repeated request under one request key, signatures and amounts are left out.
* `TillCorrections`: one reservation at one price per person, all by card; orders to
  the terminal, answers, refunds and plans are single steps (`CloudPayments` cuts
  them); the key of a slip (terminal, date, number, amount) is the slip.
* `AddOnSales`: one request at a time; a part that was declined stays the same part;
  one price of a game; a coupon only for a single game; a sale beside a group is the
  first game's (of two); no discounts.

### Abstractions of the control commands

* Time is a counter. Every event whose stamp becomes that of a room's state advances
  it by two; a refresh takes the number in between. Cloud and bridge have the
  same clock, and its resolution is never the reason that two stamps agree.
* Of the readiness, `armed`, the version, the modal window and the age of the
  heartbeat are left out: they only refuse more requests. `observed_at` of a
  room is renewed by every sync, so that the age of a row is left out too.
* The update of `agent_runtime` and that of the rooms are one step; no request
  reads both in one statement, and no property relates them. One heartbeat is on
  its way at a time: the loop waits for its answer.
* The probes that `_refresh_state` counts while the bridge is IDLE are only shown.
  Every other state starts the count from 0.
* For the queue the Manager does a command, fails for its room (with the state its
  error class names) or fails for all; what it does on its window is in `ManagerRooms`.
* `ManagerRooms`: a team with its map is one name; a map without a number cannot be
  sent and is typed (`Serials`); a failed command is one outcome; the search for windows
  and controls fails anywhere (`CannotRead`).
* A failed save is one of the faults. What stays in memory after it reaches the
  file with the next save; a restart right after it is not told apart.
* The branch of `_process_claimed_commands` for a command that is delivered again
  is never reached by a control command: the cloud does not give its claims back.
* Control commands in the answer of a sync (an old bridge's way) are not modelled.
  What the ACK's handler derives for visits is in `KioskGame`.

### Abstractions of visits, calendar, members and the outside

* `KioskBooking`: the calendar has one edit of a row under way at a time; the deletion of closed
  rows and the imports of Naver are left to `Calendar`; a completion by a report of the room
  is that of the staff.
* `KioskBooking`, `KioskGame`: one room; `req` has one request of each screen, of the
  staff and of the bridge; `upsertRoom` is one step; refunds are left out; which
  READY visit a report promotes (the latest updated) is left open; a visit that came
  with a reservation (`Paid[v] = 0`) earns its stamps with the visit. `CardWrite` is the
  update of the visit with the dispatch behind it.
* `Calendar`: one day; memo, payment and manager flags, repeat groups and the rate
  limit are left out; the event of an edit is written with it.
* `MemberPass`: amounts of discounts, expiry of a pass, coupons, and an order that is
  covered by credit alone are left out. `MemberCoupons`: one coupon row in a plan, one
  stamp for a game, a constant goal, one use by hand; what a coupon is worth and on
  which days are left out.
* `Parking`: time in half hours; the search for a car at the site is its outcome. The
  branch for a command that is delivered again (`jumping_bridge.py:4163`) is never
  reached: a claimed command is not handed out again.
* `NaverDelivery`: `Collect` always reads (the code skips the reading when the status
  page is unchanged); the spreadsheets, the manual run and the trimming of the outbox
  are left out; a mark and the fingerprints it belongs to are saved as one; the import
  of one booking is one step. `NaverStock`: the limit of 100 actions and slots that are
  over are left out.
* `PushDelivery`: one type of event; a phone that registers again is another phone.
* `KioskScreen`: a walk-in visit; a session of the server does not expire while its visit is
  on the screen; the screens between the assignment and the review are one (`form`); the
  choice of a benefit stands for passes, coupons and add-ons; the price is a function of
  party and benefit; slots, holds and the payment behind the checkout are `KioskBooking`'s.

### Not modelled

Accounts and sessions (except `linkReservationMember`, in `Parking`); latency traces;
the remote console and the other screens as such; long polling; participants, guidance and
products of a visit and the cleanup of visits in bulk; the shared table and the
history of the day; settings; the migration of legacy members; PIN attempts and rate
limits. They keep no state the modelled parts depend on, or, as the cleanup, are in
the plan (section 6).

Type-shape definitions (`BookingTypeOK`, `LocalTypeOK` and the like) document the
variables of a module; they are proved in the modules with theorems, and no run
spends a property on them.

## 3. What TLC checks

Each of the eight passing runs finishes within five minutes with two workers.
Deadlock is not checked: with all bounds used a model has nothing left to do, and so
has a quiet shop. A run may have several parts: the initial state chooses one, and
nothing of another one moves. In a part, the properties of the others hold of
variables that stay as they were.

| Run | Parts | Properties |
|---|---|---|
| `cloud` | one payment with all requests; two payments at one terminal | `RefundHasOriginal`, `TerminalExclusive`, `SettledPreserved`, `UnknownIsolated`, and the refinement `LifecycleSpec` |
| `payments` | `serial`: one request at a time | `NoOverpayment`, `SummaryCurrent` |
| | `bridge`: against a cloud that may deliver anything again | `MovedOnce` (a card runs once, a refund once), `MadeNeverDenied` |
| | `screen`, `screens`: direct payments from one screen at a time with a stop of the bridge, from two screens that share a row | `ChargedOnce` (the terminal is asked once, no intent that ran is given up, a part is paid once), `DeliveredIsBooked` |
| `system` | `system`: cloud, bridge and terminal | `ChargeRemembered`, `LedgerIsReal`, `NeverOvercharged`, `RunsUnderHold` |
| | `till`, `tills`: corrections at one till, at two | `TillsAgree` |
| | `sale` | `SalesAddUp` |
| `system_live` | `payment`, `parking` | `RowSettles`, `ParkingEnds` |
| `control` | `commands`: rooms and commands end to end | `RoomsExclusive`, `ExecutingAlone`, `CompletedWasDone`, `ReadyIsEarned` |
| | `info`, `halt`: a room of the Manager that is written, two rooms that are started and stopped | `ManagerIsReal` |
| `live` | `control`; `delivery`; `stock` | `ErrorRecovers`; `CollectorRemembers`, `CalendarFollows`; `CollectorRemembers`, `StockSettles` |
| `kiosk` | `editor`: one visit with a form and a web customer; `rivals`: two visits; `edited`: one visit, a web customer and the calendar | `PaidHasSeat`, `PricedForParty` |
| | `games`: a visit of two games; `member`: a visit with a reservation | `PaidBeforePlay`, `StampsOnce`, `GamesInOrder` |
| | `assigns`, `drafts`, `turns`: the screen of the kiosk with a room assigned twice, with a team entered, with visits one after the other | `ScreenIsReal` |
| `desk` | `web`, `naver`, `placed`: the calendar | `CustomerSlot`, `StoreDecides` (the place and the completion) |
| | `pass`, `stamps`; `coupons` | `PassesAddUp`; `CouponsAddUp` |
| | `parking` | `ParkingIsReal` |
| | `phone`, `phones`, `nights` | `ToldOnce` |
| `finding_*` | see section 5 | |

`serial` is about sequences and not about races. Two concurrent retries can
be given the same attempt number and leave a paid row behind a newer one, and the
last of two summaries may be the older: both properties are stated for requests
served one at a time. `LedgerIsReal` likewise: of two refunds that race past
`CancelCheck`, the bridge answers the second with the outcome of the first.

Some properties say how far they go. `TillsAgree` claims of two tills only that slips
and top-ups count once and no charge is lost: that a part is paid once and the summary
follows is claimed of one till, and section 5 says what two can do. A top-up counts twice
only when its mark is gone and its sender shows the present party again; the plan asks for
more than the party only after the calendar made the party smaller. `PaidHasSeat` excepts
visits one of whose rows the calendar changed, and other rows that the calendar put over the
seat: its cancel (`db/reservations.ts:794`) and its edits (797-894) do not look at the payment, and
section 5 says so. That nothing else takes a paid seat away, with the calendar at work on
other rows, is what the property claims. `PassesAddUp`
excepts passes that two requests wrote from the same reading (`raced`), `CouponsAddUp`
the reservations that two requests worked on at once (`crossed`) and stamps taken on an
old balance (`stale`), `ChargedOnce` intents that were used after their 75 seconds (`Late`),
`ParkingIsReal` savings that take effect after they were looked for (`late`), `ScreenIsReal` visits one of
whose requests for a party, a quote or a checkout failed on the network (`lost`): it may have been served, `ToldOnce`
phones that served two wakeups at once (`met`) or missed an answer (`missed`), and schedules that were
put back, or claimed after midnight for the day before (`again`). Each of
these is a case the code leaves open; the property says that nothing else is.

**Bounds, and why they are enough.**

*Payments.* Three rows hold a charge, its retry or its refund
and one more; with two workers and an ACK every pair of handlers overlaps in
every order, and the guards compare a row with at most one other row. Four rows
in `serial` hold two split rows, one retry and one refund, or two plans in
a row. One
crash can fall between any two steps; after it the bridge runs on what it saved,
so a second crash starts from a state of the same kind. The part `bridge` gives the bridge a charge and
two refunds of it, which may race. Two keys allow both a
repeated and a fresh request. With two intents for one row each screen has one, or
one screen tries again; a second row is the retry after a decline. Two screens share one row, one of their intents
may get old and the bridge does not stop; with one screen at a time the bridge stops and nothing gets old. The
proofs have all of it at once. The till has two
top-ups, two slips of one person's price, parties of one to five, two parts and two
plans in three rows, one correction in the calendar up or down: a part that is declined, retried,
paid by a slip and unlinked again fits, and so does a top-up whose mark a slip erased and that is
added again, under the same or under another party. Two tills leave out deletion, the second top-up, the
second slip and the second payment. The sale has prices 1 and 2 and plans of two parts by three
methods, so that shares are rounded, and two plans, the second after a refund or a
cancellation. Symmetry is used for keys and workers where there is no liveness.

*Control.* The two commands are for one room, or for one and then for all (an all_stop that comes
first is left to the proof), with the second queued, claimed or refused at every point of the
first; a third would meet what the second left. One fault (`MaxFaults` counts
restarts, failed saves, outages, expiries, lost claims and ACKs) can fall anywhere;
late ACKs, late and lost heartbeats and ambiguous timeouts are not counted and
happen without bound. Two screens ask at a time, so that both may pass their
checks before either inserts. The action of the room is `stop`; `set_info`, which
has a failed state of its own, is the one of `live`. With one room no two
live commands wait beside each other; that the claim keeps those of several rooms
apart is proved (`RunsAlone`), for any set of rooms. Stamps are only compared, a
report that is older than its row can only be refused, and the view `Order` of
`MC_ControlSystem` identifies the states that differ in nothing else; rooms and
workers are symmetric. At the Manager one room with two names, or two rooms with one,
two commands and one thing the staff do: a message or a thread of the first command meets
the second. In `live` one command and two faults allow a restart and an
outage, or two of either.

*Kiosk.* Two slots, wanted by two visits, or by one visit with two games and a customer
of the web; parties of one and two, so that a price can be that of another party;
one saved draft, which can be written before or after any assignment. In `edited` one visit and one
customer of the web want the two slots, and the staff edit one reservation once (read, key looked up,
row written, with the steps of the visit and of the web between any two of them) and set its status
after the edit or instead of it: whichever comes first, the row no longer counts as untouched, so
that a second change of it shows nothing more. Two games of
one visit, two commands and one turn of the room: what is late of the first game meets the second, which
is prepared.
The screen has parties of one and two at one price, so that the sum does not tell
them apart, and one request that fails on the network; in `turns` two visits follow each other and
none fails. A reset that is answered when the next visit has begun needs one generation more than
`turns` has; the theorem `ScreenReal` covers it.

*Desk.* Two customers and a staff row for two times of a room with two requests at once
and one edit; a customer and a booking of Naver with two edits and imports; a booking of Naver alone
with three, so that a row is moved, imported, and moved again. One answer about the purchase of a pass is worked on at a time
(`OneSync`). One pass of two uses and one game, two uses;
two games that bring a stamp each and one stamp the staff adds, with a goal of one, up to
three coupons; a coupon and two reservations, one of them planned twice. A request of the reservation and one of the staff for two cars, one
other discount and two faults. One phone with two events and two wakeups, two phones
with one, on one day; one phone with a schedule over two days, one of whose senders may be of the day before.

*Live.* Two bookings, three changes at Naver or in the store, one fault; two slots with
stock up to two, three changes, one fault; one car in `parking`. The liveness
properties start after the last change, so that a second fault would meet a state of
the same kind.

**Switches.** `Faults` (requests die), `Expiry` (commands get older than two
minutes), `Checks` (status checks interleave), `JournalLoss`, and `LateDisconnect`
(the vendor module raises OSError after it has charged the card, which
`mpos_lan/client.py:334` reports as ERROR). The last is off in every run: the
vendor module is not in the repository, and whether it can do this is not known.
With it `MadeNeverDenied` and `ChargeRemembered` fail; `RunsOnce` is proved with it.

**Fairness** (`PaymentSystem!Fairness`). The bridge's loops and the maintenance of
every sync run for ever: weak fairness of the bridge's own steps, of the return
of an old claim, and of the steps of a request that is being served. The network
may lose a claim or an ACK any number of times, not always: strong fairness of
`Poll`, `AckFirst`, `AckAgain` and of the ACK's successful end. Nothing is assumed
of the screens, of crashes or of losses. `Prompt` (only in the liveness run) is
a timing assumption: a command that reached the bridge is run and acknowledged
within the 30 s after which a claim is given back. Without it TLC finds the
behaviour in which claims are always given back just before the ACK.

`ControlSystem!ControlFairness` is the same for the control commands: weak fairness
of each thread of the bridge and of the maintenance, strong fairness of the served
ACK and of the heartbeat's arrival. Nothing is assumed of the screens, of the
Manager's answers or of the faults, of which there are finitely many.
`Parking!ParkingFairness` is weak fairness of the lane, which polls for ever, and of the
time after which a sync gives a command up. `FairDeliverySpec` and `FairStockSpec` are
weak fairness of the collector's run, which an alarm of the browser starts again and
again, and nothing else. In a run of several parts only one part ever moves, so one
fairness condition serves a step of each.

## 4. What is proved

Every theorem is of the specification with its constants left open: any number of rows,
visits, rooms, requests, faults and restarts. Each invariant was checked by TLC on the
instance of a run before it was proved. The assumptions on the constants are named in the
modules that declare them (`ConstantsAssumption`, `ControlConstants`, `FaultsNat`,
`BookingConstants`, `GameConstants`, `CalendarConstants`, `ParkingConstants`, `ManagerAssumption`,
`LocalConstants`, `PushConstants`, `CouponConstants`, `ScreenAssumption`), and TLC
evaluates them in the runs; what a theorem assumes beyond them is said with it.

None of the properties is inductive. What follows names for each module the invariant that
is, `IInv`, and why it has the parts that it has.

### Payments in the cloud: `CloudPayments_proofs`

| Theorem | Property |
|---|---|
| `TypeCorrect` | `TypeOK` |
| `InvariantHolds` | `IInv` |
| `TerminalIsExclusive` | `TerminalExclusive` |
| `SettledStays` | `SettledPreserved` |
| `UnknownStaysIsolated` | `UnknownIsolated` |
| `RefundsHaveOriginals` | `RefundHasOriginal` |
| `ImplementsLifecycle` | the refinement, `LifecycleSpec` |

`TerminalExclusive` needs to know that a request which is about to apply a result works on
a row that still holds the terminal, and that nobody else does the same: that its command
has ended, so that no second ACK starts. `SettledPreserved` needs the same of the ACK, and
that a cancellation and a retry write to fresh rows. So
`IInv == TypeOK /\ HoldInv /\ AckInv /\ TargetInv`:

* `HoldInv`: a row is active exactly while it is PROCESSING or UNKNOWN, at most
  one row is active, a live command is of a PROCESSING row, and a row that is not
  in use is blank;
* `AckInv`: a request that applies a result works on a PROCESSING row whose
  command has ended, and only one request applies a result at a time;
* `TargetInv`: the row a request works on exists, a reconciled row is a payment,
  and the row a refund reverses is a successful payment.

The first part shows that each action preserves the types, the second that a step changes
the tables in one of a few ways (`Effect`: rows planned, a row dispatched, booked, answered
or reconciled, commands handed over or ended), one lemma for each group of actions. That
`IInv` is preserved, the action properties and the refinement follow from the effects
alone, without another look at the actions.

### The bridge: `StoreBridge_proofs`

| Theorem | Property | Assumes |
|---|---|---|
| `BridgeInvariant`, `BridgeTypeCorrect` | `IInv`, `BridgeTypeOK` | |
| `RunsOnce` | the vendor module runs a transaction at most once | |
| `MoneyMovesOnce` | `MovedOnce` | `~LateDisconnect` |
| `MadeStaysTrue` | `MadeNeverDenied` | `~LateDisconnect` |

They hold whatever is delivered again, wherever the bridge stops, and also if it does not
find its journal (`JournalLoss`). The store alone carries them: `TaskInv` says how far a
task stands in the store (before the terminal is called the row is PENDING and the card
untouched), `CardInv` that a card was touched by the one run the store knows, `RefundInv`
that no refund goes on next to one that may have been made, `SayInv` that neither journal
nor task deny what was made. The last two, and only they, need that the vendor module does
not raise OSError after a charge. `HistoryInv` is what a bridge that keeps its journal
knows in addition; the next module needs it.

### Cloud and bridge: `PaymentSystem_proofs`

| Theorem | Property | Assumes besides `Results = AllResults` |
|---|---|---|
| `SystemIsCloud` | `CloudPayments!Spec` | |
| `SystemInvariant` | `SysInv` | |
| `TerminalHeldInRun` | `RunsUnderHold` | |
| `ChargesRemembered` | `ChargeRemembered` | `~LateDisconnect` |
| `ChargesAreReal` | every approval of the ledger was made | |
| `RefundsAreReal` | every card refund of the ledger was made, by its row or by one that raced with it | |
| `LedgerReal` | `LedgerIsReal` | `~LateDisconnect`, one request of the screens at a time, no full cancellation |

In the system the result of an ACK is the one in the journal. `SystemIsCloud` shows that
this is one of the results a `CloudPayments` may get, so that all its theorems hold of the
whole; the journal is kept here (`JournalLoss` is FALSE). `Results = AllResults` says
only that the cloud's model expects every result that the bridge's may give. `SysInv` joins the two
inductive invariants by `RowInv` (the bridge was given what the row says; a row without a
command was never at the terminal; a queued row is in flight until it shows what the
journal has) and `Carries` (a request applies that result, and the operator reconciles what
was made). `LedgerReal` says more than `RefundsAreReal`, that a refund was made by its own
row, and that is true only while two refunds do not race past their check. Its invariant
`SerialInv` therefore says that a charge has at most one refund that may still be made
and that a request on its way to another has seen none.

### Direct payments: `LocalPayment_proofs`

| Theorem | Property |
|---|---|
| `LocalInvariant`, `LocalType` | `LInv`, `LocalTypeOK` |
| `PaysOnce` | `ChargedOnce`: `AskedOnce`, `RevokedNotRun`, `PaidOnce` |
| `ApprovalsAreBooked` | `DeliveredIsBooked` |

Any number of screens, rows, intents and stops of the bridge. Cloud, screen and bridge learn of
each other by requests that may be lost at every step, and no lock spans two of them; what holds
them together is that an intent never changes its row, and that a row whose intents are all in
time (not `Late`) has had only one. `LInv` has one part for each thing they say of one another:

* `Asked`: a transaction that is not begun was not shown to the terminal; with the store's
  transaction and its lock (`RunOK`) that gives `AskedOnce`;
* `Bound`: the intent of a row that is not late is bound to it for good, is not given up in the cloud
  and not in the bridge; `Kept`: a screen on its way to give an intent up has a late row. Hence
  `RevokedNotRun`, although neither the release nor the bridge can see what the other does;
* `Told`: what store, ledger and terminal say of a row agrees; `Bare`: a row that is bound to
  nothing was not charged, so that cash cannot be taken for a row whose card ran; `Followed`: a
  row has a successor only when it was declined or cancelled. The three give `PaidOnce`;
* `Booking`: what the cloud has marked as synced, and what is on the way back to the outbox as such, is
  booked; a later step may turn a booked approval to unknown and back, never to declined.

A step changes rows and intents in a few ways (`RowMove`, `RowBegins`, `IntentMove`); that the
invariant survives follows from them (`LedgerKeeps`) without another look at the actions of the
cloud, and `BridgeKeeps` does the same for those of the bridge. The attempt to prove `Told`
uncovered a mistake of the model that no run had shown: the result of a command of the cloud was applied
to every row the cloud had ever sent, and not to its own alone.

### Control commands: `ControlSystem_proofs`

| Theorem | Property |
|---|---|
| `ControlTypeCorrect` | `ControlTypeOK` |
| `RoomsStayExclusive` | `RoomsExclusive` |
| `RunsAlone` | `ExecutingAlone` |
| `CompletedStaysTrue` | `CompletedWasDone` |
| `ReadyMustBeEarned` | `ReadyIsEarned` |

The inductive invariant adds to the four invariants

* `JournalInv`: what is in the journal was claimed, and an ACK is pending only of a
  command that has a result. Without it a command could be queued whose number the
  journal already knows;
* `DoneInv`: what the journal calls completed, and what is about to be saved as
  done, was done. It is what makes an ACK true however late it is served.

A step of the queue that claims nothing keeps the invariant whatever the bridge
does in it (`QueueKept`, one lemma for each operation), and a step of the bridge
keeps its own part whatever the queue does (`BridgeKept`); `StepKept` joins the two.
Only a claim needs both at once (`ClaimKept`). The argument for `RoomsExclusive` is
the trigger of the INSERT alone: that the readiness check may be stale does not matter.

### The Manager: `ManagerRooms_proofs`

`ManagerReal` is `ManagerIsReal` for any rooms, names, commands and hands at the window: a panel shows
what the last verified command wrote until somebody else writes, people that are to be left alone
are, and a stop that was reported completed has ended the game. Nothing acknowledges a message
and the staff use the same window, so `MInv` has to follow what is promised of a room:

* `MailOK`: a message still on its way says what was promised when its command was verified, whoever
  was verified since, so that one that comes late breaks no promise of its own command, and `Arrives` takes
  back that of a later one; `OwnMail` the same of the command at work;
* `AimOK`, `WritingOK`: a command aims at what it was given, and nothing is promised of the room it
  writes to;
* `GamesKnown`, `RestIsOver`: a game is one the bridge saw or has had no time to see, and an all_stop has
  ended what it is done with. That the rooms it never looked at are over when it reports "completed" rests on both.

### Visits: `Kiosk_proofs`

| Theorem | Property |
|---|---|
| `BookingInvariant`, `BookingTypeCorrect` | `IInv`, `BookingTypeOK` |
| `PaidSeatStands` | `PaidHasSeat` |
| `PricedAsBooked` | `PricedForParty` |
| `GameInvariant`, `GameTypeCorrect` | `GInv`, `GameTypeOK` |
| `NobodyPlaysUnpaid` | `PaidBeforePlay` |
| `StampedOnce` | `StampsOnce` |
| `PlayedInOrder` | `GamesInOrder` |
| `ScreenInvariant` | `ScreenInv` |
| `ScreenReal` | `ScreenIsReal`: `TypeOK`, `PaysWhatIsShown`, `ShowsOwnVisit` |

For `KioskBooking`, `IInv == BookingTypeOK /\ SlotsApart /\ VisitInv /\ PricedForParty`. That
the slot of a paid seat is nobody else's is the UNIQUE key of the reservations
(`SlotsApart`): no two rows have one key, whatever key an edit of the calendar chose before it
writes, and a live row that the calendar left alone has the key of its slot. That the seat still
stands when the payment arrives is not said by any key. `VisitInv` follows the request: the seats
that a checkout has read or made are the visit's own and exist, whatever the calendar makes of them,
a plan pays for such seats, and a visit that had a seat cancelled, and not by the calendar, is over
and gets no plan, because a cancellation claims the visit before it touches a seat and works on it
alone. No revision of a form is ever lost or taken twice,
which makes the booked game that of the party it was priced for.

For `KioskGame`, `GInv == GameTypeOK /\ MoneyInv /\ OrderInv /\ Keyed`. `MoneyInv` adds to
`PaidBeforePlay` that a confirmation of the staff which waits to mark the visit was booked;
`OrderInv` adds to `GamesInOrder` that the games are released together, and that a visit never
goes back behind the game a request has read, so that late answers find it further on;
`Keyed` makes a stamp of one game recognizable from both ends of it.

For `KioskScreen`, any number of visits, buttons, saves and failures. The customer goes on while
the party and the draft are on their way, the writes of the server ask for a revision or for
nothing, and what was given up is served all the same, so that `ScreenInv` has to say of every
request what it may still do:

* `Settled(g)`: nothing that is still to be read or written changes the party of row `g`: every
  draft on its way is older than the row, and no party is on its way at all. A quote that is
  the newest (`Newest`) settles its visit when it is written, and the barrier of the party is what
  makes that last (`TasksOK`: behind the form nobody waits for a party);
* `AwaitedOK`, `GivenUpOK`: an awaited request is of the visit the kiosk is at and of the form as it
  is, or of a handler that nothing aborts; one that was given up is of an earlier visit, or of one that
  the network failed (`lost`);
* `QuoteOK`, `CheckoutOK`, `PayingOK`: a checkout carries what its row comes to from the button to
  the bill (`Fits`), also when its visit is over;
* `ReviewOK`, `PaidOK`: what the review shows is what was quoted, and a billed row is on the screen of the
  payment, where nothing else is sent.

The proof has one lemma for each action, on those of the server first: a step there replaces one message
and writes one row (`Serves1`). It uncovered a mistake of the model. What the review showed was taken
when the checkout is sent, as the code does it when the button is pressed
(`app/kiosk/KioskApp.tsx:1340`). The two differ when the answer of a reset comes after the next visit has begun:
`resetHome` compares no generation (`app/kiosk/KioskApp.tsx:724`) and clears that visit, while its
checkout waits for the party. With the items of the button `PaysWhatIsShown` holds in that case too.

### Calendar, parking, notifications and coupons: `Desk_proofs`

| Theorem | Property |
|---|---|
| `CalendarInvariant`, `CalendarTypeCorrect` | `CInv`, `CalendarTypeOK` |
| `SlotIsTheirs` | `CustomerSlot` |
| `SlotSoldOnce` | two live web bookings that staff did not edit are not of one slot |
| `StoreHasItsWay` | `StoreDecides` |
| `ParkingInvariant` | `PInv` |
| `RegistrationIsReal` | `ParkingIsReal` |
| `PushInvariant` | `PushInv` |
| `EveryPhoneTold` | `ToldOnce` |
| `CouponInvariant` | `CouponInv` |
| `CouponsReal` | `CouponsAddUp` |

`CInv` adds to the properties `RequestsStand`: an import that waits for its write carries the key that
goes with its status, and a status of completed only for a row that the store has
completed. That is what a stale reading can still do no harm with; section 5 says what
it can do otherwise.

`PInv` adds to the properties where the bridge is with its car: a request nobody took has touched
nothing (`Untouched`), the request at work is begun (`Begun`), it repeats a saving
only when none of its own was seen (`NotYet`), the site has what the bridge read before it
began and what it saved since (`Counted`), what is to be reported as given was given
(`Reported`), and the reservation shows the state of its own request (`Shown`). Discounts of
other shops and savings that take effect late are the exceptions the property names.

A push says nothing, so that a phone was told everything is a matter of counting.
`PushInv` has it as `WokenEnough`: a phone that missed nothing has at least as many wakeups, on their
way or still to be sent, as there are events it was not told and no wakeup of it is about to tell. Each
wakeup takes one of each, also when a schedule sent it. The rest of `PushInv` is that a push is of one sender
that has not sent it (`SentByOne`), that no schedule is ahead of the clock (`DaysPass`), and that the wakeups of a phone do
not tell the same (`ToldByOne`). The proof found that a briefing can be sent twice: a request that
found the schedule due before midnight claims it after, since the claim asks only for another day
(`db/push-notifications.ts:686`). The property names that exception.

`CouponInv` follows what a request holds of a row after it read it. That a coupon is spent once is
the guard of one UPDATE; that the row which spent it stands as paid with it, and that a cancellation gives back
the right coupon, is in two tables and in what the request remembers: a row that was paid keeps its coupon, a
row that waits may lose it or be replaced (`RowsRead`), and only under a request that shares the
reservation with another (`Alone`). That is exactly the case which `CouponsAddUp` leaves open as `crossed`. The
stamps need the arithmetic of the balance and no more: coupon and deduction are written together, and a
balance that was read too early marks the ledger as `stale`.

### Only model-checked

* Liveness (`RowSettles`, `ParkingEnds`, `ErrorRecovers`, `CalendarFollows`, `StockSettles`):
  the provers do not reach fairness and ENABLED.
* Sums over sets of rows (`NoOverpayment`, `SummaryCurrent`, `NeverOvercharged`, `TillsAgree`,
  `SalesAddUp`, `PassesAddUp`): what a fold gives for every set of rows needs induction over the
  set, which the provers cannot instantiate.
* `CollectorRemembers`: safety about sequences that are filtered (`SelectSeq`, which is recursive and takes
  an operator, so that it needs induction too).

## 5. Where the code and its documents disagree

* `finding_expire`: the sync that expires a payment command ends its row if it is
  PENDING (`app/api/agent/sync/route.ts:159`). It is PROCESSING. The row and the
  terminal stay held.
* `finding_play`: `docs/ARCHITECTURE.md:103` says that `set_info`, `ready` and `start` each
  pass a guard of the payment. A visit in review is entered again without one
  (`db/customer-flow.ts:2512`) and then plays unpaid.
* `finding_cancel`: a test asserts that a cancellation at Naver always cancels in the store
  (`tests/import-source-state.test.mjs`). The outbox is posted newest first
  (`naver-collector/sw.js:1251`), and while another entry of the batch is refused it
  is posted again and again: the older entry of the same booking undoes the cancellation.
* `finding_local`: a comment says that the binding of an expired intent is restored before
  its result is replayed (`db/payment-intents.ts:572`). It is restored only while the
  intent is still READY (570); the approval of one that another screen's request set
  EXPIRED is booked nowhere, and the bridge is told that it is.

### Observations

These contradict no document and so are no findings. Each is a behaviour of a module,
or was met while writing it.

*Payments.*

* A row that failed with ERROR is offered for a retry (`db/customer-flow.ts:2284`), but an
  unpaid payment with such a row has status ERROR and the card batch accepts PENDING or
  PARTIALLY_PAID only (`db/payments.ts:1733`): the retry can never be dispatched.
* A request that dies between finalizing a command and applying its result is not
  made good by the bridge's next ACK, which finds the command ended
  (`app/api/agent/ack/route.ts:166`; the comment at `db/payments.ts:3669` expects it).
* Two tills: a slip is inserted for a declined part without a guard while the other till
  retries it (`db/payments.ts:2755`), or after the payment was planned again; the part is
  paid twice. A sync that trails a top-up of the other till writes the old amount.
* The batch that deletes a cancelled record (3382) is not guarded: a plan that was
  prepared and dispatched after its reads is deleted with its charge.
* A slip that was linked with an INSERT and unlinked keeps its key, which is UNIQUE: it
  cannot be linked again. A claim of a row that is no longer pending still writes the event.
* After a full refund the sync that trails a new plan sets the payment CANCELLED again, so
  that its card rows cannot be dispatched until the record is deleted.
* A slip that is booked on a part of a top-up writes the reason of the staff over its marker
  (2738): the same request, sent again, is refused from then on only because the party it names is no
  longer the present one, and is added again when the calendar lowers the party to it.
* The calendar lowers a party below what is planned or paid (`db/reservations.ts:857`). While it does,
  the answer of the terminal may complete the payment between the two halves of another request's
  sync, which then writes the older status.
* After a correction in the calendar any sync makes the stored amount the new one; a slip
  can then no longer be appended and the plan is locked. A top-up that is left unpaid
  keeps the larger party.
* Direct payments: a screen that received an intent just before its 75 seconds and prepares
  after them releases it while another runs it; its approval is then kept apart
  (QUARANTINED). A late mark of an old intent revokes the one about to run. An unknown mark
  after the result rewrites an approved row until the bridge's outbox replays it.
* Sales: a sale without a game, made at the kiosk, is inserted as completed and the
  cancellation asks for booked: it can never be cancelled. After a partial refund the sale
  stays PAID with its old amounts and the game counts nothing. The cancellation of a
  pending order reads and then deletes. The deposit of a Naver booking is capped by the
  amount of the game in the plan, by the final amount in the ledger: a fully discounted
  game with a sale is PAID while the sale is not. A group whose first game its deposit
  covers is paid after the first sync and cannot be planned again as a group.

*The screen of the kiosk.*

* A return home during a request for guidance leaves the review without a session. A request without a
  timeout keeps the buttons disabled until the reset. From the help screen a reset can succeed while the
  checkout is on its way: its late answer shows the payment of the former visit, and no token.
* The answer of a reset clears whichever visit the kiosk is at by then.
* A final amount of 0 disables the button of the review. When a second quote fails, the review of the first
  stays. A party, a quote or a checkout that failed on the network may have been served: the bill can
  then be of another party than shown, and is refused only when the sums differ.

*Control.*

* A room is refused with "another command of the room is in process"
  (`db/control-readiness.ts:123`) although none is: a command times out while the
  bridge executes it and then fails for its room, and the bridge's report, newer than
  the timeout, puts the id of the ended command back (`db/control.ts:461`) until an
  all_stop.
* A restart, or a failed save, while a control command is recorded as executing
  leaves it so: the cloud does not deliver it again and nothing else ends it.
  `has_unresolved_commands` then stays true, and the next error of the Manager
  never recovers until the bridge is restarted. This is the second condition of
  `ErrorRecovers`; without it TLC shows the behaviour.
* After a restart a report without a stamp makes a pending or failed room STALE and a
  later one READY: `ReadyIsEarned` holds of each step, not of the way through STALE.

*The Manager.*

* The watcher of a stop confirms any stop question, one that staff opened for another room
  as well. The thread that presses may do so after its command was given up, and stops a
  game that began meanwhile. A message that arrives late overwrites what a newer command
  or the staff wrote.
* When a set_info without people has to be typed, it expects "0명" of the panel, which no
  panel shows, and fails. all_stop ends at the first room that it cannot stop, and skips a
  room that was not yet seen running.

*Visits.*

* The checkout sets PAYMENT_PENDING without a guard (`db/customer-flow.ts:2163`): it can
  bring back a visit that was terminated meanwhile. A checkout that fails half-way leaves
  booked seats without a visit, and its retry pays for the rest only. An abandoned visit
  keeps its reservation.
* A late answer of the payment sets a visit that plays, or has ended, back to PREPARING.
  After a payment that was unknown, entering again plays only the first game. A stop
  (ABORTED) drops the games that are paid and wait. A stop by hand that a report brings
  before its ACK counts as completed. Any report of a running room promotes the READY
  visit that was updated last. Two games in one room: the end of the first completes the
  reservation of the second.
* A slot that is held again after the automatic assignment moves the hold, and the
  checkout books the slot of the assigned game.
* The staff's calendar treats the reservation of a kiosk visit like any other: it cancels
  or completes one whose card is being asked or has been charged, and frees its slot,
  without a look at the payment or at the visit (`db/reservations.ts:791-794`), and
  `assign`, `move` and `details` (797-894) move it, on top of a taken slot too, where it gets a
  key of its own. The visit is not told. `PaidHasSeat` promises a paid seat its slot
  only while no step of the calendar touched the row.

*Calendar and collector.*

* An edit that works on a stale reading gives a closed row its slot back: the server then
  offers that slot to every customer and each insert is refused. A details edit of a row
  next to one of the staff frees the canonical key.
* A booking of Naver that staff cancelled is opened again by a later import; a completed one
  that staff deleted comes back as booked. A completion whose event was not written is
  opened again.
* A booking whose slot was sold on the web is never inserted, and blocks the marks of the
  whole batch. Two runs at once can mark CANCELED while an older CONFIRMED lands last.
* A slot is closed at Naver before the extension saves that it did: a stop in between
  leaves it closed and unowned. With more than 100 claims every report is refused.

*Members.*

* Two uses of a pass at once, or a use next to a restoration or a refund, write the count
  from an old reading, or book the use though the update hit no row. A pass that is used
  while it is refunded stays ACTIVE with its order in review. A sync that read PAID and
  lands after the cancellation pays the order again.
* The credit of an order and a use at the counter do not see each other: the same people
  are covered twice.
* The balance and the count of an automatic coupon are read one after the other: a second
  coupon can be made of the same stamps. A coupon that meets a change of method, or a new
  plan of the same reservation, stays USED with no row.

*Notifications and parking.*

* A schedule that is edited between the read and the claim is sent early and not again. A request
  that began before midnight and claims after it sets the last day back: the day's briefing is sent again.
  An answer that is lost after the delivery row is written loses the event. A new worker
  puts back the deleted default schedule with its old last day. Two wakeups at once read
  the same event.
* An ACK of a parking request whose answer is lost is sent again as FAILED and overwrites
  SUCCESS. A saving that takes effect after it was looked for is made twice. The discount
  of another shop is taken for the own.

## 6. Plan

Done: payments on both ways with their corrections, sales, control commands, the Manager,
visits, the screen of the kiosk, calendar, members, parking, collector and notifications; proofs for the
cloud's payments, the bridge, both together, direct payments, control commands, the Manager, visits,
the kiosk's screen, calendar, parking, notifications and coupons.

Next, in this order:

1. Proofs: the fingerprints of the collector (`CollectorRemembers`), with its outbox as a function.
2. The deletion of visits in bulk, with visits that are gone while their checkout goes on.
3. Abstract specifications for the calendar ("a slot is free, taken or closed") and for a
   pass ("a counter"), which the modules implement.
4. Two tills with deletion, and a group of more than two games.
