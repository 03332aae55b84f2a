--------------------------- MODULE TillCorrections ---------------------------
(***************************************************************************)
(* What the staff and the kiosk change about a payment that has begun      *)
(* (db/payments.ts): more people join a paid party and are asked for the   *)
(* difference, a payment made on the terminal itself is booked by its      *)
(* slip, a slip is unlinked, the record of a cancelled payment is deleted, *)
(* and the calendar corrects the party before or after it has paid.        *)
(*                                                                         *)
(* One reservation and its payment, all by card; one person costs one.     *)
(* A request reads and decides in one step, writes its batch in another,   *)
(* and recalculates the summary in two more.  Orders to the terminal,      *)
(* their answers and refunds are single steps here; CloudPayments has      *)
(* theirs.                                                                 *)
(***************************************************************************)
EXTENDS Naturals, Sequences, FiniteSets, FiniteSetsExt, Functions

CONSTANTS
  Tills,        \* screens that send requests, one at a time each
  Operations,   \* what they ask for
  Party,        \* the people booked
  MaxParty,     \* the people a room takes (the code has 10)
  TopUps,       \* request keys of top-ups, and the people each adds
  Slips,        \* slips of the terminal, and their amounts
  MaxParts,     \* the parts a plan is split into (a bound; the code has 20)
  MaxRows, MaxEdits, MaxPayments   \* bounds

VARIABLES
  people,    \* reservations: total_count, and base_amount
  edits,     \* corrections of it in the calendar
  payment,   \* payments: its row, id 0 when there is none
  made,      \* the ids of payments so far
  rows,      \* payment_attempts, in the order they were made
  till,      \* what each screen waits for
  terminal,  \* the row the terminal works on, 0 when none
  charged,   \* money the terminal took for rows, less refunds
  \* what the properties remember
  joined,    \* of each top-up, the party its sender was shown whenever it was added
  unmarked,  \* top-ups that lost a marker: a slip was booked on it, or it was deleted
  lowered    \* whether the calendar made the party smaller

memory == <<joined, unmarked, lowered>>
tillVars == <<people, edits, payment, made, rows, till, terminal, charged, memory>>

Unplanned == [id |-> 0, splits |-> 0, payable |-> 0, status |-> "NONE"]
Unkeyed == "no key"
Idle == [op |-> "idle"]

TillInit ==
  /\ people = Party /\ edits = 0
  /\ payment = Unplanned /\ made = 0
  /\ rows = <<>>
  /\ till = [t \in Tills |-> Idle]
  /\ terminal = 0 /\ charged = 0
  /\ joined = [k \in DOMAIN TopUps |-> <<>>] /\ unmarked = {} /\ lowered = FALSE

-----------------------------------------------------------------------------
(* The ledger: what a table of rows says of payment p.                      *)

Successful == {"APPROVED", "REFUNDED"}
Failed == {"DECLINED", "USER_CANCELLED", "UNLINKED"}

RowsOf(table, p) == {r \in DOMAIN table : table[r].of = p /\ table[r].status # "DELETED"}
With(table, p, status) == {r \in RowsOf(table, p) : table[r].status = status}
Amount(table, S) == MapThenSumSet(LAMBDA r : table[r].amount, S)
Paid(table, p) == Amount(table, With(table, p, "APPROVED"))
Remaining(table, p) == IF people > Paid(table, p) THEN people - Paid(table, p) ELSE 0
Busy(p) == With(rows, p, "PROCESSING") # {}
Refunded(table, p) == With(table, p, "REFUNDED") # {}

WholeStatus(table, p) ==
  CASE Remaining(table, p) = 0 -> "PAID"
    [] Remaining(table, p) > 0 /\ Paid(table, p) > 0 /\ Refunded(table, p) -> "PARTIALLY_CANCELLED"
    [] Remaining(table, p) > 0 /\ Paid(table, p) > 0 /\ ~Refunded(table, p) -> "PARTIALLY_PAID"
    [] Paid(table, p) = 0 /\ Refunded(table, p) -> "CANCELLED"
    [] OTHER -> "PENDING"

\* latestPayRowsBySplit, and the first of them that is still to be paid.
Latest(split) == Max({r \in RowsOf(rows, payment.id) : rows[r].split = split})
PlanRows == {Latest(split) : split \in 1..payment.splits}
Due == {r \in PlanRows : rows[r].status \notin Successful}
NextDue == CHOOSE r \in Due : \A other \in Due : rows[r].split <= rows[other].split

Summary(table, pay) ==
  IF pay.id = 0 THEN pay
  ELSE [pay EXCEPT !.payable = people, !.status = WholeStatus(table, pay.id)]

-----------------------------------------------------------------------------
(* Plans: buildPaymentPlan in its three modes.                               *)

SplitEqualAmount(amount, count) ==
  [i \in 1..count |-> amount \div count + (IF i <= amount % count THEN 1 ELSE 0)]

AddsUp(items, amount) ==
  \A i \in DOMAIN items : items[i] >= 1 /\ MapThenSumSet(LAMBDA j : items[j], DOMAIN items) = amount
BuildPaymentPlan(amount) ==
  {<<amount>>}
  \cup {SplitEqualAmount(amount, count) : count \in {c \in 2..MaxParts : c <= amount}}
  \cup {items \in UNION {[1..count -> 1..amount] : count \in 1..MaxParts} : AddsUp(items, amount)}

Row(p, split, amount, status) ==
  [of |-> p, split |-> split, amount |-> amount, status |-> status,
   slip |-> Unkeyed, note |-> Unkeyed, asked |-> <<>>]
PlanOf(p, first, items, note) ==
  [i \in DOMAIN items |-> [Row(p, first + i - 1, items[i], "PENDING") EXCEPT !.note = note]]

Room(n) == Len(rows) + n <= MaxRows

-----------------------------------------------------------------------------
(* The requests that CloudPayments models in detail, each in one step.       *)

Asks(t, operation) == till[t] = Idle /\ operation \in Operations
Replaced(row) ==
  IF row.of = payment.id /\ row.status \in {"PENDING", "DECLINED", "USER_CANCELLED"}
  THEN [row EXCEPT !.status = "USER_CANCELLED"] ELSE row

\* preparePaymentPlan and its summary: a payment that was cancelled keeps its
\* row and its id.
Prepare(t) ==
  /\ Asks(t, "prepare")
  /\ Paid(rows, payment.id) = 0 /\ ~Busy(payment.id)
  /\ LET p == IF payment.id = 0 THEN made + 1 ELSE payment.id IN
       \E items \in BuildPaymentPlan(people) :
         /\ Room(Len(items)) /\ p <= MaxPayments
         /\ made' = IF payment.id = 0 THEN made + 1 ELSE made
         /\ rows' = [r \in DOMAIN rows |-> Replaced(rows[r])] \o PlanOf(p, 1, items, Unkeyed)
         /\ payment' = Summary(rows', [id |-> p, splits |-> Len(items), payable |-> people, status |-> "PENDING"])
  /\ UNCHANGED <<people, edits, till, terminal, charged, memory>>

\* processPaymentTransaction: the row that is due goes to the terminal.
Process(t) ==
  /\ Asks(t, "process") /\ payment.id # 0 /\ Due # {} /\ terminal = 0
  /\ payment.status \in {"PENDING", "PARTIALLY_PAID"}
  /\ rows[NextDue].status = "PENDING"
  /\ rows' = [rows EXCEPT ![NextDue].status = "PROCESSING"]
  /\ terminal' = NextDue
  /\ UNCHANGED <<people, edits, payment, made, till, charged, memory>>

\* preparePaymentTransactionRetry: another row for a part that failed.
Retry(t) ==
  /\ Asks(t, "retry") /\ payment.id # 0 /\ Due # {} /\ Room(1)
  /\ rows[NextDue].status \in Failed
  /\ rows' = Append(rows, Row(payment.id, rows[NextDue].split, rows[NextDue].amount, "PENDING"))
  /\ UNCHANGED <<people, edits, payment, made, till, terminal, charged, memory>>

\* The acknowledgement of the bridge, with the summary that follows it.
Answer(result) ==
  /\ terminal # 0 /\ terminal' = 0
  /\ rows' = IF rows[terminal].status = "PROCESSING" THEN [rows EXCEPT ![terminal].status = result] ELSE rows
  /\ charged' = charged + (IF result = "APPROVED" THEN rows[terminal].amount ELSE 0)
  /\ payment' = Summary(rows', payment)
  /\ UNCHANGED <<people, edits, made, till, memory>>

\* cancelPaymentTransaction and its answer; a slip is not refunded from here.
Refund(t, r) ==
  /\ Asks(t, "refund") /\ terminal = 0
  /\ r \in With(rows, payment.id, "APPROVED") /\ rows[r].slip = Unkeyed
  /\ rows' = [rows EXCEPT ![r].status = "REFUNDED"]
  /\ charged' = charged - rows[r].amount
  /\ payment' = Summary(rows', payment)
  /\ UNCHANGED <<people, edits, made, till, terminal, memory>>

\* The calendar corrects the party, and its base amount with it, paid or not; no
\* summary follows.
Edit ==
  /\ edits < MaxEdits /\ edits' = edits + 1
  /\ people' \in {people - 1, people + 1} \cap 1..MaxParty
  /\ lowered' = (lowered \/ people' < people)
  /\ UNCHANGED <<payment, made, rows, till, terminal, charged, joined, unmarked>>

-----------------------------------------------------------------------------
(* A request that ends with a summary reads the ledger and then writes it.   *)

Goes(t, next) == till' = [till EXCEPT ![t] = next]
ToSummary(t) == Goes(t, [op |-> "summary"])

ReadSummary(t) ==
  /\ till[t].op = "summary"
  /\ Goes(t, [op |-> "sync", seen |-> Summary(rows, payment)])
  /\ UNCHANGED <<people, edits, payment, made, rows, terminal, charged, memory>>
WriteSummary(t) ==
  /\ till[t].op = "sync" /\ Goes(t, Idle)
  /\ payment' = IF payment.id = till[t].seen.id
                THEN [payment EXCEPT !.payable = till[t].seen.payable, !.status = till[t].seen.status]
                ELSE payment
  /\ UNCHANGED <<people, edits, made, rows, terminal, charged, memory>>

-----------------------------------------------------------------------------
(* prepareParticipantTopUpPlan: the staff and the kiosk add people to a paid *)
(* party.  A request names the party its sender was shown, and is sent again *)
(* until it is answered; its rows are marked with its key.                   *)

TopUpRead(t, k, shown) ==
  /\ Asks(t, "topup")
  /\ \A r \in RowsOf(rows, payment.id) : rows[r].note # k
  /\ payment.status = "PAID" /\ ~Busy(payment.id)
  /\ Remaining(rows, payment.id) = 0 /\ ~Refunded(rows, payment.id)
  /\ people = shown /\ shown + TopUps[k] <= MaxParty /\ Due = {}
  /\ \E items \in BuildPaymentPlan(TopUps[k]) :
       Goes(t, [op |-> "topup", key |-> k, items |-> items, people |-> shown, seen |-> payment])
  /\ UNCHANGED <<people, edits, payment, made, rows, terminal, charged, memory>>

\* The conditions every INSERT of the batch repeats, and its own marker.
TopUpFits(ask) == payment = ask.seen /\ people = ask.people /\ ~Busy(payment.id)
Unmarked(row) == ~ \E r \in RowsOf(rows, payment.id) : rows[r].note = row.note /\ rows[r].split = row.split
Inserted(ask) ==
  IF TopUpFits(ask)
  THEN SelectSeq(PlanOf(payment.id, payment.splits + 1, ask.items, ask.key), Unmarked)
  ELSE <<>>

\* The rest of the batch is for all of its rows.
TopUpWrite(t) ==
  LET ask == till[t]
      target == ask.people + TopUps[ask.key] IN
  /\ ask.op = "topup" /\ Room(Len(Inserted(ask)))
  /\ rows' = rows \o Inserted(ask)
  /\ IF Len(Inserted(ask)) = Len(ask.items)
     THEN /\ people' = target
          /\ payment' = [payment EXCEPT !.splits = @ + Len(ask.items), !.status = "PENDING", !.payable = target]
          /\ joined' = [joined EXCEPT ![ask.key] = Append(@, ask.people)]
          /\ ToSummary(t)
     ELSE Goes(t, Idle) /\ UNCHANGED <<people, payment, joined>>
  /\ UNCHANGED <<edits, made, terminal, charged, unmarked, lowered>>

-----------------------------------------------------------------------------
(* recordExternalApprovedPayment: a slip of the terminal is booked on the    *)
(* part that is due, on an extra part, or as a payment of its own.           *)

Booked(s) == \E r \in DOMAIN rows : rows[r].slip = s /\ rows[r].status = "APPROVED"
\* The unique indexes of external_transaction_key and request_key.
Free(s, asked) ==
  /\ ~Booked(s)
  /\ \A r \in DOMAIN rows : rows[r].status # "DELETED" => rows[r].asked # asked

SlipRow(p, split, amount, s, asked) ==
  [Row(p, split, amount, "APPROVED") EXCEPT !.slip = s, !.asked = asked]

\* canAppendExternalApprovalTopUp
MayAppend(amount) ==
  /\ amount = Remaining(rows, payment.id) /\ payment.status = "PAID"
  /\ ~Refunded(rows, payment.id)
  /\ people > payment.payable /\ people - payment.payable = amount

SlipRead(t, s) ==
  /\ Asks(t, "slip") /\ ~Busy(payment.id) /\ ~Booked(s)
  /\ \/ /\ payment.id # 0 /\ Due = {} /\ MayAppend(Slips[s])
        /\ Goes(t, [op |-> "append", slip |-> s, people |-> people, seen |-> payment])
     \/ /\ payment.id # 0 /\ Due # {} /\ rows[NextDue].amount = Slips[s]
        /\ Goes(t, [op |-> IF rows[NextDue].status = "PENDING" THEN "claim" ELSE "again",
                    slip |-> s, row |-> NextDue])
     \/ /\ payment.id = 0 /\ people = Slips[s]
        /\ Goes(t, [op |-> "new", slip |-> s, people |-> people])
  /\ UNCHANGED <<people, edits, payment, made, rows, terminal, charged, memory>>

\* Mutant of StillPending: the row is taken as it was read.
TakenAsRead(r) == rows[r].status # "DELETED"
StillPending(r) == rows[r].status = "PENDING"

\* The part that was due and pending; only the row itself is conditional.  The
\* reason of the staff takes the place of its marker.
SlipClaim(t) ==
  LET ask == till[t] IN
  /\ ask.op = "claim"
  /\ \/ /\ StillPending(ask.row) /\ ~Booked(ask.slip)
        /\ rows' = [rows EXCEPT ![ask.row] =
                       [@ EXCEPT !.status = "APPROVED", !.slip = ask.slip, !.note = Unkeyed]]
        /\ unmarked' = unmarked \cup ({rows[ask.row].note} \ {Unkeyed})
        /\ ToSummary(t)
     \/ StillPending(ask.row) /\ Booked(ask.slip) /\ Goes(t, Idle) /\ UNCHANGED <<rows, unmarked>>
     \/ ~StillPending(ask.row) /\ ToSummary(t) /\ UNCHANGED <<rows, unmarked>>
  /\ UNCHANGED <<people, edits, payment, made, terminal, charged, joined, lowered>>

\* The part had failed: a row of its own, unconditionally.
SlipAgain(t) ==
  LET ask == till[t]
      asked == <<"approved", ask.slip>> IN
  /\ ask.op = "again"
  /\ \/ /\ Free(ask.slip, asked) /\ rows[ask.row].of = payment.id /\ Room(1)
        /\ rows' = Append(rows, SlipRow(payment.id, rows[ask.row].split, rows[ask.row].amount, ask.slip, asked))
        /\ ToSummary(t)
     \/ /\ ~(Free(ask.slip, asked) /\ rows[ask.row].of = payment.id)
        /\ Goes(t, Idle) /\ UNCHANGED rows
  /\ UNCHANGED <<people, edits, payment, made, terminal, charged, memory>>

\* The party had grown after it had paid: an extra part.
AppendFits(ask) ==
  /\ payment.id = ask.seen.id /\ payment.status = "PAID"
  /\ payment.splits = ask.seen.splits /\ payment.payable = ask.seen.payable
  /\ \A r \in RowsOf(rows, payment.id) :
       rows[r].status \notin {"PENDING", "PROCESSING"}
       /\ (rows[r].split > payment.splits => rows[r].status = "UNLINKED")
SlipAppend(t) ==
  LET ask == till[t]
      split == ask.seen.splits + 1
      asked == <<"topup", ask.seen.id, ask.people, split>> IN
  /\ ask.op = "append"
  /\ \/ /\ AppendFits(ask) /\ Free(ask.slip, asked) /\ Room(1)
        /\ rows' = Append(rows, SlipRow(payment.id, split, Slips[ask.slip], ask.slip, asked))
        /\ payment' = [payment EXCEPT !.splits = split, !.payable = ask.people, !.status = "PAID"]
        /\ ToSummary(t)
     \/ /\ ~(AppendFits(ask) /\ Free(ask.slip, asked))
        /\ Goes(t, Idle) /\ UNCHANGED <<rows, payment>>
  /\ UNCHANGED <<people, edits, made, terminal, charged, memory>>

\* There was no payment: one that is paid already.  A reservation has one at most.
SlipNew(t) ==
  LET ask == till[t]
      asked == <<"approved", ask.slip>> IN
  /\ ask.op = "new"
  /\ \/ /\ payment.id = 0 /\ Free(ask.slip, asked) /\ Room(1) /\ made < MaxPayments
        /\ made' = made + 1
        /\ payment' = [id |-> made', splits |-> 1, payable |-> ask.people, status |-> "PAID"]
        /\ rows' = Append(rows, SlipRow(made', 1, Slips[ask.slip], ask.slip, asked))
        /\ ToSummary(t)
     \/ /\ ~(payment.id = 0 /\ Free(ask.slip, asked))
        /\ Goes(t, Idle) /\ UNCHANGED <<made, payment, rows>>
  /\ UNCHANGED <<people, edits, terminal, charged, memory>>

-----------------------------------------------------------------------------
(* unlinkExternalApprovedPayment and deleteCancelledPaymentRecord.           *)

UnlinkRead(t, r) ==
  /\ Asks(t, "unlink")
  /\ r \in With(rows, payment.id, "APPROVED") /\ rows[r].slip # Unkeyed
  /\ Goes(t, [op |-> "unlink", row |-> r])
  /\ UNCHANGED <<people, edits, payment, made, rows, terminal, charged, memory>>
UnlinkWrite(t) ==
  /\ till[t].op = "unlink" /\ ToSummary(t)
  /\ rows' = IF rows[till[t].row].status = "APPROVED"
             THEN [rows EXCEPT ![till[t].row] = [@ EXCEPT !.status = "UNLINKED", !.note = Unkeyed]]
             ELSE rows
  /\ UNCHANGED <<people, edits, payment, made, terminal, charged, memory>>

MayDelete == payment.status = "CANCELLED" /\ Paid(rows, payment.id) = 0 /\ ~Busy(payment.id)

DeleteRead(t) ==
  /\ Asks(t, "delete") /\ payment.id # 0 /\ MayDelete
  /\ Goes(t, [op |-> "delete", id |-> payment.id])
  /\ UNCHANGED <<people, edits, payment, made, rows, terminal, charged, memory>>
\* The batch has no condition but the id.
DeleteWrite(t) ==
  /\ till[t].op = "delete" /\ Goes(t, Idle)
  /\ payment' = IF payment.id = till[t].id THEN Unplanned ELSE payment
  /\ rows' = [r \in DOMAIN rows |->
                IF rows[r].of = till[t].id THEN [rows[r] EXCEPT !.status = "DELETED"] ELSE rows[r]]
  /\ unmarked' = unmarked \cup ({rows[r].note : r \in RowsOf(rows, till[t].id)} \ {Unkeyed})
  /\ UNCHANGED <<people, edits, made, terminal, charged, joined, lowered>>

-----------------------------------------------------------------------------
TillNext ==
  \/ \E t \in Tills :
       \/ Prepare(t) \/ Process(t) \/ Retry(t)
       \/ \E r \in DOMAIN rows : Refund(t, r) \/ UnlinkRead(t, r)
       \/ \E k \in DOMAIN TopUps, shown \in 1..MaxParty : TopUpRead(t, k, shown)
       \/ \E s \in DOMAIN Slips : SlipRead(t, s)
       \/ TopUpWrite(t) \/ SlipClaim(t) \/ SlipAgain(t) \/ SlipAppend(t) \/ SlipNew(t)
       \/ UnlinkWrite(t) \/ DeleteRead(t) \/ DeleteWrite(t)
       \/ ReadSummary(t) \/ WriteSummary(t)
  \/ \E result \in {"APPROVED", "DECLINED"} : Answer(result)
  \/ Edit

TillSpec == TillInit /\ [][TillNext]_tillVars

-----------------------------------------------------------------------------
(* A slip is booked once, whoever books it and whatever was unlinked before. *)
SlipOnce ==
  \A s \in DOMAIN Slips : Cardinality({r \in DOMAIN rows : rows[r].slip = s /\ rows[r].status = "APPROVED"}) <= 1

(* A top-up that is sent twice, or by two screens, adds its people once, and *)
(* the rows it adds ask for exactly these people.  A slip booked on its row  *)
(* erases the marker, and deleting the payment takes it away (db/            *)
(* payments.ts:2738, 3379): then a request is new again to the code, if it   *)
(* shows the present party; the same request is only if the calendar has     *)
(* made the party smaller in between.                                        *)
ToppedUpOnce ==
  \A k \in DOMAIN TopUps :
    /\ k \notin unmarked =>
         /\ Len(joined[k]) <= 1
         /\ Amount(rows, {r \in DOMAIN rows : rows[r].note = k}) = Len(joined[k]) * TopUps[k]
    /\ ~lowered => IsInjective(joined[k])

(* The parts of the plan ask for all of the party as long as the calendar    *)
(* has not changed it, and never for more unless it made the party smaller.  *)
CoversParty ==
  payment.id # 0 =>
    /\ ~lowered => Amount(rows, PlanRows) <= people
    /\ edits = 0 => Amount(rows, PlanRows) = people

(* What the terminal took for rows is what the rows say it took.             *)
ChargeKept ==
  charged = Amount(rows, {r \in DOMAIN rows : rows[r].status = "APPROVED" /\ rows[r].slip = Unkeyed})

(* No part is paid twice, by the terminal and by a slip.                     *)
PaidOncePerPart ==
  \A r, s \in With(rows, payment.id, "APPROVED") : rows[r].split = rows[s].split => r = s

(* When no request is under way the summary says PAID exactly when the rows  *)
(* cover the party, unless the calendar has changed the party since.  (When  *)
(* it made the party smaller the terminal may cover all of it while a slip   *)
(* is unlinked: the unlink, which read before, then writes what it read.)    *)
SummaryFollows ==
  (\A t \in Tills : till[t] = Idle) /\ payment.id # 0 /\ payment.payable = people /\ ~lowered
    => (payment.status = "PAID" <=> Remaining(rows, payment.id) = 0)

(* Corrections keep slips, people and money together; the last three         *)
(* promises need that one screen at a time corrects a payment.               *)
TillsAgree ==
  /\ SlipOnce /\ ToppedUpOnce /\ ChargeKept
  /\ Cardinality(Tills) = 1 => CoversParty /\ PaidOncePerPart /\ SummaryFollows
=============================================================================
