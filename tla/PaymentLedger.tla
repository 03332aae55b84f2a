---------------------------- MODULE PaymentLedger ----------------------------
(***************************************************************************)
(* The payment ledger of db/payment-ledger.ts and the row selectors of      *)
(* db/payments.ts, as operators on a table of payment attempts.             *)
(*                                                                          *)
(* `attempt` is the table payment_attempts: a function from row ids to      *)
(* records.  A row id stands for payment_attempts.id, which is also the     *)
(* transactionUuid of the command the row dispatches.  Ids are handed out   *)
(* in insertion order, so a larger id is a later requested_at.              *)
(***************************************************************************)
EXTENDS Integers, FiniteSets, FiniteSetsExt

PayMethods == {"card", "cash"}

SuccessfulPay == {"APPROVED", "COMPLETED"}

FailedCancel == {"DECLINED", "USER_CANCELLED", "ERROR"}

WholeStatuses == {"PENDING", "PARTIALLY_PAID", "PAID", "PARTIALLY_CANCELLED",
                  "CANCELLED", "ERROR", "UNKNOWN"}

RowsOf(attempt, p) == {a \in DOMAIN attempt : attempt[a].payment = p}

PayRows(attempt, p) == {a \in RowsOf(attempt, p) : attempt[a].type = "PAY"}

CancelRows(attempt, p) == {a \in RowsOf(attempt, p) : attempt[a].type = "CANCEL"}

(* Originals a successful cancellation has reversed. *)
CancelledOriginals(attempt, p) ==
    {attempt[c].orig : c \in {d \in CancelRows(attempt, p) : attempt[d].status = "CANCELLED"}}

(* Mutant of Completed: a failed payment counts too. *)
CompletedIfEnded(attempt, p) ==
    {a \in PayRows(attempt, p) :
        attempt[a].status \notin {"PENDING", "PROCESSING"} /\ a \notin CancelledOriginals(attempt, p)}

(* The payments that stand: successful and not reversed. *)
Completed(attempt, p) ==
    {a \in PayRows(attempt, p) :
        attempt[a].status \in SuccessfulPay /\ a \notin CancelledOriginals(attempt, p)}

AmountOf(attempt, S) == MapThenSumSet(LAMBDA a : attempt[a].amount, S)

CompletedAmount(attempt, p) == AmountOf(attempt, Completed(attempt, p))

HasUnknown(attempt, p) == \E a \in RowsOf(attempt, p) : attempt[a].status = "UNKNOWN"

(* A transaction of the payment may be at the card terminal.  A PENDING row with
   a command counts in the code too; a row gets its command and PROCESSING in
   one batch, so there is none. *)
HasBusy(attempt, p) ==
    \E a \in RowsOf(attempt, p) :
        \/ attempt[a].status = "PROCESSING"
        \/ attempt[a].status \in {"BUSY", "PENDING"} /\ attempt[a].active

(* Mutant of AmountLocked: a plan may be replaced after a part of it was paid. *)
AmountLockedInDoubt(attempt, p) == HasUnknown(attempt, p) \/ HasBusy(attempt, p)

AmountLocked(attempt, p) ==
    \/ Completed(attempt, p) # {}
    \/ HasUnknown(attempt, p)
    \/ HasBusy(attempt, p)

LedgerStatus(attempt, p, payable) ==
    LET done     == CompletedAmount(attempt, p)
        reversed == CancelledOriginals(attempt, p) # {}
        ever     == \E a \in PayRows(attempt, p) : attempt[a].status \in SuccessfulPay
        failed   == \E a \in RowsOf(attempt, p) : attempt[a].status = "ERROR"
    IN  IF HasUnknown(attempt, p)     THEN "UNKNOWN"
        ELSE IF done >= payable       THEN "PAID"
        ELSE IF done > 0 /\ reversed  THEN "PARTIALLY_CANCELLED"
        ELSE IF done > 0              THEN "PARTIALLY_PAID"
        ELSE IF ever /\ reversed      THEN "CANCELLED"
        ELSE IF failed                THEN "ERROR"
        ELSE "PENDING"

(* What syncReservationPaymentSummary and completePaymentCommand write to
   payments.status: a full cancellation of which one refund failed is never
   shown as paid. *)
WholeStatus(attempt, p, payable, fullCancel) ==
    LET status == LedgerStatus(attempt, p, payable)
        failedFullCancel == /\ fullCancel
                            /\ \E c \in CancelRows(attempt, p) : attempt[c].status \in FailedCancel
    IN  IF failedFullCancel /\ status = "PAID" THEN "PARTIALLY_CANCELLED" ELSE status

----------------------------------------------------------------------------

(* ORDER BY attempt_number DESC, requested_at DESC *)
Newer(attempt, b, a) ==
    \/ attempt[b].number > attempt[a].number
    \/ attempt[b].number = attempt[a].number /\ b > a

IsLatest(attempt, p, a) ==
    /\ a \in PayRows(attempt, p)
    /\ \A b \in PayRows(attempt, p) :
          attempt[b].split = attempt[a].split => ~Newer(attempt, b, a)

(* The newest row of the first split that is not paid: the only row the
   payment may run next. *)
IsNextUnfinished(attempt, p, splits, a) ==
    /\ IsLatest(attempt, p, a)
    /\ attempt[a].split \in 1..splits
    /\ attempt[a].status \notin SuccessfulPay
    /\ \A s \in 1..(attempt[a].split - 1) :
          \E b \in PayRows(attempt, p) :
             /\ IsLatest(attempt, p, b)
             /\ attempt[b].split = s
             /\ attempt[b].status \in SuccessfulPay

(* COALESCE(MAX(attempt_number), 0) + 1 over the PAY rows of a payment *)
IsNextNumber(attempt, p, n) ==
    /\ \A a \in PayRows(attempt, p) : attempt[a].number < n
    /\ n = 1 \/ \E a \in PayRows(attempt, p) : attempt[a].number = n - 1

=============================================================================
