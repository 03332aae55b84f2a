---------------------------- MODULE CloudPayments ----------------------------
(***************************************************************************)
(* The cloud half of card and cash payments: the D1 tables payments,        *)
(* payment_attempts and commands, the API requests of the kiosk and the     *)
(* admin screens (db/payments.ts), the claim, expiry and requeue of payment *)
(* commands and the bridge's ACK (app/api/agent).                           *)
(*                                                                          *)
(* D1 runs one statement, or one batch, atomically; everything else of a    *)
(* request handler interleaves with the other requests.  A request is a     *)
(* worker whose pc names the next statement or batch it runs.  What it has  *)
(* read and still needs is kept in its record, so a worker can act on what  *)
(* another one has changed since.                                           *)
(*                                                                          *)
(* The bridge is open here: a claimed command may be acknowledged at any    *)
(* time with any result in Results.  PaymentSystem closes the model with    *)
(* the Store Bridge and the card terminal.                                  *)
(***************************************************************************)
EXTENDS PaymentLedger, Sequences

CONSTANTS
    Payments,      \* payments, one for each reservation
    ApiWorkers,    \* requests of the kiosk and admin screens served at once
    AckWorkers,    \* requests of the bridge served at once
    RequestKeys,   \* idempotency keys the screens send
    NoKey,         \* request_key IS NULL
    NoPayment,     \* row id not in use
    MaxAttempts,   \* bound on the rows of payment_attempts
    Payable,       \* amount to be paid
    Plans,         \* plans an operator may choose: sequences of [amount, method]
    Operations,    \* what the screens may ask for
    Results,       \* results a bridge may report
    Faults         \* whether a request may die between two statements

Ids == 1..MaxAttempts

Workers == ApiWorkers \cup AckWorkers

AttemptStatuses == {"PENDING", "PROCESSING", "APPROVED", "COMPLETED", "CANCELLED",
                    "DECLINED", "USER_CANCELLED", "ERROR", "BUSY", "UNKNOWN"}

AllOperations == {"prepare", "process", "start", "retry", "prepare_retry",
                  "change_method", "cancel", "full", "reconcile"}

CommandStatuses == {"none", "pending", "claimed", "completed", "failed"}

(* "EXCEPTION" is a failed command whose result is not a JSON payload. *)
AllResults == {"APPROVED", "CANCELLED", "DECLINED", "USER_CANCELLED", "ERROR",
               "BUSY", "UNKNOWN", "EXCEPTION"}

ASSUME ConstantsAssumption ==
    /\ MaxAttempts \in Nat
    /\ Payable \in Nat
    /\ NoKey \notin RequestKeys
    /\ NoPayment \notin Payments
    /\ Plans \subseteq Seq([amount : Nat \ {0}, method : PayMethods])
    /\ Operations \subseteq AllOperations
    /\ Results \subseteq AllResults
    /\ Faults \in BOOLEAN

VARIABLES
    payment,   \* payments
    attempt,   \* payment_attempts
    command,   \* commands.status of the command a row has dispatched
    req        \* the request each worker is serving

vars == <<payment, attempt, command, req>>

PaymentRows == [status : WholeStatuses \cup {"NONE"}, splits : Nat,
                full : BOOLEAN, planner : Workers \cup {NoKey}]

AttemptRows == [type : {"NONE", "PAY", "CANCEL"}, payment : Payments \cup {NoPayment},
                split : Nat, number : Nat, amount : Nat, method : PayMethods,
                status : AttemptStatuses, active : BOOLEAN,
                key : RequestKeys \cup {NoKey}, orig : Nat]

Steps == {"idle", "plan_number", "plan_write", "plan_readback", "check", "execute",
          "retry_number", "retry_insert", "change", "cancel_check", "cancel_insert",
          "full_flag", "advance", "full_finish", "reconcile", "ack_read",
          "ack_write", "sync_read", "sync_write", "resume", "respond"}

(* Where a handler goes on after syncReservationPaymentSummary *)
Continuations == {"idle", "advance", "resume", "respond"}

Requests == [op : AllOperations \cup {"none", "ack"},
             pc : Steps, next : Continuations, payment : Payments \cup {NoPayment},
             target : Nat, key : RequestKeys \cup {NoKey}, number : Nat,
             plan : Plans \cup {<<>>}, method : PayMethods,
             status : AttemptStatuses, whole : WholeStatuses \cup {"NONE"}]

NoRow == [type |-> "NONE", payment |-> NoPayment, split |-> 0, number |-> 0,
          amount |-> 0, method |-> "card", status |-> "PENDING", active |-> FALSE,
          key |-> NoKey, orig |-> 0]

Idle == [op |-> "none", pc |-> "idle", next |-> "idle", payment |-> NoPayment,
         target |-> 0, key |-> NoKey, number |-> 0, plan |-> <<>>,
         method |-> "card", status |-> "PENDING", whole |-> "NONE"]

Init ==
    /\ payment = [p \in Payments |->
                    [status |-> "NONE", splits |-> 0, full |-> FALSE, planner |-> NoKey]]
    /\ attempt = [a \in Ids |-> NoRow]
    /\ command = [a \in Ids |-> "none"]
    /\ req = [w \in Workers |-> Idle]

----------------------------------------------------------------------------
(* Helpers of the handlers *)

At(w, pc) == req[w].pc = pc

Goto(w, pc) == req' = [req EXCEPT ![w].pc = pc]

Throw(w) == req' = [req EXCEPT ![w] = Idle]

(* The handler returns.  The bridge's request still has to answer. *)
Return(w) ==
    req' = [req EXCEPT ![w] = IF @.op = "ack" THEN [@ EXCEPT !.pc = "respond"] ELSE Idle]

(* Mutant of Sync: the summary is not refreshed. *)
SyncSkipped(w, after) == IF after = "idle" THEN Throw(w) ELSE Goto(w, after)

(* syncReservationPaymentSummary is called next, then the handler goes on. *)
Sync(w, after) == req' = [req EXCEPT ![w].pc = "sync_read", ![w].next = after]

KeyUsed(k) == k # NoKey /\ \E a \in Ids : attempt[a].key = k

(* activeTerminalAttempt: the row that holds the terminal, if any *)
TerminalHeld ==
    \E a \in Ids :
        /\ attempt[a].active
        /\ attempt[a].status \in {"PROCESSING", "PENDING", "BUSY", "UNKNOWN"}

(* Mutant of ActiveKeyFree: the UNIQUE index is missing. *)
ActiveKeyShared == TRUE

(* UNIQUE(active_key): every card transaction takes the same key. *)
ActiveKeyFree == \A a \in Ids : ~attempt[a].active

IsFirstFree(f) == f \in Ids /\ \A a \in Ids : attempt[a].type # "NONE" <=> a < f

Whole(p, rows) == WholeStatus(rows, p, Payable, payment[p].full)

Exists(p) == payment[p].status # "NONE"

NewRow(p, split, number, amount, method) ==
    [NoRow EXCEPT !.type = "PAY", !.payment = p, !.split = split, !.number = number,
                  !.amount = amount, !.method = method]

----------------------------------------------------------------------------
(* preparePaymentPlan: an operator chooses how a payment is split. *)

PrepareRead(w, p, plan) ==
    /\ At(w, "idle")
    /\ ~AmountLocked(attempt, p)
    /\ req' = [req EXCEPT ![w] = [Idle EXCEPT !.op = "prepare", !.pc = "plan_number",
                 !.payment = p, !.plan = plan, !.whole = payment[p].status]]
    /\ UNCHANGED <<payment, attempt, command>>

PrepareNumber(w) ==
    /\ At(w, "plan_number")
    /\ \E n \in 1..(MaxAttempts + 1) :
          /\ IsNextNumber(attempt, req[w].payment, n)
          /\ req' = [req EXCEPT ![w].number = n, ![w].pc = "plan_write"]
    /\ UNCHANGED <<payment, attempt, command>>

(* One batch.  A plan that was read before the payment existed would insert
   its rows under a payment id the UNIQUE reservation has not kept: the batch
   fails on the foreign key. *)
PrepareWrite(w) ==
    LET r == req[w]
        p == r.payment
        superseded(row) ==
            /\ row.payment = p /\ row.type = "PAY"
            /\ row.status \in {"PENDING", "DECLINED", "USER_CANCELLED", "ERROR"}
    IN  /\ At(w, "plan_write")
        /\ \/ /\ (r.whole = "NONE") = (payment[p].status = "NONE")
              /\ payment' = [payment EXCEPT ![p] =
                    [status |-> IF Payable = 0 THEN "PAID" ELSE "PENDING",
                     splits |-> Len(r.plan), full |-> FALSE, planner |-> w]]
              /\ \E f \in Ids :
                    /\ IsFirstFree(f)
                    /\ f + Len(r.plan) - 1 <= MaxAttempts
                    /\ attempt' = [a \in Ids |->
                         IF a >= f /\ a < f + Len(r.plan)
                         THEN NewRow(p, a - f + 1, r.number + a - f,
                                     r.plan[a - f + 1].amount, r.plan[a - f + 1].method)
                         ELSE IF superseded(attempt[a])
                         THEN [attempt[a] EXCEPT !.status = "USER_CANCELLED", !.active = FALSE]
                         ELSE attempt[a]]
              /\ Goto(w, "plan_readback")
           \/ /\ (r.whole = "NONE") # (payment[p].status = "NONE")
              /\ Throw(w)
              /\ UNCHANGED <<payment, attempt>>
        /\ UNCHANGED command

(* The plan is read back and its summary written from that same snapshot. *)
PrepareReadback(w) ==
    LET r == req[w]
        p == r.payment
        matches ==
            /\ payment[p].planner = w
            /\ payment[p].splits = Len(r.plan)
            /\ \A s \in 1..Len(r.plan) : \E a \in Ids :
                  /\ IsLatest(attempt, p, a)
                  /\ attempt[a].split = s
                  /\ attempt[a].amount = r.plan[s].amount
                  /\ attempt[a].method = r.plan[s].method
    IN  /\ At(w, "plan_readback")
        /\ \/ /\ matches
              /\ req' = [req EXCEPT ![w].pc = "sync_write", ![w].next = "idle",
                                    ![w].whole = Whole(p, attempt)]
           \/ ~matches /\ Throw(w)
        /\ UNCHANGED <<payment, attempt, command>>

----------------------------------------------------------------------------
(* processPaymentTransaction and executePaymentAttempt: a planned row is
   dispatched to the card terminal, or booked as cash. *)

ProcessRead(w, p, a, k) ==
    /\ At(w, "idle")
    /\ Exists(p)
    /\ ~HasUnknown(attempt, p)
    /\ IsNextUnfinished(attempt, p, payment[p].splits, a)
    /\ attempt[a].status = "PENDING"
    /\ req' = [req EXCEPT ![w] = [Idle EXCEPT !.op = "process", !.pc = "check",
                 !.payment = p, !.target = a, !.key = k, !.method = attempt[a].method]]
    /\ UNCHANGED <<payment, attempt, command>>

(* processPreparedPaymentTransaction: the request that has prepared a plan runs
   its first row, found in the overview it got back, without looking at the
   ledger again: an UNKNOWN row of the payment does not stop it. *)
StartPrepared(w, p, a, k) ==
    /\ At(w, "idle")
    /\ ~KeyUsed(k)
    /\ Exists(p)
    /\ IsNextUnfinished(attempt, p, payment[p].splits, a)
    /\ attempt[a].split = 1 /\ attempt[a].status = "PENDING"
    /\ req' = [req EXCEPT ![w] = [Idle EXCEPT !.op = "start", !.pc = "check",
                 !.payment = p, !.target = a, !.key = k, !.method = attempt[a].method]]
    /\ UNCHANGED <<payment, attempt, command>>

(* A repeated request key returns the row it started; a transaction of any
   payment that holds the terminal turns the request away. *)
ExecuteCheck(w) ==
    LET r == req[w]
        blocked == \/ r.op = "retry" /\ attempt[r.target].status # "PENDING"
                   \/ KeyUsed(r.key)
                   \/ TerminalHeld /\ ~attempt[r.target].active
    IN  /\ At(w, "check")
        /\ \/ blocked /\ Throw(w)
           \/ ~blocked /\ Goto(w, "execute")
        /\ UNCHANGED <<payment, attempt, command>>

(* The card batch: the row and the terminal are claimed and the command is
   queued, or nothing happens. *)
ExecuteCard(w) ==
    LET r == req[w]
        row == attempt[r.target]
        parent == payment[r.payment]
        claimable == /\ row.status = "PENDING" /\ row.method = "card"
                     /\ command[r.target] = "none" /\ ~row.active
                     /\ parent.status \in {"PENDING", "PARTIALLY_PAID"}
                     /\ ~parent.full
                     /\ ActiveKeyFree /\ ~KeyUsed(r.key)
    IN  /\ At(w, "execute") /\ r.method = "card"
        /\ \/ /\ claimable
              /\ attempt' = [attempt EXCEPT ![r.target] =
                    [@ EXCEPT !.status = "PROCESSING", !.active = TRUE, !.key = r.key]]
              /\ command' = [command EXCEPT ![r.target] = "pending"]
           \/ ~claimable /\ UNCHANGED <<attempt, command>>
        /\ Throw(w)
        /\ UNCHANGED payment

(* Cash: the row is completed if it is still PENDING; whether it was is not
   looked at. *)
ExecuteManual(w) ==
    LET r == req[w]
        pending == attempt[r.target].status = "PENDING"
    IN  /\ At(w, "execute") /\ r.method # "card"
        /\ \/ /\ pending /\ ~KeyUsed(r.key)
              /\ attempt' = [attempt EXCEPT ![r.target] =
                    [@ EXCEPT !.status = "COMPLETED", !.key = r.key]]
              /\ Sync(w, "idle")
           \/ pending /\ KeyUsed(r.key) /\ Throw(w) /\ UNCHANGED attempt
           \/ ~pending /\ Sync(w, "idle") /\ UNCHANGED attempt
        /\ UNCHANGED <<payment, command>>

----------------------------------------------------------------------------
(* retryPaymentTransaction and preparePaymentTransactionRetry: a failed row is
   tried again as a new row, which the first runs at once and the second only
   leaves to be run, under the request key of this request. *)

Retryable == {"DECLINED", "USER_CANCELLED", "ERROR", "BUSY"}

RetryRead(w, op, p, a, k, m) ==
    /\ At(w, "idle")
    /\ ~KeyUsed(k)
    /\ Exists(p)
    /\ ~HasUnknown(attempt, p)
    /\ IsNextUnfinished(attempt, p, payment[p].splits, a)
    /\ attempt[a].status \in Retryable
    /\ req' = [req EXCEPT ![w] = [Idle EXCEPT !.op = op, !.pc = "retry_number",
                 !.payment = p, !.target = a, !.key = k, !.method = m]]
    /\ UNCHANGED <<payment, attempt, command>>

RetryNumber(w) ==
    /\ At(w, "retry_number")
    /\ \E n \in 1..(MaxAttempts + 1) :
          /\ IsNextNumber(attempt, req[w].payment, n)
          /\ req' = [req EXCEPT ![w].number = n, ![w].pc = "retry_insert"]
    /\ UNCHANGED <<payment, attempt, command>>

RetryInsert(w) ==
    LET r == req[w]
        original == attempt[r.target]
        row == NewRow(r.payment, original.split, r.number, original.amount, r.method)
    IN  /\ At(w, "retry_insert")
        /\ \/ /\ r.op = "retry"
              /\ \E f \in Ids :
                    /\ IsFirstFree(f)
                    /\ attempt' = [attempt EXCEPT ![f] = row]
                    /\ req' = [req EXCEPT ![w].target = f, ![w].pc = "check"]
           \/ /\ r.op = "prepare_retry" /\ ~KeyUsed(r.key)
              /\ \E f \in Ids :
                    /\ IsFirstFree(f)
                    /\ attempt' = [attempt EXCEPT ![f] = [row EXCEPT !.key = r.key]]
              /\ Throw(w)
           \/ r.op = "prepare_retry" /\ KeyUsed(r.key) /\ Throw(w) /\ UNCHANGED attempt
        /\ UNCHANGED <<payment, command>>

----------------------------------------------------------------------------
(* changePendingPaymentTransactionMethod: a row that has not been dispatched
   is paid another way. *)

ChangeRead(w, p, a, m) ==
    /\ At(w, "idle")
    /\ Exists(p)
    /\ ~HasUnknown(attempt, p)
    /\ IsNextUnfinished(attempt, p, payment[p].splits, a)
    /\ attempt[a].status = "PENDING" /\ ~attempt[a].active /\ command[a] = "none"
    /\ attempt[a].method # m
    /\ req' = [req EXCEPT ![w] = [Idle EXCEPT !.op = "change_method", !.pc = "change",
                 !.payment = p, !.target = a, !.method = m]]
    /\ UNCHANGED <<payment, attempt, command>>

ChangeWrite(w) ==
    LET r == req[w]
        a == r.target
        untouched == attempt[a].status = "PENDING" /\ ~attempt[a].active /\ command[a] = "none"
    IN  /\ At(w, "change")
        /\ attempt' = IF untouched THEN [attempt EXCEPT ![a].method = r.method] ELSE attempt
        /\ Throw(w)
        /\ UNCHANGED <<payment, command>>

----------------------------------------------------------------------------
(* syncReservationPaymentSummary *)

SyncRead(w) ==
    /\ At(w, "sync_read")
    /\ req' = [req EXCEPT ![w].whole = Whole(req[w].payment, attempt), ![w].pc = "sync_write"]
    /\ UNCHANGED <<payment, attempt, command>>

SyncWrite(w) ==
    LET r == req[w]
    IN  /\ At(w, "sync_write")
        /\ payment' = [payment EXCEPT ![r.payment].status = r.whole]
        /\ req' = [req EXCEPT ![w] = IF r.next = "idle" THEN Idle
                                     ELSE [@ EXCEPT !.pc = r.next, !.next = "idle", !.whole = "NONE"]]
        /\ UNCHANGED <<attempt, command>>

----------------------------------------------------------------------------
(* createCancellation: one completed payment is reversed.  It is called by
   requestPaymentCancellation and, row by row, by a full cancellation. *)

CancelRead(w, p, a, k) ==
    /\ At(w, "idle")
    /\ ~HasUnknown(attempt, p)
    /\ a \in Completed(attempt, p)
    /\ req' = [req EXCEPT ![w] = [Idle EXCEPT !.op = "cancel", !.pc = "cancel_check",
                 !.payment = p, !.target = a, !.key = k]]
    /\ UNCHANGED <<payment, attempt, command>>

(* An earlier cancellation of the same payment is returned in place of a new
   one, unless it has failed. *)
Cancelling(a) ==
    \E c \in Ids :
        /\ attempt[c].type = "CANCEL" /\ attempt[c].orig = a
        /\ attempt[c].status \in {"PROCESSING", "PENDING", "UNKNOWN", "BUSY", "CANCELLED"}

CancelCheck(w) ==
    LET r == req[w]
        isCard == attempt[r.target].method = "card"
    IN  /\ At(w, "cancel_check")
        /\ \/ KeyUsed(r.key) /\ Return(w)
           \/ ~KeyUsed(r.key) /\ Cancelling(r.target)
              /\ IF r.op = "cancel" \/ isCard THEN Return(w) ELSE Goto(w, "advance")
           \/ ~KeyUsed(r.key) /\ ~Cancelling(r.target)
              /\ IF isCard /\ TerminalHeld THEN Throw(w) ELSE Goto(w, "cancel_insert")
        /\ UNCHANGED <<payment, attempt, command>>

CancelRow(original, a, k, status, active) ==
    [original EXCEPT !.type = "CANCEL", !.number = 0, !.status = status,
                     !.active = active, !.key = k, !.orig = a]

(* A card refund is dispatched to the terminal; a cash refund is booked. *)
CancelInsert(w) ==
    LET r == req[w]
        original == attempt[r.target]
        isCard == original.method = "card"
        unique == ~KeyUsed(r.key) /\ (isCard => ActiveKeyFree)
    IN  /\ At(w, "cancel_insert")
        /\ \/ /\ unique /\ isCard
              /\ \E f \in Ids :
                    /\ IsFirstFree(f)
                    /\ attempt' = [attempt EXCEPT ![f] =
                          CancelRow(original, r.target, r.key, "PROCESSING", TRUE)]
                    /\ command' = [command EXCEPT ![f] = "pending"]
              /\ Return(w)
           \/ /\ unique /\ ~isCard
              /\ \E f \in Ids :
                    /\ IsFirstFree(f)
                    /\ attempt' = [attempt EXCEPT ![f] =
                          CancelRow(original, r.target, r.key, "CANCELLED", FALSE)]
              /\ Sync(w, IF r.op = "cancel" THEN "idle" ELSE "advance")
              /\ UNCHANGED command
           \/ ~unique /\ Throw(w) /\ UNCHANGED <<attempt, command>>
        /\ UNCHANGED payment

----------------------------------------------------------------------------
(* requestFullPaymentCancellation and advanceFullCancellation *)

FullRead(w, p) ==
    /\ At(w, "idle")
    /\ Exists(p)
    /\ ~TerminalHeld
    /\ req' = [req EXCEPT ![w] = [Idle EXCEPT !.op = "full", !.pc = "full_flag", !.payment = p]]
    /\ UNCHANGED <<payment, attempt, command>>

FullFlag(w) ==
    /\ At(w, "full_flag")
    /\ payment' = [payment EXCEPT ![req[w].payment].full = TRUE]
    /\ Goto(w, "advance")
    /\ UNCHANGED <<attempt, command>>

(* One turn of the loop: the next payment to reverse is picked from a fresh
   context.  The order of completed_at is left open. *)
Advance(w) ==
    LET p == req[w].payment
    IN  /\ At(w, "advance")
        /\ \/ HasUnknown(attempt, p) /\ Throw(w)
           \/ ~HasUnknown(attempt, p) /\ TerminalHeld /\ Return(w)
           \/ ~HasUnknown(attempt, p) /\ ~TerminalHeld
              /\ \/ \E a \in Completed(attempt, p) :
                       req' = [req EXCEPT ![w].target = a, ![w].key = NoKey, ![w].pc = "cancel_check"]
                 \/ Completed(attempt, p) = {} /\ Goto(w, "full_finish")
        /\ UNCHANGED <<payment, attempt, command>>

FullFinish(w) ==
    LET p == req[w].payment
    IN  /\ At(w, "full_finish")
        /\ payment' = [payment EXCEPT ![p].full = FALSE, ![p].status = "CANCELLED"]
        /\ Sync(w, IF req[w].op = "ack" THEN "respond" ELSE "idle")
        /\ UNCHANGED <<attempt, command>>

----------------------------------------------------------------------------
(* reconcileUnknownPayment: an operator has found the approval of a payment
   whose outcome was unknown. *)

(* Mutant of ReconcileRead: refunds are settled as payments. *)
ReconcileReadAny(w, p, a) ==
    /\ At(w, "idle")
    /\ Exists(p)
    /\ a \in RowsOf(attempt, p)
    /\ attempt[a].method = "card" /\ attempt[a].status = "UNKNOWN"
    /\ req' = [req EXCEPT ![w] = [Idle EXCEPT !.op = "reconcile", !.pc = "reconcile",
                 !.payment = p, !.target = a]]
    /\ UNCHANGED <<payment, attempt, command>>

ReconcileRead(w, p, a) ==
    /\ At(w, "idle")
    /\ Exists(p)
    /\ a \in PayRows(attempt, p)
    /\ attempt[a].method = "card" /\ attempt[a].status = "UNKNOWN"
    /\ req' = [req EXCEPT ![w] = [Idle EXCEPT !.op = "reconcile", !.pc = "reconcile",
                 !.payment = p, !.target = a]]
    /\ UNCHANGED <<payment, attempt, command>>

ReconcileWrite(w) ==
    LET a == req[w].target
    IN  /\ At(w, "reconcile")
        /\ attempt' = IF attempt[a].status = "UNKNOWN"
                      THEN [attempt EXCEPT ![a] = [@ EXCEPT !.status = "APPROVED", !.active = FALSE]]
                      ELSE attempt
        /\ IF attempt[a].status \in {"UNKNOWN", "APPROVED"} THEN Sync(w, "idle") ELSE Throw(w)
        /\ UNCHANGED <<payment, command>>

----------------------------------------------------------------------------
(* The command queue: the bridge's claim, and the maintenance that every
   bridge sync runs. *)

Claim(c) ==
    /\ command[c] = "pending"
    /\ command' = [command EXCEPT ![c] = "claimed"]
    /\ UNCHANGED <<payment, attempt, req>>

(* Mutant of Requeue: the wrong status is looked for. *)
RequeueUnclaimed(c) ==
    /\ command[c] = "pending"
    /\ command' = [command EXCEPT ![c] = "pending"]
    /\ UNCHANGED <<payment, attempt, req>>

(* A claim older than 30 s is given back while the command is still valid. *)
Requeue(c) ==
    /\ command[c] = "claimed"
    /\ command' = [command EXCEPT ![c] = "pending"]
    /\ UNCHANGED <<payment, attempt, req>>

(* Mutant of Expire: a row in flight is failed and frees the terminal. *)
ExpireReleases(c) ==
    /\ command[c] \in {"pending", "claimed"}
    /\ command' = [command EXCEPT ![c] = "failed"]
    /\ attempt' = [attempt EXCEPT ![c] = [@ EXCEPT !.status = "ERROR", !.active = FALSE]]
    /\ UNCHANGED <<payment, req>>

(* A command past its two minutes fails; the rows still PENDING get ERROR. *)
Expire(c) ==
    /\ command[c] \in {"pending", "claimed"}
    /\ command' = [command EXCEPT ![c] = "failed"]
    /\ attempt' = IF attempt[c].status = "PENDING"
                  THEN [attempt EXCEPT ![c].status = "ERROR"] ELSE attempt
    /\ UNCHANGED <<payment, req>>

----------------------------------------------------------------------------
(* POST /api/agent/ack *)

(* Mutants of AppliedStatus: the result is taken over as it is; a failed command
   is a failed, or a successful, payment. *)
AppliedStatusRaw(type, result) == result

AppliedStatusDenied(type, result) ==
    IF result = "EXCEPTION" THEN "ERROR"
    ELSE IF type = "PAY" /\ result = "CANCELLED" THEN "USER_CANCELLED"
    ELSE result

AppliedStatusTrusting(type, result) ==
    IF result = "EXCEPTION" THEN (IF type = "PAY" THEN "APPROVED" ELSE "UNKNOWN")
    ELSE IF type = "PAY" /\ result = "CANCELLED" THEN "USER_CANCELLED"
    ELSE result

(* What completePaymentCommand makes of a bridge result *)
AppliedStatus(type, result) ==
    IF result = "EXCEPTION" THEN "UNKNOWN"
    ELSE IF type = "PAY" /\ result = "CANCELLED" THEN "USER_CANCELLED"
    ELSE result

CommandOutcome(result) == IF result = "EXCEPTION" THEN "failed" ELSE "completed"

(* Mutant of AckFinalize: a repeated ACK is applied again. *)
AckFinalizeAgain(w, c, result) ==
    /\ At(w, "idle")
    /\ command[c] \in {"claimed", "completed"}
    /\ result # (IF attempt[c].type = "PAY" THEN "CANCELLED" ELSE "APPROVED")
    /\ command' = [command EXCEPT ![c] = CommandOutcome(result)]
    /\ req' = [req EXCEPT ![w] = [Idle EXCEPT !.op = "ack", !.pc = "ack_read",
                 !.payment = attempt[c].payment, !.target = c,
                 !.status = AppliedStatus(attempt[c].type, result)]]
    /\ UNCHANGED <<payment, attempt>>

(* finalizeCommandAck: only the ACK that finds the command claimed goes on to
   apply the result; any other is answered as a duplicate or a conflict. *)
AckFinalize(w, c, result) ==
    /\ At(w, "idle")
    /\ command[c] = "claimed"
    /\ result # (IF attempt[c].type = "PAY" THEN "CANCELLED" ELSE "APPROVED")
    /\ command' = [command EXCEPT ![c] = CommandOutcome(result)]
    /\ req' = [req EXCEPT ![w] = [Idle EXCEPT !.op = "ack", !.pc = "ack_read",
                 !.payment = attempt[c].payment, !.target = c,
                 !.status = AppliedStatus(attempt[c].type, result)]]
    /\ UNCHANGED <<payment, attempt>>

(* Mutant of ReleasesTerminal: an unknown outcome frees the terminal. *)
ReleasesInDoubt(status) == status \notin {"PENDING", "PROCESSING"}

ReleasesTerminal(status) == status \notin {"UNKNOWN", "PENDING", "PROCESSING"}

Applied(w, rows) ==
    LET r == req[w]
        row == rows[r.target]
    IN  [rows EXCEPT ![r.target] =
           [row EXCEPT !.status = r.status,
                       !.active = row.active /\ ~ReleasesTerminal(r.status)]]

(* The summary is projected from a snapshot taken before the result is written. *)
AckRead(w) ==
    /\ At(w, "ack_read")
    /\ req' = [req EXCEPT ![w].pc = "ack_write",
                          ![w].whole = Whole(req[w].payment, Applied(w, attempt))]
    /\ UNCHANGED <<payment, attempt, command>>

AckWrite(w) ==
    /\ At(w, "ack_write")
    /\ attempt' = Applied(w, attempt)
    /\ payment' = [payment EXCEPT ![req[w].payment].status = req[w].whole]
    /\ Sync(w, "resume")
    /\ UNCHANGED command

(* completePaymentCommandDerived: a refund of a full cancellation goes on with
   the next payment. *)
AckResume(w) ==
    LET r == req[w]
        a == r.target
    IN  /\ At(w, "resume")
        /\ IF attempt[a].type = "CANCEL" /\ r.status = "CANCELLED" /\ payment[r.payment].full
           THEN Goto(w, "advance") ELSE Goto(w, "respond")
        /\ UNCHANGED <<payment, attempt, command>>

Respond(w) ==
    /\ At(w, "respond")
    /\ Throw(w)
    /\ UNCHANGED <<payment, attempt, command>>

(* The worker dies, or D1 refuses a statement: the request answers 500. *)
Abort(w) ==
    /\ Faults
    /\ ~At(w, "idle")
    /\ Throw(w)
    /\ UNCHANGED <<payment, attempt, command>>

----------------------------------------------------------------------------

Asks(op) == op \in Operations

ApiRequest(w) ==
    \/ Asks("prepare") /\ \E p \in Payments, plan \in Plans : PrepareRead(w, p, plan)
    \/ \E p \in Payments, a \in Ids, k \in RequestKeys :
          \/ Asks("process") /\ ProcessRead(w, p, a, k)
          \/ Asks("start") /\ StartPrepared(w, p, a, k)
          \/ Asks("cancel") /\ CancelRead(w, p, a, k)
          \/ \E op \in Operations \cap {"retry", "prepare_retry"}, m \in PayMethods :
                RetryRead(w, op, p, a, k, m)
    \/ \E p \in Payments, a \in Ids :
          \/ Asks("reconcile") /\ ReconcileRead(w, p, a)
          \/ Asks("change_method") /\ \E m \in PayMethods : ChangeRead(w, p, a, m)
    \/ Asks("full") /\ \E p \in Payments : FullRead(w, p)

(* The rest of a request, once it has been read *)
RequestStep(w) ==
    \/ PrepareNumber(w) \/ PrepareWrite(w) \/ PrepareReadback(w)
    \/ ExecuteCheck(w) \/ ExecuteCard(w) \/ ExecuteManual(w)
    \/ RetryNumber(w) \/ RetryInsert(w) \/ ChangeWrite(w)
    \/ CancelCheck(w) \/ CancelInsert(w)
    \/ FullFlag(w) \/ Advance(w) \/ FullFinish(w)
    \/ ReconcileWrite(w)
    \/ AckRead(w) \/ AckWrite(w) \/ AckResume(w)
    \/ SyncRead(w) \/ SyncWrite(w)

Queue(c) == Claim(c) \/ Requeue(c) \/ Expire(c)

Next ==
    \/ \E w \in ApiWorkers : ApiRequest(w)
    \/ \E w \in AckWorkers, c \in Ids, r \in Results : AckFinalize(w, c, r)
    \/ \E w \in Workers : RequestStep(w) \/ Respond(w) \/ Abort(w)
    \/ \E c \in Ids : Queue(c)

Spec == Init /\ [][Next]_vars

----------------------------------------------------------------------------

(* Every table and every request in flight has the shape the code gives it. *)
TypeOK ==
    /\ payment \in [Payments -> PaymentRows]
    /\ attempt \in [Ids -> AttemptRows]
    /\ command \in [Ids -> CommandStatuses]
    /\ req \in [Workers -> Requests]

(* One card terminal: at most one row holds it, and a command that the bridge
   may still run belongs to the row that does.  Two requests that have both
   found the terminal free must not both queue a command, and no plan change,
   cancellation or late answer may free the terminal under a live command. *)
Live(c) == command[c] \in {"pending", "claimed"}

TerminalExclusive ==
    /\ \A a, b \in Ids : attempt[a].active /\ attempt[b].active => a = b
    /\ \A c \in Ids : Live(c) => attempt[c].active /\ attempt[c].status = "PROCESSING"

(* A payment that was approved or booked, and a refund that was made, is never
   rewritten: not by a new plan, an expiry, a reconciliation or the answer to
   another ACK.  docs/ARCHITECTURE.md:94 *)
Settled(a) == attempt[a].status \in {"APPROVED", "COMPLETED", "CANCELLED"}

SettledPreserved == [][\A a \in Ids : Settled(a) => attempt'[a] = attempt[a]]_vars

(* A payment whose outcome is unknown leaves that state only by the operator's
   reconciliation, and until then no card command of the payment is queued,
   neither a new charge nor a refund.  docs/ARCHITECTURE.md:96 *)
Dispatches(c) == command[c] = "none" /\ command'[c] # "none"

UnknownIsolated ==
    [][/\ \A a \in Ids : attempt[a].status = "UNKNOWN" =>
             \/ attempt'[a] = attempt[a]
             \/ attempt[a].type = "PAY" /\ attempt'[a].status = "APPROVED"
       /\ \A c \in Ids : Dispatches(c) => ~HasUnknown(attempt, attempt'[c].payment)]_vars

(* The rows live the life AttemptLifecycle promises, whatever the requests, the
   queue and the ACKs interleave: the terminal serves one row at a time, an
   unknown outcome keeps it, and a settled row is final. *)
Stage(row) ==
    CASE row.type = "NONE"                                      -> "absent"
      [] row.type # "NONE" /\ row.status = "PENDING"            -> "planned"
      [] row.status = "PROCESSING"                              -> "in_flight"
      [] row.status \in {"APPROVED", "COMPLETED", "CANCELLED"}  -> "settled"
      [] row.status \in {"DECLINED", "USER_CANCELLED", "ERROR", "BUSY"} -> "failed"
      [] row.status = "UNKNOWN"                                 -> "unknown"

Lifecycle == INSTANCE AttemptLifecycle
                 WITH Rows <- Ids, stage <- [a \in Ids |-> Stage(attempt[a])]

LifecycleSpec == Lifecycle!Spec

(* A refund always reverses a payment that stands in the ledger: the original
   row of a cancellation is a successful payment of the same reservation. *)
RefundHasOriginal ==
    \A c \in Ids : attempt[c].type = "CANCEL" =>
        LET a == attempt[c].orig
        IN  /\ a \in PayRows(attempt, attempt[c].payment)
            /\ attempt[a].status \in SuccessfulPay
            /\ attempt[a].amount = attempt[c].amount

Quiet == \A w \in Workers : At(w, "idle")

(* When requests are served one at a time the payments that stand never exceed
   what is owed, whatever is declined, retried, replanned or expires. *)
NoOverpayment == \A p \in Payments : CompletedAmount(attempt, p) <= Payable

(* Between requests payments.status is the status of the ledger.  The claim of
   a card row trusts it, so a stale value lets a paid reservation be charged. *)
SummaryCurrent ==
    Quiet => \A p \in Payments : Exists(p) =>
        payment[p].status \in {Whole(p, attempt), LedgerStatus(attempt, p, Payable)}

(* A command that has ended leaves no row in flight: the sync that expires a
   command also ends its row (app/api/agent/sync/route.ts:153).  That statement
   looks for PENDING rows, and a dispatched card row is PROCESSING. *)
EndedCommandEndsRow ==
    Quiet => \A c \in Ids : command[c] \in {"completed", "failed"} =>
        attempt[c].status # "PROCESSING"

=============================================================================
