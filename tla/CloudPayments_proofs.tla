-------------------------- MODULE CloudPayments_proofs --------------------------
(***************************************************************************)
(* Theorems of CloudPayments.  First that each step preserves the types,    *)
(* with the hold of the terminal; then what the steps do to the table: each  *)
(* changes it in one of six ways (Effect), and the theorems follow from what *)
(* these ways have in common.                                                *)
(***************************************************************************)
EXTENDS CloudPayments, TLAPS

(* The hold of the terminal: a row has it exactly while a transaction of it may
   be at the terminal, and a command that can still run belongs to such a row. *)
RowHold(a) ==
    /\ attempt[a].active <=> attempt[a].status \in {"PROCESSING", "UNKNOWN"}
    /\ attempt[a].type = "NONE" => attempt[a].status = "PENDING" /\ command[a] = "none"
    /\ Live(a) => attempt[a].status = "PROCESSING"

HoldInv ==
    /\ \A a \in Ids : RowHold(a)
    /\ \A a, b \in Ids : attempt[a].active /\ attempt[b].active => a = b

Applying(w) == req[w].pc \in {"ack_read", "ack_write"}

(* The command of the result that is applied has ended, its row has not been
   answered yet, and the result will end it. *)
Answering(w) ==
    /\ req[w].target \in Ids
    /\ attempt[req[w].target].status = "PROCESSING"
    /\ command[req[w].target] \in {"completed", "failed"}
    /\ req[w].status \notin {"PENDING", "PROCESSING"}

(* Only one request applies a result at a time. *)
AckInv ==
    /\ \A w \in Workers : Applying(w) => Answering(w)
    /\ \A v, w \in Workers : Applying(v) /\ Applying(w) => v = w

(* The row a request works on exists, and is a payment where it has to be. *)
TargetOk(w) ==
    /\ req[w].pc \in {"check", "execute", "retry_number", "retry_insert", "change"} =>
          req[w].target \in Ids /\ attempt[req[w].target].type # "NONE"
    /\ req[w].pc = "reconcile" =>
          req[w].target \in Ids /\ attempt[req[w].target].type = "PAY"
    /\ req[w].pc \in {"cancel_check", "cancel_insert"} =>
          /\ req[w].target \in Ids
          /\ attempt[req[w].target].type = "PAY"
          /\ attempt[req[w].target].status \in SuccessfulPay

TargetInv == \A w \in Workers : TargetOk(w)

IInv == TypeOK /\ HoldInv /\ AckInv /\ TargetInv

----------------------------------------------------------------------------
(* Lemmas on the operators of the ledger and of the handlers *)

(* The ledger gives a payment one of the seven statuses. *)
LEMMA WholeType ==
    ASSUME NEW p, NEW rows
    PROVE  Whole(p, rows) \in WholeStatuses
BY DEF Whole, WholeStatus, LedgerStatus, WholeStatuses

(* Every part of a plan is an amount and a method. *)
LEMMA PlanParts ==
    ASSUME NEW plan \in Plans \cup {<<>>}
    PROVE  /\ Len(plan) \in Nat
           /\ \A i \in 1..Len(plan) : plan[i].amount \in Nat /\ plan[i].method \in PayMethods
<1>1. CASE plan = <<>>
  BY <1>1
<1>2. CASE plan \in Plans
  <2> DEFINE Part == [amount : Nat \ {0}, method : PayMethods]
  <2>1. plan \in Seq(Part)
    BY <1>2, ConstantsAssumption
  <2>2. \A i \in 1..Len(plan) : plan[i] \in Part
    <3> HIDE DEF Part
    <3> QED BY <2>1
  <2> QED
    BY <2>1, <2>2
<1> QED
  BY <1>1, <1>2

(* A result of the bridge is applied as a status that ends the row. *)
LEMMA AppliedType ==
    ASSUME NEW type, NEW result \in Results
    PROVE  AppliedStatus(type, result) \in AttemptStatuses \ {"PENDING", "PROCESSING"}
BY ConstantsAssumption DEF AppliedStatus, AllResults, AttemptStatuses

(* An idle worker is a request record. *)
LEMMA IdleType == Idle \in Requests
BY ConstantsAssumption DEF Idle, Requests, Steps, Continuations, PayMethods, AttemptStatuses

(* A row not in use is a row record. *)
LEMMA NoRowType == NoRow \in AttemptRows
BY ConstantsAssumption DEF NoRow, AttemptRows, PayMethods, AttemptStatuses

(* Row ids are naturals. *)
LEMMA IdsNat == Ids \subseteq Nat
BY ConstantsAssumption DEF Ids

----------------------------------------------------------------------------
(* The shapes in which the handlers change the record of their request *)

(* Replacing the record of one worker keeps the type of req. *)
LEMMA RequestUpdate ==
    ASSUME NEW w \in Workers, req \in [Workers -> Requests],
           NEW r \in Requests, req' = [req EXCEPT ![w] = r]
    PROVE  req' \in [Workers -> Requests]
OBVIOUS

(* The records in which the handlers of a payment row start. *)
LEMMA StartType ==
    ASSUME NEW op \in AllOperations \cup {"none", "ack"}, NEW pc \in Steps,
           NEW p \in Payments \cup {NoPayment}, NEW a \in Nat,
           NEW k \in RequestKeys \cup {NoKey}, NEW m \in PayMethods
    PROVE  /\ [Idle EXCEPT !.op = op, !.pc = pc, !.payment = p, !.target = a] \in Requests
           /\ [Idle EXCEPT !.op = op, !.pc = pc, !.payment = p, !.target = a,
                           !.method = m] \in Requests
           /\ [Idle EXCEPT !.op = op, !.pc = pc, !.payment = p, !.target = a,
                           !.key = k] \in Requests
           /\ [Idle EXCEPT !.op = op, !.pc = pc, !.payment = p, !.target = a,
                           !.key = k, !.method = m] \in Requests
<1>1. [Idle EXCEPT !.op = op, !.pc = pc, !.payment = p, !.target = a] \in Requests
  BY IdleType DEF Requests
<1>2. [Idle EXCEPT !.op = op, !.pc = pc, !.payment = p, !.target = a,
                   !.method = m] \in Requests
  BY IdleType DEF Requests
<1>3. [Idle EXCEPT !.op = op, !.pc = pc, !.payment = p, !.target = a,
                   !.key = k] \in Requests
  BY IdleType DEF Requests
<1>4. [Idle EXCEPT !.op = op, !.pc = pc, !.payment = p, !.target = a,
                   !.key = k, !.method = m] \in Requests
  BY IdleType DEF Requests
<1> QED
  BY <1>1, <1>2, <1>3, <1>4

(* The record in which the handler of a full cancellation starts. *)
LEMMA StartPaymentType ==
    ASSUME NEW op \in AllOperations, NEW pc \in Steps, NEW p \in Payments
    PROVE  [Idle EXCEPT !.op = op, !.pc = pc, !.payment = p] \in Requests
BY IdleType DEF Requests

(* The record in which preparePaymentPlan starts. *)
LEMMA StartPlanType ==
    ASSUME NEW op \in AllOperations, NEW pc \in Steps, NEW p \in Payments,
           NEW plan \in Plans, NEW whole \in WholeStatuses \cup {"NONE"}
    PROVE  [Idle EXCEPT !.op = op, !.pc = pc, !.payment = p, !.plan = plan,
                        !.whole = whole] \in Requests
BY IdleType DEF Requests

(* The record in which an ACK starts. *)
LEMMA StartAckType ==
    ASSUME NEW pc \in Steps, NEW p \in Payments \cup {NoPayment}, NEW a \in Nat,
           NEW status \in AttemptStatuses
    PROVE  [Idle EXCEPT !.op = "ack", !.pc = pc, !.payment = p, !.target = a,
                        !.status = status] \in Requests
BY IdleType DEF Requests

(* A record whose fields get values of their types keeps its type. *)
LEMMA FieldType ==
    ASSUME NEW r \in Requests, NEW pc \in Steps
    PROVE  /\ [r EXCEPT !.pc = pc] \in Requests
           /\ \A next \in Continuations : [r EXCEPT !.pc = pc, !.next = next] \in Requests
           /\ \A n \in Nat : [r EXCEPT !.number = n, !.pc = pc] \in Requests
           /\ \A n \in Nat : [r EXCEPT !.target = n, !.pc = pc] \in Requests
           /\ \A n \in Nat, k \in RequestKeys \cup {NoKey} :
                 [r EXCEPT !.target = n, !.key = k, !.pc = pc] \in Requests
           /\ \A whole \in WholeStatuses \cup {"NONE"} :
                 [r EXCEPT !.whole = whole, !.pc = pc] \in Requests
           /\ \A whole \in WholeStatuses \cup {"NONE"} :
                 [r EXCEPT !.pc = pc, !.whole = whole] \in Requests
           /\ \A next \in Continuations, whole \in WholeStatuses \cup {"NONE"} :
                 [r EXCEPT !.pc = pc, !.next = next, !.whole = whole] \in Requests
BY DEF Requests

(* Goto keeps the type of req. *)
LEMMA GotoType ==
    ASSUME req \in [Workers -> Requests], NEW w \in Workers, NEW pc \in Steps, Goto(w, pc)
    PROVE  req' \in [Workers -> Requests]
<1>1. [req[w] EXCEPT !.pc = pc] \in Requests
  BY FieldType
<1> QED
  BY <1>1, RequestUpdate DEF Goto

(* Throw keeps the type of req. *)
LEMMA ThrowType ==
    ASSUME req \in [Workers -> Requests], NEW w \in Workers, Throw(w)
    PROVE  req' \in [Workers -> Requests]
BY IdleType, RequestUpdate DEF Throw

(* Return keeps the type of req. *)
LEMMA ReturnType ==
    ASSUME req \in [Workers -> Requests], NEW w \in Workers, Return(w)
    PROVE  req' \in [Workers -> Requests]
<1>1. "respond" \in Steps
  BY DEF Steps
<1>2. [req[w] EXCEPT !.pc = "respond"] \in Requests
  BY <1>1, FieldType
<1> QED
  BY <1>2, IdleType, RequestUpdate DEF Return

(* Sync keeps the type of req. *)
LEMMA SyncType ==
    ASSUME req \in [Workers -> Requests], NEW w \in Workers, NEW after \in Continuations, Sync(w, after)
    PROVE  req' \in [Workers -> Requests]
<1>1. "sync_read" \in Steps
  BY DEF Steps
<1>2. [req[w] EXCEPT !.pc = "sync_read", !.next = after] \in Requests
  BY <1>1, FieldType
<1> QED
  BY <1>2, RequestUpdate DEF Sync

(* A step that changes req alone keeps the types of the tables. *)
LEMMA OnlyRequest ==
    ASSUME TypeOK, UNCHANGED <<payment, attempt, command>>, req' \in [Workers -> Requests]
    PROVE  TypeOK'
BY DEF TypeOK

(* The shapes in which they change the tables *)

(* Replacing one row keeps the type of attempt. *)
LEMMA RowUpdate ==
    ASSUME attempt \in [Ids -> AttemptRows], NEW a \in Nat,
           NEW row, a \in Ids => row \in AttemptRows
    PROVE  [attempt EXCEPT ![a] = row] \in [Ids -> AttemptRows]
OBVIOUS

(* Replacing the status of one command keeps the type of command. *)
LEMMA CommandUpdate ==
    ASSUME command \in [Ids -> CommandStatuses], NEW a, NEW status \in CommandStatuses
    PROVE  [command EXCEPT ![a] = status] \in [Ids -> CommandStatuses]
OBVIOUS

(* Writing a whole status keeps the type of payment. *)
LEMMA StatusUpdate ==
    ASSUME payment \in [Payments -> PaymentRows], NEW p,
           NEW status \in WholeStatuses \cup {"NONE"}
    PROVE  [payment EXCEPT ![p].status = status] \in [Payments -> PaymentRows]
BY DEF PaymentRows

(* A row inserted by a plan or a retry is a row record. *)
LEMMA NewRowType ==
    ASSUME NEW p \in Payments \cup {NoPayment}, NEW split \in Nat, NEW number \in Nat,
           NEW amount \in Nat, NEW method \in PayMethods,
           NEW key \in RequestKeys \cup {NoKey}
    PROVE  /\ NewRow(p, split, number, amount, method) \in AttemptRows
           /\ [NewRow(p, split, number, amount, method) EXCEPT !.key = key] \in AttemptRows
BY NoRowType DEF NewRow, AttemptRows

(* A row inserted by a cancellation is a row record. *)
LEMMA CancelRowType ==
    ASSUME NEW original \in AttemptRows, NEW a \in Nat,
           NEW key \in RequestKeys \cup {NoKey}, NEW active \in BOOLEAN,
           NEW status \in AttemptStatuses
    PROVE  CancelRow(original, a, key, status, active) \in AttemptRows
BY DEF CancelRow, AttemptRows

(* A row that gets a status and keeps or frees the terminal is a row record. *)
LEMMA RowStatusType ==
    ASSUME NEW row \in AttemptRows, NEW status \in AttemptStatuses, NEW active \in BOOLEAN
    PROVE  [row EXCEPT !.status = status, !.active = active] \in AttemptRows
BY DEF AttemptRows

(* A row whose fields get values of their types is a row record. *)
LEMMA RowFieldType ==
    ASSUME NEW row \in AttemptRows, NEW status \in AttemptStatuses,
           NEW active \in BOOLEAN, NEW key \in RequestKeys \cup {NoKey},
           NEW method \in PayMethods
    PROVE  /\ [row EXCEPT !.status = status] \in AttemptRows
           /\ [row EXCEPT !.method = method] \in AttemptRows
           /\ [row EXCEPT !.status = status, !.active = active] \in AttemptRows
           /\ [row EXCEPT !.status = status, !.key = key] \in AttemptRows
           /\ [row EXCEPT !.status = status, !.active = active, !.key = key] \in AttemptRows
BY DEF AttemptRows

----------------------------------------------------------------------------
(* Requests that start *)

(* A request of the screens that starts keeps the types. *)
LEMMA ApiRequestType ==
    ASSUME TypeOK, NEW w \in ApiWorkers, ApiRequest(w)
    PROVE  TypeOK'
<1> USE DEF Workers
<1>t. \A a \in Ids : a \in Nat /\ attempt[a].method \in PayMethods
  BY IdsNat DEF TypeOK, AttemptRows
<1>o. \A op \in Operations : op \in AllOperations
  BY ConstantsAssumption
<1>1. ASSUME NEW p \in Payments, NEW plan \in Plans, PrepareRead(w, p, plan)
      PROVE  TypeOK'
  <2>1. "plan_number" \in Steps /\ "prepare" \in AllOperations
    BY DEF Steps, AllOperations
  <2>2. payment[p].status \in WholeStatuses \cup {"NONE"}
    BY DEF TypeOK, PaymentRows
  <2>3. req' \in [Workers -> Requests]
    BY <1>1, <2>1, <2>2, StartPlanType, RequestUpdate DEF TypeOK, PrepareRead
  <2> QED
    BY <1>1, <2>3, OnlyRequest DEF PrepareRead
<1>2. ASSUME NEW p \in Payments, NEW a \in Ids, NEW k \in RequestKeys,
             ProcessRead(w, p, a, k) \/ StartPrepared(w, p, a, k)
      PROVE  TypeOK'
  <2>1. "check" \in Steps /\ {"process", "start"} \subseteq AllOperations
    BY DEF Steps, AllOperations
  <2>2. CASE ProcessRead(w, p, a, k)
    <3>1. req' \in [Workers -> Requests]
      BY <2>2, <1>t, <2>1, StartType, RequestUpdate DEF TypeOK, ProcessRead
    <3> QED
      BY <2>2, <3>1, OnlyRequest DEF ProcessRead
  <2>3. CASE StartPrepared(w, p, a, k)
    <3>1. req' \in [Workers -> Requests]
      BY <2>3, <1>t, <2>1, StartType, RequestUpdate DEF TypeOK, StartPrepared
    <3> QED
      BY <2>3, <3>1, OnlyRequest DEF StartPrepared
  <2> QED
    BY <1>2, <2>2, <2>3
<1>3. ASSUME NEW p \in Payments, NEW a \in Ids, NEW k \in RequestKeys, CancelRead(w, p, a, k)
      PROVE  TypeOK'
  <2>1. "cancel_check" \in Steps /\ "cancel" \in AllOperations
    BY DEF Steps, AllOperations
  <2>2. req' \in [Workers -> Requests]
    BY <1>3, <1>t, <2>1, StartType, RequestUpdate DEF TypeOK, CancelRead
  <2> QED
    BY <1>3, <2>2, OnlyRequest DEF CancelRead
<1>4. ASSUME NEW p \in Payments, NEW a \in Ids, NEW k \in RequestKeys,
             NEW op \in Operations, NEW m \in PayMethods, RetryRead(w, op, p, a, k, m)
      PROVE  TypeOK'
  <2>1. "retry_number" \in Steps
    BY DEF Steps
  <2>2. req' \in [Workers -> Requests]
    BY <1>4, <1>t, <1>o, <2>1, StartType, RequestUpdate DEF TypeOK, RetryRead
  <2> QED
    BY <1>4, <2>2, OnlyRequest DEF RetryRead
<1>5. ASSUME NEW p \in Payments, NEW a \in Ids, NEW m \in PayMethods, ChangeRead(w, p, a, m)
      PROVE  TypeOK'
  <2>1. "change" \in Steps /\ "change_method" \in AllOperations
    BY DEF Steps, AllOperations
  <2>2. req' \in [Workers -> Requests]
    BY <1>5, <1>t, <2>1, StartType, RequestUpdate DEF TypeOK, ChangeRead
  <2> QED
    BY <1>5, <2>2, OnlyRequest DEF ChangeRead
<1>6. ASSUME NEW p \in Payments, NEW a \in Ids, ReconcileRead(w, p, a)
      PROVE  TypeOK'
  <2>1. "reconcile" \in Steps /\ "reconcile" \in AllOperations
    BY DEF Steps, AllOperations
  <2>2. req' \in [Workers -> Requests]
    BY <1>6, <1>t, <2>1, StartType, RequestUpdate DEF TypeOK, ReconcileRead
  <2> QED
    BY <1>6, <2>2, OnlyRequest DEF ReconcileRead
<1>7. ASSUME NEW p \in Payments, FullRead(w, p)
      PROVE  TypeOK'
  <2>1. "full_flag" \in Steps /\ "full" \in AllOperations
    BY DEF Steps, AllOperations
  <2>2. req' \in [Workers -> Requests]
    BY <1>7, <2>1, StartPaymentType, RequestUpdate DEF TypeOK, FullRead
  <2> QED
    BY <1>7, <2>2, OnlyRequest DEF FullRead
<1> QED
  BY <1>1, <1>2, <1>3, <1>4, <1>5, <1>6, <1>7 DEF ApiRequest

----------------------------------------------------------------------------
(* The steps that follow *)

(* The steps of preparePaymentPlan keep the types. *)
LEMMA PlanStepType ==
    ASSUME TypeOK, NEW w \in Workers,
           PrepareNumber(w) \/ PrepareWrite(w) \/ PrepareReadback(w)
    PROVE  TypeOK'
<1>r. req[w] \in Requests
  BY DEF TypeOK
<1>1. CASE PrepareNumber(w)
  <2>1. "plan_write" \in Steps
    BY DEF Steps
  <2>2. PICK n \in 1..(MaxAttempts + 1) : req' = [req EXCEPT ![w].number = n, ![w].pc = "plan_write"]
    BY <1>1 DEF PrepareNumber
  <2>3. n \in Nat
    BY <2>2, ConstantsAssumption
  <2>4. [req[w] EXCEPT !.number = n, !.pc = "plan_write"] \in Requests
    BY <1>r, <2>1, <2>3, FieldType
  <2>5. req' \in [Workers -> Requests]
    BY <2>2, <2>4, RequestUpdate DEF TypeOK
  <2> QED
    BY <1>1, <2>5, OnlyRequest DEF PrepareNumber
<1>2. CASE PrepareWrite(w)
  <2> DEFINE r == req[w]
             p == r.payment
  <2>s. "plan_readback" \in Steps
    BY DEF Steps
  <2>1. CASE Throw(w) /\ UNCHANGED <<payment, attempt, command>>
    <3>1. req' \in [Workers -> Requests]
      BY <2>1, ThrowType DEF TypeOK
    <3> QED
      BY <2>1, <3>1, OnlyRequest
  <2>2. ASSUME NEW f \in Ids, f + Len(r.plan) - 1 <= MaxAttempts,
               attempt' = [a \in Ids |->
                   IF a >= f /\ a < f + Len(r.plan)
                   THEN NewRow(p, a - f + 1, r.number + a - f,
                               r.plan[a - f + 1].amount, r.plan[a - f + 1].method)
                   ELSE IF attempt[a].payment = p /\ attempt[a].type = "PAY" /\
                            attempt[a].status \in {"PENDING", "DECLINED", "USER_CANCELLED", "ERROR"}
                   THEN [attempt[a] EXCEPT !.status = "USER_CANCELLED", !.active = FALSE]
                   ELSE attempt[a]],
               payment' = [payment EXCEPT ![p] =
                   [status |-> IF Payable = 0 THEN "PAID" ELSE "PENDING",
                    splits |-> Len(r.plan), full |-> FALSE, planner |-> w]],
               Goto(w, "plan_readback"), UNCHANGED command
        PROVE  TypeOK'
    <3>1. r.plan \in Plans \cup {<<>>} /\ p \in Payments \cup {NoPayment} /\ r.number \in Nat
      BY <1>r DEF Requests
    <3>2. /\ Len(r.plan) \in Nat
          /\ \A i \in 1..Len(r.plan) : r.plan[i].amount \in Nat /\ r.plan[i].method \in PayMethods
      BY <3>1, PlanParts
    <3>3. req' \in [Workers -> Requests]
      BY <2>2, <2>s, GotoType DEF TypeOK
    <3>4. payment' \in [Payments -> PaymentRows]
      <4>1. [status |-> IF Payable = 0 THEN "PAID" ELSE "PENDING",
             splits |-> Len(r.plan), full |-> FALSE, planner |-> w] \in PaymentRows
        BY <3>2 DEF PaymentRows, WholeStatuses
      <4> QED
        BY <2>2, <4>1 DEF TypeOK
    <3>5. ASSUME NEW a \in Ids
          PROVE  attempt'[a] \in AttemptRows
      <4>1. a \in Nat /\ f \in Nat
        BY <2>2, IdsNat
      <4>2. attempt[a] \in AttemptRows
        BY DEF TypeOK
      <4>3. CASE a >= f /\ a < f + Len(r.plan)
        <5>1. a - f + 1 \in 1..Len(r.plan) /\ a - f + 1 \in Nat /\ r.number + a - f \in Nat
          BY <4>1, <4>3, <3>1, <3>2
        <5>2. r.plan[a - f + 1].amount \in Nat /\ r.plan[a - f + 1].method \in PayMethods
          BY <5>1, <3>2
        <5>3. NewRow(p, a - f + 1, r.number + a - f,
                     r.plan[a - f + 1].amount, r.plan[a - f + 1].method) \in AttemptRows
          BY <5>1, <5>2, <3>1, NewRowType
        <5> QED
          BY <2>2, <4>3, <5>3
      <4>4. [attempt[a] EXCEPT !.status = "USER_CANCELLED", !.active = FALSE] \in AttemptRows
        BY <4>2 DEF AttemptRows, AttemptStatuses
      <4> QED
        BY <2>2, <4>2, <4>3, <4>4
    <3> QED
      BY <2>2, <3>3, <3>4, <3>5 DEF TypeOK
  <2> QED
    BY <1>2, <2>1, <2>2 DEF PrepareWrite
<1>3. CASE PrepareReadback(w)
  <2>1. "sync_write" \in Steps /\ "idle" \in Continuations
    BY DEF Steps, Continuations
  <2>2. CASE Throw(w)
    BY <1>3, <2>2, ThrowType, OnlyRequest DEF TypeOK, PrepareReadback
  <2>3. CASE ~Throw(w)
    <3> DEFINE whole == Whole(req[w].payment, attempt)
    <3>1. req' = [req EXCEPT ![w].pc = "sync_write", ![w].next = "idle", ![w].whole = whole]
      BY <1>3, <2>3 DEF PrepareReadback
    <3>2. whole \in WholeStatuses \cup {"NONE"}
      BY WholeType
    <3>3. [req[w] EXCEPT !.pc = "sync_write", !.next = "idle", !.whole = whole] \in Requests
      <4> HIDE DEF whole
      <4> QED BY <1>r, <2>1, <3>2, FieldType
    <3>4. req' \in [Workers -> Requests]
      BY <3>1, <3>3, RequestUpdate DEF TypeOK
    <3> QED
      BY <1>3, <3>4, OnlyRequest DEF PrepareReadback
  <2> QED
    BY <2>2, <2>3
<1> QED
  BY <1>1, <1>2, <1>3

(* The steps of executePaymentAttempt keep the types. *)
LEMMA ExecuteType ==
    ASSUME TypeOK, NEW w \in Workers, ExecuteCheck(w) \/ ExecuteCard(w) \/ ExecuteManual(w)
    PROVE  TypeOK'
<1> DEFINE r == req[w]
           row == attempt[r.target]
<1>r. r \in Requests
  BY DEF TypeOK
<1>t. r.target \in Nat /\ r.key \in RequestKeys \cup {NoKey}
  BY <1>r DEF Requests
<1>a. r.target \in Ids => row \in AttemptRows
  BY DEF TypeOK
<1>1. CASE ExecuteCheck(w)
  <2>1. "execute" \in Steps
    BY DEF Steps
  <2>2. req' \in [Workers -> Requests]
    BY <1>1, <2>1, ThrowType, GotoType DEF TypeOK, ExecuteCheck
  <2> QED
    BY <1>1, <2>2, OnlyRequest DEF ExecuteCheck
<1>2. CASE ExecuteCard(w)
  <2>1. req' \in [Workers -> Requests]
    BY <1>2, ThrowType DEF TypeOK, ExecuteCard
  <2>2. CASE UNCHANGED <<attempt, command>>
    BY <1>2, <2>1, <2>2, OnlyRequest DEF ExecuteCard
  <2>3. CASE /\ attempt' = [attempt EXCEPT ![r.target] =
                   [@ EXCEPT !.status = "PROCESSING", !.active = TRUE, !.key = r.key]]
             /\ command' = [command EXCEPT ![r.target] = "pending"]
    <3>1. "PROCESSING" \in AttemptStatuses /\ "pending" \in CommandStatuses
      BY DEF AttemptStatuses, CommandStatuses
    <3>2. r.target \in Ids =>
            [row EXCEPT !.status = "PROCESSING", !.active = TRUE, !.key = r.key] \in AttemptRows
      BY <1>a, <1>t, <3>1, RowFieldType DEF AttemptRows
    <3>3. attempt' \in [Ids -> AttemptRows]
      BY <2>3, <1>t, <3>2, RowUpdate DEF TypeOK
    <3>4. command' \in [Ids -> CommandStatuses]
      BY <2>3, <3>1, CommandUpdate DEF TypeOK
    <3> QED
      BY <1>2, <2>1, <3>3, <3>4 DEF TypeOK, ExecuteCard
  <2> QED
    BY <1>2, <2>2, <2>3 DEF ExecuteCard
<1>3. CASE ExecuteManual(w)
  <2>1. "idle" \in Continuations
    BY DEF Continuations
  <2>2. req' \in [Workers -> Requests]
    BY <1>3, <2>1, ThrowType, SyncType DEF TypeOK, ExecuteManual
  <2>3. CASE UNCHANGED attempt
    BY <1>3, <2>2, <2>3, OnlyRequest DEF ExecuteManual
  <2>4. CASE attempt' = [attempt EXCEPT ![r.target] =
                            [@ EXCEPT !.status = "COMPLETED", !.key = r.key]]
    <3>1. "COMPLETED" \in AttemptStatuses
      BY DEF AttemptStatuses
    <3>2. r.target \in Ids =>
            [row EXCEPT !.status = "COMPLETED", !.key = r.key] \in AttemptRows
      BY <1>a, <1>t, <3>1, RowFieldType DEF AttemptRows
    <3>3. attempt' \in [Ids -> AttemptRows]
      BY <2>4, <1>t, <3>2, RowUpdate DEF TypeOK
    <3> QED
      BY <1>3, <2>2, <3>3 DEF TypeOK, ExecuteManual
  <2> QED
    BY <1>3, <2>3, <2>4 DEF ExecuteManual
<1> QED
  BY <1>1, <1>2, <1>3

(* The steps of a retry and of a change of method keep the types. *)
LEMMA RetryType ==
    ASSUME TypeOK, TargetInv, NEW w \in Workers,
           RetryNumber(w) \/ RetryInsert(w) \/ ChangeWrite(w)
    PROVE  TypeOK'
<1> DEFINE r == req[w]
           original == attempt[r.target]
           row == NewRow(r.payment, original.split, r.number, original.amount, r.method)
<1>r. r \in Requests
  BY DEF TypeOK
<1>t. /\ r.target \in Nat /\ r.number \in Nat /\ r.key \in RequestKeys \cup {NoKey}
      /\ r.payment \in Payments \cup {NoPayment} /\ r.method \in PayMethods
  BY <1>r DEF Requests
<1>1. CASE RetryNumber(w)
  <2>1. "retry_insert" \in Steps
    BY DEF Steps
  <2>2. PICK n \in 1..(MaxAttempts + 1) : req' = [req EXCEPT ![w].number = n, ![w].pc = "retry_insert"]
    BY <1>1 DEF RetryNumber
  <2>3. n \in Nat
    BY <2>2, ConstantsAssumption
  <2>4. [r EXCEPT !.number = n, !.pc = "retry_insert"] \in Requests
    BY <1>r, <2>1, <2>3, FieldType
  <2>5. req' \in [Workers -> Requests]
    BY <2>2, <2>4, RequestUpdate DEF TypeOK
  <2> QED
    BY <1>1, <2>5, OnlyRequest DEF RetryNumber
<1>2. CASE RetryInsert(w)
  <2>1. original \in AttemptRows
    BY <1>2 DEF TypeOK, TargetInv, TargetOk, RetryInsert, At
  <2>2. original.split \in Nat /\ original.amount \in Nat
    BY <2>1 DEF AttemptRows
  <2>3. row \in AttemptRows /\ [row EXCEPT !.key = r.key] \in AttemptRows
    BY <1>t, <2>2, NewRowType
  <2>4. ASSUME NEW f \in Ids, attempt' = [attempt EXCEPT ![f] = row],
               req' = [req EXCEPT ![w].target = f, ![w].pc = "check"]
        PROVE  TypeOK'
    <3>1. "check" \in Steps /\ f \in Nat
      BY IdsNat DEF Steps
    <3>2. [r EXCEPT !.target = f, !.pc = "check"] \in Requests
      BY <1>r, <3>1, FieldType
    <3>3. req' \in [Workers -> Requests]
      BY <2>4, <3>2, RequestUpdate DEF TypeOK
    <3>4. attempt' \in [Ids -> AttemptRows]
      <4> HIDE DEF row
      <4> QED BY <2>3, <2>4, <3>1, RowUpdate DEF TypeOK
    <3> QED
      BY <1>2, <3>3, <3>4 DEF TypeOK, RetryInsert
  <2>5. ASSUME NEW f \in Ids, attempt' = [attempt EXCEPT ![f] = [row EXCEPT !.key = r.key]],
               Throw(w)
        PROVE  TypeOK'
    <3>1. f \in Nat
      BY IdsNat
    <3>2. req' \in [Workers -> Requests]
      BY <2>5, ThrowType DEF TypeOK
    <3>3. attempt' \in [Ids -> AttemptRows]
      BY <2>3, <2>5, <3>1, RowUpdate DEF TypeOK
    <3> QED
      BY <1>2, <3>2, <3>3 DEF TypeOK, RetryInsert
  <2>6. CASE Throw(w) /\ UNCHANGED attempt
    BY <1>2, <2>6, ThrowType, OnlyRequest DEF TypeOK, RetryInsert
  <2> QED
    BY <1>2, <2>4, <2>5, <2>6 DEF RetryInsert
<1>3. CASE ChangeWrite(w)
  <2>1. req' \in [Workers -> Requests]
    BY <1>3, ThrowType DEF TypeOK, ChangeWrite
  <2>2. CASE UNCHANGED attempt
    BY <1>3, <2>1, <2>2, OnlyRequest DEF ChangeWrite
  <2>3. CASE attempt' = [attempt EXCEPT ![r.target].method = r.method]
    <3>1. r.target \in Ids => [original EXCEPT !.method = r.method] \in AttemptRows
      BY <1>t DEF TypeOK, AttemptRows
    <3>2. attempt' \in [Ids -> AttemptRows]
      BY <2>3, <1>t, <3>1, RowUpdate DEF TypeOK
    <3> QED
      BY <1>3, <2>1, <3>2 DEF TypeOK, ChangeWrite
  <2> QED
    BY <1>3, <2>2, <2>3 DEF ChangeWrite
<1> QED
  BY <1>1, <1>2, <1>3

(* The steps of createCancellation keep the types. *)
LEMMA CancelType ==
    ASSUME TypeOK, TargetInv, NEW w \in Workers, CancelCheck(w) \/ CancelInsert(w)
    PROVE  TypeOK'
<1> DEFINE r == req[w]
           original == attempt[r.target]
<1>r. r \in Requests
  BY DEF TypeOK
<1>t. r.target \in Nat /\ r.key \in RequestKeys \cup {NoKey}
  BY <1>r DEF Requests
<1>s. {"advance", "cancel_insert"} \subseteq Steps /\ {"advance", "idle"} \subseteq Continuations
  BY DEF Steps, Continuations
<1>1. CASE CancelCheck(w)
  <2>1. req' \in [Workers -> Requests]
    BY <1>1, <1>s, ThrowType, GotoType, ReturnType DEF TypeOK, CancelCheck
  <2> QED
    BY <1>1, <2>1, OnlyRequest DEF CancelCheck
<1>2. CASE CancelInsert(w)
  <2>1. original \in AttemptRows
    BY <1>2 DEF TypeOK, TargetInv, TargetOk, CancelInsert, At
  <2>2. \A status \in AttemptStatuses, active \in BOOLEAN :
           CancelRow(original, r.target, r.key, status, active) \in AttemptRows
    BY <2>1, <1>t, CancelRowType
  <2>3. {"PROCESSING", "CANCELLED"} \subseteq AttemptStatuses /\ "pending" \in CommandStatuses
    BY DEF AttemptStatuses, CommandStatuses
  <2>4. ASSUME NEW f \in Ids, Return(w),
               attempt' = [attempt EXCEPT ![f] =
                   CancelRow(original, r.target, r.key, "PROCESSING", TRUE)],
               command' = [command EXCEPT ![f] = "pending"]
        PROVE  TypeOK'
    <3>1. CancelRow(original, r.target, r.key, "PROCESSING", TRUE) \in AttemptRows /\ f \in Nat
      BY <2>2, <2>3, IdsNat
    <3>2. attempt' \in [Ids -> AttemptRows]
      BY <2>4, <3>1, RowUpdate DEF TypeOK
    <3>3. req' \in [Workers -> Requests] /\ command' \in [Ids -> CommandStatuses]
      BY <2>4, <2>3, ReturnType, CommandUpdate DEF TypeOK
    <3> QED
      BY <1>2, <3>2, <3>3 DEF TypeOK, CancelInsert
  <2>5. ASSUME NEW f \in Ids, UNCHANGED command,
               Sync(w, IF r.op = "cancel" THEN "idle" ELSE "advance"),
               attempt' = [attempt EXCEPT ![f] =
                   CancelRow(original, r.target, r.key, "CANCELLED", FALSE)]
        PROVE  TypeOK'
    <3>1. CancelRow(original, r.target, r.key, "CANCELLED", FALSE) \in AttemptRows /\ f \in Nat
      BY <2>2, <2>3, IdsNat
    <3>2. attempt' \in [Ids -> AttemptRows]
      BY <2>5, <3>1, RowUpdate DEF TypeOK
    <3>3. req' \in [Workers -> Requests]
      BY <2>5, <1>s, SyncType DEF TypeOK
    <3> QED
      BY <1>2, <2>5, <3>2, <3>3 DEF TypeOK, CancelInsert
  <2>6. CASE Throw(w) /\ UNCHANGED <<attempt, command>>
    BY <1>2, <2>6, ThrowType, OnlyRequest DEF TypeOK, CancelInsert
  <2> QED
    BY <1>2, <2>4, <2>5, <2>6 DEF CancelInsert
<1> QED
  BY <1>1, <1>2

(* The steps of a full cancellation keep the types. *)
LEMMA FullType ==
    ASSUME TypeOK, NEW w \in Workers, FullFlag(w) \/ Advance(w) \/ FullFinish(w)
    PROVE  TypeOK'
<1> DEFINE r == req[w]
<1>r. r \in Requests
  BY DEF TypeOK
<1>s. /\ {"advance", "cancel_check", "full_finish"} \subseteq Steps
      /\ {"respond", "idle"} \subseteq Continuations
  BY DEF Steps, Continuations
<1>1. CASE FullFlag(w)
  <2>1. req' \in [Workers -> Requests]
    BY <1>1, <1>s, GotoType DEF TypeOK, FullFlag
  <2>2. payment' \in [Payments -> PaymentRows]
    BY <1>1 DEF TypeOK, FullFlag, PaymentRows
  <2> QED
    BY <1>1, <2>1, <2>2 DEF TypeOK, FullFlag
<1>2. CASE Advance(w)
  <2>1. CASE Throw(w) \/ Return(w) \/ Goto(w, "full_finish")
    <3>1. req' \in [Workers -> Requests]
      BY <2>1, <1>s, ThrowType, ReturnType, GotoType DEF TypeOK
    <3> QED
      BY <1>2, <3>1, OnlyRequest DEF Advance
  <2>2. ASSUME NEW a \in Completed(attempt, r.payment),
               req' = [req EXCEPT ![w].target = a, ![w].key = NoKey, ![w].pc = "cancel_check"]
        PROVE  TypeOK'
    <3>1. a \in Nat
      BY IdsNat DEF TypeOK, Completed, PayRows, RowsOf
    <3>2. [r EXCEPT !.target = a, !.key = NoKey, !.pc = "cancel_check"] \in Requests
      BY <1>r, <1>s, <3>1, FieldType
    <3>3. req' \in [Workers -> Requests]
      BY <2>2, <3>2, RequestUpdate DEF TypeOK
    <3> QED
      BY <1>2, <3>3, OnlyRequest DEF Advance
  <2> QED
    BY <1>2, <2>1, <2>2 DEF Advance
<1>3. CASE FullFinish(w)
  <2>1. req' \in [Workers -> Requests]
    BY <1>3, <1>s, SyncType DEF TypeOK, FullFinish
  <2>2. payment' \in [Payments -> PaymentRows]
    BY <1>3 DEF TypeOK, FullFinish, PaymentRows, WholeStatuses
  <2> QED
    BY <1>3, <2>1, <2>2 DEF TypeOK, FullFinish
<1> QED
  BY <1>1, <1>2, <1>3

(* The steps of syncReservationPaymentSummary keep the types. *)
LEMMA SyncStepType ==
    ASSUME TypeOK, NEW w \in Workers, SyncRead(w) \/ SyncWrite(w) \/ AckRead(w)
    PROVE  TypeOK'
<1> DEFINE r == req[w]
<1>r. r \in Requests
  BY DEF TypeOK
<1>s. /\ {"sync_write", "ack_write"} \subseteq Steps /\ "idle" \in Continuations
      /\ Continuations \subseteq Steps
  BY DEF Steps, Continuations
<1>1. CASE SyncRead(w)
  <2> DEFINE whole == Whole(r.payment, attempt)
  <2>1. req' = [req EXCEPT ![w].whole = whole, ![w].pc = "sync_write"]
    BY <1>1 DEF SyncRead
  <2>2. whole \in WholeStatuses \cup {"NONE"}
    BY WholeType
  <2>3. [r EXCEPT !.whole = whole, !.pc = "sync_write"] \in Requests
    <3> HIDE DEF whole
    <3> QED BY <1>r, <1>s, <2>2, FieldType
  <2>4. req' \in [Workers -> Requests]
    BY <2>1, <2>3, RequestUpdate DEF TypeOK
  <2> QED
    BY <1>1, <2>4, OnlyRequest DEF SyncRead
<1>2. CASE SyncWrite(w)
  <2>1. r.whole \in WholeStatuses \cup {"NONE"} /\ r.next \in Continuations /\ r.next \in Steps
    BY <1>r, <1>s DEF Requests
  <2>2. payment' \in [Payments -> PaymentRows]
    BY <1>2, <2>1, StatusUpdate DEF TypeOK, SyncWrite
  <2>3. [r EXCEPT !.pc = r.next, !.next = "idle", !.whole = "NONE"] \in Requests
    BY <1>r, <1>s, <2>1, FieldType
  <2>4. req' \in [Workers -> Requests]
    BY <1>2, <2>3, IdleType, RequestUpdate DEF TypeOK, SyncWrite
  <2> QED
    BY <1>2, <2>2, <2>4 DEF TypeOK, SyncWrite
<1>3. CASE AckRead(w)
  <2> DEFINE whole == Whole(r.payment, Applied(w, attempt))
  <2>1. req' = [req EXCEPT ![w].pc = "ack_write", ![w].whole = whole]
    BY <1>3 DEF AckRead
  <2>2. whole \in WholeStatuses \cup {"NONE"}
    BY WholeType
  <2>3. [r EXCEPT !.pc = "ack_write", !.whole = whole] \in Requests
    <3> HIDE DEF whole
    <3> QED BY <1>r, <1>s, <2>2, FieldType
  <2>4. req' \in [Workers -> Requests]
    BY <2>1, <2>3, RequestUpdate DEF TypeOK
  <2> QED
    BY <1>3, <2>4, OnlyRequest DEF AckRead
<1> QED
  BY <1>1, <1>2, <1>3

(* The steps of a reconciliation and of an applied ACK keep the types. *)
LEMMA OutcomeType ==
    ASSUME TypeOK, NEW w \in Workers, ReconcileWrite(w) \/ AckWrite(w) \/ AckResume(w)
    PROVE  TypeOK'
<1> DEFINE r == req[w]
           row == attempt[r.target]
<1>r. r \in Requests
  BY DEF TypeOK
<1>t. /\ r.target \in Nat /\ r.status \in AttemptStatuses
      /\ r.whole \in WholeStatuses \cup {"NONE"}
  BY <1>r DEF Requests
<1>s. {"advance", "respond"} \subseteq Steps /\ {"resume", "idle"} \subseteq Continuations
  BY DEF Steps, Continuations
<1>1. CASE ReconcileWrite(w)
  <2>1. req' \in [Workers -> Requests]
    BY <1>1, <1>s, ThrowType, SyncType DEF TypeOK, ReconcileWrite
  <2>2. CASE UNCHANGED attempt
    BY <1>1, <2>1, <2>2, OnlyRequest DEF ReconcileWrite
  <2>3. CASE attempt' = [attempt EXCEPT ![r.target] =
                            [@ EXCEPT !.status = "APPROVED", !.active = FALSE]]
    <3>1. r.target \in Ids => [row EXCEPT !.status = "APPROVED", !.active = FALSE] \in AttemptRows
      <4>1. "APPROVED" \in AttemptStatuses
        BY DEF AttemptStatuses
      <4> QED
        BY <4>1 DEF TypeOK, AttemptRows
    <3>2. attempt' \in [Ids -> AttemptRows]
      BY <2>3, <1>t, <3>1, RowUpdate DEF TypeOK
    <3> QED
      BY <1>1, <2>1, <3>2 DEF TypeOK, ReconcileWrite
  <2> QED
    BY <1>1, <2>2, <2>3 DEF ReconcileWrite
<1>2. CASE AckWrite(w)
  <2>1. req' \in [Workers -> Requests]
    BY <1>2, <1>s, SyncType DEF TypeOK, AckWrite
  <2>2. payment' \in [Payments -> PaymentRows]
    BY <1>2, <1>t, StatusUpdate DEF TypeOK, AckWrite
  <2> DEFINE active == row.active /\ ~ReleasesTerminal(r.status)
  <2>3. r.target \in Ids =>
           [row EXCEPT !.status = r.status, !.active = active] \in AttemptRows
    <3>1. active \in BOOLEAN
      OBVIOUS
    <3>2. r.target \in Ids => row \in AttemptRows
      BY DEF TypeOK
    <3> HIDE DEF active, row
    <3> QED BY <3>1, <3>2, <1>t, RowStatusType
  <2>4. attempt' \in [Ids -> AttemptRows]
    <3>1. attempt' = [attempt EXCEPT ![r.target] =
                         [row EXCEPT !.status = r.status, !.active = active]]
      BY <1>2 DEF AckWrite, Applied
    <3> HIDE DEF active
    <3> QED BY <1>t, <2>3, <3>1, RowUpdate DEF TypeOK
  <2> QED
    BY <1>2, <2>1, <2>2, <2>4 DEF TypeOK, AckWrite
<1>3. CASE AckResume(w)
  <2>1. req' \in [Workers -> Requests]
    BY <1>3, <1>s, GotoType DEF TypeOK, AckResume
  <2> QED
    BY <1>3, <2>1, OnlyRequest DEF AckResume
<1> QED
  BY <1>1, <1>2, <1>3

(* The ACK that finalizes a command keeps the types. *)
LEMMA AckFinalizeType ==
    ASSUME TypeOK, NEW w \in AckWorkers, NEW c \in Ids, NEW result \in Results,
           AckFinalize(w, c, result)
    PROVE  TypeOK'
<1>1. "ack_read" \in Steps /\ c \in Nat /\ w \in Workers
  BY IdsNat DEF Steps, Workers
<1>2. attempt[c].payment \in Payments \cup {NoPayment}
  BY DEF TypeOK, AttemptRows
<1>3. AppliedStatus(attempt[c].type, result) \in AttemptStatuses
  BY AppliedType
<1>4. req' \in [Workers -> Requests]
  BY <1>1, <1>2, <1>3, StartAckType, RequestUpdate DEF TypeOK, AckFinalize
<1>5. CommandOutcome(result) \in CommandStatuses
  BY DEF CommandOutcome, CommandStatuses
<1>6. command' \in [Ids -> CommandStatuses]
  BY <1>5, CommandUpdate DEF TypeOK, AckFinalize
<1> QED
  BY <1>4, <1>6 DEF TypeOK, AckFinalize

(* Claim, requeue and expiry keep the types. *)
LEMMA QueueType ==
    ASSUME TypeOK, NEW c \in Ids, Queue(c)
    PROVE  TypeOK'
<1>1. command' \in [Ids -> CommandStatuses]
  <2>1. {"claimed", "pending", "failed"} \subseteq CommandStatuses
    BY DEF CommandStatuses
  <2> QED
    BY <2>1, CommandUpdate DEF TypeOK, Queue, Claim, Requeue, Expire
<1>2. attempt' \in [Ids -> AttemptRows]
  <2>1. [attempt[c] EXCEPT !.status = "ERROR"] \in AttemptRows /\ c \in Nat
    BY IdsNat DEF TypeOK, AttemptRows, AttemptStatuses
  <2>2. [attempt EXCEPT ![c] = [attempt[c] EXCEPT !.status = "ERROR"]] \in [Ids -> AttemptRows]
    BY <2>1, RowUpdate DEF TypeOK
  <2> QED
    BY <2>2 DEF TypeOK, Queue, Claim, Requeue, Expire
<1> QED
  BY <1>1, <1>2 DEF TypeOK, Queue, Claim, Requeue, Expire

(* Any step of a request in service keeps the types. *)
LEMMA RequestStepType ==
    ASSUME TypeOK, TargetInv, NEW w \in Workers, RequestStep(w) \/ Respond(w) \/ Abort(w)
    PROVE  TypeOK'
<1>1. CASE Respond(w) \/ Abort(w)
  BY <1>1, ThrowType, OnlyRequest DEF TypeOK, Respond, Abort
<1>2. CASE RequestStep(w)
  <2> USE <1>2 DEF RequestStep
  <2>1. CASE PrepareNumber(w) \/ PrepareWrite(w) \/ PrepareReadback(w)
    BY <2>1, PlanStepType
  <2>2. CASE ExecuteCheck(w) \/ ExecuteCard(w) \/ ExecuteManual(w)
    BY <2>2, ExecuteType
  <2>3. CASE RetryNumber(w) \/ RetryInsert(w) \/ ChangeWrite(w)
    BY <2>3, RetryType
  <2>4. CASE CancelCheck(w) \/ CancelInsert(w)
    BY <2>4, CancelType
  <2>5. CASE FullFlag(w) \/ Advance(w) \/ FullFinish(w)
    BY <2>5, FullType
  <2>6. CASE SyncRead(w) \/ SyncWrite(w) \/ AckRead(w)
    BY <2>6, SyncStepType
  <2>7. CASE ReconcileWrite(w) \/ AckWrite(w) \/ AckResume(w)
    BY <2>7, OutcomeType
  <2> QED
    BY <2>1, <2>2, <2>3, <2>4, <2>5, <2>6, <2>7
<1> QED
  BY <1>1, <1>2

(* Every step of the specification keeps the types, as long as the rows the
   requests work on exist. *)
LEMMA TypeNext == TypeOK /\ TargetInv /\ [Next]_vars => TypeOK'
<1> SUFFICES ASSUME TypeOK, TargetInv, [Next]_vars
             PROVE  TypeOK'
  OBVIOUS
<1>1. CASE UNCHANGED vars
  BY <1>1 DEF TypeOK, vars
<1>2. CASE Next
  BY <1>2, ApiRequestType, AckFinalizeType, RequestStepType, QueueType DEF Next, Workers
<1> QED
  BY <1>1, <1>2

(* The empty database is well typed. *)
LEMMA TypeInit == Init => TypeOK
BY IdleType, NoRowType
   DEF Init, TypeOK, PaymentRows, WholeStatuses, CommandStatuses

-----------------------------------------------------------------------------

(* The ways a step changes payment_attempts and commands *)

OnlyRow(a) ==
    /\ a \in Ids
    /\ \A b \in Ids : b # a => attempt'[b] = attempt[b] /\ command'[b] = command[b]

(* What no step changes in a row that exists *)
Keeps(a) ==
    /\ attempt'[a].type = attempt[a].type
    /\ attempt'[a].payment = attempt[a].payment
    /\ attempt'[a].amount = attempt[a].amount
    /\ attempt'[a].orig = attempt[a].orig

(* A new row that refunds an existing payment *)
Refunds(a) ==
    /\ attempt[a].type = "NONE" /\ attempt'[a].type = "CANCEL"
    /\ attempt'[a].orig \in Ids
    /\ attempt[attempt'[a].orig].type = "PAY"
    /\ attempt[attempt'[a].orig].status \in SuccessfulPay
    /\ attempt[attempt'[a].orig].payment = attempt'[a].payment
    /\ attempt[attempt'[a].orig].amount = attempt'[a].amount

(* Rows are added or superseded, or a row that has not run changes its method. *)
Replanned(a) ==
    \/ attempt'[a] = attempt[a]
    \/ /\ attempt[a].type = "NONE" /\ attempt'[a].type = "PAY"
       /\ attempt'[a].status = "PENDING" /\ ~attempt'[a].active /\ attempt'[a].orig = 0
    \/ /\ Keeps(a) /\ attempt[a].type = "PAY"
       /\ attempt[a].status \in {"PENDING", "DECLINED", "USER_CANCELLED", "ERROR"}
       /\ attempt'[a].status = "USER_CANCELLED" /\ ~attempt'[a].active
    \/ /\ Keeps(a) /\ attempt[a].type # "NONE"
       /\ attempt[a].status = "PENDING" /\ attempt'[a].status = "PENDING"
       /\ ~attempt'[a].active

Planned == (\A a \in Ids : Replanned(a)) /\ UNCHANGED command

Dispatched(a) ==
    /\ OnlyRow(a) /\ ActiveKeyFree
    /\ attempt[a].status = "PENDING" /\ command[a] = "none"
    /\ attempt'[a].status = "PROCESSING" /\ attempt'[a].active
    /\ command'[a] = "pending"
    /\ (attempt[a].type # "NONE" /\ Keeps(a)) \/ Refunds(a)

Booked(a) ==
    /\ OnlyRow(a) /\ UNCHANGED command
    /\ attempt[a].status = "PENDING" /\ ~attempt'[a].active
    /\ \/ attempt[a].type # "NONE" /\ Keeps(a) /\ attempt'[a].status = "COMPLETED"
       \/ Refunds(a) /\ attempt'[a].status = "CANCELLED" /\ attempt'[a].method # "card"

Answered(w, a) ==
    /\ OnlyRow(a) /\ UNCHANGED command
    /\ Applying(w) /\ req[w].target = a /\ ~Applying(w)'
    /\ Keeps(a) /\ attempt[a].status = "PROCESSING"
    /\ attempt'[a].status = req[w].status /\ req[w].status \notin {"PENDING", "PROCESSING"}
    /\ attempt'[a].active <=> attempt'[a].status = "UNKNOWN"

Reconciled(a) ==
    /\ OnlyRow(a) /\ UNCHANGED command
    /\ Keeps(a) /\ attempt[a].type = "PAY" /\ attempt[a].status = "UNKNOWN"
    /\ attempt'[a].status = "APPROVED" /\ ~attempt'[a].active
    /\ \E w \in Workers : req[w].pc = "reconcile" /\ req[w].target = a

(* Commands are handed over, given back, or end. *)
Queued ==
    /\ UNCHANGED attempt
    /\ \A c \in Ids : command'[c] = command[c] \/ (Live(c) /\ command'[c] # "none")

Effect ==
    \/ Planned
    \/ \E a \in Ids : Dispatched(a) \/ Booked(a) \/ Reconciled(a)
    \/ \E w \in Workers, a \in Ids : Answered(w, a)
    \/ Queued

Others(w) == \A v \in Workers : v # w => req'[v] = req[v]

----------------------------------------------------------------------------
(* What the effects have in common *)

(* A row that exists keeps its type, payment and amount, a payment that was
   successful stays so, and a settled row is not touched. *)
LEMMA RowsPersist ==
    ASSUME IInv, Effect, NEW a \in Ids
    PROVE  /\ attempt[a].type # "NONE" => Keeps(a)
           /\ attempt[a].type = "PAY" /\ attempt[a].status \in SuccessfulPay =>
                 attempt'[a].status \in SuccessfulPay
           /\ Settled(a) => attempt'[a] = attempt[a]
<1> USE DEF Settled, SuccessfulPay, Keeps
<1>h. RowHold(a)
  BY DEF IInv, HoldInv
<1>1. CASE Planned
  BY <1>1, <1>h DEF Planned, Replanned, RowHold
<1>2. CASE \E b \in Ids : Dispatched(b) \/ Booked(b) \/ Reconciled(b)
  BY <1>2, <1>h DEF Dispatched, Booked, Reconciled, Refunds, OnlyRow, RowHold
<1>3. CASE \E w \in Workers, b \in Ids : Answered(w, b)
  BY <1>3, <1>h DEF Answered, OnlyRow, RowHold
<1>4. CASE Queued
  BY <1>4 DEF Queued
<1> QED
  BY <1>1, <1>2, <1>3, <1>4 DEF Effect

(* A row in flight whose result nobody applies stays in flight, and a command
   that has ended stays so. *)
LEMMA FlightPersists ==
    ASSUME IInv, Effect, NEW a \in Ids
    PROVE  /\ attempt[a].status = "PROCESSING" =>
                 \/ attempt'[a].status = "PROCESSING"
                 \/ \E w \in Workers : Applying(w) /\ ~Applying(w)' /\ req[w].target = a
           /\ command[a] \in {"completed", "failed"} => command'[a] = command[a]
<1>h. RowHold(a)
  BY DEF IInv, HoldInv
<1>1. CASE Planned
  BY <1>1, <1>h DEF Planned, Replanned, RowHold
<1>2. CASE \E b \in Ids : Dispatched(b) \/ Booked(b) \/ Reconciled(b)
  BY <1>2 DEF Dispatched, Booked, Reconciled, OnlyRow
<1>3. CASE \E w \in Workers, b \in Ids : Answered(w, b)
  BY <1>3 DEF Answered, OnlyRow
<1>4. CASE Queued
  BY <1>4 DEF Queued, Live
<1> QED
  BY <1>1, <1>2, <1>3, <1>4 DEF Effect

(* The hold of the terminal is kept: a row gets it only when it is free, and a
   row that loses it has no command left. *)
LEMMA HoldPreserved ==
    ASSUME IInv, Effect
    PROVE  HoldInv'
<1>1. HoldInv /\ AckInv
  BY DEF IInv
<1>2. CASE Planned
  <2>1. ASSUME NEW a \in Ids
        PROVE  RowHold(a)' /\ (attempt'[a].active => attempt[a].active)
    <3>1. RowHold(a) /\ Replanned(a) /\ command'[a] = command[a]
      BY <1>1, <1>2 DEF HoldInv, Planned
    <3> QED
      BY <3>1 DEF RowHold, Replanned, Keeps, Live
  <2> QED
    BY <1>1, <2>1 DEF HoldInv
<1>3. ASSUME NEW a \in Ids, OnlyRow(a), RowHold(a)',
             attempt'[a].active => attempt[a].active \/ ActiveKeyFree
      PROVE  HoldInv'
  BY <1>1, <1>3 DEF HoldInv, OnlyRow, RowHold, Live, ActiveKeyFree
<1>4. ASSUME NEW a \in Ids, Dispatched(a)
      PROVE  HoldInv'
  <2>1. RowHold(a) /\ RowHold(a)'
    BY <1>1, <1>4 DEF HoldInv, RowHold, Dispatched, Refunds, Keeps, Live
  <2> QED
    BY <1>3, <1>4, <2>1 DEF Dispatched
<1>5. ASSUME NEW a \in Ids, Booked(a)
      PROVE  HoldInv'
  <2>1. RowHold(a)
    BY <1>1 DEF HoldInv
  <2>2. RowHold(a)'
    BY <1>5, <2>1 DEF RowHold, Booked, Refunds, Keeps, Live
  <2> QED
    BY <1>3, <1>5, <2>2 DEF Booked
<1>6. ASSUME NEW a \in Ids, Reconciled(a)
      PROVE  HoldInv'
  <2>1. RowHold(a)
    BY <1>1 DEF HoldInv
  <2>2. RowHold(a)'
    BY <1>6, <2>1 DEF RowHold, Reconciled, Keeps, Live
  <2> QED
    BY <1>3, <1>6, <2>2 DEF Reconciled
<1>7. ASSUME NEW w \in Workers, NEW a \in Ids, Answered(w, a)
      PROVE  HoldInv'
  <2>1. RowHold(a) /\ Answering(w)
    BY <1>1, <1>7 DEF HoldInv, AckInv, Answered
  <2>2. RowHold(a)' /\ attempt[a].active
    BY <1>7, <2>1 DEF RowHold, Answered, Answering, Keeps, Live
  <2> QED
    BY <1>3, <1>7, <2>2 DEF Answered
<1>8. CASE Queued
  <2>1. ASSUME NEW a \in Ids
        PROVE  RowHold(a)'
    <3>1. RowHold(a)
      BY <1>1 DEF HoldInv
    <3>2. attempt'[a] = attempt[a] /\ (command'[a] = command[a] \/ Live(a))
      BY <1>8 DEF Queued
    <3> QED
      BY <3>1, <3>2 DEF RowHold, Live
  <2> QED
    BY <1>1, <1>8, <2>1 DEF HoldInv, Queued
<1> QED
  BY <1>2, <1>4, <1>5, <1>6, <1>7, <1>8 DEF Effect

(* A step of one request keeps the targets of the others. *)
LEMMA TargetPreserved ==
    ASSUME IInv, Effect, NEW w \in Workers, Others(w), TargetOk(w)'
    PROVE  TargetInv'
<1> SUFFICES ASSUME NEW v \in Workers, v # w
             PROVE  TargetOk(v)'
  BY DEF TargetInv
<1>1. TargetOk(v) /\ req'[v] = req[v]
  BY DEF IInv, TargetInv, Others
<1>2. req[v].target \in Ids =>
        /\ attempt[req[v].target].type # "NONE" =>
              attempt'[req[v].target].type = attempt[req[v].target].type
        /\ attempt[req[v].target].type = "PAY" /\ attempt[req[v].target].status \in SuccessfulPay =>
              attempt'[req[v].target].status \in SuccessfulPay
  BY RowsPersist DEF Keeps
<1> QED
  BY <1>1, <1>2 DEF TargetOk

(* A step of one request leaves the result that another one applies alone. *)
LEMMA AckPreserved ==
    ASSUME IInv, Effect, NEW w \in Workers, Others(w),
           Applying(w)' => Answering(w)' /\ \A v \in Workers : Applying(v) => v = w
    PROVE  AckInv'
<1>1. AckInv
  BY DEF IInv
<1>2. ASSUME NEW v \in Workers, v # w, Applying(v)'
      PROVE  Applying(v) /\ Answering(v)' /\ ~Applying(w)'
  <2>1. req'[v] = req[v] /\ Applying(v)
    BY <1>2 DEF Others, Applying
  <2>2. Answering(v) /\ \A u \in Workers : Applying(u) => u = v
    BY <1>1, <2>1 DEF AckInv
  <2>3. attempt'[req[v].target].status = "PROCESSING"
    BY <2>1, <2>2, <1>2, FlightPersists DEF Answering
  <2>4. command'[req[v].target] = command[req[v].target]
    BY <2>2, FlightPersists DEF Answering
  <2> QED
    BY <1>2, <2>1, <2>2, <2>3, <2>4 DEF Answering
<1> QED
  BY <1>1, <1>2 DEF AckInv

----------------------------------------------------------------------------
(* Every action is a step of one request with one of the effects. *)

StepOf(w) ==
    /\ Effect
    /\ Others(w)
    /\ TargetOk(w)'
    /\ Applying(w)' => Answering(w)' /\ \A v \in Workers : Applying(v) => v = w

(* A step that only reads, and leaves its request at a place without a target *)
LEMMA ReadStep ==
    ASSUME TypeOK, UNCHANGED <<attempt, command>>, NEW w \in Workers, NEW r,
           req' = [req EXCEPT ![w] = r],
           r.pc \notin {"ack_read", "ack_write"},
           r.pc \in {"check", "execute", "retry_number", "retry_insert", "change"} =>
              r.target \in Ids /\ attempt[r.target].type # "NONE",
           r.pc = "reconcile" => r.target \in Ids /\ attempt[r.target].type = "PAY",
           r.pc \in {"cancel_check", "cancel_insert"} =>
              /\ r.target \in Ids /\ attempt[r.target].type = "PAY"
              /\ attempt[r.target].status \in SuccessfulPay
    PROVE  StepOf(w)
<1>1. Effect
  BY DEF Effect, Queued
<1>2. req'[w] = r /\ Others(w)
  BY DEF TypeOK, Others
<1> QED
  BY <1>1, <1>2 DEF StepOf, TargetOk, Applying

(* The row a payment may run next is a payment row. *)
LEMMA NextUnfinishedIsPay ==
    ASSUME TypeOK, NEW p, NEW splits, NEW a, IsNextUnfinished(attempt, p, splits, a)
    PROVE  a \in Ids /\ attempt[a].type = "PAY"
BY DEF TypeOK, IsNextUnfinished, IsLatest, PayRows, RowsOf

(* A payment that stands is a successful payment row. *)
LEMMA CompletedIsPay ==
    ASSUME TypeOK, NEW p, NEW a \in Completed(attempt, p)
    PROVE  a \in Ids /\ attempt[a].type = "PAY" /\ attempt[a].status \in SuccessfulPay
BY DEF TypeOK, Completed, PayRows, RowsOf

(* A request that starts changes no table and has a target of the right kind. *)
LEMMA ApiRequestStep ==
    ASSUME IInv, NEW w \in ApiWorkers, ApiRequest(w)
    PROVE  StepOf(w)
<1> USE DEF Workers
<1>t. TypeOK
  BY DEF IInv
<1>1. ASSUME NEW p \in Payments, NEW plan \in Plans, PrepareRead(w, p, plan)
      PROVE  StepOf(w)
  BY <1>1, <1>t, ReadStep DEF PrepareRead, Idle
<1>2. ASSUME NEW p \in Payments, NEW a \in Ids, NEW k \in RequestKeys, ProcessRead(w, p, a, k)
      PROVE  StepOf(w)
  BY <1>2, <1>t, ReadStep, NextUnfinishedIsPay DEF ProcessRead, Idle
<1>3. ASSUME NEW p \in Payments, NEW a \in Ids, NEW k \in RequestKeys, StartPrepared(w, p, a, k)
      PROVE  StepOf(w)
  BY <1>3, <1>t, ReadStep, NextUnfinishedIsPay DEF StartPrepared, Idle
<1>4. ASSUME NEW p \in Payments, NEW a \in Ids, NEW k \in RequestKeys, CancelRead(w, p, a, k)
      PROVE  StepOf(w)
  BY <1>4, <1>t, ReadStep, CompletedIsPay DEF CancelRead, Idle
<1>5. ASSUME NEW p \in Payments, NEW a \in Ids, NEW k \in RequestKeys,
             NEW op \in Operations, NEW m \in PayMethods, RetryRead(w, op, p, a, k, m)
      PROVE  StepOf(w)
  BY <1>5, <1>t, ReadStep, NextUnfinishedIsPay DEF RetryRead, Idle
<1>6. ASSUME NEW p \in Payments, NEW a \in Ids, NEW m \in PayMethods, ChangeRead(w, p, a, m)
      PROVE  StepOf(w)
  BY <1>6, <1>t, ReadStep, NextUnfinishedIsPay DEF ChangeRead, Idle
<1>7. ASSUME NEW p \in Payments, NEW a \in Ids, ReconcileRead(w, p, a)
      PROVE  StepOf(w)
  BY <1>7, <1>t, ReadStep DEF ReconcileRead, Idle, PayRows
<1>8. ASSUME NEW p \in Payments, FullRead(w, p)
      PROVE  StepOf(w)
  BY <1>8, <1>t, ReadStep DEF FullRead, Idle
<1> QED
  BY <1>1, <1>2, <1>3, <1>4, <1>5, <1>6, <1>7, <1>8 DEF ApiRequest

(* The step changes the tables and ends or leaves the request without a target. *)
LEMMA WriteStep ==
    ASSUME TypeOK, Effect, NEW w \in Workers, NEW r, req' = [req EXCEPT ![w] = r],
           r.pc \notin {"check", "execute", "retry_number", "retry_insert", "change", "reconcile",
                        "cancel_check", "cancel_insert", "ack_read", "ack_write"}
    PROVE  StepOf(w)
<1>1. req'[w] = r /\ Others(w)
  BY DEF TypeOK, Others
<1> QED
  BY <1>1 DEF StepOf, TargetOk, Applying

(* The reads and checks of a request change no table. *)
LEMMA ControlStep ==
    ASSUME TypeOK, Effect, NEW w \in Workers,
           \/ Throw(w) \/ Return(w)
           \/ \E after \in Continuations : Sync(w, after)
           \/ \E pc \in {"plan_readback", "advance", "full_finish", "respond"} : Goto(w, pc)
    PROVE  StepOf(w)
<1>1. CASE Throw(w)
  BY <1>1, WriteStep DEF Throw, Idle
<1>2. CASE Return(w)
  <2>1. CASE req[w].op = "ack"
    <3>1. req' = [req EXCEPT ![w] = [req[w] EXCEPT !.pc = "respond"]]
      BY <1>2, <2>1 DEF Return
    <3>2. [req[w] EXCEPT !.pc = "respond"].pc = "respond"
      BY DEF TypeOK, Requests
    <3> QED
      BY <3>1, <3>2, WriteStep
  <2>2. CASE req[w].op # "ack"
    BY <1>2, <2>2, WriteStep DEF Return, Idle
  <2> QED
    BY <2>1, <2>2
<1>3. ASSUME NEW after \in Continuations, Sync(w, after)
      PROVE  StepOf(w)
  <2>1. req' = [req EXCEPT ![w] = [req[w] EXCEPT !.pc = "sync_read", !.next = after]]
    BY <1>3 DEF Sync
  <2>2. [req[w] EXCEPT !.pc = "sync_read", !.next = after].pc = "sync_read"
    BY DEF TypeOK, Requests
  <2> QED
    BY <2>1, <2>2, WriteStep
<1>4. ASSUME NEW pc \in {"plan_readback", "advance", "full_finish", "respond"}, Goto(w, pc)
      PROVE  StepOf(w)
  <2>1. req' = [req EXCEPT ![w] = [req[w] EXCEPT !.pc = pc]]
    BY <1>4 DEF Goto
  <2>2. [req[w] EXCEPT !.pc = pc].pc = pc
    BY DEF TypeOK, Requests
  <2> QED
    BY <2>1, <2>2, WriteStep
<1> QED
  BY <1>1, <1>2, <1>3, <1>4

(* A step that leaves the tables alone has an allowed effect. *)
LEMMA NoEffect ==
    ASSUME UNCHANGED <<attempt, command>>
    PROVE  Effect
BY DEF Effect, Queued

(* The row an insertion takes is unused, and so are those after it. *)
LEMMA FirstFreeRow ==
    ASSUME IInv, NEW f \in Ids, IsFirstFree(f)
    PROVE  /\ attempt[f].type = "NONE" /\ attempt[f].status = "PENDING" /\ command[f] = "none"
           /\ \A a \in Ids : a >= f => attempt[a].type = "NONE"
BY IdsNat DEF IInv, HoldInv, RowHold, IsFirstFree

(* The steps of preparePaymentPlan have an allowed effect. *)
LEMMA PlanSteps ==
    ASSUME IInv, NEW w \in Workers, PrepareNumber(w) \/ PrepareWrite(w) \/ PrepareReadback(w)
    PROVE  StepOf(w)
<1>t. TypeOK /\ req[w] \in Requests
  BY DEF IInv, TypeOK
<1>1. CASE PrepareNumber(w)
  <2>1. PICK n \in 1..(MaxAttempts + 1) :
           req' = [req EXCEPT ![w] = [req[w] EXCEPT !.number = n, !.pc = "plan_write"]]
    BY <1>1 DEF PrepareNumber
  <2>2. [req[w] EXCEPT !.number = n, !.pc = "plan_write"].pc = "plan_write"
    BY <1>t DEF Requests
  <2> QED
    BY <1>1, <1>t, <2>1, <2>2, NoEffect, WriteStep DEF PrepareNumber
<1>2. CASE PrepareWrite(w)
  <2> DEFINE r == req[w]
             p == r.payment
  <2>1. CASE Throw(w) /\ UNCHANGED <<attempt, command>>
    BY <1>t, <2>1, NoEffect, ControlStep
  <2>2. ASSUME NEW f \in Ids, IsFirstFree(f), f + Len(r.plan) - 1 <= MaxAttempts,
               attempt' = [a \in Ids |->
                   IF a >= f /\ a < f + Len(r.plan)
                   THEN NewRow(p, a - f + 1, r.number + a - f,
                               r.plan[a - f + 1].amount, r.plan[a - f + 1].method)
                   ELSE IF attempt[a].payment = p /\ attempt[a].type = "PAY" /\
                            attempt[a].status \in {"PENDING", "DECLINED", "USER_CANCELLED", "ERROR"}
                   THEN [attempt[a] EXCEPT !.status = "USER_CANCELLED", !.active = FALSE]
                   ELSE attempt[a]],
               Goto(w, "plan_readback"), UNCHANGED command
        PROVE  StepOf(w)
    <3>1. ASSUME NEW a \in Ids
          PROVE  Replanned(a)
      <4>1. attempt[a] \in AttemptRows
        BY <1>t DEF TypeOK
      <4>2. CASE a >= f /\ a < f + Len(r.plan)
        <5>1. attempt[a].type = "NONE"
          BY <2>2, <4>2, FirstFreeRow
        <5>2. attempt'[a].type = "PAY" /\ attempt'[a].status = "PENDING" /\ ~attempt'[a].active
              /\ attempt'[a].orig = 0
          BY <2>2, <4>2 DEF NewRow, NoRow
        <5> QED
          BY <5>1, <5>2 DEF Replanned
      <4>3. CASE ~(a >= f /\ a < f + Len(r.plan))
        BY <2>2, <4>1, <4>3 DEF Replanned, Keeps, AttemptRows
      <4> QED
        BY <4>2, <4>3
    <3>2. Effect
      BY <2>2, <3>1 DEF Effect, Planned
    <3> QED
      BY <1>t, <2>2, <3>2, ControlStep
  <2> QED
    BY <1>2, <2>1, <2>2 DEF PrepareWrite
<1>3. CASE PrepareReadback(w)
  <2>1. CASE Throw(w)
    BY <1>t, <1>3, <2>1, NoEffect, ControlStep DEF PrepareReadback
  <2>2. CASE ~Throw(w)
    <3> DEFINE whole == Whole(req[w].payment, attempt)
               next == [req[w] EXCEPT !.pc = "sync_write", !.next = "idle", !.whole = whole]
    <3>1. req' = [req EXCEPT ![w] = next]
      BY <1>3, <2>2 DEF PrepareReadback
    <3>2. next.pc = "sync_write"
      <4> HIDE DEF whole
      <4> QED BY <1>t DEF Requests
    <3> HIDE DEF next
    <3> QED
      BY <1>t, <1>3, <3>1, <3>2, NoEffect, WriteStep DEF PrepareReadback
  <2> QED
    BY <2>1, <2>2
<1> QED
  BY <1>1, <1>2, <1>3

(* The steps of executePaymentAttempt have an allowed effect. *)
LEMMA ExecuteSteps ==
    ASSUME IInv, NEW w \in Workers, ExecuteCheck(w) \/ ExecuteCard(w) \/ ExecuteManual(w)
    PROVE  StepOf(w)
<1> DEFINE r == req[w]
           a == r.target
<1>t. TypeOK /\ r \in Requests
  BY DEF IInv, TypeOK
<1>o. r.pc \in {"check", "execute"} => a \in Ids /\ attempt[a].type # "NONE"
  BY DEF IInv, TargetInv, TargetOk
<1>i. "idle" \in Continuations
  BY DEF Continuations
<1>1. CASE ExecuteCheck(w)
  <2>1. CASE Throw(w)
    BY <1>t, <1>1, <2>1, NoEffect, ControlStep DEF ExecuteCheck
  <2>2. CASE Goto(w, "execute")
    <3> DEFINE next == [r EXCEPT !.pc = "execute"]
    <3>1. req' = [req EXCEPT ![w] = next]
      BY <2>2 DEF Goto
    <3>2. next.pc = "execute" /\ next.target = a
      BY <1>t DEF Requests
    <3>3. a \in Ids /\ attempt[a].type # "NONE"
      BY <1>1, <1>o DEF ExecuteCheck, At
    <3> HIDE DEF next
    <3> QED
      BY <1>t, <1>1, <3>1, <3>2, <3>3, ReadStep DEF ExecuteCheck
  <2> QED
    BY <1>1, <2>1, <2>2 DEF ExecuteCheck
<1>2. CASE ExecuteCard(w)
  <2>0. a \in Ids /\ attempt[a].type # "NONE" /\ attempt[a] \in AttemptRows
    BY <1>2, <1>o, <1>t DEF TypeOK, ExecuteCard, At
  <2>1. CASE UNCHANGED <<attempt, command>>
    BY <1>t, <1>2, <2>1, NoEffect, ControlStep DEF ExecuteCard
  <2>2. CASE /\ attempt[a].status = "PENDING" /\ command[a] = "none" /\ ActiveKeyFree
             /\ attempt' = [attempt EXCEPT ![a] =
                   [@ EXCEPT !.status = "PROCESSING", !.active = TRUE, !.key = r.key]]
             /\ command' = [command EXCEPT ![a] = "pending"]
    <3>1. attempt'[a] = [attempt[a] EXCEPT !.status = "PROCESSING", !.active = TRUE, !.key = r.key]
      BY <1>t, <2>0, <2>2 DEF TypeOK
    <3>2. attempt'[a].status = "PROCESSING" /\ attempt'[a].active /\ Keeps(a)
      BY <2>0, <3>1 DEF Keeps, AttemptRows
    <3>3. OnlyRow(a) /\ command'[a] = "pending"
      BY <1>t, <2>0, <2>2 DEF TypeOK, OnlyRow
    <3>4. Dispatched(a)
      BY <2>0, <2>2, <3>2, <3>3 DEF Dispatched
    <3> QED
      BY <1>t, <1>2, <2>0, <3>4, ControlStep DEF Effect, ExecuteCard
  <2> QED
    BY <1>2, <2>1, <2>2 DEF ExecuteCard
<1>3. CASE ExecuteManual(w)
  <2>0. a \in Ids /\ attempt[a].type # "NONE" /\ attempt[a] \in AttemptRows
    BY <1>3, <1>o, <1>t DEF TypeOK, ExecuteManual, At
  <2>1. CASE UNCHANGED attempt
    BY <1>t, <1>i, <1>3, <2>1, NoEffect, ControlStep DEF ExecuteManual
  <2>2. CASE /\ attempt[a].status = "PENDING"
             /\ attempt' = [attempt EXCEPT ![a] = [@ EXCEPT !.status = "COMPLETED", !.key = r.key]]
             /\ Sync(w, "idle")
    <3>1. attempt'[a] = [attempt[a] EXCEPT !.status = "COMPLETED", !.key = r.key]
      BY <1>t, <2>0, <2>2 DEF TypeOK
    <3>2. attempt'[a].status = "COMPLETED" /\ attempt'[a].active = attempt[a].active /\ Keeps(a)
      BY <2>0, <3>1 DEF Keeps, AttemptRows
    <3>3. ~attempt[a].active
      BY <2>0, <2>2 DEF IInv, HoldInv, RowHold
    <3>4. OnlyRow(a) /\ UNCHANGED command
      BY <1>t, <1>3, <2>0, <2>2 DEF TypeOK, OnlyRow, ExecuteManual
    <3>5. Booked(a)
      BY <2>0, <2>2, <3>2, <3>3, <3>4 DEF Booked
    <3> QED
      BY <1>t, <1>i, <2>0, <2>2, <3>5, ControlStep DEF Effect
  <2> QED
    BY <1>3, <2>1, <2>2 DEF ExecuteManual
<1> QED
  BY <1>1, <1>2, <1>3

(* The steps of a retry and of a change of method have an allowed effect. *)
LEMMA RetrySteps ==
    ASSUME IInv, NEW w \in Workers, RetryNumber(w) \/ RetryInsert(w) \/ ChangeWrite(w)
    PROVE  StepOf(w)
<1> DEFINE r == req[w]
           a == r.target
           row == NewRow(r.payment, attempt[a].split, r.number, attempt[a].amount, r.method)
<1>t. TypeOK /\ r \in Requests
  BY DEF IInv, TypeOK
<1>o. r.pc \in {"retry_number", "retry_insert", "change"} => a \in Ids /\ attempt[a].type # "NONE"
  BY DEF IInv, TargetInv, TargetOk
<1>1. CASE RetryNumber(w)
  <2>1. PICK n \in 1..(MaxAttempts + 1) :
           req' = [req EXCEPT ![w] = [r EXCEPT !.number = n, !.pc = "retry_insert"]]
    BY <1>1 DEF RetryNumber
  <2> DEFINE next == [r EXCEPT !.number = n, !.pc = "retry_insert"]
  <2>2. next.pc = "retry_insert" /\ next.target = a
    BY <1>t DEF Requests
  <2>3. a \in Ids /\ attempt[a].type # "NONE"
    BY <1>1, <1>o DEF RetryNumber, At
  <2>4. req' = [req EXCEPT ![w] = next]
    BY <2>1
  <2> HIDE DEF next
  <2> QED
    BY <1>t, <1>1, <2>2, <2>3, <2>4, ReadStep DEF RetryNumber
<1>2. CASE RetryInsert(w)
  <2>1. row.type = "PAY" /\ row.status = "PENDING" /\ ~row.active /\ row.orig = 0
    BY DEF NewRow, NoRow
  <2>2. \A k : LET new == [row EXCEPT !.key = k]
               IN  new.type = "PAY" /\ new.status = "PENDING" /\ ~new.active /\ new.orig = 0
    BY DEF NewRow, NoRow
  <2>3. ASSUME NEW f \in Ids, IsFirstFree(f), UNCHANGED command, NEW new,
               attempt' = [attempt EXCEPT ![f] = new],
               new.type = "PAY", new.status = "PENDING", ~new.active, new.orig = 0
        PROVE  Effect /\ attempt'[f].type = "PAY"
    <3>1. attempt'[f] = new /\ \A b \in Ids : b # f => attempt'[b] = attempt[b]
      BY <1>t, <2>3 DEF TypeOK
    <3> QED
      BY <2>3, <3>1, FirstFreeRow DEF Effect, Planned, Replanned
  <2>4. ASSUME NEW f \in Ids, IsFirstFree(f), attempt' = [attempt EXCEPT ![f] = row],
               req' = [req EXCEPT ![w].target = f, ![w].pc = "check"]
        PROVE  StepOf(w)
    <3> DEFINE next == [r EXCEPT !.target = f, !.pc = "check"]
    <3>1. Effect /\ attempt'[f].type = "PAY"
      <4> HIDE DEF row
      <4> QED BY <1>2, <2>1, <2>3, <2>4 DEF RetryInsert
    <3>2. req' = [req EXCEPT ![w] = next]
      BY <2>4
    <3>3. next.pc = "check" /\ next.target = f
      BY <1>t DEF Requests
    <3>4. req'[w] = next /\ Others(w)
      <4> HIDE DEF next
      <4> QED BY <1>t, <3>2 DEF TypeOK, Others
    <3> HIDE DEF next
    <3> QED
      BY <3>1, <3>3, <3>4 DEF StepOf, TargetOk, Applying
  <2>5. ASSUME NEW f \in Ids, IsFirstFree(f), attempt' = [attempt EXCEPT ![f] = [row EXCEPT !.key = r.key]],
               Throw(w)
        PROVE  StepOf(w)
    <3> DEFINE new == [row EXCEPT !.key = r.key]
    <3>1. new.type = "PAY" /\ new.status = "PENDING" /\ ~new.active /\ new.orig = 0
      BY <2>2
    <3>2. Effect
      <4>1. attempt' = [attempt EXCEPT ![f] = new]
        BY <2>5
      <4> HIDE DEF new
      <4> QED BY <1>2, <2>3, <2>5, <3>1, <4>1 DEF RetryInsert
    <3> QED
      BY <1>t, <2>5, <3>2, ControlStep
  <2>6. CASE Throw(w) /\ UNCHANGED attempt
    BY <1>t, <1>2, <2>6, NoEffect, ControlStep DEF RetryInsert
  <2> QED
    BY <1>2, <2>4, <2>5, <2>6 DEF RetryInsert
<1>3. CASE ChangeWrite(w)
  <2>0. a \in Ids /\ attempt[a].type # "NONE" /\ attempt[a] \in AttemptRows
    BY <1>3, <1>o, <1>t DEF TypeOK, ChangeWrite, At
  <2>1. CASE UNCHANGED attempt
    BY <1>t, <1>3, <2>1, NoEffect, ControlStep DEF ChangeWrite
  <2>2. CASE attempt[a].status = "PENDING" /\ ~attempt[a].active
             /\ attempt' = [attempt EXCEPT ![a].method = r.method]
    <3>1. attempt'[a] = [attempt[a] EXCEPT !.method = r.method]
          /\ \A b \in Ids : b # a => attempt'[b] = attempt[b]
      BY <1>t, <2>0, <2>2 DEF TypeOK
    <3>2. Keeps(a) /\ attempt'[a].status = attempt[a].status /\ attempt'[a].active = attempt[a].active
      BY <2>0, <3>1 DEF Keeps, AttemptRows
    <3>3. Effect
      BY <1>3, <2>0, <2>2, <3>1, <3>2 DEF Effect, Planned, Replanned, ChangeWrite
    <3> QED
      BY <1>t, <1>3, <3>3, ControlStep DEF ChangeWrite
  <2> QED
    BY <1>3, <2>1, <2>2 DEF ChangeWrite
<1> QED
  BY <1>1, <1>2, <1>3

(* The steps of createCancellation have an allowed effect. *)
LEMMA CancelSteps ==
    ASSUME IInv, NEW w \in Workers, CancelCheck(w) \/ CancelInsert(w)
    PROVE  StepOf(w)
<1> DEFINE r == req[w]
           a == r.target
<1>t. TypeOK /\ r \in Requests
  BY DEF IInv, TypeOK
<1>o. r.pc \in {"cancel_check", "cancel_insert"} =>
        /\ a \in Ids /\ attempt[a].type = "PAY" /\ attempt[a].status \in SuccessfulPay
  BY DEF IInv, TargetInv, TargetOk
<1>i. {"idle", "advance"} \subseteq Continuations
  BY DEF Continuations
<1>1. CASE CancelCheck(w)
  <2>1. CASE Throw(w) \/ Return(w) \/ Goto(w, "advance")
    BY <1>t, <1>1, <2>1, NoEffect, ControlStep DEF CancelCheck
  <2>2. CASE Goto(w, "cancel_insert")
    <3> DEFINE next == [r EXCEPT !.pc = "cancel_insert"]
    <3>1. req' = [req EXCEPT ![w] = next]
      BY <2>2 DEF Goto
    <3>2. next.pc = "cancel_insert" /\ next.target = a
      BY <1>t DEF Requests
    <3>3. a \in Ids /\ attempt[a].type = "PAY" /\ attempt[a].status \in SuccessfulPay
      BY <1>1, <1>o DEF CancelCheck, At
    <3> HIDE DEF next
    <3> QED
      BY <1>t, <1>1, <3>1, <3>2, <3>3, ReadStep DEF CancelCheck
  <2> QED
    BY <1>1, <2>1, <2>2 DEF CancelCheck
<1>2. CASE CancelInsert(w)
  <2>0. a \in Ids /\ attempt[a].type = "PAY" /\ attempt[a].status \in SuccessfulPay
    BY <1>2, <1>o DEF CancelInsert, At
  <2>1. ASSUME NEW f \in Ids, IsFirstFree(f), NEW status, NEW active \in BOOLEAN,
               attempt' = [attempt EXCEPT ![f] = CancelRow(attempt[a], a, r.key, status, active)]
        PROVE  /\ Refunds(f) /\ attempt'[f].status = status /\ attempt'[f].active = active
               /\ attempt'[f].method = attempt[a].method
               /\ \A b \in Ids : b # f => attempt'[b] = attempt[b]
    <3>1. attempt'[f] = CancelRow(attempt[a], a, r.key, status, active)
          /\ \A b \in Ids : b # f => attempt'[b] = attempt[b]
      BY <1>t, <2>1 DEF TypeOK
    <3>2. attempt[a] \in AttemptRows
      BY <1>t, <2>0 DEF TypeOK
    <3>3. /\ attempt'[f].type = "CANCEL" /\ attempt'[f].orig = a
          /\ attempt'[f].payment = attempt[a].payment /\ attempt'[f].amount = attempt[a].amount
          /\ attempt'[f].status = status /\ attempt'[f].active = active
          /\ attempt'[f].method = attempt[a].method
      BY <3>1, <3>2 DEF CancelRow, AttemptRows
    <3> QED
      BY <2>0, <2>1, <3>1, <3>3, FirstFreeRow DEF Refunds
  <2>2. ASSUME NEW f \in Ids, IsFirstFree(f), ActiveKeyFree, Return(w),
               attempt' = [attempt EXCEPT ![f] = CancelRow(attempt[a], a, r.key, "PROCESSING", TRUE)],
               command' = [command EXCEPT ![f] = "pending"]
        PROVE  StepOf(w)
    <3>1. Refunds(f) /\ attempt'[f].status = "PROCESSING" /\ attempt'[f].active
          /\ \A b \in Ids : b # f => attempt'[b] = attempt[b]
      BY <2>1, <2>2
    <3>2. command'[f] = "pending" /\ \A b \in Ids : b # f => command'[b] = command[b]
      BY <1>t, <2>2 DEF TypeOK
    <3>3. Dispatched(f)
      BY <2>2, <3>1, <3>2, FirstFreeRow DEF Dispatched, OnlyRow
    <3> QED
      BY <1>t, <2>2, <3>3, ControlStep DEF Effect
  <2>3. ASSUME NEW f \in Ids, IsFirstFree(f), UNCHANGED command, attempt[a].method # "card",
               Sync(w, IF r.op = "cancel" THEN "idle" ELSE "advance"),
               attempt' = [attempt EXCEPT ![f] = CancelRow(attempt[a], a, r.key, "CANCELLED", FALSE)]
        PROVE  StepOf(w)
    <3>1. Refunds(f) /\ attempt'[f].status = "CANCELLED" /\ ~attempt'[f].active
          /\ attempt'[f].method # "card"
          /\ \A b \in Ids : b # f => attempt'[b] = attempt[b]
      BY <2>1, <2>3
    <3>2. Booked(f)
      BY <2>3, <3>1, FirstFreeRow DEF Booked, OnlyRow
    <3> QED
      BY <1>t, <1>i, <2>3, <3>2, ControlStep DEF Effect
  <2>4. CASE Throw(w) /\ UNCHANGED <<attempt, command>>
    BY <1>t, <2>4, NoEffect, ControlStep
  <2> QED
    BY <1>2, <2>2, <2>3, <2>4 DEF CancelInsert
<1> QED
  BY <1>1, <1>2

(* The steps of a full cancellation have an allowed effect. *)
LEMMA FullSteps ==
    ASSUME IInv, NEW w \in Workers, FullFlag(w) \/ Advance(w) \/ FullFinish(w)
    PROVE  StepOf(w)
<1>t. TypeOK /\ req[w] \in Requests
  BY DEF IInv, TypeOK
<1>i. {"idle", "respond"} \subseteq Continuations
  BY DEF Continuations
<1>1. CASE FullFlag(w)
  BY <1>t, <1>1, NoEffect, ControlStep DEF FullFlag
<1>2. CASE Advance(w)
  <2>1. CASE Throw(w) \/ Return(w) \/ Goto(w, "full_finish")
    BY <1>t, <1>2, <2>1, NoEffect, ControlStep DEF Advance
  <2>2. ASSUME NEW a \in Completed(attempt, req[w].payment),
               req' = [req EXCEPT ![w].target = a, ![w].key = NoKey, ![w].pc = "cancel_check"]
        PROVE  StepOf(w)
    <3> DEFINE next == [req[w] EXCEPT !.target = a, !.key = NoKey, !.pc = "cancel_check"]
    <3>1. req' = [req EXCEPT ![w] = next]
      BY <2>2
    <3>2. next.pc = "cancel_check" /\ next.target = a
      BY <1>t DEF Requests
    <3>3. a \in Ids /\ attempt[a].type = "PAY" /\ attempt[a].status \in SuccessfulPay
      BY <1>t, <2>2, CompletedIsPay
    <3> HIDE DEF next
    <3> QED
      BY <1>t, <1>2, <3>1, <3>2, <3>3, ReadStep DEF Advance
  <2> QED
    BY <1>2, <2>1, <2>2 DEF Advance
<1>3. CASE FullFinish(w)
  BY <1>t, <1>i, <1>3, NoEffect, ControlStep DEF FullFinish
<1> QED
  BY <1>1, <1>2, <1>3

(* The steps of syncReservationPaymentSummary have an allowed effect. *)
LEMMA SyncSteps ==
    ASSUME IInv, NEW w \in Workers, SyncRead(w) \/ SyncWrite(w)
    PROVE  StepOf(w)
<1> DEFINE r == req[w]
<1>t. TypeOK /\ r \in Requests
  BY DEF IInv, TypeOK
<1>1. CASE SyncRead(w)
  <2> DEFINE whole == Whole(r.payment, attempt)
             next == [r EXCEPT !.whole = whole, !.pc = "sync_write"]
  <2>1. req' = [req EXCEPT ![w] = next]
    BY <1>1 DEF SyncRead
  <2>2. next.pc = "sync_write"
    <3> HIDE DEF whole
    <3> QED BY <1>t DEF Requests
  <2> HIDE DEF next
  <2> QED
    BY <1>t, <1>1, <2>1, <2>2, NoEffect, WriteStep DEF SyncRead
<1>2. CASE SyncWrite(w)
  <2> DEFINE next == [r EXCEPT !.pc = r.next, !.next = "idle", !.whole = "NONE"]
  <2>1. next.pc \in Continuations
    BY <1>t DEF Requests
  <2>2. Effect
    BY <1>2, NoEffect DEF SyncWrite
  <2>3. CASE r.next = "idle"
    BY <1>t, <1>2, <2>2, <2>3, WriteStep DEF SyncWrite, Idle
  <2>4. CASE r.next # "idle"
    <3>1. req' = [req EXCEPT ![w] = next]
      BY <1>2, <2>4 DEF SyncWrite
    <3> HIDE DEF next
    <3> QED
      BY <1>t, <2>1, <2>2, <3>1, WriteStep DEF Continuations
  <2> QED
    BY <2>3, <2>4
<1> QED
  BY <1>1, <1>2

(* The steps of a reconciliation and of an applied ACK have an allowed
   effect. *)
LEMMA OutcomeSteps ==
    ASSUME IInv, NEW w \in Workers,
           ReconcileWrite(w) \/ AckRead(w) \/ AckWrite(w) \/ AckResume(w)
    PROVE  StepOf(w)
<1> DEFINE r == req[w]
           a == r.target
<1>t. TypeOK /\ r \in Requests
  BY DEF IInv, TypeOK
<1>i. {"idle", "resume"} \subseteq Continuations
  BY DEF Continuations
<1>k. AckInv
  BY DEF IInv
<1>1. CASE ReconcileWrite(w)
  <2>1. a \in Ids /\ attempt[a].type = "PAY" /\ attempt[a] \in AttemptRows
    BY <1>1, <1>t DEF IInv, TypeOK, TargetInv, TargetOk, ReconcileWrite, At
  <2>2. CASE UNCHANGED attempt
    BY <1>t, <1>i, <1>1, <2>2, NoEffect, ControlStep DEF ReconcileWrite
  <2>3. CASE /\ attempt[a].status = "UNKNOWN"
             /\ attempt' = [attempt EXCEPT ![a] = [@ EXCEPT !.status = "APPROVED", !.active = FALSE]]
    <3>1. attempt'[a] = [attempt[a] EXCEPT !.status = "APPROVED", !.active = FALSE]
      BY <1>t, <2>1, <2>3 DEF TypeOK
    <3>2. Keeps(a) /\ attempt'[a].status = "APPROVED" /\ ~attempt'[a].active
      BY <2>1, <3>1 DEF Keeps, AttemptRows
    <3>3. OnlyRow(a) /\ UNCHANGED command
      BY <1>t, <1>1, <2>1, <2>3 DEF TypeOK, OnlyRow, ReconcileWrite
    <3>4. Reconciled(a)
      BY <1>1, <2>1, <2>3, <3>2, <3>3 DEF Reconciled, ReconcileWrite, At
    <3> QED
      BY <1>t, <1>i, <1>1, <2>1, <3>4, ControlStep DEF Effect, ReconcileWrite
  <2> QED
    BY <1>1, <2>2, <2>3 DEF ReconcileWrite
<1>2. CASE AckRead(w)
  <2> DEFINE whole == Whole(r.payment, Applied(w, attempt))
             next == [r EXCEPT !.pc = "ack_write", !.whole = whole]
  <2>1. req' = [req EXCEPT ![w] = next]
    BY <1>2 DEF AckRead
  <2>2. next.pc = "ack_write" /\ next.target = a /\ next.status = r.status
    <3> HIDE DEF whole
    <3> QED BY <1>t DEF Requests
  <2>3. req'[w] = next /\ Others(w)
    <3> HIDE DEF next
    <3> QED BY <1>t, <2>1 DEF TypeOK, Others
  <2>4. Effect /\ UNCHANGED <<attempt, command>>
    BY <1>2, NoEffect DEF AckRead
  <2>5. Applying(w) /\ Answering(w) /\ \A v \in Workers : Applying(v) => v = w
    BY <1>k, <1>2 DEF AckInv, Applying, AckRead, At
  <2> HIDE DEF next
  <2>6. Answering(w)'
    BY <2>2, <2>3, <2>4, <2>5 DEF Answering
  <2> QED
    BY <2>2, <2>3, <2>4, <2>5, <2>6 DEF StepOf, TargetOk
<1>3. CASE AckWrite(w)
  <2> DEFINE active == attempt[a].active /\ ~ReleasesTerminal(r.status)
  <2>1. Applying(w) /\ Answering(w)
    BY <1>k, <1>3 DEF AckInv, Applying, AckWrite, At
  <2>2. attempt[a] \in AttemptRows /\ attempt[a].active
    BY <1>t, <2>1 DEF IInv, TypeOK, HoldInv, RowHold, Answering
  <2>3. attempt' = [attempt EXCEPT ![a] = [attempt[a] EXCEPT !.status = r.status, !.active = active]]
    BY <1>3 DEF AckWrite, Applied
  <2>4. active <=> r.status = "UNKNOWN"
    BY <2>1, <2>2 DEF ReleasesTerminal, Answering
  <2>5. OnlyRow(a) /\ attempt'[a] = [attempt[a] EXCEPT !.status = r.status, !.active = active]
        /\ UNCHANGED command
    <3> HIDE DEF active
    <3> QED BY <1>t, <1>3, <2>1, <2>3 DEF TypeOK, OnlyRow, Answering, AckWrite
  <2>6. Keeps(a) /\ attempt'[a].status = r.status /\ attempt'[a].active = active
    <3> HIDE DEF active
    <3> QED BY <2>2, <2>5 DEF Keeps, AttemptRows
  <2>7. Sync(w, "resume") /\ ~Applying(w)'
    BY <1>t, <1>3 DEF AckWrite, Sync, Applying, TypeOK, Requests
  <2>8. Answered(w, a)
    <3> HIDE DEF active
    <3> QED BY <2>1, <2>4, <2>5, <2>6, <2>7 DEF Answered, Answering
  <2> QED
    BY <1>t, <1>i, <2>1, <2>7, <2>8, ControlStep DEF Effect, Answering
<1>4. CASE AckResume(w)
  BY <1>t, <1>4, NoEffect, ControlStep DEF AckResume
<1> QED
  BY <1>1, <1>2, <1>3, <1>4

(* Any step of a request in service has an allowed effect. *)
LEMMA RequestSteps ==
    ASSUME IInv, NEW w \in Workers, RequestStep(w) \/ Respond(w) \/ Abort(w)
    PROVE  StepOf(w)
<1>t. TypeOK
  BY DEF IInv
<1>1. CASE Respond(w) \/ Abort(w)
  BY <1>t, <1>1, NoEffect, ControlStep DEF Respond, Abort
<1>2. CASE RequestStep(w)
  <2> USE <1>2 DEF RequestStep
  <2>1. CASE PrepareNumber(w) \/ PrepareWrite(w) \/ PrepareReadback(w)
    BY <2>1, PlanSteps
  <2>2. CASE ExecuteCheck(w) \/ ExecuteCard(w) \/ ExecuteManual(w)
    BY <2>2, ExecuteSteps
  <2>3. CASE RetryNumber(w) \/ RetryInsert(w) \/ ChangeWrite(w)
    BY <2>3, RetrySteps
  <2>4. CASE CancelCheck(w) \/ CancelInsert(w)
    BY <2>4, CancelSteps
  <2>5. CASE FullFlag(w) \/ Advance(w) \/ FullFinish(w)
    BY <2>5, FullSteps
  <2>6. CASE SyncRead(w) \/ SyncWrite(w)
    BY <2>6, SyncSteps
  <2>7. CASE ReconcileWrite(w) \/ AckRead(w) \/ AckWrite(w) \/ AckResume(w)
    BY <2>7, OutcomeSteps
  <2> QED
    BY <2>1, <2>2, <2>3, <2>4, <2>5, <2>6, <2>7
<1> QED
  BY <1>1, <1>2

(* The ACK that finalizes a command has an allowed effect and is the only one
   to apply its result. *)
LEMMA AckFinalizeStep ==
    ASSUME IInv, NEW w \in AckWorkers, NEW c \in Ids, NEW result \in Results,
           AckFinalize(w, c, result)
    PROVE  StepOf(w)
<1> DEFINE status == AppliedStatus(attempt[c].type, result)
           next == [Idle EXCEPT !.op = "ack", !.pc = "ack_read", !.payment = attempt[c].payment,
                                !.target = c, !.status = status]
<1>t. TypeOK /\ w \in Workers
  BY DEF IInv, Workers
<1>1. attempt[c].status = "PROCESSING" /\ command[c] = "claimed" /\ attempt[c].active
  BY DEF IInv, HoldInv, RowHold, Live, AckFinalize
<1>2. req'[w] = next /\ Others(w) /\ UNCHANGED attempt
  BY <1>t DEF TypeOK, Others, AckFinalize
<1>3. next.pc = "ack_read" /\ next.target = c /\ next.status = status
  <2> HIDE DEF status
  <2> QED BY DEF Idle
<1>4. command'[c] \in {"completed", "failed"} /\ \A b \in Ids : b # c => command'[b] = command[b]
  BY <1>t DEF TypeOK, AckFinalize, CommandOutcome
<1>5. Effect
  BY <1>1, <1>2, <1>4 DEF Effect, Queued, Live
<1>6. status \notin {"PENDING", "PROCESSING"}
  BY AppliedType
<1> HIDE DEF next
<1>7. Answering(w)'
  <2> HIDE DEF status
  <2> QED BY <1>1, <1>2, <1>3, <1>4, <1>6 DEF Answering
<1>8. ASSUME NEW v \in Workers, Applying(v)
      PROVE  v = w
  <2>1. Answering(v)
    BY <1>8 DEF IInv, AckInv
  <2>2. attempt[req[v].target].active
    BY <2>1 DEF Answering, IInv, HoldInv, RowHold
  <2>3. req[v].target = c
    BY <1>1, <2>1, <2>2 DEF Answering, IInv, HoldInv
  <2> QED
    BY <1>1, <2>1, <2>3 DEF Answering
<1> QED
  BY <1>2, <1>3, <1>5, <1>7, <1>8 DEF StepOf, TargetOk

(* The queue changes no row: a command that can expire belongs to a row that is
   PROCESSING, and the expiry looks for PENDING ones. *)
LEMMA QueueStep ==
    ASSUME IInv, NEW c \in Ids, Queue(c)
    PROVE  Effect /\ UNCHANGED req
<1>1. RowHold(c) /\ Live(c)
  BY DEF IInv, HoldInv, Queue, Claim, Requeue, Expire, Live
<1>2. UNCHANGED <<attempt, req>>
  BY <1>1 DEF RowHold, Queue, Claim, Requeue, Expire
<1>3. \A b \in Ids : b # c => command'[b] = command[b]
  BY DEF IInv, TypeOK, Queue, Claim, Requeue, Expire
<1>4. command'[c] # "none"
  BY DEF IInv, TypeOK, Queue, Claim, Requeue, Expire
<1> QED
  BY <1>1, <1>2, <1>3, <1>4 DEF Effect, Queued

(* Every step of the specification has an allowed effect. *)
LEMMA StepEffect ==
    ASSUME IInv, [Next]_vars
    PROVE  \/ \E w \in Workers : StepOf(w)
           \/ Effect /\ UNCHANGED req
<1>1. CASE UNCHANGED vars
  BY <1>1, NoEffect DEF vars
<1>2. CASE \E w \in ApiWorkers : ApiRequest(w)
  BY <1>2, ApiRequestStep DEF Workers
<1>3. CASE \E w \in AckWorkers, c \in Ids, r \in Results : AckFinalize(w, c, r)
  BY <1>3, AckFinalizeStep DEF Workers
<1>4. CASE \E w \in Workers : RequestStep(w) \/ Respond(w) \/ Abort(w)
  BY <1>4, RequestSteps
<1>5. CASE \E c \in Ids : Queue(c)
  BY <1>5, QueueStep
<1> QED
  BY <1>1, <1>2, <1>3, <1>4, <1>5 DEF Next

----------------------------------------------------------------------------
(* The theorems *)

(* The empty database satisfies the invariant. *)
LEMMA InvInit == Init => IInv
<1> SUFFICES ASSUME Init
             PROVE  IInv
  OBVIOUS
<1>1. TypeOK
  BY TypeInit
<1>2. HoldInv
  BY DEF Init, HoldInv, RowHold, NoRow, Live
<1>3. \A w \in Workers : req[w].pc = "idle"
  BY DEF Init, Idle
<1> QED
  BY <1>1, <1>2, <1>3 DEF IInv, AckInv, TargetInv, TargetOk, Applying

(* The invariant is inductive. *)
LEMMA InvNext == IInv /\ [Next]_vars => IInv'
<1> SUFFICES ASSUME IInv, [Next]_vars
             PROVE  IInv'
  OBVIOUS
<1>1. TypeOK'
  BY TypeNext DEF IInv
<1>2. CASE \E w \in Workers : StepOf(w)
  BY <1>1, <1>2, HoldPreserved, TargetPreserved, AckPreserved DEF IInv, StepOf
<1>3. CASE Effect /\ UNCHANGED req
  <2>1. HoldInv'
    BY <1>3, HoldPreserved
  <2>2. ASSUME NEW w \in Workers
        PROVE  Others(w) /\ TargetOk(w)'
    <3>1. TargetOk(w) /\ Others(w)
      BY <1>3 DEF IInv, TargetInv, Others
    <3>2. req[w].target \in Ids =>
            /\ attempt[req[w].target].type # "NONE" =>
                  attempt'[req[w].target].type = attempt[req[w].target].type
            /\ attempt[req[w].target].type = "PAY" /\ attempt[req[w].target].status \in SuccessfulPay =>
                  attempt'[req[w].target].status \in SuccessfulPay
      BY <1>3, RowsPersist DEF Keeps
    <3> QED
      BY <1>3, <3>1, <3>2 DEF TargetOk
  <2>3. ASSUME NEW w \in Workers, Applying(w)'
        PROVE  Applying(w) /\ Answering(w)'
    <3>1. Applying(w) /\ Answering(w) /\ \A v \in Workers : Applying(v)' <=> Applying(v)
      BY <1>3, <2>3 DEF IInv, AckInv, Applying
    <3>2. attempt'[req[w].target].status = "PROCESSING"
      BY <1>3, <3>1, FlightPersists DEF Answering
    <3>3. command'[req[w].target] = command[req[w].target]
      BY <1>3, <3>1, FlightPersists DEF Answering
    <3> QED
      BY <1>3, <3>1, <3>2, <3>3 DEF Answering
  <2> QED
    BY <1>1, <2>1, <2>2, <2>3 DEF IInv, AckInv, TargetInv
<1> QED
  BY <1>2, <1>3, StepEffect

(* From the invariant every step has an allowed effect. *)
LEMMA EffectNext == IInv /\ [Next]_vars => Effect
BY StepEffect DEF StepOf

(* The inductive invariant holds in every reachable state: the types, the hold
   of the terminal by the one row that has a live command or an open outcome,
   the one request that applies a result, and the row each request works on. *)
THEOREM InvariantHolds == Spec => []IInv
BY InvInit, InvNext, PTL DEF Spec

(* Whatever the requests, the queue and the ACKs interleave, every table keeps
   the shape the code gives it. *)
THEOREM TypeCorrect == Spec => []TypeOK
<1>1. IInv => TypeOK
  BY DEF IInv
<1> QED
  BY <1>1, InvariantHolds, PTL

(* One row at most holds the card terminal, and a command that may still run
   belongs to it: the UNIQUE active_key of the card batch is enough, for any
   number of screens, payments and rows. *)
THEOREM TerminalIsExclusive == Spec => []TerminalExclusive
<1>1. IInv => TerminalExclusive
  BY DEF IInv, HoldInv, RowHold, TerminalExclusive
<1> QED
  BY <1>1, InvariantHolds, PTL

(* Nothing rewrites an approved or booked payment or a refund that was made. *)
THEOREM SettledStays == Spec => SettledPreserved
<1>1. IInv /\ [Next]_vars => [\A a \in Ids : Settled(a) => attempt'[a] = attempt[a]]_vars
  BY EffectNext, RowsPersist
<1> QED
  BY <1>1, InvariantHolds, PTL DEF Spec, SettledPreserved

(* An unknown outcome is left only by a reconciliation, and no card command of
   its payment is queued before. *)
THEOREM UnknownStaysIsolated == Spec => UnknownIsolated
<1> DEFINE Leaves == \A a \in Ids : attempt[a].status = "UNKNOWN" =>
                        \/ attempt'[a] = attempt[a]
                        \/ attempt[a].type = "PAY" /\ attempt'[a].status = "APPROVED"
           Waits == \A c \in Ids : Dispatches(c) => ~HasUnknown(attempt, attempt'[c].payment)
<1>1. ASSUME IInv, [Next]_vars
      PROVE  Leaves
  <2> SUFFICES ASSUME NEW a \in Ids, attempt[a].status = "UNKNOWN"
               PROVE  \/ attempt'[a] = attempt[a]
                      \/ attempt[a].type = "PAY" /\ attempt'[a].status = "APPROVED"
    OBVIOUS
  <2>1. RowHold(a) /\ Effect
    BY <1>1, EffectNext DEF IInv, HoldInv
  <2>2. CASE Planned
    BY <2>1, <2>2 DEF Planned, Replanned, RowHold
  <2>3. CASE \E b \in Ids : Dispatched(b) \/ Booked(b) \/ Reconciled(b)
    BY <2>3 DEF Dispatched, Booked, Reconciled, OnlyRow
  <2>4. CASE \E w \in Workers, b \in Ids : Answered(w, b)
    BY <2>4 DEF Answered, OnlyRow
  <2>5. CASE Queued
    BY <2>5 DEF Queued
  <2> QED
    BY <2>1, <2>2, <2>3, <2>4, <2>5 DEF Effect
<1>2. ASSUME IInv, [Next]_vars
      PROVE  Waits
  <2> SUFFICES ASSUME NEW c \in Ids, Dispatches(c)
               PROVE  ~HasUnknown(attempt, attempt'[c].payment)
    OBVIOUS
  <2>1. Effect
    BY <1>2, EffectNext
  <2>2. ActiveKeyFree
    BY <2>1 DEF Dispatches, Effect, Planned, Dispatched, Booked, Reconciled, Answered, OnlyRow,
                Queued, Live
  <2> QED
    BY <1>2, <2>2 DEF IInv, TypeOK, HoldInv, RowHold, ActiveKeyFree, HasUnknown, RowsOf
<1>3. IInv /\ [Next]_vars => [Leaves /\ Waits]_vars
  BY <1>1, <1>2
<1> QED
  BY <1>3, InvariantHolds, PTL DEF Spec, UnknownIsolated

(* A refund reverses a successful payment of the same reservation, and the
   payment it reverses stays as it was. *)
THEOREM RefundsHaveOriginals == Spec => []RefundHasOriginal
<1> DEFINE Original(c) ==
             /\ attempt[c].orig \in Ids
             /\ attempt[attempt[c].orig].type = "PAY"
             /\ attempt[attempt[c].orig].status \in SuccessfulPay
             /\ attempt[attempt[c].orig].payment = attempt[c].payment
             /\ attempt[attempt[c].orig].amount = attempt[c].amount
           RInv == \A c \in Ids : attempt[c].type = "CANCEL" => Original(c)
<1>1. Init => RInv
  BY DEF Init, NoRow
<1>2. ASSUME IInv, RInv, [Next]_vars
      PROVE  RInv'
  <2> SUFFICES ASSUME NEW c \in Ids, attempt'[c].type = "CANCEL"
               PROVE  Original(c)'
    OBVIOUS
  <2>1. Effect
    BY <1>2, EffectNext
  <2>2. (Keeps(c) /\ Original(c)) \/ Refunds(c)
    <3>1. CASE attempt[c].type = "CANCEL"
      BY <1>2, <2>1, <3>1, RowsPersist
    <3>2. CASE attempt[c].type # "CANCEL"
      BY <2>1, <3>2 DEF Effect, Planned, Replanned, Dispatched, Booked, Reconciled, Answered,
                        OnlyRow, Queued, Keeps
    <3> QED
      BY <3>1, <3>2
  <2>3. /\ attempt'[c].orig \in Ids
        /\ attempt[attempt'[c].orig].type = "PAY"
        /\ attempt[attempt'[c].orig].status \in SuccessfulPay
        /\ attempt[attempt'[c].orig].payment = attempt'[c].payment
        /\ attempt[attempt'[c].orig].amount = attempt'[c].amount
    BY <2>2 DEF Keeps, Refunds
  <2> DEFINE o == attempt'[c].orig
  <2>4. /\ attempt'[o].type = attempt[o].type /\ attempt'[o].payment = attempt[o].payment
        /\ attempt'[o].amount = attempt[o].amount /\ attempt'[o].status \in SuccessfulPay
    BY <1>2, <2>1, <2>3, RowsPersist DEF Keeps
  <2> QED
    BY <2>3, <2>4
<1>3. IInv /\ RInv => RefundHasOriginal
  BY DEF IInv, TypeOK, RefundHasOriginal, PayRows, RowsOf
<1>4. UNCHANGED vars /\ RInv => RInv'
  BY DEF vars
<1> QED
  BY <1>1, <1>2, <1>3, InvariantHolds, PTL DEF Spec

----------------------------------------------------------------------------
(* CloudPayments implements AttemptLifecycle. *)

(* The stage of a row by its status. *)
LEMMA StageIs ==
    ASSUME NEW row \in AttemptRows, row.type = "NONE" => row.status = "PENDING"
    PROVE  /\ row.type = "NONE" => Stage(row) = "absent"
           /\ row.type # "NONE" /\ row.status = "PENDING" => Stage(row) = "planned"
           /\ row.status = "PROCESSING" => Stage(row) = "in_flight"
           /\ row.status \in {"APPROVED", "COMPLETED", "CANCELLED"} => Stage(row) = "settled"
           /\ row.status \in {"DECLINED", "USER_CANCELLED", "ERROR", "BUSY"} => Stage(row) = "failed"
           /\ row.status = "UNKNOWN" => Stage(row) = "unknown"
BY DEF Stage

(* The stage of a row that keeps the hold of the terminal, by its fields. *)
LEMMA StageOf ==
    ASSUME IInv, NEW a \in Ids
    PROVE  /\ attempt[a].status \in AttemptStatuses
           /\ attempt[a].type = "NONE" => Stage(attempt[a]) = "absent"
           /\ attempt[a].type # "NONE" /\ attempt[a].status = "PENDING" => Stage(attempt[a]) = "planned"
           /\ attempt[a].status = "PROCESSING" => Stage(attempt[a]) = "in_flight"
           /\ attempt[a].status \in {"APPROVED", "COMPLETED", "CANCELLED"} => Stage(attempt[a]) = "settled"
           /\ attempt[a].status \in {"DECLINED", "USER_CANCELLED", "ERROR", "BUSY"} => Stage(attempt[a]) = "failed"
           /\ attempt[a].status = "UNKNOWN" => Stage(attempt[a]) = "unknown"
<1>1. attempt[a] \in AttemptRows /\ RowHold(a)
  BY DEF IInv, TypeOK, HoldInv
<1>2. attempt[a].status \in AttemptStatuses
  BY <1>1 DEF AttemptRows
<1> QED
  BY <1>1, <1>2, StageIs DEF RowHold

(* The same facts of the next state *)
LEMMA NextStageOf ==
    ASSUME IInv', NEW a \in Ids
    PROVE  /\ attempt'[a].status \in AttemptStatuses
           /\ attempt'[a].type = "NONE" => Stage(attempt'[a]) = "absent"
           /\ attempt'[a].type # "NONE" /\ attempt'[a].status = "PENDING" => Stage(attempt'[a]) = "planned"
           /\ attempt'[a].status = "PROCESSING" => Stage(attempt'[a]) = "in_flight"
           /\ attempt'[a].status \in {"APPROVED", "COMPLETED", "CANCELLED"} => Stage(attempt'[a]) = "settled"
           /\ attempt'[a].status \in {"DECLINED", "USER_CANCELLED", "ERROR", "BUSY"} => Stage(attempt'[a]) = "failed"
           /\ attempt'[a].status = "UNKNOWN" => Stage(attempt'[a]) = "unknown"
<1>1. attempt'[a] \in AttemptRows /\ RowHold(a)'
  BY DEF IInv, TypeOK, HoldInv
<1>2. attempt'[a].status \in AttemptStatuses
  BY <1>1 DEF AttemptRows
<1> QED
  BY <1>1, <1>2, StageIs DEF RowHold

(* Every step maps to a step of AttemptLifecycle or to a stutter. *)
LEMMA LifecycleStep ==
    ASSUME IInv, IInv', Effect
    PROVE  \/ Lifecycle!Next
           \/ [a \in Ids |-> Stage(attempt[a])]' = [a \in Ids |-> Stage(attempt[a])]
<1> DEFINE stage == [a \in Ids |-> Stage(attempt[a])]
<1>u. \A a \in Ids : stage[a] = Stage(attempt[a]) /\ stage'[a] = Stage(attempt'[a])
  OBVIOUS
<1>f. /\ stage = [a \in Ids |-> stage[a]] /\ stage' = [a \in Ids |-> stage'[a]]
  OBVIOUS
<1>1. CASE Planned
  <2> DEFINE added == {a \in Ids : stage[a] = "absent" /\ stage'[a] = "planned"}
             dropped == {a \in Ids : stage[a] \in {"planned", "failed"} /\ stage'[a] = "failed"}
  <2>1. ASSUME NEW a \in Ids
        PROVE  a \in added \/ a \in dropped \/ stage'[a] = stage[a]
    <3>1. Replanned(a)
      BY <1>1 DEF Planned
    <3>2. CASE attempt'[a] = attempt[a]
      BY <1>u, <3>2
    <3>3. CASE attempt'[a] # attempt[a] /\ attempt[a].type = "NONE"
      BY <1>u, <3>1, <3>3, StageOf, NextStageOf DEF Replanned, Keeps
    <3>4. CASE attempt'[a] # attempt[a] /\ attempt[a].type # "NONE"
      BY <1>u, <3>1, <3>4, StageOf, NextStageOf DEF Replanned, Keeps
    <3> QED
      BY <3>2, <3>3, <3>4
  <2>2. Lifecycle!Plan(added, dropped)
    <3>1. stage' = [a \in Ids |-> IF a \in added THEN "planned"
                                  ELSE IF a \in dropped THEN "failed" ELSE stage[a]]
      <4>1. ASSUME NEW a \in Ids
            PROVE  stage'[a] = IF a \in added THEN "planned"
                               ELSE IF a \in dropped THEN "failed" ELSE stage[a]
        BY <2>1
      <4> HIDE DEF added, dropped
      <4> QED BY <4>1
    <3> QED
      BY <3>1 DEF Lifecycle!Plan
  <2>3. added \in SUBSET Ids /\ dropped \in SUBSET Ids
    OBVIOUS
  <2> HIDE DEF added, dropped
  <2> QED
    BY <2>2, <2>3 DEF Lifecycle!Next
<1>2. ASSUME NEW a \in Ids, OnlyRow(a)
      PROVE  stage' = [stage EXCEPT ![a] = stage'[a]]
  BY <1>2 DEF OnlyRow
<1>3. ASSUME NEW a \in Ids, Dispatched(a)
      PROVE  Lifecycle!Next
  <2>1. stage[a] \in {"absent", "planned"} /\ stage'[a] = "in_flight"
    BY <1>u, <1>3, StageOf, NextStageOf DEF Dispatched, Refunds
  <2>2. \A b \in Ids : stage[b] \notin {"in_flight", "unknown"}
    <3> TAKE b \in Ids
    <3>1. attempt[b].status \notin {"PROCESSING", "UNKNOWN"}
      BY <1>3 DEF Dispatched, ActiveKeyFree, IInv, HoldInv, RowHold
    <3> QED
      BY <1>u, <3>1, StageOf DEF AttemptStatuses
  <2>3. Lifecycle!Dispatch(a)
    BY <1>2, <1>3, <2>1, <2>2 DEF Dispatched, Lifecycle!Dispatch, Lifecycle!AtTerminal
  <2> QED
    BY <2>3 DEF Lifecycle!Next
<1>4. ASSUME NEW a \in Ids, Booked(a)
      PROVE  Lifecycle!Next
  <2>1. stage[a] \in {"absent", "planned"} /\ stage'[a] = "settled"
    BY <1>u, <1>4, StageOf, NextStageOf DEF Booked, Refunds
  <2>2. Lifecycle!Book(a)
    BY <1>2, <1>4, <2>1 DEF Booked, Lifecycle!Book
  <2> QED
    BY <2>2 DEF Lifecycle!Next
<1>5. ASSUME NEW a \in Ids, Reconciled(a)
      PROVE  Lifecycle!Next
  <2>1. stage[a] = "unknown" /\ stage'[a] = "settled"
    BY <1>u, <1>5, StageOf, NextStageOf DEF Reconciled
  <2>2. Lifecycle!Reconcile(a)
    BY <1>2, <1>5, <2>1 DEF Reconciled, Lifecycle!Reconcile
  <2> QED
    BY <2>2 DEF Lifecycle!Next
<1>6. ASSUME NEW w \in Workers, NEW a \in Ids, Answered(w, a)
      PROVE  Lifecycle!Next
  <2>1. stage[a] = "in_flight" /\ stage'[a] \in {"settled", "failed", "unknown"}
    <3>1. attempt[a].status = "PROCESSING" /\ attempt'[a].status \notin {"PENDING", "PROCESSING"}
      BY <1>6 DEF Answered
    <3> QED
      BY <1>u, <3>1, StageOf, NextStageOf DEF AttemptStatuses
  <2>2. Lifecycle!Answer(a, stage'[a])
    BY <1>2, <1>6, <2>1 DEF Answered, Lifecycle!Answer
  <2> QED
    BY <2>1, <2>2 DEF Lifecycle!Next
<1>7. CASE Queued
  BY <1>7 DEF Queued
<1> QED
  BY <1>1, <1>3, <1>4, <1>5, <1>6, <1>7 DEF Effect

(* The detailed rows, seen by their stage, behave as AttemptLifecycle promises. *)
THEOREM ImplementsLifecycle == Spec => LifecycleSpec
<1>1. Init => Lifecycle!Init
  BY StageIs, NoRowType DEF Init, Lifecycle!Init, NoRow
<1>2. IInv /\ IInv' /\ [Next]_vars => [Lifecycle!Next]_([a \in Ids |-> Stage(attempt[a])])
  BY EffectNext, LifecycleStep
<1> QED
  BY <1>1, <1>2, InvariantHolds, PTL DEF Spec, LifecycleSpec, Lifecycle!Spec

=============================================================================
