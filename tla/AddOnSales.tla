------------------------------ MODULE AddOnSales ------------------------------
(***************************************************************************)
(* Drinks and socks sold beside a game or on their own                     *)
(* (db/add-on-sales.ts), the payment that settles them together with one   *)
(* or two games (db/payments.ts, db/payment-group.ts), and the day's       *)
(* figures made of both (db/analytics.ts).                                 *)
(*                                                                         *)
(* Money is counted in units: every part of a payment names its method, a  *)
(* summary splits what was paid among the games, the sale takes its share  *)
(* of each method, and the statistics take the sale out of the game again. *)
(* One request at a time; a row, its summary and the sale's are one step.  *)
(***************************************************************************)
EXTENDS Integers, Sequences, FiniteSets, FiniteSetsExt

CONSTANTS
  Kinds,       \* "alone": a sale of its own; "attached"; "group": two games
  GamePrice,   \* base_amount of a game
  Deposits,    \* what Naver may have taken for the first game
  Sales,       \* what may be sold: the quantity of each product
  MaxParts, MaxPlans   \* bounds

VARIABLES
  kind, deposit,  \* what is being sold, fixed
  order,     \* add_on_sale_orders
  addOn,     \* reservations.add_on_amount of the first game
  payment,   \* payments.status
  parts,     \* payment_attempts of the plan, in order
  refunded,  \* some row of the payment was cancelled
  bill,      \* reservations: what the summary wrote, per game
  plans      \* plans so far

saleVars == <<kind, deposit, order, addOn, payment, parts, refunded, bill, plans>>

Methods == {"card", "cash", "account"}
Nothing == [m \in Methods |-> 0]
Total(f) == MapThenSumSet(LAMBDA m : f[m], DOMAIN f)
Least(a, b) == IF a < b THEN a ELSE b
Most(a, b) == IF a > b THEN a ELSE b

Products == {"slush", "beverage", "other"}
Price == [p \in Products |-> IF p = "other" THEN 2 ELSE 1]
\* quoteAddOnSale
Quote(counts) == MapThenSumSet(LAMBDA p : counts[p] * Price[p], Products)

NoOrder == [status |-> "none", counts |-> [p \in Products |-> 0], by |-> Nothing]
Order(counts, status) == [status |-> status, counts |-> counts, by |-> Nothing]
Unpaid == [by |-> Nothing, coupon |-> 0, method |-> "", status |-> "unpaid", amount |-> 0]

Games == IF kind = "group" THEN {1, 2} ELSE IF kind = "attached" THEN {1} ELSE {}

\* createAddOnSaleOrder makes a sale of its own, with a reservation to hang its payment on.
SaleInit ==
  /\ kind \in Kinds /\ deposit \in Deposits /\ (kind = "alone" => deposit = 0)
  /\ \/ kind = "alone" /\ \E c \in Sales : Quote(c) >= 1 /\ order = Order(c, "PAYMENT_PENDING")
     \/ kind # "alone" /\ order = NoOrder
  /\ addOn = Quote(order.counts) /\ payment = "NONE" /\ parts = <<>> /\ refunded = FALSE
  /\ bill = [g \in {1, 2} |-> Unpaid]
  /\ plans = 0

-----------------------------------------------------------------------------
(* What the payment asks for, and what its rows hold.                        *)

\* The amounts of payment_allocations, when the sale adds `extra` to game 1; a
\* sale of its own stands for game 1.
FinalOf(g, extra) == (IF g \in Games THEN GamePrice ELSE 0) + (IF g = 1 THEN extra ELSE 0)
PayableOf(g, extra) == FinalOf(g, extra) - (IF g = 1 THEN deposit ELSE 0)
Owed(extra) == PayableOf(1, extra) + PayableOf(2, extra)

Settled(table) == {i \in DOMAIN table : table[i].status = "COMPLETED"}
AmountOf(table, S) == MapThenSumSet(LAMBDA i : table[i].amount, S)
Paid(table) == AmountOf(table, Settled(table))
PaidBy(table, m) == AmountOf(table, {i \in Settled(table) : table[i].method = m})

WholeStatus(table, ref, extra) ==
  LET short == Paid(table) < Owed(extra) IN
  CASE ~short -> "PAID"
    [] short /\ Paid(table) > 0 /\ ref -> "PARTIALLY_CANCELLED"
    [] short /\ Paid(table) > 0 /\ ~ref -> "PARTIALLY_PAID"
    [] short /\ Paid(table) = 0 /\ ref -> "CANCELLED"
    [] OTHER -> "PENDING"

\* allocateGroupPaymentMethods: the money, in the order of the parts, lies end
\* to end along what the games owe, and each game takes what lies on it.
Before(table, i) == AmountOf(table, {j \in Settled(table) : j < i})
Overlap(a, b, c, d) == Most(0, Least(b, d) - Most(a, c))
ShareOf(table, g, m, extra) ==
  LET from == IF g = 1 THEN 0 ELSE PayableOf(1, extra) IN
  MapThenSumSet(LAMBDA i : Overlap(from, from + PayableOf(g, extra),
                                   Before(table, i), Before(table, i) + table[i].amount),
                {i \in Settled(table) : table[i].method = m})

BillOf(table, g, whole, extra) ==
  LET by == [m \in Methods |-> IF kind = "group" THEN ShareOf(table, g, m, extra) ELSE PaidBy(table, m)]
      coupon == PaidBy(table, "coupon")
      used == {m \in Methods : by[m] > 0} \cup (IF coupon > 0 THEN {"coupon"} ELSE {})
  IN [by |-> by, coupon |-> coupon, amount |-> FinalOf(g, extra),
      method |-> CASE Cardinality(used) > 1 -> "mixed" [] Cardinality(used) = 1 -> CHOOSE m \in used : TRUE
                   [] OTHER -> "",
      status |-> CASE kind # "group" \/ whole = "CANCELLED" -> whole
                   [] kind = "group" /\ whole # "CANCELLED" /\ Total(by) >= PayableOf(g, extra) -> "PAID"
                   [] OTHER -> IF Total(by) > 0 THEN "PARTIALLY_PAID" ELSE "unpaid"]

-----------------------------------------------------------------------------
(* allocateAddOnPaymentMethods: the sale's share of each method, rounded     *)
(* down, and the rest to the last method that was used.                      *)

\* Mutant of AllocateAddOn: every share is rounded down.
AllocateRoundedDown(amount, by) ==
  [m \in Methods |-> (Least(amount, Total(by)) * by[m]) \div Most(1, Total(by))]

Rank == [m \in Methods |-> CASE m = "card" -> 1 [] m = "cash" -> 2 [] m = "account" -> 3]
AllocateAddOn(amount, by) ==
  LET used == {m \in Methods : by[m] > 0}
      recognized == Least(amount, Total(by))
      share(m) == (recognized * by[m]) \div Total(by)
      IsLast(m) == \A other \in used : Rank[other] <= Rank[m]
  IN [m \in Methods |->
        IF m \notin used THEN 0
        ELSE IF IsLast(m) THEN recognized - MapThenSumSet(share, used \ {m})
        ELSE share(m)]

\* syncAddOnSalePayment, which only PAID and CANCELLED reach.
SaleAfter(sale, whole, by, extra) ==
  IF sale.status = "none" \/ (kind = "attached" /\ extra = 0) THEN sale
  ELSE CASE whole = "PAID" -> [sale EXCEPT !.status = "PAID", !.by = AllocateAddOn(Quote(sale.counts), by)]
         [] whole = "CANCELLED" -> [sale EXCEPT !.status = "CANCELLED", !.by = Nothing]
         [] OTHER -> sale

\* syncReservationPaymentSummary after a change of the rows.
Summarise(sale, extra) ==
  LET whole == WholeStatus(parts', refunded', extra) IN
  /\ payment' = whole
  /\ bill' = [g \in {1, 2} |-> IF g = 1 \/ g \in Games THEN BillOf(parts', g, whole, extra) ELSE Unpaid]
  /\ order' = SaleAfter(sale, whole, bill'[1].by, extra)
  /\ addOn' = extra
  /\ UNCHANGED <<kind, deposit>>

-----------------------------------------------------------------------------
Busy == \E i \in DOMAIN parts : parts[i].status = "PROCESSING"
Part(amount, method) == [amount |-> amount, method |-> method, status |-> "PENDING"]
Splits(amount, n) == {a \in [1..n -> 1..amount] : MapThenSumSet(LAMBDA i : a[i], 1..n) = amount}
PlansOf(amount) ==
  UNION {{[i \in 1..n |-> Part(a[i], m[i])] : a \in Splits(amount, n), m \in [1..n -> Methods \cup {"coupon"}]} :
           n \in 1..MaxParts}
\* A coupon pays for one game, never for the sale.
CouponsFit(items) ==
  LET coupons == AmountOf(items, {i \in DOMAIN items : items[i].method = "coupon"}) IN
  coupons = 0 \/ (kind = "attached" /\ coupons <= GamePrice - deposit)

\* preparePaymentPlan with the products that go with it, and its summary.
Plan(counts) ==
  LET extra == Quote(counts) IN
  /\ plans < MaxPlans /\ plans' = plans + 1
  /\ Paid(parts) = 0 /\ ~Busy
  /\ kind = "alone" => order.status # "none" /\ counts = order.counts
  /\ kind = "group" => \A g \in Games : bill[g].status # "PAID"
  /\ parts' \in PlansOf(Owed(extra))
  /\ CouponsFit(parts')
  /\ refunded' = refunded
  /\ Summarise(CASE kind = "alone" -> order
                 [] kind # "alone" /\ extra > 0 -> Order(counts, "PAYMENT_PENDING")
                 [] kind # "alone" /\ extra = 0 -> NoOrder,
               extra)

\* Parts are paid in their order; processPaymentTransaction.
IsDue(i) ==
  /\ parts[i].status = "PENDING"
  /\ \A j \in 1..(i - 1) : parts[j].status \in {"COMPLETED", "REFUNDED"}
  /\ ~Busy

\* Cash, a transfer or a coupon is settled at once.
Settle(i) ==
  /\ IsDue(i) /\ parts[i].method # "card"
  /\ parts' = [parts EXCEPT ![i].status = "COMPLETED"]
  /\ UNCHANGED <<refunded, plans>> /\ Summarise(order, addOn)
Dispatch(i) ==
  /\ IsDue(i) /\ parts[i].method = "card" /\ payment \in {"PENDING", "PARTIALLY_PAID"}
  /\ parts' = [parts EXCEPT ![i].status = "PROCESSING"]
  /\ UNCHANGED <<kind, deposit, order, addOn, payment, refunded, bill, plans>>
\* A card that is refused is tried again, in a row that stands for the same part.
Answer(i, approved) ==
  /\ parts[i].status = "PROCESSING"
  /\ parts' = [parts EXCEPT ![i].status = IF approved THEN "COMPLETED" ELSE "PENDING"]
  /\ UNCHANGED <<refunded, plans>> /\ Summarise(order, addOn)
\* cancelPaymentTransaction and, for a card, its answer.
Refund(i) ==
  /\ i \in Settled(parts) /\ ~Busy
  /\ parts' = [parts EXCEPT ![i].status = "REFUNDED"]
  /\ refunded' = TRUE
  /\ UNCHANGED plans /\ Summarise(order, addOn)

\* cancelPendingAddOnSaleOrder, and the screen that starts again.
CancelPending ==
  /\ kind = "alone" /\ order.status = "PAYMENT_PENDING"
  /\ \A i \in DOMAIN parts : parts[i].status = "PENDING"
  /\ order' = NoOrder /\ addOn' = 0
  /\ parts' = <<>> /\ payment' = "NONE" /\ refunded' = FALSE
  /\ bill' = [g \in {1, 2} |-> Unpaid]
  /\ UNCHANGED <<kind, deposit, plans>>
\* deleteCancelledPaymentRecord: a sale of its own goes, a game stays unpaid.
DeleteRecord ==
  /\ payment = "CANCELLED" /\ Paid(parts) = 0 /\ ~Busy
  /\ order' = IF kind = "alone" THEN NoOrder ELSE order
  /\ addOn' = IF kind = "alone" THEN 0 ELSE addOn
  /\ parts' = <<>> /\ payment' = "NONE" /\ refunded' = FALSE
  /\ bill' = [g \in {1, 2} |-> [Unpaid EXCEPT !.amount = bill[g].amount]]
  /\ UNCHANGED <<kind, deposit, plans>>

SaleNext ==
  \/ \E c \in Sales : Plan(c)
  \/ \E i \in DOMAIN parts : Settle(i) \/ Dispatch(i) \/ Refund(i) \/ \E ok \in BOOLEAN : Answer(i, ok)
  \/ CancelPending \/ DeleteRecord

SaleSpec == SaleInit /\ [][SaleNext]_saleVars

-----------------------------------------------------------------------------
(* The day's figures: getMonthlyAnalytics.                                   *)

\* What the statistics read of the sale beside game g.
Linked(g) == IF g = 1 /\ kind # "alone" /\ order.status = "PAID" THEN Quote(order.counts) ELSE 0
LinkedBy(g, m) == IF Linked(g) > 0 THEN order.by[m] ELSE 0

\* classifyReservationSales, of a game that is not cancelled.
DepositOf(g) ==
  LET expected == Most(0, bill[g].amount - Linked(g)) IN
  IF g = 1 THEN Least(deposit, expected) ELSE 0
GameBy(g, m) == Most(0, bill[g].by[m] - LinkedBy(g, m))
CouponOf(g) ==
  CASE bill[g].coupon > 0 -> bill[g].coupon
    [] bill[g].coupon = 0 /\ bill[g].method = "coupon" -> Most(0, bill[g].amount - Linked(g) - DepositOf(g))
    [] OTHER -> 0
Residual(g) ==
  Most(0, bill[g].amount - Linked(g) - CouponOf(g) - DepositOf(g)
            - MapThenSumSet(LAMBDA m : GameBy(g, m), Methods))
GameSales(g, m) ==
  IF bill[g].status # "PAID" THEN 0
  ELSE GameBy(g, m) + (IF bill[g].method = m THEN Residual(g) ELSE 0)
Unclassified(g) == IF bill[g].status = "PAID" /\ bill[g].method \in {"mixed", ""} THEN Residual(g) ELSE 0

\* addOnSaleBucketValues
SaleBy(m) == IF order.status = "PAID" THEN order.by[m] ELSE 0
Bucket(p) ==
  LET revenue == MapThenSumSet(SaleBy, Methods)
      recognized == Least(Quote(order.counts), revenue)
      floor(q) == (order.counts[q] * Price[q] * recognized) \div Most(1, Quote(order.counts))
  IN IF p = "other" THEN Most(0, recognized - floor("slush") - floor("beverage")) ELSE floor(p)

DayTotal(m) == MapThenSumSet(LAMBDA g : GameSales(g, m), Games) + SaleBy(m)

(* Every unit that was paid is in the day's figures once: under the method   *)
(* it was paid by, what the game and the sale beside it count apart is       *)
(* together what the rows hold; and in its place, the sale counts its price  *)
(* and a game what is left of its own after the coupon.  A sale is PAID      *)
(* exactly with its payment; after a full refund, and before a payment,      *)
(* nothing is counted, and never more than was paid.                         *)
SalesAddUp ==
  /\ payment = "PAID" =>
       /\ \A m \in Methods : DayTotal(m) = PaidBy(parts, m)
       /\ \A g \in Games :
            /\ MapThenSumSet(LAMBDA m : GameSales(g, m), Methods) + DepositOf(g) + bill[g].coupon = GamePrice
            /\ Unclassified(g) = 0
       /\ order.status \in {"none", "PAID"}
       /\ MapThenSumSet(Bucket, Products) = Quote(order.counts)
  /\ payment = "PARTIALLY_PAID" => \A m \in Methods : DayTotal(m) <= PaidBy(parts, m)
  /\ payment \in {"NONE", "PENDING", "CANCELLED"} =>
       \A m \in Methods : DayTotal(m) = 0
=============================================================================
