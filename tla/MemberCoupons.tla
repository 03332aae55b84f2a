-------------------------- MODULE MemberCoupons --------------------------
(***************************************************************************)
(* The stamps and the coupons of one member (db/member-benefits.ts) and    *)
(* the payment rows that a coupon settles (db/payments.ts).                *)
(*                                                                         *)
(* Stamps are a ledger; when their sum reaches the goal a request turns    *)
(* them into a coupon, numbered by the coupons that are already there.  A  *)
(* payment plan names a coupon; the row that names it spends it, its       *)
(* cancellation gives it back.  Callers read, check and write in separate *)
(* steps, several at once, and each may stop after any of them.            *)
(***************************************************************************)
EXTENDS Integers, Sequences, FiniteSets

CONSTANTS
  Games,      \* reservations of the member, one plan at a time
  Stamped,    \* those that are played to their end, a stamp each
  Goal,       \* stamp_goal
  MaxCycles,  \* coupons made of stamps (a bound)
  Gifts,      \* coupons the staff gives (grantWeekdayCoupons)
  Callers,
  MaxPlans, MaxAdjust   \* bounds: plans of each reservation, stamps the staff adds

ASSUME CouponConstants ==
  /\ Goal \in Nat /\ MaxCycles \in Nat /\ MaxAdjust \in Nat
  /\ MaxPlans \in [Games -> Nat]
  /\ Gifts \cap (1..MaxCycles) = {}

VARIABLES
  earned,     \* stamp_ledger: the games that brought a stamp (EARN),
  deducted,   \*   the cycles that took some (AUTO_COUPON),
  adjusted,   \*   what the staff added (ADJUST),
  manual,     \*   a use by hand and its cancellation (USE, CANCEL)
  coupon,     \* member_coupons: status, and the row that used it
  overdue,    \* the coupons whose expires_at has passed
  rows,       \* payment_attempts of each reservation, in order
  request,
  crossed,    \* the reservations that two requests worked on at once
  stale       \* stamps were taken on a balance that had changed since it was read

mvars == <<earned, deducted, adjusted, manual, coupon, overdue, rows, request, crossed, stale>>
ledger == <<earned, deducted, adjusted, manual>>
bills == <<rows, crossed>>

Autos == 1..MaxCycles
Coupons == Autos \cup Gifts
NoRequest == [pc |-> "idle"]
Nobody == <<>>

CouponInit ==
  /\ earned = {} /\ deducted = {} /\ adjusted = 0 /\ manual = "none"
  /\ coupon = [c \in Coupons |-> [status |-> "none", by |-> Nobody]]
  /\ overdue = {}
  /\ rows = [g \in Games |-> <<>>]
  /\ request = [q \in Callers |-> NoRequest]
  /\ crossed = {} /\ stale = FALSE

Asks(q, first) == request[q] = NoRequest /\ request' = [request EXCEPT ![q] = first]
GoesOn(q, next) == request' = [request EXCEPT ![q] = next]

Balance == Cardinality(earned) + adjusted - Goal * (Cardinality(deducted) + IF manual = "used" THEN 1 ELSE 0)
Issued == Cardinality({k \in Autos : coupon[k].status # "none"})
\* expireMemberCoupons: the first write of every request that looks at coupons.
Expired == [c \in Coupons |-> IF c \in overdue /\ coupon[c].status = "ACTIVE"
                              THEN [coupon[c] EXCEPT !.status = "EXPIRED"] ELSE coupon[c]]

CouponEnds(c) ==
  /\ c \notin overdue /\ coupon[c].status # "none"
  /\ overdue' = overdue \cup {c}
  /\ UNCHANGED <<ledger, coupon, bills, request, stale>>

-----------------------------------------------------------------------------
(* Stamps.  issueAutomaticStampCoupons reads the balance and the number of  *)
(* coupons in two queries and writes a coupon and its deduction together.   *)

ToIssue(then) == [pc |-> "balance", then |-> then]
\* getMemberBenefits, which ends every request of the staff: expire, issue, show.
ToBenefits(then) == [pc |-> "expire", then |-> then]
Expire(q) ==
  /\ request[q].pc = "expire"
  /\ coupon' = Expired
  /\ GoesOn(q, ToIssue(request[q].then))
  /\ UNCHANGED <<ledger, overdue, bills, stale>>

\* A finished game; the next request does not earn it again.
Earn(q, g) ==
  /\ g \in Stamped \ earned /\ earned' = earned \cup {g}
  /\ Asks(q, ToIssue("idle"))
  /\ UNCHANGED <<deducted, adjusted, manual, coupon, overdue, bills, stale>>
Adjust(q) ==
  /\ adjusted < MaxAdjust /\ adjusted' = adjusted + 1
  /\ Asks(q, ToBenefits("idle"))
  /\ UNCHANGED <<earned, deducted, manual, coupon, overdue, bills, stale>>
\* A screen shows the member; redeemStampBenefit begins like that.
Benefits(q, then) ==
  /\ then = "redeem" => manual = "none"
  /\ Asks(q, ToBenefits(then))
  /\ UNCHANGED <<ledger, coupon, overdue, bills, stale>>

ReadBalance(q) ==
  /\ request[q].pc = "balance"
  /\ GoesOn(q, IF Balance >= Goal THEN [pc |-> "count", balance |-> Balance, then |-> request[q].then]
             ELSE IF request[q].then = "idle" THEN NoRequest ELSE [pc |-> request[q].then])
  /\ UNCHANGED <<ledger, coupon, overdue, bills, stale>>
ReadCount(q) ==
  /\ request[q].pc = "count" /\ Issued < MaxCycles
  /\ GoesOn(q, [pc |-> "issue", balance |-> request[q].balance, cycle |-> Issued + 1, then |-> request[q].then])
  /\ UNCHANGED <<ledger, coupon, overdue, bills, stale>>
Issue(q) ==
  /\ request[q].pc = "issue"
  /\ LET k == request[q].cycle IN
       /\ coupon' = IF coupon[k].status = "none" THEN [coupon EXCEPT ![k] = [status |-> "ACTIVE", by |-> Nobody]] ELSE coupon
       /\ deducted' = deducted \cup {k}
       /\ stale' = (stale \/ (k \notin deducted /\ Balance < Goal))
  /\ GoesOn(q, ToIssue(request[q].then))
  /\ UNCHANGED <<earned, adjusted, manual, overdue, bills>>

\* redeemStampBenefit without a reservation: the balance once more, the use.
RedeemRead(q) ==
  /\ request[q].pc = "redeem"
  /\ GoesOn(q, IF Balance >= Goal THEN [pc |-> "use"] ELSE NoRequest)
  /\ UNCHANGED <<ledger, coupon, overdue, bills, stale>>
RedeemWrite(q) ==
  /\ request[q].pc = "use" /\ manual = "none"
  /\ manual' = "used"
  /\ stale' = (stale \/ Balance < Goal)
  /\ GoesOn(q, ToBenefits("idle"))
  /\ UNCHANGED <<earned, deducted, adjusted, coupon, overdue, bills>>
\* cancelStampUse: once, by its key.
CancelUse(q) ==
  /\ manual = "used" /\ manual' = "cancelled"
  /\ Asks(q, ToBenefits("idle"))
  /\ UNCHANGED <<earned, deducted, adjusted, coupon, overdue, bills, stale>>

\* grantWeekdayCoupons; cancelMemberCoupon, whose read refuses a used coupon and
\* whose write does not touch one.
Grant(q, c) ==
  /\ coupon[c].status = "none"
  /\ coupon' = [coupon EXCEPT ![c].status = "ACTIVE"]
  /\ Asks(q, ToBenefits("idle"))
  /\ UNCHANGED <<ledger, overdue, bills, stale>>
CancelCoupon(q, c) ==
  /\ coupon[c].status \in {"ACTIVE", "EXPIRED"}
  /\ coupon' = [coupon EXCEPT ![c].status = "CANCELLED"]
  /\ Asks(q, ToBenefits("idle"))
  /\ UNCHANGED <<ledger, overdue, bills, stale>>

-----------------------------------------------------------------------------
(* Payment rows.  A request holds the row as it read it.                    *)

\* Where a request is in its work on the rows of a reservation.
AtRows == {"validate", "plan", "check", "settle", "change", "cancel"}
StartOn(q, g, first) ==
  /\ Asks(q, first)
  /\ crossed' = IF \E p \in Callers : request[p].pc \in AtRows /\ request[p].row[1] = g
                THEN crossed \cup {g} ELSE crossed

Latest(g) == Len(rows[g])
RowOf(at) == rows[at[1]][at[2]]
Standing(at) == RowOf(at).status = "COMPLETED"
Pending(g) == Latest(g) > 0 /\ rows[g][Latest(g)].status = "PENDING"
Usable(c) == c \notin overdue /\ coupon[c].status = "ACTIVE"
\* validateMemberCouponForPayment: expire, then read.
Validate(q, c, next) ==
  /\ coupon' = Expired
  /\ GoesOn(q, IF Usable(c) THEN next ELSE NoRequest)

\* preparePaymentPlan: refused while a payment stands; the coupon is validated,
\* then the rows that wait are replaced.
PlanRead(q, g, c) ==
  /\ Latest(g) < MaxPlans[g]
  /\ \A i \in 1..Latest(g) : ~Standing(<<g, i>>)
  /\ StartOn(q, g, [pc |-> "validate", row |-> <<g, 0>>, coupon |-> <<c>>])
  /\ UNCHANGED <<ledger, coupon, overdue, rows, stale>>
PlanCheck(q) ==
  /\ request[q].pc = "validate"
  /\ Validate(q, request[q].coupon[1], [request[q] EXCEPT !.pc = "plan"])
  /\ UNCHANGED <<ledger, overdue, bills, stale>>
PlanWrite(q) ==
  /\ request[q].pc = "plan"
  /\ LET g == request[q].row[1]
         Replaced(row) == IF row.status = "PENDING" THEN [row EXCEPT !.status = "USER_CANCELLED"] ELSE row
     IN /\ Latest(g) < MaxPlans[g]
        /\ rows' = [rows EXCEPT ![g] = Append([i \in DOMAIN @ |-> Replaced(@[i])],
                                             [status |-> "PENDING", coupon |-> request[q].coupon])]
  /\ GoesOn(q, NoRequest)
  /\ UNCHANGED <<ledger, coupon, overdue, crossed, stale>>

\* dispatchPaymentAttempt of the row that comes next; the row was read, the
\* coupon is validated, and both are written in one batch.
SettleRead(q, g) ==
  /\ Pending(g)
  /\ StartOn(q, g, [pc |-> IF rows[g][Latest(g)].coupon = <<>> THEN "settle" ELSE "check",
                    row |-> <<g, Latest(g)>>, coupon |-> rows[g][Latest(g)].coupon])
  /\ UNCHANGED <<ledger, coupon, overdue, rows, stale>>
SettleCheck(q) ==
  /\ request[q].pc = "check"
  /\ Validate(q, request[q].coupon[1], [request[q] EXCEPT !.pc = "settle"])
  /\ UNCHANGED <<ledger, overdue, bills, stale>>
\* Mutant of Spendable: the validation before is trusted.
SpendableTrusted(c) == TRUE
Spendable(c) == Usable(c)
Settle(q) ==
  /\ request[q].pc = "settle"
  /\ LET at == request[q].row
         c == request[q].coupon
         Spends == c # <<>> /\ Spendable(c[1])
         Settles == RowOf(at).status = "PENDING" /\ (c = <<>> \/ Spends)
     IN /\ coupon' = IF Spends THEN [coupon EXCEPT ![c[1]] = [status |-> "USED", by |-> at]] ELSE coupon
        /\ rows' = IF Settles THEN [rows EXCEPT ![at[1]][at[2]].status = "COMPLETED"] ELSE rows
  /\ GoesOn(q, NoRequest)
  /\ UNCHANGED <<ledger, overdue, crossed, stale>>

\* changePendingPaymentTransactionMethod: the row is paid otherwise.
ChangeRead(q, g) ==
  /\ Pending(g) /\ rows[g][Latest(g)].coupon # <<>>
  /\ StartOn(q, g, [pc |-> "change", row |-> <<g, Latest(g)>>])
  /\ UNCHANGED <<ledger, coupon, overdue, rows, stale>>
ChangeWrite(q) ==
  /\ request[q].pc = "change"
  /\ LET at == request[q].row IN
       rows' = IF RowOf(at).status = "PENDING" THEN [rows EXCEPT ![at[1]][at[2]].coupon = <<>>] ELSE rows
  /\ GoesOn(q, NoRequest)
  /\ UNCHANGED <<ledger, coupon, overdue, crossed, stale>>

\* requestPaymentCancellation and createCancellation: the CANCEL row and the
\* coupon, which may have expired meanwhile.
CancelRead(q, g) ==
  /\ \E i \in 1..Latest(g) :
       /\ Standing(<<g, i>>)
       /\ StartOn(q, g, [pc |-> "cancel", row |-> <<g, i>>, coupon |-> rows[g][i].coupon])
  /\ UNCHANGED <<ledger, coupon, overdue, rows, stale>>
\* Mutant of GivenBack: whichever row used the coupon.
GivenBackAny(c, at) == coupon[c].status = "USED"
GivenBack(c, at) == coupon[c].status = "USED" /\ coupon[c].by = at
CancelWrite(q) ==
  /\ request[q].pc = "cancel"
  /\ LET at == request[q].row
         c == request[q].coupon
     IN /\ rows' = [rows EXCEPT ![at[1]][at[2]].status = "CANCELLED"]
        /\ coupon' = IF c # <<>> /\ GivenBack(c[1], at)
                     THEN [coupon EXCEPT ![c[1]] =
                             [status |-> IF c[1] \in overdue THEN "EXPIRED" ELSE "ACTIVE", by |-> Nobody]]
                     ELSE coupon
  /\ GoesOn(q, NoRequest)
  /\ UNCHANGED <<ledger, overdue, crossed, stale>>

\* A request ends before its time: nothing takes it up.
Dies(q) ==
  /\ request[q] # NoRequest /\ GoesOn(q, NoRequest)
  /\ UNCHANGED <<ledger, coupon, overdue, bills, stale>>

CouponNext ==
  \/ \E c \in Coupons : CouponEnds(c)
  \/ \E q \in Callers :
       \/ Adjust(q) \/ Expire(q) \/ ReadBalance(q) \/ ReadCount(q) \/ Issue(q)
       \/ RedeemRead(q) \/ RedeemWrite(q) \/ CancelUse(q)
       \/ PlanCheck(q) \/ PlanWrite(q) \/ SettleCheck(q) \/ Settle(q) \/ ChangeWrite(q) \/ CancelWrite(q)
       \/ Dies(q)
       \/ \E then \in {"idle", "redeem"} : Benefits(q, then)
       \/ \E c \in Gifts : Grant(q, c)
       \/ \E c \in Coupons : CancelCoupon(q, c)
       \/ \E g \in Games : \/ Earn(q, g) \/ SettleRead(q, g) \/ ChangeRead(q, g) \/ CancelRead(q, g)
                           \/ \E c \in Coupons : PlanRead(q, g, c)
CouponSpec == CouponInit /\ [][CouponNext]_mvars

-----------------------------------------------------------------------------
\* A coupon is used by the row that stands as paid with it, and by no other: it
\* is spent once, whichever reservations plan with it, and a cancelled row gives
\* it back.  Two requests on one reservation at once may spend a coupon on a row
\* that was replaced, or that is paid in cash by then: it stays used.
SpentOnce ==
  /\ \A g \in Games : \A i \in 1..Latest(g) :
       Standing(<<g, i>>) /\ rows[g][i].coupon # <<>> =>
         coupon[rows[g][i].coupon[1]] = [status |-> "USED", by |-> <<g, i>>]
  /\ \A c \in Coupons : coupon[c].status = "USED" =>
       LET at == coupon[c].by IN at[1] \in crossed \/ (Standing(at) /\ RowOf(at).coupon = <<c>>)

\* Every coupon made of stamps took its stamps, no stamps were taken without a
\* coupon, and none that are not there, unless a request acted on a balance that
\* another had changed since.
StampsForCoupons ==
  /\ \A k \in Autos : k \in deducted <=> coupon[k].status # "none"
  /\ stale \/ Balance >= 0

CouponsAddUp == SpentOnce /\ StampsForCoupons
=============================================================================
