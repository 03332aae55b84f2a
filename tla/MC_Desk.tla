------------------------------- MODULE MC_Desk -------------------------------
(***************************************************************************)
(* The store's records, in ten small stores; `part` says which one a       *)
(* behaviour is of, and the tables of the others stay unused.              *)
(*   web      the calendar: two customers and a row of the staff           *)
(*   naver    the calendar: a customer and a booking of Naver              *)
(*   placed   the calendar: a booking of Naver that is moved meanwhile     *)
(*   pass     a pass that is bought, used, given back and refunded         *)
(*   stamps   stamps that become coupons                                   *)
(*   coupons  one coupon that two reservations plan with                   *)
(*   parking  two requests for the car of one reservation                  *)
(*   phone    two events, a schedule and one phone                         *)
(*   nights   a schedule over two days, and one phone                      *)
(*   phones   an event, a schedule and two phones                          *)
(***************************************************************************)
EXTENDS Parking, Calendar, PushDelivery, MemberCoupons, TLC

CONSTANTS x1, x2, a1, n1, q1, q2, p1, g1, A, ra, rm, a, b, d1, d2, s1, h1, h2, w1

VARIABLES part,
          order, paid, pass, uses, restored, game, stamps, raced, late

SameCar == ra :> a @@ rm :> a

calendar == <<row, done, edits, edited, placed, store>>
passes == <<order, paid, pass, uses, restored, game, stamps, raced, late>>

\* Who is not of the part asks for nothing.
Absent(S) == {req'[q].row : q \in {x \in Requests : req'[x] # Idle}} \cap S = {}

Pass == INSTANCE MemberPass WITH
  Passes <- {p1}, Bought <- 2, Games <- {g1}, People <- g1 :> 1, Requests <- {q1, q2}, MaxUses <- 2
TwoPlans == h1 :> 2 @@ h2 :> 1
\* Of a part without a calendar the properties find no row.
NoCalendar == /\ row = [r \in Rows |-> NoRow] /\ edited = [r \in Rows |-> FALSE]
              /\ done = 0 /\ edits = 0 /\ placed = 0 /\ store = 0
NoPasses == /\ order = 0 /\ paid = 0 /\ pass = 0 /\ uses = 0 /\ restored = 0
            /\ game = 0 /\ stamps = 0 /\ raced = 0 /\ late = 0
NoPushes == PushInit /\ missed = {}
NoParking == ParkingInit /\ shown.car = a
Unused(p) ==
  /\ IF p = "parking" THEN ParkingInit ELSE NoParking
  /\ p # "calendar" => NoCalendar
  /\ p # "pass" => NoPasses
  /\ IF p = "push" THEN PushInit ELSE NoPushes
  /\ CouponInit
  /\ p \notin {"calendar", "pass"} => req = 0

\* One answer about the purchase is worked on at a time.
OneSync == req'[q1].pc = "sync" => req'[q2].pc # "sync"
\* The other phone stays off; the other event, or none, happens; it is one day.
OnePhone == device'[d2] = "off"
OneEvent == \A h \in Senders : sender'[h].pc = "record" => sender'[h].event = 1
NoEvent == \A h \in Senders : sender'[h].pc # "record"
OneDay == clock'.day = 1
\* No coupon is given, nothing is paid with one; no coupon is made of stamps.
NoGift == coupon'[w1].status = "none"
NoPlan == \A q \in Callers : request'[q].pc \notin AtRows
NoStamp ==
  /\ earned' = {} /\ adjusted' = 0
  /\ \A q \in Callers : request'[q].pc = "validate" => request'[q].coupon[1] \in {1, w1}
Init ==
  \/ part = "web" /\ CalendarInit /\ Unused("calendar")
  \/ part \in {"naver", "placed"} /\ CalendarInit /\ Unused("calendar")
  \/ part = "pass" /\ Pass!PassInit /\ Unused("pass")
  \/ part \in {"stamps", "coupons"} /\ Unused("benefits")
  \/ part = "parking" /\ Unused("parking")
  \/ part \in {"phone", "nights"} /\ Unused("push") /\ missed = {d2}
  \/ part = "phones" /\ Unused("push") /\ missed = {}
Next ==
  /\ UNCHANGED part
  /\ \/ part = "web" /\ CalendarNext /\ Absent(Naver) /\ edits' <= 1 /\ UNCHANGED <<passes, kvars, pvars, mvars>>
     \/ part = "naver" /\ CalendarNext /\ Absent(Staff \cup {x2}) /\ edits' <= 2
                        /\ UNCHANGED <<passes, kvars, pvars, mvars>>
     \/ part = "placed" /\ CalendarNext /\ Absent(Staff \cup Web) /\ UNCHANGED <<passes, kvars, pvars, mvars>>
     \/ part = "pass" /\ Pass!PassNext /\ OneSync /\ UNCHANGED <<calendar, kvars, pvars, mvars>>
     \/ part = "stamps" /\ CouponNext /\ NoPlan /\ NoGift /\ UNCHANGED <<req, calendar, passes, kvars, pvars>>
     \/ part = "coupons" /\ CouponNext /\ NoStamp /\ UNCHANGED <<req, calendar, passes, kvars, pvars>>
     \/ part = "parking" /\ ParkingNext /\ UNCHANGED <<req, calendar, passes, pvars, mvars>>
     \/ part = "phone" /\ PushNext /\ OnePhone /\ OneDay /\ UNCHANGED <<req, calendar, passes, kvars, mvars>>
     \/ part = "nights" /\ PushNext /\ OnePhone /\ NoEvent /\ UNCHANGED <<req, calendar, passes, kvars, mvars>>
     \/ part = "phones" /\ PushNext /\ OneEvent /\ OneDay /\ UNCHANGED <<req, calendar, passes, kvars, mvars>>
Spec == Init /\ [][Next]_<<part, req, calendar, passes, kvars, pvars, mvars>>

\* The requests are alike.
Alike == Permutations({q1, q2})

\* The count of a pass is what was bought less what was used, nobody's game is
\* covered twice, and stamps are earned by those who pay.
PassesAddUp == part = "pass" => Pass!PassBalanced /\ Pass!PeopleCoveredOnce /\ Pass!StampsForPayers
=============================================================================
