----------------------------- MODULE Kiosk_proofs -----------------------------
(***************************************************************************)
(* What is proved of a kiosk visit.  Of its booking, for any number of     *)
(* kiosks, slots, games, reservations of the web and edits of the staff's  *)
(* calendar: the paid seat stands, in a slot of its own, until the         *)
(* calendar changes a row of its visit, and a game is priced for its       *)
(* party.  From the payment to the last game, for any number of visits and *)
(* games: nobody plays before the payment, stamps are earned once, and the *)
(* games are played in their order.  Of its screen, for any number of      *)
(* visits and of buttons pressed: a checkout bills what was entered and    *)
(* shown.                                                                  *)
(***************************************************************************)
EXTENDS KioskBooking, KioskGame, KioskScreen, TLAPS, SequenceTheorems, WellFoundedInduction

\* The seats that visit v may come to have, and whether one was ever made.
Reach(v) == Web \cup ({v} \X Games)
Made(s) == s \in Web \/ seat[s].status # "none"
Reached(v, S) == \A s \in S : s \in Reach(v) /\ Made(s)

\* No two reservations have one canonical key, and a live one that the staff
\* left alone has that of its slot.
SlotsApart ==
  /\ \A s, t \in Seats : s # t /\ seat[s].key = seat[t].key => seat[s].key = 0
  /\ \A s \in Seats \ edited : seat[s].status \in Booked => seat[s].key = seat[s].slot /\ seat[s].slot # 0
\* What the row of a visit and its games point to was made, and is its own.
RowInv(v) ==
  /\ visit[v].seat # None => Reached(v, {visit[v].seat})
  /\ visit[v].flow = "WALK_IN" => visit[v].seat \notin Web
  /\ \A n \in Games : game[v][n].status = "RESERVED" => Made(<<v, n>>)
\* So is what a request has read or made.  A request that cancels is alone with
\* its visit, but for an operator who terminates it.
ReqInv(v) ==
  /\ req[v].pc = "seats" => req[v].seat = None \/ Reached(v, {req[v].seat})
  /\ req[v].pc = "reserve" => /\ Reached(v, req[v].seats) /\ req[v].seats \subseteq {v} \X Games
                              /\ req[v].todo # {} \/ req[v].seats # {}
  /\ req[v].pc \in {"pending", "plan"} => Reached(v, req[v].seats)
  /\ req[v].pc \in {"cancelPlan", "cancelRows"} =>
       visit[v].status \in {"PAYMENT_PENDING", "ABANDONED"} /\ visit[v].flow = "WALK_IN"
  /\ req[v].pc = "cancelRows" => plan[v].status = "none"
\* A plan pays for seats that were made; a seat is paid or arrived by its plan,
\* or by the staff.
PlanInv(v) ==
  /\ Reached(v, plan[v].seats)
  /\ Untouched(v) =>
       \A n \in Games : seat[<<v, n>>].paid \/ seat[<<v, n>>].status = "arrived" => plan[v].status = "paid"
\* A visit that had a seat cancelled, and not by the staff, is over: it has no
\* plan and gets none.
GoneInv(v) ==
  Untouched(v) => \A n \in Games : seat[<<v, n>>].status \in Closed =>
    /\ visit[v].status \in {"CANCELLED", "ABANDONED"}
    /\ req[v].pc \in {"idle", "reset"} /\ plan[v].status = "none"
\* What is known of a visit.
OwnInv(v) == RowInv(v) /\ ReqInv(v) /\ PlanInv(v) /\ GoneInv(v)
VisitInv == \A v \in Visits : OwnInv(v)

\* The inductive invariant.
IInv == BookingTypeOK /\ SlotsApart /\ VisitInv /\ PricedForParty
-----------------------------------------------------------------------------
(* Types.                                                                  *)

\* A request is known by its pc.
LEMMA Shapes ==
  ASSUME NEW r \in Request
  PROVE  /\ r.pc = "holdWrite" => r.slot \in Slots
         /\ r.pc \in {"assignCheck", "appendCheck", "assignWrite", "appendWrite"} =>
              r \in [pc : {"assignCheck", "appendCheck", "assignWrite", "appendWrite"},
                    rev : Nat, party : Nat, slot : Slots]
         /\ r.pc \in {"seats", "wait"} => r.seat \in Seats \cup {None}
         /\ r.pc = "reserve" =>
              r \in [pc : {"reserve"}, todo : SUBSET [n : Games, slot : Slots],
              seats : SUBSET Seats]
         /\ r.pc \in {"pending", "plan", "pay"} => r \in [pc : {"pending", "plan", "pay"}, seats : SUBSET Seats]
         /\ r.pc \in {"idle", "reset", "select", "cancelPlan", "cancelRows"} =>
              r \in [pc : {"idle", "reset", "select", "cancelPlan", "cancelRows"}]
  BY DEF Request

\* A nonempty set of numbers has a least one.
LEMMA LeastIn ==
  ASSUME NEW S \in SUBSET Nat, S # {}
  PROVE  Min(S) \in S /\ \A y \in S : Min(S) <= y
<1> DEFINE R == {ss \in Nat \X Nat : ss[1] < ss[2]}
<1>1. IsWellFoundedOn(R, Nat)
  BY NatLessThanWellFounded DEF OpToRel
<1> HIDE DEF R
<1>2. PICK m \in S : \A y \in S : ~(<<y, m>> \in R)
  BY <1>1, WFMin
<1>3. ASSUME NEW y \in S PROVE m <= y
  <2>1. <<y, m>> \notin R
    BY <1>2
  <2>2. <<y, m>> \in Nat \X Nat /\ <<y, m>>[1] = y /\ <<y, m>>[2] = m
    OBVIOUS
  <2>3. ~(y < m)
    BY <2>1, <2>2 DEF R
  <2> QED
    BY <2>3
<1> QED
  BY <1>3 DEF Min

\* Games are numbered from one, and every visit may have a first one.
LEMMA GamesAre == Games \subseteq Nat \ {0} /\ \A v \in Visits : 1 \in Games
<1>1. \A v \in Visits : MaxGames[v] \in Nat \ {0}
  BY BookingConstants
<1> QED
  BY <1>1 DEF Games

\* A table that is not written stays well formed.
LEMMA Unwritten ==
  /\ VisitsOK /\ UNCHANGED visit => VisitsOK'
  /\ HoldsOK /\ UNCHANGED hold => HoldsOK'
  /\ GamesOK /\ UNCHANGED game => GamesOK'
  /\ SeatsOK /\ UNCHANGED seat => SeatsOK'
  /\ PlansOK /\ UNCHANGED plan => PlansOK'
  /\ RequestsOK /\ UNCHANGED req => RequestsOK'
  /\ DraftsOK /\ UNCHANGED draft => DraftsOK'
  /\ DeskOK /\ UNCHANGED <<desk, edited>> => DeskOK'
  BY DEF VisitsOK, HoldsOK, GamesOK, SeatsOK, PlansOK, RequestsOK, DraftsOK, DeskOK

\* A draft that is read has a later revision, within the bound.
LEMMA DraftReadDraft ==
  ASSUME VisitsOK, DraftsOK, NEW v \in Visits, NEW p \in Parties[v], DraftRead(v,p)
  PROVE  DraftsOK'
<1> DEFINE d == [pc |-> "write", party |-> p, rev |-> visit[v].rev + 1]
<1>1. visit[v].rev \in Nat /\ MaxRev[v] \in Nat /\ p \in Nat /\ visit[v].rev < MaxRev[v]
  BY BookingConstants DEF VisitsOK, VisitRow, DraftRead
<1>2. d \in DraftRequest /\ d.rev <= MaxRev[v]
  BY <1>1 DEF DraftRequest
<1>3. draft' = [draft EXCEPT ![v] = d]
  BY DEF DraftRead
<1> HIDE DEF d
<1> QED
  BY <1>2, <1>3 DEF DraftsOK

\* The games of one visit may be written at once.
LEMMA GamesPut ==
  ASSUME GamesOK, NEW v \in Visits, NEW f, game' = [game EXCEPT ![v] = f],
         \A n \in Games : f[n] \in GameRow /\ GameFits(f[n]), f = [n \in Games |-> f[n]]
  PROVE  GamesOK'
  BY DEF GamesOK

\* An ended row is well formed, holds no key and is priced as booked.
LEMMA EndedRow ==
  /\ Ended \in GameRow /\ NoGame \in GameRow
  /\ GameFits(Ended) /\ GameFits(NoGame) /\ Ended.base = Ended.party /\ Ended.status = "ENDED"
  BY DEF Ended, NoGame, GameRow, GameFits, Slots

\* Ending the games of a visit leaves well-formed rows.
LEMMA EndGamesOK ==
  ASSUME GamesOK, NEW v \in Visits, NEW S, EndGames(v, S)
  PROVE  GamesOK'
<1> DEFINE f == [n \in Games |-> IF game[v][n].status \in S THEN Ended ELSE game[v][n]]
<1>1. game' = [game EXCEPT ![v] = f]
  BY DEF EndGames, GamesOK
<1>2. \A n \in Games : f[n] \in GameRow /\ GameFits(f[n])
  BY EndedRow DEF GamesOK
<1>3. f = [n \in Games |-> f[n]]
  OBVIOUS
<1> HIDE DEF f
<1> QED
  BY <1>1, <1>2, <1>3, GamesPut

\* The slot that an assignment chooses is one of the timetable.
LEMMA AssignReadRequest ==
  ASSUME VisitsOK, RequestsOK, NEW v \in Visits, NEW append \in BOOLEAN,
         AssignRead(v,append)
  PROVE  RequestsOK'
<1> DEFINE fit == {s \in Free : s > After(v, append)}
           r == [pc |-> IF append THEN "appendCheck" ELSE "assignCheck",
                             rev |-> visit[v].rev, party |-> visit[v].party, slot |-> Min(fit)]
<1>1. fit # {} /\ req' = [req EXCEPT ![v] = r]
  BY DEF AssignRead, Session
<1>2. fit \in SUBSET Nat /\ fit \subseteq Slots
  BY DEF Free, Slots
<1>3. Min(fit) \in Slots
  BY <1>1, <1>2, LeastIn
<1>4. visit[v].rev \in Nat /\ visit[v].party \in Nat
  BY DEF VisitsOK, VisitRow
<1>5. r \in Request
  <2> HIDE DEF fit
  <2> QED BY <1>3, <1>4 DEF Request
<1> HIDE DEF r
<1> QED
  BY <1>1, <1>5 DEF RequestsOK

\* An assignment writes a first game and ends those that were held.
LEMMA AssignWriteGames ==
  ASSUME VisitsOK, RequestsOK, GamesOK, NEW v \in Visits, AssignWrite(v)
  PROVE  GamesOK'
<1> DEFINE f == [n \in Games |->
                IF n = 1 THEN NewGame(v,
                FALSE) ELSE IF game[v][n].status = "HOLD" THEN Ended ELSE game[v][n]]
<1>1. game' = [game EXCEPT ![v] = f]
  BY DEF AssignWrite, GamesOK
<1>2. NewGame(v, FALSE) \in GameRow /\ GameFits(NewGame(v, FALSE))
  BY Shapes DEF GameFits, Slots, NewGame, GameRow, VisitsOK, VisitRow, RequestsOK, AssignWrite
<1>3. ASSUME NEW n \in Games PROVE f[n] \in GameRow /\ GameFits(f[n])
  <2>1. f[n] = NewGame(v, FALSE) \/ f[n] = Ended \/ f[n] = game[v][n]
    OBVIOUS
  <2>2. game[v][n] \in GameRow /\ GameFits(game[v][n])
    BY DEF GamesOK
  <2> HIDE DEF f
  <2> QED
    BY <1>2, <2>1, <2>2, EndedRow
<1>4. f = [n \in Games |-> f[n]]
  OBVIOUS
<1> HIDE DEF f
<1> QED
  BY <1>1, <1>3, <1>4, GamesPut

\* A reservation that changes hands leaves well-formed visits.
LEMMA SelectWriteVisits ==
  ASSUME VisitsOK, NEW v \in Visits, NEW w \in Web, SelectWrite(v, w)
  PROVE  VisitsOK'
<1>1. \A u \in Visits : visit[u] \in VisitRow /\ visit[u].rev <= MaxRev[u]
  BY DEF VisitsOK
<1>2. [visit[v] EXCEPT !.flow = "RESERVATION", !.status = "HOLD", !.seat = w] \in VisitRow
  BY <1>1 DEF VisitRow, Seats
<1>3. \A u \in Visits : [visit[u] EXCEPT !.seat = None] \in VisitRow
  BY <1>1 DEF VisitRow
<1>4. \A u \in Visits : visit'[u] \in VisitRow /\ visit'[u].rev = visit[u].rev
  BY <1>1, <1>2, <1>3 DEF SelectWrite, VisitRow
<1>5. visit' = [u \in Visits |-> visit'[u]]
  BY DEF SelectWrite
<1> QED
  BY <1>1, <1>4, <1>5 DEF VisitsOK

\* What a checkout is to reserve are games with their slots.
LEMMA CheckHoldTypes ==
  ASSUME HoldsOK, GamesOK, RequestsOK, NEW v \in Visits, CheckHold(v), 1 \in Games
  PROVE  RequestsOK'
<1>1. ToReserve(v) \in SUBSET [n : Games, slot : Slots]
  <2>1. hold[v] \in Slots /\ \A n \in Games : game[v][n].status = "HOLD" => game[v][n].slot \in Slots
    BY DEF CheckHold, HoldsOK, GamesOK, GameFits, GameRow
  <2> QED
    BY <2>1 DEF ToReserve, HeldGames
<1>2. [pc |-> "reserve", todo |-> ToReserve(v), seats |-> {}] \in Request
  BY <1>1 DEF Request
<1> QED
  BY <1>2 DEF CheckHold, RequestsOK

\* A reservation of the web is well formed.
LEMMA WebBookSeats ==
  ASSUME SeatsOK, NEW w \in Web, WebBook(w)
  PROVE  SeatsOK'
<1>1. NewSeat(WebSlot[w], WebSlot[w]) \in SeatRow
  BY BookingConstants DEF SeatRow, NewSeat, Booked
<1> QED
  BY <1>1 DEF SeatsOK, Seats, WebBook

\* The games of a paid visit are well formed.
LEMMA MarkPaidGames ==
  ASSUME GamesOK, NEW v \in Visits, MarkPaid(v)
  PROVE  GamesOK'
<1> DEFINE f == [n \in Games |->
                IF game[v][n].status # "RESERVED" THEN game[v][n]
                ELSE [game[v][n] EXCEPT !.status = IF <<v,
                n>> = visit[v].seat THEN "PREPARING" ELSE "PAID_WAITING"]]
<1>1. game' = [game EXCEPT ![v] = f]
  BY DEF MarkPaid, GamesOK
<1>3. \A n \in Games : f[n] \in GameRow /\ GameFits(f[n])
  <2> TAKE n \in Games
  <2>1. game[v][n] \in GameRow /\ GameFits(game[v][n])
    BY DEF GamesOK
  <2>2. ASSUME NEW x \in {"PREPARING", "PAID_WAITING"}, game[v][n].status = "RESERVED"
        PROVE  [game[v][n] EXCEPT !.status = x] \in GameRow /\ GameFits([game[v][n] EXCEPT !.status = x])
    BY <2>1, <2>2 DEF GameRow, GameFits
  <2> QED
    BY <2>1, <2>2
<1>4. f = [n \in Games |-> f[n]]
  OBVIOUS
<1> HIDE DEF f
<1> QED
  BY <1>1, <1>3, <1>4, GamesPut

\* The game that Reserve takes next.
First(v) == CHOOSE t \in req[v].todo : \A u \in req[v].todo : t.n <= u.n
\* It is one of the games to reserve.
LEMMA FirstIn ==
  ASSUME RequestsOK, NEW v \in Visits, req[v].pc = "reserve", req[v].todo # {}
  PROVE  First(v) \in req[v].todo /\ First(v).n \in Games /\ First(v).slot \in Slots
<1> DEFINE T == req[v].todo
           N == {t.n : t \in T}
<1>1. T \in SUBSET [n : Games, slot : Slots] /\ T # {}
  BY Shapes DEF RequestsOK
<1> HIDE DEF T
<1>2. N \in SUBSET Nat /\ N # {}
  BY <1>1, GamesAre
<1> HIDE DEF N
<1>3. Min(N) \in N /\ \A y \in N : Min(N) <= y
  BY <1>2, LeastIn
<1>4. PICK t \in T : t.n = Min(N)
  BY <1>3 DEF N
<1>5. \A u \in T : t.n <= u.n
  BY <1>3, <1>4 DEF N
<1>6. First(v) \in T
  BY <1>5 DEF First, T
<1> QED
  BY <1>1, <1>6 DEF T

\* The seat that a visit is linked to is one of those it made.
LEMMA PrimaryIn ==
  ASSUME NEW v \in Visits, req[v].seats # {}, req[v].seats \subseteq {v} \X Games
  PROVE  Primary(v) \in req[v].seats
<1> DEFINE S == req[v].seats
           N == {s[2] : s \in S}
<1>1. S # {} /\ \A s \in S : s[2] \in Nat
  BY GamesAre
<1> HIDE DEF S
<1>2. N \in SUBSET Nat /\ N # {}
  BY <1>1
<1> HIDE DEF N
<1>3. Min(N) \in N /\ \A y \in N : Min(N) <= y
  BY <1>2, LeastIn
<1>4. PICK s \in S : s[2] = Min(N)
  BY <1>3 DEF N
<1>5. \A t \in S : s[2] <= t[2]
  BY <1>3, <1>4 DEF N
<1> QED
  BY <1>5 DEF Primary, S

\* Reserve takes the first of the games to reserve.
LEMMA ReserveIs ==
  ASSUME NEW v \in Visits, Reserve(v)
  PROVE  /\ req[v].pc = "reserve" /\ req[v].todo # {}
         /\ seat[<<v, First(v).n>>].status = "none" => KeyFree(<<v, First(v).n>>, First(v).slot)
         /\ seat' = IF seat[<<v, First(v).n>>].status # "none" THEN seat
                    ELSE [seat EXCEPT ![<<v, First(v).n>>] = NewSeat(First(v).slot, First(v).slot)]
         /\ game' = IF game[v][First(v).n].status = "NONE" THEN game
                    ELSE [game EXCEPT ![v][First(v).n] =
                            [game[v][First(v).n] EXCEPT !.status = "RESERVED", !.keyed = FALSE]]
         /\ req' = [req EXCEPT ![v].todo = @ \ {First(v)}, ![v].seats = @ \cup {<<v, First(v).n>>}]
         /\ UNCHANGED <<visit, hold, plan, draft>>
  BY DEF Reserve, First

\* Reserving a game leaves well-formed rows, and a well-formed request.
LEMMA ReserveTypes ==
  ASSUME SeatsOK, GamesOK, RequestsOK, NEW v \in Visits, Reserve(v)
  PROVE  SeatsOK' /\ GamesOK' /\ RequestsOK'
<1> DEFINE n == First(v).n
           m == <<v, n>>
<1>1. n \in Games /\ First(v).slot \in Slots /\ m \in Seats
  BY FirstIn, ReserveIs DEF Seats
<1>2. SeatsOK'
  <2>1. NewSeat(First(v).slot, First(v).slot) \in SeatRow
    BY <1>1 DEF SeatRow, NewSeat, Booked
  <2> QED
    BY <1>1, <2>1, ReserveIs DEF SeatsOK
<1>3. GamesOK'
  <2> DEFINE g == [game[v][n] EXCEPT !.status = "RESERVED", !.keyed = FALSE]
  <2>0. game[v][n] \in GameRow
    BY <1>1 DEF GamesOK
  <2>1. g \in GameRow /\ GameFits(g)
    BY <2>0 DEF GameRow, GameFits
  <2>2. game' = game \/ game' = [game EXCEPT ![v][n] = g]
    BY ReserveIs
  <2> HIDE DEF g, n
  <2> QED
    BY <1>1, <2>1, <2>2 DEF GamesOK
<1>4. RequestsOK'
  <2> DEFINE r == [req[v] EXCEPT !.todo = @ \ {First(v)}, !.seats = @ \cup {m}]
  <2>1. req[v] \in [pc : {"reserve"}, todo : SUBSET [n : Games, slot : Slots], seats : SUBSET Seats]
    BY ReserveIs, Shapes DEF RequestsOK
  <2>2. r \in Request
    BY <1>1, <2>1 DEF Request
  <2>3. req' = [req EXCEPT ![v] = r]
    BY ReserveIs
  <2> HIDE DEF r
  <2> QED
    BY <2>2, <2>3 DEF RequestsOK
<1> QED
  BY <1>2, <1>3, <1>4

\* The visit is linked to a seat of the calendar.
LEMMA ConvertVisit ==
  ASSUME VisitsOK, NEW v \in Visits, Convert(v), Primary(v) \in Seats
  PROVE  VisitsOK'
  BY DEF Convert, VisitsOK, VisitRow

\* Seats of different visits are different, and none is of the web.
LEMMA Apart ==
  ASSUME NEW u \in Visits, NEW n \in Games
  PROVE  <<u, n>> \in Seats /\ <<u, n>> \in Reach(u) /\ <<u, n>> \notin Web /\ <<u, n>> # None
         /\ \A v \in Visits \ {u} : <<u, n>> \notin Reach(v)
  BY BookingConstants DEF Seats, Reach

\* A visit whose own rows do not change keeps its invariant.
LEMMA Elsewhere ==
  ASSUME NEW u \in Visits, RowInv(u), ReqInv(u), PlanInv(u), GoneInv(u),
         visit'[u].status = visit[u].status, visit'[u].flow = visit[u].flow,
         visit'[u].seat \in {visit[u].seat, None},
         req'[u] = req[u], plan'[u] = plan[u],
         \A n \in Games : game'[u][n].status = "RESERVED" => game[u][n].status = "RESERVED",
         \A s \in Seats : seat[s].status # "none" => seat'[s].status # "none",
         Untouched(u)' => Untouched(u) /\ \A n \in Games : seat'[<<u, n>>] = seat[<<u, n>>]
  PROVE  RowInv(u)' /\ ReqInv(u)' /\ PlanInv(u)' /\ GoneInv(u)'
<1>1. ASSUME NEW S, Reached(u, S) PROVE Reached(u, S)'
  BY <1>1, Apart DEF Reached, Made, Reach, Seats
<1>2. RowInv(u)'
  <2>1. None \notin Web
    BY BookingConstants DEF Seats
  <2> QED
    BY <1>1, <2>1, Apart DEF RowInv, Made
<1>3. ReqInv(u)'
  BY <1>1 DEF ReqInv
<1>4. PlanInv(u)'
  BY <1>1 DEF PlanInv
<1>5. GoneInv(u)'
  BY DEF GoneInv
<1> QED
  BY <1>2, <1>3, <1>4, <1>5

\* Once all games are reserved the visit is linked to a seat it made.
LEMMA ConvertRow ==
  ASSUME BookingTypeOK, NEW v \in Visits, RowInv(v), ReqInv(v), Convert(v)
  PROVE  RowInv(v)'
<1>1. Primary(v) \in req[v].seats /\ Reached(v, {Primary(v)}) /\ Primary(v) \in {v} \X Games
  BY PrimaryIn DEF Convert, ReqInv, Reached
<1>2. visit'[v].seat = Primary(v) /\ visit'[v].flow = visit[v].flow
  BY DEF Convert, BookingTypeOK, VisitsOK, VisitRow
<1>3. Primary(v) \notin Web
  BY <1>1, Apart
<1>4. PICK s : s = Primary(v)
  OBVIOUS
<1>5. Reached(v, {s})'
  BY <1>1, <1>4 DEF Convert, Reached, Made
<1> QED
  BY <1>1, <1>2, <1>3, <1>4, <1>5 DEF RowInv, Made, Convert, Reached

\* A checkout always has a game to reserve.
LEMMA CheckHoldRequest ==
  ASSUME BookingTypeOK, NEW v \in Visits, RowInv(v), ReqInv(v), CheckHold(v)
  PROVE  ReqInv(v)'
<1>1. ToReserve(v) # {}
  BY GamesAre DEF ToReserve
<1>2. req'[v] = [pc |-> "reserve", todo |-> ToReserve(v), seats |-> {}]
  BY DEF CheckHold, BookingTypeOK, RequestsOK
<1> HIDE DEF ToReserve
<1> QED
  BY <1>1, <1>2 DEF ReqInv, Reached

\* A visit that selects a reservation of the web is no walk-in any more.
LEMMA SelectRow ==
  ASSUME BookingTypeOK, NEW v \in Visits, NEW w \in Web, RowInv(v), ReqInv(v),
         SelectWrite(v, w)
  PROVE  RowInv(v)'
<1>1. visit'[v] = [visit[v] EXCEPT !.flow = "RESERVATION", !.status = "HOLD", !.seat = w]
  BY DEF SelectWrite, Linked
<1>2. visit'[v].seat = w /\ visit'[v].flow = "RESERVATION"
  BY <1>1 DEF BookingTypeOK, VisitsOK, VisitRow
<1> QED
  BY <1>2 DEF SelectWrite, RowInv, Reached, Made, Reach

\* Reserving a game makes the seat that the request then counts.
LEMMA ReserveKeeps ==
  ASSUME BookingTypeOK, NEW v \in Visits, RowInv(v), ReqInv(v), PlanInv(v),
         GoneInv(v), Reserve(v), edited' = edited
  PROVE  RowInv(v)' /\ ReqInv(v)' /\ PlanInv(v)' /\ GoneInv(v)'
<1>u. Untouched(v)' <=> Untouched(v)
  BY DEF Untouched
<1> USE <1>u
<1>0. PICK k \in Games : k = First(v).n
  BY FirstIn, ReserveIs DEF BookingTypeOK
<1> DEFINE m == <<v, k>>
<1>1. m \in Seats /\ m \in Reach(v)
  BY Apart
<1>r. \A s, k2 : NewSeat(s, k2).status = "booked" /\ ~NewSeat(s, k2).paid
  BY DEF NewSeat
<1> USE <1>r
<1>2. seat'[m].status # "none" /\ \A s \in Seats \ {m} : seat'[s] = seat[s]
  <2>1. seat' = IF seat[m].status # "none" THEN seat
                ELSE [seat EXCEPT ![m] = NewSeat(First(v).slot, First(v).slot)]
    BY <1>0, ReserveIs
  <2> HIDE DEF m
  <2> QED
    BY <1>1, <2>1 DEF BookingTypeOK, SeatsOK
<1>3. seat'[m] = seat[m] \/ seat'[m] = NewSeat(First(v).slot, First(v).slot)
  BY <1>0, <1>1, ReserveIs DEF BookingTypeOK, SeatsOK
<1>4. \A n \in Games : n # k => game'[v][n] = game[v][n]
  <2>1. PICK g : game' = game \/ game' = [game EXCEPT ![v][k] = g]
    BY <1>0, ReserveIs
  <2> QED
    BY <2>1 DEF BookingTypeOK, GamesOK
<1>5. req'[v].pc = "reserve" /\ req'[v].seats = req[v].seats \cup {m}
  <2>1. req[v] \in [pc : {"reserve"}, todo : SUBSET [n : Games, slot : Slots], seats : SUBSET Seats]
    BY ReserveIs, Shapes DEF BookingTypeOK, RequestsOK
  <2>2. req' = [req EXCEPT ![v].todo = @ \ {First(v)}, ![v].seats = @ \cup {m}]
    BY <1>0, ReserveIs
  <2> QED
    BY <2>1, <2>2 DEF BookingTypeOK, RequestsOK
<1>6. ASSUME NEW S, Reached(v, S) PROVE Reached(v, S)' /\ (Reached(v, S \cup {m}))'
  <2>1. \A s \in S : s \in Web \/ s \in Seats
    BY <1>6, Apart DEF Reached, Reach, Seats
  <2>2. \A s \in S : s \in Web \/ seat'[s].status # "none"
    BY <1>1, <1>2, <1>6, <2>1 DEF Reached, Made
  <2> QED
    BY <1>1, <1>2, <1>6, <2>2 DEF Reached, Made
<1>7. visit'[v] = visit[v] /\ plan'[v] = plan[v] /\ req[v].pc = "reserve"
  BY ReserveIs
<1> HIDE DEF m
<1>8. RowInv(v)'
  <2>1. \A n \in Games : game'[v][n].status = "RESERVED" => Made(<<v, n>>)'
    BY <1>1, <1>2, <1>4, Apart DEF RowInv, Made, m
  <2> QED
    BY <1>6, <1>7, <2>1 DEF RowInv
<1>9. ReqInv(v)'
  BY <1>1, <1>5, <1>6, <1>7 DEF ReqInv, m
<1>10. PlanInv(v)'
  <2>0. PICK S : S = plan[v].seats
    OBVIOUS
  <2>1. Reached(v, S)'
    BY <1>6, <2>0 DEF PlanInv
  <2>2. Untouched(v) =>
          \A n \in Games : seat'[<<v, n>>].paid \/ seat'[<<v, n>>].status = "arrived" => plan[v].status = "paid"
    BY <1>2, <1>3, Apart DEF PlanInv, m
  <2> QED
    BY <1>7, <2>0, <2>1, <2>2 DEF PlanInv
<1>11. GoneInv(v)'
  BY <1>1, <1>2, <1>3, <1>7, Apart DEF GoneInv, Closed, m
<1> QED
  BY <1>8, <1>9, <1>10, <1>11

\* A visit is marked as paid by its own paid plan.
LEMMA MarkPaidKeeps ==
  ASSUME BookingTypeOK, NEW v \in Visits, RowInv(v), ReqInv(v), PlanInv(v),
         GoneInv(v), MarkPaid(v), edited' = edited
  PROVE  RowInv(v)' /\ ReqInv(v)' /\ PlanInv(v)' /\ GoneInv(v)'
<1>u. Untouched(v)' <=> Untouched(v)
  BY DEF Untouched
<1> USE <1>u
<1>1. \A s \in Seats : \/ seat'[s] = seat[s]
                       \/ seat[s].status = "booked" /\ seat'[s].status = "arrived" /\ seat'[s].paid = seat[s].paid
  BY DEF MarkPaid, BookingTypeOK, SeatsOK, SeatRow
<1>2. \A S : Reached(v, S) => Reached(v, S)'
  BY <1>1, Apart DEF Reached, Made, Reach, Seats
<1>3. /\ plan[v].status = "paid" /\ plan'[v] = plan[v] /\ req'[v] = Idle
      /\ visit'[v].seat = visit[v].seat /\ visit'[v].flow = visit[v].flow
  BY DEF MarkPaid, Over, BookingTypeOK, RequestsOK, VisitsOK, VisitRow
<1>4. \A n \in Games : game'[v][n].status # "RESERVED"
  BY DEF MarkPaid, BookingTypeOK, GamesOK, GameRow
<1>5. RowInv(v)'
  BY <1>2, <1>3, <1>4 DEF RowInv
<1>6. ReqInv(v)'
  BY <1>3 DEF ReqInv, Idle
<1>7. PlanInv(v)'
  BY <1>2, <1>3 DEF PlanInv
<1>8. GoneInv(v)'
  BY <1>1, <1>3, Apart DEF GoneInv, MarkPaid, Closed
<1> QED
  BY <1>5, <1>6, <1>7, <1>8

\* The result of the card reaches the seats of the plan only.
LEMMA CardResultKeeps ==
  ASSUME BookingTypeOK, NEW v \in Visits, NEW approved \in BOOLEAN, RowInv(v),
         ReqInv(v), PlanInv(v), GoneInv(v), CardResult(v, approved), edited' = edited
  PROVE  RowInv(v)' /\ ReqInv(v)' /\ PlanInv(v)' /\ GoneInv(v)'
<1>u. Untouched(v)' <=> Untouched(v)
  BY DEF Untouched
<1> USE <1>u
<1>1. \A s \in Seats : seat'[s].status = seat[s].status /\ (seat'[s] = seat[s] \/ approved)
  BY DEF CardResult, BookingTypeOK, SeatsOK, SeatRow
<1>2. \A S : Reached(v, S) => Reached(v, S)'
  BY <1>1, Apart DEF Reached, Made, Reach, Seats
<1>3. /\ plan[v].status = "processing" /\ plan'[v].seats = plan[v].seats
      /\ plan'[v].status \in {"paid", "pending"} /\ (approved => plan'[v].status = "paid")
  BY DEF CardResult, BookingTypeOK, PlansOK
<1>4. UNCHANGED <<visit, game, req>>
  BY DEF CardResult
<1>5. RowInv(v)'
  BY <1>1, <1>2, <1>4, Apart DEF RowInv, Made
<1>6. ReqInv(v)'
  BY <1>2, <1>3, <1>4 DEF ReqInv
<1>7. PlanInv(v)'
  BY <1>1, <1>2, <1>3, Apart DEF PlanInv
<1>8. GoneInv(v)'
  BY <1>1, <1>3, <1>4, Apart DEF GoneInv
<1> QED
  BY <1>5, <1>6, <1>7, <1>8

\* What a request cancels is all its visit has, and stands.
LEMMA MineCancelled ==
  ASSUME BookingTypeOK, NEW v \in Visits, RowInv(v), ReqInv(v), PlanInv(v),
         GoneInv(v), req[v].pc = "cancelRows"
  PROVE  /\ SeatsOf(v) \subseteq {v} \X Games
         /\ Untouched(v) => \A s \in SeatsOf(v) : seat[s].status = "booked" /\ ~seat[s].paid
<1>1. SeatsOf(v) \subseteq {v} \X Games
  BY DEF SeatsOf, RowInv, ReqInv, Reached, Reach
<1>2. ASSUME Untouched(v), NEW n \in Games, <<v, n>> \in SeatsOf(v)
      PROVE  seat[<<v, n>>].status = "booked" /\ ~seat[<<v, n>>].paid
  <2>1. seat[<<v, n>>].status # "none"
    BY <1>2, Apart DEF SeatsOf, RowInv, Reached, Made
  <2>2. seat[<<v, n>>] \in SeatRow
    BY Apart DEF BookingTypeOK, SeatsOK
  <2>3. plan[v].status = "none"
    BY DEF ReqInv
  <2> QED
    BY <1>2, <2>1, <2>2, <2>3 DEF PlanInv, GoneInv, SeatRow, Booked, Closed
<1> QED
  BY <1>1, <1>2

\* A visit that has its seats cancelled is over, with no plan.
LEMMA CancelRowsKeeps ==
  ASSUME BookingTypeOK, NEW v \in Visits, RowInv(v), ReqInv(v), PlanInv(v),
         GoneInv(v), CancelRows(v), edited' = edited
  PROVE  RowInv(v)' /\ ReqInv(v)' /\ PlanInv(v)' /\ GoneInv(v)'
<1>u. Untouched(v)' <=> Untouched(v)
  BY DEF Untouched
<1> USE <1>u
<1>1. /\ SeatsOf(v) \subseteq {v} \X Games
      /\ Untouched(v) => \A s \in SeatsOf(v) : seat[s].status = "booked" /\ ~seat[s].paid
  BY MineCancelled DEF CancelRows
<1>2. /\ visit'[v].seat \in {visit[v].seat, None} /\ visit'[v].flow = visit[v].flow
      /\ Untouched(v) => visit'[v].status \in {"CANCELLED", "ABANDONED"}
  <2>1. /\ visit' = IF visit[v].status = "PAYMENT_PENDING" /\ \A s \in SeatsOf(v) : seat'[s].status = "cancelled"
                    THEN [visit EXCEPT ![v].status = "CANCELLED", ![v].seat = None] ELSE visit
        /\ visit[v].status \in {"PAYMENT_PENDING", "ABANDONED"}
    BY DEF CancelRows, ReqInv
  <2>2. ASSUME Untouched(v), NEW s \in SeatsOf(v) PROVE seat'[s].status = "cancelled"
    <3>1. s \in Seats
      BY <1>1 DEF Seats
    <3>2. seat[s].status = "booked" /\ ~seat[s].paid
      BY <1>1, <2>2
    <3>3. seat[s] \in SeatRow
      BY <3>1 DEF BookingTypeOK, SeatsOK
    <3>4. seat'[s] = [seat[s] EXCEPT !.status = "cancelled", !.key = 0]
      BY <2>2, <3>1, <3>2 DEF CancelRows
    <3> QED
      BY <3>3, <3>4 DEF SeatRow
  <2> QED
    BY <2>1, <2>2 DEF BookingTypeOK, VisitsOK, VisitRow
<1>3. \A s \in Seats : /\ seat'[s].paid = seat[s].paid
                       /\ seat'[s].status \in {seat[s].status, "cancelled"}
                       /\ seat'[s].status = seat[s].status \/ seat[s].status = "booked"
  BY DEF CancelRows, BookingTypeOK, SeatsOK, SeatRow
<1>4. \A S : Reached(v, S) => Reached(v, S)'
  BY <1>3, Apart DEF Reached, Made, Reach, Seats
<1>5. plan'[v] = plan[v] /\ plan[v].status = "none" /\ req'[v] = Idle
  BY DEF CancelRows, ReqInv, Over, BookingTypeOK, RequestsOK
<1>6. \A n \in Games : game'[v][n].status # "RESERVED"
  BY EndedRow DEF CancelRows, EndGames, BookingTypeOK, GamesOK, GameRow
<1>7. RowInv(v)'
  <2>1. None \notin Web
    BY BookingConstants DEF Seats
  <2> QED
  BY <1>2, <1>4, <1>6, <2>1 DEF RowInv
<1>8. ReqInv(v)'
  BY <1>5 DEF ReqInv, Idle
<1>9. PlanInv(v)'
  BY <1>3, <1>4, <1>5, Apart DEF PlanInv
<1>10. GoneInv(v)'
  BY <1>2, <1>5 DEF GoneInv, Idle
<1> QED
  BY <1>7, <1>8, <1>9, <1>10

\* The other visits do not notice, of the writes that reach the tables they share.
LEMMA OthersKeep ==
  ASSUME BookingTypeOK, NEW v \in Visits, OwnInv(v), NEW u \in Visits \ {v}, OwnInv(u),
         \/ Reserve(v) \/ MarkPaid(v) \/ CancelRows(v)
         \/ \E w \in Web : SelectWrite(v, w)
         \/ \E approved \in BOOLEAN : CardResult(v, approved),
         edited' = edited
  PROVE  OwnInv(u)'
<1> USE DEF OwnInv
<1>u. Untouched(u)' <=> Untouched(u)
  BY DEF Untouched
<1>s. \A s \in Seats : seat[s].status # "none" => seat'[s].status # "none"
  <2>1. ASSUME Reserve(v) PROVE \A s \in Seats : seat[s].status # "none" => seat'[s].status # "none"
    <3>1. PICK k \in Games : k = First(v).n
      BY <2>1, FirstIn, ReserveIs DEF BookingTypeOK
    <3>2. seat' = seat \/ seat' = [seat EXCEPT ![<<v, k>>] = NewSeat(First(v).slot, First(v).slot)]
      BY <2>1, <3>1, ReserveIs
    <3> QED
      BY <3>2 DEF NewSeat, BookingTypeOK, SeatsOK
  <2>2. ASSUME NEW s \in Seats, seat[s].status # "none",
               MarkPaid(v) \/ CancelRows(v) \/ \E approved \in BOOLEAN : CardResult(v, approved)
        PROVE  seat'[s].status # "none"
    <3>1. seat[s] \in SeatRow
      BY DEF BookingTypeOK, SeatsOK
    <3>2. seat'[s] = seat[s] \/ seat'[s].status = "arrived" \/ seat'[s].status = "cancelled"
          \/ seat'[s] = [seat[s] EXCEPT !.paid = TRUE]
      <4>1. CASE MarkPaid(v)
        BY <3>1, <4>1 DEF MarkPaid, SeatRow
      <4>2. CASE CancelRows(v)
        <5>1. seat'[s] = seat[s] \/ seat'[s] = [seat[s] EXCEPT !.status = "cancelled", !.key = 0]
          BY <4>2 DEF CancelRows
        <5> QED
          BY <3>1, <5>1 DEF SeatRow
      <4>3. CASE \E approved \in BOOLEAN : CardResult(v, approved)
        BY <4>3 DEF CardResult
      <4> QED
        BY <2>2, <4>1, <4>2, <4>3
    <3> QED
      BY <2>2, <3>1, <3>2 DEF SeatRow
  <2>3. ASSUME NEW w \in Web, SelectWrite(v, w) PROVE seat' = seat
    BY <2>3 DEF SelectWrite
  <2> QED
    BY <2>1, <2>2, <2>3
<1> USE <1>u, <1>s
<1>1. ASSUME NEW w \in Web, SelectWrite(v, w) PROVE OwnInv(u)'
  <2>1. visit'[u] = visit[u] \/ visit'[u] = [visit[u] EXCEPT !.seat = None]
    BY <1>1 DEF SelectWrite
  <2>2. req'[u] = req[u]
    BY <1>1 DEF SelectWrite, Over, BookingTypeOK, RequestsOK
  <2> QED
    BY <1>1, <2>1, <2>2, Elsewhere DEF SelectWrite, BookingTypeOK, VisitsOK, VisitRow
<1>2. CASE Reserve(v)
  <2>1. PICK k \in Games : k = First(v).n
    BY <1>2, FirstIn, ReserveIs DEF BookingTypeOK
  <2>2. \A n \in Games : seat'[<<u, n>>] = seat[<<u, n>>]
    <3>1. PICK r : seat' = seat \/ seat' = [seat EXCEPT ![<<v, k>>] = r]
      BY <1>2, <2>1, ReserveIs
    <3> QED
      BY <3>1, Apart DEF BookingTypeOK, SeatsOK
  <2>3. game'[u] = game[u] /\ req'[u] = req[u]
    BY <1>2, ReserveIs DEF BookingTypeOK, GamesOK, RequestsOK
  <2> QED
    BY <1>2, <2>2, <2>3, Elsewhere, ReserveIs
<1>3. CASE MarkPaid(v)
  <2>1. ASSUME NEW n \in Games, <<u, n>> = visit[v].seat PROVE FALSE
    <3>1. <<u, n>> # None /\ <<u, n>> \notin Reach(v)
      BY Apart
    <3> QED
      BY <2>1, <3>1 DEF RowInv, Reached
  <2>2. \A n \in Games : seat'[<<u, n>>] = seat[<<u, n>>]
    BY <1>3, <2>1, Apart DEF MarkPaid
  <2>3. visit'[u] = visit[u] /\ game'[u] = game[u] /\ req'[u] = req[u] /\ plan'[u] = plan[u]
    BY <1>3 DEF MarkPaid, Over, BookingTypeOK, VisitsOK, GamesOK, RequestsOK
  <2> QED
    BY <2>2, <2>3, Elsewhere
<1>4. ASSUME NEW approved \in BOOLEAN, CardResult(v, approved) PROVE OwnInv(u)'
  <2>1. \A n \in Games : <<u, n>> \notin plan[v].seats
    BY Apart DEF PlanInv, Reached
  <2>2. \A n \in Games : seat'[<<u, n>>] = seat[<<u, n>>]
    BY <1>4, <2>1, Apart DEF CardResult
  <2>3. plan'[u] = plan[u]
    BY <1>4 DEF CardResult, BookingTypeOK, PlansOK
  <2> QED
    BY <1>4, <2>2, <2>3, Elsewhere DEF CardResult
<1>5. CASE CancelRows(v)
  <2>1. \A n \in Games : <<u, n>> \notin SeatsOf(v)
    BY <1>5, MineCancelled DEF CancelRows
  <2>2. \A n \in Games : seat'[<<u, n>>] = seat[<<u, n>>]
    BY <1>5, <2>1, Apart DEF CancelRows
  <2>3. visit'[u] = visit[u] /\ game'[u] = game[u] /\ req'[u] = req[u] /\ plan'[u] = plan[u]
    BY <1>5 DEF CancelRows, EndGames, Over, BookingTypeOK, VisitsOK, GamesOK, RequestsOK
  <2> QED
    BY <2>2, <2>3, Elsewhere
<1> QED
  BY <1>1, <1>2, <1>3, <1>4, <1>5

\* So with what is booked outside of the kiosks.
LEMMA WebKeeps ==
  ASSUME BookingTypeOK, NEW u \in Visits, OwnInv(u), NEW w \in Web, WebBook(w), edited' = edited
  PROVE  OwnInv(u)'
<1>1. \A n \in Games : seat'[<<u, n>>] = seat[<<u, n>>]
  BY Apart DEF WebBook, BookingTypeOK, SeatsOK
<1>2. \A s \in Seats : seat[s].status # "none" => seat'[s].status # "none"
  BY DEF WebBook, NewSeat, BookingTypeOK, SeatsOK
<1>3. UNCHANGED <<visit, game, plan, req>>
  BY DEF WebBook
<1>4. Untouched(u)' <=> Untouched(u)
  BY DEF Untouched
<1> QED
  BY <1>1, <1>2, <1>3, <1>4, Elsewhere DEF OwnInv

\* What the calendar writes: one row, that it remembers, and no row is lost.
LEMMA DeskWrites ==
  ASSUME BookingTypeOK, NEW s \in Seats, Desk(s)
  PROVE  /\ UNCHANGED <<visit, hold, game, plan, req, draft>>
         /\ edited \subseteq edited' /\ edited' \subseteq edited \cup {s}
         /\ SeatsOK'
         /\ \A t \in Seats \ {s} : seat'[t] = seat[t]
         /\ seat'[s] = seat[s] \/ s \in edited'
         /\ seat[s].status # "none" => seat'[s].status # "none"
<1>1. UNCHANGED <<visit, hold, game, plan, req, draft>>
  BY DEF Desk
<1>2. CASE UNCHANGED <<seat, edited>>
  BY <1>1, <1>2, Unwritten DEF BookingTypeOK
<1>3. ASSUME NEW r \in SeatRow, seat' = [seat EXCEPT ![s] = r], edited' = edited \cup {s},
             seat[s].status # "none" => r.status # "none"
      PROVE  /\ edited \subseteq edited' /\ edited' \subseteq edited \cup {s} /\ s \in edited'
             /\ SeatsOK' /\ seat'[s] = r /\ \A t \in Seats \ {s} : seat'[t] = seat[t]
  BY <1>3 DEF BookingTypeOK, SeatsOK
<1>4. seat[s] \in SeatRow /\ desk[s] \in DeskRequest
  BY DEF BookingTypeOK, SeatsOK, DeskOK
<1>5. ASSUME NEW from, NEW to \in {"booked", "arrived", "completed", "cancelled"}, StaffSets(s, from, to)
      PROVE  \E r \in SeatRow : seat' = [seat EXCEPT ![s] = r] /\ edited' = edited \cup {s} /\ r.status # "none"
  <2> DEFINE r == [seat[s] EXCEPT !.status = to, !.key = IF to \in Closed THEN 0 ELSE @]
  <2>1. r \in SeatRow /\ r.status # "none"
    BY <1>4 DEF SeatRow, Booked, Closed
  <2>2. seat' = [seat EXCEPT ![s] = r] /\ edited' = edited \cup {s}
    BY <1>5 DEF StaffSets, BookingTypeOK, SeatsOK
  <2> QED
    BY <2>1, <2>2
<1>6. CASE StaffArrives(s) \/ StaffUndoes(s) \/ StaffCompletes(s) \/ StaffCancels(s)
  <2>1. \E r \in SeatRow : seat' = [seat EXCEPT ![s] = r] /\ edited' = edited \cup {s} /\ r.status # "none"
    BY <1>5, <1>6 DEF StaffArrives, StaffUndoes, StaffCompletes, StaffCancels
  <2> QED
    BY <1>1, <1>3, <2>1
<1>7. CASE StaffSettles(s)
  <2> DEFINE r == [seat[s] EXCEPT !.paid = TRUE]
  <2>1. r \in SeatRow /\ r.status = seat[s].status
    BY <1>4 DEF SeatRow
  <2>2. seat' = [seat EXCEPT ![s] = r] /\ edited' = edited \cup {s}
    BY <1>7 DEF StaffSettles, BookingTypeOK, SeatsOK
  <2> HIDE DEF r
  <2> QED
    BY <1>1, <1>3, <2>1, <2>2
<1>8. CASE EditWrite(s) /\ ~UNCHANGED <<seat, edited>>
  <2> DEFINE r == IF desk[s].op = "create" THEN NewSeat(desk[s].to, desk[s].key)
                  ELSE [seat[s] EXCEPT !.slot = desk[s].to, !.key = desk[s].key]
  <2>1. desk[s].to \in Slots \cup {0} /\ desk[s].key \in Slots \cup {0}
    BY <1>4, <1>8 DEF EditWrite, DeskRequest, Idle
  <2>2. r \in SeatRow /\ (seat[s].status # "none" => r.status # "none")
    BY <1>4, <2>1 DEF SeatRow, NewSeat, Booked
  <2>3. seat' = [seat EXCEPT ![s] = r] /\ edited' = edited \cup {s}
    BY <1>8 DEF EditWrite, BookingTypeOK, SeatsOK
  <2> HIDE DEF r
  <2> QED
    BY <1>1, <1>3, <2>2, <2>3
<1>9. CASE EditLook(s) \/ EditDropped(s) \/ \E op \in Edits, to \in Slots \cup {0} : EditAsk(s, op, to)
  BY <1>2, <1>9 DEF EditLook, EditDropped, EditAsk
<1> QED
  BY <1>2, <1>6, <1>7, <1>8, <1>9 DEF Desk

\* The calendar leaves every visit its rows, and what is said of its seats is
\* said of visits that it left alone.
LEMMA DeskKeeps ==
  ASSUME BookingTypeOK, NEW u \in Visits, OwnInv(u), NEW s \in Seats, Desk(s)
  PROVE  OwnInv(u)'
<1>1. Untouched(u)' => Untouched(u) /\ \A n \in Games : seat'[<<u, n>>] = seat[<<u, n>>]
  BY DeskWrites, Apart DEF Untouched
<1>2. \A t \in Seats : seat[t].status # "none" => seat'[t].status # "none"
  BY DeskWrites
<1> QED
  BY <1>1, <1>2, DeskWrites, Elsewhere DEF OwnInv

-----------------------------------------------------------------------------
(* Every step keeps the rows and the requests well formed: one step per      *)
(* action, and under it one per table that it writes.                        *)

\* Types are kept by every step of the kiosks.
LEMMA TypeStep ==
  ASSUME BookingTypeOK, VisitInv, Kiosks
  PROVE  BookingTypeOK'
<1> USE DEF BookingTypeOK
<1>u. UNCHANGED <<desk, edited>>
  BY DEF Kiosks
<1> USE <1>u
<1>HoldExpires. ASSUME NEW v \in Visits, HoldExpires(v) PROVE BookingTypeOK'
  <2>1. HoldsOK'
    BY <1>HoldExpires DEF HoldExpires, EndHold, HoldsOK, Slots
  <2> QED
    BY <1>HoldExpires, <2>1, Unwritten DEF HoldExpires
<1>GameExpires. ASSUME NEW v \in Visits, NEW n \in Games, GameExpires(v, n) PROVE BookingTypeOK'
  <2>1. GamesOK'
    BY <1>GameExpires, EndedRow DEF GameExpires, GamesOK
  <2> QED
    BY <1>GameExpires, <2>1, Unwritten DEF GameExpires
<1>VisitExpires. ASSUME NEW v \in Visits, VisitExpires(v) PROVE BookingTypeOK'
  <2>1. VisitsOK'
    BY <1>VisitExpires DEF VisitExpires, VisitsOK, VisitRow
  <2> QED
    BY <1>VisitExpires, <2>1, Unwritten DEF VisitExpires
<1>Create. ASSUME NEW v \in Visits, NEW p \in Parties[v], Create(v, p) PROVE BookingTypeOK'
  <2>1. VisitsOK'
    BY <1>Create, BookingConstants DEF Create, VisitsOK, VisitRow
  <2> QED
    BY <1>Create, <2>1, Unwritten DEF Create
<1>DraftRead. ASSUME NEW v \in Visits, NEW p \in Parties[v], DraftRead(v, p) PROVE BookingTypeOK'
  <2>1. DraftsOK'
    BY <1>DraftRead, DraftReadDraft
  <2> QED
    BY <1>DraftRead, <2>1, Unwritten DEF DraftRead
<1>DraftWrite. ASSUME NEW v \in Visits, DraftWrite(v) PROVE BookingTypeOK'
  <2>1. VisitsOK'
    <3>1. \/ draft[v] = Idle
          \/ draft[v].party \in Nat /\ draft[v].rev \in Nat /\ draft[v].rev <= MaxRev[v]
      BY DEF DraftsOK, DraftRequest
    <3> QED
      BY <1>DraftWrite, <3>1 DEF DraftWrite, VisitsOK, VisitRow
  <2>2. DraftsOK'
    BY <1>DraftWrite DEF DraftWrite, DraftsOK, DraftRequest, Idle
  <2> QED
    BY <1>DraftWrite, <2>1, <2>2, Unwritten DEF DraftWrite
<1>ResetRead. ASSUME NEW v \in Visits, ResetRead(v) PROVE BookingTypeOK'
  <2>1. RequestsOK'
    BY <1>ResetRead DEF ResetRead, Session, RequestsOK, Request, Idle
  <2> QED
    BY <1>ResetRead, <2>1, Unwritten DEF ResetRead, Session
<1>ResetWrite. ASSUME NEW v \in Visits, ResetWrite(v) PROVE BookingTypeOK'
  <2>1. VisitsOK'
    BY <1>ResetWrite DEF ResetWrite, VisitsOK, VisitRow
  <2>2. HoldsOK'
    BY <1>ResetWrite, BookingConstants DEF ResetWrite, EndHold, HoldsOK, Slots
  <2>3. GamesOK'
    BY <1>ResetWrite, EndGamesOK DEF ResetWrite
  <2>4. RequestsOK'
    BY <1>ResetWrite DEF ResetWrite, Over, RequestsOK, Request, Idle
  <2> QED
    BY <1>ResetWrite, <2>1, <2>2, <2>3, <2>4, Unwritten DEF ResetWrite
<1>HoldRead. ASSUME NEW v \in Visits, NEW s \in Slots, HoldRead(v, s) PROVE BookingTypeOK'
  <2>1. RequestsOK'
    BY <1>HoldRead DEF HoldRead, Session, RequestsOK, Request, Idle
  <2> QED
    BY <1>HoldRead, <2>1, Unwritten DEF HoldRead, Session
<1>HoldWrite. ASSUME NEW v \in Visits, HoldWrite(v) PROVE BookingTypeOK'
  <2>1. HoldsOK'
    BY <1>HoldWrite, Shapes DEF HoldWrite, TakeHold, HoldsOK, Slots, RequestsOK
  <2>2. VisitsOK'
    BY <1>HoldWrite DEF HoldWrite, VisitsOK, VisitRow
  <2>3. RequestsOK'
    BY <1>HoldWrite DEF HoldWrite, Over, RequestsOK, Request, Idle
  <2> QED
    BY <1>HoldWrite, <2>1, <2>2, <2>3, Unwritten DEF HoldWrite
<1>AssignRead. ASSUME NEW v \in Visits, NEW append \in BOOLEAN, AssignRead(v, append) PROVE BookingTypeOK'
  <2>1. RequestsOK'
    BY <1>AssignRead, AssignReadRequest
  <2> QED
    BY <1>AssignRead, <2>1, Unwritten DEF AssignRead, Session
<1>AssignCheck. ASSUME NEW v \in Visits, AssignCheck(v) PROVE BookingTypeOK'
  <2>1. RequestsOK'
    BY <1>AssignCheck, Shapes DEF AssignCheck, GoOn, RequestsOK, Request, Idle
  <2> QED
    BY <1>AssignCheck, <2>1, Unwritten DEF AssignCheck
<1>AssignWrite. ASSUME NEW v \in Visits, AssignWrite(v) PROVE BookingTypeOK'
  <2>1. HoldsOK'
    BY <1>AssignWrite, Shapes DEF AssignWrite, TakeHold, HoldsOK, Slots, RequestsOK
  <2>2. GamesOK'
    BY <1>AssignWrite, AssignWriteGames
  <2>3. VisitsOK'
    BY <1>AssignWrite DEF AssignWrite, VisitsOK, VisitRow
  <2>4. RequestsOK'
    BY <1>AssignWrite DEF AssignWrite, Over, RequestsOK, Request, Idle
  <2> QED
    BY <1>AssignWrite, <2>1, <2>2, <2>3, <2>4, Unwritten DEF AssignWrite
<1>AppendWrite. ASSUME NEW v \in Visits, AppendWrite(v) PROVE BookingTypeOK'
  <2>1. GamesOK'
    <3> DEFINE g == NewGame(v, TRUE)
    <3>1. g \in GameRow /\ GameFits(g)
      BY <1>AppendWrite, Shapes DEF AppendWrite, NewGame, GameFits, GameRow, Slots, RequestsOK, VisitsOK,
         VisitRow
    <3>2. LastGame(v) + 1 \in Games /\ game' = [game EXCEPT ![v][LastGame(v) + 1] = g]
      BY <1>AppendWrite DEF AppendWrite
    <3> HIDE DEF g
    <3>3. \A u \in Visits, m \in Games :
            game'[u][m] = game[u][m] \/ game'[u][m] = g
      BY <3>2 DEF GamesOK
    <3>4. game' \in [Visits -> [Games -> GameRow]]
      BY <3>1, <3>2 DEF GamesOK
    <3> QED
      BY <3>1, <3>3, <3>4 DEF GamesOK
  <2>2. RequestsOK'
    BY <1>AppendWrite DEF AppendWrite, Over, RequestsOK, Request, Idle
  <2> QED
    BY <1>AppendWrite, <2>1, <2>2, Unwritten DEF AppendWrite
<1>SelectRead. ASSUME NEW v \in Visits, SelectRead(v) PROVE BookingTypeOK'
  <2>1. RequestsOK'
    BY <1>SelectRead DEF SelectRead, Session, RequestsOK, Request, Idle
  <2> QED
    BY <1>SelectRead, <2>1, Unwritten DEF SelectRead, Session
<1>SelectWrite. ASSUME NEW v \in Visits, NEW w \in Web, SelectWrite(v, w) PROVE BookingTypeOK'
  <2>1. VisitsOK'
    BY <1>SelectWrite, SelectWriteVisits
  <2>2. RequestsOK'
    BY <1>SelectWrite DEF SelectWrite, Over, RequestsOK, Request, Idle
  <2> QED
    BY <1>SelectWrite, <2>1, <2>2, Unwritten DEF SelectWrite
<1>CheckoutRead. ASSUME NEW v \in Visits, CheckoutRead(v) PROVE BookingTypeOK'
  <2>1. RequestsOK'
    BY <1>CheckoutRead DEF CheckoutRead, Session, RequestsOK, Request, Idle, VisitsOK, VisitRow
  <2> QED
    BY <1>CheckoutRead, <2>1, Unwritten DEF CheckoutRead, Session
<1>KeepSeat. ASSUME NEW v \in Visits, KeepSeat(v) PROVE BookingTypeOK'
  <2>1. RequestsOK'
    BY <1>KeepSeat, Shapes DEF KeepSeat, RequestsOK, Request, Idle
  <2> QED
    BY <1>KeepSeat, <2>1, Unwritten DEF KeepSeat
<1>CheckHold. ASSUME NEW v \in Visits, CheckHold(v) PROVE BookingTypeOK'
  <2>1. RequestsOK'
    BY <1>CheckHold, CheckHoldTypes, GamesAre
  <2> QED
    BY <1>CheckHold, <2>1, Unwritten DEF CheckHold
<1>Reserve. ASSUME NEW v \in Visits, Reserve(v) PROVE BookingTypeOK'
  BY <1>Reserve, ReserveTypes, ReserveIs, Unwritten
<1>Convert. ASSUME NEW v \in Visits, Convert(v) PROVE BookingTypeOK'
  <2>1. HoldsOK'
    BY <1>Convert DEF Convert, EndHold, HoldsOK, Slots
  <2>2. VisitsOK'
    <3>1. Primary(v) \in Seats
      BY <1>Convert, PrimaryIn DEF Convert, VisitInv, OwnInv, ReqInv, Seats
    <3> QED
      BY <1>Convert, <3>1, ConvertVisit
  <2>3. RequestsOK'
    BY <1>Convert, Shapes DEF Convert, RequestsOK, Request, Idle
  <2> QED
    BY <1>Convert, <2>1, <2>2, <2>3, Unwritten DEF Convert
<1>Pending. ASSUME NEW v \in Visits, Pending(v) PROVE BookingTypeOK'
  <2>1. VisitsOK'
    BY <1>Pending DEF Pending, VisitsOK, VisitRow
  <2>2. RequestsOK'
    BY <1>Pending, Shapes DEF Pending, GoOn, RequestsOK, Request, Idle
  <2> QED
    BY <1>Pending, <2>1, <2>2, Unwritten DEF Pending
<1>MakePlan. ASSUME NEW v \in Visits, MakePlan(v) PROVE BookingTypeOK'
  <2>1. PlansOK'
    BY <1>MakePlan, Shapes DEF MakePlan, PlansOK, Seats, RequestsOK
  <2>2. RequestsOK'
    BY <1>MakePlan, Shapes DEF MakePlan, GoOn, RequestsOK, Request, Idle
  <2> QED
    BY <1>MakePlan, <2>1, <2>2, Unwritten DEF MakePlan
<1>PayCard. ASSUME NEW v \in Visits, PayCard(v) PROVE BookingTypeOK'
  <2>1. PlansOK'
    BY <1>PayCard DEF PayCard, PlansOK, Seats
  <2>2. RequestsOK'
    BY <1>PayCard DEF PayCard, Over, RequestsOK, Request, Idle
  <2> QED
    BY <1>PayCard, <2>1, <2>2, Unwritten DEF PayCard
<1>WaitRead. ASSUME NEW v \in Visits, WaitRead(v) PROVE BookingTypeOK'
  <2>1. RequestsOK'
    BY <1>WaitRead DEF WaitRead, Session, RequestsOK, Request, Idle, VisitsOK, VisitRow
  <2> QED
    BY <1>WaitRead, <2>1, Unwritten DEF WaitRead, Session
<1>MarkPaid. ASSUME NEW v \in Visits, MarkPaid(v) PROVE BookingTypeOK'
  <2>1. VisitsOK'
    BY <1>MarkPaid DEF MarkPaid, VisitsOK, VisitRow
  <2>2. SeatsOK'
    BY <1>MarkPaid DEF MarkPaid, SeatsOK, SeatRow, Seats, Booked, Closed
  <2>3. GamesOK'
    BY <1>MarkPaid, MarkPaidGames
  <2>4. RequestsOK'
    BY <1>MarkPaid DEF MarkPaid, Over, RequestsOK, Request, Idle
  <2> QED
    BY <1>MarkPaid, <2>1, <2>2, <2>3, <2>4, Unwritten DEF MarkPaid
<1>CancelRead. ASSUME NEW v \in Visits, CancelRead(v) PROVE BookingTypeOK'
  <2>1. RequestsOK'
    BY <1>CancelRead DEF CancelRead, Session, RequestsOK, Request, Idle
  <2> QED
    BY <1>CancelRead, <2>1, Unwritten DEF CancelRead, Session
<1>CancelPlan. ASSUME NEW v \in Visits, CancelPlan(v) PROVE BookingTypeOK'
  <2>1. PlansOK'
    BY <1>CancelPlan DEF CancelPlan, NoPlan, PlansOK, Seats
  <2>2. RequestsOK'
    BY <1>CancelPlan, Shapes DEF CancelPlan, GoOn, RequestsOK, Request, Idle
  <2> QED
    BY <1>CancelPlan, <2>1, <2>2, Unwritten DEF CancelPlan
<1>CancelRows. ASSUME NEW v \in Visits, CancelRows(v) PROVE BookingTypeOK'
  <2>1. SeatsOK'
    BY <1>CancelRows DEF CancelRows, SeatsOK, SeatRow, Seats, Booked, Closed
  <2>2. VisitsOK'
    BY <1>CancelRows DEF CancelRows, VisitsOK, VisitRow
  <2>3. HoldsOK'
    BY <1>CancelRows DEF CancelRows, EndHold, HoldsOK, Slots
  <2>4. GamesOK'
    BY <1>CancelRows, EndGamesOK DEF CancelRows
  <2>5. RequestsOK'
    BY <1>CancelRows DEF CancelRows, Over, RequestsOK, Request, Idle
  <2> QED
    BY <1>CancelRows, <2>1, <2>2, <2>3, <2>4, <2>5, Unwritten DEF CancelRows
<1>Terminate. ASSUME NEW v \in Visits, Terminate(v) PROVE BookingTypeOK'
  <2>1. HoldsOK'
    BY <1>Terminate DEF Terminate, EndHold, HoldsOK, Slots
  <2>2. VisitsOK'
    BY <1>Terminate DEF Terminate, VisitsOK, VisitRow
  <2> QED
    BY <1>Terminate, <2>1, <2>2, Unwritten DEF Terminate
<1>ReleaseHold. ASSUME NEW v \in Visits, ReleaseHold(v) PROVE BookingTypeOK'
  <2>1. HoldsOK'
    BY <1>ReleaseHold DEF ReleaseHold, EndHold, HoldsOK, Slots
  <2>2. VisitsOK'
    BY <1>ReleaseHold DEF ReleaseHold, VisitsOK, VisitRow
  <2> QED
    BY <1>ReleaseHold, <2>1, <2>2, Unwritten DEF ReleaseHold
<1>Dropped. ASSUME NEW v \in Visits, Dropped(v) PROVE BookingTypeOK'
  <2>1. RequestsOK'
    BY <1>Dropped DEF Dropped, Over, RequestsOK, Request, Idle
  <2> QED
    BY <1>Dropped, <2>1, Unwritten DEF Dropped
<1>CardResult. ASSUME NEW v \in Visits, NEW approved \in BOOLEAN, CardResult(v, approved) PROVE BookingTypeOK'
  <2>1. PlansOK'
    BY <1>CardResult DEF CardResult, PlansOK, Seats
  <2>2. SeatsOK'
    BY <1>CardResult DEF CardResult, SeatsOK, SeatRow, Seats
  <2> QED
    BY <1>CardResult, <2>1, <2>2, Unwritten DEF CardResult
<1>WebBook. ASSUME NEW w \in Web, WebBook(w) PROVE BookingTypeOK'
  <2>1. SeatsOK'
    BY <1>WebBook, WebBookSeats
  <2> QED
    BY <1>WebBook, <2>1, Unwritten DEF WebBook
<1> QED
  BY <1>HoldExpires, <1>GameExpires, <1>VisitExpires, <1>Create, <1>DraftRead, <1>DraftWrite,
     <1>ResetRead, <1>ResetWrite, <1>HoldRead, <1>HoldWrite, <1>AssignRead, <1>AssignCheck,
     <1>AssignWrite, <1>AppendWrite, <1>SelectRead, <1>SelectWrite, <1>CheckoutRead, <1>KeepSeat,
     <1>CheckHold, <1>Reserve, <1>Convert, <1>Pending, <1>MakePlan, <1>PayCard,
     <1>WaitRead, <1>MarkPaid, <1>CancelRead, <1>CancelPlan, <1>CancelRows, <1>Terminate,
     <1>ReleaseHold, <1>Dropped, <1>CardResult, <1>WebBook
     DEF Kiosks, Clock, Customer, Others

\* And by every step of the staff's calendar.
LEMMA DeskTypes ==
  ASSUME BookingTypeOK, NEW s \in Seats, Desk(s)
  PROVE  BookingTypeOK'
<1>1. desk[s] \in DeskRequest /\ seat[s] \in SeatRow
  BY DEF BookingTypeOK, DeskOK, SeatsOK
<1>2. \/ UNCHANGED desk
      \/ \E d \in DeskRequest : desk' = [desk EXCEPT ![s] = d]
  <2>1. ASSUME NEW op \in Edits, NEW to \in Slots \cup {0}, EditAsk(s, op, to)
        PROVE  \E d \in DeskRequest : desk' = [desk EXCEPT ![s] = d]
    <3> DEFINE d == [pc |-> "look", op |-> op, to |-> to, key |-> 0, closed |-> seat[s].status \in Closed]
    <3>1. d \in DeskRequest
      BY DEF DeskRequest
    <3> QED
      BY <2>1, <3>1 DEF EditAsk
  <2>2. ASSUME EditLook(s)
        PROVE  \E d \in DeskRequest : desk' = [desk EXCEPT ![s] = d]
    <3> DEFINE k == IF desk[s].closed THEN 0 ELSE AdminKey(s, desk[s].to)
               d == [desk[s] EXCEPT !.pc = "write", !.key = k]
    <3>1. desk[s] \in [pc : {"look", "write"}, op : Edits, to : Slots \cup {0}, key : Slots \cup {0}, closed : BOOLEAN]
      BY <1>1, <2>2 DEF EditLook, DeskRequest, Idle
    <3>2. k \in Slots \cup {0}
      BY <3>1 DEF AdminKey
    <3>3. desk' = [desk EXCEPT ![s] = d]
      BY <2>2 DEF EditLook, BookingTypeOK, DeskOK
    <3> HIDE DEF k
    <3>4. d \in DeskRequest
      BY <3>1, <3>2 DEF DeskRequest
    <3> QED
      BY <3>3, <3>4
  <2>3. Idle \in DeskRequest
    BY DEF DeskRequest
  <2> QED
    BY <2>1, <2>2, <2>3 DEF Desk, StaffArrives, StaffUndoes, StaffCompletes, StaffCancels, StaffSets, StaffSettles,
                            EditWrite, EditDropped
<1>3. DeskOK'
  <2>1. edited' \subseteq Seats
    BY DeskWrites DEF BookingTypeOK, DeskOK
  <2> QED
    BY <1>2, <2>1 DEF BookingTypeOK, DeskOK
<1> QED
  BY <1>3, DeskWrites, Unwritten DEF BookingTypeOK
-----------------------------------------------------------------------------
(* Every step keeps what is known of each visit: of the visit it works for,   *)
(* and of the others, whose rows it leaves alone.                             *)

\* What a step does for its own visit, and to the others.
LEMMA VisitStep ==
  ASSUME BookingTypeOK, VisitInv, Kiosks
  PROVE  VisitInv'
<1>u. edited' = edited /\ \A v \in Visits : Untouched(v)' <=> Untouched(v)
  BY DEF Kiosks, Untouched
<1> USE <1>u
<1>1. ASSUME NEW v \in Visits, OwnInv(v)', \A u \in Visits \ {v} : OwnInv(u)'
      PROVE  VisitInv'
  BY <1>1 DEF VisitInv
<1>2. \A v \in Visits : OwnInv(v)
  BY DEF VisitInv
<1>HoldExpires. ASSUME NEW v \in Visits, HoldExpires(v) PROVE VisitInv'
  <2>1. OwnInv(v)'
    BY <1>2, <1>HoldExpires DEF HoldExpires, BookingTypeOK, OwnInv, RowInv, ReqInv, PlanInv, GoneInv,
       Reached, Made, EndHold
  <2>2. ASSUME NEW u \in Visits \ {v} PROVE OwnInv(u)'
    BY <1>2, <1>HoldExpires, Elsewhere DEF OwnInv, BookingTypeOK, HoldExpires
  <2> QED
    BY <1>1, <2>1, <2>2
<1>GameExpires. ASSUME NEW v \in Visits, NEW n \in Games, GameExpires(v, n) PROVE VisitInv'
  <2>1. OwnInv(v)'
    <3>1. OwnInv(v)
      BY <1>2
    <3>2. RowInv(v)'
      BY <1>GameExpires, <3>1 DEF GameExpires, BookingTypeOK, OwnInv, RowInv, Reached, Made, Ended,
         NoGame, GamesOK, GameRow
    <3>3. ReqInv(v)'
      BY <1>GameExpires, <3>1 DEF GameExpires, BookingTypeOK, OwnInv, ReqInv, Reached, Made, Ended,
         NoGame, GamesOK, GameRow
    <3>4. PlanInv(v)'
      BY <1>GameExpires, <3>1 DEF GameExpires, BookingTypeOK, OwnInv, PlanInv, Reached, Made, Ended,
         NoGame, GamesOK, GameRow
    <3>5. GoneInv(v)'
      BY <1>GameExpires, <3>1 DEF GameExpires, BookingTypeOK, OwnInv, GoneInv, Reached, Made, Ended,
         NoGame, GamesOK, GameRow
    <3> QED
      BY <3>2, <3>3, <3>4, <3>5 DEF OwnInv
  <2>2. ASSUME NEW u \in Visits \ {v} PROVE OwnInv(u)'
    BY <1>2, <1>GameExpires, Elsewhere DEF OwnInv, BookingTypeOK, GameExpires, Ended, NoGame, GamesOK
  <2> QED
    BY <1>1, <2>1, <2>2
<1>VisitExpires. ASSUME NEW v \in Visits, VisitExpires(v) PROVE VisitInv'
  <2>1. OwnInv(v)'
    BY <1>2, <1>VisitExpires DEF VisitExpires, BookingTypeOK, OwnInv, RowInv, ReqInv, PlanInv, GoneInv,
       Reached, Made, VisitsOK, VisitRow, Open, Idle
  <2>2. ASSUME NEW u \in Visits \ {v} PROVE OwnInv(u)'
    BY <1>2, <1>VisitExpires, Elsewhere DEF OwnInv, BookingTypeOK, VisitExpires, VisitsOK
  <2> QED
    BY <1>1, <2>1, <2>2
<1>Create. ASSUME NEW v \in Visits, NEW p \in Parties[v], Create(v, p) PROVE VisitInv'
  <2>1. OwnInv(v)'
    BY <1>2, <1>Create DEF Create, BookingTypeOK, OwnInv, RowInv, ReqInv, PlanInv, GoneInv, Reached,
       Made, VisitsOK, VisitRow
  <2>2. ASSUME NEW u \in Visits \ {v} PROVE OwnInv(u)'
    BY <1>2, <1>Create, Elsewhere DEF OwnInv, BookingTypeOK, Create, VisitsOK
  <2> QED
    BY <1>1, <2>1, <2>2
<1>DraftRead. ASSUME NEW v \in Visits, NEW p \in Parties[v], DraftRead(v, p) PROVE VisitInv'
  <2>1. OwnInv(v)'
    BY <1>2, <1>DraftRead DEF DraftRead, BookingTypeOK, OwnInv, RowInv, ReqInv, PlanInv, GoneInv,
       Reached, Made
  <2>2. ASSUME NEW u \in Visits \ {v} PROVE OwnInv(u)'
    BY <1>2, <1>DraftRead, Elsewhere DEF OwnInv, BookingTypeOK, DraftRead
  <2> QED
    BY <1>1, <2>1, <2>2
<1>DraftWrite. ASSUME NEW v \in Visits, DraftWrite(v) PROVE VisitInv'
  <2>1. OwnInv(v)'
    BY <1>2, <1>DraftWrite DEF DraftWrite, BookingTypeOK, OwnInv, RowInv, ReqInv, PlanInv, GoneInv,
       Reached, Made, VisitsOK, VisitRow
  <2>2. ASSUME NEW u \in Visits \ {v} PROVE OwnInv(u)'
    BY <1>2, <1>DraftWrite, Elsewhere DEF OwnInv, BookingTypeOK, DraftWrite, VisitsOK
  <2> QED
    BY <1>1, <2>1, <2>2
<1>ResetRead. ASSUME NEW v \in Visits, ResetRead(v) PROVE VisitInv'
  <2>1. OwnInv(v)'
    BY <1>2, <1>ResetRead DEF ResetRead, BookingTypeOK, OwnInv, RowInv, ReqInv, PlanInv, GoneInv,
       Reached, Made, Session, RequestsOK
  <2>2. ASSUME NEW u \in Visits \ {v} PROVE OwnInv(u)'
    BY <1>2, <1>ResetRead, Elsewhere DEF OwnInv, BookingTypeOK, ResetRead, Session, RequestsOK
  <2> QED
    BY <1>1, <2>1, <2>2
<1>ResetWrite. ASSUME NEW v \in Visits, ResetWrite(v) PROVE VisitInv'
  <2>1. OwnInv(v)'
    BY <1>2, <1>ResetWrite DEF ResetWrite, BookingTypeOK, OwnInv, RowInv, ReqInv, PlanInv, GoneInv,
       Reached, Made, EndHold, EndGames, Ended, NoGame, Over, Idle, VisitsOK, VisitRow, GamesOK, GameRow, RequestsOK, Open
  <2>2. ASSUME NEW u \in Visits \ {v} PROVE OwnInv(u)'
    BY <1>2, <1>ResetWrite, Elsewhere DEF OwnInv, BookingTypeOK, ResetWrite, EndGames, Ended, NoGame,
       Over, VisitsOK, GamesOK, RequestsOK
  <2> QED
    BY <1>1, <2>1, <2>2
<1>HoldRead. ASSUME NEW v \in Visits, NEW s \in Slots, HoldRead(v, s) PROVE VisitInv'
  <2>1. OwnInv(v)'
    BY <1>2, <1>HoldRead DEF HoldRead, BookingTypeOK, OwnInv, RowInv, ReqInv, PlanInv, GoneInv,
       Reached, Made, Session, RequestsOK, WalkIn, OpenRow, Open
  <2>2. ASSUME NEW u \in Visits \ {v} PROVE OwnInv(u)'
    BY <1>2, <1>HoldRead, Elsewhere DEF OwnInv, BookingTypeOK, HoldRead, Session, RequestsOK
  <2> QED
    BY <1>1, <2>1, <2>2
<1>HoldWrite. ASSUME NEW v \in Visits, HoldWrite(v) PROVE VisitInv'
  <2>1. OwnInv(v)'
    BY <1>2, <1>HoldWrite DEF HoldWrite, BookingTypeOK, OwnInv, RowInv, ReqInv, PlanInv, GoneInv,
       Reached, Made, Over, Idle, VisitsOK, VisitRow, RequestsOK
  <2>2. ASSUME NEW u \in Visits \ {v} PROVE OwnInv(u)'
    BY <1>2, <1>HoldWrite, Elsewhere DEF OwnInv, BookingTypeOK, HoldWrite, Over, VisitsOK, RequestsOK
  <2> QED
    BY <1>1, <2>1, <2>2
<1>AssignRead. ASSUME NEW v \in Visits, NEW append \in BOOLEAN, AssignRead(v, append) PROVE VisitInv'
  <2>1. OwnInv(v)'
    BY <1>2, <1>AssignRead DEF AssignRead, BookingTypeOK, OwnInv, RowInv, ReqInv, PlanInv, GoneInv,
       Reached, Made, Session, RequestsOK, WalkIn, OpenRow, Open
  <2>2. ASSUME NEW u \in Visits \ {v} PROVE OwnInv(u)'
    BY <1>2, <1>AssignRead, Elsewhere DEF OwnInv, BookingTypeOK, AssignRead, Session, RequestsOK
  <2> QED
    BY <1>1, <2>1, <2>2
<1>AssignCheck. ASSUME NEW v \in Visits, AssignCheck(v) PROVE VisitInv'
  <2>1. OwnInv(v)'
    BY <1>2, <1>AssignCheck, Shapes DEF AssignCheck, BookingTypeOK, OwnInv, RowInv, ReqInv, PlanInv,
       GoneInv, Reached, Made, GoOn, RequestsOK, Request
  <2>2. ASSUME NEW u \in Visits \ {v} PROVE OwnInv(u)'
    BY <1>2, <1>AssignCheck, Elsewhere DEF OwnInv, BookingTypeOK, AssignCheck, GoOn, RequestsOK
  <2> QED
    BY <1>1, <2>1, <2>2
<1>AssignWrite. ASSUME NEW v \in Visits, AssignWrite(v) PROVE VisitInv'
  <2>1. OwnInv(v)'
    <3>1. OwnInv(v)
      BY <1>2
    <3>2. RowInv(v)'
      BY <1>AssignWrite, <3>1 DEF AssignWrite, BookingTypeOK, OwnInv, RowInv, Reached, Made, NewGame,
         Ended, NoGame, Over, Idle, GamesOK, GameRow, VisitsOK, VisitRow, RequestsOK
    <3>3. ReqInv(v)'
      BY <1>AssignWrite, <3>1 DEF AssignWrite, BookingTypeOK, OwnInv, ReqInv, Reached, Made, NewGame,
         Ended, NoGame, Over, Idle, GamesOK, GameRow, VisitsOK, VisitRow, RequestsOK
    <3>4. PlanInv(v)'
      BY <1>AssignWrite, <3>1 DEF AssignWrite, BookingTypeOK, OwnInv, PlanInv, Reached, Made, NewGame,
         Ended, NoGame, Over, Idle, GamesOK, GameRow, VisitsOK, VisitRow, RequestsOK
    <3>5. GoneInv(v)'
      BY <1>AssignWrite, <3>1 DEF AssignWrite, BookingTypeOK, OwnInv, GoneInv, Reached, Made, NewGame,
         Ended, NoGame, Over, Idle, GamesOK, GameRow, VisitsOK, VisitRow, RequestsOK
    <3> QED
      BY <3>2, <3>3, <3>4, <3>5 DEF OwnInv
  <2>2. ASSUME NEW u \in Visits \ {v} PROVE OwnInv(u)'
    BY <1>2, <1>AssignWrite, Elsewhere DEF OwnInv, BookingTypeOK, AssignWrite, Ended, NoGame, Over,
       GamesOK, VisitsOK, RequestsOK
  <2> QED
    BY <1>1, <2>1, <2>2
<1>AppendWrite. ASSUME NEW v \in Visits, AppendWrite(v) PROVE VisitInv'
  <2>1. OwnInv(v)'
    BY <1>2, <1>AppendWrite DEF AppendWrite, BookingTypeOK, OwnInv, RowInv, ReqInv, PlanInv, GoneInv,
       Reached, Made, NewGame, Over, Idle, GamesOK, GameRow, RequestsOK
  <2>2. ASSUME NEW u \in Visits \ {v} PROVE OwnInv(u)'
    BY <1>2, <1>AppendWrite, Elsewhere DEF OwnInv, BookingTypeOK, AppendWrite, Over, GamesOK, RequestsOK
  <2> QED
    BY <1>1, <2>1, <2>2
<1>SelectRead. ASSUME NEW v \in Visits, SelectRead(v) PROVE VisitInv'
  <2>1. OwnInv(v)'
    BY <1>2, <1>SelectRead DEF SelectRead, BookingTypeOK, OwnInv, RowInv, ReqInv, PlanInv, GoneInv,
       Reached, Made, Session, RequestsOK, OpenRow, Open
  <2>2. ASSUME NEW u \in Visits \ {v} PROVE OwnInv(u)'
    BY <1>2, <1>SelectRead, Elsewhere DEF OwnInv, BookingTypeOK, SelectRead, Session, RequestsOK
  <2> QED
    BY <1>1, <2>1, <2>2
<1>SelectWrite. ASSUME NEW v \in Visits, NEW w \in Web, SelectWrite(v, w) PROVE VisitInv'
  <2>0. RowInv(v)'
    BY <1>2, <1>SelectWrite, SelectRow DEF OwnInv
  <2>1. OwnInv(v)'
    <3>1. ReqInv(v)' /\ PlanInv(v)' /\ GoneInv(v)'
      BY <1>2, <1>SelectWrite DEF SelectWrite, BookingTypeOK, OwnInv, ReqInv, PlanInv, GoneInv,
         Reached, Made, Over, Idle, RequestsOK, VisitsOK, VisitRow, Linked
    <3> QED
      BY <2>0, <3>1 DEF OwnInv
  <2>2. ASSUME NEW u \in Visits \ {v} PROVE OwnInv(u)'
    BY <1>2, <1>SelectWrite, OthersKeep
  <2> QED
    BY <1>1, <2>1, <2>2
<1>CheckoutRead. ASSUME NEW v \in Visits, CheckoutRead(v) PROVE VisitInv'
  <2>1. OwnInv(v)'
    BY <1>2, <1>CheckoutRead DEF CheckoutRead, BookingTypeOK, OwnInv, RowInv, ReqInv, PlanInv, GoneInv,
       Reached, Made, Session, RequestsOK, Open
  <2>2. ASSUME NEW u \in Visits \ {v} PROVE OwnInv(u)'
    BY <1>2, <1>CheckoutRead, Elsewhere DEF OwnInv, BookingTypeOK, CheckoutRead, Session, RequestsOK
  <2> QED
    BY <1>1, <2>1, <2>2
<1>KeepSeat. ASSUME NEW v \in Visits, KeepSeat(v) PROVE VisitInv'
  <2>1. OwnInv(v)'
    BY <1>2, <1>KeepSeat DEF KeepSeat, BookingTypeOK, OwnInv, RowInv, ReqInv, PlanInv, GoneInv,
       Reached, Made, RequestsOK
  <2>2. ASSUME NEW u \in Visits \ {v} PROVE OwnInv(u)'
    BY <1>2, <1>KeepSeat, Elsewhere DEF OwnInv, BookingTypeOK, KeepSeat, RequestsOK
  <2> QED
    BY <1>1, <2>1, <2>2
<1>CheckHold. ASSUME NEW v \in Visits, CheckHold(v) PROVE VisitInv'
  <2>0. ReqInv(v)'
    BY <1>2, <1>CheckHold, CheckHoldRequest DEF OwnInv
  <2>1. OwnInv(v)'
    <3>1. RowInv(v)' /\ PlanInv(v)' /\ GoneInv(v)'
      BY <1>2, <1>CheckHold DEF CheckHold, BookingTypeOK, OwnInv, RowInv, PlanInv, GoneInv, Reached,
         Made, RequestsOK
    <3> QED
      BY <2>0, <3>1 DEF OwnInv
  <2>2. ASSUME NEW u \in Visits \ {v} PROVE OwnInv(u)'
    BY <1>2, <1>CheckHold, Elsewhere DEF OwnInv, BookingTypeOK, CheckHold, RequestsOK
  <2> QED
    BY <1>1, <2>1, <2>2
<1>Reserve. ASSUME NEW v \in Visits, Reserve(v) PROVE VisitInv'
  <2>1. OwnInv(v)'
    BY <1>2, <1>Reserve, ReserveKeeps DEF OwnInv
  <2>2. ASSUME NEW u \in Visits \ {v} PROVE OwnInv(u)'
    BY <1>2, <1>Reserve, OthersKeep
  <2> QED
    BY <1>1, <2>1, <2>2
<1>Convert. ASSUME NEW v \in Visits, Convert(v) PROVE VisitInv'
  <2>0. RowInv(v)'
    BY <1>2, <1>Convert, ConvertRow DEF OwnInv
  <2>1. OwnInv(v)'
    <3>1. ReqInv(v)' /\ PlanInv(v)' /\ GoneInv(v)'
      BY <1>2, <1>Convert DEF Convert, BookingTypeOK, OwnInv, ReqInv, PlanInv, GoneInv, Reached, Made,
         RequestsOK, VisitsOK, VisitRow, EndHold
    <3> QED
      BY <2>0, <3>1 DEF OwnInv
  <2>2. ASSUME NEW u \in Visits \ {v} PROVE OwnInv(u)'
    BY <1>2, <1>Convert, Elsewhere DEF OwnInv, BookingTypeOK, Convert, VisitsOK, RequestsOK
  <2> QED
    BY <1>1, <2>1, <2>2
<1>Pending. ASSUME NEW v \in Visits, Pending(v) PROVE VisitInv'
  <2>1. OwnInv(v)'
    BY <1>2, <1>Pending, Shapes DEF Pending, BookingTypeOK, OwnInv, RowInv, ReqInv, PlanInv, GoneInv,
       Reached, Made, GoOn, VisitsOK, VisitRow, RequestsOK, Request
  <2>2. ASSUME NEW u \in Visits \ {v} PROVE OwnInv(u)'
    BY <1>2, <1>Pending, Elsewhere DEF OwnInv, BookingTypeOK, Pending, GoOn, VisitsOK, RequestsOK
  <2> QED
    BY <1>1, <2>1, <2>2
<1>MakePlan. ASSUME NEW v \in Visits, MakePlan(v) PROVE VisitInv'
  <2>1. OwnInv(v)'
    BY <1>2, <1>MakePlan, Shapes DEF MakePlan, BookingTypeOK, OwnInv, RowInv, ReqInv, PlanInv, GoneInv,
       Reached, Made, GoOn, PlansOK, RequestsOK, Request
  <2>2. ASSUME NEW u \in Visits \ {v} PROVE OwnInv(u)'
    BY <1>2, <1>MakePlan, Elsewhere DEF OwnInv, BookingTypeOK, MakePlan, GoOn, PlansOK, RequestsOK
  <2> QED
    BY <1>1, <2>1, <2>2
<1>PayCard. ASSUME NEW v \in Visits, PayCard(v) PROVE VisitInv'
  <2>1. OwnInv(v)'
    BY <1>2, <1>PayCard DEF PayCard, BookingTypeOK, OwnInv, RowInv, ReqInv, PlanInv, GoneInv, Reached,
       Made, Over, Idle, PlansOK, RequestsOK
  <2>2. ASSUME NEW u \in Visits \ {v} PROVE OwnInv(u)'
    BY <1>2, <1>PayCard, Elsewhere DEF OwnInv, BookingTypeOK, PayCard, Over, PlansOK, RequestsOK
  <2> QED
    BY <1>1, <2>1, <2>2
<1>WaitRead. ASSUME NEW v \in Visits, WaitRead(v) PROVE VisitInv'
  <2>1. OwnInv(v)'
    BY <1>2, <1>WaitRead DEF WaitRead, BookingTypeOK, OwnInv, RowInv, ReqInv, PlanInv, GoneInv,
       Reached, Made, Session, RequestsOK
  <2>2. ASSUME NEW u \in Visits \ {v} PROVE OwnInv(u)'
    BY <1>2, <1>WaitRead, Elsewhere DEF OwnInv, BookingTypeOK, WaitRead, Session, RequestsOK
  <2> QED
    BY <1>1, <2>1, <2>2
<1>MarkPaid. ASSUME NEW v \in Visits, MarkPaid(v) PROVE VisitInv'
  <2>1. OwnInv(v)'
    BY <1>2, <1>MarkPaid, MarkPaidKeeps DEF OwnInv
  <2>2. ASSUME NEW u \in Visits \ {v} PROVE OwnInv(u)'
    BY <1>2, <1>MarkPaid, OthersKeep
  <2> QED
    BY <1>1, <2>1, <2>2
<1>CancelRead. ASSUME NEW v \in Visits, CancelRead(v) PROVE VisitInv'
  <2>1. OwnInv(v)'
    BY <1>2, <1>CancelRead DEF CancelRead, BookingTypeOK, OwnInv, RowInv, ReqInv, PlanInv, GoneInv,
       Reached, Made, Session, RequestsOK
  <2>2. ASSUME NEW u \in Visits \ {v} PROVE OwnInv(u)'
    BY <1>2, <1>CancelRead, Elsewhere DEF OwnInv, BookingTypeOK, CancelRead, Session, RequestsOK
  <2> QED
    BY <1>1, <2>1, <2>2
<1>CancelPlan. ASSUME NEW v \in Visits, CancelPlan(v) PROVE VisitInv'
  <2>1. OwnInv(v)'
    BY <1>2, <1>CancelPlan, Shapes DEF CancelPlan, BookingTypeOK, OwnInv, RowInv, ReqInv, PlanInv,
       GoneInv, Reached, Made, GoOn, NoPlan, PlansOK, NotStarted, RequestsOK, Request
  <2>2. ASSUME NEW u \in Visits \ {v} PROVE OwnInv(u)'
    BY <1>2, <1>CancelPlan, Elsewhere DEF OwnInv, BookingTypeOK, CancelPlan, GoOn, PlansOK, RequestsOK
  <2> QED
    BY <1>1, <2>1, <2>2
<1>CancelRows. ASSUME NEW v \in Visits, CancelRows(v) PROVE VisitInv'
  <2>1. OwnInv(v)'
    BY <1>2, <1>CancelRows, CancelRowsKeeps DEF OwnInv
  <2>2. ASSUME NEW u \in Visits \ {v} PROVE OwnInv(u)'
    BY <1>2, <1>CancelRows, OthersKeep
  <2> QED
    BY <1>1, <2>1, <2>2
<1>Terminate. ASSUME NEW v \in Visits, Terminate(v) PROVE VisitInv'
  <2>1. OwnInv(v)'
    BY <1>2, <1>Terminate DEF Terminate, BookingTypeOK, OwnInv, RowInv, ReqInv, PlanInv, GoneInv,
       Reached, Made, VisitsOK, VisitRow
  <2>2. ASSUME NEW u \in Visits \ {v} PROVE OwnInv(u)'
    BY <1>2, <1>Terminate, Elsewhere DEF OwnInv, BookingTypeOK, Terminate, VisitsOK
  <2> QED
    BY <1>1, <2>1, <2>2
<1>ReleaseHold. ASSUME NEW v \in Visits, ReleaseHold(v) PROVE VisitInv'
  <2>1. OwnInv(v)'
    BY <1>2, <1>ReleaseHold DEF ReleaseHold, BookingTypeOK, OwnInv, RowInv, ReqInv, PlanInv, GoneInv,
       Reached, Made, VisitsOK, VisitRow
  <2>2. ASSUME NEW u \in Visits \ {v} PROVE OwnInv(u)'
    BY <1>2, <1>ReleaseHold, Elsewhere DEF OwnInv, BookingTypeOK, ReleaseHold, VisitsOK
  <2> QED
    BY <1>1, <2>1, <2>2
<1>Dropped. ASSUME NEW v \in Visits, Dropped(v) PROVE VisitInv'
  <2>1. OwnInv(v)'
    BY <1>2, <1>Dropped DEF Dropped, BookingTypeOK, OwnInv, RowInv, ReqInv, PlanInv, GoneInv, Reached,
       Made, Over, Idle, RequestsOK
  <2>2. ASSUME NEW u \in Visits \ {v} PROVE OwnInv(u)'
    BY <1>2, <1>Dropped, Elsewhere DEF OwnInv, BookingTypeOK, Dropped, Over, RequestsOK
  <2> QED
    BY <1>1, <2>1, <2>2
<1>CardResult. ASSUME NEW v \in Visits, NEW approved \in BOOLEAN, CardResult(v, approved) PROVE VisitInv'
  <2>1. OwnInv(v)'
    BY <1>2, <1>CardResult, CardResultKeeps DEF OwnInv
  <2>2. ASSUME NEW u \in Visits \ {v} PROVE OwnInv(u)'
    BY <1>2, <1>CardResult, OthersKeep
  <2> QED
    BY <1>1, <2>1, <2>2
<1>WebBook. ASSUME NEW w \in Web, WebBook(w) PROVE VisitInv'
  BY <1>2, <1>WebBook, WebKeeps DEF VisitInv
<1> QED
  BY <1>HoldExpires, <1>GameExpires, <1>VisitExpires, <1>Create, <1>DraftRead, <1>DraftWrite,
     <1>ResetRead, <1>ResetWrite, <1>HoldRead, <1>HoldWrite, <1>AssignRead, <1>AssignCheck,
     <1>AssignWrite, <1>AppendWrite, <1>SelectRead, <1>SelectWrite, <1>CheckoutRead, <1>KeepSeat,
     <1>CheckHold, <1>Reserve, <1>Convert, <1>Pending, <1>MakePlan, <1>PayCard,
     <1>WaitRead, <1>MarkPaid, <1>CancelRead, <1>CancelPlan, <1>CancelRows, <1>Terminate,
     <1>ReleaseHold, <1>Dropped, <1>CardResult, <1>WebBook
     DEF Kiosks, Clock, Customer, Others
-----------------------------------------------------------------------------
(* The slots and the prices.                                                 *)

\* The reservations are written by five steps of the kiosks, the games by seven.
LEMMA SeatWriters ==
  ASSUME Kiosks
  PROVE  /\ \/ UNCHANGED seat
            \/ \E v \in Visits : Reserve(v) \/ MarkPaid(v) \/ CancelRows(v)
            \/ \E v \in Visits, approved \in BOOLEAN : CardResult(v, approved)
            \/ \E w \in Web : WebBook(w)
         /\ \/ UNCHANGED game
            \/ \E v \in Visits, k \in Games : GameExpires(v, k)
            \/ \E v \in Visits : \/ ResetWrite(v) \/ AssignWrite(v) \/ AppendWrite(v)
                                 \/ Reserve(v) \/ MarkPaid(v) \/ CancelRows(v)
<1>1. CASE Clock
  BY <1>1 DEF Clock, HoldExpires, VisitExpires, GameExpires
<1>2. CASE Others
  BY <1>2 DEF Others, Terminate, ReleaseHold, Dropped, CardResult, WebBook
<1>3. ASSUME NEW v \in Visits, Customer(v)
      PROVE  \/ UNCHANGED <<seat, game>>
             \/ Reserve(v) \/ MarkPaid(v) \/ CancelRows(v)
             \/ UNCHANGED seat /\ (ResetWrite(v) \/ AssignWrite(v) \/ AppendWrite(v))
  BY <1>3 DEF Customer, Create, DraftRead, DraftWrite, ResetRead, ResetWrite, HoldRead, HoldWrite, Session,
              AssignRead, AssignCheck, AssignWrite, AppendWrite, SelectRead, SelectWrite, CheckoutRead,
              KeepSeat, CheckHold, Convert, Pending, MakePlan, PayCard, WaitRead, CancelRead, CancelPlan
<1> QED
  BY <1>1, <1>2, <1>3 DEF Kiosks

\* A reservation is made under a key that none has, and keeps it.
LEMMA SlotsStep ==
  ASSUME BookingTypeOK, SlotsApart, Kiosks
  PROVE  SlotsApart'
<1>u. edited' = edited
  BY DEF Kiosks
<1>1. ASSUME NEW m \in Seats, NEW s \in Slots, KeyFree(m, s), seat' = [seat EXCEPT ![m] = NewSeat(s, s)]
      PROVE  SlotsApart'
  <2>1. seat'[m] = NewSeat(s, s) /\ \A t \in Seats \ {m} : seat'[t] = seat[t] /\ seat[t].key # s
    BY <1>1 DEF KeyFree, BookingTypeOK, SeatsOK
  <2>2. NewSeat(s, s).key = s /\ NewSeat(s, s).slot = s /\ s # 0
    BY DEF NewSeat, Slots
  <2> QED
    BY <1>u, <2>1, <2>2 DEF SlotsApart
<1>2. ASSUME \A s \in Seats : /\ seat'[s].key \in {seat[s].key, 0} /\ seat'[s].slot = seat[s].slot
                              /\ seat'[s].status \in Booked => seat[s].status \in Booked /\ seat'[s].key = seat[s].key
      PROVE  SlotsApart'
  BY <1>u, <1>2 DEF SlotsApart
<1>3. ASSUME NEW v \in Visits, Reserve(v) PROVE SlotsApart'
  <2>1. First(v).n \in Games /\ First(v).slot \in Slots
    BY <1>3, FirstIn, ReserveIs DEF BookingTypeOK
  <2>2. CASE seat[<<v, First(v).n>>].status # "none"
    BY <1>2, <1>3, <2>2, ReserveIs
  <2>3. CASE seat[<<v, First(v).n>>].status = "none"
    <3> DEFINE m == <<v, First(v).n>>
               s == First(v).slot
    <3>1. KeyFree(m, s) /\ seat' = [seat EXCEPT ![m] = NewSeat(s, s)] /\ s \in Slots
      BY <1>3, <2>1, <2>3, ReserveIs
    <3>2. m \in Seats
      BY <2>1 DEF Seats
    <3> HIDE DEF m, s
    <3> QED
      BY <1>1, <3>1, <3>2
  <2> QED
    BY <2>2, <2>3
<1>4. ASSUME NEW v \in Visits, MarkPaid(v) PROVE SlotsApart'
  BY <1>2, <1>4 DEF MarkPaid, BookingTypeOK, SeatsOK, SeatRow, Booked
<1>5. ASSUME NEW v \in Visits, NEW approved \in BOOLEAN, CardResult(v, approved) PROVE SlotsApart'
  BY <1>2, <1>5 DEF CardResult, BookingTypeOK, SeatsOK, SeatRow
<1>6. ASSUME NEW v \in Visits, CancelRows(v) PROVE SlotsApart'
  <2>1. PICK C : seat' = [s \in Seats |-> IF s \in C THEN [seat[s] EXCEPT !.status = "cancelled", !.key = 0]
                                          ELSE seat[s]]
    BY <1>6 DEF CancelRows
  <2> QED
    BY <1>2, <2>1 DEF BookingTypeOK, SeatsOK, SeatRow, Booked
<1>7. ASSUME NEW w \in Web, WebBook(w) PROVE SlotsApart'
  <2>1. KeyFree(w, WebSlot[w]) /\ w \in Seats /\ WebSlot[w] \in Slots
        /\ seat' = [seat EXCEPT ![w] = NewSeat(WebSlot[w], WebSlot[w])]
    BY <1>7, BookingConstants DEF WebBook, Seats
  <2> QED
    BY <1>1, <2>1
<1>8. UNCHANGED seat => SlotsApart'
  BY <1>u DEF SlotsApart
<1> QED
  BY <1>3, <1>4, <1>5, <1>6, <1>7, <1>8, SeatWriters

\* The calendar takes a canonical key only if it is free: the index refuses it
\* else, however old the look at the slot.
LEMMA DeskSlots ==
  ASSUME BookingTypeOK, SlotsApart, NEW s \in Seats, Desk(s)
  PROVE  SlotsApart'
<1>1. /\ \A t \in Seats \ {s} : seat'[t] = seat[t]
      /\ edited \subseteq edited' /\ (seat'[s] = seat[s] \/ s \in edited')
  BY DeskWrites
<1>2. \/ seat'[s].key \in {seat[s].key, 0}
      \/ \A t \in Seats \ {s} : seat[t].key # seat'[s].key
  <2>1. seat[s] \in SeatRow
    BY DEF BookingTypeOK, SeatsOK
  <2>2. ASSUME NEW from, NEW to, StaffSets(s, from, to) PROVE seat'[s].key \in {seat[s].key, 0}
    <3>1. seat'[s] = [seat[s] EXCEPT !.status = to, !.key = IF to \in Closed THEN 0 ELSE seat[s].key]
      BY <2>2 DEF StaffSets, BookingTypeOK, SeatsOK
    <3> QED
      BY <2>1, <3>1 DEF SeatRow
  <2>3. CASE StaffArrives(s) \/ StaffUndoes(s) \/ StaffCompletes(s) \/ StaffCancels(s)
    BY <2>2, <2>3 DEF StaffArrives, StaffUndoes, StaffCompletes, StaffCancels
  <2>4. CASE StaffSettles(s)
    BY <2>1, <2>4 DEF StaffSettles, BookingTypeOK, SeatsOK, SeatRow
  <2>5. CASE EditWrite(s) /\ ~UNCHANGED <<seat, edited>>
    <3>1. seat'[s] = IF desk[s].op = "create" THEN NewSeat(desk[s].to, desk[s].key)
                     ELSE [seat[s] EXCEPT !.slot = desk[s].to, !.key = desk[s].key]
      BY <2>5 DEF EditWrite, BookingTypeOK, SeatsOK
    <3>2. seat'[s].key = desk[s].key
      BY <2>1, <3>1 DEF SeatRow, NewSeat
    <3>3. desk[s].key # 0 => KeyFree(s, desk[s].key)
      BY <2>5 DEF EditWrite
    <3> QED
      BY <3>2, <3>3 DEF KeyFree
  <2>6. CASE UNCHANGED seat
    BY <2>6
  <2>7. CASE EditLook(s) \/ EditDropped(s) \/ \E op \in Edits, to \in Slots \cup {0} : EditAsk(s, op, to)
    BY <2>6, <2>7 DEF EditLook, EditDropped, EditAsk
  <2> QED
    BY <2>3, <2>4, <2>5, <2>6, <2>7 DEF Desk
<1>3. ASSUME NEW t \in Seats, NEW x \in Seats, t # x, seat'[t].key = seat'[x].key PROVE seat'[t].key = 0
  BY <1>1, <1>2, <1>3 DEF SlotsApart
<1>4. ASSUME NEW t \in Seats \ edited', seat'[t].status \in Booked
      PROVE  seat'[t].key = seat'[t].slot /\ seat'[t].slot # 0
  <2>1. seat'[t] = seat[t] /\ t \notin edited
    BY <1>1, <1>4
  <2> QED
    BY <1>4, <2>1 DEF SlotsApart
<1> QED
  BY <1>3, <1>4 DEF SlotsApart

\* A game is written with the party of the draft it was assigned for.
LEMMA PriceStep ==
  ASSUME BookingTypeOK, PricedForParty, Kiosks
  PROVE  PricedForParty'
<1>0. UNCHANGED game => PricedForParty'
  BY DEF PricedForParty
<1> SUFFICES ASSUME NEW v \in Visits,
                    \/ \E k \in Games : GameExpires(v, k)
                    \/ ResetWrite(v) \/ AssignWrite(v) \/ AppendWrite(v)
                    \/ Reserve(v) \/ MarkPaid(v) \/ CancelRows(v)
             PROVE  PricedForParty'
  BY <1>0, SeatWriters
<1> DEFINE Fits(g) == g.base = g.party
<1>1. \A u \in Visits, n \in Games : game[u][n].status # "NONE" => Fits(game[u][n])
  BY DEF PricedForParty
<1>2. Fits(Ended)
  BY EndedRow
<1>3. ASSUME \A u \in Visits \ {v} : game'[u] = game[u],
             \A n \in Games : \/ game'[v][n].status # "NONE" => Fits(game'[v][n])
                             \/ game'[v][n] = game[v][n]
      PROVE  PricedForParty'
  BY <1>1, <1>3 DEF PricedForParty
<1>4. \A u \in Visits \ {v} : game'[u] = game[u]
  BY ReserveIs DEF GameExpires, ResetWrite, AssignWrite, AppendWrite, MarkPaid, CancelRows, EndGames,
                   BookingTypeOK, GamesOK
<1> SUFFICES ASSUME NEW n \in Games
             PROVE  \/ game'[v][n].status # "NONE" => Fits(game'[v][n])
                    \/ game'[v][n] = game[v][n]
  BY <1>3, <1>4
<1>5. game[v] \in [Games -> GameRow] /\ game \in [Visits -> [Games -> GameRow]]
  BY DEF BookingTypeOK, GamesOK
<1>6. CASE \E k \in Games : GameExpires(v, k)
  BY <1>2, <1>5, <1>6 DEF GameExpires
<1>7. ASSUME NEW S, EndGames(v, S) PROVE game'[v][n] = Ended \/ game'[v][n] = game[v][n]
  BY <1>5, <1>7 DEF EndGames
<1>8. CASE ResetWrite(v) \/ CancelRows(v)
  BY <1>2, <1>7, <1>8 DEF ResetWrite, CancelRows
<1>9. CASE AssignWrite(v)
  <2>1. Fits(NewGame(v, FALSE))
    BY <1>9 DEF AssignWrite, SameDraft, NewGame
  <2>2. game'[v][n] = NewGame(v, FALSE) \/ game'[v][n] = Ended \/ game'[v][n] = game[v][n]
    BY <1>5, <1>9 DEF AssignWrite
  <2> QED
    BY <1>2, <2>1, <2>2
<1>10. CASE AppendWrite(v)
  <2>1. Fits(NewGame(v, TRUE))
    BY <1>10 DEF AppendWrite, SameDraft, NewGame
  <2>2. game'[v][n] = NewGame(v, TRUE) \/ game'[v][n] = game[v][n]
    BY <1>5, <1>10 DEF AppendWrite
  <2> QED
    BY <2>1, <2>2
<1>11. CASE Reserve(v)
  <2>1. \/ game'[v][n] = game[v][n]
        \/ game[v][n].status # "NONE" /\ game'[v][n] = [game[v][n] EXCEPT !.status = "RESERVED", !.keyed = FALSE]
    <3>1. PICK m \in Games : m = First(v).n
      BY <1>11, FirstIn, ReserveIs DEF BookingTypeOK
    <3>2. game' = IF game[v][m].status = "NONE" THEN game
                  ELSE [game EXCEPT ![v][m] = [game[v][m] EXCEPT !.status = "RESERVED", !.keyed = FALSE]]
      BY <1>11, <3>1, ReserveIs
    <3>3. CASE game[v][m].status = "NONE"
      <4>1. game' = game
        BY <3>2, <3>3
      <4> QED
        BY <4>1
    <3>4. CASE game[v][m].status # "NONE"
      <4> DEFINE g == [game[v][m] EXCEPT !.status = "RESERVED", !.keyed = FALSE]
      <4>1. game' = [game EXCEPT ![v][m] = g]
        BY <3>2, <3>4
      <4> HIDE DEF g
      <4>2. game'[v][n] = IF n = m THEN g ELSE game[v][n]
        BY <1>5, <4>1
      <4>3. n = m => g = [game[v][n] EXCEPT !.status = "RESERVED", !.keyed = FALSE]
        BY DEF g
      <4> QED
        BY <3>4, <4>2, <4>3
    <3> QED
      BY <3>3, <3>4
  <2>2. game[v][n].status # "NONE" => Fits([game[v][n] EXCEPT !.status = "RESERVED", !.keyed = FALSE])
    BY <1>1, <1>5 DEF GameRow
  <2>3. CASE game[v][n].status # "NONE" /\ game'[v][n] # game[v][n]
    BY <2>1, <2>2, <2>3
  <2> QED
    BY <2>1, <2>3
<1>12. CASE MarkPaid(v)
  <2>1. PICK x : game'[v][n] = IF game[v][n].status # "RESERVED" THEN game[v][n]
                               ELSE [game[v][n] EXCEPT !.status = x]
    BY <1>5, <1>12 DEF MarkPaid
  <2>2. game[v][n].status # "NONE" => Fits([game[v][n] EXCEPT !.status = x])
    BY <1>1, <1>5 DEF GameRow
  <2>3. CASE game[v][n].status = "RESERVED"
    BY <2>1, <2>2, <2>3
  <2> QED
    BY <2>1, <2>3
<1> QED
  BY <1>6, <1>8, <1>9, <1>10, <1>11, <1>12

-----------------------------------------------------------------------------
(* The invariant, and what it says of the bookings.                          *)

\* The first state has nothing booked.
LEMMA BookingStart ==
  ASSUME BookingInit
  PROVE  IInv
<1>1. BookingTypeOK
  <2>1. VisitsOK /\ HoldsOK
    BY BookingConstants DEF BookingInit, VisitsOK, VisitRow, HoldsOK
  <2>2. GamesOK
    BY EndedRow DEF BookingInit, GamesOK, NoGame
  <2>3. SeatsOK /\ PlansOK
    BY DEF BookingInit, SeatsOK, SeatRow, PlansOK, NoPlan
  <2>4. RequestsOK /\ DraftsOK /\ DeskOK
    BY DEF BookingInit, RequestsOK, Request, DraftsOK, DraftRequest, DeskOK, DeskRequest, Idle
  <2> QED
    BY <2>1, <2>2, <2>3, <2>4 DEF BookingTypeOK
<1>2. SlotsApart
  BY DEF BookingInit, SlotsApart, Booked
<1>3. VisitInv
  <2> SUFFICES ASSUME NEW v \in Visits PROVE OwnInv(v)
    BY DEF VisitInv
  <2>1. RowInv(v)
    BY BookingConstants DEF BookingInit, RowInv, NoGame, Seats
  <2>2. ReqInv(v)
    BY DEF BookingInit, ReqInv, Idle
  <2>3. \A n \in Games : seat[<<v, n>>].status = "none" /\ ~seat[<<v, n>>].paid
    BY Apart DEF BookingInit
  <2>4. PlanInv(v) /\ GoneInv(v)
    BY <2>3 DEF BookingInit, PlanInv, GoneInv, NoPlan, Reached, Closed
  <2> QED
    BY <2>1, <2>2, <2>4 DEF OwnInv
<1>4. PricedForParty
  BY DEF BookingInit, PricedForParty, NoGame
<1> QED
  BY <1>1, <1>2, <1>3, <1>4 DEF IInv

\* The invariant of the booking, for any number of kiosks, slots and games.
THEOREM BookingInvariant == BookingSpec => []IInv
<1>1. BookingInit => IInv
  BY BookingStart
<1>2. IInv /\ [BookingNext]_bvars => IInv'
  <2> SUFFICES ASSUME IInv, [BookingNext]_bvars PROVE IInv'
    OBVIOUS
  <2> USE DEF IInv
  <2>1. CASE Kiosks
    <3>1. BookingTypeOK' /\ VisitInv'
      BY <2>1, TypeStep, VisitStep
    <3>2. SlotsApart' /\ PricedForParty'
      BY <2>1, SlotsStep, PriceStep
    <3> QED
      BY <3>1, <3>2
  <2>2. ASSUME NEW s \in Seats, Desk(s) PROVE IInv'
    <3>1. BookingTypeOK' /\ SlotsApart'
      BY <2>2, DeskTypes, DeskSlots
    <3>2. VisitInv'
      BY <2>2, DeskKeeps DEF VisitInv
    <3>3. PricedForParty'
      BY <2>2, DeskWrites DEF PricedForParty
    <3> QED
      BY <3>1, <3>2, <3>3
  <2>3. CASE UNCHANGED bvars
    <3>1. BookingTypeOK'
      BY <2>3, Unwritten DEF bvars, BookingTypeOK
    <3>2. VisitInv'
      BY <2>3, Elsewhere DEF bvars, VisitInv, OwnInv, Untouched
    <3> QED
      BY <2>3, <3>1, <3>2 DEF bvars, SlotsApart, PricedForParty
  <2> QED
    BY <2>1, <2>2, <2>3 DEF BookingNext
<1> QED
  BY <1>1, <1>2, PTL DEF BookingSpec

\* Types are kept.
THEOREM BookingTypeCorrect == BookingSpec => []BookingTypeOK
<1>1. IInv => BookingTypeOK
  BY DEF IInv
<1> QED
  BY <1>1, BookingInvariant, PTL

\* What is paid or being paid at a kiosk stands, in a slot that no other customer
\* has, unless the staff's calendar changed a row of the visit.
THEOREM PaidSeatStands == BookingSpec => []PaidHasSeat
<1>1. ASSUME IInv PROVE PaidHasSeat
  <2> USE <1>1 DEF IInv
  <2> SUFFICES ASSUME NEW v \in Visits, plan[v].status \in {"processing", "paid"}, Untouched(v),
                      NEW s \in plan[v].seats \ Web
               PROVE  /\ seat[s].status \in Booked
                      /\ \A t \in Seats \ ({s} \cup edited) : seat[t].status \in Booked => seat[t].slot # seat[s].slot
    BY DEF PaidHasSeat
  <2>1. PICK n \in Games : s = <<v, n>>
    BY DEF VisitInv, OwnInv, PlanInv, Reached, Reach
  <2>2. s \in Seats \ edited /\ seat[s].status # "none"
    BY <2>1 DEF Seats, VisitInv, OwnInv, PlanInv, Reached, Made, Untouched
  <2>3. seat[s].status \notin Closed
    BY <2>1 DEF VisitInv, OwnInv, GoneInv
  <2>4. seat[s].status \in Booked
    BY <2>2, <2>3 DEF BookingTypeOK, SeatsOK, SeatRow
  <2> QED
    BY <2>2, <2>4 DEF SlotsApart
<1> QED
  BY <1>1, BookingInvariant, PTL

\* Each game is priced for the party it is booked for.
THEOREM PricedAsBooked == BookingSpec => []PricedForParty
<1>1. IInv => PricedForParty
  BY DEF IInv
<1> QED
  BY <1>1, BookingInvariant, PTL

-----------------------------------------------------------------------------
\* A confirmation of the staff that waits to mark the visit was booked.
Confirmed == ask["staff"].pc = "confirmed" => bill[ask["staff"].v] = "paid"
\* A visit has the games it pays, and no other.
RoundsPaid == \A v \in Guests, n \in Rounds : round[v][n] = "NONE" <=> n > Paid[v]
\* The games are released together: while one is reserved, none waits, and the
\* visit is at its first.
Released ==
  \A v \in Guests : \/ \A n \in Rounds : round[v][n] # "RESERVED"
                    \/ trip[v].cur = 1 /\ \A n \in Rounds : round[v][n] # "PAID_WAITING"
\* A visit never goes back behind the game that a request read.
Behind ==
  \A a \in Guests \cup {"staff"} : ask[a] # NoAsk => ask[a].n <= trip[ask[a].v].cur
\* A stamp is booked under the key of the reservation it is for.
Keyed == \A e \in ledger : e = [key |-> SeatKey(e.seat[1], e.seat[2]), seat |-> e.seat]

MoneyInv == PaidBeforePlay /\ Confirmed
OrderInv == GamesInOrder /\ RoundsPaid /\ Released /\ Behind
GInv == GameTypeOK /\ MoneyInv /\ OrderInv /\ Keyed

-----------------------------------------------------------------------------
(* The games and the requests.                                             *)

\* Games are counted from one, without a gap.
LEMMA RoundsAre ==
  /\ Rounds \subseteq Nat \ {0} /\ 1 \in Rounds
  /\ \A n \in Rounds, k \in Nat \ {0} : k <= n => k \in Rounds
<1>1. \A v \in Guests : Paid[v] \in Nat
  BY GameConstants
<1>2. Rounds \subseteq Nat \ {0} /\ 1 \in Rounds
  BY <1>1 DEF Rounds
<1>3. ASSUME NEW n \in Rounds, NEW k \in Nat \ {0}, k <= n PROVE k \in Rounds
  <2>1. CASE n = 1
    BY <1>3, <2>1 DEF Rounds
  <2>2. CASE n # 1
    <3>1. PICK v \in Guests : n \in 1..Paid[v]
      BY <2>2 DEF Rounds
    <3>2. k \in 1..Paid[v]
      BY <1>1, <1>3, <3>1
    <3> QED
      BY <3>2 DEF Rounds
  <2> QED
    BY <2>1, <2>2
<1> QED
  BY <1>2, <1>3

\* A screen's, the staff's and the bridge's request say what they are by their pc.
LEMMA AskIs ==
  ASSUME AsksOK
  PROVE  /\ \A v \in Guests : ask[v] # NoAsk \/ ask[v].pc # "idle" =>
              /\ ask[v] \in [pc : {"card", "wait", "start"}, v : Guests, n : Rounds] /\ ask[v].v = v
         /\ ask["staff"] # NoAsk \/ ask["staff"].pc # "idle" =>
              ask["staff"] \in [pc : {"review", "confirm", "confirmed", "prepare", "reinput", "reentered",
                                     "stop", "terminate"}, v : Guests, n : Rounds]
         /\ NoAsk.pc = "idle"
<1>1. NoAsk.pc = "idle"
  BY DEF NoAsk
<1> QED
  BY <1>1 DEF AsksOK, ScreenAsk, StaffAsk

\* And so does the bridge's.
LEMMA BridgeIs ==
  ASSUME AsksOK
  PROVE  /\ Bridge.pc = "result" =>
              Bridge \in [pc : {"result", "report"}, act : Acts, v : Guests, ok : BOOLEAN, next : Phases, team : Teams]
         /\ Bridge.pc \in {"result", "report", "visit", "seat"} => Bridge.next \in Phases /\ Bridge.team \in Teams
         /\ Bridge.pc \in {"visit", "seat"} =>
              Bridge \in [pc : {"visit", "seat"}, prev : Phases, next : Phases, team : Teams]
  BY DEF AsksOK, BridgeAsk, Bridge, NoAsk

\* The table of requests.
LEMMA AskWritten ==
  ASSUME AsksOK, NEW a \in Guests \cup {"staff", "bridge"}, NEW t, ask' = [ask EXCEPT ![a] = t],
         a \in Guests => t \in ScreenAsk /\ (t # NoAsk => t.v = a),
         a = "staff" => t \in StaffAsk, a = "bridge" => t \in BridgeAsk
  PROVE  AsksOK'
<1>1. "staff" \notin Guests /\ "bridge" \notin Guests
  BY GameConstants
<1> QED
  BY <1>1 DEF AsksOK

\* A request that reads keeps the visit and its game.
LEMMA ReadsIs ==
  ASSUME GameTypeOK, NEW a, NEW v \in Guests, NEW S, NEW pc, Reads(a, v, S, pc),
         \/ a = v /\ pc \in {"card", "wait", "start"}
         \/ /\ a = "staff"
            /\ pc \in {"review", "confirm", "confirmed", "prepare", "reinput", "reentered", "stop", "terminate"}
  PROVE  AsksOK'
<1> DEFINE t == [pc |-> pc, v |-> v, n |-> trip[v].cur]
<1>1. trip[v].cur \in Rounds
  BY DEF GameTypeOK, TablesOK
<1>2. "staff" \notin Guests
  BY GameConstants
<1>3. a \in Guests => t \in ScreenAsk /\ t.v = a
  BY <1>1, <1>2 DEF ScreenAsk
<1>4. a = "staff" => t \in StaffAsk
  BY <1>1, <1>2 DEF StaffAsk
<1>5. ask' = [ask EXCEPT ![a] = t] /\ a \in Guests \cup {"staff", "bridge"} /\ a # "bridge"
  BY GameConstants DEF Reads
<1> HIDE DEF t
<1> QED
  BY <1>3, <1>4, <1>5, AskWritten DEF GameTypeOK

\* An answered request is gone.
LEMMA AnsweredIs ==
  ASSUME AsksOK, NEW a \in Guests \cup {"staff", "bridge"}, Answered(a)
  PROVE  AsksOK'
<1>1. NoAsk \in ScreenAsk /\ NoAsk \in StaffAsk /\ NoAsk \in BridgeAsk
  BY DEF ScreenAsk, StaffAsk, BridgeAsk
<1> QED
  BY <1>1, AskWritten DEF Answered

\* The requests of the staff and of the bridge go on.
LEMMA StaffMoves ==
  ASSUME AsksOK, ask["staff"].pc # "idle", NEW pc \in {"confirmed", "reentered"}, Moves("staff", pc)
  PROVE  AsksOK'
<1> DEFINE S == [pc : {"review", "confirm", "confirmed", "prepare", "reinput", "reentered", "stop", "terminate"},
                 v : Guests, n : Rounds]
           t == [ask["staff"] EXCEPT !.pc = pc]
<1>1. ask["staff"] \in S
  BY AskIs
<1>2. t \in S
  BY <1>1
<1>3. ask' = [ask EXCEPT !["staff"] = t] /\ "staff" \notin Guests
  BY GameConstants DEF Moves, AsksOK
<1> HIDE DEF t
<1>4. t \in StaffAsk
  BY <1>2 DEF StaffAsk
<1> QED
  BY <1>3, <1>4, AskWritten

\* The bridge goes on from the result of a command to its report, and from the
\* visit of the room to its reservation.
LEMMA BridgeMoves ==
  ASSUME AsksOK, \/ Bridge.pc = "result" /\ Moves("bridge", "report")
                 \/ Bridge.pc = "visit" /\ Moves("bridge", "seat")
  PROVE  AsksOK'
<1>1. "bridge" \notin Guests
  BY GameConstants
<1>2. CASE Bridge.pc = "result" /\ Moves("bridge", "report")
  <2> DEFINE S == [pc : {"result", "report"}, act : Acts, v : Guests, ok : BOOLEAN, next : Phases, team : Teams]
             t == [ask["bridge"] EXCEPT !.pc = "report"]
  <2>1. ask["bridge"] \in S
    BY <1>2, BridgeIs DEF Bridge
  <2>2. t \in S /\ ask' = [ask EXCEPT !["bridge"] = t]
    BY <1>2, <2>1 DEF Moves, AsksOK
  <2> HIDE DEF t
  <2>3. t \in BridgeAsk
    BY <2>2 DEF BridgeAsk
  <2> QED
    BY <1>1, <2>2, <2>3, AskWritten
<1>3. CASE Bridge.pc = "visit" /\ Moves("bridge", "seat")
  <2> DEFINE S == [pc : {"visit", "seat"}, prev : Phases, next : Phases, team : Teams]
             t == [ask["bridge"] EXCEPT !.pc = "seat"]
  <2>1. ask["bridge"] \in S
    BY <1>3, BridgeIs DEF Bridge
  <2>2. t \in S /\ ask' = [ask EXCEPT !["bridge"] = t]
    BY <1>3, <2>1 DEF Moves, AsksOK
  <2> HIDE DEF t
  <2>3. t \in BridgeAsk
    BY <2>2 DEF BridgeAsk
  <2> QED
    BY <1>1, <2>2, <2>3, AskWritten
<1> QED
  BY <1>2, <1>3

\* What the bridge has to tell.
LEMMA BridgeTells ==
  ASSUME GameTypeOK, AckArrives \/ SyncSent \/ Report
  PROVE  AsksOK'
<1>1. "bridge" \notin Guests
  BY GameConstants
<1>2. real.status \in Phases /\ real.team \in Teams /\ seen \in Phases
  BY DEF GameTypeOK, RoomOK
<1>3. CASE AckArrives
  <2> DEFINE t == [pc |-> "result", act |-> cmd.act, v |-> cmd.v, ok |-> cmd.ok, next |-> real.status, team |-> real.team]
  <2>1. cmd \in [status : {"run"}, act : Acts, v : Guests, ok : BOOLEAN]
    BY <1>3 DEF AckArrives, GameTypeOK, RoomOK
  <2>2. t \in BridgeAsk
    BY <1>2, <2>1 DEF BridgeAsk
  <2>3. ask' = [ask EXCEPT !["bridge"] = t]
    BY <1>3 DEF AckArrives
  <2> HIDE DEF t
  <2> QED
    BY <1>1, <2>2, <2>3, AskWritten DEF GameTypeOK
<1>4. CASE SyncSent
  <2> DEFINE t == [pc |-> "report", next |-> real.status, team |-> real.team]
  <2>1. t \in BridgeAsk
    BY <1>2 DEF BridgeAsk
  <2>2. ask' = [ask EXCEPT !["bridge"] = t]
    BY <1>4 DEF SyncSent
  <2> HIDE DEF t
  <2> QED
    BY <1>1, <2>1, <2>2, AskWritten DEF GameTypeOK
<1>5. CASE Report
  <2> DEFINE t == [pc |-> "visit", prev |-> seen, next |-> ask["bridge"].next, team |-> ask["bridge"].team]
  <2>1. ask["bridge"].next \in Phases /\ ask["bridge"].team \in Teams
    BY <1>5, BridgeIs DEF Report, Bridge, GameTypeOK
  <2>2. t \in BridgeAsk
    BY <1>2, <2>1 DEF BridgeAsk
  <2>3. ask' = [ask EXCEPT !["bridge"] = t]
    BY <1>5 DEF Report, GameTypeOK, AsksOK
  <2> HIDE DEF t
  <2> QED
    BY <1>1, <2>2, <2>3, AskWritten DEF GameTypeOK
<1> QED
  BY <1>3, <1>4, <1>5

\* Every step leaves requests that their handlers know.
LEMMA AsksStep ==
  ASSUME GameTypeOK, GameNext
  PROVE  AsksOK'
<1>1. AsksOK /\ (UNCHANGED ask => AsksOK')
  BY DEF GameTypeOK, AsksOK
<1>2. ASSUME NEW v \in Guests, Guest(v) PROVE AsksOK'
  <2>1. CardRead(v) \/ WaitAsk(v) \/ StartRead(v) => AsksOK'
    BY ReadsIs DEF CardRead, WaitAsk, StartRead
  <2>2. CardWrite(v) \/ WaitPaid(v) \/ WaitUnknown(v) \/ StartQueue(v) => AsksOK'
    BY <1>1, AnsweredIs DEF CardWrite, WaitPaid, WaitUnknown, StartQueue
  <2>3. WaitForStaff(v) \/ Settle(v) \/ (\E result \in {"paid", "pending", "unknown"} : CardAnswer(v, result)) => AsksOK'
    BY <1>1 DEF WaitForStaff, Settle, CardAnswer
  <2> QED
    BY <1>2, <2>1, <2>2, <2>3 DEF Guest
<1>3. CASE Operator
  <2>1. ASSUME NEW v \in Guests, ReviewRead(v) \/ ConfirmRead(v) \/ PrepareRead(v)
               \/ ReinputRead(v) \/ StopRead(v) \/ TerminateRead(v)
        PROVE  AsksOK'
    BY <2>1, ReadsIs DEF ReviewRead, ConfirmRead, PrepareRead, ReinputRead, StopRead, TerminateRead
  <2>2. ReviewWrite \/ ConfirmMark \/ PrepareQueue \/ ReinputWrite \/ StopQueue \/ TerminateWrite => AsksOK'
    BY <1>1, AnsweredIs DEF ReviewWrite, ConfirmMark, PrepareQueue, ReinputWrite, StopQueue, TerminateWrite
  <2>3. ConfirmBook \/ ReinputQueue => AsksOK'
    BY <1>1, StaffMoves DEF ConfirmBook, ReinputQueue, Staff
  <2> QED
    BY <1>3, <2>1, <2>2, <2>3 DEF Operator
<1>4. CASE Room
  BY <1>1, <1>4 DEF Room, Run, CommandEnds, StartByHand, GameEnds, StopForgotten
<1>5. CASE Server
  <2>1. AckArrives \/ SyncSent \/ Report => AsksOK'
    BY BridgeTells
  <2>2. AckResult \/ NoVisit => AsksOK'
    BY <1>1, BridgeMoves DEF AckResult, NoVisit
  <2>3. ASSUME NEW v \in Guests, Plays(v) \/ Ends(v) PROVE AsksOK'
    BY <1>1, <2>3, BridgeMoves DEF Plays, Ends
  <2>4. AutoComplete \/ ReportDone => AsksOK'
    BY <1>1, AnsweredIs DEF AutoComplete, ReportDone
  <2>5. ASSUME NEW a \in DOMAIN ask, Lost(a) PROVE AsksOK'
    BY <1>1, <2>5, AnsweredIs DEF Lost, AsksOK
  <2> QED
    BY <1>5, <2>1, <2>2, <2>3, <2>4, <2>5 DEF Server
<1> QED
  BY <1>2, <1>3, <1>4, <1>5 DEF GameNext

-----------------------------------------------------------------------------
(* Who writes the tables.                                                  *)

\* The handlers that write only a status; the staff may send a visit on that is
\* not paid, and it is remembered.
Statuses == {"PAYMENT_PENDING", "WAITING_STAFF_CONFIRMATION", "STAFF_REVIEW", "PREPARING", "ABANDONED"}
StatusOnly(v, status) ==
  /\ SetStatus(v, status) /\ UNCHANGED tables
  /\ status = "PREPARING" => bill[v] = "paid" \/ v \in over'
\* The handlers that mark a visit as paid know that it is.
MarkedBy(a) ==
  /\ \/ a \in Guests /\ ask[a].pc = "wait" /\ bill[a] = "paid"
     \/ a = "staff" /\ ask[a].pc = "confirmed"
  /\ MarkAfterPayment(ask[a].v, ask[a].n)
\* The visits and their games are written by nobody else.
LEMMA Writers ==
  ASSUME GameTypeOK, GameNext
  PROVE  \/ UNCHANGED <<trip, tables>>
         \/ \E v \in Guests, status \in Statuses : StatusOnly(v, status)
         \/ \E a \in Guests \cup {"staff"} : MarkedBy(a)
         \/ AckResult \/ AutoComplete
         \/ \E v \in Guests : Plays(v) \/ Ends(v)
<1> DEFINE P == \/ UNCHANGED <<trip, tables>>
                \/ \E v \in Guests, status \in Statuses : StatusOnly(v, status)
                \/ \E a \in Guests \cup {"staff"} : MarkedBy(a)
                \/ AckResult \/ AutoComplete
                \/ \E v \in Guests : Plays(v) \/ Ends(v)
<1> SUFFICES P
  OBVIOUS
<1>1. ASSUME NEW v \in Guests, NEW status \in Statuses, StatusOnly(v, status) PROVE P
  BY <1>1
<1>2. ASSUME NEW a \in Guests \cup {"staff"}, MarkedBy(a) PROVE P
  BY <1>2
<1>3. UNCHANGED <<trip, tables>> => P
  OBVIOUS
<1>4. AckResult \/ AutoComplete \/ (\E v \in Guests : Plays(v) \/ Ends(v)) => P
  OBVIOUS
<1>5. AsksOK
  BY DEF GameTypeOK
<1> HIDE DEF P
<1>6. ASSUME NEW v \in Guests, Guest(v) PROVE P
  <2>1. CardRead(v) \/ WaitAsk(v) \/ StartRead(v) \/ StartQueue(v) \/ Settle(v)
        \/ (\E result \in {"paid", "pending", "unknown"} : CardAnswer(v, result)) => P
    BY <1>3 DEF CardRead, WaitAsk, StartRead, Reads, StartQueue, Settle, CardAnswer
  <2>2. CASE CardWrite(v)
    <3>1. StatusOnly(v, "PAYMENT_PENDING")
      BY <2>2 DEF CardWrite, StatusOnly
    <3> QED
      BY <1>1, <3>1 DEF Statuses
  <2>3. CASE WaitForStaff(v)
    <3>1. StatusOnly(v, "WAITING_STAFF_CONFIRMATION")
      BY <2>3 DEF WaitForStaff, StatusOnly
    <3> QED
      BY <1>1, <3>1 DEF Statuses
  <2>4. CASE WaitUnknown(v)
    <3>1. StatusOnly(v, "STAFF_REVIEW")
      BY <2>4 DEF WaitUnknown, StatusOnly
    <3> QED
      BY <1>1, <3>1 DEF Statuses
  <2>5. CASE WaitPaid(v)
    <3>1. ask[v].v = v
      BY <1>5, <2>5, AskIs DEF WaitPaid
    <3>2. MarkedBy(v)
      BY <2>5, <3>1 DEF WaitPaid, MarkedBy
    <3> QED
      BY <1>2, <3>2
  <2> QED
    BY <1>6, <2>1, <2>2, <2>3, <2>4, <2>5 DEF Guest
<1>7. CASE Operator
  <2>1. ASSUME NEW v \in Guests, ReviewRead(v) \/ ConfirmRead(v) \/ PrepareRead(v)
               \/ ReinputRead(v) \/ StopRead(v) \/ TerminateRead(v)
        PROVE  P
    BY <1>3, <2>1 DEF ReviewRead, ConfirmRead, PrepareRead, ReinputRead, StopRead, TerminateRead, Reads
  <2>2. ConfirmBook \/ PrepareQueue \/ ReinputQueue \/ StopQueue => P
    BY <1>3 DEF ConfirmBook, PrepareQueue, ReinputQueue, StopQueue
  <2>3. ReviewWrite \/ ReinputWrite \/ TerminateWrite => Asked \in Guests
    BY <1>5, AskIs DEF ReviewWrite, ReinputWrite, TerminateWrite, Staff, Asked
  <2>4. CASE ReviewWrite
    <3>1. StatusOnly(Asked, "STAFF_REVIEW")
      BY <2>4 DEF ReviewWrite, StatusOnly
    <3> QED
      BY <1>1, <2>3, <2>4, <3>1 DEF Statuses
  <2>5. CASE ReinputWrite
    <3>1. StatusOnly(Asked, "PREPARING")
      BY <2>5 DEF ReinputWrite, StatusOnly
    <3> QED
      BY <1>1, <2>3, <2>5, <3>1 DEF Statuses
  <2>6. CASE TerminateWrite
    <3>1. StatusOnly(Asked, "ABANDONED")
      BY <2>6 DEF TerminateWrite, StatusOnly
    <3> QED
      BY <1>1, <2>3, <2>6, <3>1 DEF Statuses
  <2>7. CASE ConfirmMark
    <3>1. MarkedBy("staff")
      BY <2>7 DEF ConfirmMark, MarkedBy, Staff, Asked
    <3> QED
      BY <1>2, <3>1
  <2> QED
    BY <1>7, <2>1, <2>2, <2>4, <2>5, <2>6, <2>7 DEF Operator
<1>8. CASE Room
  BY <1>3, <1>8 DEF Room, Run, CommandEnds, StartByHand, GameEnds, StopForgotten
<1>9. CASE Server
  <2>1. AckArrives \/ SyncSent \/ Report \/ NoVisit \/ ReportDone \/ (\E a \in DOMAIN ask : Lost(a)) => P
    BY <1>3 DEF AckArrives, SyncSent, Report, NoVisit, ReportDone, Lost
  <2> QED
    BY <1>4, <1>9, <2>1 DEF Server
<1> QED
  BY <1>6, <1>7, <1>8, <1>9 DEF GameNext

\* A write of the status keeps the game that the visit points to.
LEMMA StatusIs ==
  ASSUME TablesOK, NEW v \in Guests, NEW status \in TripStates, SetStatus(v, status)
  PROVE  /\ trip' \in [Guests -> [status : TripStates, cur : Rounds]]
         /\ trip'[v].status = status /\ \A u \in Guests : trip'[u].cur = trip[u].cur
         /\ \A u \in Guests \ {v} : trip'[u] = trip[u]
<1> DEFINE t == [trip[v] EXCEPT !.status = status]
<1>1. trip[v] \in [status : TripStates, cur : Rounds]
  BY DEF TablesOK
<1>2. t \in [status : TripStates, cur : Rounds] /\ t.status = status /\ t.cur = trip[v].cur
  BY <1>1
<1>3. trip' = [trip EXCEPT ![v] = t]
  BY DEF SetStatus, TablesOK
<1> HIDE DEF t
<1> QED
  BY <1>2, <1>3 DEF TablesOK

\* A visit that is marked as paid is prepared; its games are released.
LEMMA MarkIs ==
  ASSUME TablesOK, NEW v \in Guests, NEW n \in Rounds, MarkAfterPayment(v, n)
  PROVE  /\ trip' \in [Guests -> [status : TripStates, cur : Rounds]]
         /\ trip'[v].status = "PREPARING" /\ \A u \in Guests : trip'[u].cur = trip[u].cur
         /\ \A u \in Guests \ {v} : trip'[u] = trip[u] /\ round'[u] = round[u]
         /\ round' \in [Guests -> [Rounds -> RoundStates]]
         /\ \A m \in Rounds : round'[v][m] = IF round[v][m] # "RESERVED" THEN round[v][m]
                                          ELSE IF m = n THEN "PREPARING" ELSE "PAID_WAITING"
         /\ row' \in [Guests -> [Rounds -> {"none", "booked", "arrived", "completed"}]]
         /\ UNCHANGED <<alloc, ledger>>
<1>1. "PREPARING" \in TripStates /\ "PREPARING" \in RoundStates /\ "PAID_WAITING" \in RoundStates
  BY DEF TripStates, RoundStates, OnTheWay
<1>2. SetStatus(v, "PREPARING")
  BY DEF MarkAfterPayment
<1> DEFINE g == [m \in Rounds |-> IF round[v][m] # "RESERVED" THEN round[v][m]
                                 ELSE IF m = n THEN "PREPARING" ELSE "PAID_WAITING"]
<1>3. round' = [round EXCEPT ![v] = g]
  BY DEF MarkAfterPayment, TablesOK
<1>4. g \in [Rounds -> RoundStates]
  BY <1>1 DEF TablesOK
<1>5. row' \in [Guests -> [Rounds -> {"none", "booked", "arrived", "completed"}]]
  BY DEF MarkAfterPayment, TablesOK
<1>6. /\ round' \in [Guests -> [Rounds -> RoundStates]] /\ round'[v] = g
      /\ \A u \in Guests \ {v} : round'[u] = round[u]
  <2> HIDE DEF g
  <2> QED
    BY <1>3, <1>4 DEF TablesOK
<1> QED
  BY <1>1, <1>2, <1>5, <1>6, StatusIs DEF MarkAfterPayment

\* The end of a game: either the visit ends with it, or goes on to the next.
Closing(v) == IF stopped THEN "ABORTED" ELSE "COMPLETED"
More(v) == IF ~stopped /\ round[v][trip[v].cur] # "NONE" THEN NextGames(v, trip[v].cur) ELSE {}
LEMMA EndsIs ==
  ASSUME TablesOK, NEW v \in Guests, Ends(v), RoundsPaid, Released, GamesInOrder
  PROVE  LET n == trip[v].cur IN
         /\ trip' \in [Guests -> [status : TripStates, cur : Rounds]]
         /\ round' \in [Guests -> [Rounds -> RoundStates]]
         /\ row' \in [Guests -> [Rounds -> {"none", "booked", "arrived", "completed"}]]
         /\ alloc' \in [Guests -> [Rounds -> {"PENDING", "EARNED"}]]
         /\ trip[v].status = "PLAYING"
         /\ \A u \in Guests \ {v} : trip'[u] = trip[u] /\ round'[u] = round[u]
         /\ \/ /\ More(v) = {} /\ trip'[v].status = Closing(v) /\ trip'[v].cur = n
               /\ \A m \in Rounds : round'[v][m] = IF m = n /\ round[v][n] # "NONE" THEN Closing(v) ELSE round[v][m]
            \/ /\ ~stopped /\ n + 1 \in Rounds /\ round[v][n + 1] = "PAID_WAITING" /\ round[v][n] # "NONE"
               /\ trip'[v].status = "PREPARING" /\ trip'[v].cur = n + 1
               /\ \A m \in Rounds : round'[v][m] = IF m = n THEN "COMPLETED"
                                                ELSE IF m = n + 1 THEN "PREPARING" ELSE round[v][m]
<1> DEFINE n == trip[v].cur
           end == IF stopped THEN "ABORTED" ELSE "COMPLETED"
           gone == [m \in Rounds |-> IF m = n /\ round[v][n] # "NONE" THEN end ELSE round[v][m]]
<1>1. n \in Rounds /\ n \in Nat /\ trip[v].status = "PLAYING" /\ end \in RoundStates /\ end \in TripStates
  BY RoundsAre DEF TablesOK, Ends, RoundStates, TripStates
<1>2. gone \in [Rounds -> RoundStates]
  BY <1>1 DEF TablesOK
<1>3. alloc' \in [Guests -> [Rounds -> {"PENDING", "EARNED"}]]
  <2>1. CASE alloc' = [alloc EXCEPT ![v][n] = "EARNED"]
    BY <1>1, <2>1 DEF TablesOK
  <2>2. CASE alloc' = alloc
    BY <2>2 DEF TablesOK
  <2> QED
    BY <2>1, <2>2 DEF Ends
<1>4. CASE More(v) = {}
  <2>1. SetStatus(v, end) /\ round' = [round EXCEPT ![v] = gone] /\ UNCHANGED row
    BY <1>4 DEF Ends, More
  <2> HIDE DEF gone, n, end
  <2>2. /\ round' \in [Guests -> [Rounds -> RoundStates]] /\ round'[v] = gone
        /\ \A u \in Guests \ {v} : round'[u] = round[u]
    BY <1>2, <2>1 DEF TablesOK
  <2>3. \A m \in Rounds : round'[v][m] = IF m = n /\ round[v][n] # "NONE" THEN Closing(v) ELSE round[v][m]
    BY <2>2 DEF gone, Closing, end
  <2>4. row' \in [Guests -> [Rounds -> {"none", "booked", "arrived", "completed"}]]
    BY <2>1 DEF TablesOK
  <2> QED
    BY <1>1, <1>3, <1>4, <2>1, <2>2, <2>3, <2>4, StatusIs DEF n, end, Closing
<1>5. CASE More(v) # {}
  <2>1. ~stopped /\ round[v][n] # "NONE" /\ More(v) = NextGames(v, n)
    BY <1>5 DEF More
  <2>2. PICK k \in Rounds : k > n /\ round[v][k] = "PAID_WAITING"
    BY <1>5, <2>1 DEF NextGames
  <2>3. k \in Nat /\ n + 1 \in Nat \ {0} /\ n + 1 \in Rounds /\ n + 1 <= k
    BY <1>1, <2>2, RoundsAre
  <2>4. round[v][n + 1] = "PAID_WAITING"
    <3>1. Paid[v] \in Nat /\ ~(k > Paid[v])
      BY <2>2, GameConstants DEF RoundsPaid
    <3>2. round[v][n + 1] # "NONE"
      BY <2>3, <3>1 DEF RoundsPaid
    <3>3. round[v][n + 1] # "RESERVED"
      BY <2>2, <2>3 DEF Released
    <3>4. round[v][n + 1] \in {"NONE", "RESERVED", "PAID_WAITING"}
      BY <1>1, <2>3 DEF GamesInOrder
    <3> QED
      BY <3>2, <3>3, <3>4
  <2>5. Min(More(v)) = n + 1
    <3>1. n + 1 \in More(v)
      BY <1>1, <2>1, <2>3, <2>4 DEF NextGames
    <3>2. \A x \in More(v) : x \in Nat /\ x >= n + 1
      <4> TAKE x \in More(v)
      <4>1. x \in Rounds /\ x > n
        BY <2>1 DEF NextGames
      <4>2. x \in Nat
        BY <4>1, RoundsAre
      <4> HIDE DEF n
      <4> QED
        BY <1>1, <4>1, <4>2
    <3>3. Min(More(v)) \in More(v) /\ \A x \in More(v) : Min(More(v)) <= x
      BY <3>1, <3>2 DEF Min
    <3> QED
      BY <1>1, <3>1, <3>2, <3>3
  <2> DEFINE next == [gone EXCEPT ![n + 1] = "PREPARING"]
  <2>6. /\ trip' = [trip EXCEPT ![v] = [status |-> "PREPARING", cur |-> n + 1]]
        /\ round' = [round EXCEPT ![v] = next]
        /\ row' = [row EXCEPT ![v][n + 1] = IF @ = "booked" THEN "arrived" ELSE @]
    BY <1>5, <2>5 DEF Ends, More
  <2>7. "PREPARING" \in TripStates /\ "PREPARING" \in RoundStates
    BY DEF TripStates, RoundStates, OnTheWay
  <2>8. /\ next \in [Rounds -> RoundStates]
        /\ \A m \in Rounds : next[m] = IF m = n THEN "COMPLETED" ELSE IF m = n + 1 THEN "PREPARING" ELSE round[v][m]
    <3>1. next \in [Rounds -> RoundStates]
      <4> HIDE DEF gone
      <4> QED
        BY <1>2, <2>7
    <3>2. \A m \in Rounds : next[m] = IF m = n + 1 THEN "PREPARING" ELSE gone[m]
      <4> HIDE DEF gone
      <4> QED
        BY <1>2
    <3>3. \A m \in Rounds : gone[m] = IF m = n THEN "COMPLETED" ELSE round[v][m]
      BY <2>1
    <3>4. n # n + 1
      BY <1>1
    <3> HIDE DEF gone, next, n
    <3> QED
      BY <3>1, <3>2, <3>3, <3>4
  <2>9. row' \in [Guests -> [Rounds -> {"none", "booked", "arrived", "completed"}]]
    BY <2>3, <2>6 DEF TablesOK
  <2>10. /\ trip' \in [Guests -> [status : TripStates, cur : Rounds]]
         /\ trip'[v].status = "PREPARING" /\ trip'[v].cur = n + 1
         /\ \A u \in Guests \ {v} : trip'[u] = trip[u]
    <3> DEFINE t == [status |-> "PREPARING", cur |-> n + 1]
    <3>1. t \in [status : TripStates, cur : Rounds] /\ t.status = "PREPARING" /\ t.cur = n + 1
      BY <2>3, <2>7
    <3>2. trip' = [trip EXCEPT ![v] = t]
      BY <2>6
    <3> HIDE DEF t
    <3> QED
      BY <3>1, <3>2 DEF TablesOK
  <2> HIDE DEF next
  <2>11. /\ round' \in [Guests -> [Rounds -> RoundStates]] /\ round'[v] = next
         /\ \A u \in Guests \ {v} : round'[u] = round[u]
    BY <2>6, <2>8 DEF TablesOK
  <2> QED
    BY <1>1, <1>3, <2>1, <2>3, <2>4, <2>8, <2>9, <2>10, <2>11
<1> QED
  BY <1>4, <1>5
\* The ACK of a command and a running room move only a visit that is on its way,
\* and only the game it is at.
Turned(v) ==
  /\ v \in Guests
  /\ trip' \in [Guests -> [status : TripStates, cur : Rounds]]
  /\ round' \in [Guests -> [Rounds -> RoundStates]]
  /\ \A u \in Guests : trip'[u].cur = trip[u].cur
  /\ \A u \in Guests \ {v} : trip'[u] = trip[u] /\ round'[u] = round[u]
  /\ \/ trip'[v].status = trip[v].status
     \/ /\ trip[v].status \in OnTheWay
        /\ trip'[v].status \in {"READY_TO_PLAY", "PLAYING", "STAFF_REVIEW", "START_FAILED"}
  /\ \A m \in Rounds : \/ round'[v][m] = round[v][m]
                       \/ /\ m = trip[v].cur /\ round[v][m] # "NONE"
                          /\ round'[v][m] \in {"READY_TO_PLAY", "PLAYING"}
  /\ UNCHANGED <<row, alloc, ledger>>
\* What the handlers of the bridge's messages do to the visit.
LEMMA TurnIs ==
  ASSUME TablesOK, AsksOK, NEW v \in Guests, (AckResult /\ Bridge.v = v) \/ Plays(v)
  PROVE  Turned(v)
<1> DEFINE n == trip[v].cur
           new == {"READY_TO_PLAY", "PLAYING", "STAFF_REVIEW", "START_FAILED"}
           T == /\ trip' \in [Guests -> [status : TripStates, cur : Rounds]]
                /\ \A u \in Guests : trip'[u].cur = trip[u].cur
                /\ \A u \in Guests \ {v} : trip'[u] = trip[u]
                /\ trip'[v].status = trip[v].status \/ (trip[v].status \in OnTheWay /\ trip'[v].status \in new)
           R(status) == round' = [round EXCEPT ![v][n] = status]
           G == /\ round' \in [Guests -> [Rounds -> RoundStates]]
                /\ \A u \in Guests \ {v} : round'[u] = round[u]
                /\ \A m \in Rounds : \/ round'[v][m] = round[v][m]
                                     \/ m = n /\ round[v][m] # "NONE" /\ round'[v][m] \in {"READY_TO_PLAY", "PLAYING"}
<1>1. new \subseteq TripStates
  BY DEF TripStates, Terminable, Reenterable, OnTheWay
<1>2. UNCHANGED trip => T
  BY DEF TablesOK
<1>3. ASSUME NEW status \in new, SetStatus(v, status), trip[v].status \in OnTheWay PROVE T
  <2>1. status \in TripStates
    BY <1>1
  <2> QED
    BY <1>3, <2>1, StatusIs
<1>4. T
  <2> HIDE DEF T
  <2>1. CASE Plays(v)
    BY <1>3, <2>1 DEF Plays, OnTheWay
  <2>2. CASE AckResult /\ Bridge.v = v
    BY <1>2, <1>3, <2>2 DEF AckResult, SetStatus, OnTheWay
  <2> QED
    BY <2>1, <2>2
<1>5. UNCHANGED round \/ (round[v][n] # "NONE" /\ \E status \in {"READY_TO_PLAY", "PLAYING"} : R(status))
  <2>1. CASE Plays(v)
    <3>1. CASE round[v][n] = "NONE"
      BY <2>1, <3>1 DEF Plays, TablesOK
    <3>2. CASE round[v][n] # "NONE"
      BY <2>1, <3>2 DEF Plays, TablesOK
    <3> QED
      BY <3>1, <3>2
  <2>2. CASE AckResult /\ Bridge.v = v
    BY <2>2 DEF AckResult
  <2> QED
    BY <2>1, <2>2
<1>6. G
  <2>1. CASE UNCHANGED round
    BY <2>1 DEF TablesOK
  <2>2. ASSUME NEW status \in {"READY_TO_PLAY", "PLAYING"}, R(status), round[v][n] # "NONE" PROVE G
    <3>1. status \in RoundStates
      BY DEF RoundStates, OnTheWay
    <3> QED
      BY <2>2, <3>1 DEF TablesOK
  <2> QED
    BY <1>5, <2>1, <2>2
<1> QED
  BY <1>4, <1>6 DEF Turned, AckResult, Plays

\* A report of a stopped room writes a reservation and perhaps a stamp.
LEMMA AutoCompleteIs ==
  ASSUME TablesOK, AsksOK, AutoComplete
  PROVE  /\ row' \in [Guests -> [Rounds -> {"none", "booked", "arrived", "completed"}]]
         /\ UNCHANGED <<trip, round, alloc>>
         /\ \/ ledger' = ledger
            \/ \E v, n : ledger' = ledger \cup {[key |-> SeatKey(v, n), seat |-> <<v, n>>]}
<1>1. row' \in [Guests -> [Rounds -> {"none", "booked", "arrived", "completed"}]]
  BY DEF AutoComplete, TablesOK
<1> QED
  BY <1>1 DEF AutoComplete

-----------------------------------------------------------------------------
(* The tables and the room.                                                *)

\* A payment that is paid stays paid, and staff's unpaid visits are remembered.
LEMMA BillStep ==
  ASSUME GameTypeOK, GameNext
  PROVE  /\ bill' \in [Guests -> {"pending", "processing", "paid", "unknown"}]
         /\ \A v \in Guests : bill[v] = "paid" => bill'[v] = "paid"
         /\ over \subseteq over'
<1> DEFINE P == /\ bill' \in [Guests -> {"pending", "processing", "paid", "unknown"}]
                /\ \A v \in Guests : bill[v] = "paid" => bill'[v] = "paid"
                /\ over \subseteq over'
<1> SUFFICES P
  OBVIOUS
<1>1. bill \in [Guests -> {"pending", "processing", "paid", "unknown"}]
  BY DEF GameTypeOK, TablesOK
<1>2. UNCHANGED bill /\ over \subseteq over' => P
  BY <1>1
<1>3. ASSUME NEW v \in Guests, bill[v] # "paid", NEW b \in {"pending", "processing", "paid", "unknown"},
             bill' = [bill EXCEPT ![v] = b], UNCHANGED over
      PROVE  P
  BY <1>1, <1>3
<1> HIDE DEF P
<1>4. ASSUME NEW v \in Guests, Guest(v) PROVE P
  <2>1. CASE CardWrite(v)
    <3>1. CASE bill[v] = "pending"
      BY <1>3, <2>1, <3>1 DEF CardWrite
    <3>2. CASE bill[v] # "pending"
      BY <1>1, <1>2, <2>1, <3>2 DEF CardWrite
    <3> QED
      BY <3>1, <3>2
  <2>2. ASSUME NEW result \in {"paid", "pending", "unknown"}, CardAnswer(v, result) PROVE P
    BY <1>3, <2>2 DEF CardAnswer
  <2>3. Settle(v) => P
    BY <1>3 DEF Settle
  <2>4. CardRead(v) \/ WaitAsk(v) \/ StartRead(v) \/ StartQueue(v) \/ WaitForStaff(v) \/ WaitPaid(v)
        \/ WaitUnknown(v) => P
    BY <1>2 DEF CardRead, WaitAsk, StartRead, Reads, StartQueue, WaitForStaff, WaitPaid, WaitUnknown
  <2> QED
    BY <1>4, <2>1, <2>2, <2>3, <2>4 DEF Guest
<1>5. CASE Operator
  <2>1. ASSUME NEW v \in Guests, ReviewRead(v) \/ ConfirmRead(v) \/ PrepareRead(v)
               \/ ReinputRead(v) \/ StopRead(v) \/ TerminateRead(v)
        PROVE  P
    BY <1>2, <2>1 DEF ReviewRead, ConfirmRead, PrepareRead, ReinputRead, StopRead, TerminateRead, Reads
  <2>2. CASE ConfirmBook
    <3>1. Asked \in Guests
      BY <2>2, AskIs DEF ConfirmBook, Staff, Asked, GameTypeOK
    <3> QED
      BY <1>3, <2>2, <3>1 DEF ConfirmBook
  <2>3. ReviewWrite \/ ConfirmMark \/ PrepareQueue \/ ReinputQueue \/ ReinputWrite \/ StopQueue \/ TerminateWrite => P
    BY <1>2 DEF ReviewWrite, ConfirmMark, PrepareQueue, ReinputQueue, ReinputWrite, StopQueue, TerminateWrite
  <2> QED
    BY <1>5, <2>1, <2>2, <2>3 DEF Operator
<1>6. CASE Room
  BY <1>2, <1>6 DEF Room, Run, CommandEnds, StartByHand, GameEnds, StopForgotten
<1>7. CASE Server
  BY <1>2, <1>7 DEF Server, AckArrives, AckResult, SyncSent, Report, NoVisit, AutoComplete, ReportDone, Lost, Plays, Ends
<1> QED
  BY <1>4, <1>5, <1>6, <1>7 DEF GameNext

\* A visit goes only on: the game it points to never goes back.
LEMMA TablesStep ==
  ASSUME GameTypeOK, GamesInOrder, RoundsPaid, Released, GameNext
  PROVE  TablesOK' /\ \A v \in Guests : trip'[v].cur >= trip[v].cur
<1> DEFINE P == /\ trip' \in [Guests -> [status : TripStates, cur : Rounds]]
                /\ round' \in [Guests -> [Rounds -> RoundStates]]
                /\ row' \in [Guests -> [Rounds -> {"none", "booked", "arrived", "completed"}]]
                /\ alloc' \in [Guests -> [Rounds -> {"PENDING", "EARNED"}]]
                /\ \A v \in Guests : trip'[v].cur >= trip[v].cur
<1>1. TablesOK /\ AsksOK /\ \A v \in Guests : trip[v].cur \in Rounds /\ trip[v].cur \in Nat
  BY RoundsAre DEF GameTypeOK, TablesOK
<1>2. P
  <2>1. CASE UNCHANGED <<trip, tables>>
    BY <1>1, <2>1 DEF tables, TablesOK
  <2>2. ASSUME NEW v \in Guests, NEW status \in Statuses, StatusOnly(v, status) PROVE P
    <3>1. status \in TripStates
      BY DEF Statuses, TripStates, Terminable, Paying, Reenterable
    <3>2. SetStatus(v, status) /\ UNCHANGED <<round, row, alloc>>
      BY <2>2 DEF StatusOnly, tables
    <3>3. round' \in [Guests -> [Rounds -> RoundStates]] /\ row' \in [Guests -> [Rounds -> {"none", "booked", "arrived", "completed"}]]
          /\ alloc' \in [Guests -> [Rounds -> {"PENDING", "EARNED"}]]
      BY <1>1, <3>2 DEF TablesOK
    <3>4. /\ trip' \in [Guests -> [status : TripStates, cur : Rounds]]
          /\ \A u \in Guests : trip'[u].cur = trip[u].cur
      BY <1>1, <3>1, <3>2, StatusIs
    <3> QED
      BY <1>1, <3>3, <3>4
  <2>3. ASSUME NEW a \in Guests \cup {"staff"}, MarkedBy(a) PROVE P
    <3>1. ask[a].v \in Guests /\ ask[a].n \in Rounds
      BY <1>1, <2>3, AskIs DEF MarkedBy
    <3>2. /\ trip' \in [Guests -> [status : TripStates, cur : Rounds]]
          /\ \A u \in Guests : trip'[u].cur = trip[u].cur
          /\ round' \in [Guests -> [Rounds -> RoundStates]]
          /\ row' \in [Guests -> [Rounds -> {"none", "booked", "arrived", "completed"}]]
          /\ UNCHANGED alloc
      BY <1>1, <2>3, <3>1, MarkIs DEF MarkedBy
    <3> QED
      BY <1>1, <3>2 DEF TablesOK
  <2>4. ASSUME NEW v \in Guests, Turned(v) PROVE P
    BY <1>1, <2>4 DEF Turned, TablesOK
  <2>5. ASSUME NEW v \in Guests, Ends(v) PROVE P
    <3>1. /\ trip' \in [Guests -> [status : TripStates, cur : Rounds]]
          /\ round' \in [Guests -> [Rounds -> RoundStates]]
          /\ row' \in [Guests -> [Rounds -> {"none", "booked", "arrived", "completed"}]]
          /\ alloc' \in [Guests -> [Rounds -> {"PENDING", "EARNED"}]]
          /\ \A u \in Guests \ {v} : trip'[u] = trip[u]
          /\ trip'[v].cur = trip[v].cur \/ trip'[v].cur = trip[v].cur + 1
      BY <1>1, <2>5, EndsIs
    <3>2. ASSUME NEW u \in Guests PROVE trip'[u].cur >= trip[u].cur
      <4>1. trip[u].cur \in Nat /\ trip[v].cur \in Nat
        BY <1>1
      <4>2. CASE u = v
        BY <3>1, <4>1, <4>2
      <4>3. CASE u # v
        BY <3>1, <4>1, <4>3
      <4> QED
        BY <4>2, <4>3
    <3> QED
      BY <3>1, <3>2
  <2>6. CASE AutoComplete
    BY <1>1, <2>6, AutoCompleteIs DEF TablesOK
  <2>7. AckResult => Bridge.v \in Guests
    BY <1>1, BridgeIs DEF AckResult
  <2> HIDE DEF P
  <2> QED
    BY <1>1, <2>1, <2>2, <2>3, <2>4, <2>5, <2>6, <2>7, Writers, TurnIs
<1> QED
  BY <1>2, BillStep DEF TablesOK

\* The room and its command.
LEMMA RoomStep ==
  ASSUME GameTypeOK, GameNext
  PROVE  RoomOK'
<1>1. RoomOK /\ AsksOK
  BY DEF GameTypeOK
<1>2. UNCHANGED <<cmd, stopped, real, seen>> => RoomOK'
  BY <1>1 DEF RoomOK
<1>3. ASSUME NEW v \in Guests, NEW act \in Acts, Queue(v, act) PROVE RoomOK'
  BY <1>1, <1>3 DEF Queue, RoomOK
<1>4. {"set_info", "stop", "start"} \subseteq Acts /\ {"waiting", "running"} \subseteq Phases
  BY DEF Acts, Phases
<1>5. ASSUME NEW v \in Guests, Guest(v) PROVE RoomOK'
  <2>1. StartQueue(v) => RoomOK'
    BY <1>3, <1>4 DEF StartQueue
  <2> QED
    BY <1>2, <1>5, <2>1 DEF Guest, CardRead, CardWrite, WaitForStaff, WaitAsk, WaitPaid, WaitUnknown, StartRead,
       Settle, CardAnswer, Reads, outside
<1>6. CASE Operator
  <2>1. ASSUME NEW v \in Guests, ReviewRead(v) \/ ConfirmRead(v) \/ PrepareRead(v)
               \/ ReinputRead(v) \/ StopRead(v) \/ TerminateRead(v)
        PROVE  RoomOK'
    BY <1>2, <2>1 DEF ReviewRead, ConfirmRead, PrepareRead, ReinputRead, StopRead, TerminateRead, Reads, outside
  <2>2. PrepareQueue \/ ReinputQueue \/ StopQueue => Asked \in Guests
    BY <1>1, AskIs DEF PrepareQueue, ReinputQueue, StopQueue, Staff, Asked
  <2>3. PrepareQueue \/ ReinputQueue \/ StopQueue => RoomOK'
    BY <1>3, <1>4, <2>2 DEF PrepareQueue, ReinputQueue, StopQueue
  <2>4. ReviewWrite \/ ConfirmBook \/ ConfirmMark \/ ReinputWrite => RoomOK'
    BY <1>2 DEF ReviewWrite, ConfirmBook, ConfirmMark, ReinputWrite, outside
  <2>5. TerminateWrite => RoomOK'
    BY <1>1 DEF TerminateWrite, RoomOK
  <2> QED
    BY <1>6, <2>1, <2>3, <2>4, <2>5 DEF Operator
<1>7. CASE Room
  <2>1. ASSUME NEW ok \in BOOLEAN, Run(ok) PROVE RoomOK'
    <3>1. cmd.act \in Acts /\ cmd.v \in Guests
      BY <1>1, <2>1 DEF Run, RoomOK
    <3>2. real' \in [status : Phases, team : Teams]
      BY <1>1, <1>4, <2>1, <3>1 DEF Run, Turn, RoomOK, Teams
    <3> QED
      BY <1>1, <2>1, <3>1, <3>2 DEF Run, RoomOK
  <2>2. CommandEnds \/ StartByHand \/ GameEnds \/ StopForgotten => RoomOK'
    BY <1>1, <1>4 DEF CommandEnds, StartByHand, GameEnds, StopForgotten, Turn, RoomOK
  <2> QED
    BY <1>7, <2>1, <2>2 DEF Room
<1>8. CASE Server
  <2>1. CASE AckArrives
    <3>1. cmd.ok \in BOOLEAN
      BY <1>1, <2>1 DEF AckArrives, RoomOK
    <3> QED
      BY <1>1, <2>1, <3>1 DEF AckArrives, RoomOK
  <2>2. CASE Report
    <3>1. Bridge.next \in Phases
      BY <1>1, <2>2, BridgeIs DEF Report
    <3> QED
      BY <1>1, <2>2, <3>1 DEF Report, RoomOK
  <2>3. AckResult \/ SyncSent \/ NoVisit \/ AutoComplete \/ ReportDone => RoomOK'
    BY <1>2 DEF AckResult, SyncSent, NoVisit, AutoComplete, ReportDone, outside
  <2>4. (\E v \in Guests : Plays(v) \/ Ends(v)) \/ (\E a \in DOMAIN ask : Lost(a)) => RoomOK'
    BY <1>2 DEF Plays, Ends, Lost, outside
  <2> QED
    BY <1>8, <2>1, <2>2, <2>3, <2>4 DEF Server
<1> QED
  BY <1>5, <1>6, <1>7, <1>8 DEF GameNext
-----------------------------------------------------------------------------
(* Nobody plays before the payment.                                        *)

\* A confirmation is on its way only for a payment that was booked.
LEMMA ConfirmedStep ==
  ASSUME GameTypeOK, Confirmed, GameNext
  PROVE  Confirmed'
<1>1. AsksOK /\ "staff" \notin Guests /\ "staff" # "bridge" /\ NoAsk.pc = "idle"
  BY AskIs, GameConstants DEF GameTypeOK
<1>2. \A v \in Guests : bill[v] = "paid" => bill'[v] = "paid"
  BY BillStep
<1>3. UNCHANGED ask => Confirmed'
  BY <1>1, <1>2, AskIs DEF Confirmed
<1>4. ASSUME NEW a \in Guests \cup {"bridge"}, NEW t, ask' = [ask EXCEPT ![a] = t] PROVE Confirmed'
  <2>1. ask'["staff"] = ask["staff"]
    BY <1>1, <1>4 DEF AsksOK
  <2> QED
    BY <1>1, <1>2, <2>1, AskIs DEF Confirmed
<1>5. ASSUME NEW t, ask' = [ask EXCEPT !["staff"] = t], t.pc # "confirmed" PROVE Confirmed'
  <2>1. ask'["staff"] = t
    BY <1>5 DEF GameTypeOK, AsksOK
  <2> QED
    BY <1>5, <2>1 DEF Confirmed
<1>6. Answered("staff") => Confirmed'
  BY <1>1, <1>5 DEF Answered
<1>7. ASSUME NEW a \in Guests \cup {"bridge"}, Answered(a) PROVE Confirmed'
  BY <1>4, <1>7 DEF Answered
<1>8. ASSUME NEW v \in Guests, NEW S, NEW pc, Reads(v, v, S, pc) PROVE Confirmed'
  BY <1>4, <1>8 DEF Reads
<1>9. ASSUME NEW v \in Guests, NEW S, NEW pc, pc # "confirmed", Reads("staff", v, S, pc) PROVE Confirmed'
  <2> DEFINE t == [pc |-> pc, v |-> v, n |-> trip[v].cur]
  <2>1. t.pc # "confirmed" /\ ask' = [ask EXCEPT !["staff"] = t]
    BY <1>9 DEF Reads
  <2> HIDE DEF t
  <2> QED
    BY <1>5, <2>1
<1>10. ASSUME NEW v \in Guests, Guest(v) PROVE Confirmed'
  <2>1. CardRead(v) \/ WaitAsk(v) \/ StartRead(v) => Confirmed'
    BY <1>8 DEF CardRead, WaitAsk, StartRead
  <2>2. CardWrite(v) \/ WaitPaid(v) \/ WaitUnknown(v) \/ StartQueue(v) => Confirmed'
    BY <1>7 DEF CardWrite, WaitPaid, WaitUnknown, StartQueue
  <2>3. WaitForStaff(v) \/ Settle(v) \/ (\E result \in {"paid", "pending", "unknown"} : CardAnswer(v, result)) => Confirmed'
    BY <1>3 DEF WaitForStaff, Settle, CardAnswer
  <2> QED
    BY <1>10, <2>1, <2>2, <2>3 DEF Guest
<1>11. CASE Operator
  <2>1. ASSUME NEW v \in Guests, ReviewRead(v) \/ ConfirmRead(v) \/ PrepareRead(v)
               \/ ReinputRead(v) \/ StopRead(v) \/ TerminateRead(v)
        PROVE  Confirmed'
    BY <1>9, <2>1 DEF ReviewRead, ConfirmRead, PrepareRead, ReinputRead, StopRead, TerminateRead
  <2>2. ReviewWrite \/ ConfirmMark \/ PrepareQueue \/ ReinputWrite \/ StopQueue \/ TerminateWrite => Confirmed'
    BY <1>6 DEF ReviewWrite, ConfirmMark, PrepareQueue, ReinputWrite, StopQueue, TerminateWrite
  <2>3. CASE ConfirmBook
    <3>1. ask["staff"].v \in Guests /\ ask["staff"] \in [pc : {"review", "confirm", "confirmed", "prepare", "reinput",
                                                "reentered", "stop", "terminate"}, v : Guests, n : Rounds]
      BY <1>1, <2>3, AskIs DEF ConfirmBook, Staff
    <3>2. bill'[ask["staff"].v] = "paid"
      BY <2>3, <3>1 DEF ConfirmBook, Asked, GameTypeOK, TablesOK
    <3>3. ask'["staff"].v = ask["staff"].v
      BY <1>1, <2>3, <3>1 DEF ConfirmBook, Moves, AsksOK
    <3> QED
      BY <3>2, <3>3 DEF Confirmed
  <2>4. CASE ReinputQueue
    <3>1. ask["staff"] \in [pc : {"review", "confirm", "confirmed", "prepare", "reinput", "reentered", "stop",
                                  "terminate"}, v : Guests, n : Rounds]
      BY <1>1, <2>4, AskIs DEF ReinputQueue, Staff
    <3> DEFINE t == [ask["staff"] EXCEPT !.pc = "reentered"]
    <3>2. t.pc # "confirmed" /\ ask' = [ask EXCEPT !["staff"] = t]
      BY <1>1, <2>4, <3>1 DEF ReinputQueue, Moves, AsksOK
    <3> HIDE DEF t
    <3> QED
      BY <1>5, <3>2
  <2> QED
    BY <1>11, <2>1, <2>2, <2>3, <2>4 DEF Operator
<1>12. CASE Room
  BY <1>3, <1>12 DEF Room, Run, CommandEnds, StartByHand, GameEnds, StopForgotten
<1>13. CASE Server
  <2>1. ASSUME NEW a \in DOMAIN ask, Lost(a) PROVE Confirmed'
    BY <1>1, <1>6, <1>7, <2>1 DEF Lost, AsksOK
  <2>2. AckResult \/ NoVisit \/ AutoComplete \/ ReportDone \/ (\E v \in Guests : Plays(v) \/ Ends(v)) => Confirmed'
    <3>1. ASSUME NEW pc, Moves("bridge", pc) PROVE Confirmed'
      BY <1>4, <3>1 DEF Moves
    <3> QED
      BY <1>7, <3>1 DEF AckResult, NoVisit, AutoComplete, ReportDone, Plays, Ends
  <2>3. AckArrives \/ SyncSent \/ Report => Confirmed'
    BY <1>4 DEF AckArrives, SyncSent, Report
  <2> QED
    BY <1>13, <2>1, <2>2, <2>3 DEF Server
<1> QED
  BY <1>10, <1>11, <1>12, <1>13 DEF GameNext

\* A visit comes on its way only through a handler that knows it is paid.
LEMMA MoneyStep ==
  ASSUME GameTypeOK, MoneyInv, GamesInOrder, RoundsPaid, Released, GameNext
  PROVE  MoneyInv'
<1> DEFINE Kept(v) == trip'[v].status \in OnTheWay =>
                        \/ trip[v].status \in OnTheWay \/ bill[v] = "paid" \/ v \in over'
<1>1. TablesOK /\ AsksOK
  BY DEF GameTypeOK
<1>2. \A v \in Guests : Kept(v)
  <2>1. CASE UNCHANGED <<trip, tables>>
    BY <2>1
  <2>2. ASSUME NEW v \in Guests, NEW status \in Statuses, StatusOnly(v, status) PROVE \A u \in Guests : Kept(u)
    <3>1. status \in TripStates
      BY DEF Statuses, TripStates, Terminable, Paying, Reenterable
    <3>2. trip'[v].status = status /\ \A u \in Guests \ {v} : trip'[u] = trip[u]
      BY <1>1, <2>2, <3>1, StatusIs DEF StatusOnly
    <3>3. status \in OnTheWay => status = "PREPARING"
      BY DEF Statuses, OnTheWay
    <3> QED
      BY <2>2, <3>2, <3>3 DEF StatusOnly
  <2>3. ASSUME NEW a \in Guests \cup {"staff"}, MarkedBy(a) PROVE \A u \in Guests : Kept(u)
    <3>1. ask[a].v \in Guests /\ ask[a].n \in Rounds /\ (a \in Guests => ask[a].v = a)
      BY <1>1, <2>3, AskIs, GameConstants DEF MarkedBy
    <3>2. bill[ask[a].v] = "paid"
      BY <2>3, <3>1 DEF MarkedBy, MoneyInv, Confirmed
    <3>3. \A u \in Guests \ {ask[a].v} : trip'[u] = trip[u]
      BY <1>1, <2>3, <3>1, MarkIs DEF MarkedBy
    <3> QED
      BY <3>2, <3>3
  <2>4. ASSUME NEW v \in Guests, Turned(v) PROVE \A u \in Guests : Kept(u)
    BY <2>4 DEF Turned
  <2>5. ASSUME NEW v \in Guests, Ends(v) PROVE \A u \in Guests : Kept(u)
    <3>1. trip[v].status = "PLAYING" /\ \A u \in Guests \ {v} : trip'[u] = trip[u]
      BY <1>1, <2>5, EndsIs
    <3> QED
      BY <3>1 DEF OnTheWay
  <2>6. CASE AutoComplete
    BY <1>1, <2>6, AutoCompleteIs
  <2>7. AckResult => Bridge.v \in Guests
    BY <1>1, BridgeIs DEF AckResult
  <2> HIDE DEF Kept
  <2> QED
    BY <1>1, <2>1, <2>2, <2>3, <2>4, <2>5, <2>6, <2>7, Writers, TurnIs
<1>3. PaidBeforePlay'
  BY <1>2, BillStep DEF MoneyInv, PaidBeforePlay
<1> QED
  BY <1>3, ConfirmedStep DEF MoneyInv
-----------------------------------------------------------------------------
(* The games are played in their order.                                    *)

\* A request of a screen or of the staff is gone, keeps what it read, or has just
\* read the visit.
AskKept(a) ==
  \/ ask'[a] = NoAsk
  \/ ask[a] # NoAsk /\ ask'[a].v = ask[a].v /\ ask'[a].n = ask[a].n
  \/ UNCHANGED trip /\ ask'[a].v \in Guests /\ ask'[a].n = trip[ask'[a].v].cur
\* And no step does anything else to it.
LEMMA AsksKept ==
  ASSUME GameTypeOK, GameNext
  PROVE  \A a \in Guests \cup {"staff"} : AskKept(a)
<1> DEFINE P == \A a \in Guests \cup {"staff"} : AskKept(a)
<1> SUFFICES P
  OBVIOUS
<1>1. /\ AsksOK /\ "staff" \notin Guests /\ "bridge" \notin Guests /\ NoAsk.pc = "idle"
      /\ DOMAIN ask = Guests \cup {"staff", "bridge"}
  BY AskIs, GameConstants DEF GameTypeOK, AsksOK
<1>2. UNCHANGED ask => P
  BY DEF AskKept
<1>3. ASSUME NEW a \in DOMAIN ask, Answered(a) PROVE P
  BY <1>1, <1>3 DEF Answered, AskKept
<1>4. ASSUME NEW t, ask' = [ask EXCEPT !["bridge"] = t] PROVE P
  BY <1>1, <1>4 DEF AskKept
<1>5. ASSUME NEW a \in Guests \cup {"staff"}, NEW v \in Guests, NEW S, NEW pc, Reads(a, v, S, pc) PROVE P
  <2> DEFINE t == [pc |-> pc, v |-> v, n |-> trip[v].cur]
  <2>1. t.v = v /\ t.n = trip[v].cur /\ ask' = [ask EXCEPT ![a] = t] /\ UNCHANGED trip
    BY <1>5 DEF Reads
  <2> HIDE DEF t
  <2> QED
    BY <1>1, <2>1 DEF AskKept
<1>6. ASSUME NEW pc, ask["staff"].pc # "idle", Moves("staff", pc) PROVE P
  <2> DEFINE t == [ask["staff"] EXCEPT !.pc = pc]
  <2>1. ask["staff"] \in [pc : {"review", "confirm", "confirmed", "prepare", "reinput", "reentered", "stop",
                                "terminate"}, v : Guests, n : Rounds]
    BY <1>1, <1>6, AskIs
  <2>2. t.v = ask["staff"].v /\ t.n = ask["staff"].n /\ ask["staff"] # NoAsk
    BY <1>1, <1>6, <2>1
  <2>3. ask' = [ask EXCEPT !["staff"] = t]
    BY <1>1, <1>6 DEF Moves
  <2> HIDE DEF t
  <2> QED
    BY <1>1, <2>2, <2>3 DEF AskKept
<1>7. ASSUME NEW pc, Moves("bridge", pc) PROVE P
  BY <1>4, <1>7 DEF Moves
<1> HIDE DEF P
<1>8. ASSUME NEW v \in Guests, Guest(v) PROVE P
  <2>1. CardRead(v) \/ WaitAsk(v) \/ StartRead(v) => P
    BY <1>5 DEF CardRead, WaitAsk, StartRead
  <2>2. CardWrite(v) \/ WaitPaid(v) \/ WaitUnknown(v) \/ StartQueue(v) => P
    BY <1>1, <1>3 DEF CardWrite, WaitPaid, WaitUnknown, StartQueue
  <2>3. WaitForStaff(v) \/ Settle(v) \/ (\E result \in {"paid", "pending", "unknown"} : CardAnswer(v, result)) => P
    BY <1>2 DEF WaitForStaff, Settle, CardAnswer
  <2> QED
    BY <1>8, <2>1, <2>2, <2>3 DEF Guest
<1>9. CASE Operator
  <2>1. ASSUME NEW v \in Guests, ReviewRead(v) \/ ConfirmRead(v) \/ PrepareRead(v)
               \/ ReinputRead(v) \/ StopRead(v) \/ TerminateRead(v)
        PROVE  P
    BY <1>5, <2>1 DEF ReviewRead, ConfirmRead, PrepareRead, ReinputRead, StopRead, TerminateRead
  <2>2. ReviewWrite \/ ConfirmMark \/ PrepareQueue \/ ReinputWrite \/ StopQueue \/ TerminateWrite => P
    BY <1>1, <1>3 DEF ReviewWrite, ConfirmMark, PrepareQueue, ReinputWrite, StopQueue, TerminateWrite
  <2>3. ConfirmBook \/ ReinputQueue => P
    BY <1>6 DEF ConfirmBook, ReinputQueue, Staff
  <2> QED
    BY <1>9, <2>1, <2>2, <2>3 DEF Operator
<1>10. CASE Room
  BY <1>2, <1>10 DEF Room, Run, CommandEnds, StartByHand, GameEnds, StopForgotten
<1>11. CASE Server
  <2>1. ASSUME NEW a \in DOMAIN ask, Lost(a) PROVE P
    BY <1>3, <2>1 DEF Lost
  <2>2. AckResult \/ NoVisit \/ AutoComplete \/ ReportDone \/ (\E v \in Guests : Plays(v) \/ Ends(v)) => P
    BY <1>1, <1>3, <1>7 DEF AckResult, NoVisit, AutoComplete, ReportDone, Plays, Ends
  <2>3. AckArrives \/ SyncSent \/ Report => P
    BY <1>4 DEF AckArrives, SyncSent, Report
  <2> QED
    BY <1>11, <2>1, <2>2, <2>3 DEF Server
<1> QED
  BY <1>8, <1>9, <1>10, <1>11 DEF GameNext

\* A visit does not go back behind what its requests read.
LEMMA BehindStep ==
  ASSUME GameTypeOK, OrderInv, GameNext
  PROVE  Behind'
<1>1. TablesOK /\ TablesOK' /\ AsksOK /\ AsksOK' /\ \A v \in Guests : trip'[v].cur >= trip[v].cur
  BY TablesStep, AsksStep DEF OrderInv, GameTypeOK
<1> SUFFICES ASSUME NEW a \in Guests \cup {"staff"}, (ask[a])' # NoAsk PROVE (ask[a].n <= trip[ask[a].v].cur)'
  BY DEF Behind
<1>2. \A v \in Guests : trip[v].cur \in Nat /\ trip'[v].cur \in Nat
  BY <1>1, RoundsAre DEF TablesOK
<1>3. AskKept(a)
  BY AsksKept
<1>4. CASE ask[a] # NoAsk /\ ask'[a].v = ask[a].v /\ ask'[a].n = ask[a].n
  <2>1. ask[a].v \in Guests /\ ask[a].n \in Rounds /\ ask[a].n \in Nat
    BY <1>1, <1>4, AskIs, RoundsAre
  <2>2. ask[a].n <= trip[ask[a].v].cur
    BY <1>4 DEF OrderInv, Behind
  <2>3. trip'[ask[a].v].cur >= trip[ask[a].v].cur
    BY <1>1, <2>1
  <2> QED
    BY <1>2, <1>4, <2>1, <2>2, <2>3
<1>5. CASE UNCHANGED trip /\ ask'[a].v \in Guests /\ ask'[a].n = trip[ask'[a].v].cur
  BY <1>2, <1>5
<1> QED
  BY <1>3, <1>4, <1>5 DEF AskKept

\* What the order asks of one visit.
InOrder(v) ==
  /\ \A n \in Rounds :
       /\ n < trip[v].cur => round[v][n] = "COMPLETED"
       /\ n > trip[v].cur => round[v][n] \in {"NONE", "RESERVED", "PAID_WAITING"}
       /\ trip[v].status = "COMPLETED" => round[v][n] # "PAID_WAITING"
       /\ round[v][n] = "NONE" <=> n > Paid[v]
  /\ \/ \A n \in Rounds : round[v][n] # "RESERVED"
     \/ trip[v].cur = 1 /\ \A n \in Rounds : round[v][n] # "PAID_WAITING"
\* A visit whose rows did not change is in order.
LEMMA InOrderKept ==
  ASSUME NEW v, InOrder(v), trip'[v].cur = trip[v].cur, \A n \in Rounds : round'[v][n] = round[v][n],
         trip'[v].status = "COMPLETED" => trip[v].status = "COMPLETED"
  PROVE  InOrder(v)'
  BY DEF InOrder

\* A visit that is marked as paid is in order: its request read a game that is not
\* ahead of it.
LEMMA InOrderMarked ==
  ASSUME TablesOK, NEW v \in Guests, InOrder(v), NEW n \in Rounds, n <= trip[v].cur, MarkAfterPayment(v, n)
  PROVE  InOrder(v)'
<1>1. trip[v].cur \in Nat /\ n \in Nat
  BY RoundsAre DEF TablesOK
<1>2. trip'[v].status = "PREPARING" /\ trip'[v].cur = trip[v].cur
  BY MarkIs
<1>3. \A m \in Rounds : round'[v][m] = IF round[v][m] # "RESERVED" THEN round[v][m]
                                      ELSE IF m = n THEN "PREPARING" ELSE "PAID_WAITING"
  BY MarkIs
<1>4. ASSUME NEW m \in Rounds
      PROVE  /\ m < trip'[v].cur => round'[v][m] = "COMPLETED"
             /\ m > trip'[v].cur => round'[v][m] \in {"NONE", "RESERVED", "PAID_WAITING"}
             /\ round'[v][m] # "RESERVED"
             /\ round'[v][m] = "NONE" <=> m > Paid[v]
  <2>1. /\ m < trip[v].cur => round[v][m] = "COMPLETED"
        /\ m > trip[v].cur => round[v][m] \in {"NONE", "RESERVED", "PAID_WAITING"}
        /\ round[v][m] = "NONE" <=> m > Paid[v]
    BY DEF InOrder
  <2>2. m \in Nat
    BY RoundsAre
  <2>3. m > trip[v].cur => m # n
    BY <1>1, <2>2
  <2> QED
    BY <1>2, <1>3, <2>1, <2>3
<1> QED
  BY <1>2, <1>4 DEF InOrder

\* A visit that a message of the bridge moves is in order.
LEMMA InOrderTurned ==
  ASSUME TablesOK, NEW v \in Guests, InOrder(v), Turned(v)
  PROVE  InOrder(v)'
<1>1. trip[v].cur \in Nat /\ trip'[v].cur = trip[v].cur /\ (trip'[v].status = "COMPLETED" => trip[v].status = "COMPLETED")
  BY RoundsAre DEF TablesOK, Turned
<1>2. ASSUME NEW m \in Rounds
      PROVE  \/ round'[v][m] = round[v][m]
             \/ m = trip[v].cur /\ round[v][m] # "NONE" /\ round'[v][m] \in {"READY_TO_PLAY", "PLAYING"}
  BY DEF Turned
<1>3. ASSUME NEW m \in Rounds
      PROVE  /\ m < trip'[v].cur => round'[v][m] = "COMPLETED"
             /\ m > trip'[v].cur => round'[v][m] \in {"NONE", "RESERVED", "PAID_WAITING"}
             /\ trip'[v].status = "COMPLETED" => round'[v][m] # "PAID_WAITING"
             /\ round'[v][m] = "NONE" <=> m > Paid[v]
             /\ round[v][m] # "RESERVED" => round'[v][m] # "RESERVED"
             /\ round[v][m] # "PAID_WAITING" => round'[v][m] # "PAID_WAITING"
  BY <1>1, <1>2 DEF InOrder
<1> QED
  BY <1>1, <1>3 DEF InOrder

\* A visit whose game has ended is in order: it goes to the next game, or ends
\* with none that waits.
LEMMA InOrderEnded ==
  ASSUME TablesOK, GamesInOrder, RoundsPaid, Released, NEW v \in Guests, InOrder(v), Ends(v)
  PROVE  InOrder(v)'
<1> DEFINE n == trip[v].cur
<1>1. n \in Rounds /\ n \in Nat /\ \A m \in Rounds : m \in Nat
  BY RoundsAre DEF TablesOK
<1>2. CASE /\ More(v) = {} /\ trip'[v].status = Closing(v) /\ trip'[v].cur = n
           /\ \A m \in Rounds : round'[v][m] = IF m = n /\ round[v][n] # "NONE" THEN Closing(v) ELSE round[v][m]
  <2>1. ASSUME NEW m \in Rounds
        PROVE  /\ m < n => round'[v][m] = "COMPLETED"
               /\ m > n => round'[v][m] \in {"NONE", "RESERVED", "PAID_WAITING"}
               /\ round'[v][m] = "NONE" <=> m > Paid[v]
               /\ round[v][m] # "RESERVED" => round'[v][m] # "RESERVED"
               /\ round[v][m] # "PAID_WAITING" => round'[v][m] # "PAID_WAITING"
    BY <1>1, <1>2 DEF InOrder, Closing
  <2>2. ASSUME NEW m \in Rounds, Closing(v) = "COMPLETED" PROVE round'[v][m] # "PAID_WAITING"
    <3>1. ~stopped
      BY <2>2 DEF Closing
    <3>2. CASE round[v][n] = "NONE"
      <4>1. Paid[v] \in Nat /\ n > Paid[v]
        BY <1>1, <3>2, GameConstants DEF InOrder
      <4>2. m > n => round[v][m] = "NONE"
        BY <1>1, <4>1 DEF InOrder
      <4>3. m < n => round[v][m] = "COMPLETED"
        BY DEF InOrder
      <4> QED
        BY <1>1, <1>2, <3>2, <4>2, <4>3
    <3>3. CASE round[v][n] # "NONE"
      <4>1. NextGames(v, n) = {}
        BY <1>2, <3>1, <3>3 DEF More
      <4>2. m > n => round[v][m] # "PAID_WAITING"
        BY <4>1 DEF NextGames
      <4>3. m < n => round[v][m] = "COMPLETED"
        BY DEF InOrder
      <4> QED
        BY <1>1, <1>2, <2>2, <3>3, <4>2, <4>3
    <3> QED
      BY <3>2, <3>3
  <2> QED
    BY <1>2, <2>1, <2>2 DEF InOrder
<1>3. CASE /\ ~stopped /\ n + 1 \in Rounds /\ round[v][n + 1] = "PAID_WAITING" /\ round[v][n] # "NONE"
           /\ trip'[v].status = "PREPARING" /\ trip'[v].cur = n + 1
           /\ \A m \in Rounds : round'[v][m] = IF m = n THEN "COMPLETED"
                                            ELSE IF m = n + 1 THEN "PREPARING" ELSE round[v][m]
  <2>1. ASSUME NEW m \in Rounds
        PROVE  /\ m < n + 1 => round'[v][m] = "COMPLETED"
               /\ m > n + 1 => round'[v][m] \in {"NONE", "RESERVED", "PAID_WAITING"}
               /\ round'[v][m] # "RESERVED"
    <3>1. /\ m < n => round[v][m] = "COMPLETED"
          /\ m > n => round[v][m] \in {"NONE", "RESERVED", "PAID_WAITING"}
          /\ round[v][m] # "RESERVED"
      BY <1>3 DEF InOrder
    <3>2. m < n + 1 => m < n \/ m = n
      BY <1>1
    <3>3. m > n + 1 => m > n /\ m # n /\ m # n + 1
      BY <1>1
    <3>4. round'[v][m] = IF m = n THEN "COMPLETED" ELSE IF m = n + 1 THEN "PREPARING" ELSE round[v][m]
      BY <1>3
    <3>5. n < n + 1 /\ ~(n + 1 < n + 1)
      BY <1>1
    <3>6. m < n => m # n /\ m # n + 1
      BY <1>1
    <3> HIDE DEF n
    <3> QED
      BY <3>1, <3>2, <3>3, <3>4, <3>5, <3>6
  <2>2. ASSUME NEW m \in Rounds PROVE round'[v][m] = "NONE" <=> m > Paid[v]
    BY <1>3 DEF InOrder
  <2> QED
    BY <1>3, <2>1, <2>2 DEF InOrder
<1> QED
  BY <1>2, <1>3, EndsIs

\* Every step leaves the visits in order.
LEMMA OrderStep ==
  ASSUME GameTypeOK, OrderInv, GameNext
  PROVE  OrderInv'
<1>1. TablesOK /\ AsksOK /\ GamesInOrder /\ RoundsPaid /\ Released
  BY DEF GameTypeOK, OrderInv
<1>2. \A v \in Guests : InOrder(v)
  BY <1>1 DEF InOrder, GamesInOrder, RoundsPaid, Released
<1> DEFINE P == \A v \in Guests : InOrder(v)'
<1>3. P
  <2>1. CASE UNCHANGED <<trip, round>>
    BY <1>2, <2>1, InOrderKept
  <2>2. ASSUME NEW v \in Guests, NEW status \in Statuses, StatusOnly(v, status) PROVE P
    <3>1. status \in TripStates /\ status # "COMPLETED"
      BY DEF Statuses, TripStates, Terminable, Paying, Reenterable
    <3>2. /\ trip'[v].status = status /\ \A u \in Guests : trip'[u].cur = trip[u].cur
          /\ \A u \in Guests \ {v} : trip'[u] = trip[u]
      BY <1>1, <2>2, <3>1, StatusIs DEF StatusOnly
    <3> QED
      BY <1>2, <2>2, <3>1, <3>2, InOrderKept DEF StatusOnly, tables
  <2>3. ASSUME NEW a \in Guests \cup {"staff"}, MarkedBy(a) PROVE P
    <3>1. ask[a] # NoAsk /\ ask[a].v \in Guests /\ ask[a].n \in Rounds
      BY <1>1, <2>3, AskIs DEF MarkedBy
    <3>2. PICK v \in Guests : v = ask[a].v
      BY <3>1
    <3>3. ask[a].n <= trip[v].cur
      BY <3>1, <3>2 DEF OrderInv, Behind
    <3>4. MarkAfterPayment(v, ask[a].n)
      BY <2>3, <3>2 DEF MarkedBy
    <3>5. InOrder(v)'
      BY <1>1, <1>2, <3>1, <3>3, <3>4, InOrderMarked
    <3>6. \A u \in Guests \ {v} : trip'[u] = trip[u] /\ round'[u] = round[u]
      BY <1>1, <3>1, <3>4, MarkIs
    <3> QED
      BY <1>2, <3>5, <3>6, InOrderKept
  <2>4. ASSUME NEW v \in Guests, Turned(v) PROVE P
    <3>1. InOrder(v)'
      BY <1>1, <1>2, <2>4, InOrderTurned
    <3>2. \A u \in Guests \ {v} : trip'[u] = trip[u] /\ round'[u] = round[u]
      BY <2>4 DEF Turned
    <3> QED
      BY <1>2, <3>1, <3>2, InOrderKept
  <2>5. ASSUME NEW v \in Guests, Ends(v) PROVE P
    <3>1. InOrder(v)'
      BY <1>1, <1>2, <2>5, InOrderEnded
    <3>2. \A u \in Guests \ {v} : trip'[u] = trip[u] /\ round'[u] = round[u]
      BY <1>1, <2>5, EndsIs
    <3> QED
      BY <1>2, <3>1, <3>2, InOrderKept
  <2>6. CASE AutoComplete
    BY <1>1, <1>2, <2>6, AutoCompleteIs, InOrderKept
  <2>7. AckResult => Bridge.v \in Guests
    BY <1>1, BridgeIs DEF AckResult
  <2>8. UNCHANGED <<trip, tables>> => UNCHANGED <<trip, round>>
    BY DEF tables
  <2> HIDE DEF P
  <2> QED
    BY <1>1, <2>1, <2>2, <2>3, <2>4, <2>5, <2>6, <2>7, <2>8, Writers, TurnIs
<1>4. (GamesInOrder /\ RoundsPaid /\ Released)'
  BY <1>3 DEF InOrder, GamesInOrder, RoundsPaid, Released
<1> QED
  BY <1>4, BehindStep DEF OrderInv

-----------------------------------------------------------------------------
(* The stamps, and the theorems.                                           *)

\* Whoever books a stamp books it under the key of its reservation.
LEMMA KeyedStep ==
  ASSUME GameTypeOK, Keyed, GameNext
  PROVE  Keyed'
<1>1. TablesOK /\ AsksOK
  BY DEF GameTypeOK
<1>2. ledger' = ledger \/ \E v, n : ledger' = ledger \cup {[key |-> SeatKey(v, n), seat |-> <<v, n>>]}
  <2>1. CASE UNCHANGED <<trip, tables>>
    BY <2>1 DEF tables
  <2>2. ASSUME NEW v \in Guests, NEW status \in Statuses, StatusOnly(v, status) PROVE UNCHANGED ledger
    BY <2>2 DEF StatusOnly, tables
  <2>3. ASSUME NEW a \in Guests \cup {"staff"}, MarkedBy(a) PROVE UNCHANGED ledger
    BY <2>3 DEF MarkedBy, MarkAfterPayment
  <2>4. AckResult \/ (\E v \in Guests : Plays(v)) => UNCHANGED ledger
    BY DEF AckResult, Plays
  <2>5. ASSUME NEW v \in Guests, Ends(v)
        PROVE  ledger' = ledger \/ \E u, n : ledger' = ledger \cup {[key |-> SeatKey(u, n), seat |-> <<u, n>>]}
    BY <2>5 DEF Ends, Earn, StampKey
  <2>6. CASE AutoComplete
    BY <1>1, <2>6, AutoCompleteIs
  <2> QED
    BY <2>1, <2>2, <2>3, <2>4, <2>5, <2>6, Writers
<1>3. ASSUME NEW v, NEW n, NEW e, e = [key |-> SeatKey(v, n), seat |-> <<v, n>>]
      PROVE  e = [key |-> SeatKey(e.seat[1], e.seat[2]), seat |-> e.seat]
  BY <1>3
<1> QED
  BY <1>2, <1>3 DEF Keyed

\* Every visit begins unpaid, with its games reserved.
LEMMA GameStarts ==
  ASSUME GameInit
  PROVE  GInv
<1>1. "staff" \notin Guests /\ "bridge" \notin Guests /\ 1 \in Rounds /\ Rounds \subseteq Nat \ {0}
      /\ \A v \in Guests : Paid[v] \in Nat
  BY GameConstants, RoundsAre
<1>2. TablesOK
  BY <1>1 DEF GameInit, TablesOK, TripStates, Terminable, Paying, RoundStates
<1>3. RoomOK
  BY DEF GameInit, RoomOK, Phases, Teams
<1>4. AsksOK /\ \A a \in Guests \cup {"staff", "bridge"} : ask[a] = NoAsk
  BY <1>1 DEF GameInit, AsksOK, ScreenAsk, StaffAsk, BridgeAsk
<1>5. MoneyInv
  BY <1>4 DEF GameInit, MoneyInv, PaidBeforePlay, Confirmed, OnTheWay, NoAsk
<1>6. ASSUME NEW v \in Guests, NEW n \in Rounds
      PROVE  /\ round[v][n] = IF n <= Paid[v] THEN "RESERVED" ELSE "NONE"
             /\ trip[v].status = "PAYMENT_PENDING" /\ trip[v].cur = 1
             /\ n \in Nat \ {0} /\ Paid[v] \in Nat
  BY <1>1 DEF GameInit
<1>7. GamesInOrder /\ RoundsPaid /\ Released /\ Behind
  <2>1. ASSUME NEW v \in Guests, NEW n \in Rounds
        PROVE  /\ n >= trip[v].cur /\ round[v][n] \in {"NONE", "RESERVED"} /\ trip[v].status # "COMPLETED"
               /\ round[v][n] = "NONE" <=> n > Paid[v]
    BY <1>6
  <2>2. GamesInOrder
    <3> SUFFICES ASSUME NEW v \in Guests, NEW n \in Rounds
                 PROVE  /\ n < trip[v].cur => round[v][n] = "COMPLETED"
                        /\ n > trip[v].cur => round[v][n] \in {"NONE", "RESERVED", "PAID_WAITING"}
                        /\ trip[v].status = "COMPLETED" => round[v][n] # "PAID_WAITING"
      BY DEF GamesInOrder
    <3>1. ~(n < trip[v].cur)
      BY <1>6
    <3> QED
      BY <2>1, <3>1
  <2>3. RoundsPaid
    BY <2>1 DEF RoundsPaid
  <2>4. Released
    BY <1>1, <1>6, <2>1 DEF Released
  <2>5. Behind
    BY <1>4 DEF Behind
  <2> QED
    BY <2>2, <2>3, <2>4, <2>5
<1>8. Keyed
  BY DEF GameInit, Keyed
<1> QED
  BY <1>2, <1>3, <1>4, <1>5, <1>7, <1>8 DEF GInv, GameTypeOK, OrderInv

\* And nothing but a step of the program writes the variables.
LEMMA GameStutters ==
  ASSUME GInv, UNCHANGED gvars
  PROVE  GInv'
<1>1. GameTypeOK'
  BY DEF GInv, gvars, GameTypeOK, TablesOK, RoomOK, AsksOK
<1>2. MoneyInv'
  BY DEF GInv, gvars, MoneyInv, PaidBeforePlay, Confirmed
<1>3. OrderInv' /\ Keyed'
  BY DEF GInv, gvars, OrderInv, GamesInOrder, RoundsPaid, Released, Behind, Keyed
<1> QED
  BY <1>1, <1>2, <1>3 DEF GInv

\* The inductive invariant of the visit: the types of its rows and requests, the
\* payment behind everything that is on its way, the order of the games and the
\* keys of the stamps.
THEOREM GameInvariant == GameSpec => []GInv
<1>1. ASSUME GInv, GameNext PROVE GInv'
  <2>1. GameTypeOK'
    BY <1>1, TablesStep, RoomStep, AsksStep DEF GInv, OrderInv, GameTypeOK
  <2>2. MoneyInv' /\ OrderInv' /\ Keyed'
    BY <1>1, MoneyStep, OrderStep, KeyedStep DEF GInv, OrderInv
  <2> QED
    BY <2>1, <2>2 DEF GInv
<1> QED
  BY <1>1, GameStarts, GameStutters, PTL DEF GameSpec

\* The rows and the requests hold only what the handlers know.
THEOREM GameTypeCorrect == GameSpec => []GameTypeOK
<1>1. GInv => GameTypeOK
  BY DEF GInv
<1> QED
  BY <1>1, GameInvariant, PTL

\* Nobody is prepared, started or playing unpaid, unless staff sent the visit on
\* from the review of its payment.
THEOREM NobodyPlaysUnpaid == GameSpec => []PaidBeforePlay
<1>1. GInv => PaidBeforePlay
  BY DEF GInv, MoneyInv
<1> QED
  BY <1>1, GameInvariant, PTL

\* A game earns its stamps once, from whichever end of it, however often told.
THEOREM StampedOnce == GameSpec => []StampsOnce
<1>1. GInv => StampsOnce
  BY DEF GInv, Keyed, StampsOnce
<1> QED
  BY <1>1, GameInvariant, PTL

\* The games of a visit are played in their order, and none that was paid for
\* waits when it is completed.
THEOREM PlayedInOrder == GameSpec => []GamesInOrder
<1>1. GInv => GamesInOrder
  BY DEF GInv, OrderInv
<1> QED
  BY <1>1, GameInvariant, PTL

-----------------------------------------------------------------------------
(* The screen: what it does goes on while the party and the draft of the   *)
(* form are on their way, so that the invariant says of each request and   *)
(* each answer which of what the customer entered it still speaks for.     *)

Drafting == {"draft", "assign", "quote"}
Kinds == Drafting \cup {"party", "guide", "checkout", "reset"}
Stages == {"sent", "write", "hold", "price", "bill", "answer"}
Handlers == {"assign", "guide", "quote", "checkout"}
ScreenStatuses == {"NONE", "DRAFT", "HOLD", "PAYMENT_PENDING", "CANCELLED"}
SizeOrNone == Sizes \cup {0}
BenefitOrNone == Benefits \cup {0}
ScreenRow == [status : ScreenStatuses, rev : Nat, party : SizeOrNone, benefit : BenefitOrNone, final : Sum, agreed : BOOLEAN]
Sent == [kind : Kinds, of : Gens, at : Stages, rev : Nat, party : SizeOrNone, benefit : BenefitOrNone,
         sum : Sum, due : Nat, seen : ScreenRow, awaited : BOOLEAN, ok : BOOLEAN]
Work == [op : Handlers \cup {"none"}, at : {"", "barrier", "sent"}, of : 0..MaxGen, benefit : BenefitOrNone,
         party : SizeOrNone, sum : Sum, due : Nat]
Shown == [of : 0..MaxGen, status : ScreenStatuses, party : SizeOrNone, final : Sum, items : Nat]
Billed == [of : Gens, entered : SizeOrNone, shown : Sum, found : Sum, agreed : BOOLEAN]

ClientShapes ==
  /\ gen \in 0..MaxGen /\ session \in {"none", "asked", "have"}
  /\ screen \in {"home", "party", "difficulty", "assigning", "form", "review", "payment", "help"}
  /\ form \in Draft /\ queue \in Draft /\ drain \in Draft
  /\ tasks \in Seq([party : Sizes, sent : BOOLEAN])
  /\ ticket \in [party : SizeOrNone, status : {"none", "pending", "done", "failed"}]
  /\ work \in Work /\ (work.op = "none" <=> work = NoWork)
  /\ shown \in Shown
SharedShapes ==
  /\ wire \in SUBSET Sent /\ table \in [Gens -> ScreenRow]
  /\ bills \in SUBSET Billed
  /\ lost \subseteq Gens
ScreenShapes == ScreenConstants /\ ClientShapes /\ SharedShapes

Have == session = "have"
Mine == table[gen]
\* Of a visit the network let down nothing is promised.
Kept == Have /\ gen \notin lost

\* The parties being saved end in the one of the ticket, which is the form's.
TasksOK ==
  /\ tasks = <<>> <=> ticket.status # "pending"
  /\ tasks # <<>> => tasks[Len(tasks)].party = ticket.party
  /\ ticket.status \in {"pending", "done"} => ticket.party = form.party
  /\ screen \in {"form", "review", "payment"} \/ Busy => PartySaved
ClientOK ==
  /\ session # "none" => gen \in Gens
  /\ session = "none" => ticket.status \in {"none", "failed"} /\ Empty(queue) /\ Empty(drain)
  /\ session = "asked" => /\ ticket.status # "done" /\ Empty(drain)
                          /\ screen \in {"party", "difficulty", "assigning", "help"}
  /\ screen = "form" => Have
  /\ queue.rev <= form.rev /\ drain.rev <= form.rev
  /\ TasksOK
\* A handler is of the visit the kiosk is at, or nothing aborted it.
WorkOK ==
  /\ work.of <= gen /\ (work # NoWork => work.of \in Gens)
  /\ Busy => session # "asked" /\ (Have => work.of = gen)
  /\ work.op \in {"guide", "checkout"} /\ work.of = gen => Have
  /\ work.op = "quote" /\ work.at = "sent" /\ work.of = gen => Have
  /\ work.op = "assign" => /\ session # "none" /\ work.of = gen /\ screen \in {"assigning", "help"}
                           /\ work.at = "sent" => Have
  /\ work.op \in {"assign", "quote", "checkout"} /\ work.at = "sent" => PartySaved
  /\ work.op = "guide" => screen # "review"
  /\ work.op = "checkout" /\ work.of = gen => work.party = form.party
ShownOK ==
  /\ Have => shown.of \in {0, gen}
  /\ session = "asked" \/ (session = "none" /\ screen = "home") => shown.of = 0
  /\ shown.items > 0 => Have /\ Mine.agreed
TableOK ==
  /\ \A g \in Gens : g > gen \/ (g = gen /\ ~Have) => table[g] = NoRow
  /\ Have => Mine.status # "NONE" /\ Mine.rev <= form.rev
  /\ \A g \in Gens : table[g].agreed => table[g].status # "NONE"

\* What is waited for is waited for by someone; what was given up gets no answer.
AwaitedOK(m) ==
  /\ m.kind \in {"draft", "party", "assign"} => Have /\ m.of = gen
  /\ m.kind = "draft" => ~Empty(drain)
  /\ m.kind = "party" => tasks # <<>> /\ tasks[1].sent /\ m.party = tasks[1].party
  /\ m.kind \in Handlers => work.op = m.kind /\ work.at = "sent" /\ work.of = m.of
  /\ m.kind \in {"assign", "quote", "checkout"} /\ m.of = gen => m.party = form.party
GivenUpOK(m) ==
  /\ m.at # "answer"
  /\ m.kind = "party" => m.of < gen \/ m.of \in lost
  /\ m.kind \in {"quote", "checkout"} => m.of \in lost
MessageOK(m) ==
  /\ m.of <= gen /\ (m.of = gen => Have) /\ table[m.of].status # "NONE"
  /\ m.kind \in Drafting /\ m.of = gen => m.rev <= form.rev
  /\ m.awaited => AwaitedOK(m)
  /\ ~m.awaited => GivenUpOK(m)
OneAwaited == \A m, n \in wire : m.awaited /\ n.awaited /\ m.kind = n.kind => m = n
WireOK == OneAwaited /\ \A m \in wire : MessageOK(m)

\* Nothing that is under way changes the party of the row any more.
Unread(m) == m.at \in {"sent", "write"}
Before(rev) == queue.rev < rev /\ drain.rev < rev
Settled(g) ==
  /\ \A m \in wire : m.of = g /\ Unread(m) =>
       m.kind # "party" /\ (m.kind \in Drafting => m.rev < table[g].rev)
  /\ g = gen => Before(table[g].rev)
Entered == Settled(gen) /\ Mine.party = form.party
Cancelled == Mine.status = "CANCELLED"
Fits(g, party, sum) ==
  Settled(g) /\ table[g].party = party /\ sum = [party |-> party, benefit |-> table[g].benefit]

\* What the requests have read or were told, while nobody else changes it.
AnswerOK(m) ==
  /\ m.kind = "assign" /\ m.at = "answer" /\ m.ok /\ Kept =>
       m.seen.final = [party |-> m.party, benefit |-> Mine.benefit]
  /\ m.kind = "party" /\ m.awaited /\ (m.at = "write" \/ (m.at = "answer" /\ m.ok)) /\ Kept =>
       m.seen.benefit = Mine.benefit
  /\ m.kind = "guide" /\ m.at = "answer" /\ m.ok => table[m.of].agreed
\* The snapshot of a quote is newer than every other one that is to be written.
Newest(m) ==
  /\ m.rev = form.rev /\ Before(form.rev)
  /\ \A n \in wire : n # m /\ n.of = gen /\ n.kind \in Drafting /\ Unread(n) => n.rev < form.rev
QuoteOK(m) ==
  m.kind = "quote" =>
    /\ m.at = "answer" /\ m.ok => table[m.of].agreed
    /\ m.awaited /\ m.of = gen /\ gen \notin lost =>
         /\ Unread(m) => Newest(m)
         /\ m.at = "price" => Entered /\ m.seen.party = form.party
         /\ m.at = "answer" => Entered \/ Cancelled
         /\ m.at = "answer" /\ m.ok => m.seen.final = [party |-> form.party, benefit |-> Mine.benefit]
CheckoutOK(m) ==
  m.kind = "checkout" =>
    /\ m.at \in {"sent", "bill"} => table[m.of].agreed
    /\ m.at \in {"sent", "bill"} /\ m.of \notin lost =>
         (m.at = "sent" /\ table[m.of].status = "CANCELLED") \/ Fits(m.of, m.party, m.sum)
    /\ m.at = "answer" /\ m.ok => m.seen.status = "PAYMENT_PENDING"
EachOK(m) == AnswerOK(m) /\ QuoteOK(m) /\ CheckoutOK(m)
ServedOK == \A m \in wire : EachOK(m)

\* A checkout that waits for the party carries what the row comes to.
PayingOK ==
  work.op = "checkout" =>
    /\ table[work.of].agreed
    /\ Have => shown.items > 0
    /\ work.at = "barrier" /\ work.of \notin lost =>
         table[work.of].status = "CANCELLED" \/ Fits(work.of, work.party, work.sum)
Quoted(m) == m.kind = "quote" /\ m.at = "answer" /\ m.ok /\ m.of = gen
ReviewOK ==
  Kept =>
    /\ (screen = "review" /\ work = NoWork /\ shown.items > 0) \/ work.op = "checkout" => Entered \/ Cancelled
    /\ Mine.benefit = shown.final.benefit \/ \E m \in wire : Quoted(m)
    /\ PartySaved /\ shown.items > 0 => shown.final.party = form.party
BillPaid(m) == m.kind = "checkout" /\ m.at = "answer" /\ m.ok /\ m.of = gen
\* A row is billed while the kiosk waits for the bill, or shows it.
PaidOK ==
  Kept /\ Mine.status = "PAYMENT_PENDING" =>
    \/ work.op = "checkout" /\ work.at = "sent" /\ \E m \in wire : BillPaid(m)
    \/ work = NoWork /\ screen \in {"payment", "help"} /\ shown.status = "PAYMENT_PENDING"

ScreenInv ==
  /\ ScreenShapes /\ ClientOK /\ WorkOK /\ ShownOK /\ TableOK /\ WireOK
  /\ ServedOK /\ PayingOK /\ ReviewOK /\ PaidOK /\ PaysWhatIsShown

-----------------------------------------------------------------------------
\* What serving a message makes of it.
Moved(m, at) == [m EXCEPT !.at = at]
Priced(m, at, known) == [m EXCEPT !.at = at, !.seen = known]
Told(m, ok, known) == [m EXCEPT !.at = "answer", !.ok = ok, !.seen = known, !.rev = 0, !.sum = NoSum, !.due = 0]

LEMMA Constants ==
  /\ NoSum \in Sum /\ NoRow \in ScreenRow /\ NoDraft \in Draft
  /\ NoSum.party = 0 /\ NoSum.benefit = 0
  /\ NoRow.status = "NONE" /\ NoRow.rev = 0 /\ NoRow.party = 0 /\ NoRow.benefit = 0 /\ NoRow.final = NoSum /\ ~NoRow.agreed
  /\ NoDraft.rev = 0 /\ NoDraft.party = 0
  /\ NoWork.op = "none" /\ NoWork.at = "" /\ NoWork.of = 0
<1>1. NoSum \in Sum /\ NoSum.party = 0 /\ NoSum.benefit = 0
  BY DEF NoSum, Sum
<1>2. NoDraft \in Draft /\ NoDraft.rev = 0 /\ NoDraft.party = 0
  BY DEF NoDraft, Draft
<1>3. /\ NoRow.status = "NONE" /\ NoRow.rev = 0 /\ NoRow.party = 0 /\ NoRow.benefit = 0
      /\ NoRow.final = NoSum /\ ~NoRow.agreed
  BY DEF NoRow
<1>4. NoRow \in ScreenRow
  BY <1>1 DEF NoRow, ScreenRow, ScreenStatuses, SizeOrNone, BenefitOrNone
<1>5. NoWork.op = "none" /\ NoWork.at = "" /\ NoWork.of = 0
  BY DEF NoWork
<1> QED
  BY <1>1, <1>2, <1>3, <1>4, <1>5

LEMMA Fields ==
  ASSUME NEW m \in Sent
  PROVE  /\ m.kind \in Kinds /\ m.of \in Gens /\ m.at \in Stages /\ m.rev \in Nat /\ m.party \in SizeOrNone
         /\ m.benefit \in BenefitOrNone /\ m.sum \in Sum /\ m.due \in Nat /\ m.seen \in ScreenRow
         /\ m.awaited \in BOOLEAN /\ m.ok \in BOOLEAN
BY DEF Sent

LEMMA RowFields ==
  ASSUME NEW r \in ScreenRow
  PROVE  /\ r.status \in ScreenStatuses /\ r.rev \in Nat /\ r.party \in SizeOrNone /\ r.benefit \in BenefitOrNone
         /\ r.final \in Sum /\ r.agreed \in BOOLEAN
BY DEF ScreenRow

LEMMA MovedIs ==
  ASSUME NEW m \in Sent, NEW at \in Stages
  PROVE  /\ Moved(m, at) \in Sent /\ Moved(m, at).kind = m.kind /\ Moved(m, at).of = m.of /\ Moved(m, at).at = at
         /\ Moved(m, at).rev = m.rev /\ Moved(m, at).party = m.party /\ Moved(m, at).benefit = m.benefit
         /\ Moved(m, at).sum = m.sum /\ Moved(m, at).due = m.due /\ Moved(m, at).seen = m.seen
         /\ Moved(m, at).awaited = m.awaited /\ Moved(m, at).ok = m.ok
BY DEF Sent, Moved

LEMMA PricedIs ==
  ASSUME NEW m \in Sent, NEW at \in Stages, NEW known \in ScreenRow
  PROVE  /\ Priced(m, at, known) \in Sent /\ Priced(m, at, known).kind = m.kind /\ Priced(m, at, known).of = m.of
         /\ Priced(m, at, known).at = at /\ Priced(m, at, known).rev = m.rev /\ Priced(m, at, known).party = m.party
         /\ Priced(m, at, known).benefit = m.benefit /\ Priced(m, at, known).seen = known
         /\ Priced(m, at, known).awaited = m.awaited /\ Priced(m, at, known).ok = m.ok
BY DEF Sent, Priced

LEMMA ToldIs ==
  ASSUME NEW m \in Sent, NEW ok \in BOOLEAN, NEW known \in ScreenRow
  PROVE  /\ Told(m, ok, known) \in Sent /\ Told(m, ok, known).kind = m.kind /\ Told(m, ok, known).of = m.of
         /\ Told(m, ok, known).at = "answer" /\ Told(m, ok, known).rev = 0 /\ Told(m, ok, known).party = m.party
         /\ Told(m, ok, known).benefit = m.benefit /\ Told(m, ok, known).seen = known
         /\ Told(m, ok, known).awaited = m.awaited /\ Told(m, ok, known).ok = ok
BY Constants DEF Sent, Told, Stages

LEMMA AnswerIs ==
  ASSUME NEW m, NEW ok, NEW known, Answer(m, ok, known)
  PROVE  /\ m.awaited => wire' = (wire \ {m}) \cup {Told(m, ok, known)}
         /\ ~m.awaited => wire' = wire \ {m}
BY DEF Answer, Told

LEMMA WireTyped ==
  ASSUME ScreenShapes, NEW m \in wire
  PROVE  m \in Sent /\ m.of \in Gens /\ table[m.of] \in ScreenRow
BY Fields DEF ScreenShapes, SharedShapes

-----------------------------------------------------------------------------
(* The steps of the server.                                                *)

\* What they have in common: a message is replaced, one row may change.
Serves1(m, x) ==
  /\ m \in wire /\ m.at # "answer"
  /\ wire' = wire \ {m} \/ wire' = (wire \ {m}) \cup {x}
  /\ x \in Sent /\ x.kind = m.kind /\ x.of = m.of /\ x.party = m.party /\ x.benefit = m.benefit
  /\ x.awaited = m.awaited /\ x.rev <= m.rev
  /\ x.at = "answer" => x.awaited
  /\ Unread(x) => Unread(m) /\ x.rev = m.rev
  /\ table' \in [Gens -> ScreenRow]
  /\ \A g \in Gens : g # m.of => table'[g] = table[g]
  /\ table'[m.of].rev >= table[m.of].rev
  /\ table'[m.of].rev = table[m.of].rev \/ (m.kind \in Drafting /\ table'[m.of].rev = m.rev)
  /\ table[m.of].agreed => table'[m.of].agreed
  /\ table'[m.of].status # "NONE"
  /\ UNCHANGED <<client, lost>>

LEMMA ServedTable ==
  ASSUME ScreenShapes, NEW m, NEW x, Serves1(m, x), NEW g \in Gens
  PROVE  /\ table[g] \in ScreenRow /\ table'[g] \in ScreenRow
         /\ table'[g].rev >= table[g].rev
         /\ table[g].agreed => table'[g].agreed
         /\ table[g].status # "NONE" => table'[g].status # "NONE"
<1>1. table[g] \in ScreenRow /\ table'[g] \in ScreenRow
  BY DEF ScreenShapes, SharedShapes, Serves1
<1>2. CASE g = m.of
  BY <1>1, <1>2 DEF Serves1
<1>3. CASE g # m.of
  <2>1. table'[g] = table[g]
    BY <1>3 DEF Serves1
  <2> QED
    BY <1>1, <2>1, RowFields
<1> QED
  BY <1>2, <1>3

LEMMA ServedMessage ==
  ASSUME ScreenShapes, NEW m, NEW x, Serves1(m, x), NEW n \in wire'
  PROVE  n \in Sent /\ ((n \in wire /\ n # m) \/ n = x)
BY DEF ScreenShapes, SharedShapes, Serves1

LEMMA ServedShapes ==
  ASSUME ScreenShapes, NEW m, NEW x, Serves1(m, x), bills' \in SUBSET Billed
  PROVE  ScreenShapes'
<1>1. ClientShapes'
  BY DEF ScreenShapes, ClientShapes, Serves1, client
<1>2. wire' \in SUBSET Sent
  BY ServedMessage
<1>3. SharedShapes'
  BY <1>2 DEF ScreenShapes, SharedShapes, Serves1
<1> QED
  BY <1>1, <1>3 DEF ScreenShapes, ScreenConstants

LEMMA ServedClient ==
  ASSUME ScreenShapes, NEW m, NEW x, Serves1(m, x), ClientOK, WorkOK, ShownOK, TableOK, WireOK
  PROVE  ClientOK' /\ WorkOK' /\ ShownOK' /\ TableOK'
<1> USE DEF Serves1
<1>0. UNCHANGED <<gen, screen, session, form, queue, drain, tasks, ticket, work, shown>>
  BY DEF client
<1>1. ClientOK' /\ WorkOK'
  BY <1>0 DEF ClientOK, WorkOK, TasksOK, PartySaved, Busy, Empty, Have
<1>2. ShownOK'
  <2>1. ASSUME shown.items > 0
        PROVE  Have /\ Mine'.agreed
    <3>1. Have /\ Mine.agreed /\ gen \in Gens
      BY <2>1 DEF ShownOK, ClientOK, Have
    <3> QED
      BY <1>0, <3>1, ServedTable DEF Mine
  <2> QED
    BY <1>0, <2>1 DEF ShownOK, Have
<1>3. TableOK'
  <2>1. m \in Sent /\ m.of \in Gens /\ MessageOK(m)
    BY WireTyped DEF WireOK
  <2>2. ASSUME NEW g \in Gens, g > gen \/ (g = gen /\ ~Have)
        PROVE  table'[g] = NoRow
    <3>1. g # m.of
      BY <2>1, <2>2, Fields DEF MessageOK, ScreenShapes, ClientShapes, Gens, ScreenConstants
    <3> QED
      BY <2>2, <3>1 DEF TableOK
  <2>3. ASSUME Have
        PROVE  Mine'.status # "NONE" /\ Mine'.rev <= form.rev
    <3>1. gen \in Gens /\ Mine.status # "NONE" /\ Mine.rev <= form.rev
      BY <2>3 DEF ClientOK, TableOK, Have
    <3>2. Mine' = table'[gen]
      BY <1>0 DEF Mine
    <3>3. CASE gen # m.of
      BY <3>1, <3>2, <3>3 DEF Mine
    <3>4. CASE gen = m.of
      <4>1. m.kind \in Drafting => m.rev <= form.rev
        BY <2>1, <3>4 DEF MessageOK
      <4> QED
        BY <3>1, <3>2, <3>4, <4>1 DEF Mine
    <3> QED
      BY <3>3, <3>4
  <2> QED
    BY <1>0, <2>2, <2>3 DEF TableOK, Have
<1> QED
  BY <1>1, <1>2, <1>3

LEMMA ServedWire ==
  ASSUME ScreenShapes, NEW m, NEW x, Serves1(m, x), WireOK
  PROVE  WireOK'
<1>0. UNCHANGED <<gen, screen, session, form, queue, drain, tasks, ticket, work, shown, lost>>
  BY DEF client, Serves1
<1>1. /\ m \in wire /\ m.at # "answer" /\ x \in Sent /\ x.kind = m.kind /\ x.of = m.of /\ x.party = m.party
      /\ x.awaited = m.awaited /\ x.rev <= m.rev /\ (x.at = "answer" => x.awaited) /\ m \in Sent
  BY WireTyped DEF Serves1
<1>2. OneAwaited'
  BY <1>1, ServedMessage DEF OneAwaited, WireOK
<1>3. ASSUME NEW n \in wire'
      PROVE  MessageOK(n)'
  <2>1. PICK o \in wire : /\ o \in Sent /\ n \in Sent /\ n.kind = o.kind /\ n.of = o.of /\ n.party = o.party
                          /\ n.awaited = o.awaited /\ n.rev <= o.rev /\ (n.at = "answer" => n.awaited \/ n = o)
    <3>1. CASE n = x
      BY <1>1, <3>1
    <3>2. CASE n # x
      <4>1. n \in wire /\ n \in Sent
        BY <3>2, ServedMessage
      <4> QED
        BY <4>1, Fields
    <3> QED
      BY <3>1, <3>2
  <2>2. MessageOK(o) /\ o.of \in Gens
    BY <2>1, WireTyped DEF WireOK
  <2>3. table'[o.of].status # "NONE"
    BY <2>2, ServedTable DEF MessageOK
  <2>4. /\ n.of <= gen' /\ (n.of = gen' => Have') /\ table'[n.of].status # "NONE"
        /\ n.kind \in Drafting /\ n.of = gen' => n.rev <= form'.rev
    BY <1>0, <2>1, <2>2, <2>3, Fields DEF MessageOK, Have, ScreenShapes, ClientShapes, Draft
  <2>5. n.awaited => AwaitedOK(n)'
    BY <1>0, <2>1, <2>2 DEF MessageOK, AwaitedOK, Have, Empty
  <2>6. ~n.awaited => GivenUpOK(n)'
    BY <1>0, <2>1, <2>2 DEF MessageOK, GivenUpOK
  <2> QED
    BY <2>4, <2>5, <2>6 DEF MessageOK
<1> QED
  BY <1>2, <1>3 DEF WireOK

LEMMA ServedSettled ==
  ASSUME ScreenShapes, NEW m, NEW x, Serves1(m, x), NEW g \in Gens, Settled(g)
  PROVE  Settled(g)'
<1>0. UNCHANGED <<gen, queue, drain>>
  BY DEF client, Serves1
<1>1. /\ m \in wire /\ x \in Sent /\ x.kind = m.kind /\ x.of = m.of
      /\ (Unread(x) => Unread(m) /\ x.rev = m.rev) /\ m \in Sent
  BY WireTyped DEF Serves1
<1>2. /\ table[g].rev \in Nat /\ table'[g].rev \in Nat /\ table'[g].rev >= table[g].rev
  BY ServedTable, RowFields
<1>3. ASSUME NEW n \in wire', n.of = g, Unread(n)
      PROVE  n.kind # "party" /\ (n.kind \in Drafting => n.rev < table'[g].rev)
  <2>1. PICK o \in wire : o \in Sent /\ n.kind = o.kind /\ o.of = g /\ Unread(o) /\ n.rev = o.rev
    <3>1. CASE n = x
      BY <1>1, <1>3, <3>1
    <3>2. CASE n # x
      BY <1>3, <3>2, ServedMessage
    <3> QED
      BY <3>1, <3>2
  <2>2. o.kind # "party" /\ (o.kind \in Drafting => o.rev < table[g].rev)
    BY <2>1 DEF Settled
  <2> QED
    BY <1>2, <2>1, <2>2, Fields
<1>4. ASSUME g = gen
      PROVE  queue.rev < table'[g].rev /\ drain.rev < table'[g].rev
  <2>1. queue.rev < table[g].rev /\ drain.rev < table[g].rev
    BY <1>4 DEF Settled, Before
  <2>2. queue.rev \in Nat /\ drain.rev \in Nat
    BY DEF ScreenShapes, ClientShapes, Draft
  <2> QED
    BY <1>2, <2>1, <2>2
<1>5. Unread(x)' <=> Unread(x)
  BY DEF Unread
<1>6. Before(table[g].rev)' <=> queue.rev < table'[g].rev /\ drain.rev < table'[g].rev
  BY <1>0 DEF Before
<1> QED
  BY <1>0, <1>3, <1>4, <1>6 DEF Settled, Unread

\* A row that nothing else is to know of.
Steady(m) ==
  m.of \notin lost =>
  /\ table'[m.of].benefit = table[m.of].benefit
  /\ table[m.of].status = "CANCELLED" => table'[m.of].status = "CANCELLED"
  /\ table'[m.of].status = "PAYMENT_PENDING" => table[m.of].status = "PAYMENT_PENDING"
  /\ Settled(m.of) => table'[m.of].party = table[m.of].party

LEMMA SteadyTable ==
  ASSUME ScreenShapes, NEW m, NEW x, Serves1(m, x), Steady(m), NEW g \in Gens, g \notin lost
  PROVE  /\ table'[g].benefit = table[g].benefit
         /\ table[g].status = "CANCELLED" => table'[g].status = "CANCELLED"
         /\ table'[g].status = "PAYMENT_PENDING" => table[g].status = "PAYMENT_PENDING"
         /\ Settled(g) => table'[g].party = table[g].party
         /\ table[g].agreed => table'[g].agreed
<1>1. CASE g = m.of
  BY <1>1, ServedTable DEF Steady
<1>2. CASE g # m.of
  BY <1>2 DEF Serves1
<1> QED
  BY <1>1, <1>2

LEMMA SteadyFits ==
  ASSUME ScreenShapes, NEW m, NEW x, Serves1(m, x), Steady(m), NEW g \in Gens, g \notin lost
  PROVE  /\ \A party, sum : Fits(g, party, sum) => Fits(g, party, sum)'
         /\ g = gen /\ Entered => Entered'
<1>1. ASSUME Settled(g)
      PROVE  Settled(g)' /\ table'[g].party = table[g].party /\ table'[g].benefit = table[g].benefit
  BY <1>1, ServedSettled, SteadyTable
<1>2. ASSUME NEW party, NEW sum, Fits(g, party, sum)
      PROVE  Fits(g, party, sum)'
  <2>1. Settled(g) /\ table[g].party = party /\ sum = [party |-> party, benefit |-> table[g].benefit]
    BY <1>2 DEF Fits
  <2> QED
    BY <2>1, <1>1 DEF Fits
<1>3. ASSUME g = gen, Entered
      PROVE  Entered'
  <2>1. UNCHANGED <<gen, form>>
    BY DEF Serves1, client
  <2>2. Settled(gen) /\ table[gen].party = form.party
    BY <1>3 DEF Entered, Mine
  <2>3. Settled(gen)' /\ table'[gen].party = table[gen].party
    BY <1>3, <2>2, <1>1, <2>1
  <2> QED
    BY <2>1, <2>2, <2>3 DEF Entered, Mine
<1> QED
  BY <1>2, <1>3

LEMMA SteadyEach ==
  ASSUME ScreenInv, NEW m, NEW x, Serves1(m, x), Steady(m), NEW n \in wire, n # m
  PROVE  EachOK(n)'
<1>0. UNCHANGED <<gen, screen, session, form, queue, drain, tasks, ticket, work, shown, lost>>
  BY DEF client, Serves1
<1>1. ScreenShapes /\ EachOK(n) /\ MessageOK(n) /\ n.of \in Gens /\ n \in Sent /\ m \in wire /\ m \in Sent /\ ClientOK
  BY WireTyped DEF ScreenInv, ServedOK, WireOK, Serves1
<1>2. /\ n.of \notin lost => table'[n.of].benefit = table[n.of].benefit
      /\ n.of \notin lost /\ table[n.of].status = "CANCELLED" => table'[n.of].status = "CANCELLED"
      /\ table[n.of].agreed => table'[n.of].agreed
  BY <1>1, SteadyTable, ServedTable
<1>3. Kept => gen \in Gens /\ Mine'.benefit = Mine.benefit /\ (Cancelled => Cancelled') /\ (Entered => Entered')
  <2>1. ASSUME Kept
        PROVE  gen \in Gens /\ gen \notin lost
    BY <2>1, <1>1 DEF ClientOK, Have, Kept
  <2>2. ASSUME Kept
        PROVE  /\ table'[gen].benefit = table[gen].benefit
               /\ table[gen].status = "CANCELLED" => table'[gen].status = "CANCELLED"
               /\ Entered => Entered'
    BY <2>1, <2>2, <1>1, SteadyTable, SteadyFits
  <2> QED
    BY <2>1, <2>2, <1>0 DEF Mine, Cancelled
<1>4. AnswerOK(n)'
  BY <1>0, <1>1, <1>2, <1>3 DEF EachOK, AnswerOK, Kept, Have
<1>5. CheckoutOK(n)'
  <2>1. n.of \notin lost /\ Fits(n.of, n.party, n.sum) => Fits(n.of, n.party, n.sum)'
    BY <1>1, SteadyFits
  <2> QED
    BY <2>1, <1>0, <1>1, <1>2 DEF EachOK, CheckoutOK
<1>6. QuoteOK(n)'
  <2>1. ASSUME Newest(n)
        PROVE  Newest(n)'
    <3>1. ASSUME NEW o \in wire', o # n, o.of = gen, o.kind \in Drafting, Unread(o)
          PROVE  o.rev < form.rev
      <4>1. PICK p \in wire : p # n /\ p.of = gen /\ p.kind \in Drafting /\ Unread(p) /\ p.rev = o.rev
        <5>1. CASE o = x
          BY <5>1, <3>1 DEF Serves1
        <5>2. CASE o # x
          BY <5>2, <3>1, <1>1, ServedMessage
        <5> QED
          BY <5>1, <5>2
      <4> QED
        BY <4>1, <2>1 DEF Newest
    <3> QED
      BY <1>0, <2>1, <3>1 DEF Newest, Before, Unread
  <2>2. n.of = gen => Have
    BY <1>1 DEF MessageOK
  <2> QED
    BY <2>1, <2>2, <1>0, <1>1, <1>2, <1>3 DEF EachOK, QuoteOK, Unread, Kept
<1> QED
  BY <1>4, <1>5, <1>6 DEF EachOK

LEMMA SteadyRest ==
  ASSUME ScreenInv, NEW m, NEW x, Serves1(m, x), Steady(m)
  PROVE  PayingOK' /\ ReviewOK' /\ PaidOK'
<1>0. UNCHANGED <<gen, screen, session, form, queue, drain, tasks, ticket, work, shown, lost>>
  BY DEF client, Serves1
<1>1. ScreenShapes /\ ClientOK /\ WorkOK /\ m \in wire /\ m.at # "answer" /\ wire \ {m} \subseteq wire'
  BY DEF ScreenInv, Serves1
<1>2. ASSUME Kept
      PROVE  gen \in Gens /\ Mine'.benefit = Mine.benefit /\ (Cancelled => Cancelled') /\ (Entered => Entered')
             /\ (Mine'.status = "PAYMENT_PENDING" => Mine.status = "PAYMENT_PENDING")
  <2>1. gen \in Gens /\ gen \notin lost
    BY <1>1, <1>2 DEF ClientOK, Have, Kept
  <2> QED
    BY <2>1, <1>0, <1>1, SteadyTable, SteadyFits DEF Mine, Cancelled
<1>3. PayingOK'
  <2>1. ASSUME work.op = "checkout"
        PROVE  work.of \in Gens
    BY <2>1, <1>1, Constants DEF WorkOK
  <2>2. ASSUME work.op = "checkout"
        PROVE  /\ table[work.of].agreed => table'[work.of].agreed
               /\ work.of \notin lost =>
                    /\ table[work.of].status = "CANCELLED" => table'[work.of].status = "CANCELLED"
                    /\ Fits(work.of, work.party, work.sum) => Fits(work.of, work.party, work.sum)'
    <3>1. work.of \notin lost /\ Fits(work.of, work.party, work.sum) => Fits(work.of, work.party, work.sum)'
      <4>1. Fits(work.of, work.party, work.sum)' <=> Settled(work.of)' /\ table'[work.of].party = work.party
              /\ work.sum = [party |-> work.party, benefit |-> table'[work.of].benefit]
        BY <1>0 DEF Fits
      <4>2. (Settled(work.of)' /\ work.of' = work.of) \/ ~Settled(work.of)
        BY <2>1, <2>2, <1>0, <1>1, ServedSettled
      <4> QED
        BY <4>1, <4>2, <2>1, <2>2, <1>1, SteadyTable DEF Fits
    <3> QED
      BY <3>1, <2>1, <2>2, <1>1, SteadyTable, ServedTable
  <2> QED
    BY <1>0, <2>2 DEF ScreenInv, PayingOK, Have
<1>4. ASSUME NEW n \in wire, n.at = "answer"
      PROVE  n \in wire'
  BY <1>1, <1>4
<1>5. ReviewOK'
  BY <1>0, <1>2, <1>4 DEF ScreenInv, ReviewOK, Kept, Have, PartySaved, Quoted
<1>6. PaidOK'
  BY <1>0, <1>2, <1>4 DEF ScreenInv, PaidOK, Kept, Have, BillPaid
<1> QED
  BY <1>3, <1>5, <1>6

\* The row of a message may change, and what it may not lose.
RowStep(m) ==
  /\ table' \in [Gens -> ScreenRow]
  /\ \A g \in Gens : g # m.of => table'[g] = table[g]
  /\ table'[m.of].rev >= table[m.of].rev
  /\ table'[m.of].rev = table[m.of].rev \/ (m.kind \in Drafting /\ table'[m.of].rev = m.rev)
  /\ table[m.of].agreed => table'[m.of].agreed
  /\ table'[m.of].status # "NONE"

LEMMA StillRow ==
  ASSUME ScreenInv, NEW m \in wire, UNCHANGED table
  PROVE  RowStep(m) /\ Steady(m)
<1>1. ScreenShapes /\ MessageOK(m) /\ m.of \in Gens /\ table[m.of] \in ScreenRow
  BY WireTyped DEF ScreenInv, WireOK
<1>2. table \in [Gens -> ScreenRow] /\ table[m.of].rev \in Nat
  BY <1>1, RowFields DEF ScreenShapes, SharedShapes
<1> QED
  BY <1>1, <1>2 DEF RowStep, Steady, MessageOK

LEMMA ServerKeeps ==
  ASSUME ScreenInv, NEW m, NEW x, Serves1(m, x), Steady(m), x \in wire' => EachOK(x)',
         bills' \in SUBSET Billed, PaysWhatIsShown'
  PROVE  ScreenInv'
<1>1. ScreenShapes /\ ClientOK /\ WorkOK /\ ShownOK /\ TableOK /\ WireOK
  BY DEF ScreenInv
<1>2. ScreenShapes' /\ ClientOK' /\ WorkOK' /\ ShownOK' /\ TableOK' /\ WireOK'
  BY <1>1, ServedShapes, ServedClient, ServedWire
<1>3. ServedOK'
  <2>1. ASSUME NEW n \in wire'
        PROVE  EachOK(n)'
    <3>1. CASE n = x
      BY <3>1
    <3>2. CASE n # x
      BY <1>1, <3>2, ServedMessage, SteadyEach
    <3> QED
      BY <3>1, <3>2
  <2> QED
    BY <2>1 DEF ServedOK
<1> QED
  BY <1>2, <1>3, SteadyRest DEF ScreenInv

LEMMA SameBills ==
  ASSUME ScreenInv, UNCHANGED <<bills, lost>>
  PROVE  bills' \in SUBSET Billed /\ PaysWhatIsShown'
BY DEF ScreenInv, PaysWhatIsShown, ScreenShapes, SharedShapes

LEMMA AnswerServes ==
  ASSUME ScreenInv, NEW m \in wire, m.at # "answer", NEW ok \in BOOLEAN, NEW known \in ScreenRow,
         Answer(m, ok, known), RowStep(m), UNCHANGED <<client, lost>>
  PROVE  \E x : Serves1(m, x) /\ (x \in wire' => m.awaited /\ x = Told(m, ok, known))
<1>1. m \in Sent
  BY WireTyped DEF ScreenInv
<1>2. m.rev \in Nat /\ m.rev >= 0 /\ m.rev <= m.rev /\ m.awaited \in BOOLEAN
  BY <1>1, Fields
<1>3. CASE m.awaited
  <2>0. PICK x : x = Told(m, ok, known)
    OBVIOUS
  <2>1. /\ x \in Sent /\ x.kind = m.kind /\ x.of = m.of /\ x.party = m.party /\ x.benefit = m.benefit
        /\ x.awaited = m.awaited /\ x.rev = 0 /\ x.at = "answer"
    BY <1>1, <2>0, ToldIs
  <2>2. wire' = (wire \ {m}) \cup {x}
    BY <1>3, <2>0, AnswerIs
  <2>3. Serves1(m, x)
    BY <1>2, <1>3, <2>1, <2>2 DEF Serves1, RowStep, Unread
  <2> QED
    BY <2>0, <2>3, <1>3
<1>4. CASE ~m.awaited
  <2>1. wire' = wire \ {m}
    BY <1>4, AnswerIs
  <2>2. Serves1(m, m)
    BY <1>1, <1>2, <2>1 DEF Serves1, RowStep
  <2> QED
    BY <2>1, <2>2
<1> QED
  BY <1>2, <1>3, <1>4

LEMMA AnswerKeeps ==
  ASSUME ScreenInv, NEW m \in wire, m.at # "answer", NEW ok \in BOOLEAN, NEW known \in ScreenRow,
         Answer(m, ok, known), RowStep(m), Steady(m), UNCHANGED <<client, lost>>,
         bills' \in SUBSET Billed, PaysWhatIsShown',
         m.awaited => EachOK(Told(m, ok, known))'
  PROVE  ScreenInv'
<1>1. PICK x : Serves1(m, x) /\ (x \in wire' => m.awaited /\ x = Told(m, ok, known))
  BY AnswerServes
<1> QED
  BY <1>1, ServerKeeps

LEMMA MoveServes ==
  ASSUME ScreenInv, NEW m \in wire, m.at # "answer", NEW at \in {"write", "hold", "price", "bill"},
         Unread(m) \/ at # "write", Serve(m, Moved(m, at)), RowStep(m), UNCHANGED <<client, lost>>
  PROVE  Serves1(m, Moved(m, at))
<1>1. m \in Sent /\ at \in Stages
  BY WireTyped DEF ScreenInv, Stages
<1>2. m.rev <= m.rev
  BY <1>1, Fields
<1> QED
  BY <1>1, <1>2, MovedIs DEF Serves1, RowStep, Unread, Serve

LEMMA PriceServes ==
  ASSUME ScreenInv, NEW m \in wire, m.at # "answer", NEW at \in {"write", "price"}, NEW known \in ScreenRow,
         Unread(m) \/ at # "write", Serve(m, Priced(m, at, known)), RowStep(m), UNCHANGED <<client, lost>>
  PROVE  Serves1(m, Priced(m, at, known))
<1>1. m \in Sent /\ at \in Stages
  BY WireTyped DEF ScreenInv, Stages
<1>2. m.rev <= m.rev
  BY <1>1, Fields
<1> QED
  BY <1>1, <1>2, PricedIs DEF Serves1, RowStep, Unread, Serve

\* The row of a message that the kiosk waits for.
LEMMA AwaitedRow ==
  ASSUME ScreenInv, NEW m \in wire
  PROVE  /\ m \in Sent /\ m.of \in Gens /\ Row(m) \in ScreenRow /\ Row(m).status # "NONE"
         /\ m.awaited /\ m.kind \in Handlers => work.op = m.kind /\ work.at = "sent" /\ work # NoWork /\ work.of = m.of
         /\ m.of = gen => Have /\ Mine = Row(m)
<1>1. m \in Sent /\ m.of \in Gens /\ table[m.of] \in ScreenRow /\ MessageOK(m)
  BY WireTyped DEF ScreenInv, WireOK
<1> QED
  BY <1>1, Constants DEF MessageOK, AwaitedOK, Row, Mine, Handlers

\* A draft that comes too late changes nothing; a quote never does.
LEMMA StaleKeeps ==
  ASSUME ScreenInv, NEW m \in wire, m.kind \in Drafting, Unread(m), m.rev < Row(m).rev, Stale(m),
         UNCHANGED <<table, client, lost, bills>>
  PROVE  ScreenInv'
<1>1. m \in Sent /\ m.of \in Gens /\ Row(m) \in ScreenRow /\ m.at # "answer"
  BY AwaitedRow DEF Unread
<1>2. RowStep(m) /\ Steady(m)
  BY StillRow
<1>3. CASE m.kind = "draft"
  <2>1. Answer(m, TRUE, NoRow)
    BY <1>3 DEF Stale
  <2>2. EachOK(Told(m, TRUE, NoRow))'
    BY <1>1, <1>3, ToldIs, Constants DEF EachOK, AnswerOK, QuoteOK, CheckoutOK
  <2> QED
    BY <2>1, <2>2, <1>1, <1>2, AnswerKeeps, SameBills, Constants
<1>4. CASE m.kind = "assign"
  <2>1. Answer(m, FALSE, NoRow)
    BY <1>4 DEF Stale, Refused
  <2>2. EachOK(Told(m, FALSE, NoRow))'
    BY <1>1, <1>4, ToldIs, Constants DEF EachOK, AnswerOK, QuoteOK, CheckoutOK
  <2> QED
    BY <2>1, <2>2, <1>1, <1>2, AnswerKeeps, SameBills, Constants
<1>5. CASE m.kind = "quote"
  <2>0. PICK r \in ScreenRow : r = Row(m)
    BY <1>1
  <2>1. Serve(m, Priced(m, "price", r))
    BY <1>5, <2>0 DEF Stale, Priced
  <2>2. Serves1(m, Priced(m, "price", r))
    BY <2>1, <1>1, <1>2, PriceServes
  <2>3. ~(m.awaited /\ m.of = gen /\ gen \notin lost)
    <3>1. SUFFICES ASSUME m.awaited, m.of = gen, gen \notin lost
                   PROVE  FALSE
      OBVIOUS
    <3>2. m.rev = form.rev
      BY <3>1, <1>5 DEF ScreenInv, ServedOK, EachOK, QuoteOK, Newest
    <3>3. Row(m).rev <= form.rev
      BY <3>1, AwaitedRow DEF ScreenInv, TableOK
    <3> QED
      BY <3>2, <3>3, <1>1, RowFields, Fields
  <2>4. EachOK(Priced(m, "price", r))'
    <3>1. PICK x : x = Priced(m, "price", r)
      OBVIOUS
    <3>2. x.kind = "quote" /\ x.at = "price" /\ x.of = m.of /\ x.awaited = m.awaited
      <4>1. "price" \in Stages /\ r \in ScreenRow /\ m \in Sent
        BY <1>1, <2>0 DEF Stages
      <4>2. /\ Priced(m, "price", r).kind = m.kind /\ Priced(m, "price", r).at = "price"
            /\ Priced(m, "price", r).of = m.of /\ Priced(m, "price", r).awaited = m.awaited
        BY <4>1, PricedIs
      <4> QED
        BY <4>2, <3>1, <1>5
    <3>3. gen' = gen /\ lost' = lost
      BY DEF client
    <3>4. EachOK(x)'
      BY <3>2, <3>3, <2>3 DEF EachOK, AnswerOK, QuoteOK, CheckoutOK, Unread
    <3> QED
      BY <3>1, <3>4
  <2> QED
    BY <2>2, <2>4, <1>2, SameBills, ServerKeeps
<1> QED
  BY <1>3, <1>4, <1>5 DEF Drafting

LEMMA ReadDraftKeeps ==
  ASSUME ScreenInv, ReadDraft
  PROVE  ScreenInv'
<1>1. PICK m \in wire :
        /\ m.kind \in Drafting /\ m.at = "sent"
        /\ IF Row(m).status \notin Unpaid THEN Refused(m)
           ELSE IF m.rev < Row(m).rev THEN Stale(m)
           ELSE Serve(m, [m EXCEPT !.at = "write"])
        /\ UNCHANGED <<table, client, lost, bills>>
  BY DEF ReadDraft, At, ServerOnly, Drafting
<1>2. m \in Sent /\ m.of \in Gens /\ Row(m) \in ScreenRow /\ m.at # "answer" /\ Unread(m)
  BY <1>1, AwaitedRow DEF Unread
<1>3. RowStep(m) /\ Steady(m)
  BY <1>1, StillRow
<1>4. UNCHANGED <<gen, form, queue, drain, session>>
  BY <1>1 DEF client
<1>5. CASE Row(m).status \notin Unpaid
  <2>1. Answer(m, FALSE, NoRow)
    BY <1>1, <1>5 DEF Refused
  <2>2. m.kind = "quote" /\ m.awaited /\ m.of = gen /\ gen \notin lost => Cancelled
    <3>1. SUFFICES ASSUME m.kind = "quote", m.awaited, m.of = gen, gen \notin lost
                   PROVE  Cancelled
      OBVIOUS
    <3>2. work.op = "quote" /\ work # NoWork /\ Kept /\ Mine = Row(m) /\ Mine.status # "NONE"
      BY <3>1, AwaitedRow DEF Kept, Handlers
    <3>3. Mine.status # "PAYMENT_PENDING"
      BY <3>2 DEF ScreenInv, PaidOK
    <3> QED
      BY <1>2, <1>5, <3>2, <3>3, RowFields DEF Cancelled, ScreenStatuses, Unpaid
  <2>3. EachOK(Told(m, FALSE, NoRow))'
    BY <1>1, <1>2, <1>4, <2>2, ToldIs, Constants
       DEF EachOK, AnswerOK, QuoteOK, CheckoutOK, Drafting, Cancelled, Mine, Unread
  <2> QED
    BY <1>1, <1>2, <1>3, <2>1, <2>3, AnswerKeeps, SameBills, Constants
<1>6. CASE Row(m).status \in Unpaid /\ m.rev < Row(m).rev
  BY <1>1, <1>2, <1>6, StaleKeeps
<1>7. CASE Row(m).status \in Unpaid /\ ~(m.rev < Row(m).rev)
  <2>1. Serves1(m, Moved(m, "write"))
    BY <1>1, <1>2, <1>3, <1>7, MoveServes DEF Moved
  <2>2. ASSUME Newest(m)
        PROVE  Newest(Moved(m, "write"))'
    BY <1>1, <1>2, <1>4, <1>7, <2>2, MovedIs DEF Newest, Before, Serve, Moved, Stages, Unread
  <2>3. EachOK(Moved(m, "write"))'
    <3>1. EachOK(m)
      BY DEF ScreenInv, ServedOK
    <3> QED
      BY <3>1, <1>1, <1>2, <1>4, <2>2, MovedIs DEF EachOK, AnswerOK, QuoteOK, CheckoutOK, Drafting, Stages, Unread
  <2> QED
    BY <1>1, <1>3, <2>1, <2>3, SameBills, ServerKeeps
<1> QED
  BY <1>5, <1>6, <1>7

\* What is known of a row that is written with EXCEPT.
LEMMA RowWritten ==
  ASSUME ScreenInv, NEW m \in wire, NEW r \in ScreenRow, Set(m, r),
         r.rev = Row(m).rev \/ (m.kind \in Drafting /\ r.rev = m.rev /\ r.rev >= Row(m).rev),
         Row(m).agreed => r.agreed, r.status # "NONE"
  PROVE  RowStep(m) /\ table'[m.of] = r /\ (m.of = gen => Mine' = r \/ gen' # gen)
<1>1. m.of \in Gens /\ Row(m) \in ScreenRow /\ table \in [Gens -> ScreenRow] /\ Row(m) = table[m.of]
  BY AwaitedRow DEF ScreenInv, ScreenShapes, SharedShapes, Row
<1>2. table' = [table EXCEPT ![m.of] = r]
  BY DEF Set
<1>3. table'[m.of] = r /\ table' \in [Gens -> ScreenRow] /\ \A g \in Gens : g # m.of => table'[g] = table[g]
  BY <1>1, <1>2
<1>4. r.rev >= Row(m).rev
  BY <1>1, RowFields
<1> QED
  BY <1>1, <1>3, <1>4 DEF RowStep, Mine

LEMMA SumTyped ==
  ASSUME NEW p \in SizeOrNone, NEW b \in BenefitOrNone
  PROVE  [party |-> p, benefit |-> b] \in Sum
BY DEF Sum, SizeOrNone, BenefitOrNone

LEMMA DraftedIs ==
  ASSUME NEW m \in Sent, Row(m) \in ScreenRow
  PROVE  /\ Drafted(m) \in ScreenRow /\ Drafted(m).rev = m.rev /\ Drafted(m).party = m.party
         /\ Drafted(m).status = Row(m).status /\ Drafted(m).benefit = Row(m).benefit
         /\ Drafted(m).agreed = Row(m).agreed
<1>1. m.rev \in Nat /\ m.party \in SizeOrNone /\ Row(m).benefit \in BenefitOrNone
  BY Fields, RowFields
<1>2. [party |-> m.party, benefit |-> Row(m).benefit] \in Sum
  BY <1>1, SumTyped
<1> QED
  BY <1>1, <1>2 DEF Drafted, ScreenRow

\* No party of a visit is under way while the kiosk waits for a quote or a bill.
LEMMA NoParty ==
  ASSUME ScreenInv, NEW m \in wire, m.awaited, m.kind \in {"assign", "quote", "checkout"}, m.of \notin lost, m.of = gen
  PROVE  \A n \in wire : n.kind = "party" /\ n.of = gen => FALSE
<1>1. MessageOK(m) /\ AwaitedOK(m) /\ WorkOK /\ ClientOK
  BY DEF ScreenInv, WireOK, MessageOK
<1>2. PartySaved /\ tasks = <<>>
  BY <1>1 DEF AwaitedOK, WorkOK, Handlers, ClientOK, TasksOK, PartySaved
<1>3. SUFFICES ASSUME NEW n \in wire, n.kind = "party", n.of = gen
               PROVE  FALSE
  OBVIOUS
<1>4. MessageOK(n) /\ n \in Sent /\ n.awaited \in BOOLEAN /\ n.of \in Gens
  BY WireTyped, Fields DEF ScreenInv, WireOK
<1>5. ~n.awaited
  BY <1>2, <1>3, <1>4 DEF MessageOK, AwaitedOK
<1>6. n.of < gen
  BY <1>3, <1>4, <1>5 DEF MessageOK, GivenUpOK
<1>7. gen \in 0..MaxGen /\ MaxGen \in Nat
  BY DEF ScreenInv, ScreenShapes, ClientShapes, ScreenConstants
<1> QED
  BY <1>3, <1>6, <1>7

LEMMA WriteDraftKeeps ==
  ASSUME ScreenInv, WriteDraft
  PROVE  ScreenInv'
<1>1. PICK m \in wire :
        /\ m.kind \in Drafting /\ m.at = "write"
        /\ IF SavesDraft(m) THEN Set(m, Drafted(m)) /\ Written(m) ELSE Stale(m) /\ UNCHANGED table
        /\ UNCHANGED <<client, lost, bills>>
  BY DEF WriteDraft, At, ServerOnly, Drafting
<1>2. m \in Sent /\ m.of \in Gens /\ Row(m) \in ScreenRow /\ m.at # "answer" /\ Unread(m) /\ Row(m) = table[m.of]
      /\ m.rev \in Nat /\ Row(m).rev \in Nat /\ Row(m).status # "NONE"
  BY <1>1, AwaitedRow, Fields, RowFields DEF Unread, Row
<1>3. CASE ~SavesDraft(m)
  BY <1>1, <1>2, <1>3, StaleKeeps DEF SavesDraft
<1>4. CASE SavesDraft(m)
  <2>1. PICK r \in ScreenRow : r = Drafted(m)
    BY <1>2, DraftedIs
  <2>2. /\ r.rev = m.rev /\ r.party = m.party /\ r.status = Row(m).status /\ r.benefit = Row(m).benefit
        /\ r.agreed = Row(m).agreed
    BY <1>2, <2>1, DraftedIs
  <2>3. Set(m, r) /\ Written(m) /\ m.rev >= Row(m).rev
    BY <1>1, <1>2, <1>4, <2>1 DEF SavesDraft
  <2>4. RowStep(m) /\ table'[m.of] = r
    BY <1>1, <1>2, <2>2, <2>3, RowWritten
  <2>5. ~Settled(m.of)
    BY <1>1, <1>2, <2>3 DEF Settled
  <2>6. Steady(m)
    BY <1>2, <2>2, <2>4, <2>5 DEF Steady
  <2>7. CASE m.kind = "draft"
    <3>1. Answer(m, TRUE, NoRow)
      BY <2>3, <2>7 DEF Written
    <3>2. EachOK(Told(m, TRUE, NoRow))'
      BY <1>2, <2>7, ToldIs, Constants DEF EachOK, AnswerOK, QuoteOK, CheckoutOK
    <3> QED
      BY <3>1, <3>2, <1>1, <1>2, <2>4, <2>6, AnswerKeeps, SameBills, Constants
  <2>8. CASE m.kind = "assign"
    <3>1. Serve(m, Moved(m, "hold"))
      BY <2>3, <2>8 DEF Written, Moved
    <3>2. Serves1(m, Moved(m, "hold"))
      BY <3>1, <1>1, <1>2, <2>4, MoveServes
    <3>3. EachOK(Moved(m, "hold"))'
      BY <1>2, <2>8, MovedIs DEF EachOK, AnswerOK, QuoteOK, CheckoutOK, Stages
    <3> QED
      BY <3>2, <3>3, <1>1, <2>6, SameBills, ServerKeeps
  <2>9. CASE m.kind = "quote"
    <3>1. Serve(m, Priced(m, "price", r))
      BY <2>1, <2>3, <2>9 DEF Written, Priced
    <3>2. Serves1(m, Priced(m, "price", r))
      BY <3>1, <1>1, <1>2, <2>4, PriceServes
    <3>3. PICK x : x = Priced(m, "price", r)
      OBVIOUS
    <3>4. x.kind = "quote" /\ x.at = "price" /\ x.of = m.of /\ x.awaited = m.awaited /\ x.seen = r
      <4>1. "price" \in Stages
        BY DEF Stages
      <4> QED
        BY <4>1, <1>2, <2>9, <3>3, PricedIs
    <3>5. UNCHANGED <<gen, form, queue, drain, lost>>
      BY <1>1 DEF client
    <3>6. ASSUME m.awaited, m.of = gen, gen \notin lost
          PROVE  Entered' /\ r.party = form.party
      <4>1. m.rev = form.rev /\ Before(form.rev) /\ Newest(m)
        BY <1>2, <2>9, <3>6 DEF ScreenInv, ServedOK, EachOK, QuoteOK, Newest
      <4>2. m.party = form.party
        BY <2>9, <3>6 DEF ScreenInv, WireOK, MessageOK, AwaitedOK
      <4>3. Mine' = r /\ r.rev = form.rev /\ table'[gen].rev = form.rev
        BY <2>2, <2>4, <3>5, <3>6, <4>1 DEF Mine
      <4>4. ASSUME NEW n \in wire', n.of = gen, Unread(n)
            PROVE  n.kind # "party" /\ (n.kind \in Drafting => n.rev < form.rev)
        <5>1. n # x
          BY <3>4, <4>4 DEF Unread
        <5>2. n \in wire /\ n # m
          BY <5>1, <3>1, <3>3 DEF Serve
        <5>3. n.kind # "party"
          BY <5>2, <4>4, <2>9, <3>6, NoParty
        <5> QED
          BY <5>2, <5>3, <4>1, <4>4 DEF Newest
      <4>5. Settled(gen)'
        BY <4>1, <4>3, <4>4, <3>5 DEF Settled, Before, Unread
      <4> QED
        BY <4>2, <4>3, <4>5, <2>2, <3>5 DEF Entered
    <3>7. EachOK(x)'
      BY <3>4, <3>5, <3>6 DEF EachOK, AnswerOK, QuoteOK, CheckoutOK, Unread
    <3> QED
      BY <3>2, <3>3, <3>7, <1>1, <2>6, SameBills, ServerKeeps
  <2> QED
    BY <1>1, <2>7, <2>8, <2>9 DEF Drafting
<1> QED
  BY <1>3, <1>4

LEMMA AssignHoldsKeeps ==
  ASSUME ScreenInv, AssignHolds
  PROVE  ScreenInv'
<1>1. PICK m \in wire :
        /\ m.kind = "assign" /\ m.at = "hold" /\ Row(m).status \in Unpaid
        /\ LET entry == [Row(m) EXCEPT !.status = "HOLD", !.final = [party |-> m.party, benefit |-> Row(m).benefit]]
           IN  Set(m, entry) /\ Answer(m, TRUE, entry)
        /\ UNCHANGED <<client, lost, bills>>
  BY DEF AssignHolds, At, ServerOnly
<1>2. m \in Sent /\ m.of \in Gens /\ Row(m) \in ScreenRow /\ m.at # "answer" /\ Row(m) = table[m.of]
      /\ m.party \in SizeOrNone /\ Row(m).benefit \in BenefitOrNone /\ Row(m).rev \in Nat
  BY <1>1, AwaitedRow, Fields, RowFields DEF Row
<1>3. PICK r : r = [Row(m) EXCEPT !.status = "HOLD", !.final = [party |-> m.party, benefit |-> Row(m).benefit]]
  OBVIOUS
<1>4. [party |-> m.party, benefit |-> Row(m).benefit] \in Sum
  BY <1>2, SumTyped
<1>5. /\ r \in ScreenRow /\ r.rev = Row(m).rev /\ r.party = Row(m).party /\ r.status = "HOLD" /\ r.benefit = Row(m).benefit
      /\ r.agreed = Row(m).agreed /\ r.final = [party |-> m.party, benefit |-> Row(m).benefit]
  BY <1>2, <1>3, <1>4 DEF ScreenRow, ScreenStatuses
<1>6. Set(m, r) /\ Answer(m, TRUE, r)
  BY <1>1, <1>3
<1>7. RowStep(m) /\ table'[m.of] = r
  BY <1>2, <1>5, <1>6, RowWritten
<1>8. Steady(m)
  BY <1>1, <1>2, <1>5, <1>7 DEF Steady, Unpaid
<1>9. ASSUME m.awaited
      PROVE  EachOK(Told(m, TRUE, r))'
  <2>1. m.of = gen /\ UNCHANGED gen
    BY <1>1, <1>9 DEF ScreenInv, WireOK, MessageOK, AwaitedOK, client
  <2>2. Mine'.benefit = Row(m).benefit
    BY <2>1, <1>5, <1>7 DEF Mine
  <2> QED
    BY <1>1, <1>2, <1>5, <2>2, ToldIs DEF EachOK, AnswerOK, QuoteOK, CheckoutOK
<1> QED
  BY <1>1, <1>2, <1>5, <1>6, <1>7, <1>8, <1>9, SameBills, AnswerKeeps

\* A refusal tells nothing; a quote is refused with what its draft has entered.
LEMMA RefusedKeeps ==
  ASSUME ScreenInv, NEW m \in wire, m.at # "answer", Refused(m), UNCHANGED <<client, lost, bills, table>>,
         m.kind = "quote" => m.at = "price"
  PROVE  ScreenInv'
<1>1. m \in Sent /\ m.of \in Gens
  BY AwaitedRow
<1>2. RowStep(m) /\ Steady(m)
  BY StillRow
<1>3. ASSUME m.kind = "quote", m.awaited, m.of = gen, gen \notin lost
      PROVE  Entered'
  <2>1. Entered
    BY <1>3 DEF ScreenInv, ServedOK, EachOK, QuoteOK
  <2>2. \E x : Serves1(m, x)
    BY <1>2, AnswerServes, Constants DEF Refused
  <2> QED
    BY <1>1, <1>2, <1>3, <2>1, <2>2, SteadyFits DEF ScreenInv
<1>4. EachOK(Told(m, FALSE, NoRow))'
  BY <1>1, <1>3, ToldIs, Constants DEF EachOK, AnswerOK, QuoteOK, CheckoutOK, client, Unread
<1> QED
  BY <1>2, <1>4, SameBills, AnswerKeeps, Constants DEF Refused

LEMMA RefusalsKeep ==
  ASSUME ScreenInv, AssignRefused \/ QuoteRefused
  PROVE  ScreenInv'
<1>1. PICK m \in wire : /\ m.at # "answer" /\ Refused(m) /\ UNCHANGED <<client, lost, bills, table>>
                        /\ m.kind = "quote" => m.at = "price"
  BY DEF AssignRefused, QuoteRefused, At, ServerOnly
<1> QED
  BY <1>1, RefusedKeeps

LEMMA ReadPartyKeeps ==
  ASSUME ScreenInv, ReadParty
  PROVE  ScreenInv'
<1>1. PICK m \in wire :
        /\ m.kind = "party" /\ m.at = "sent" /\ UNCHANGED <<client, lost, bills, table>>
        /\ IF Row(m).status \in Unpaid THEN Serve(m, [m EXCEPT !.at = "write", !.seen = Row(m)]) ELSE Refused(m)
  BY DEF ReadParty, At, ServerOnly
<1>2. m \in Sent /\ m.of \in Gens /\ Row(m) \in ScreenRow /\ m.at # "answer" /\ Unread(m)
  BY <1>1, AwaitedRow DEF Unread
<1>3. CASE Row(m).status \in Unpaid
  <2>1. PICK r \in ScreenRow : r = Row(m)
    BY <1>2
  <2>2. RowStep(m) /\ Steady(m) /\ Serve(m, Priced(m, "write", r))
    BY <1>1, <1>3, <2>1, StillRow DEF Priced
  <2>3. Serves1(m, Priced(m, "write", r))
    BY <1>1, <1>2, <2>2, PriceServes
  <2>4. ASSUME m.awaited
        PROVE  Mine'.benefit = r.benefit
    BY <1>1, <2>1, <2>4 DEF ScreenInv, WireOK, MessageOK, AwaitedOK, Mine, Row, client
  <2>5. EachOK(Priced(m, "write", r))'
    <3>1. "write" \in Stages
      BY DEF Stages
    <3> QED
      BY <3>1, <1>1, <1>2, <2>4, PricedIs DEF EachOK, AnswerOK, QuoteOK, CheckoutOK
  <2> QED
    BY <1>1, <2>2, <2>3, <2>5, SameBills, ServerKeeps
<1>4. CASE Row(m).status \notin Unpaid
  BY <1>1, <1>2, <1>4, RefusedKeeps
<1> QED
  BY <1>3, <1>4

LEMMA WritePartyKeeps ==
  ASSUME ScreenInv, WriteParty
  PROVE  ScreenInv'
<1>1. PICK m \in wire :
        /\ m.kind = "party" /\ m.at = "write" /\ UNCHANGED <<client, lost, bills>>
        /\ Set(m, [Row(m) EXCEPT !.party = m.party, !.final = [party |-> m.party, benefit |-> Row(m).benefit]])
        /\ Answer(m, TRUE, m.seen)
  BY DEF WriteParty, At, ServerOnly
<1>2. /\ m \in Sent /\ m.of \in Gens /\ Row(m) \in ScreenRow /\ m.at # "answer" /\ Unread(m) /\ Row(m) = table[m.of]
      /\ m.party \in SizeOrNone /\ Row(m).benefit \in BenefitOrNone /\ m.seen \in ScreenRow /\ Row(m).status # "NONE"
  BY <1>1, AwaitedRow, Fields, RowFields DEF Unread, Row
<1>3. PICK r : r = [Row(m) EXCEPT !.party = m.party, !.final = [party |-> m.party, benefit |-> Row(m).benefit]]
  OBVIOUS
<1>4. [party |-> m.party, benefit |-> Row(m).benefit] \in Sum
  BY <1>2, SumTyped
<1>5. /\ r \in ScreenRow /\ r.rev = Row(m).rev /\ r.status = Row(m).status /\ r.benefit = Row(m).benefit
      /\ r.agreed = Row(m).agreed
  BY <1>2, <1>3, <1>4 DEF ScreenRow
<1>6. Set(m, r) /\ Answer(m, TRUE, m.seen)
  BY <1>1, <1>3
<1>7. RowStep(m) /\ table'[m.of] = r
  BY <1>2, <1>5, <1>6, RowWritten
<1>8. Steady(m)
  BY <1>1, <1>2, <1>5, <1>7 DEF Steady, Settled
<1>9. ASSUME m.awaited
      PROVE  EachOK(Told(m, TRUE, m.seen))'
  <2>1. m.of = gen /\ UNCHANGED <<gen, session, lost>>
    BY <1>1, <1>9 DEF ScreenInv, WireOK, MessageOK, AwaitedOK, client
  <2>2. Mine'.benefit = Mine.benefit
    BY <1>2, <2>1, <1>5, <1>7 DEF Mine
  <2>3. Kept => m.seen.benefit = Mine.benefit
    BY <1>1, <1>9 DEF ScreenInv, ServedOK, EachOK, AnswerOK
  <2>4. Kept' = Kept
    BY <2>1 DEF Kept, Have
  <2> QED
    BY <1>1, <1>2, <2>2, <2>3, <2>4, ToldIs DEF EachOK, AnswerOK, QuoteOK, CheckoutOK
<1> QED
  BY <1>1, <1>2, <1>6, <1>7, <1>8, <1>9, SameBills, AnswerKeeps

LEMMA AgreeKeeps ==
  ASSUME ScreenInv, Agree
  PROVE  ScreenInv'
<1>1. PICK m \in wire :
        /\ m.kind = "guide" /\ m.at = "sent" /\ UNCHANGED <<client, lost, bills>>
        /\ IF Row(m).status \in Unpaid THEN Set(m, [Row(m) EXCEPT !.agreed = TRUE]) /\ Answer(m, TRUE, NoRow)
           ELSE Refused(m) /\ UNCHANGED table
  BY DEF Agree, At, ServerOnly
<1>2. m \in Sent /\ m.of \in Gens /\ Row(m) \in ScreenRow /\ m.at # "answer" /\ Row(m) = table[m.of]
      /\ Row(m).status # "NONE"
  BY <1>1, AwaitedRow DEF Row
<1>3. CASE Row(m).status \in Unpaid
  <2>1. PICK r : r = [Row(m) EXCEPT !.agreed = TRUE]
    OBVIOUS
  <2>2. /\ r \in ScreenRow /\ r.rev = Row(m).rev /\ r.status = Row(m).status /\ r.benefit = Row(m).benefit
        /\ r.agreed = TRUE /\ r.party = Row(m).party
    BY <1>2, <2>1 DEF ScreenRow
  <2>3. Set(m, r) /\ Answer(m, TRUE, NoRow)
    BY <1>1, <1>3, <2>1
  <2>4. RowStep(m) /\ table'[m.of] = r
    BY <1>2, <2>2, <2>3, RowWritten
  <2>5. Steady(m)
    BY <1>2, <2>2, <2>4 DEF Steady
  <2>6. EachOK(Told(m, TRUE, NoRow))'
    BY <1>1, <1>2, <2>2, <2>4, ToldIs, Constants DEF EachOK, AnswerOK, QuoteOK, CheckoutOK
  <2> QED
    BY <1>1, <1>2, <2>3, <2>4, <2>5, <2>6, SameBills, AnswerKeeps, Constants
<1>4. CASE Row(m).status \notin Unpaid
  BY <1>1, <1>2, <1>4, RefusedKeeps
<1> QED
  BY <1>3, <1>4

LEMMA ReadResetKeeps ==
  ASSUME ScreenInv, ReadReset
  PROVE  ScreenInv'
<1>1. PICK m \in wire :
        /\ m.kind = "reset" /\ m.at = "sent" /\ UNCHANGED <<client, lost, bills, table>>
        /\ IF Row(m).status # "PAYMENT_PENDING" THEN Serve(m, Moved(m, "write")) ELSE Refused(m)
  BY DEF ReadReset, At, ServerOnly, Moved
<1>2. m \in Sent /\ m.at # "answer" /\ Unread(m)
  BY <1>1, AwaitedRow DEF Unread
<1>3. CASE Row(m).status # "PAYMENT_PENDING"
  <2>1. RowStep(m) /\ Steady(m)
    BY <1>1, StillRow
  <2>2. Serves1(m, Moved(m, "write"))
    BY <1>1, <1>2, <1>3, <2>1, MoveServes
  <2>3. EachOK(Moved(m, "write"))'
    BY <1>1, <1>2, MovedIs DEF EachOK, AnswerOK, QuoteOK, CheckoutOK, Stages
  <2> QED
    BY <1>1, <2>1, <2>2, <2>3, SameBills, ServerKeeps
<1>4. CASE Row(m).status = "PAYMENT_PENDING"
  BY <1>1, <1>2, <1>4, RefusedKeeps
<1> QED
  BY <1>3, <1>4

LEMMA WriteResetKeeps ==
  ASSUME ScreenInv, WriteReset
  PROVE  ScreenInv'
<1>1. PICK m \in wire :
        /\ m.kind = "reset" /\ m.at = "write" /\ UNCHANGED <<client, lost, bills>>
        /\ Set(m, [Row(m) EXCEPT !.status = "CANCELLED"]) /\ Answer(m, TRUE, NoRow)
  BY DEF WriteReset, At, ServerOnly
<1>2. m \in Sent /\ m.of \in Gens /\ Row(m) \in ScreenRow /\ m.at # "answer" /\ Row(m) = table[m.of]
  BY <1>1, AwaitedRow DEF Row
<1>3. PICK r : r = [Row(m) EXCEPT !.status = "CANCELLED"]
  OBVIOUS
<1>4. /\ r \in ScreenRow /\ r.rev = Row(m).rev /\ r.status = "CANCELLED" /\ r.benefit = Row(m).benefit
      /\ r.agreed = Row(m).agreed /\ r.party = Row(m).party
  BY <1>2, <1>3 DEF ScreenRow, ScreenStatuses
<1>5. RowStep(m) /\ table'[m.of] = r
  BY <1>1, <1>2, <1>3, <1>4, RowWritten
<1>6. Steady(m)
  BY <1>2, <1>4, <1>5 DEF Steady
<1>7. EachOK(Told(m, TRUE, NoRow))'
  BY <1>1, <1>2, ToldIs, Constants DEF EachOK, AnswerOK, QuoteOK, CheckoutOK
<1> QED
  BY <1>1, <1>2, <1>5, <1>6, <1>7, SameBills, AnswerKeeps, Constants

LEMMA ReadCheckoutKeeps ==
  ASSUME ScreenInv, ReadCheckout
  PROVE  ScreenInv'
<1>1. PICK m \in wire :
        /\ m.kind = "checkout" /\ m.at = "sent" /\ UNCHANGED <<client, lost, bills, table>>
        /\ IF Row(m).status \in Unpaid \cup {"PAYMENT_PENDING"} THEN Serve(m, Moved(m, "bill")) ELSE Refused(m)
  BY DEF ReadCheckout, At, ServerOnly, Moved
<1>2. m \in Sent /\ m.at # "answer" /\ m.of \in Gens /\ Row(m) = table[m.of]
  BY <1>1, AwaitedRow DEF Row
<1>3. CASE Row(m).status \in Unpaid \cup {"PAYMENT_PENDING"}
  <2>1. RowStep(m) /\ Steady(m)
    BY <1>1, StillRow
  <2>2. Serves1(m, Moved(m, "bill"))
    BY <1>1, <1>2, <1>3, <2>1, MoveServes
  <2>3. PICK x : x = Moved(m, "bill")
    OBVIOUS
  <2>4. x.kind = "checkout" /\ x.at = "bill" /\ x.of = m.of /\ x.party = m.party /\ x.sum = m.sum
    BY <1>1, <1>2, <2>3, MovedIs DEF Stages
  <2>5. table[m.of].agreed /\ (m.of \notin lost => Fits(m.of, m.party, m.sum))
    BY <1>1, <1>2, <1>3 DEF ScreenInv, ServedOK, EachOK, CheckoutOK, Unpaid
  <2>6. m.of \notin lost => Fits(m.of, m.party, m.sum)'
    BY <1>2, <2>1, <2>2, <2>5, SteadyFits DEF ScreenInv
  <2>7. EachOK(x)'
    BY <1>1, <2>4, <2>5, <2>6 DEF EachOK, AnswerOK, QuoteOK, CheckoutOK, client
  <2> QED
    BY <1>1, <2>1, <2>2, <2>3, <2>7, SameBills, ServerKeeps
<1>4. CASE Row(m).status \notin Unpaid \cup {"PAYMENT_PENDING"}
  BY <1>1, <1>2, <1>4, RefusedKeeps
<1> QED
  BY <1>3, <1>4

\* While a quote or a bill is served, nothing else depends on its row.
LEMMA AloneEach ==
  ASSUME ScreenInv, NEW m, NEW x, Serves1(m, x), m.kind \in {"quote", "checkout"}, m.of \notin lost,
         NEW n \in wire, n # m
  PROVE  EachOK(n)'
<1>0. UNCHANGED <<gen, screen, session, form, queue, drain, tasks, ticket, work, shown, lost>>
  BY DEF client, Serves1
<1>1. /\ m \in wire /\ MessageOK(m) /\ m.awaited \in BOOLEAN /\ n.awaited \in BOOLEAN /\ n.of \in Gens
      /\ EachOK(n) /\ MessageOK(n) /\ OneAwaited /\ WorkOK /\ ClientOK
  BY WireTyped, Fields DEF ScreenInv, ServedOK, WireOK, Serves1
<1>2. m.awaited /\ work.op = m.kind /\ work.at = "sent" /\ PartySaved /\ tasks = <<>>
  BY <1>1 DEF MessageOK, GivenUpOK, AwaitedOK, WorkOK, Handlers, ClientOK, TasksOK, PartySaved
<1>3. table[n.of].agreed => table'[n.of].agreed
  BY <1>1, ServedTable DEF ScreenInv
<1>4. n.kind \in {"assign", "party", "quote", "checkout"} => ~n.awaited
  BY <1>1, <1>2 DEF MessageOK, AwaitedOK, Handlers, OneAwaited
<1>5. ~n.awaited => n.at # "answer" /\ (n.kind \in {"quote", "checkout"} => n.of \in lost)
  BY <1>1 DEF MessageOK, GivenUpOK
<1>6. AnswerOK(n)'
  BY <1>0, <1>1, <1>3, <1>4, <1>5 DEF EachOK, AnswerOK
<1>7. QuoteOK(n)' /\ CheckoutOK(n)'
  BY <1>0, <1>1, <1>3, <1>4, <1>5 DEF EachOK, QuoteOK, CheckoutOK
<1> QED
  BY <1>6, <1>7 DEF EachOK

LEMMA QuoteKeeps ==
  ASSUME ScreenInv, Quote
  PROVE  ScreenInv'
<1>1. PICK m \in wire :
        /\ m.kind = "quote" /\ m.at = "price" /\ Row(m).agreed /\ UNCHANGED <<client, lost, bills>>
        /\ LET entry == [Row(m) EXCEPT !.benefit = m.benefit, !.final = [party |-> m.seen.party, benefit |-> m.benefit]]
           IN  Set(m, entry) /\ Answer(m, TRUE, entry)
  BY DEF Quote, At, ServerOnly
<1>2. /\ m \in Sent /\ m.of \in Gens /\ Row(m) \in ScreenRow /\ m.at # "answer" /\ Row(m) = table[m.of]
      /\ m.benefit \in BenefitOrNone /\ m.seen.party \in SizeOrNone /\ Row(m).status # "NONE" /\ m.awaited \in BOOLEAN
  BY <1>1, AwaitedRow, Fields, RowFields DEF Row
<1>3. PICK r : r = [Row(m) EXCEPT !.benefit = m.benefit, !.final = [party |-> m.seen.party, benefit |-> m.benefit]]
  OBVIOUS
<1>4. [party |-> m.seen.party, benefit |-> m.benefit] \in Sum
  BY <1>2, SumTyped
<1>5. /\ r \in ScreenRow /\ r.rev = Row(m).rev /\ r.status = Row(m).status /\ r.benefit = m.benefit
      /\ r.agreed = Row(m).agreed /\ r.party = Row(m).party
      /\ r.final = [party |-> m.seen.party, benefit |-> m.benefit]
  BY <1>2, <1>3, <1>4 DEF ScreenRow
<1>6. Set(m, r) /\ Answer(m, TRUE, r)
  BY <1>1, <1>3
<1>7. RowStep(m) /\ table'[m.of] = r
  BY <1>2, <1>5, <1>6, RowWritten
<1>8. PICK x : Serves1(m, x) /\ (x \in wire' => m.awaited /\ x = Told(m, TRUE, r))
  BY <1>1, <1>2, <1>5, <1>6, <1>7, AnswerServes
<1>9. UNCHANGED <<gen, screen, session, form, queue, drain, tasks, ticket, work, shown, lost>>
  BY <1>1 DEF client
<1>10. ScreenShapes /\ ClientOK /\ WorkOK /\ ShownOK /\ TableOK /\ WireOK
  BY DEF ScreenInv
<1>11. x \in wire' => EachOK(x)'
  <2>1. SUFFICES ASSUME x \in wire'
                 PROVE  EachOK(x)'
    OBVIOUS
  <2>2. x.kind = "quote" /\ x.at = "answer" /\ x.of = m.of /\ x.awaited /\ x.seen = r
    <3>1. x = Told(m, TRUE, r) /\ m.awaited
      BY <1>8, <2>1
    <3>2. /\ Told(m, TRUE, r).kind = m.kind /\ Told(m, TRUE, r).at = "answer" /\ Told(m, TRUE, r).of = m.of
          /\ Told(m, TRUE, r).awaited = m.awaited /\ Told(m, TRUE, r).seen = r
      BY <1>2, <1>5, ToldIs
    <3> QED
      BY <1>1, <3>1, <3>2
  <2>3. ASSUME m.of = gen, gen \notin lost
        PROVE  Entered' /\ r.final = [party |-> form.party, benefit |-> Mine'.benefit]
    <3>1. Entered /\ m.seen.party = form.party
      BY <1>1, <2>1, <1>8, <2>3 DEF ScreenInv, ServedOK, EachOK, QuoteOK
    <3>2. Mine' = r /\ Mine = Row(m)
      BY <1>2, <1>7, <1>9, <2>3 DEF Mine
    <3>3. Settled(gen)'
      <4>1. Settled(m.of)
        BY <2>3, <3>1 DEF Entered
      <4>2. Settled(m.of)'
        BY <1>2, <1>8, <1>10, <4>1, ServedSettled
      <4> QED
        BY <1>9, <2>3, <4>2 DEF Settled
    <3> QED
      BY <1>5, <1>9, <3>1, <3>2, <3>3 DEF Entered
  <2> QED
    BY <1>1, <1>2, <1>5, <1>7, <1>9, <2>2, <2>3 DEF EachOK, AnswerOK, QuoteOK, CheckoutOK, Unread
<1>12. CASE m.of \in lost
  <2>1. Steady(m)
    BY <1>12 DEF Steady
  <2> QED
    BY <1>1, <1>8, <1>11, <2>1, SameBills, ServerKeeps
<1>13. CASE m.of \notin lost
  <2>1. ScreenShapes' /\ ClientOK' /\ WorkOK' /\ ShownOK' /\ TableOK' /\ WireOK'
    BY <1>1, <1>8, <1>10, SameBills, ServedShapes, ServedClient, ServedWire
  <2>2. ServedOK'
    <3>1. ASSUME NEW n \in wire'
          PROVE  EachOK(n)'
      <4>1. CASE n = x
        BY <4>1, <1>11
      <4>2. CASE n # x
        BY <1>1, <1>8, <1>10, <1>13, <4>2, ServedMessage, AloneEach
      <4> QED
        BY <4>1, <4>2
    <3> QED
      BY <3>1 DEF ServedOK
  <2>3. m.awaited /\ MessageOK(m)
    BY <1>1, <1>2, <1>13 DEF ScreenInv, WireOK, MessageOK, GivenUpOK
  <2>4. work.op = "quote" /\ work # NoWork /\ work.of = m.of
    BY <1>1, <2>3, AwaitedRow DEF Handlers
  <2>5. PayingOK'
    BY <1>9, <2>4 DEF PayingOK
  <2>6. CASE m.of = gen
    <3>1. wire' = (wire \ {m}) \cup {Told(m, TRUE, r)}
      BY <1>6, <2>3, AnswerIs
    <3>0. PICK y : y = Told(m, TRUE, r)
      OBVIOUS
    <3>2. y \in wire' /\ Quoted(y)'
      <4>1. /\ Told(m, TRUE, r).kind = m.kind /\ Told(m, TRUE, r).at = "answer" /\ Told(m, TRUE, r).of = m.of
            /\ Told(m, TRUE, r).ok = TRUE
        BY <1>2, <1>5, ToldIs
      <4> QED
        BY <1>1, <1>9, <2>6, <3>0, <3>1, <4>1 DEF Quoted
    <3>3. ReviewOK'
      BY <1>9, <2>4, <3>2 DEF ScreenInv, ReviewOK, Kept, Have, PartySaved
    <3>4. Mine' = r /\ Mine = Row(m)
      BY <1>2, <1>7, <1>9, <2>6 DEF Mine
    <3>5. PaidOK'
      BY <1>5, <1>9, <2>4, <3>4 DEF ScreenInv, PaidOK, Kept, Have
    <3> QED
      BY <2>1, <2>2, <2>5, <3>3, <3>5, <1>1, SameBills DEF ScreenInv
  <2>7. CASE m.of # gen
    <3>1. Have => gen \in Gens
      BY <1>10 DEF ClientOK, Have
    <3>2. ~Have
      BY <1>1, <2>4, <2>7, <1>10 DEF WorkOK, Busy, Have
    <3>3. ReviewOK' /\ PaidOK'
      BY <1>9, <3>2 DEF ReviewOK, PaidOK, Kept, Have
    <3> QED
      BY <2>1, <2>2, <2>5, <3>3, <1>1, SameBills DEF ScreenInv
  <2> QED
    BY <2>6, <2>7
<1> QED
  BY <1>12, <1>13

LEMMA BillKeeps ==
  ASSUME ScreenInv, Bill
  PROVE  ScreenInv'
<1>1. PICK m \in wire :
        /\ m.kind = "checkout" /\ m.at = "bill" /\ UNCHANGED <<client, lost>>
        /\ LET found == [party |-> Row(m).party, benefit |-> Row(m).benefit]
               entry == [Row(m) EXCEPT !.status = "PAYMENT_PENDING"]
           IN  /\ bills' = bills \cup {[of |-> m.of, entered |-> m.party, shown |-> m.sum, found |-> found,
                                        agreed |-> Row(m).agreed]}
               /\ IF Amount(found) = m.due THEN Set(m, entry) /\ Answer(m, TRUE, entry) ELSE Refused(m) /\ UNCHANGED table
  BY DEF Bill, At, ServerOnly
<1>2. /\ m \in Sent /\ m.of \in Gens /\ Row(m) \in ScreenRow /\ m.at # "answer" /\ Row(m) = table[m.of]
      /\ Row(m).status # "NONE" /\ m.awaited \in BOOLEAN /\ m.party \in SizeOrNone /\ m.sum \in Sum
      /\ Row(m).party \in SizeOrNone /\ Row(m).benefit \in BenefitOrNone /\ Row(m).agreed \in BOOLEAN
  BY <1>1, AwaitedRow, Fields, RowFields DEF Row
<1>3. PICK found : found = [party |-> Row(m).party, benefit |-> Row(m).benefit]
  OBVIOUS
<1>4. PICK r : r = [Row(m) EXCEPT !.status = "PAYMENT_PENDING"]
  OBVIOUS
<1>5. /\ r \in ScreenRow /\ r.rev = Row(m).rev /\ r.status = "PAYMENT_PENDING" /\ r.benefit = Row(m).benefit
      /\ r.agreed = Row(m).agreed /\ r.party = Row(m).party
  BY <1>2, <1>4 DEF ScreenRow, ScreenStatuses
<1>6. CheckoutOK(m) /\ ScreenShapes /\ ClientOK /\ WorkOK /\ ShownOK /\ TableOK /\ WireOK
  BY DEF ScreenInv, ServedOK, EachOK
<1>7. Row(m).agreed /\ (m.of \notin lost => Fits(m.of, m.party, m.sum) /\ found = m.sum /\ found.party = m.party)
  BY <1>1, <1>2, <1>3, <1>6 DEF CheckoutOK, Fits
<1>8. PICK b : b = [of |-> m.of, entered |-> m.party, shown |-> m.sum, found |-> found, agreed |-> Row(m).agreed]
  OBVIOUS
<1>9. bills' = bills \cup {b} /\ found \in Sum
  BY <1>1, <1>2, <1>3, <1>8, SumTyped
<1>10. /\ b \in Billed /\ b.agreed /\ b.of = m.of
       /\ m.of \notin lost => b.found = b.shown /\ b.found.party = b.entered
  BY <1>2, <1>7, <1>8, <1>9 DEF Billed
<1>11. bills' \in SUBSET Billed /\ PaysWhatIsShown'
  BY <1>1, <1>6, <1>9, <1>10 DEF ScreenInv, ScreenShapes, SharedShapes, PaysWhatIsShown
<1>12. UNCHANGED <<gen, screen, session, form, queue, drain, tasks, ticket, work, shown, lost>>
  BY <1>1 DEF client
<1>13. CASE Amount(found) # m.due
  <2>1. Answer(m, FALSE, NoRow) /\ UNCHANGED table
    BY <1>1, <1>3, <1>13 DEF Refused
  <2>2. EachOK(Told(m, FALSE, NoRow))'
    BY <1>1, <1>2, ToldIs, Constants DEF EachOK, AnswerOK, QuoteOK, CheckoutOK
  <2> QED
    BY <1>1, <1>2, <1>11, <2>1, <2>2, StillRow, AnswerKeeps, Constants
<1>14. CASE Amount(found) = m.due
  <2>1. Set(m, r) /\ Answer(m, TRUE, r)
    BY <1>1, <1>3, <1>4, <1>14
  <2>2. RowStep(m) /\ table'[m.of] = r
    BY <1>2, <1>5, <2>1, RowWritten
  <2>3. PICK x : Serves1(m, x) /\ (x \in wire' => m.awaited /\ x = Told(m, TRUE, r))
    BY <1>1, <1>2, <1>5, <2>1, <2>2, AnswerServes
  <2>4. x \in wire' => EachOK(x)'
    <3>1. /\ Told(m, TRUE, r).kind = m.kind /\ Told(m, TRUE, r).at = "answer" /\ Told(m, TRUE, r).seen = r
      BY <1>2, <1>5, ToldIs
    <3>2. ASSUME x \in wire'
          PROVE  x.kind = "checkout" /\ x.at = "answer" /\ x.seen.status = "PAYMENT_PENDING"
      BY <1>1, <1>5, <2>3, <3>1, <3>2
    <3> QED
      BY <3>2 DEF EachOK, AnswerOK, QuoteOK, CheckoutOK
  <2>5. CASE m.of \in lost
    BY <1>1, <1>11, <2>3, <2>4, <2>5, ServerKeeps DEF Steady
  <2>6. CASE m.of \notin lost
    <3>1. ScreenShapes' /\ ClientOK' /\ WorkOK' /\ ShownOK' /\ TableOK' /\ WireOK'
      BY <1>6, <1>11, <2>3, ServedShapes, ServedClient, ServedWire
    <3>2. ServedOK'
      <4>1. ASSUME NEW n \in wire'
            PROVE  EachOK(n)'
        <5>1. CASE n = x
          BY <5>1, <2>4
        <5>2. CASE n # x
          BY <1>1, <1>6, <2>3, <2>6, <5>2, ServedMessage, AloneEach
        <5> QED
          BY <5>1, <5>2
      <4> QED
        BY <4>1 DEF ServedOK
    <3>3. m.awaited /\ MessageOK(m) /\ AwaitedOK(m)
      BY <1>1, <1>2, <2>6 DEF ScreenInv, WireOK, MessageOK, GivenUpOK
    <3>4. work.op = "checkout" /\ work.at = "sent" /\ work # NoWork /\ work.of = m.of
      BY <1>1, <3>3, AwaitedRow DEF Handlers
    <3>5. PayingOK'
      BY <1>2, <1>5, <1>7, <1>12, <2>2, <3>4 DEF ScreenInv, PayingOK, Have
    <3>6. CASE m.of = gen
      <4>1. wire' = (wire \ {m}) \cup {Told(m, TRUE, r)}
        BY <2>1, <3>3, AnswerIs
      <4>0. PICK y : y = Told(m, TRUE, r)
        OBVIOUS
      <4>2. y \in wire' /\ BillPaid(y)'
        <5>1. /\ Told(m, TRUE, r).kind = m.kind /\ Told(m, TRUE, r).at = "answer" /\ Told(m, TRUE, r).of = m.of
              /\ Told(m, TRUE, r).ok = TRUE
          BY <1>2, <1>5, ToldIs
        <5> QED
          BY <1>1, <1>12, <3>6, <4>0, <4>1, <5>1 DEF BillPaid
      <4>3. Mine' = r /\ Mine = Row(m) /\ m.party = form.party
        BY <1>1, <1>2, <1>12, <2>2, <3>3, <3>6 DEF Mine, AwaitedOK
      <4>4. PaidOK'
        BY <1>12, <3>4, <4>2 DEF PaidOK
      <4>5. Entered'
        <5>1. Settled(gen) /\ Mine.party = m.party
          BY <1>7, <2>6, <3>6 DEF Fits, Mine
        <5>2. Settled(m.of)'
          BY <1>2, <1>6, <2>3, <3>6, <5>1, ServedSettled
        <5>3. Settled(gen)'
          BY <1>12, <3>6, <5>2 DEF Settled
        <5> QED
          BY <1>5, <1>12, <4>3, <5>1, <5>3 DEF Entered
      <4>6. ~ \E n \in wire : Quoted(n)
        <5>1. SUFFICES ASSUME NEW n \in wire, Quoted(n)
                       PROVE  FALSE
          OBVIOUS
        <5>2. n.awaited
          BY <5>1, WireTyped, Fields, <1>6 DEF WireOK, MessageOK, GivenUpOK, Quoted
        <5> QED
          BY <5>1, <5>2, <3>4, AwaitedRow DEF Quoted, Handlers
      <4>7. ReviewOK'
        BY <1>5, <1>12, <4>3, <4>5, <4>6 DEF ScreenInv, ReviewOK, Kept, Have, PartySaved
      <4> QED
        BY <1>11, <3>1, <3>2, <3>5, <4>4, <4>7 DEF ScreenInv
    <3>7. CASE m.of # gen
      <4>1. ~Have
        BY <3>4, <3>7, <1>6 DEF WorkOK, Busy, Have
      <4>2. ReviewOK' /\ PaidOK'
        BY <1>12, <4>1 DEF ReviewOK, PaidOK, Kept, Have
      <4> QED
        BY <1>11, <3>1, <3>2, <3>5, <4>2 DEF ScreenInv
    <3> QED
      BY <3>6, <3>7
  <2> QED
    BY <2>5, <2>6
<1> QED
  BY <1>13, <1>14

-----------------------------------------------------------------------------
(* The steps of the kiosk.                                                 *)

LEMMA ClientFields ==
  ASSUME ScreenInv
  PROVE  /\ MaxGen \in Nat /\ gen \in Nat /\ gen <= MaxGen
         /\ form \in Draft /\ form.rev \in Nat /\ form.party \in SizeOrNone
         /\ queue \in Draft /\ queue.rev \in Nat /\ queue.rev <= form.rev
         /\ drain \in Draft /\ drain.rev \in Nat /\ drain.rev <= form.rev
         /\ session # "none" => gen \in Gens
         /\ work # NoWork => work.op \in Handlers /\ work.of \in Gens /\ work.of <= gen
         /\ work = NoWork => ~Busy /\ ~HoldPending
         /\ ~Busy /\ screen \notin {"assigning", "help"} => work = NoWork
<1>1. /\ ScreenConstants /\ gen \in 0..MaxGen /\ form \in Draft /\ queue \in Draft /\ drain \in Draft /\ work \in Work
      /\ (work.op = "none" <=> work = NoWork)
  BY DEF ScreenInv, ScreenShapes, ClientShapes
<1>2. work.op \in Handlers \cup {"none"}
  BY <1>1 DEF Work
<1>3. ClientOK /\ WorkOK
  BY DEF ScreenInv
<1>4. work = NoWork => ~Busy /\ ~HoldPending
  BY Constants DEF Busy, HoldPending
<1>5. ~Busy /\ screen \notin {"assigning", "help"} => work = NoWork
  BY <1>1, <1>2, <1>3 DEF WorkOK, Busy, Handlers
<1>6. MaxGen \in Nat /\ gen \in Nat /\ gen <= MaxGen
  BY <1>1 DEF ScreenConstants
<1>7. /\ form.rev \in Nat /\ form.party \in SizeOrNone /\ queue.rev \in Nat /\ drain.rev \in Nat
  BY <1>1 DEF Draft, SizeOrNone
<1> QED
  BY <1>1, <1>2, <1>3, <1>4, <1>5, <1>6, <1>7 DEF ClientOK, WorkOK

LEMMA Waiting ==
  ASSUME ScreenInv, NEW m \in wire
  PROVE  /\ m \in Sent /\ m.of \in Gens /\ m.of \in Nat /\ m.of <= gen /\ m.awaited \in BOOLEAN /\ MessageOK(m) /\ EachOK(m)
         /\ m.at = "answer" => m.awaited
         /\ m.kind \in {"quote", "checkout"} /\ m.of \notin lost => m.awaited
         /\ m.awaited /\ m.kind \in Handlers => work.op = m.kind /\ work.at = "sent" /\ work.of = m.of /\ work # NoWork
<1>1. m \in Sent /\ m.of \in Gens /\ MessageOK(m) /\ EachOK(m) /\ m.awaited \in BOOLEAN
  BY WireTyped, Fields DEF ScreenInv, WireOK, ServedOK
<1>2. m.of \in Nat
  BY <1>1, ClientFields DEF Gens
<1> QED
  BY <1>1, <1>2, AwaitedRow DEF MessageOK, GivenUpOK

LEMMA ClientTable ==
  ASSUME ScreenInv, UNCHANGED <<gen, session, table>>, form' \in Draft, form'.rev >= form.rev
  PROVE  TableOK'
<1>1. TableOK /\ form.rev \in Nat /\ form'.rev \in Nat
  BY ClientFields DEF ScreenInv, Draft
<1>2. ASSUME Have
      PROVE  Mine.rev \in Nat
  BY <1>2, ClientFields, RowFields DEF Mine, Have, ScreenInv, ScreenShapes, SharedShapes
<1> QED
  BY <1>1, <1>2 DEF TableOK, Have, Mine

LEMMA ClientBills ==
  ASSUME ScreenInv, UNCHANGED bills, lost \subseteq lost'
  PROVE  PaysWhatIsShown'
BY DEF ScreenInv, PaysWhatIsShown

LEMMA MessageStays ==
  ASSUME ScreenInv, NEW m \in wire, UNCHANGED <<gen, session, table>>, lost \subseteq lost',
         form' \in Draft, form'.rev >= form.rev, m.awaited => AwaitedOK(m)'
  PROVE  MessageOK(m)'
<1>1. MessageOK(m) /\ m.rev \in Nat /\ form.rev \in Nat /\ form'.rev \in Nat
  BY ClientFields, Waiting, Fields DEF Draft
<1> QED
  BY <1>1 DEF MessageOK, GivenUpOK, Have

\* Nothing is awaited of a quote or a checkout that was not sent.
LEMMA Unsent ==
  ASSUME ScreenInv, work.at # "sent" \/ work.op \notin {"quote", "checkout"}, NEW m \in wire, m.kind \in {"quote", "checkout"}
  PROVE  m.of \in lost /\ ~m.awaited /\ m.at # "answer"
BY Waiting DEF Handlers

LEMMA EachIdle ==
  ASSUME ScreenInv, NEW m \in wire, UNCHANGED <<gen, session, table>>, lost \subseteq lost',
         work.at # "sent" \/ work.op \notin {"quote", "checkout"}
  PROVE  EachOK(m)'
<1>1. EachOK(m) /\ (m.kind \in {"quote", "checkout"} => m.of \in lost /\ ~m.awaited /\ m.at # "answer")
  BY Waiting, Unsent
<1> QED
  BY <1>1 DEF EachOK, AnswerOK, QuoteOK, CheckoutOK, Kept, Have, Mine

\* What is still to be read was to be read before.
Traced(n, others) ==
  Unread(n) /\ n.kind \in Drafting \cup {"party"} =>
    \E o \in others : Unread(o) /\ o.kind = n.kind /\ o.of = n.of /\ o.rev = n.rev

LEMMA SettledStays ==
  ASSUME UNCHANGED table, \A n \in wire' : Traced(n, wire), NEW g, Settled(g), g = gen' => Before(table[g].rev)'
  PROVE  Settled(g)'
<1>1. ASSUME NEW n \in wire', n.of = g, Unread(n)
      PROVE  n.kind # "party" /\ (n.kind \in Drafting => n.rev < table[g].rev)
  BY <1>1 DEF Settled, Traced
<1> QED
  BY <1>1 DEF Settled, Unread

LEMMA EachSettled ==
  ASSUME ScreenInv, NEW m \in wire, UNCHANGED <<gen, session, table, form>>, lost \subseteq lost',
         \A g \in Gens : Settled(g) => Settled(g)', Newest(m) => Newest(m)'
  PROVE  EachOK(m)'
<1>1. EachOK(m) /\ m.of \in Gens /\ (m.of = gen => Have)
  BY Waiting DEF MessageOK
<1>2. AnswerOK(m)'
  BY <1>1 DEF EachOK, AnswerOK, Kept, Have, Mine
<1>3. CheckoutOK(m)'
  BY <1>1 DEF EachOK, CheckoutOK, Fits
<1>4. ASSUME Entered, gen \in Gens
      PROVE  Entered'
  <2>1. PICK g \in Gens : g = gen
    BY <1>4
  <2>2. Settled(g)'
    BY <1>4, <2>1 DEF Entered
  <2>3. Settled(gen)'
    BY <2>1, <2>2 DEF Settled
  <2> QED
    BY <1>4, <2>3 DEF Entered, Mine
<1>5. QuoteOK(m)'
  BY <1>1, <1>4 DEF EachOK, QuoteOK, Cancelled, Mine, Unread
<1> QED
  BY <1>2, <1>3, <1>5 DEF EachOK

LEMMA EachStays ==
  ASSUME ScreenInv, NEW m \in wire, UNCHANGED <<gen, session, table, form>>, lost \subseteq lost',
         \A n \in wire' : Traced(n, wire), \A n \in wire' \ {m} : Traced(n, wire \ {m}),
         (queue'.rev = queue.rev /\ drain'.rev = drain.rev) \/ \A rev \in Nat : Before(rev) => Before(rev)'
  PROVE  EachOK(m)'
<1>1. ASSUME NEW g \in Gens, Settled(g)
      PROVE  Settled(g)'
  <2>1. table[g].rev \in Nat
    BY RowFields DEF ScreenInv, ScreenShapes, SharedShapes
  <2>2. g = gen' => Before(table[g].rev)'
    BY <1>1, <2>1 DEF Settled, Before
  <2> QED
    BY <1>1, <2>2, SettledStays
<1>2. ASSUME Newest(m)
      PROVE  Newest(m)'
  <2>1. form.rev \in Nat
    BY ClientFields
  <2>2. ASSUME NEW n \in wire', n # m, n.of = gen, n.kind \in Drafting, Unread(n)
        PROVE  n.rev < form.rev
    BY <1>2, <2>2 DEF Newest, Traced
  <2> QED
    BY <1>2, <2>1, <2>2 DEF Newest, Before, Unread
<1> QED
  BY <1>1, <1>2, EachSettled

\* What the buttons leave alone.
Aside == <<gen, session, form, queue, drain, tasks, wire, table, bills, lost>>

LEMMA AsideKeeps ==
  ASSUME ScreenInv, UNCHANGED Aside, work' = work \/ work.at # "sent", ClientShapes'
  PROVE  /\ ScreenShapes' /\ TableOK' /\ WireOK' /\ ServedOK' /\ PaysWhatIsShown'
         /\ Kept' = Kept /\ Have' = Have /\ Mine' = Mine /\ Entered' = Entered /\ Cancelled' = Cancelled
<1> USE DEF Aside
<1>1. ScreenShapes'
  BY DEF ScreenInv, ScreenShapes, SharedShapes, ScreenConstants
<1>2. form \in Draft /\ form.rev >= form.rev
  BY ClientFields
<1>3. ASSUME NEW m \in wire
      PROVE  MessageOK(m)'
  <2>1. m.awaited => AwaitedOK(m)'
    BY Waiting DEF MessageOK, AwaitedOK, Have, Empty
  <2> QED
    BY <1>2, <2>1, MessageStays
<1>4. WireOK'
  BY <1>3 DEF ScreenInv, WireOK, OneAwaited
<1>5. ASSUME NEW m \in wire
      PROVE  EachOK(m)'
  BY <1>5, EachStays DEF Traced
<1>6. ServedOK'
  BY <1>5 DEF ServedOK
<1>7. Settled(gen)' = Settled(gen)
  BY DEF Settled, Before, Unread
<1>8. Kept' = Kept /\ Have' = Have /\ Mine' = Mine /\ Entered' = Entered /\ Cancelled' = Cancelled
  BY <1>7 DEF Kept, Have, Mine, Entered, Cancelled
<1> QED
  BY <1>1, <1>2, <1>4, <1>6, <1>8, ClientTable, ClientBills

LEMMA SamePaying ==
  ASSUME ScreenInv, UNCHANGED Aside, UNCHANGED <<work, shown>>
  PROVE  PayingOK'
BY DEF ScreenInv, PayingOK, Fits, Settled, Before, Unread, Have, Aside

LEMMA HelpKeeps ==
  ASSUME ScreenInv, Help \/ Back
  PROVE  ScreenInv'
<1>1. /\ screen # "home" /\ UNCHANGED <<session, ticket, work, shown>> /\ UNCHANGED Aside
      /\ screen' \in {"party", "difficulty", "form", "help"}
      /\ screen' = "form" => screen = "review" /\ session # "none"
      /\ work.op = "assign" \/ screen \in {"payment", "help"} => screen' = "help"
  <2>1. CASE Help
    BY <2>1 DEF Help, Aside
  <2>2. CASE Back
    <3>1. screen \in {"home", "party", "difficulty", "assigning", "form", "review", "payment", "help"}
      BY DEF ScreenInv, ScreenShapes, ClientShapes
    <3> QED
      BY <2>2, <3>1 DEF Back, Aside, HoldPending
  <2> QED
    BY <2>1, <2>2
<1>2. ClientShapes'
  BY <1>1 DEF ScreenInv, ScreenShapes, ClientShapes, Aside
<1>3. ClientOK'
  <2>1. session \in {"none", "asked", "have"}
    BY DEF ScreenInv, ScreenShapes, ClientShapes
  <2> QED
    BY <1>1, <2>1 DEF ScreenInv, ClientOK, TasksOK, PartySaved, Busy, Empty, Aside, Have
<1>4. WorkOK' /\ ShownOK'
  BY <1>1 DEF ScreenInv, WorkOK, ShownOK, PartySaved, Busy, Have, Mine, Aside
<1>5. ReviewOK' /\ PaidOK'
  <2>1. /\ Kept' = Kept /\ Mine' = Mine /\ Entered' = Entered /\ Cancelled' = Cancelled
    BY <1>1, <1>2, AsideKeeps
  <2>2. ReviewOK'
    BY <1>1, <2>1 DEF ScreenInv, ReviewOK, PartySaved, Quoted, Aside
  <2>3. PaidOK'
    BY <1>1, <2>1 DEF ScreenInv, PaidOK, BillPaid, Aside
  <2> QED
    BY <2>2, <2>3
<1> QED
  BY <1>1, <1>2, <1>3, <1>4, <1>5, AsideKeeps, SamePaying DEF ScreenInv

LEMMA NoWorkTyped ==
  ASSUME MaxGen \in Nat
  PROVE  NoWork \in Work /\ NoWork' = NoWork
<1>1. 0 \in 0..MaxGen /\ 0 \in BenefitOrNone /\ 0 \in SizeOrNone /\ 0 \in Nat
  BY DEF BenefitOrNone, SizeOrNone
<1>2. NoWork \in Work
  BY <1>1, Constants DEF NoWork, Work
<1> QED
  BY <1>2 DEF NoWork, NoSum

LEMMA StartIs ==
  ASSUME ScreenInv, NEW op \in Handlers, gen \in Gens
  PROVE  Start(op) \in Work /\ Start(op).op = op /\ Start(op).at = "barrier" /\ Start(op).of = gen /\ Start(op) # NoWork
<1>1. gen \in 0..MaxGen
  BY DEF ScreenInv, ScreenShapes, ClientShapes
<1>2. NoWork \in Work
  BY ClientFields, NoWorkTyped
<1>3. Start(op).op = op /\ Start(op).at = "barrier" /\ Start(op).of = gen
  BY DEF Start, NoWork
<1>4. Start(op) \in Work
  BY <1>1, <1>2 DEF Start, NoWork, Work
<1> QED
  BY <1>3, <1>4, Constants DEF Handlers

\* A bill is waited for on the screen of the payment, with no other handler.
LEMMA NotYetPaid ==
  ASSUME ScreenInv, Kept, work.op # "checkout", work # NoWork \/ screen \notin {"payment", "help"}
  PROVE  Mine.status # "PAYMENT_PENDING"
BY DEF ScreenInv, PaidOK

LEMMA ChooseDifficultyKeeps ==
  ASSUME ScreenInv, ChooseDifficulty
  PROVE  ScreenInv'
<1>1. /\ screen \in {"difficulty", "assigning"} /\ work = NoWork /\ session # "none" /\ UNCHANGED <<ticket, shown>>
      /\ UNCHANGED Aside /\ screen' = "assigning" /\ work' = Start("assign")
  BY DEF ChooseDifficulty, Aside
<1>2. gen \in Gens /\ ~Busy
  BY <1>1, ClientFields
<1>3. /\ work' \in Work /\ work'.op = "assign" /\ work'.at = "barrier" /\ work'.of = gen /\ work' # NoWork /\ NoWork' = NoWork
  BY <1>1, <1>2, StartIs DEF Handlers, NoWork, NoSum
<1>4. ClientShapes'
  BY <1>1, <1>3 DEF ScreenInv, ScreenShapes, ClientShapes, Aside
<1>5. ClientOK'
  BY <1>1, <1>3 DEF ScreenInv, ClientOK, TasksOK, PartySaved, Busy, Empty, Aside
<1>6. WorkOK' /\ ShownOK'
  BY <1>1, <1>2, <1>3, ClientFields DEF ScreenInv, WorkOK, ShownOK, PartySaved, Busy, Have, Mine, Aside
<1>7. /\ Kept' = Kept /\ Mine' = Mine /\ Entered' = Entered /\ Cancelled' = Cancelled
  BY <1>1, <1>4, AsideKeeps, Constants
<1>8. ReviewOK'
  BY <1>1, <1>3, <1>7 DEF ScreenInv, ReviewOK, PartySaved, Quoted, Aside
<1>9. PaidOK'
  BY <1>1, <1>3, <1>7, NotYetPaid, Constants DEF PaidOK
<1>10. PayingOK'
  BY <1>3 DEF PayingOK
<1> QED
  BY <1>1, <1>4, <1>5, <1>6, <1>8, <1>9, <1>10, AsideKeeps, Constants DEF ScreenInv

LEMMA HandlerFailsKeeps ==
  ASSUME ScreenInv, HandlerFails
  PROVE  ScreenInv'
<1>1. /\ work.at = "barrier" /\ work' = NoWork /\ UNCHANGED <<ticket, shown>> /\ UNCHANGED Aside
      /\ PartyFailed \/ (work.op = "quote" /\ session = "none")
      /\ screen' = IF work.op = "checkout" THEN "review" ELSE screen
  BY DEF HandlerFails, Aside
<1>2. work # NoWork /\ NoWork' = NoWork
  BY <1>1, Constants DEF NoWork, NoSum
<1>3. work.op = "assign" \/ (work.op = "quote" /\ session = "none")
  BY <1>1, <1>2, ClientFields DEF ScreenInv, ClientOK, TasksOK, Busy, PartySaved, PartyFailed, Handlers
<1>4. screen' = screen /\ (work.op = "assign" => screen \in {"assigning", "help"}) /\ (Have => work.op = "assign")
  BY <1>1, <1>3 DEF ScreenInv, WorkOK, Have
<1>5. ClientShapes'
  <2>1. work' \in Work /\ work' = NoWork' /\ work'.op = "none"
    BY <1>1, ClientFields, NoWorkTyped, Constants
  <2> QED
    BY <1>1, <1>4, <2>1 DEF ScreenInv, ScreenShapes, ClientShapes, Aside
<1>6. work'.op = "none" /\ work'.of = 0 /\ ~Busy' /\ work' = NoWork'
  BY <1>1, <1>2, Constants DEF Busy
<1>7. ClientOK'
  BY <1>1, <1>4, <1>6 DEF ScreenInv, ClientOK, TasksOK, PartySaved, Empty, Aside
<1>8. WorkOK'
  BY <1>1, <1>6, ClientFields DEF WorkOK, Aside
<1>9. ShownOK'
  BY <1>1, <1>4 DEF ScreenInv, ShownOK, Have, Mine, Aside
<1>10. /\ Kept' = Kept /\ Mine' = Mine /\ Entered' = Entered /\ Cancelled' = Cancelled
  BY <1>1, <1>5, AsideKeeps
<1>11. ReviewOK'
  BY <1>1, <1>4, <1>6, <1>10 DEF ScreenInv, ReviewOK, Kept, PartySaved, Quoted, Aside
<1>12. PaidOK'
  BY <1>2, <1>4, <1>10, NotYetPaid DEF PaidOK, Kept
<1>13. PayingOK'
  BY <1>6 DEF PayingOK
<1> QED
  BY <1>1, <1>5, <1>7, <1>8, <1>9, <1>11, <1>12, <1>13, AsideKeeps DEF ScreenInv

LEMMA CheckoutKeeps ==
  ASSUME ScreenInv, Checkout
  PROVE  ScreenInv'
<1>1. /\ screen = "review" /\ work = NoWork /\ Have /\ shown.items > 0 /\ screen' = "payment" /\ UNCHANGED <<ticket, shown>>
      /\ UNCHANGED Aside
      /\ work' = [Start("checkout") EXCEPT !.party = form.party, !.sum = shown.final, !.due = shown.items]
  BY DEF Checkout, PaymentMatches, Aside, Have
<1>2. gen \in Gens /\ ~Busy /\ PartySaved
  BY <1>1, ClientFields DEF Have, ScreenInv, ClientOK, TasksOK
<1>3. shown.final \in Sum /\ shown.items \in Nat /\ form.party \in SizeOrNone
  BY ClientFields DEF ScreenInv, ScreenShapes, ClientShapes, Shown
<1>4. /\ work' \in Work /\ work'.op = "checkout" /\ work'.at = "barrier" /\ work'.of = gen /\ work' # NoWork
      /\ work'.party = form.party /\ work'.sum = shown.final
  <2>1. PICK w : w = Start("checkout")
    OBVIOUS
  <2>2. w \in Work /\ w.op = "checkout" /\ w.at = "barrier" /\ w.of = gen
    BY <1>2, <2>1, StartIs DEF Handlers
  <2>3. work' = [w EXCEPT !.party = form.party, !.sum = shown.final, !.due = shown.items]
    BY <1>1, <2>1
  <2> QED
    BY <1>3, <2>2, <2>3, Constants DEF Work
<1>5. NoWork' = NoWork
  BY DEF NoWork, NoSum
<1>6. ClientShapes'
  BY <1>1, <1>4, <1>5 DEF ScreenInv, ScreenShapes, ClientShapes, Aside
<1>7. ClientOK'
  BY <1>1, <1>2, <1>4 DEF ScreenInv, ClientOK, TasksOK, PartySaved, Busy, Empty, Aside
<1>8. WorkOK' /\ ShownOK'
  BY <1>1, <1>2, <1>4, ClientFields DEF ScreenInv, WorkOK, ShownOK, PartySaved, Busy, Have, Mine, Aside
<1>9. /\ Kept' = Kept /\ Have' = Have /\ Mine' = Mine /\ Entered' = Entered /\ Cancelled' = Cancelled
  BY <1>1, <1>6, AsideKeeps, Constants
<1>10. Kept => Entered \/ Cancelled
  BY <1>1 DEF ScreenInv, ReviewOK
<1>11. ReviewOK'
  BY <1>1, <1>4, <1>9, <1>10 DEF ScreenInv, ReviewOK, PartySaved, Quoted, Aside
<1>12. PaidOK'
  BY <1>1, <1>9, NotYetPaid, Constants DEF PaidOK
<1>13. PayingOK'
  <2>1. Mine.agreed
    BY <1>1 DEF ScreenInv, ShownOK
  <2>2. ASSUME gen \notin lost, Entered
        PROVE  Fits(gen, form.party, shown.final)
    <3>1. Kept
      BY <1>1, <2>2 DEF Kept
    <3>2. ~ \E m \in wire : Quoted(m)
      BY <1>1, Waiting DEF Quoted, Handlers
    <3>3. Mine.benefit = shown.final.benefit /\ shown.final.party = form.party
      BY <1>1, <1>2, <3>1, <3>2 DEF ScreenInv, ReviewOK
    <3>4. shown.final = [party |-> form.party, benefit |-> table[gen].benefit]
      BY <1>3, <3>3 DEF Sum, Mine
    <3> QED
      BY <2>2, <3>4 DEF Entered, Fits, Mine
  <2>3. gen \notin lost => table[gen].status = "CANCELLED" \/ Fits(gen, form.party, shown.final)
    BY <1>1, <1>10, <2>2 DEF Kept, Cancelled, Mine
  <2>4. ASSUME Fits(gen, form.party, shown.final)
        PROVE  Fits(work.of, work.party, work.sum)'
    BY <1>1, <1>4, <2>4 DEF Fits, Settled, Before, Unread, Aside
  <2> QED
    BY <1>1, <1>4, <2>1, <2>3, <2>4 DEF PayingOK, Have, Mine, Aside
<1> QED
  BY <1>1, <1>6, <1>7, <1>8, <1>11, <1>12, <1>13, AsideKeeps, Constants DEF ScreenInv

LEMMA WireStays ==
  ASSUME ScreenInv, UNCHANGED <<gen, session, table>>, lost \subseteq lost', form' \in Draft, form'.rev >= form.rev,
         wire' \subseteq wire, \A m \in wire' : m.awaited => AwaitedOK(m)'
  PROVE  WireOK'
<1>1. ASSUME NEW m \in wire'
      PROVE  MessageOK(m)'
  BY <1>1, MessageStays
<1> QED
  BY <1>1 DEF ScreenInv, WireOK, OneAwaited

LEMMA WireSends ==
  ASSUME ScreenInv, UNCHANGED <<gen, session, table>>, lost \subseteq lost', form' \in Draft, form'.rev >= form.rev,
         NEW x, wire' = wire \cup {x}, MessageOK(x)', \A m \in wire : m.awaited => m.kind # x.kind /\ AwaitedOK(m)'
  PROVE  WireOK'
<1>1. ASSUME NEW m \in wire
      PROVE  MessageOK(m)'
  BY <1>1, MessageStays
<1>2. OneAwaited'
  BY DEF ScreenInv, WireOK, OneAwaited
<1> QED
  BY <1>1, <1>2 DEF WireOK

\* The customer goes on, with no handler running.
LEMMA GoesOn ==
  ASSUME ScreenInv, work = NoWork, UNCHANGED <<gen, session, wire, table, bills, lost, drain, work>>,
         form' \in Draft, form'.rev >= form.rev, tasks # <<>> => tasks' # <<>> /\ tasks'[1] = tasks[1]
  PROVE  /\ SharedShapes' /\ TableOK' /\ WireOK' /\ ServedOK' /\ PayingOK' /\ PaysWhatIsShown' /\ WorkOK'
         /\ Kept' = Kept /\ Have' = Have /\ Mine' = Mine
<1>1. ASSUME NEW m \in wire, m.awaited
      PROVE  AwaitedOK(m)'
  <2>1. m.kind \notin Handlers /\ AwaitedOK(m)
    BY <1>1, Waiting DEF MessageOK
  <2> QED
    BY <2>1 DEF AwaitedOK, Have, Empty, Handlers
<1>2. WireOK'
  BY <1>1, WireStays
<1>3. work.op = "none" /\ work.at = "" /\ work.of = 0 /\ NoWork' = NoWork
  BY Constants, ClientFields, NoWorkTyped
<1>4. ASSUME NEW m \in wire
      PROVE  EachOK(m)'
  BY <1>3, <1>4, EachIdle
<1>5. ServedOK' /\ PayingOK'
  BY <1>3, <1>4 DEF ServedOK, PayingOK
<1>6. WorkOK'
  <2>1. work'.op = "none" /\ work'.of = 0 /\ work' = NoWork' /\ gen' \in Nat
    BY <1>3, ClientFields
  <2> QED
    BY <2>1 DEF WorkOK, Busy
<1>7. SharedShapes'
  BY DEF ScreenInv, ScreenShapes, SharedShapes
<1> QED
  BY <1>2, <1>5, <1>6, <1>7, ClientTable, ClientBills DEF Kept, Have, Mine

LEMMA SaveTeamKeeps ==
  ASSUME ScreenInv, SaveTeam
  PROVE  ScreenInv'
<1>1. /\ screen = "form" /\ ~Busy /\ form' = [form EXCEPT !.rev = @ + 1] /\ queue' = form'
      /\ UNCHANGED <<gen, screen, session, drain, tasks, ticket, work, shown, wire, table, bills, lost>>
  BY DEF SaveTeam
<1>2. work = NoWork /\ form \in Draft /\ form.rev \in Nat
  BY <1>1, ClientFields
<1>3. form' \in Draft /\ form'.rev = form.rev + 1 /\ form'.party = form.party /\ form'.rev >= form.rev
  BY <1>1, <1>2 DEF Draft
<1>4. ScreenShapes' /\ NoWork' = NoWork
  BY <1>1, <1>2, <1>3, GoesOn, NoWorkTyped, ClientFields DEF ScreenInv, ScreenShapes, ClientShapes, ScreenConstants
<1>5. ClientOK'
  <2>1. session = "have"
    BY <1>1 DEF ScreenInv, ClientOK, Have
  <2> QED
    BY <1>1, <1>3, <2>1, ClientFields DEF ScreenInv, ClientOK, TasksOK, PartySaved, Busy, Empty, Have
<1>6. ShownOK'
  BY <1>1 DEF ScreenInv, ShownOK, Have, Mine
<1>7. Kept' = Kept /\ Mine' = Mine
  BY <1>1, <1>2, <1>3, GoesOn
<1>8. ReviewOK'
  BY <1>1, <1>2, <1>3, <1>7, Constants DEF ScreenInv, ReviewOK, PartySaved, Quoted
<1>9. PaidOK'
  BY <1>1, <1>7, NotYetPaid, <1>2, Constants DEF PaidOK
<1> QED
  BY <1>1, <1>2, <1>3, <1>4, <1>5, <1>6, <1>8, <1>9, GoesOn DEF ScreenInv

LEMMA SavePartyKeeps ==
  ASSUME ScreenInv, NEW p \in Sizes, SaveParty(p)
  PROVE  ScreenInv'
<1>1. /\ screen = "party" /\ session # "none" /\ ~Busy /\ screen' = "difficulty"
      /\ UNCHANGED <<gen, session, queue, drain, work, wire, table, bills, lost>>
  BY DEF SaveParty
<1>2. work = NoWork /\ work.op = "none" /\ form \in Draft /\ form.rev \in Nat /\ NoWork' = NoWork
  BY <1>1, ClientFields, Constants, NoWorkTyped
<1>3. CASE UNCHANGED <<form, tasks, ticket, shown>>
  <2>1. UNCHANGED Aside
    BY <1>1, <1>3 DEF Aside
  <2>2. ClientShapes'
    BY <1>1, <1>2, <1>3 DEF ScreenInv, ScreenShapes, ClientShapes
  <2>3. ClientOK' /\ WorkOK' /\ ShownOK'
    BY <1>1, <1>2, <1>3 DEF ScreenInv, ClientOK, TasksOK, PartySaved, Busy, Empty, WorkOK, ShownOK, Have, Mine
  <2>4. Kept' = Kept /\ Mine' = Mine
    BY <1>1, <2>1, <2>2, AsideKeeps
  <2>5. ReviewOK'
    BY <1>1, <1>2, <1>3, <2>4 DEF ScreenInv, ReviewOK, PartySaved, Quoted
  <2>6. PaidOK'
    BY <1>1, <1>2, <2>4, NotYetPaid DEF PaidOK
  <2> QED
    BY <1>1, <1>3, <2>1, <2>2, <2>3, <2>5, <2>6, AsideKeeps, SamePaying DEF ScreenInv
<1>4. CASE /\ form' = [rev |-> form.rev + 1, party |-> p] /\ ticket' = [party |-> p, status |-> "pending"]
           /\ tasks' = Append(tasks, [party |-> p, sent |-> FALSE])
           /\ shown' = IF shown.of = 0 THEN shown ELSE [shown EXCEPT !.party = p]
  <2>1. /\ form' \in Draft /\ form'.rev = form.rev + 1 /\ form'.rev >= form.rev /\ form'.party = p /\ p \in SizeOrNone
    BY <1>2, <1>4 DEF Draft, SizeOrNone
  <2>2. tasks \in Seq([party : Sizes, sent : BOOLEAN])
    BY DEF ScreenInv, ScreenShapes, ClientShapes
  <2>3. /\ tasks' \in Seq([party : Sizes, sent : BOOLEAN]) /\ tasks' # <<>> /\ tasks'[Len(tasks')].party = p
        /\ tasks # <<>> => tasks'[1] = tasks[1]
    BY <1>4, <2>2
  <2>4. /\ shown' \in Shown /\ shown'.of = shown.of /\ shown'.items = shown.items /\ shown'.final = shown.final
        /\ shown'.status = shown.status
    BY <1>4, <2>1 DEF ScreenInv, ScreenShapes, ClientShapes, Shown
  <2>5. ClientShapes'
    <3>1. ticket' \in [party : SizeOrNone, status : {"none", "pending", "done", "failed"}]
      BY <1>4, <2>1
    <3> QED
      BY <1>1, <1>2, <2>1, <2>3, <2>4, <3>1 DEF ScreenInv, ScreenShapes, ClientShapes
  <2>6. ClientOK'
    <3>1. ticket'.status = "pending" /\ ticket'.party = p
      BY <1>4
    <3> QED
      BY <1>1, <1>2, <2>1, <2>3, <3>1, ClientFields DEF ScreenInv, ClientOK, TasksOK, PartySaved, Busy, Empty
  <2>7. ShownOK'
    BY <1>1, <2>4 DEF ScreenInv, ShownOK, Have, Mine
  <2>8. /\ SharedShapes' /\ TableOK' /\ WireOK' /\ ServedOK' /\ PayingOK' /\ PaysWhatIsShown' /\ WorkOK'
        /\ Kept' = Kept /\ Have' = Have /\ Mine' = Mine
    BY <1>1, <1>2, <2>1, <2>3, GoesOn
  <2>9. ReviewOK'
    BY <1>1, <1>2, <1>4, <2>4, <2>8 DEF ScreenInv, ReviewOK, PartySaved, Quoted
  <2>10. PaidOK'
    BY <1>1, <1>2, <2>8, NotYetPaid DEF PaidOK
  <2> QED
    BY <2>5, <2>6, <2>7, <2>8, <2>9, <2>10 DEF ScreenInv, ScreenShapes, ScreenConstants
<1> QED
  BY <1>3, <1>4 DEF SaveParty, Spent

\* What the kiosk sends of its visit.
LEMMA SentOK ==
  ASSUME ScreenInv, UNCHANGED <<gen, session, table>>, Have, NEW x \in Sent, x.of = gen, x.awaited,
         x.kind \in Drafting => x.rev <= form'.rev, AwaitedOK(x)'
  PROVE  MessageOK(x)'
<1>1. gen \in Nat /\ Mine.status # "NONE"
  BY ClientFields DEF ScreenInv, TableOK
<1> QED
  BY <1>1 DEF MessageOK, Have, Mine

LEMMA HeadSent ==
  ASSUME NEW s \in Seq([party : Sizes, sent : BOOLEAN]), s # <<>>
  PROVE  /\ s[1].party \in SizeOrNone
         /\ \E t \in Seq([party : Sizes, sent : BOOLEAN]) :
              /\ t = [s EXCEPT ![1].sent = TRUE] /\ t # <<>> /\ t[1].sent
              /\ t[1].party = s[1].party /\ t[Len(t)].party = s[Len(s)].party
<1>1. Len(s) \in Nat /\ Len(s) >= 1 /\ 1 \in 1..Len(s) /\ Len(s) \in 1..Len(s)
  BY EmptySeq
<1>2. s[1] \in [party : Sizes, sent : BOOLEAN]
  BY <1>1, ElementOfSeq
<1>3. PICK h : h = [s[1] EXCEPT !.sent = TRUE]
  OBVIOUS
<1>4. h \in [party : Sizes, sent : BOOLEAN] /\ h.party = s[1].party /\ h.sent
  BY <1>2, <1>3
<1>5. PICK t : t = [s EXCEPT ![1] = h]
  OBVIOUS
<1>6. t \in Seq([party : Sizes, sent : BOOLEAN]) /\ Len(t) = Len(s) /\ t[1] = h /\ (Len(s) # 1 => t[Len(s)] = s[Len(s)])
  BY <1>1, <1>4, <1>5
<1>7. t = [s EXCEPT ![1].sent = TRUE]
  BY <1>3, <1>5
<1>8. t # <<>> /\ t[Len(t)].party = s[Len(s)].party
  BY <1>1, <1>4, <1>6
<1> QED
  BY <1>2, <1>4, <1>6, <1>7, <1>8 DEF SizeOrNone

LEMMA PartySendsKeeps ==
  ASSUME ScreenInv, PartySends
  PROVE  ScreenInv'
<1>1. /\ tasks # <<>> /\ ~tasks[1].sent /\ Have /\ tasks' = [tasks EXCEPT ![1].sent = TRUE]
      /\ wire' = wire \cup {Message("party", 0, tasks[1].party, 0)}
      /\ UNCHANGED <<gen, screen, session, form, queue, drain, ticket, work, shown, table, bills, lost>>
  BY DEF PartySends, Send, Have
<1>2. tasks \in Seq([party : Sizes, sent : BOOLEAN]) /\ gen \in Gens
  BY <1>1, ClientFields DEF ScreenInv, ScreenShapes, ClientShapes, Have
<1>3. /\ tasks' \in Seq([party : Sizes, sent : BOOLEAN]) /\ tasks' # <<>> /\ tasks[1].party \in SizeOrNone
      /\ tasks'[1].sent /\ tasks'[1].party = tasks[1].party /\ tasks'[Len(tasks')].party = tasks[Len(tasks)].party
  <2>1. PICK s : s = tasks
    OBVIOUS
  <2>2. s \in Seq([party : Sizes, sent : BOOLEAN]) /\ s # <<>> /\ tasks' = [s EXCEPT ![1].sent = TRUE]
    BY <1>1, <1>2, <2>1
  <2>3. s[1].party \in SizeOrNone
    BY <2>2, HeadSent
  <2>4. PICK t \in Seq([party : Sizes, sent : BOOLEAN]) :
              /\ t = [s EXCEPT ![1].sent = TRUE] /\ t # <<>> /\ t[1].sent
              /\ t[1].party = s[1].party /\ t[Len(t)].party = s[Len(s)].party
    BY <2>2, HeadSent
  <2>5. tasks' = t
    BY <2>2, <2>4, Zenon
  <2> QED
    BY <2>1, <2>3, <2>4, <2>5
<1>4. PICK x \in Sent : /\ x = Message("party", 0, tasks[1].party, 0)
                        /\ x.kind = "party" /\ x.of = gen /\ x.at = "sent" /\ x.party = tasks[1].party /\ x.awaited /\ ~x.ok
  <2>1. "party" \in Kinds /\ 0 \in Nat /\ 0 \in BenefitOrNone
    BY DEF Kinds, BenefitOrNone
  <2>2. PICK p \in SizeOrNone : p = tasks[1].party
    BY <1>3
  <2>3. /\ Message("party", 0, p, 0) \in Sent /\ Message("party", 0, p, 0).kind = "party"
        /\ Message("party", 0, p, 0).of = gen /\ Message("party", 0, p, 0).at = "sent"
        /\ Message("party", 0, p, 0).party = p /\ Message("party", 0, p, 0).awaited = TRUE
        /\ Message("party", 0, p, 0).ok = FALSE
    BY <1>2, <2>1, Constants DEF Message, Sent, Stages
  <2> QED
    BY <2>2, <2>3
<1>5. ticket.status = "pending" /\ ~PartySaved /\ ~Busy /\ screen \notin {"form", "review", "payment"}
  BY <1>1 DEF ScreenInv, ClientOK, TasksOK, PartySaved
<1>6. ScreenShapes'
  BY <1>1, <1>3, <1>4, <1>2, ClientFields, NoWorkTyped DEF ScreenInv, ScreenShapes, ClientShapes, SharedShapes, ScreenConstants
<1>7. ClientOK' /\ WorkOK' /\ ShownOK'
  BY <1>1, <1>3, ClientFields, NoWorkTyped
     DEF ScreenInv, ClientOK, TasksOK, PartySaved, Busy, Empty, WorkOK, ShownOK, Have, Mine
<1>8. form \in Draft /\ form.rev >= form.rev
  BY ClientFields
<1>9. WireOK'
  <2>1. MessageOK(x)'
    <3>1. AwaitedOK(x)'
      BY <1>1, <1>3, <1>4 DEF AwaitedOK, Have, Handlers
    <3> QED
      BY <1>1, <1>4, <3>1, SentOK DEF Drafting
  <2>2. ASSUME NEW m \in wire, m.awaited
        PROVE  m.kind # x.kind /\ AwaitedOK(m)'
    BY <1>1, <1>4, <2>2, Waiting DEF MessageOK, AwaitedOK, Have, Empty
  <2> QED
    BY <1>1, <1>4, <1>8, <2>1, <2>2, WireSends
<1>10. ServedOK'
  <2>1. ASSUME NEW m \in wire
        PROVE  EachOK(m)'
    BY <1>1, <1>5, <2>1, EachIdle DEF Busy
  <2>2. EachOK(x)'
    BY <1>4 DEF EachOK, AnswerOK, QuoteOK, CheckoutOK
  <2> QED
    BY <1>1, <1>4, <2>1, <2>2 DEF ServedOK
<1>11. PayingOK'
  BY <1>1, <1>5 DEF PayingOK, Busy
<1>12. ReviewOK' /\ PaidOK'
  <2>1. Kept' = Kept /\ Mine' = Mine
    BY <1>1 DEF Kept, Have, Mine
  <2>2. ReviewOK'
    BY <1>1, <1>5, <2>1 DEF ScreenInv, ReviewOK, PartySaved, Quoted, Busy
  <2>3. PaidOK'
    BY <1>1, <1>5, <2>1, NoWorkTyped, ClientFields DEF ScreenInv, PaidOK, BillPaid, Busy
  <2> QED
    BY <2>2, <2>3
<1> QED
  BY <1>1, <1>6, <1>7, <1>8, <1>9, <1>10, <1>11, <1>12, ClientTable, ClientBills DEF ScreenInv

\* A handler whose request goes on its way.
LEMMA HandlerSends ==
  ASSUME ScreenInv, UNCHANGED <<gen, screen, session, queue, drain, tasks, ticket, shown, table, bills, lost>>,
         form' \in Draft, form'.rev >= form.rev, form'.party = form.party,
         work' \in Work, work'.op \in Handlers, work'.at = "sent", PartySaved,
         (work = NoWork /\ Have) \/ (work.at = "barrier" /\ work.op = work'.op),
         NEW x \in Sent, wire' = wire \cup {x}, x.kind = work'.op, x.awaited, x.of = work'.of,
         x.of = gen => Have, x.kind = "assign" => x.of = gen, x.of <= gen, table[x.of].status # "NONE",
         x.kind \in Drafting => x.rev <= form'.rev,
         x.kind \in {"assign", "quote", "checkout"} /\ x.of = gen => x.party = form.party,
         EachOK(x)'
  PROVE  /\ ScreenShapes' /\ ClientOK' /\ ShownOK' /\ TableOK' /\ WireOK' /\ ServedOK' /\ PaysWhatIsShown'
         /\ Kept' = Kept /\ Have' = Have /\ Mine' = Mine /\ PartySaved' = PartySaved /\ Cancelled' = Cancelled /\ work' # NoWork'
<1>1. /\ work.at # "sent" /\ work' # NoWork' /\ work'.op # "none" /\ form.rev \in Nat /\ form'.rev \in Nat
  BY Constants, NoWorkTyped, ClientFields DEF Draft, Handlers
<1>2. ScreenShapes'
  BY <1>1 DEF ScreenInv, ScreenShapes, ClientShapes, SharedShapes, ScreenConstants
<1>3. PartySaved' = PartySaved /\ Have' = Have /\ Kept' = Kept /\ Mine' = Mine /\ Cancelled' = Cancelled
  BY DEF PartySaved, Have, Kept, Mine, Cancelled
<1>4. ClientOK'
  BY <1>1, <1>3, ClientFields DEF ScreenInv, ClientOK, TasksOK, Empty, NoDraft
<1>5. ShownOK'
  BY <1>3 DEF ScreenInv, ShownOK
<1>6. WireOK'
  <2>1. MessageOK(x)'
    BY DEF MessageOK, AwaitedOK, Have, Drafting, Handlers
  <2>2. ASSUME NEW m \in wire, m.awaited
        PROVE  m.kind # x.kind /\ AwaitedOK(m)'
    <3>1. m.kind \notin Handlers /\ AwaitedOK(m)
      BY <1>1, <2>2, Waiting DEF MessageOK
    <3> QED
      BY <3>1 DEF AwaitedOK, Have, Empty, Handlers, NoDraft
  <2> QED
    BY <2>1, <2>2, WireSends
<1>7. ServedOK'
  <2>1. ASSUME NEW m \in wire
        PROVE  EachOK(m)'
    BY <1>1, <2>1, EachIdle
  <2> QED
    BY <2>1 DEF ServedOK
<1> QED
  BY <1>1, <1>2, <1>3, <1>4, <1>5, <1>6, <1>7, ClientTable, ClientBills

\* The row of a visit of this kiosk.
LEMMA HaveRow ==
  ASSUME ScreenInv, Have
  PROVE  gen \in Gens /\ table[gen].status # "NONE" /\ gen <= gen
BY ClientFields DEF ScreenInv, TableOK, Have, Mine

LEMMA AcceptGuidanceKeeps ==
  ASSUME ScreenInv, NEW b \in Benefits, AcceptGuidance(b)
  PROVE  ScreenInv'
<1>1. /\ screen = "form" /\ work = NoWork /\ Have
      /\ work' = [Start("guide") EXCEPT !.at = "sent", !.benefit = b]
      /\ wire' = wire \cup {Message("guide", 0, 0, 0)}
      /\ UNCHANGED <<gen, screen, session, form, queue, drain, tasks, ticket, shown, table, bills, lost>>
  BY DEF AcceptGuidance, Send, Have
<1>2. gen \in Gens /\ table[gen].status # "NONE" /\ gen <= gen /\ PartySaved /\ form \in Draft /\ form.rev >= form.rev
  BY <1>1, HaveRow, ClientFields DEF ScreenInv, ClientOK, TasksOK
<1>3. work' \in Work /\ work'.op = "guide" /\ work'.at = "sent" /\ work'.of = gen
  <2>1. PICK w : w = Start("guide")
    OBVIOUS
  <2>2. w \in Work /\ w.op = "guide" /\ w.of = gen
    BY <1>2, <2>1, StartIs DEF Handlers
  <2>3. work' = [w EXCEPT !.at = "sent", !.benefit = b]
    BY <1>1, <2>1
  <2> QED
    BY <2>2, <2>3 DEF Work, BenefitOrNone
<1>4. PICK x : x = Message("guide", 0, 0, 0)
  OBVIOUS
<1>5. x \in Sent /\ x.kind = "guide" /\ x.of = gen /\ x.at = "sent" /\ x.awaited = TRUE
  <2>1. "guide" \in Kinds /\ 0 \in Nat /\ 0 \in BenefitOrNone /\ 0 \in SizeOrNone
    BY DEF Kinds, BenefitOrNone, SizeOrNone
  <2> QED
    BY <1>2, <1>4, <2>1, Constants DEF Message, Sent, Stages
<1>6. EachOK(x)'
  BY <1>5 DEF EachOK, AnswerOK, QuoteOK, CheckoutOK
<1>7. /\ ScreenShapes' /\ ClientOK' /\ ShownOK' /\ TableOK' /\ WireOK' /\ ServedOK' /\ PaysWhatIsShown'
      /\ Kept' = Kept /\ Have' = Have /\ Mine' = Mine /\ PartySaved' = PartySaved /\ work' # NoWork'
  <2>1. wire' = wire \cup {x}
    BY <1>1, <1>4
  <2>2. UNCHANGED <<gen, screen, session, form, queue, drain, tasks, ticket, shown, table, bills, lost>> /\ work = NoWork /\ Have
    BY <1>1
  <2> QED
    <3>1. form' \in Draft /\ form'.rev >= form.rev /\ form'.party = form.party /\ work'.op \in Handlers
      BY <2>2, <1>2, <1>3 DEF Handlers
    <3>2. /\ x.kind = work'.op /\ x.awaited /\ x.of = work'.of /\ (x.of = gen => Have) /\ x.of <= gen
          /\ table[x.of].status # "NONE" /\ x.kind \notin Drafting \cup {"checkout"}
      BY <2>2, <1>2, <1>3, <1>5 DEF Drafting
    <3> QED
      BY <3>1, <3>2, <2>1, <2>2, <1>2, <1>3, <1>5, <1>6, HandlerSends DEF Drafting
<1>8. WorkOK'
  BY <1>1, <1>2, <1>3, <1>7 DEF WorkOK, Busy, Have
<1>9. PayingOK'
  BY <1>3 DEF PayingOK
<1>10. ReviewOK'
  BY <1>1, <1>3, <1>4, <1>7 DEF ScreenInv, ReviewOK, Quoted
<1>11. PaidOK'
  BY <1>1, <1>7, NotYetPaid, Constants DEF PaidOK
<1> QED
  BY <1>7, <1>8, <1>9, <1>10, <1>11 DEF ScreenInv

\* The message of a handler that takes a snapshot of the form.
LEMMA SnapshotIs ==
  ASSUME ScreenInv, Have, NEW kind \in {"assign", "quote"}, SendDraft(kind, 0) \/ SendDraft(kind, work.benefit),
         work.op = kind
  PROVE  /\ form' \in Draft /\ form'.rev = form.rev + 1 /\ form'.rev >= form.rev /\ form'.party = form.party
         /\ work' \in Work /\ work'.op = kind /\ work'.at = "sent" /\ work'.of = gen
         /\ \E x \in Sent : /\ wire' = wire \cup {x} /\ x.kind = kind /\ x.of = gen /\ x.at = "sent" /\ x.awaited = TRUE
                            /\ x.rev = form.rev + 1 /\ x.party = form.party
<1>1. work \in Work /\ gen \in Gens /\ gen \in 0..MaxGen
  BY HaveRow DEF ScreenInv, ScreenShapes, ClientShapes
<1>2. work.benefit \in BenefitOrNone /\ 0 \in BenefitOrNone
  BY <1>1 DEF Work, BenefitOrNone
<1>3. PICK b \in BenefitOrNone : SendDraft(kind, b)
  BY <1>2
<1>4. form \in Draft /\ form.rev \in Nat /\ form.party \in SizeOrNone
  BY ClientFields
<1>5. form' \in Draft /\ form'.rev = form.rev + 1 /\ form'.rev >= form.rev /\ form'.party = form.party
  BY <1>3, <1>4 DEF SendDraft, NextRevision, Draft
<1>6. work' \in Work /\ work'.op = kind /\ work'.at = "sent" /\ work'.of = gen
  <2>1. work' = [work EXCEPT !.at = "sent", !.of = gen]
    BY <1>3 DEF SendDraft
  <2> QED
    BY <1>1, <2>1 DEF Work
<1>7. PICK x : x = Message(kind, form.rev + 1, form.party, b)
  OBVIOUS
<1>8. /\ x \in Sent /\ x.kind = kind /\ x.of = gen /\ x.at = "sent" /\ x.awaited = TRUE
      /\ x.rev = form.rev + 1 /\ x.party = form.party
  <2>1. kind \in Kinds /\ form.rev + 1 \in Nat /\ 0 \in Nat
    BY <1>4 DEF Kinds, Drafting
  <2> QED
    BY <1>1, <1>4, <1>7, <2>1, Constants DEF Message, Sent, Stages
<1>9. wire' = wire \cup {x}
  BY <1>3, <1>7 DEF SendDraft, Send
<1> QED
  BY <1>5, <1>6, <1>8, <1>9

LEMMA AssignSendsKeeps ==
  ASSUME ScreenInv, AssignSends
  PROVE  ScreenInv'
<1>1. /\ work.op = "assign" /\ work.at = "barrier" /\ PartySaved /\ Have /\ SendDraft("assign", 0)
      /\ UNCHANGED <<gen, screen, session, queue, drain, tasks, ticket, shown, table, bills, lost>>
  BY DEF AssignSends, Barrier, Have
<1>2. gen \in Gens /\ table[gen].status # "NONE" /\ gen <= gen /\ screen \in {"assigning", "help"} /\ work # NoWork
  BY <1>1, HaveRow, Constants DEF ScreenInv, WorkOK
<1>3. /\ form' \in Draft /\ form'.rev = form.rev + 1 /\ form'.rev >= form.rev /\ form'.party = form.party
      /\ work' \in Work /\ work'.op = "assign" /\ work'.at = "sent" /\ work'.of = gen
  BY <1>1, SnapshotIs
<1>4. PICK x \in Sent : /\ wire' = wire \cup {x} /\ x.kind = "assign" /\ x.of = gen /\ x.at = "sent" /\ x.awaited = TRUE
                        /\ x.rev = form.rev + 1 /\ x.party = form.party
  BY <1>1, SnapshotIs
<1>5. EachOK(x)'
  BY <1>4 DEF EachOK, AnswerOK, QuoteOK, CheckoutOK
<1>6. form.rev \in Nat /\ x.rev <= form'.rev
  BY <1>3, <1>4, ClientFields
<1>7. /\ ScreenShapes' /\ ClientOK' /\ ShownOK' /\ TableOK' /\ WireOK' /\ ServedOK' /\ PaysWhatIsShown'
      /\ Kept' = Kept /\ Have' = Have /\ Mine' = Mine /\ PartySaved' = PartySaved /\ work' # NoWork'
  BY <1>1, <1>2, <1>3, <1>4, <1>5, <1>6, HandlerSends DEF Handlers
<1>8. WorkOK'
  BY <1>1, <1>2, <1>3, <1>7 DEF WorkOK, Busy, Have
<1>9. PayingOK'
  BY <1>3 DEF PayingOK
<1>10. ReviewOK'
  BY <1>1, <1>2, <1>3, <1>4, <1>7 DEF ScreenInv, ReviewOK, Quoted
<1>11. PaidOK'
  BY <1>1, <1>2, <1>7, NotYetPaid DEF PaidOK
<1> QED
  BY <1>7, <1>8, <1>9, <1>10, <1>11 DEF ScreenInv

LEMMA QuoteSendsKeeps ==
  ASSUME ScreenInv, QuoteSends
  PROVE  ScreenInv'
<1>1. /\ work.op = "quote" /\ work.at = "barrier" /\ PartySaved /\ Have /\ SendDraft("quote", work.benefit)
      /\ UNCHANGED <<gen, screen, session, queue, drain, tasks, ticket, shown, table, bills, lost>>
  BY DEF QuoteSends, Barrier, Have
<1>2. gen \in Gens /\ table[gen].status # "NONE" /\ gen <= gen /\ work # NoWork
  BY <1>1, HaveRow, Constants
<1>3. /\ form' \in Draft /\ form'.rev = form.rev + 1 /\ form'.rev >= form.rev /\ form'.party = form.party
      /\ work' \in Work /\ work'.op = "quote" /\ work'.at = "sent" /\ work'.of = gen
  BY <1>1, SnapshotIs
<1>4. PICK x \in Sent : /\ wire' = wire \cup {x} /\ x.kind = "quote" /\ x.of = gen /\ x.at = "sent" /\ x.awaited = TRUE
                        /\ x.rev = form.rev + 1 /\ x.party = form.party
  BY <1>1, SnapshotIs
<1>5. form.rev \in Nat /\ x.rev <= form'.rev /\ x.rev = form'.rev
  BY <1>3, <1>4, ClientFields
<1>6. EachOK(x)'
  <2>1. ASSUME NEW n \in wire', n # x, n.of = gen, n.kind \in Drafting, Unread(n)
        PROVE  n.rev < form'.rev
    <3>1. n \in wire
      BY <1>4, <2>1
    <3>2. n.rev \in Nat /\ n.rev <= form.rev
      BY <3>1, <2>1, Waiting, Fields DEF MessageOK
    <3> QED
      BY <3>2, <1>3, <1>5
  <2>2. queue'.rev < form'.rev /\ drain'.rev < form'.rev
    BY <1>1, <1>3, ClientFields
  <2>3. Newest(x)'
    BY <1>1, <1>5, <2>1, <2>2 DEF Newest, Before, Unread
  <2> QED
    BY <1>4, <2>3 DEF EachOK, AnswerOK, QuoteOK, CheckoutOK, Unread
<1>7. /\ ScreenShapes' /\ ClientOK' /\ ShownOK' /\ TableOK' /\ WireOK' /\ ServedOK' /\ PaysWhatIsShown'
      /\ Kept' = Kept /\ Have' = Have /\ Mine' = Mine /\ PartySaved' = PartySaved /\ work' # NoWork'
  BY <1>1, <1>2, <1>3, <1>4, <1>5, <1>6, HandlerSends DEF Handlers
<1>8. WorkOK'
  BY <1>1, <1>2, <1>3, <1>7 DEF WorkOK, Busy, Have
<1>9. PayingOK'
  BY <1>3 DEF PayingOK
<1>10. ReviewOK'
  BY <1>1, <1>2, <1>3, <1>4, <1>7 DEF ScreenInv, ReviewOK, Quoted
<1>11. PaidOK'
  BY <1>1, <1>2, <1>7, NotYetPaid DEF PaidOK
<1> QED
  BY <1>7, <1>8, <1>9, <1>10, <1>11 DEF ScreenInv

\* A request that drafts nothing disturbs nothing that is settled.
LEMMA SettledSent ==
  ASSUME NEW x, wire' = wire \cup {x}, x.kind \notin Drafting \cup {"party"}, UNCHANGED <<gen, table, queue, drain>>
  PROVE  \A g : Settled(g) => Settled(g)'
<1>1. \A n \in wire' : Traced(n, wire)
  BY DEF Traced
<1>2. ASSUME NEW g, Settled(g)
      PROVE  Settled(g)'
  <2>1. g = gen' => Before(table[g].rev)'
    BY <1>2 DEF Settled, Before
  <2> QED
    BY <1>1, <1>2, <2>1, SettledStays
<1> QED
  BY <1>2

LEMMA SettledMine ==
  ASSUME UNCHANGED <<gen, table, form>>, \A g : Settled(g) => Settled(g)', Entered
  PROVE  Entered'
<1>1. PICK g : g = gen
  OBVIOUS
<1>2. Settled(g)'
  BY <1>1 DEF Entered
<1>3. Settled(gen)'
  BY <1>1, <1>2 DEF Settled
<1> QED
  BY <1>3 DEF Entered, Mine

LEMMA CheckoutSendsKeeps ==
  ASSUME ScreenInv, CheckoutSends
  PROVE  ScreenInv'
<1>1. /\ work.op = "checkout" /\ work.at = "barrier" /\ PartySaved /\ work' = [work EXCEPT !.at = "sent"]
      /\ wire' = wire \cup {[Message("checkout", 0, work.party, 0) EXCEPT !.of = work.of, !.sum = work.sum, !.due = work.due]}
      /\ UNCHANGED <<gen, screen, session, form, queue, drain, tasks, ticket, shown, table, bills, lost>>
  BY DEF CheckoutSends, Barrier, Send
<1>2. /\ work # NoWork /\ work \in Work /\ work.of \in Gens /\ work.of <= gen /\ form \in Draft /\ form.rev >= form.rev
      /\ gen \in Gens
  <2>1. work # NoWork /\ work \in Work /\ work.of \in Gens /\ work.of <= gen /\ gen \in Nat /\ MaxGen \in Nat /\ gen <= MaxGen
    BY <1>1, Constants, ClientFields DEF ScreenInv, ScreenShapes, ClientShapes
  <2>2. gen \in Gens
    BY <2>1 DEF Gens
  <2> QED
    BY <2>1, <2>2, ClientFields
<1>3. /\ work' \in Work /\ work'.op = "checkout" /\ work'.at = "sent" /\ work'.of = work.of /\ work'.party = work.party
      /\ work'.sum = work.sum
  BY <1>1, <1>2 DEF Work
<1>4. PICK x : x = [Message("checkout", 0, work.party, 0) EXCEPT !.of = work.of, !.sum = work.sum, !.due = work.due]
  OBVIOUS
<1>5. /\ x \in Sent /\ x.kind = "checkout" /\ x.of = work.of /\ x.at = "sent" /\ x.awaited = TRUE
      /\ x.party = work.party /\ x.sum = work.sum
  <2>1. /\ "checkout" \in Kinds /\ 0 \in Nat /\ 0 \in BenefitOrNone /\ work.party \in SizeOrNone /\ work.sum \in Sum
        /\ work.due \in Nat
    BY <1>2 DEF Kinds, BenefitOrNone, Work
  <2> QED
    BY <1>2, <1>4, <2>1, Constants DEF Message, Sent, Stages
<1>6. wire' = wire \cup {x}
  BY <1>1, <1>4
<1>7. table[work.of].agreed /\ table[work.of].status # "NONE"
  BY <1>1, <1>2 DEF ScreenInv, PayingOK, TableOK
<1>8. \A g : Settled(g) => Settled(g)'
  BY <1>1, <1>5, <1>6, SettledSent DEF Drafting
<1>9. EachOK(x)'
  <2>1. x.of \notin lost => table[x.of].status = "CANCELLED" \/ Fits(x.of, x.party, x.sum)
    BY <1>1, <1>5 DEF ScreenInv, PayingOK
  <2>2. ASSUME Fits(x.of, x.party, x.sum)
        PROVE  Fits(x.of, x.party, x.sum)'
    BY <1>1, <1>8, <2>2 DEF Fits
  <2> QED
    BY <1>1, <1>5, <1>7, <2>1, <2>2 DEF EachOK, AnswerOK, QuoteOK, CheckoutOK
<1>10. /\ ScreenShapes' /\ ClientOK' /\ ShownOK' /\ TableOK' /\ WireOK' /\ ServedOK' /\ PaysWhatIsShown'
       /\ Kept' = Kept /\ Have' = Have /\ Mine' = Mine /\ PartySaved' = PartySaved /\ Cancelled' = Cancelled /\ work' # NoWork'
  <2>1. UNCHANGED <<gen, screen, session, form, queue, drain, tasks, ticket, shown, table, bills, lost>> /\ PartySaved
        /\ work.at = "barrier" /\ work.op = "checkout"
    BY <1>1
  <2>2. form' \in Draft /\ form'.rev >= form.rev /\ form'.party = form.party
    BY <2>1, <1>2
  <2>3. x.of = gen => Have /\ x.party = form.party
    BY <1>5, <2>1 DEF ScreenInv, WorkOK
  <2> QED
    BY <2>1, <2>2, <2>3, <1>2, <1>3, <1>5, <1>6, <1>7, <1>9, HandlerSends DEF Handlers, Drafting
<1>11. WorkOK'
  <2>1. work.of <= gen /\ (Busy => session # "asked" /\ (Have => work.of = gen)) /\ (work.of = gen => Have /\ work.party = form.party)
    BY <1>1 DEF ScreenInv, WorkOK
  <2> QED
    BY <1>1, <1>2, <1>3, <1>10, <2>1 DEF WorkOK, Busy
<1>12. PayingOK'
  BY <1>1, <1>3, <1>7, <1>10 DEF ScreenInv, PayingOK
<1>13. Entered => Entered'
  BY <1>1, <1>8, SettledMine
<1>14. ReviewOK'
  BY <1>1, <1>3, <1>6, <1>10, <1>13 DEF ScreenInv, ReviewOK, Quoted
<1>15. PaidOK'
  BY <1>1, <1>2, <1>10 DEF ScreenInv, PaidOK
<1> QED
  BY <1>10, <1>11, <1>12, <1>14, <1>15 DEF ScreenInv

-----------------------------------------------------------------------------
(* What the kiosk is answered.                                             *)

LEMMA OtherKinds ==
  ASSUME ScreenInv, NEW m \in wire, m.awaited, NEW n \in wire, n # m, n.awaited
  PROVE  n.kind # m.kind /\ (m.kind \in Handlers => n.kind \notin Handlers) /\ AwaitedOK(n)
BY Waiting DEF ScreenInv, WireOK, OneAwaited, MessageOK

LEMMA Received ==
  ASSUME ScreenInv, NEW m \in wire, wire' = wire \ {m}, UNCHANGED <<gen, session, table, bills, lost>>,
         form' \in Draft, form'.rev >= form.rev,
         \A n \in wire \ {m} : n.awaited => AwaitedOK(n)', \A n \in wire \ {m} : EachOK(n)'
  PROVE  /\ SharedShapes' /\ TableOK' /\ WireOK' /\ ServedOK' /\ PaysWhatIsShown' /\ ScreenConstants'
         /\ Kept' = Kept /\ Have' = Have /\ Mine' = Mine /\ Cancelled' = Cancelled
<1>1. WireOK'
  BY WireStays
<1>2. ServedOK'
  BY DEF ServedOK
<1>3. SharedShapes' /\ ScreenConstants'
  BY DEF ScreenInv, ScreenShapes, SharedShapes, ScreenConstants
<1> QED
  BY <1>1, <1>2, <1>3, ClientTable, ClientBills DEF Kept, Have, Mine, Cancelled

\* The answer of a handler.
LEMMA HandlerReceives ==
  ASSUME ScreenInv, NEW m \in wire, m.awaited, m.kind \in Handlers, wire' = wire \ {m},
         UNCHANGED <<gen, session, form, queue, drain, tasks, ticket, table, bills, lost>>
  PROVE  /\ SharedShapes' /\ TableOK' /\ WireOK' /\ ServedOK' /\ PaysWhatIsShown' /\ ScreenConstants'
         /\ Kept' = Kept /\ Have' = Have /\ Mine' = Mine /\ Cancelled' = Cancelled /\ PartySaved' = PartySaved
         /\ (Entered => Entered') /\ \A n \in wire : Quoted(n) /\ n # m => n \in wire' /\ Quoted(n)'
<1>1. form' \in Draft /\ form'.rev >= form.rev
  BY ClientFields
<1>2. ASSUME NEW n \in wire \ {m}, n.awaited
      PROVE  AwaitedOK(n)'
  <2>1. AwaitedOK(n) /\ n.kind \notin Handlers
    BY <1>2, OtherKinds
  <2> QED
    BY <2>1 DEF AwaitedOK, Have, Empty, Handlers, NoDraft
<1>3. ASSUME NEW n \in wire \ {m}
      PROVE  EachOK(n)'
  BY <1>3, EachStays DEF Traced
<1>4. ASSUME NEW g, Settled(g)
      PROVE  Settled(g)'
  BY <1>4 DEF Settled, Before, Unread
<1>5. Entered => Entered'
  BY <1>4, SettledMine
<1> QED
  BY <1>1, <1>2, <1>3, <1>5, Received DEF PartySaved, Quoted

LEMMA AssignAnsweredKeeps ==
  ASSUME ScreenInv, AssignAnswered
  PROVE  ScreenInv'
<1>1. PICK m \in wire :
        /\ m.kind = "assign" /\ m.at = "answer" /\ m.awaited /\ wire' = wire \ {m} /\ work' = NoWork
        /\ IF m.ok THEN /\ screen' = "form"
                        /\ shown' = [shown EXCEPT !.status = m.seen.status, !.party = m.seen.party, !.final = m.seen.final]
           ELSE UNCHANGED <<screen, shown>>
        /\ UNCHANGED <<gen, session, form, queue, drain, tasks, ticket, table, bills, lost>>
  BY DEF AssignAnswered, Answers
<1>2. /\ work.op = "assign" /\ work.at = "sent" /\ work # NoWork /\ PartySaved /\ screen \in {"assigning", "help"} /\ Have
      /\ m.of = gen /\ m.party = form.party /\ AnswerOK(m)
  BY <1>1, Waiting DEF Handlers, ScreenInv, WorkOK, MessageOK, AwaitedOK, EachOK
<1>3. /\ SharedShapes' /\ TableOK' /\ WireOK' /\ ServedOK' /\ PaysWhatIsShown' /\ ScreenConstants'
      /\ Kept' = Kept /\ Have' = Have /\ Mine' = Mine /\ PartySaved' = PartySaved
      /\ \A n \in wire : Quoted(n) /\ n # m => n \in wire' /\ Quoted(n)'
  BY <1>1, HandlerReceives DEF Handlers
<1>4. work' = NoWork' /\ work'.op = "none" /\ work'.of = 0 /\ work' \in Work /\ gen \in Nat
  BY <1>1, NoWorkTyped, ClientFields, Constants
<1>5. m.seen.status \in ScreenStatuses /\ m.seen.party \in SizeOrNone /\ m.seen.final \in Sum
  BY Waiting, Fields, RowFields
<1>6. /\ shown' \in Shown /\ shown'.of = shown.of /\ shown'.items = shown.items
      /\ m.ok => shown'.final = m.seen.final
      /\ ~m.ok => shown' = shown
  BY <1>1, <1>5 DEF ScreenInv, ScreenShapes, ClientShapes, Shown
<1>7. screen' \in {"form", "assigning", "help"} /\ (~m.ok => screen' # "form")
  BY <1>1, <1>2
<1>8. ScreenShapes'
  BY <1>1, <1>3, <1>4, <1>6, <1>7 DEF ScreenInv, ScreenShapes, ClientShapes
<1>9. ClientOK'
  BY <1>1, <1>2, <1>3, <1>4, <1>7 DEF ScreenInv, ClientOK, TasksOK, Busy, Empty, NoDraft, Have
<1>10. WorkOK' /\ ShownOK'
  BY <1>1, <1>2, <1>3, <1>4, <1>6, <1>7 DEF ScreenInv, WorkOK, ShownOK, Busy, Have
<1>11. PayingOK'
  BY <1>4 DEF PayingOK
<1>12. ReviewOK'
  <2>1. Kept /\ m.ok => shown'.final = [party |-> form.party, benefit |-> Mine.benefit]
    BY <1>1, <1>2, <1>6 DEF AnswerOK
  <2>2. CASE m.ok
    BY <1>1, <1>3, <1>4, <1>7, <2>1, <2>2 DEF ReviewOK
  <2>3. CASE ~m.ok
    <3>1. ~Quoted(m)
      BY <1>1 DEF Quoted
    <3> QED
      BY <1>1, <1>3, <1>4, <1>6, <1>7, <2>3, <3>1 DEF ScreenInv, ReviewOK
  <2> QED
    BY <2>2, <2>3
<1>13. PaidOK'
  BY <1>2, <1>3, NotYetPaid DEF PaidOK
<1> QED
  BY <1>3, <1>8, <1>9, <1>10, <1>11, <1>12, <1>13 DEF ScreenInv

LEMMA GuidanceAnsweredKeeps ==
  ASSUME ScreenInv, GuidanceAnswered
  PROVE  ScreenInv'
<1>1. PICK m \in wire :
        /\ m.kind = "guide" /\ m.at = "answer" /\ m.awaited /\ wire' = wire \ {m}
        /\ IF m.ok THEN work' = [Start("quote") EXCEPT !.benefit = work.benefit] /\ screen' = "review"
           ELSE work' = NoWork /\ UNCHANGED screen
        /\ UNCHANGED <<gen, session, form, queue, drain, tasks, ticket, shown, table, bills, lost>>
  BY DEF GuidanceAnswered, Answers
<1>2. /\ work.op = "guide" /\ work.at = "sent" /\ work # NoWork /\ work.of = m.of /\ Busy /\ PartySaved /\ screen # "review"
      /\ session # "asked" /\ m.of \in Gens /\ m.of <= gen
  BY <1>1, Waiting DEF Handlers, ScreenInv, WorkOK, ClientOK, TasksOK, Busy
<1>3. /\ SharedShapes' /\ TableOK' /\ WireOK' /\ ServedOK' /\ PaysWhatIsShown' /\ ScreenConstants'
      /\ Kept' = Kept /\ Have' = Have /\ Mine' = Mine /\ PartySaved' = PartySaved
      /\ \A n \in wire : Quoted(n) /\ n # m => n \in wire' /\ Quoted(n)'
  <2>1. UNCHANGED <<gen, session, form, queue, drain, tasks, ticket, table, bills, lost>> /\ wire' = wire \ {m} /\ m.awaited
    BY <1>1
  <2> QED
    BY <1>1, <2>1, HandlerReceives DEF Handlers
<1>4. ~Quoted(m)
  BY <1>1 DEF Quoted
<1>5. gen \in Gens
  BY <1>2, ClientFields DEF Gens
<1>6. /\ work' \in Work /\ (work'.op = "none" <=> work' = NoWork') /\ work'.op \in {"none", "quote"} /\ gen \in Nat
      /\ work'.op = "none" => work'.of = 0
      /\ work'.op = "quote" => work'.of = gen /\ work'.at = "barrier"
  <2>1. CASE ~m.ok
    BY <1>1, <2>1, NoWorkTyped, ClientFields, Constants
  <2>2. CASE m.ok
    <3>1. PICK w : w = Start("quote")
      OBVIOUS
    <3>2. w \in Work /\ w.op = "quote" /\ w.of = gen /\ w.at = "barrier"
      BY <1>5, <3>1, StartIs DEF Handlers
    <3>3. work.benefit \in BenefitOrNone
      BY DEF ScreenInv, ScreenShapes, ClientShapes, Work
    <3>4. work' = [w EXCEPT !.benefit = work.benefit]
      BY <1>1, <2>2, <3>1
    <3> QED
      BY <3>2, <3>3, <3>4, NoWorkTyped, ClientFields, Constants DEF Work
  <2> QED
    BY <2>1, <2>2
<1>7. screen' \in {screen, "review"} /\ (screen' = "review" => work'.op = "quote")
  <2>1. m.ok => work'.op = "quote"
    <3>1. ASSUME m.ok
          PROVE  work'.op = "quote"
      BY <1>1, <3>1 DEF Start, NoWork
    <3> QED
      BY <3>1
  <2> QED
    BY <1>1, <1>2, <2>1
<1>8. ScreenShapes'
  BY <1>1, <1>3, <1>6, <1>7 DEF ScreenInv, ScreenShapes, ClientShapes
<1>9. ClientOK'
  BY <1>1, <1>2, <1>3, <1>6, <1>7 DEF ScreenInv, ClientOK, TasksOK, Busy, Empty, NoDraft, Have
<1>10. WorkOK' /\ ShownOK'
  BY <1>1, <1>2, <1>3, <1>5, <1>6, <1>7 DEF ScreenInv, WorkOK, ShownOK, Busy, Have
<1>11. PayingOK'
  BY <1>6 DEF PayingOK
<1>12. ReviewOK'
  BY <1>1, <1>3, <1>4, <1>6, <1>7 DEF ScreenInv, ReviewOK
<1>13. PaidOK'
  BY <1>2, <1>3, NotYetPaid DEF PaidOK
<1> QED
  BY <1>3, <1>8, <1>9, <1>10, <1>11, <1>12, <1>13 DEF ScreenInv

LEMMA QuoteAnsweredKeeps ==
  ASSUME ScreenInv, QuoteAnswered
  PROVE  ScreenInv'
<1>1. PICK m \in wire :
        /\ m.kind = "quote" /\ m.at = "answer" /\ m.awaited /\ wire' = wire \ {m} /\ work' = NoWork
        /\ shown' = IF ~m.ok \/ m.of # gen THEN shown
                    ELSE [of |-> gen, status |-> m.seen.status, party |-> m.seen.party,
                          final |-> m.seen.final, items |-> Amount(m.seen.final)]
        /\ UNCHANGED <<gen, screen, session, form, queue, drain, tasks, ticket, table, bills, lost>>
  BY DEF QuoteAnswered, Answers
<1>2. /\ work.op = "quote" /\ work.at = "sent" /\ work # NoWork /\ work.of = m.of /\ Busy /\ PartySaved
      /\ session # "asked" /\ m.of \in Gens /\ m.of <= gen /\ QuoteOK(m) /\ (m.of = gen => Have) /\ (Have => m.of = gen)
  BY <1>1, Waiting DEF Handlers, ScreenInv, WorkOK, Busy, EachOK, MessageOK
<1>3. /\ SharedShapes' /\ TableOK' /\ WireOK' /\ ServedOK' /\ PaysWhatIsShown' /\ ScreenConstants'
      /\ Kept' = Kept /\ Have' = Have /\ Mine' = Mine /\ Cancelled' = Cancelled /\ PartySaved' = PartySaved
      /\ (Entered => Entered') /\ \A n \in wire : Quoted(n) /\ n # m => n \in wire' /\ Quoted(n)'
  BY <1>1, HandlerReceives DEF Handlers
<1>4. work' = NoWork' /\ work'.op = "none" /\ work'.of = 0 /\ work' \in Work /\ gen \in Nat
  BY <1>1, NoWorkTyped, ClientFields, Constants
<1>5. /\ m.seen.status \in ScreenStatuses /\ m.seen.party \in SizeOrNone /\ m.seen.final \in Sum
      /\ Amount(m.seen.final) \in Nat
  <2>1. m.seen.status \in ScreenStatuses /\ m.seen.party \in SizeOrNone /\ m.seen.final \in Sum
    BY Waiting, Fields, RowFields
  <2>2. ASSUME NEW sum \in Sum
        PROVE  Amount(sum) \in Nat
    <3>1. sum.party \in Sizes \cup {0} /\ sum.benefit \in BenefitOrNone
      BY <2>2 DEF Sum, BenefitOrNone
    <3>2. Price \in [Sizes \X BenefitOrNone -> Nat]
      BY DEF BenefitOrNone, ScreenInv, ScreenShapes, ScreenConstants
    <3>3. ASSUME sum.party # 0
          PROVE  <<sum.party, sum.benefit>> \in Sizes \X BenefitOrNone
      BY <3>1, <3>3
    <3>4. ASSUME sum.party # 0
          PROVE  Price[<<sum.party, sum.benefit>>] \in Nat
      BY <3>2, <3>3, <3>4
    <3> QED
      BY <3>4 DEF Amount
  <2> QED
    BY <2>1, <2>2
<1>6. CASE ~m.ok \/ m.of # gen
  <2>1. UNCHANGED shown
    BY <1>1, <1>6
  <2>2. ScreenShapes' /\ ClientOK' /\ WorkOK' /\ ShownOK' /\ PayingOK'
    BY <1>1, <1>2, <1>3, <1>4, <2>1
       DEF ScreenInv, ScreenShapes, ClientShapes, ClientOK, TasksOK, Busy, Empty, NoDraft, WorkOK, ShownOK, Have, PayingOK
  <2>3. ReviewOK'
    <3>1. Kept => ~Quoted(m) /\ m.of = gen /\ gen \notin lost
      BY <1>2, <1>6 DEF Quoted, Kept
    <3>2. Kept => Entered \/ Cancelled
      BY <1>1, <1>2, <3>1 DEF QuoteOK
    <3> QED
      BY <1>1, <1>3, <1>4, <2>1, <3>1, <3>2 DEF ScreenInv, ReviewOK
  <2>4. PaidOK'
    BY <1>2, <1>3, NotYetPaid DEF PaidOK
  <2> QED
    BY <1>3, <2>2, <2>3, <2>4 DEF ScreenInv
<1>7. CASE m.ok /\ m.of = gen
  <2>1. shown' = [of |-> gen, status |-> m.seen.status, party |-> m.seen.party,
                  final |-> m.seen.final, items |-> Amount(m.seen.final)]
    BY <1>1, <1>7
  <2>2. gen \in 0..MaxGen /\ Have
    BY <1>2, <1>7 DEF ScreenInv, ScreenShapes, ClientShapes
  <2>3. shown' \in Shown /\ shown'.of = gen /\ shown'.final = m.seen.final
    BY <1>5, <2>1, <2>2 DEF Shown
  <2>4. ScreenShapes' /\ ClientOK' /\ WorkOK' /\ PayingOK'
    BY <1>1, <1>2, <1>3, <1>4, <2>3
       DEF ScreenInv, ScreenShapes, ClientShapes, ClientOK, TasksOK, Busy, Empty, NoDraft, WorkOK, Have, PayingOK
  <2>5. ShownOK'
    <3>1. Mine.agreed
      BY <1>1, <1>2, <1>7 DEF QuoteOK, Mine
    <3> QED
      BY <1>1, <1>2, <1>3, <2>2, <2>3, <3>1 DEF ShownOK, Have
  <2>6. ReviewOK'
    <3>1. ASSUME Kept
          PROVE  (Entered \/ Cancelled) /\ m.seen.final = [party |-> form.party, benefit |-> Mine.benefit]
      BY <1>1, <1>2, <1>7, <3>1 DEF QuoteOK, Kept
    <3> QED
      BY <1>1, <1>3, <1>4, <2>3, <3>1 DEF ReviewOK
  <2>7. PaidOK'
    BY <1>2, <1>3, NotYetPaid DEF PaidOK
  <2> QED
    BY <1>3, <2>4, <2>5, <2>6, <2>7 DEF ScreenInv
<1> QED
  BY <1>6, <1>7

LEMMA CheckoutAnsweredKeeps ==
  ASSUME ScreenInv, CheckoutAnswered
  PROVE  ScreenInv'
<1>1. PICK m \in wire :
        /\ m.kind = "checkout" /\ m.at = "answer" /\ m.awaited /\ wire' = wire \ {m} /\ work' = NoWork
        /\ IF m.ok THEN /\ screen' = "payment"
                        /\ shown' = [shown EXCEPT !.of = m.of, !.status = m.seen.status]
           ELSE screen' = "review" /\ UNCHANGED shown
        /\ UNCHANGED <<gen, session, form, queue, drain, tasks, ticket, table, bills, lost>>
  BY DEF CheckoutAnswered, Answers
<1>2. /\ work.op = "checkout" /\ work.at = "sent" /\ work # NoWork /\ work.of = m.of /\ Busy /\ PartySaved
      /\ session # "asked" /\ m.of \in Gens /\ m.of <= gen /\ CheckoutOK(m) /\ (Have => m.of = gen)
  BY <1>1, Waiting DEF Handlers, ScreenInv, WorkOK, Busy, EachOK
<1>3. /\ SharedShapes' /\ TableOK' /\ WireOK' /\ ServedOK' /\ PaysWhatIsShown' /\ ScreenConstants'
      /\ Kept' = Kept /\ Have' = Have /\ Mine' = Mine /\ Cancelled' = Cancelled /\ PartySaved' = PartySaved
      /\ (Entered => Entered') /\ \A n \in wire : Quoted(n) /\ n # m => n \in wire' /\ Quoted(n)'
  BY <1>1, HandlerReceives DEF Handlers
<1>4. work' = NoWork' /\ work'.op = "none" /\ work'.of = 0 /\ work' \in Work /\ gen \in Nat
  BY <1>1, NoWorkTyped, ClientFields, Constants
<1>5. m.seen.status \in ScreenStatuses /\ m.of \in 0..MaxGen
  <2>1. m.seen.status \in ScreenStatuses
    BY Waiting, Fields, RowFields
  <2>2. m.of \in 0..MaxGen
    BY <1>2, ClientFields DEF Gens
  <2> QED
    BY <2>1, <2>2
<1>6. /\ shown' \in Shown /\ shown'.items = shown.items /\ shown'.final = shown.final
      /\ m.ok => shown'.of = m.of /\ shown'.status = "PAYMENT_PENDING"
      /\ ~m.ok => shown' = shown
  <2>1. shown \in Shown
    BY DEF ScreenInv, ScreenShapes, ClientShapes
  <2>2. CASE m.ok
    <3>1. shown' = [shown EXCEPT !.of = m.of, !.status = m.seen.status]
      BY <1>1, <2>2
    <3>2. m.seen.status = "PAYMENT_PENDING"
      BY <1>1, <1>2, <2>2 DEF CheckoutOK
    <3> QED
      BY <1>5, <2>1, <2>2, <3>1, <3>2 DEF Shown
  <2>3. CASE ~m.ok
    BY <1>1, <2>1, <2>3
  <2> QED
    BY <2>2, <2>3
<1>7. (m.ok => screen' = "payment") /\ (~m.ok => screen' = "review")
  BY <1>1
<1>8. ScreenShapes' /\ PayingOK'
  BY <1>1, <1>3, <1>4, <1>6, <1>7 DEF ScreenInv, ScreenShapes, ClientShapes, PayingOK
<1>9. ClientOK'
  BY <1>1, <1>2, <1>3, <1>4, <1>7 DEF ScreenInv, ClientOK, TasksOK, Busy, Empty, NoDraft, Have
<1>10. WorkOK' /\ ShownOK'
  BY <1>1, <1>2, <1>3, <1>4, <1>6, <1>7 DEF ScreenInv, WorkOK, ShownOK, Busy, Have
<1>11. ReviewOK'
  <2>1. ~Quoted(m)
    BY <1>1 DEF Quoted
  <2>2. Kept => Entered \/ Cancelled
    BY <1>2 DEF ScreenInv, ReviewOK
  <2> QED
    BY <1>1, <1>3, <1>4, <1>6, <2>1, <2>2 DEF ScreenInv, ReviewOK
<1>12. PaidOK'
  <2>1. SUFFICES ASSUME Kept, Mine.status = "PAYMENT_PENDING"
                 PROVE  m.ok
    BY <1>3, <1>4, <1>6, <1>7 DEF PaidOK
  <2>2. PICK n \in wire : BillPaid(n)
    BY <1>2, <2>1 DEF ScreenInv, PaidOK
  <2>3. n = m
    BY <1>1, <2>2, Waiting, OtherKinds DEF BillPaid
  <2> QED
    BY <2>2, <2>3 DEF BillPaid
<1> QED
  BY <1>3, <1>8, <1>9, <1>10, <1>11, <1>12 DEF ScreenInv

LEMMA TailOfTasks ==
  ASSUME NEW T, NEW s \in Seq(T), s # <<>>
  PROVE  LET t == SubSeq(s, 2, Len(s))
         IN  /\ t \in Seq(T)
             /\ Len(s) > 1 => t # <<>> /\ t[Len(t)] = s[Len(s)]
             /\ ~(Len(s) > 1) => t = <<>> /\ s[Len(s)] = s[1]
<1>1. PICK n \in Nat : n = Len(s) /\ n >= 1
  BY EmptySeq
<1>2. \A i \in 2..n : s[i] \in T
  <2>1. ASSUME NEW i \in 2..n
        PROVE  i \in 1..Len(s)
    BY <1>1
  <2> QED
    BY <2>1, ElementOfSeq
<1>3. PICK t : t = SubSeq(s, 2, n)
  OBVIOUS
<1>4. CASE n = 1
  <2>1. t = <<>>
    BY <1>3, <1>4, SubSeqEmpty
  <2> QED
    BY <1>1, <1>3, <1>4, <2>1, EmptySeq
<1>5. CASE n # 1
  <2>1. 2 <= n /\ 2 \in Int /\ n \in Int
    BY <1>1, <1>5
  <2>2. /\ t \in Seq(T) /\ Len(t) = n - 2 + 1
        /\ \A i \in 1..n-2+1 : t[i] = s[2+i-1]
    BY <1>2, <1>3, <2>1, SubSeqProperties
  <2>3. PICK k \in Nat : k = n - 1 /\ k >= 1
    BY <1>1, <2>1
  <2>4. Len(t) = k /\ k \in 1..n-2+1 /\ 2+k-1 = n
    BY <1>1, <2>2, <2>3
  <2>5. t[k] = s[n]
    BY <2>2, <2>4
  <2>6. t # <<>>
    <3>1. SUFFICES ASSUME t = <<>>
                   PROVE  FALSE
      OBVIOUS
    <3>2. Len(t) = 0
      BY <3>1, EmptySeq
    <3> QED
      BY <3>2, <2>3, <2>4
  <2> QED
    BY <1>1, <1>3, <2>1, <2>2, <2>4, <2>5, <2>6
<1> QED
  BY <1>4, <1>5

LEMMA PartyAnsweredKeeps ==
  ASSUME ScreenInv, PartyAnswered
  PROVE  ScreenInv'
<1>1. PICK m \in wire :
        /\ m.kind = "party" /\ m.at = "answer" /\ m.awaited
        /\ wire' = wire \ {m} /\ tasks' = SubSeq(tasks, 2, Len(tasks))
        /\ IF Len(tasks) > 1 THEN UNCHANGED <<ticket, shown, form>>
           ELSE /\ ticket' = [ticket EXCEPT !.status = IF m.ok THEN "done" ELSE "failed"]
                /\ IF ~m.ok THEN UNCHANGED <<shown, form>>
                   ELSE /\ shown' = [shown EXCEPT !.party = m.party,
                                                  !.final = [party |-> m.party, benefit |-> m.seen.benefit]]
                        /\ form' = [form EXCEPT !.rev = IF m.seen.rev > @ THEN m.seen.rev ELSE @]
        /\ UNCHANGED <<gen, screen, session, queue, drain, work, table, bills, lost>>
  BY DEF PartyAnswered, Answers
<1>2. /\ Have /\ m.of = gen /\ tasks # <<>> /\ m.party = tasks[1].party /\ AnswerOK(m)
      /\ m.party \in SizeOrNone /\ m.seen.benefit \in BenefitOrNone /\ m.seen.rev \in Nat
  BY <1>1, Waiting, Fields, RowFields DEF MessageOK, AwaitedOK, EachOK
<1>3. /\ tasks \in Seq([party : Sizes, sent : BOOLEAN]) /\ shown \in Shown /\ form \in Draft /\ form.rev \in Nat
      /\ ticket \in [party : SizeOrNone, status : {"none", "pending", "done", "failed"}]
  BY ClientFields DEF ScreenInv, ScreenShapes, ClientShapes
<1>4. /\ ticket.status = "pending" /\ ~PartySaved /\ ~Busy /\ screen \notin {"form", "review", "payment"}
      /\ tasks[Len(tasks)].party = ticket.party /\ ticket.party = form.party
  BY <1>2 DEF ScreenInv, ClientOK, TasksOK, PartySaved
<1>5. /\ tasks' \in Seq([party : Sizes, sent : BOOLEAN])
      /\ Len(tasks) > 1 => tasks' # <<>> /\ tasks'[Len(tasks')] = tasks[Len(tasks)]
      /\ ~(Len(tasks) > 1) => tasks' = <<>> /\ tasks[Len(tasks)] = tasks[1]
  BY <1>1, <1>2, <1>3, TailOfTasks
<1>6. form' \in Draft /\ form'.rev >= form.rev /\ form'.party = form.party /\ form'.rev \in Nat
  <2>1. CASE UNCHANGED form
    BY <1>3, <2>1
  <2>2. CASE form' = [form EXCEPT !.rev = IF m.seen.rev > @ THEN m.seen.rev ELSE @]
    <3>1. PICK k \in Nat : k = (IF m.seen.rev > form.rev THEN m.seen.rev ELSE form.rev) /\ k >= form.rev
      BY <1>2, <1>3
    <3>2. form' = [form EXCEPT !.rev = k]
      BY <2>2, <3>1
    <3> QED
      BY <1>3, <3>1, <3>2 DEF Draft
  <2> QED
    BY <1>1, <2>1, <2>2
<1>7. /\ SharedShapes' /\ TableOK' /\ WireOK' /\ ServedOK' /\ PaysWhatIsShown' /\ ScreenConstants'
      /\ Kept' = Kept /\ Have' = Have /\ Mine' = Mine
  <2>1. ASSUME NEW n \in wire \ {m}, n.awaited
        PROVE  AwaitedOK(n)'
    <3>1. AwaitedOK(n) /\ n.kind # "party"
      BY <1>1, <2>1, OtherKinds
    <3> QED
      BY <1>1, <1>6, <3>1 DEF AwaitedOK, Have, Empty, NoDraft
  <2>2. ASSUME NEW n \in wire \ {m}
        PROVE  EachOK(n)'
    BY <1>1, <1>4, <2>2, EachIdle DEF Busy
  <2> QED
    BY <1>1, <1>6, <2>1, <2>2, Received
<1>8. /\ shown' \in Shown /\ shown'.of = shown.of /\ shown'.items = shown.items /\ shown'.status = shown.status
      /\ (~(Len(tasks) > 1) /\ m.ok) => shown'.final = [party |-> m.party, benefit |-> m.seen.benefit]
      /\ (Len(tasks) > 1 \/ ~m.ok) => shown' = shown
  <2>1. CASE Len(tasks) > 1 \/ ~m.ok
    BY <1>1, <1>3, <2>1
  <2>2. CASE ~(Len(tasks) > 1) /\ m.ok
    <3>1. PICK sum \in Sum : sum = [party |-> m.party, benefit |-> m.seen.benefit]
      BY <1>2, SumTyped
    <3>2. shown' = [shown EXCEPT !.party = m.party, !.final = sum]
      BY <1>1, <2>2, <3>1
    <3> QED
      BY <1>2, <1>3, <2>2, <3>1, <3>2 DEF Shown
  <2> QED
    BY <2>1, <2>2
<1>9. /\ ticket' \in [party : SizeOrNone, status : {"none", "pending", "done", "failed"}] /\ ticket'.party = ticket.party
      /\ Len(tasks) > 1 => ticket'.status = "pending"
      /\ ~(Len(tasks) > 1) => ticket'.status = IF m.ok THEN "done" ELSE "failed"
  BY <1>1, <1>3, <1>4
<1>10. NoWork' = NoWork /\ work.op # "checkout" /\ work.op \notin {"guide", "quote", "checkout"}
  BY <1>4, NoWorkTyped, ClientFields DEF Busy
<1>11. ScreenShapes'
  BY <1>1, <1>5, <1>6, <1>7, <1>8, <1>9, <1>10 DEF ScreenInv, ScreenShapes, ClientShapes
<1>12. ClientOK'
  <2>1. TasksOK'
    BY <1>1, <1>4, <1>5, <1>6, <1>9 DEF TasksOK, Busy
  <2> QED
    BY <1>1, <1>2, <1>6, <1>7, <2>1, ClientFields DEF ScreenInv, ClientOK, Empty, NoDraft, Have
<1>13. WorkOK' /\ ShownOK'
  <2>1. work.op = "assign" => work.at # "sent"
    BY <1>4 DEF ScreenInv, WorkOK
  <2> QED
    BY <1>1, <1>7, <1>8, <1>10, <2>1 DEF ScreenInv, WorkOK, ShownOK, Busy, Have
<1>14. PayingOK'
  BY <1>1, <1>10 DEF PayingOK
<1>15. ReviewOK'
  <2>1. \A n \in wire : Quoted(n) => n \in wire' /\ Quoted(n)'
    BY <1>1 DEF Quoted
  <2>2. CASE Len(tasks) > 1 \/ ~m.ok
    BY <1>1, <1>4, <1>7, <1>8, <1>9, <1>10, <2>1, <2>2 DEF ScreenInv, ReviewOK, PartySaved
  <2>3. CASE ~(Len(tasks) > 1) /\ m.ok
    <3>1. shown'.final.party = form.party /\ shown'.final.benefit = m.seen.benefit
      BY <1>2, <1>4, <1>5, <1>8, <2>3
    <3>2. Kept => m.seen.benefit = Mine.benefit
      BY <1>1, <1>2, <2>3 DEF AnswerOK
    <3> QED
      BY <1>1, <1>4, <1>6, <1>7, <1>10, <3>1, <3>2 DEF ReviewOK
  <2> QED
    BY <2>2, <2>3
<1>16. PaidOK'
  BY <1>1, <1>7, <1>8, <1>10 DEF ScreenInv, PaidOK
<1> QED
  BY <1>7, <1>11, <1>12, <1>13, <1>14, <1>15, <1>16 DEF ScreenInv

LEMMA NoDraftIs ==
  NoDraft \in Draft /\ NoDraft.rev = 0 /\ NoDraft.party = 0
BY DEF NoDraft, Draft

\* What goes on behind the screen.
LEMMA BehindKeeps ==
  ASSUME ScreenInv, UNCHANGED <<gen, screen, session, form, tasks, ticket, work, shown, table, bills>>, lost \subseteq lost',
         queue' \in Draft, drain' \in Draft, queue'.rev <= form.rev, drain'.rev <= form.rev, Have \/ UNCHANGED <<queue, drain>>,
         SharedShapes', WireOK', ServedOK', \A g \in Gens : Settled(g) => Settled(g)',
         gen \notin lost' => \A n \in wire : Quoted(n) \/ BillPaid(n) => n \in wire'
  PROVE  ScreenInv'
<1>1. /\ Have' = Have /\ Mine' = Mine /\ Cancelled' = Cancelled /\ PartySaved' = PartySaved /\ NoWork' = NoWork
      /\ Busy' = Busy /\ (Kept' => Kept /\ gen \notin lost')
  BY ClientFields, NoWorkTyped DEF Kept, Have, Mine, Cancelled, PartySaved, Busy
<1>2. ScreenShapes'
  BY <1>1 DEF ScreenInv, ScreenShapes, ScreenConstants, ClientShapes
<1>3. ClientOK' /\ WorkOK' /\ ShownOK'
  BY <1>1 DEF ScreenInv, ClientOK, TasksOK, WorkOK, ShownOK, Have, Empty, NoDraft
<1>4. form' \in Draft /\ form'.rev >= form.rev
  BY ClientFields
<1>5. Entered /\ Have => Entered'
  <2>1. ASSUME Entered, Have
        PROVE  Settled(gen)'
    <3>1. PICK g \in Gens : g = gen
      BY <2>1, HaveRow
    <3>2. Settled(g)'
      BY <2>1, <3>1 DEF Entered
    <3> QED
      BY <3>1, <3>2 DEF Settled
  <2> QED
    BY <2>1 DEF Entered, Mine
<1>6. PayingOK'
  <2>1. SUFFICES ASSUME work.op = "checkout"
                 PROVE  PayingOK'
    BY DEF PayingOK
  <2>2. PICK g \in Gens : g = work.of
    BY <2>1, ClientFields, Constants
  <2>3. ASSUME Fits(work.of, work.party, work.sum)
        PROVE  Fits(work.of, work.party, work.sum)'
    <3>1. Settled(g)'
      BY <2>2, <2>3 DEF Fits
    <3>2. Settled(work.of)'
      BY <2>2, <3>1 DEF Settled
    <3> QED
      BY <2>3, <3>2 DEF Fits
  <2> QED
    BY <1>1, <2>3 DEF ScreenInv, PayingOK
<1>7. \A n \in wire : (Quoted(n)' <=> Quoted(n)) /\ (BillPaid(n)' <=> BillPaid(n))
  BY DEF Quoted, BillPaid
<1>8. ReviewOK' /\ PaidOK'
  BY <1>1, <1>5, <1>7 DEF ScreenInv, ReviewOK, PaidOK, Kept
<1> QED
  BY <1>2, <1>3, <1>4, <1>6, <1>8, ClientTable, ClientBills DEF ScreenInv

LEMMA DrainKeeps ==
  ASSUME ScreenInv, Drain
  PROVE  ScreenInv'
<1>1. /\ Empty(drain) /\ ~Empty(queue) /\ Have /\ drain' = queue /\ queue' = NoDraft
      /\ wire' = wire \cup {Message("draft", queue.rev, queue.party, 0)}
      /\ UNCHANGED <<gen, screen, session, form, tasks, ticket, work, shown, table, bills, lost>>
  BY DEF Drain, Send, Have
<1>2. gen \in Gens /\ queue \in Draft /\ queue.rev \in Nat /\ queue.party \in SizeOrNone /\ queue.rev <= form.rev /\ form.rev \in Nat
      /\ form \in Draft
  BY <1>1, HaveRow, ClientFields DEF Draft, SizeOrNone
<1>3. PICK x : x = Message("draft", queue.rev, queue.party, 0)
  OBVIOUS
<1>4. x \in Sent /\ x.kind = "draft" /\ x.of = gen /\ x.at = "sent" /\ x.awaited = TRUE /\ x.rev = queue.rev
  <2>1. "draft" \in Kinds /\ 0 \in Nat /\ 0 \in BenefitOrNone
    BY DEF Kinds, Drafting, BenefitOrNone
  <2> QED
    BY <1>2, <1>3, <2>1, Constants DEF Message, Sent, Stages
<1>5. wire' = wire \cup {x}
  BY <1>1, <1>3
<1>6. queue' \in Draft /\ drain' \in Draft /\ queue'.rev = 0 /\ queue'.rev <= form.rev /\ drain'.rev <= form.rev
  <2>1. queue' = NoDraft /\ drain' = queue
    BY <1>1
  <2> QED
    BY <2>1, <1>2, NoDraftIs
<1>7. ASSUME NEW rev \in Nat, Before(rev)
      PROVE  queue'.rev < rev /\ drain'.rev < rev /\ queue.rev < rev
  BY <1>1, <1>2, <1>6, <1>7 DEF Before
<1>8. ASSUME NEW g \in Gens, Settled(g)
      PROVE  Settled(g)'
  <2>1. table[g].rev \in Nat
    BY RowFields DEF ScreenInv, ScreenShapes, SharedShapes
  <2>2. g = gen => Before(table[g].rev)' /\ queue.rev < table[g].rev
    BY <1>1, <1>7, <1>8, <2>1 DEF Settled, Before
  <2>3. ASSUME NEW n \in wire', n.of = g, Unread(n)
        PROVE  n.kind # "party" /\ (n.kind \in Drafting => n.rev < table[g].rev)
    BY <1>4, <1>5, <1>8, <2>2, <2>3 DEF Settled
  <2> QED
    BY <1>1, <2>2, <2>3 DEF Settled, Unread
<1>9. WireOK'
  <2>1. AwaitedOK(x)'
    BY <1>1, <1>4 DEF AwaitedOK, Have, Handlers, Empty, NoDraft
  <2>2. MessageOK(x)'
    BY <1>1, <1>2, <1>4, <2>1, SentOK
  <2>3. ASSUME NEW m \in wire, m.awaited
        PROVE  m.kind # x.kind /\ AwaitedOK(m)'
    BY <1>1, <1>4, <2>3, Waiting DEF MessageOK, AwaitedOK, Have, Empty, NoDraft
  <2> QED
    BY <1>1, <1>2, <1>4, <1>5, <2>2, <2>3, WireSends
<1>10. ServedOK'
  <2>1. ASSUME NEW m \in wire
        PROVE  EachOK(m)'
    <3>1. ASSUME Newest(m)
          PROVE  Newest(m)'
      <4>1. Before(form.rev)' /\ queue.rev < form.rev
        BY <1>1, <1>2, <1>7, <3>1 DEF Newest, Before
      <4>2. ASSUME NEW n \in wire', n # m, n.of = gen, n.kind \in Drafting, Unread(n)
            PROVE  n.rev < form.rev
        BY <1>4, <1>5, <3>1, <4>1, <4>2 DEF Newest
      <4> QED
        BY <1>1, <3>1, <4>1, <4>2 DEF Newest, Before, Unread
    <3> QED
      BY <1>1, <1>8, <3>1, EachSettled
  <2>2. EachOK(x)'
    BY <1>4 DEF EachOK, AnswerOK, QuoteOK, CheckoutOK
  <2> QED
    BY <1>5, <2>1, <2>2 DEF ServedOK
<1>11. SharedShapes'
  BY <1>1, <1>4, <1>5 DEF ScreenInv, ScreenShapes, SharedShapes
<1> QED
  BY <1>1, <1>5, <1>6, <1>8, <1>9, <1>10, <1>11, BehindKeeps

LEMMA DraftAnsweredKeeps ==
  ASSUME ScreenInv, DraftAnswered
  PROVE  ScreenInv'
<1>1. PICK m \in wire :
        /\ m.kind = "draft" /\ m.at = "answer" /\ m.awaited /\ wire' = wire \ {m} /\ drain' = NoDraft
        /\ queue' = IF ~m.ok /\ (Empty(queue) \/ queue.rev < drain.rev) THEN drain ELSE queue
        /\ UNCHANGED <<gen, screen, session, form, tasks, ticket, work, shown, table, bills, lost>>
  BY DEF DraftAnswered, Answers
<1>2. Have
  BY <1>1, Waiting DEF MessageOK, AwaitedOK
<1>3. /\ queue \in Draft /\ drain \in Draft /\ queue.rev \in Nat /\ drain.rev \in Nat /\ form.rev \in Nat /\ form \in Draft
      /\ queue.rev <= form.rev /\ drain.rev <= form.rev
  BY ClientFields
<1>4. queue' \in {queue, drain}
  BY <1>1
<1>5. queue' \in Draft /\ drain' \in Draft /\ queue'.rev <= form.rev /\ drain'.rev = 0 /\ drain'.rev <= form.rev
  <2>1. drain' = NoDraft
    BY <1>1
  <2> QED
    BY <2>1, <1>3, <1>4, NoDraftIs
<1>6. ASSUME NEW rev \in Nat, Before(rev)
      PROVE  Before(rev)'
  BY <1>3, <1>4, <1>5, <1>6 DEF Before
<1>7. \A n \in wire' : Traced(n, wire)
  BY <1>1 DEF Traced
<1>8. ASSUME NEW g \in Gens, Settled(g)
      PROVE  Settled(g)'
  <2>1. table[g].rev \in Nat
    BY RowFields DEF ScreenInv, ScreenShapes, SharedShapes
  <2>2. g = gen' => Before(table[g].rev)'
    BY <1>1, <1>6, <1>8, <2>1 DEF Settled, Before
  <2> QED
    BY <1>1, <1>7, <1>8, <2>2, SettledStays
<1>9. ASSUME NEW n \in wire \ {m}
      PROVE  EachOK(n)'
  BY <1>1, <1>6, <1>9, EachStays DEF Traced
<1>10. SharedShapes' /\ WireOK' /\ ServedOK'
  <2>1. ASSUME NEW n \in wire \ {m}, n.awaited
        PROVE  AwaitedOK(n)'
    <3>1. AwaitedOK(n) /\ n.kind # "draft"
      BY <1>1, <2>1, OtherKinds
    <3> QED
      BY <1>1, <3>1 DEF AwaitedOK, Have
  <2> QED
    BY <1>1, <1>3, <1>9, <2>1, Received
<1>11. \A n \in wire : Quoted(n) \/ BillPaid(n) => n \in wire'
  BY <1>1 DEF Quoted, BillPaid
<1> QED
  BY <1>1, <1>2, <1>5, <1>8, <1>10, <1>11, BehindKeeps

LEMMA ResetSendsKeeps ==
  ASSUME ScreenInv, Have, ~ \E m \in wire : m.kind = "reset" /\ m.awaited, Send(Message("reset", 0, 0, 0)),
         UNCHANGED client, UNCHANGED <<table, bills, lost>>
  PROVE  ScreenInv'
<1>1. UNCHANGED <<gen, screen, session, form, queue, drain, tasks, ticket, work, shown>>
  BY DEF client
<1>2. PICK x : x = Message("reset", 0, 0, 0)
  OBVIOUS
<1>3. x \in Sent /\ x.kind = "reset" /\ x.of = gen /\ x.at = "sent" /\ x.awaited = TRUE
  <2>1. "reset" \in Kinds /\ 0 \in Nat /\ 0 \in BenefitOrNone /\ 0 \in SizeOrNone /\ gen \in Gens
    BY HaveRow DEF Kinds, BenefitOrNone, SizeOrNone
  <2> QED
    BY <1>2, <2>1, Constants DEF Message, Sent, Stages
<1>4. wire' = wire \cup {x}
  BY <1>2 DEF Send
<1>5. \A n \in wire' : Traced(n, wire)
  BY <1>3, <1>4 DEF Traced, Drafting
<1>6. /\ queue \in Draft /\ drain \in Draft /\ queue.rev <= form.rev /\ drain.rev <= form.rev /\ form \in Draft
      /\ form.rev >= form.rev
  BY ClientFields
<1>7. WireOK'
  <2>1. AwaitedOK(x)' /\ MessageOK(x)'
    <3>1. AwaitedOK(x)'
      BY <1>3 DEF AwaitedOK, Handlers
    <3> QED
      BY <1>1, <1>3, <3>1, SentOK DEF Drafting
  <2>2. ASSUME NEW m \in wire, m.awaited
        PROVE  m.kind # x.kind /\ AwaitedOK(m)'
    BY <1>1, <1>3, <2>2, Waiting DEF MessageOK, AwaitedOK, Have, Empty, NoDraft
  <2> QED
    BY <1>1, <1>3, <1>4, <1>6, <2>1, <2>2, WireSends
<1>8. ServedOK'
  <2>1. ASSUME NEW m \in wire
        PROVE  EachOK(m)'
    <3>1. \A n \in wire' \ {m} : Traced(n, wire \ {m})
      BY <1>3, <1>4 DEF Traced, Drafting
    <3> QED
      BY <1>1, <1>5, <3>1, EachStays
  <2>2. EachOK(x)'
    BY <1>3 DEF EachOK, AnswerOK, QuoteOK, CheckoutOK
  <2> QED
    BY <1>4, <2>1, <2>2 DEF ServedOK
<1>9. \A g \in Gens : Settled(g) => Settled(g)'
  BY <1>1, <1>3, <1>4, SettledSent DEF Drafting
<1>10. SharedShapes'
  BY <1>3, <1>4 DEF ScreenInv, ScreenShapes, SharedShapes
<1> QED
  BY <1>1, <1>4, <1>6, <1>7, <1>8, <1>9, <1>10, BehindKeeps

LEMMA ResetFailsKeeps ==
  ASSUME ScreenInv, NEW m \in wire, m.kind = "reset", m.at = "answer", m.awaited, wire' = wire \ {m},
         UNCHANGED client, UNCHANGED <<table, bills, lost>>
  PROVE  ScreenInv'
<1>1. UNCHANGED <<gen, screen, session, form, queue, drain, tasks, ticket, work, shown>>
  BY DEF client
<1>2. /\ queue \in Draft /\ drain \in Draft /\ queue.rev <= form.rev /\ drain.rev <= form.rev /\ form \in Draft
      /\ form.rev >= form.rev
  BY ClientFields
<1>3. ASSUME NEW n \in wire \ {m}, n.awaited
      PROVE  AwaitedOK(n)'
  BY <1>1, <1>3, OtherKinds DEF AwaitedOK, Have, Empty, NoDraft
<1>4. ASSUME NEW n \in wire \ {m}
      PROVE  EachOK(n)'
  BY <1>1, <1>4, EachStays DEF Traced
<1>5. ASSUME NEW g, Settled(g)
      PROVE  Settled(g)'
  BY <1>1, <1>5 DEF Settled, Before, Unread
<1>6. SharedShapes' /\ WireOK' /\ ServedOK'
  BY <1>1, <1>2, <1>3, <1>4, Received
<1>7. \A n \in wire : Quoted(n) \/ BillPaid(n) => n \in wire'
  BY DEF Quoted, BillPaid
<1> QED
  BY <1>1, <1>2, <1>5, <1>6, <1>7, BehindKeeps

LEMMA DisconnectKeeps ==
  ASSUME ScreenInv, Disconnect
  PROVE  ScreenInv'
<1>1. PICK m \in wire :
        /\ m.awaited
        /\ wire' = (wire \ {m}) \cup {x \in {[m EXCEPT !.awaited = FALSE]} : m.at # "answer"}
                     \cup {[Message(m.kind, 0, m.party, m.benefit) EXCEPT !.of = m.of, !.at = "answer"]}
        /\ lost' = IF m.kind \in {"party", "quote", "checkout"} THEN lost \cup {m.of} ELSE lost
        /\ UNCHANGED <<client, table, bills>>
  BY DEF Disconnect
<1>2. UNCHANGED <<gen, screen, session, form, queue, drain, tasks, ticket, work, shown>>
  BY <1>1 DEF client
<1>3. /\ m \in Sent /\ m.of \in Gens /\ m.of <= gen /\ gen \in Nat /\ MaxGen \in Nat /\ gen <= MaxGen /\ MessageOK(m)
      /\ EachOK(m) /\ AwaitedOK(m)
  BY <1>1, Waiting, ClientFields DEF MessageOK
<1>4. PICK y : y = [m EXCEPT !.awaited = FALSE]
  OBVIOUS
<1>5. /\ y \in Sent /\ y.kind = m.kind /\ y.of = m.of /\ y.at = m.at /\ y.rev = m.rev /\ y.party = m.party /\ y.sum = m.sum
      /\ y.awaited = FALSE
  BY <1>3, <1>4 DEF Sent
<1>6. PICK x : x = [Message(m.kind, 0, m.party, m.benefit) EXCEPT !.of = m.of, !.at = "answer"]
  OBVIOUS
<1>7. /\ x \in Sent /\ x.kind = m.kind /\ x.of = m.of /\ x.at = "answer" /\ x.rev = 0 /\ x.party = m.party
      /\ x.awaited = TRUE /\ x.ok = FALSE
  <2>1. m.kind \in Kinds /\ m.party \in SizeOrNone /\ m.benefit \in BenefitOrNone
    BY <1>3, Fields
  <2>2. gen \in Gens
    BY <1>3 DEF Gens
  <2> QED
    BY <1>3, <1>6, <2>1, <2>2, Constants DEF Message, Sent, Stages
<1>8. /\ wire' \subseteq (wire \ {m}) \cup {x} \cup {y} /\ wire \ {m} \subseteq wire' /\ (y \in wire' => m.at # "answer")
  <2>1. y # x
    BY <1>5, <1>7
  <2>2. y \notin wire \/ y # m
    BY <1>1, <1>5
  <2>3. wire' = (wire \ {m}) \cup {z \in {y} : m.at # "answer"} \cup {x}
    BY <1>1, <1>4, <1>6
  <2>4. ASSUME y \in wire \ {m}
        PROVE  m.at # "answer"
    <3>1. ~y.awaited /\ y.at # "answer"
      BY <1>5, <2>4, Waiting
    <3> QED
      BY <1>5, <3>1
  <2> QED
    BY <2>1, <2>3, <2>4
<1>9. lost \subseteq lost' /\ lost' \subseteq Gens /\ (m.kind \in {"party", "quote", "checkout"} => m.of \in lost')
  BY <1>1, <1>3 DEF ScreenInv, ScreenShapes, SharedShapes
<1>10. \A n \in wire' : Traced(n, wire)
  BY <1>5, <1>7, <1>8 DEF Traced, Unread
<1>11. /\ queue \in Draft /\ drain \in Draft /\ queue.rev <= form.rev /\ drain.rev <= form.rev /\ form \in Draft
       /\ form.rev >= form.rev
  BY ClientFields
<1>12. ASSUME NEW g \in Gens, Settled(g)
       PROVE  Settled(g)'
  <2>1. g = gen' => Before(table[g].rev)'
    BY <1>1, <1>2, <1>12 DEF Settled, Before
  <2> QED
    BY <1>1, <1>10, <1>12, <2>1, SettledStays
<1>13. WireOK'
  <2>1. ASSUME NEW n \in wire, n.awaited
        PROVE  AwaitedOK(n)'
    BY <1>2, <2>1, Waiting DEF MessageOK, AwaitedOK, Have, Empty, NoDraft
  <2>2. ASSUME NEW n \in wire \ {m}
        PROVE  MessageOK(n)'
    BY <1>1, <1>2, <1>9, <1>11, <2>1, <2>2, MessageStays
  <2>3. AwaitedOK(x)'
    BY <1>2, <1>3, <1>7 DEF AwaitedOK, Have, Empty, NoDraft
  <2>4. form.rev \in Nat
    BY ClientFields
  <2>5. MessageOK(x)'
    BY <1>1, <1>2, <1>3, <1>7, <2>3, <2>4 DEF MessageOK, Have
  <2>6. ASSUME y \in wire'
        PROVE  MessageOK(y)'
    <3>1. GivenUpOK(y)'
      BY <1>5, <1>8, <1>9, <2>6 DEF GivenUpOK
    <3> QED
      BY <1>1, <1>2, <1>3, <1>5, <3>1 DEF MessageOK, Have
  <2>7. OneAwaited'
    <3>1. ASSUME NEW n \in wire', n.awaited, n # x
          PROVE  n \in wire /\ n # m /\ n.kind # x.kind
      BY <1>1, <1>5, <1>7, <1>8, <3>1, OtherKinds
    <3> QED
      BY <3>1 DEF ScreenInv, WireOK, OneAwaited
  <2> QED
    BY <1>8, <2>2, <2>5, <2>6, <2>7 DEF WireOK
<1>14. ServedOK'
  <2>1. ASSUME NEW n \in wire \ {m}
        PROVE  EachOK(n)'
    <3>1. \A o \in wire' \ {n} : Traced(o, wire \ {n})
      BY <1>5, <1>7, <1>8, <2>1 DEF Traced, Unread
    <3> QED
      BY <1>1, <1>2, <1>9, <1>10, <2>1, <3>1, EachStays
  <2>2. EachOK(x)'
    BY <1>2, <1>7, <1>9 DEF EachOK, AnswerOK, QuoteOK, CheckoutOK, Unread
  <2>3. ASSUME y \in wire'
        PROVE  EachOK(y)'
    BY <1>1, <1>2, <1>3, <1>5, <1>8, <1>9, <2>3 DEF EachOK, AnswerOK, QuoteOK, CheckoutOK
  <2> QED
    BY <1>8, <2>1, <2>2, <2>3 DEF ServedOK
<1>15. SharedShapes'
  BY <1>1, <1>5, <1>7, <1>8, <1>9 DEF ScreenInv, ScreenShapes, SharedShapes
<1>16. gen \notin lost' => \A n \in wire : Quoted(n) \/ BillPaid(n) => n \in wire'
  BY <1>8, <1>9 DEF Quoted, BillPaid
<1> QED
  BY <1>1, <1>2, <1>9, <1>11, <1>12, <1>13, <1>14, <1>15, <1>16, BehindKeeps

-----------------------------------------------------------------------------
(* From one visit to the next.                                             *)

\* What is given up with a visit; what is on its way afterwards.
GivenUp == {"draft", "party", "assign"}
Remains(n) ==
  \/ n \in wire /\ (n.awaited => n.kind \notin GivenUp)
  \/ \E m \in wire : m.kind \in GivenUp /\ m.at # "answer" /\ n = [m EXCEPT !.awaited = FALSE]

LEMMA RemainsIs ==
  ASSUME ScreenInv, NEW n, Remains(n)
  PROVE  /\ n \in Sent /\ n.of \in Gens /\ n.of <= gen /\ table[n.of].status # "NONE"
         /\ n.awaited \in BOOLEAN /\ (n.awaited \/ n.kind \notin GivenUp => n \in wire)
         /\ n.awaited => n.kind \notin GivenUp
         /\ ~n.awaited => n.at # "answer"
         /\ Traced(n, wire)
<1>1. CASE n \in wire /\ (n.awaited => n.kind \notin GivenUp)
  BY <1>1, Waiting DEF MessageOK, GivenUpOK, Traced
<1>2. ASSUME NEW m \in wire, m.kind \in GivenUp, m.at # "answer", n = [m EXCEPT !.awaited = FALSE]
      PROVE  /\ n \in Sent /\ n.kind = m.kind /\ n.of = m.of /\ n.at = m.at /\ n.rev = m.rev /\ n.awaited = FALSE
             /\ m.of \in Gens /\ m.of <= gen /\ table[m.of].status # "NONE"
  <2>1. m \in Sent /\ MessageOK(m) /\ m.of \in Gens
    BY Waiting
  <2>2. n \in Sent /\ n.kind = m.kind /\ n.of = m.of /\ n.at = m.at /\ n.rev = m.rev /\ n.awaited = FALSE
    BY <1>2, <2>1 DEF Sent
  <2> QED
    BY <2>1, <2>2 DEF MessageOK
<1>3. ASSUME NEW m \in wire, m.kind \in GivenUp, m.at # "answer", n = [m EXCEPT !.awaited = FALSE]
      PROVE  Traced(n, wire)
  BY <1>2, <1>3 DEF Traced, Unread
<1> QED
  BY <1>1, <1>2, <1>3 DEF Remains

LEMMA NextVisit ==
  ASSUME ScreenInv, gen < MaxGen, gen' = gen + 1, session' \in {"none", "asked"}, UNCHANGED <<table, bills, lost>>,
         work' = IF Busy THEN work ELSE NoWork, session' = "asked" => ~Busy, screen' # "review", PartySaved' \/ ~Busy,
         \A n \in wire' : Remains(n)
  PROVE  /\ SharedShapes' /\ ScreenConstants' /\ TableOK' /\ WireOK' /\ ServedOK' /\ PayingOK' /\ ReviewOK' /\ PaidOK'
         /\ PaysWhatIsShown' /\ WorkOK' /\ gen' \in Gens /\ work' \in Work /\ (work'.op = "none" <=> work' = NoWork')
<1>1. /\ MaxGen \in Nat /\ gen \in Nat /\ gen < gen' /\ gen' \in Gens /\ ~Have' /\ ~Kept' /\ NoWork \in Work /\ NoWork' = NoWork
      /\ NoWork.op = "none" /\ NoWork.of = 0
  <2>1. MaxGen \in Nat /\ gen \in Nat
    BY ClientFields
  <2>2. gen < gen' /\ gen' \in Gens
    BY <2>1 DEF Gens
  <2>3. ~Have' /\ ~Kept'
    BY DEF Have, Kept
  <2> QED
    BY <2>1, <2>2, <2>3, NoWorkTyped, Constants
<1>2. /\ work' \in Work /\ (work'.op = "none" <=> work' = NoWork') /\ (work' # NoWork => work'.of \in Gens)
      /\ work'.of <= gen /\ work'.of # gen'
      /\ work'.op # "none" => work' = work /\ Busy
  <2>1. work \in Work /\ (work.op = "none" <=> work = NoWork) /\ (work # NoWork => work.of \in Gens) /\ work.of <= gen
    BY DEF ScreenInv, ScreenShapes, ClientShapes, WorkOK
  <2>2. work.of \in Nat
    <3>1. work.of \in 0..MaxGen
      BY <2>1 DEF Work
    <3> QED
      BY <1>1, <3>1
  <2> QED
    BY <1>1, <2>1, <2>2
<1>3. ASSUME NEW n \in wire'
      PROVE  /\ n \in Sent /\ n.of \in Gens /\ n.of \in Nat /\ n.of <= gen /\ n.of < gen' /\ table[n.of].status # "NONE"
             /\ n.awaited \in BOOLEAN /\ (n.awaited \/ n.kind \notin GivenUp => n \in wire /\ MessageOK(n) /\ EachOK(n))
             /\ n.awaited => n.kind \notin GivenUp
             /\ ~n.awaited => n.at # "answer"
             /\ Traced(n, wire)
  <2>1. n.of \in Nat
    BY <1>1, <1>3, RemainsIs DEF Gens
  <2> QED
    BY <1>1, <1>3, <2>1, RemainsIs, Waiting
<1>4. SharedShapes' /\ ScreenConstants'
  BY <1>3 DEF ScreenInv, ScreenShapes, SharedShapes, ScreenConstants
<1>5. TableOK'
  <2>1. \A g \in Gens : g > gen => table[g] = NoRow
    BY DEF ScreenInv, TableOK
  <2>2. \A g \in Gens : g \in Nat
    BY <1>1 DEF Gens
  <2>3. \A g \in Gens : table[g].agreed => table[g].status # "NONE"
    BY DEF ScreenInv, TableOK
  <2> QED
    BY <1>1, <2>1, <2>2, <2>3 DEF TableOK
<1>6. ASSUME NEW n \in wire'
      PROVE  MessageOK(n)'
  <2>1. ASSUME n.awaited
        PROVE  AwaitedOK(n)'
    <3>1. n.kind \in Handlers => work.op = n.kind /\ work.at = "sent" /\ work.of = n.of
      BY <1>3, <2>1 DEF MessageOK, AwaitedOK
    <3>2. n.kind \in Handlers => work' = work
      BY <1>3, <2>1, <3>1 DEF Handlers, GivenUp, Busy
    <3> QED
      BY <1>1, <1>3, <2>1, <3>1, <3>2 DEF AwaitedOK, GivenUp
  <2>2. ASSUME ~n.awaited
        PROVE  GivenUpOK(n)'
    BY <1>3, <2>2 DEF MessageOK, GivenUpOK, GivenUp
  <2> QED
    BY <1>1, <1>3, <2>1, <2>2 DEF MessageOK
<1>7. WireOK'
  <2>1. OneAwaited'
    BY <1>3 DEF ScreenInv, WireOK, OneAwaited
  <2> QED
    BY <1>6, <2>1 DEF WireOK
<1>8. ASSUME NEW g \in Gens, g <= gen, Settled(g)
      PROVE  Settled(g)'
  <2>1. g \in Nat
    BY <1>1 DEF Gens
  <2> QED
    BY <1>1, <1>3, <1>8, <2>1, SettledStays
<1>9. ASSUME NEW n \in wire'
      PROVE  EachOK(n)'
  <2>1. AnswerOK(n)'
    BY <1>1, <1>3 DEF EachOK, AnswerOK, GivenUp
  <2>2. QuoteOK(n)'
    BY <1>1, <1>3 DEF EachOK, QuoteOK, GivenUp
  <2>3. CheckoutOK(n)'
    <3>1. PICK g \in Gens : g = n.of
      BY <1>3
    <3>2. ASSUME Fits(n.of, n.party, n.sum)
          PROVE  Fits(n.of, n.party, n.sum)'
      <4>1. Settled(g)'
        BY <1>3, <1>8, <3>1, <3>2 DEF Fits
      <4>2. Settled(n.of)'
        BY <3>1, <4>1 DEF Settled
      <4> QED
        BY <3>2, <4>2 DEF Fits
    <3> QED
      BY <1>3, <3>2 DEF EachOK, CheckoutOK, GivenUp
  <2> QED
    BY <2>1, <2>2, <2>3 DEF EachOK
<1>10. ServedOK'
  BY <1>9 DEF ServedOK
<1>11. PayingOK'
  <2>1. SUFFICES ASSUME work'.op = "checkout"
                 PROVE  PayingOK'
    BY DEF PayingOK
  <2>2. work' = work /\ work.op = "checkout" /\ work.of <= gen /\ PayingOK
    BY <1>2, <2>1 DEF ScreenInv
  <2>3. PICK g \in Gens : g = work.of
    BY <2>2, ClientFields, Constants
  <2>4. ASSUME Fits(work.of, work.party, work.sum)
        PROVE  Fits(work.of, work.party, work.sum)'
    <3>1. Settled(g)'
      BY <1>8, <2>2, <2>3, <2>4 DEF Fits
    <3>2. Settled(work.of)'
      BY <2>2, <2>3, <3>1 DEF Settled
    <3> QED
      BY <2>2, <2>4, <3>2 DEF Fits
  <2> QED
    BY <1>1, <2>2, <2>4 DEF PayingOK
<1>12. ReviewOK' /\ PaidOK'
  BY <1>1 DEF ReviewOK, PaidOK
<1>13. WorkOK'
  <2>1. /\ work'.of <= gen' /\ (work' # NoWork' => work'.of \in Gens') /\ Busy' = Busy
    <3>1. work'.of \in 0..MaxGen
      BY <1>2 DEF Work
    <3>2. work'.of <= gen'
      BY <1>1, <1>2, <3>1
    <3> QED
      BY <1>1, <1>2, <3>2 DEF Busy, Gens
  <2>2. work'.op # "assign"
    BY <1>2 DEF Busy
  <2> QED
    BY <1>1, <1>2, <2>1, <2>2 DEF WorkOK, Busy
<1> QED
  BY <1>1, <1>2, <1>4, <1>5, <1>7, <1>10, <1>11, <1>12, <1>13, ClientBills

LEMMA ClearsKeeps ==
  ASSUME ScreenInv, gen < MaxGen, ClearLocalHome, UNCHANGED <<table, bills, lost>>, \A n \in wire' : Remains(n)
  PROVE  ScreenInv'
<1>1. /\ gen' = gen + 1 /\ screen' = "home" /\ session' = "none" /\ form' = NoDraft /\ queue' = NoDraft /\ drain' = NoDraft
      /\ tasks' = <<>> /\ ticket' = NoTicket /\ shown' = Nothing /\ work' = IF Busy THEN work ELSE NoWork
  BY DEF ClearLocalHome
<1>2. MaxGen \in Nat /\ gen \in Nat /\ 0 \in 0..MaxGen
  BY ClientFields
<1>3. PartySaved' /\ ticket'.status = "none" /\ shown'.of = 0 /\ shown'.items = 0
  BY <1>1 DEF PartySaved, NoTicket, Nothing
<1>4. /\ SharedShapes' /\ ScreenConstants' /\ TableOK' /\ WireOK' /\ ServedOK' /\ PayingOK' /\ ReviewOK' /\ PaidOK'
      /\ PaysWhatIsShown' /\ WorkOK' /\ gen' \in Gens /\ work' \in Work /\ (work'.op = "none" <=> work' = NoWork')
  BY <1>1, <1>3, NextVisit
<1>5. ClientShapes'
  <2>1. ticket' \in [party : SizeOrNone, status : {"none", "pending", "done", "failed"}]
    BY <1>1 DEF NoTicket, SizeOrNone
  <2>2. shown' \in Shown
    BY <1>1, <1>2, Constants DEF Nothing, Shown, ScreenStatuses, SizeOrNone
  <2>3. gen' \in 0..MaxGen
    BY <1>1, <1>2
  <2>4. form' \in Draft /\ queue' \in Draft /\ drain' \in Draft
    BY <1>1, Constants
  <2>5. tasks' \in Seq([party : Sizes, sent : BOOLEAN])
    BY <1>1
  <2> QED
    BY <1>1, <1>4, <2>1, <2>2, <2>3, <2>4, <2>5 DEF ClientShapes
<1>6. ClientOK'
  <2>1. form'.rev = 0 /\ queue'.rev = 0 /\ drain'.rev = 0 /\ Empty(queue)' /\ Empty(drain)'
    BY <1>1 DEF NoDraft, Empty
  <2>2. TasksOK'
    BY <1>1, <1>3 DEF TasksOK
  <2> QED
    BY <1>1, <1>3, <2>1, <2>2 DEF ClientOK
<1>7. ShownOK'
  BY <1>1, <1>3 DEF ShownOK, Have
<1> QED
  BY <1>4, <1>5, <1>6, <1>7 DEF ScreenInv, ScreenShapes

LEMMA UnawaitedRemain ==
  ASSUME ScreenInv, NEW n \in Unawaited(GivenUp)
  PROVE  Remains(n)
<1>1. PICK m \in wire : /\ ~(m.kind \in GivenUp /\ m.at = "answer")
                        /\ n = IF m.kind \in GivenUp THEN [m EXCEPT !.awaited = FALSE] ELSE m
  BY DEF Unawaited
<1> QED
  BY <1>1 DEF Remains

LEMMA HomeKeeps ==
  ASSUME ScreenInv, Home
  PROVE  ScreenInv'
<1>1. CASE Have
  BY <1>1, ResetSendsKeeps DEF Home, Have
<1>2. CASE ~Have
  <2>1. gen < MaxGen /\ ClearLocalHome /\ wire' = wire /\ UNCHANGED <<table, bills, lost>>
    BY <1>2 DEF Home, Have
  <2>2. ASSUME NEW n \in wire'
        PROVE  Remains(n)
    BY <1>2, <2>1, <2>2, Waiting DEF MessageOK, AwaitedOK, GivenUp, Remains
  <2> QED
    BY <2>1, <2>2, ClearsKeeps
<1> QED
  BY <1>1, <1>2

LEMMA ResetAnsweredKeeps ==
  ASSUME ScreenInv, ResetAnswered
  PROVE  ScreenInv'
<1>1. PICK m \in wire :
        /\ m.kind = "reset" /\ m.at = "answer" /\ m.awaited /\ (m.ok => gen < MaxGen)
        /\ IF m.ok THEN ClearLocalHome /\ wire' = Unawaited(GivenUp) \ {m} ELSE wire' = wire \ {m} /\ UNCHANGED client
        /\ UNCHANGED <<table, bills, lost, left>>
  BY DEF ResetAnswered, Answers, GivenUp
<1>2. CASE m.ok
  BY <1>1, <1>2, UnawaitedRemain, ClearsKeeps
<1>3. CASE ~m.ok
  BY <1>1, <1>3, ResetFailsKeeps
<1> QED
  BY <1>2, <1>3

LEMMA LeaveKeeps ==
  ASSUME ScreenInv, Leave
  PROVE  ScreenInv'
<1>1. gen < MaxGen /\ ClearLocalHome /\ wire' = Unawaited(GivenUp) /\ UNCHANGED <<table, bills, lost>>
  BY DEF Leave, GivenUp
<1> QED
  BY <1>1, UnawaitedRemain, ClearsKeeps

LEMMA BeginKeeps ==
  ASSUME ScreenInv, Begin
  PROVE  ScreenInv'
<1>1. /\ screen = "home" /\ session = "none" /\ ~Busy /\ gen < MaxGen /\ gen' = gen + 1 /\ screen' = "party"
      /\ session' = "asked" /\ form' = NoDraft
      /\ UNCHANGED <<queue, drain, tasks, ticket, work, shown, wire, table, bills, lost>>
  BY DEF Begin, MayBegin
<1>2. MaxGen \in Nat /\ gen \in Nat /\ work = NoWork
  BY <1>1, ClientFields
<1>3. ASSUME NEW n \in wire'
      PROVE  Remains(n)
  BY <1>1, <1>3, Waiting DEF MessageOK, AwaitedOK, GivenUp, Remains, Have
<1>4. /\ SharedShapes' /\ ScreenConstants' /\ TableOK' /\ WireOK' /\ ServedOK' /\ PayingOK' /\ ReviewOK' /\ PaidOK'
      /\ PaysWhatIsShown' /\ WorkOK' /\ gen' \in Gens /\ work' \in Work /\ (work'.op = "none" <=> work' = NoWork')
  BY <1>1, <1>2, <1>3, NextVisit
<1>5. ClientShapes'
  <2>1. gen' \in 0..MaxGen
    BY <1>1, <1>2
  <2> QED
    BY <1>1, <1>4, <2>1, Constants DEF ScreenInv, ScreenShapes, ClientShapes
<1>6. /\ ticket.status \in {"none", "failed"} /\ queue.rev = 0 /\ drain.rev = 0 /\ Empty(drain) /\ tasks = <<>> /\ ~Busy'
      /\ shown.of = 0 /\ ~(shown.items > 0)
  BY <1>1, Constants DEF ScreenInv, ClientOK, TasksOK, ShownOK, Empty, Busy, Have
<1>7. ClientOK'
  <2>1. form'.rev = 0 /\ queue'.rev = 0 /\ drain'.rev = 0 /\ Empty(drain)'
    BY <1>1, <1>6 DEF NoDraft, Empty
  <2>2. TasksOK'
    BY <1>1, <1>6 DEF TasksOK
  <2>3. (gen \in Gens)'
    BY <1>4 DEF Gens
  <2> QED
    BY <1>1, <1>6, <2>1, <2>2, <2>3 DEF ClientOK
<1>8. ShownOK'
  BY <1>1, <1>6 DEF ShownOK, Have
<1> QED
  BY <1>4, <1>5, <1>7, <1>8 DEF ScreenInv, ScreenShapes

LEMMA SessionFailsKeeps ==
  ASSUME ScreenInv, SessionFails
  PROVE  ScreenInv'
<1>1. /\ session = "asked" /\ session' = "none" /\ screen' = "home" /\ queue' = NoDraft /\ tasks' = <<>>
      /\ ticket' = (IF tasks = <<>> THEN ticket ELSE [ticket EXCEPT !.status = "failed"]) /\ work' = NoWork
      /\ UNCHANGED <<gen, form, drain, shown, wire, table, bills, lost>>
  BY DEF SessionFails
<1>2. /\ ~Have /\ ~Have' /\ ~Kept /\ ~Kept' /\ ~Busy /\ shown.of = 0 /\ ~(shown.items > 0) /\ Empty(drain) /\ gen \in Nat
      /\ gen \in Gens
  BY <1>1, ClientFields DEF ScreenInv, ClientOK, WorkOK, ShownOK, Have, Kept
<1>3. NoWork' = NoWork /\ NoWork \in Work /\ NoWork.op = "none" /\ NoWork.of = 0 /\ NoDraft \in Draft /\ NoDraft.rev = 0
  BY ClientFields, NoWorkTyped, Constants
<1>4. ticket' \in [party : SizeOrNone, status : {"none", "pending", "done", "failed"}] /\ ticket'.status \in {"none", "failed"}
  <2>1. /\ ticket \in [party : SizeOrNone, status : {"none", "pending", "done", "failed"}]
        /\ tasks = <<>> => ticket.status \in {"none", "failed"}
    BY <1>1 DEF ScreenInv, ScreenShapes, ClientShapes, ClientOK, TasksOK
  <2> QED
    BY <1>1, <2>1
<1>5. ScreenShapes'
  <2>1. ClientShapes'
    BY <1>1, <1>3, <1>4 DEF ScreenInv, ScreenShapes, ClientShapes
  <2> QED
    BY <1>1, <2>1 DEF ScreenInv, ScreenShapes, SharedShapes, ScreenConstants
<1>6. ClientOK'
  <2>1. form.rev \in Nat
    BY ClientFields
  <2>2. queue'.rev <= form'.rev /\ drain'.rev <= form'.rev
    BY <1>1, <1>3, <2>1 DEF ScreenInv, ClientOK
  <2> QED
    BY <1>1, <1>2, <1>3, <1>4, <2>2 DEF ClientOK, TasksOK, Have, Empty, PartySaved, Busy
<1>7. WorkOK' /\ PayingOK'
  BY <1>1, <1>2, <1>3 DEF WorkOK, PayingOK, Busy
<1>8. ShownOK' /\ ReviewOK' /\ PaidOK'
  BY <1>1, <1>2 DEF ShownOK, ReviewOK, PaidOK
<1>9. TableOK'
  BY <1>1, <1>2 DEF ScreenInv, TableOK
<1>10. ASSUME NEW m \in wire
       PROVE  /\ MessageOK(m) /\ EachOK(m) /\ (m.awaited => m.kind = "reset") /\ ~(m.kind \in {"quote", "checkout"} /\ m.at = "answer")
              /\ m.kind \in {"quote", "checkout"} => m.of \in lost
  <2>1. MessageOK(m) /\ EachOK(m) /\ m \in Sent /\ (m.at = "answer" => m.awaited)
        /\ (m.kind \in {"quote", "checkout"} /\ m.of \notin lost => m.awaited)
    BY Waiting
  <2>2. m.awaited => m.kind = "reset"
    <3>1. m.kind \in Kinds
      BY <2>1, Fields
    <3> QED
      BY <1>2, <2>1, <3>1 DEF MessageOK, AwaitedOK, Kinds, Drafting, Handlers, Busy
  <2> QED
    BY <2>1, <2>2
<1>11. ASSUME NEW m \in wire
       PROVE  MessageOK(m)'
  BY <1>1, <1>2, <1>10 DEF MessageOK, AwaitedOK, GivenUpOK, Handlers
<1>12. WireOK'
  BY <1>1, <1>11 DEF ScreenInv, WireOK, OneAwaited
<1>13. ASSUME NEW m \in wire
       PROVE  EachOK(m)'
  BY <1>1, <1>2, <1>10 DEF EachOK, AnswerOK, QuoteOK, CheckoutOK
<1>14. ServedOK'
  BY <1>1, <1>13 DEF ServedOK
<1> QED
  BY <1>1, <1>5, <1>6, <1>7, <1>8, <1>9, <1>12, <1>14, ClientBills DEF ScreenInv

LEMMA SessionOpensKeeps ==
  ASSUME ScreenInv, SessionOpens
  PROVE  ScreenInv'
<1>1. /\ session = "asked" /\ session' = "have" /\ table' = [table EXCEPT ![gen].status = "DRAFT"]
      /\ shown' = [Nothing EXCEPT !.of = gen, !.status = "DRAFT", !.party = form.party]
      /\ UNCHANGED <<gen, screen, form, queue, drain, tasks, ticket, work, wire, bills, lost>>
  BY DEF SessionOpens
<1>2. /\ ~Have /\ Have' /\ ~Kept /\ ~Busy /\ Empty(drain) /\ gen \in Nat /\ MaxGen \in Nat /\ gen \in Gens /\ gen \in 0..MaxGen
      /\ work # NoWork => work.op = "assign"
      /\ screen \in {"party", "difficulty", "assigning", "help"} /\ ticket.status # "done"
  <2>1. work # NoWork => work.op = "assign"
    BY <1>1, ClientFields DEF Handlers, Busy, ScreenInv, WorkOK
  <2>2. gen \in 0..MaxGen
    BY DEF ScreenInv, ScreenShapes, ClientShapes
  <2> QED
    BY <1>1, <2>1, <2>2, ClientFields DEF ScreenInv, ClientOK, WorkOK, Have, Kept
<1>3. NoWork' = NoWork /\ NoWork.op = "none" /\ NoWork.of = 0 /\ NoRow' = NoRow
  BY <1>2, NoWorkTyped, Constants DEF NoRow, NoSum
<1>4. /\ table \in [Gens -> ScreenRow] /\ table[gen] = NoRow
      /\ \A g \in Gens : g # gen => table'[g] = table[g]
  <2>1. table \in [Gens -> ScreenRow] /\ table[gen] = NoRow
    BY <1>2 DEF ScreenInv, ScreenShapes, SharedShapes, TableOK
  <2> QED
    BY <1>1, <2>1
<1>5. /\ table' \in [Gens -> ScreenRow] /\ Mine'.status = "DRAFT" /\ Mine'.rev = 0 /\ Mine'.benefit = 0 /\ ~Mine'.agreed
  <2>1. PICK entry : entry = [NoRow EXCEPT !.status = "DRAFT"]
    OBVIOUS
  <2>2. entry \in ScreenRow /\ entry.status = "DRAFT" /\ entry.rev = 0 /\ entry.benefit = 0 /\ ~entry.agreed
    BY <2>1, Constants DEF NoRow, ScreenRow, ScreenStatuses
  <2>3. table' = [table EXCEPT ![gen] = entry]
    BY <1>1, <1>4, <2>1
  <2> QED
    BY <1>1, <1>2, <1>4, <2>2, <2>3 DEF Mine
<1>6. shown' \in Shown /\ shown'.of = gen /\ shown'.items = 0 /\ shown'.final.benefit = 0
  <2>1. form.party \in SizeOrNone
    BY ClientFields
  <2> QED
    BY <1>1, <1>2, <2>1, Constants DEF Nothing, Shown, ScreenStatuses
<1>7. ScreenShapes'
  <2>1. ClientShapes'
    BY <1>1, <1>2, <1>3, <1>6 DEF ScreenInv, ScreenShapes, ClientShapes
  <2> QED
    BY <1>1, <1>5, <2>1 DEF ScreenInv, ScreenShapes, SharedShapes, ScreenConstants
<1>8. ClientOK' /\ WorkOK'
  <2>1. ClientOK'
    BY <1>1, <1>2 DEF ScreenInv, ClientOK, TasksOK, PartySaved, Busy, Have, Empty, NoDraft
  <2> QED
    BY <1>1, <1>2, <1>3, <2>1 DEF ScreenInv, WorkOK, PartySaved, Busy, Have
<1>9. ShownOK' /\ ReviewOK' /\ PaidOK' /\ PayingOK'
  BY <1>1, <1>2, <1>3, <1>5, <1>6 DEF ShownOK, ReviewOK, PaidOK, PayingOK, Have, Busy
<1>10. TableOK'
  <2>1. form.rev \in Nat /\ TableOK
    BY ClientFields DEF ScreenInv
  <2>2. ASSUME NEW g \in Gens
        PROVE  /\ g > gen \/ (g = gen /\ ~Have') => table'[g] = NoRow
               /\ table'[g].agreed => table'[g].status # "NONE"
    <3>1. CASE g = gen
      BY <1>2, <1>5, <1>1, <3>1 DEF Mine
    <3>2. CASE g # gen
      BY <1>4, <2>1, <3>2 DEF TableOK
    <3> QED
      BY <3>1, <3>2
  <2> QED
    BY <1>1, <1>2, <1>3, <1>5, <2>1, <2>2 DEF TableOK, Gens
<1>11. ASSUME NEW m \in wire
       PROVE  /\ MessageOK(m) /\ EachOK(m) /\ (m.awaited => m.kind = "reset") /\ m.of \in Gens /\ m.of # gen
              /\ table'[m.of] = table[m.of] /\ (m.at = "answer" => m.awaited)
              /\ m.kind \in {"quote", "checkout"} => m.of \in lost
  <2>1. MessageOK(m) /\ EachOK(m) /\ m \in Sent /\ m.of \in Gens /\ (m.at = "answer" => m.awaited)
        /\ (m.kind \in {"quote", "checkout"} /\ m.of \notin lost => m.awaited)
    BY Waiting
  <2>2. m.awaited => m.kind = "reset"
    <3>1. m.kind \in Kinds
      BY <2>1, Fields
    <3> QED
      BY <1>2, <2>1, <3>1 DEF MessageOK, AwaitedOK, Kinds, Drafting, Handlers, Busy
  <2>3. m.of # gen
    BY <1>2, <2>1 DEF MessageOK
  <2> QED
    BY <1>4, <2>1, <2>2, <2>3
<1>12. ASSUME NEW m \in wire
       PROVE  MessageOK(m)'
  BY <1>1, <1>2, <1>11 DEF MessageOK, AwaitedOK, GivenUpOK, Handlers
<1>13. WireOK'
  BY <1>1, <1>12 DEF ScreenInv, WireOK, OneAwaited
<1>14. ASSUME NEW m \in wire
       PROVE  EachOK(m)'
  BY <1>1, <1>11 DEF EachOK, AnswerOK, QuoteOK, CheckoutOK
<1>15. ServedOK'
  BY <1>1, <1>14 DEF ServedOK
<1> QED
  BY <1>1, <1>7, <1>8, <1>9, <1>10, <1>13, <1>15, ClientBills DEF ScreenInv

-----------------------------------------------------------------------------
(* The specification.                                                      *)

LEMMA InitHolds ==
  ASSUME ScreenConstants, ScreenInit
  PROVE  ScreenInv
<1>1. /\ gen = 0 /\ screen = "home" /\ session = "none" /\ form = NoDraft /\ queue = NoDraft /\ drain = NoDraft
      /\ tasks = <<>> /\ ticket = NoTicket /\ work = NoWork /\ shown = Nothing
      /\ wire = {} /\ table = [g \in Gens |-> NoRow] /\ bills = {} /\ lost = {}
  BY DEF ScreenInit
<1>2. MaxGen \in Nat /\ 0 \in 0..MaxGen /\ NoWork \in Work
  BY NoWorkTyped DEF ScreenConstants
<1>3. NoTicket \in [party : SizeOrNone, status : {"none", "pending", "done", "failed"}] /\ NoTicket.status = "none"
  BY DEF NoTicket, SizeOrNone
<1>4. Nothing \in Shown /\ Nothing.of = 0 /\ Nothing.items = 0
  BY <1>2, Constants DEF Nothing, Shown, ScreenStatuses, SizeOrNone
<1>5. ScreenShapes
  <2>1. ClientShapes
    <3>1. /\ gen \in 0..MaxGen /\ session \in {"none", "asked", "have"} /\ screen = "home" /\ shown \in Shown
          /\ form \in Draft /\ queue \in Draft /\ drain \in Draft
      BY <1>1, <1>2, <1>4, Constants
    <3>2. tasks \in Seq([party : Sizes, sent : BOOLEAN])
      BY <1>1
    <3>3. /\ ticket \in [party : SizeOrNone, status : {"none", "pending", "done", "failed"}]
          /\ work \in Work /\ (work.op = "none" <=> work = NoWork)
      BY <1>1, <1>2, <1>3, Constants
    <3> QED
      BY <3>1, <3>2, <3>3 DEF ClientShapes
  <2>2. SharedShapes
    BY <1>1, Constants DEF SharedShapes
  <2> QED
    BY <2>1, <2>2 DEF ScreenShapes
<1>6. ~Have /\ ~Kept /\ PartySaved /\ ~Busy
  BY <1>1, <1>3, Constants DEF Have, Kept, PartySaved, Busy
<1>7. ClientOK
  <2>1. form.rev = 0 /\ queue.rev = 0 /\ drain.rev = 0 /\ Empty(queue) /\ Empty(drain) /\ ticket.status = "none"
    BY <1>1, <1>3, Constants DEF Empty
  <2>2. TasksOK
    BY <1>1, <1>6, <2>1 DEF TasksOK
  <2> QED
    BY <1>1, <1>6, <2>1, <2>2 DEF ClientOK
<1>8. WorkOK /\ PayingOK
  <2>1. gen = 0 /\ work = NoWork /\ work.op = "none" /\ work.of = 0
    BY <1>1, Constants
  <2> QED
    BY <1>6, <2>1 DEF WorkOK, PayingOK
<1>9. ShownOK /\ ReviewOK /\ PaidOK /\ PaysWhatIsShown
  BY <1>1, <1>4, <1>6 DEF ShownOK, ReviewOK, PaidOK, PaysWhatIsShown
<1>10. TableOK /\ WireOK /\ ServedOK
  BY <1>1, <1>6, Constants DEF TableOK, WireOK, OneAwaited, ServedOK
<1> QED
  BY <1>5, <1>7, <1>8, <1>9, <1>10 DEF ScreenInv

LEMMA TouchesKeep ==
  ASSUME ScreenInv, Touches
  PROVE  ScreenInv'
<1>1. CASE Begin \/ Home \/ Leave \/ Help \/ Back
  BY <1>1, BeginKeeps, HomeKeeps, LeaveKeeps, HelpKeeps
<1>2. ASSUME NEW p \in Sizes, SaveParty(p)
      PROVE  ScreenInv'
  BY <1>2, SavePartyKeeps
<1>3. CASE SaveTeam \/ ChooseDifficulty \/ Checkout
  BY <1>3, SaveTeamKeeps, ChooseDifficultyKeeps, CheckoutKeeps
<1>4. ASSUME NEW b \in Benefits, AcceptGuidance(b)
      PROVE  ScreenInv'
  BY <1>4, AcceptGuidanceKeeps
<1> QED
  BY <1>1, <1>2, <1>3, <1>4 DEF Touches

LEMMA BackgroundKeeps ==
  ASSUME ScreenInv, Background
  PROVE  ScreenInv'
<1>1. CASE SessionOpens \/ SessionFails \/ ResetAnswered
  BY <1>1, SessionOpensKeeps, SessionFailsKeeps, ResetAnsweredKeeps
<1>2. CASE PartySends \/ PartyAnswered \/ Drain \/ DraftAnswered
  BY <1>2, PartySendsKeeps, PartyAnsweredKeeps, DrainKeeps, DraftAnsweredKeeps
<1>3. CASE AssignSends \/ AssignAnswered \/ GuidanceAnswered
  BY <1>3, AssignSendsKeeps, AssignAnsweredKeeps, GuidanceAnsweredKeeps
<1>4. CASE QuoteSends \/ QuoteAnswered \/ CheckoutSends \/ CheckoutAnswered \/ HandlerFails
  BY <1>4, QuoteSendsKeeps, QuoteAnsweredKeeps, CheckoutSendsKeeps, CheckoutAnsweredKeeps, HandlerFailsKeeps
<1> QED
  BY <1>1, <1>2, <1>3, <1>4 DEF Background

LEMMA ServesKeeps ==
  ASSUME ScreenInv, Serves
  PROVE  ScreenInv'
<1>1. CASE ReadDraft \/ WriteDraft \/ AssignHolds \/ AssignRefused
  BY <1>1, ReadDraftKeeps, WriteDraftKeeps, AssignHoldsKeeps, RefusalsKeep
<1>2. CASE ReadParty \/ WriteParty \/ Agree \/ Quote \/ QuoteRefused
  BY <1>2, ReadPartyKeeps, WritePartyKeeps, AgreeKeeps, QuoteKeeps, RefusalsKeep
<1>3. CASE ReadCheckout \/ Bill \/ ReadReset \/ WriteReset
  BY <1>3, ReadCheckoutKeeps, BillKeeps, ReadResetKeeps, WriteResetKeeps
<1> QED
  BY <1>1, <1>2, <1>3 DEF Serves

LEMMA StutterKeeps ==
  ASSUME ScreenInv, UNCHANGED svars
  PROVE  ScreenInv'
<1>1. /\ UNCHANGED <<gen, screen, session, form, queue, drain, tasks, ticket, work, shown, wire, table, bills, lost>>
  BY DEF svars
<1>2. /\ queue \in Draft /\ drain \in Draft /\ queue.rev <= form.rev /\ drain.rev <= form.rev
      /\ form \in Draft /\ form.rev >= form.rev
  BY ClientFields
<1>3. ASSUME NEW m \in wire, m.awaited
      PROVE  AwaitedOK(m)'
  BY <1>1, <1>3, Waiting DEF MessageOK, AwaitedOK, Have, Empty, NoDraft
<1>4. WireOK'
  BY <1>1, <1>2, <1>3, WireStays
<1>5. ASSUME NEW m \in wire
      PROVE  EachOK(m)'
  BY <1>1, <1>5, EachStays DEF Traced
<1>6. ServedOK' /\ SharedShapes'
  BY <1>1, <1>5 DEF ServedOK, ScreenInv, ScreenShapes, SharedShapes
<1>7. ASSUME NEW g, Settled(g)
      PROVE  Settled(g)'
  BY <1>1, <1>7 DEF Settled, Before, Unread
<1> QED
  BY <1>1, <1>2, <1>4, <1>6, <1>7, BehindKeeps

LEMMA InvShows ==
  ASSUME ScreenInv
  PROVE  ScreenIsReal
<1>1. TypeOK
  <2>1. /\ gen \in 0..MaxGen /\ session \in {"none", "asked", "have"}
        /\ screen \in {"home", "party", "difficulty", "assigning", "form", "review", "payment", "help"}
        /\ shown \in Shown /\ table \in [Gens -> ScreenRow]
    BY DEF ScreenInv, ScreenShapes, ClientShapes, SharedShapes
  <2>2. shown.final \in Sum /\ \A g \in Gens : table[g].final \in Sum
    BY <2>1, RowFields DEF Shown
  <2>3. /\ {form, queue, drain} \subseteq Draft /\ {queue.rev, drain.rev} \subseteq 0..form.rev
    BY ClientFields
  <2>4. tasks # <<>> => ticket = [party |-> tasks[Len(tasks)].party, status |-> "pending"]
    BY DEF ScreenInv, ScreenShapes, ClientShapes, ClientOK, TasksOK
  <2> QED
    BY <2>1, <2>2, <2>3, <2>4 DEF TypeOK, ScreenInv, WireOK, OneAwaited
<1>2. ShowsOwnVisit
  BY DEF ScreenInv, ScreenShapes, ClientShapes, ShownOK, ShowsOwnVisit, Have
<1> QED
  BY <1>1, <1>2 DEF ScreenIsReal, ScreenInv

\* The inductive invariant of the screen holds from its first touch on, whatever
\* is pressed, answered late, given up or lost.
THEOREM ScreenInvariant == ScreenSpec => []ScreenInv
<1>1. ScreenInit => ScreenInv
  BY ScreenAssumption, InitHolds
<1>2. ScreenInv /\ [ScreenNext]_svars => ScreenInv'
  BY TouchesKeep, BackgroundKeeps, ServesKeeps, DisconnectKeeps, StutterKeeps DEF ScreenNext
<1> QED
  BY <1>1, <1>2, PTL DEF ScreenSpec

\* Whatever is saved in the background, answered late or given up: a checkout
\* finds in the row the party entered last and the sum that was shown, unless
\* the network failed its visit, and the screen shows nothing of another visit.
THEOREM ScreenReal == ScreenSpec => []ScreenIsReal
<1>1. ScreenInv => ScreenIsReal
  BY InvShows
<1> QED
  BY <1>1, ScreenInvariant, PTL
=============================================================================
