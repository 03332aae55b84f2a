------------------------------ MODULE MC_Kiosk ------------------------------
(***************************************************************************)
(* Eight small stores in one run; `part` says which one a behaviour is of. *)
(*   editor   one visit that edits, resets, appends a game and pays, next  *)
(*            to a reservation of the web                                  *)
(*   rivals   two visits that want the same slots                          *)
(*   edited   one visit, the web, and the staff, who edit a reservation    *)
(*   games    a paid visit of two games in one room                        *)
(*   member   a visit that came with a reservation of a member             *)
(*   assigns  the kiosk's screen of one visit, on a network that fails     *)
(*            once: a room is assigned twice                               *)
(*   drafts   the same: a team is entered                                  *)
(*   turns    the screen of a visit, and of the next one                   *)
(***************************************************************************)
EXTENDS KioskBooking, KioskGame, KioskScreen, TLC

CONSTANTS e1, v1, v2, w1, g1, m1

VARIABLE part

\* Of a part without kiosks the properties find no game and no plan.
NoBooking == /\ visit = 0 /\ hold = 0 /\ seat = 0 /\ req = 0 /\ draft = 0
             /\ desk = 0 /\ edited = {}
             /\ game = [v \in Visits |-> [n \in Games |-> NoGame]] /\ plan = [v \in Visits |-> NoPlan]
NoPlay == /\ trip = [v \in Guests |-> [status |-> "PAYMENT_PENDING", cur |-> 1]]
          /\ round = [v \in Guests |-> [n \in Rounds |-> "NONE"]] /\ ledger = {} /\ over = {}
          /\ row = 0 /\ bill = 0 /\ ask = 0 /\ alloc = 0 /\ cmd = 0 /\ stopped = 0
          /\ real = 0 /\ seen = 0 /\ spent = 0

\* The editor is e1, next to the web; the rivals are v1 and v2.  Who is not of
\* the part never begins.
Rivals == {v1, v2}
OneSlot == [w \in {w1} |-> 1]
PartySizes == [v \in {e1, v1, v2} |-> IF v = e1 THEN {1, 2} ELSE {1}]
Drafts == [v \in {e1, v1, v2} |-> IF v = e1 THEN 1 ELSE 0]
GamesOf == [v \in {e1, v1, v2} |-> IF v = e1 THEN 2 ELSE 1]
Rest(S) == \A x \in S : IF x \in Web THEN seat'[x] = seat[x] ELSE visit'[x] = visit[x]
Opened == {s \in Seats : desk'[s] # Idle}          \* edits under way
\* The calendar touches one reservation.  It edits it at most once, and not to
\* another day, and sets its status only after the edit, or instead of it.
OneEdit == /\ Cardinality(edited' \cup Opened) <= 1
           /\ Opened # {} => edited' = {}
           /\ \A s \in Opened : desk'[s].to # 0

\* The games are of g1, who pays two, and of the member m1, who has one.
GamesPaid == g1 :> 2 @@ m1 :> 0
Away(v) == /\ trip'[v] = trip[v] /\ bill'[v] = bill[v] /\ ask'[v] = NoAsk
           /\ v \notin {ask'[a].v : a \in {x \in {"staff"} : ask'[x] # NoAsk}}

\* Two parties of one price, so that the sum does not tell them apart.
Prices == [x \in {1, 2} \X {0, 1} |-> 2 - x[2]]
OneVisit == gen' <= 1
NoFailure == left'.faults = MaxFaults
OneAssignment == left'.assigns >= MaxAssigns - 1
NoTeam == left'.teams = MaxTeams

Init ==
  /\ ScreenInit
  /\ \/ part \in {"editor", "rivals", "edited"} /\ BookingInit /\ NoPlay
     \/ part \in {"games", "member"} /\ GameInit /\ NoBooking
     \/ part \in {"assigns", "drafts", "turns"} /\ NoBooking /\ NoPlay
Next ==
  /\ UNCHANGED part
  /\ \/ part = "editor" /\ Kiosks /\ Rest(Rivals) /\ UNCHANGED <<gvars, svars>>
     \/ part = "rivals" /\ Kiosks /\ Rest({e1} \cup Web) /\ UNCHANGED <<gvars, svars>>
     \/ part = "edited" /\ BookingNext /\ Rest({e1, v2}) /\ OneEdit /\ UNCHANGED <<gvars, svars>>
     \/ part = "games" /\ GameNext /\ Away(m1) /\ UNCHANGED <<bvars, svars>>
     \/ part = "member" /\ GameNext /\ Away(g1) /\ spent'.turns <= 1 /\ UNCHANGED <<bvars, svars>>
     \/ part = "assigns" /\ ScreenNext /\ OneVisit /\ NoTeam /\ UNCHANGED <<bvars, gvars>>
     \/ part = "drafts" /\ ScreenNext /\ OneVisit /\ OneAssignment /\ UNCHANGED <<bvars, gvars>>
     \/ part = "turns" /\ ScreenNext /\ NoFailure /\ OneAssignment /\ UNCHANGED <<bvars, gvars>>
Spec == Init /\ [][Next]_<<part, bvars, gvars, svars>>

\* The two visits of the rivals are alike.
Alike == Permutations(Rivals)

=============================================================================
