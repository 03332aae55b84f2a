------------------------------- MODULE MC_Live -------------------------------
(***************************************************************************)
(* What must eventually happen at the store's two unattended machines, in  *)
(* three small systems; `part` says which of them moves, and the others    *)
(* rest as they began.                                                     *)
(*   control   the bridge: one command of a room, and two faults           *)
(*   delivery  the collector: two bookings on their way to the calendar    *)
(*   stock     the collector: two slots closed and opened at Naver         *)
(* A part is fair as its module says: ControlSystem!ControlFairness,       *)
(* NaverDelivery!FairDeliverySpec and NaverStock!FairStockSpec.            *)
(***************************************************************************)
EXTENDS Integers, TLC

CONSTANTS w1, r1, ALL, n1, n2, s1, s2, A

VARIABLES
  part,
  command, room, agent, asking, clock, journal, outbox, task, control, errors, okAt, probe,
  beat, did, faults,
  row, done, req, edits, edited, placed, store, naver, changes, posts, states, run, losses,
  taken, stock, guest, local, server, sync, moves, slips, ours

controls == <<command, room, agent, asking, clock, journal, outbox, task, control, errors, okAt, probe,
              beat, did, faults>>
deliveries == <<row, done, req, edits, edited, placed, store, naver, changes, posts, states, run, losses>>
stocks == <<taken, stock, guest, local, server, sync, moves, slips, ours>>
all == <<part, controls, deliveries, stocks>>

C == INSTANCE ControlSystem WITH
  Rooms <- {r1}, MaxCommands <- 1, Workers <- {w1}, Actions <- {"set_info", "all_stop"}, MaxFaults <- 2
D == INSTANCE NaverDelivery WITH
  Web <- {}, Staff <- {}, Naver <- {n1, n2}, Times <- {1, 2}, Rooms <- {A}, Requests <- {w1}, MaxEdits <- 0,
  Offers <- n1 :> {<<1, A>>, <<2, A>>} @@ n2 :> {<<1, A>>}, MaxChanges <- 3, MaxFaults <- 1,
  outbox <- posts, faults <- losses
S == INSTANCE NaverStock WITH
  StockSlots <- {s1, s2}, MaxStock <- 2, MaxStockChanges <- 3, MaxStockFaults <- 1

Init ==
  /\ part \in {"control", "delivery", "stock"}
  /\ C!ControlInit /\ D!DeliveryInit /\ S!StockInit

Controls(Step) == part = "control" /\ Step /\ UNCHANGED <<part, deliveries, stocks>>
Delivers(Step) == part = "delivery" /\ Step /\ UNCHANGED <<part, controls, stocks>>
Stocks(Step) == part = "stock" /\ Step /\ UNCHANGED <<part, controls, deliveries>>

Next == Controls(C!ControlNext) \/ Delivers(D!DeliveryNext) \/ Stocks(S!StockNext)

Fairness ==
  /\ WF_all(Controls(C!Work)) /\ WF_all(Controls(C!Flush(1))) /\ SF_all(Controls(C!AckServed))
  /\ WF_all(Controls(C!Refresh)) /\ WF_all(Controls(C!Recover)) /\ WF_all(Controls(C!BeatSend))
  /\ SF_all(Controls(C!BeatArrives)) /\ WF_all(Controls(C!Maintain))
  /\ WF_all(Delivers(D!Run)) /\ WF_all(Stocks(S!SyncStep))

FairSpec == Init /\ [][Next]_all /\ Fairness

\* The collector forgets nothing: no booking is taken for delivered that the
\* calendar does not show, and no slot that it closed at Naver is given up.
CollectorRemembers == D!NothingForgotten /\ S!StockRemembered
\* An error of the Manager ends.
ErrorRecovers == C!ErrorRecovers
\* The calendar comes to show what Naver has.
CalendarFollows == D!CalendarFollows
\* Slots are closed at Naver as the store needs, and no longer.
StockSettles == S!StockSettles
=============================================================================
