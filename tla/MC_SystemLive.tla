---------------------------- MODULE MC_SystemLive ----------------------------
(***************************************************************************)
(* What must eventually happen to what the store asks of the bridge, in    *)
(* two small systems; `part` says which of them moves, and the other rests *)
(* as it began.                                                            *)
(*   payment   one payment, through cloud, bridge and terminal             *)
(*   parking   two requests for the car of one reservation                 *)
(* A part is fair as its module says: PaymentSystem!Fairness and           *)
(* Parking!ParkingFairness.                                                *)
(***************************************************************************)
EXTENDS PaymentSystem, TLC

CONSTANTS ra, rm, car1, None

VARIABLES part, asked, due, shown, inbox, work, site, flying, saved, others, faults, slow, swapped,
          parking    \* the commands of the parking lane

parkings == <<asked, due, shown, inbox, work, site, flying, saved, others, faults, slow, swapped, parking>>
all == <<part, systemVars, parkings>>

Pay(amount, method) == [amount |-> amount, method |-> method]
OneCard == {<<Pay(2, "card")>>}

P == INSTANCE Parking WITH
  Automatic <- {ra}, Manual <- {rm}, CarOf <- ra :> car1 @@ rm :> car1, Cars <- {car1}, MaxOthers <- 1, MaxFaults <- 1,
  command <- parking

LiveInit == part \in {"payment", "parking"} /\ SystemInit /\ P!ParkingInit

Pays(Step) == part = "payment" /\ Step /\ UNCHANGED <<part, parkings>>
Parks(Step) == part = "parking" /\ Step /\ UNCHANGED <<part, systemVars>>

LiveNext == Pays(SystemNext) \/ Parks(P!ParkingNext)

\* Only one part ever moves, so that one condition serves an action of each.
LiveFairness ==
  /\ \A c \in Ids : SF_all(Pays(Poll(c)))
  /\ WF_all(Pays(GiveBack(1)) \/ Parks(P!TimePasses(ra)))
  /\ WF_all(Pays(GiveBack(2)) \/ Parks(P!TimePasses(rm)))
  /\ WF_all(Pays(BridgeRuns) \/ Parks(P!Lane))
  /\ WF_all(Pays(BridgeChecked))
  /\ \A w \in AckWorkers :
       SF_all(Pays(AckFirst(w))) /\ WF_all(Pays(Serve(w))) /\ SF_all(Pays(AckEnd(w, "resolved")))
  /\ SF_all(Pays(AckAgain))

LiveSpec == LiveInit /\ [][LiveNext]_all /\ LiveFairness

\* Every request of the parking lane comes to an end.
ParkingEnds == P!ParkingEnds
=============================================================================
