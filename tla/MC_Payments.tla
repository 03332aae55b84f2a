------------------------------ MODULE MC_Payments ------------------------------
(***************************************************************************)
(* Payments in four small stores; `part` says which one a behaviour is of, *)
(* and the tables of the others stay unused, or as they began.             *)
(*   serial   the cloud, every operation and plan, one request at a time   *)
(*   bridge   the Store Bridge, as StoreBridge says, its cloud open        *)
(*   screen   local payments from one screen at a time, a stop of the      *)
(*            bridge, and rows paid otherwise                              *)
(*   screens  local payments from two screens that share a row             *)
(***************************************************************************)
EXTENDS StoreBridge, LocalPayment, TLC

CONSTANTS p1, w1, s1, s2

VARIABLES part, payment, attempt, command, req

clouds == <<payment, attempt, command, req>>

\* Keys are numbers here, so that a request can take the least fresh one.
Keys == 1..4
Pay(amount, method) == [amount |-> amount, method |-> method]
AllPlans == {<<Pay(2, "card")>>, <<Pay(1, "card"), Pay(1, "card")>>, <<Pay(1, "cash"), Pay(1, "card")>>}

Ledger == INSTANCE CloudPayments WITH
  Payments <- {p1}, ApiWorkers <- {w1}, AckWorkers <- {w1}, RequestKeys <- Keys, NoKey <- 0, NoPayment <- w1,
  MaxAttempts <- 4, Payable <- 2, Plans <- AllPlans, Faults <- FALSE,
  Operations <- {"prepare", "process", "start", "retry", "prepare_retry", "change_method", "cancel", "full", "reconcile"},
  Results <- {"APPROVED", "CANCELLED", "DECLINED", "USER_CANCELLED", "ERROR", "BUSY", "UNKNOWN", "EXCEPTION"}

\* Fresh keys are alike: a request takes the least.
Occurs(k) == (\E a \in 1..4 : attempt[a].key = k) \/ req[w1].key = k
LeastKeys == \A k \in Keys : Occurs(k)' => Occurs(k) \/ \A j \in 1..(k - 1) : Occurs(j)

\* One screen at a time, no intent that gets old; two screens, one row, no stop.
OneScreen ==
  /\ \E s \in Screens : /\ \A t \in Screens \ {s} : screen'[t] = Idle
                        /\ \A f \in flight' : f.of = s
  /\ old' = {}
FirstRow == row'[2] = NoRow /\ stops' = 0

\* A third command of the bridge is a second refund.
TwoRefunds == order'[3].type # "NONE" => order'[2].type = "CANCEL" /\ order'[3].type = "CANCEL"

NoCloud == payment = 0 /\ attempt = 0 /\ command = 0 /\ req = 0

Init ==
  /\ BridgeInit /\ LocalInit
  /\ \/ part = "serial" /\ Ledger!Init
     \/ part \in {"bridge", "screen", "screens"} /\ NoCloud
Next ==
  /\ UNCHANGED part
  /\ \/ part = "serial" /\ Ledger!Next /\ LeastKeys /\ UNCHANGED <<bridgeVars, lvars>>
     \/ part = "bridge" /\ BridgeNext /\ TwoRefunds /\ UNCHANGED <<clouds, lvars>>
     \/ part = "screen" /\ LocalNext /\ OneScreen /\ UNCHANGED <<clouds, bridgeVars>>
     \/ part = "screens" /\ LocalNext /\ FirstRow /\ UNCHANGED <<clouds, bridgeVars>>
Spec == Init /\ [][Next]_<<part, clouds, bridgeVars, lvars>>

\* The screens are alike.
Alike == Permutations({s1, s2})

\* With requests served one at a time nobody pays more than is due.
NoOverpayment == part = "serial" => Ledger!NoOverpayment
\* The summary that the screens read says what the rows say.
SummaryCurrent == part = "serial" => Ledger!SummaryCurrent
=============================================================================
