-------------------------- MODULE StoreBridge_proofs --------------------------
(***************************************************************************)
(* Theorems of StoreBridge: whatever is delivered again, wherever the       *)
(* bridge stops and whether or not it finds its journal, money moves once.  *)
(***************************************************************************)
EXTENDS StoreBridge, TLAPS

(* The task stands in the store as far as it has come. *)
TaskInv ==
    LET c == task.cmd
    IN  /\ task.step # "idle" => c \in Commands /\ order[c].type # "NONE"
        /\ task.step \in Steps \ {"idle", "received", "ack"} => journal[c] = "executing"
        /\ task.step \in {"lock", "begin"} => tx[c] = "none"
        /\ task.step = "dispatch" => card[c] = "untouched"
        /\ task.step \in {"dispatch", "record"} => tx[c] = "PENDING"

(* No refund goes on to the terminal beside one that may have been made. *)
Alone(c) == \A d \in Commands \ {c} : ~Guards(d, c)

RefundInv ==
    /\ \A c \in Commands : order[c].type = "CANCEL" =>
          order[c].orig \in Commands /\ tx[order[c].orig] = "APPROVED"
    /\ task.step \in {"lock", "begin", "dispatch"} => Alone(task.cmd)

(* The card is touched by the one run of a transaction, which the store knows. *)
CardInv ==
    \A c \in Commands :
        /\ runs[c] = IF card[c] = "untouched" THEN 0 ELSE 1
        /\ card[c] # "untouched" => tx[c] # "none" /\ order[c].type # "NONE"

(* What the store, the task and the journal may say of money that moved, when
   the vendor module raises no OSError after it. *)
MadeAs(c) ==
    {"PENDING", "UNKNOWN"} \cup {IF order[c].type = "PAY" THEN "APPROVED" ELSE "CANCELLED"}

Says(c) ==
    /\ journal[c] \in {"none", "executing"} => result[c] = "PENDING"
    /\ card[c] = "made" =>
          /\ tx[c] \in MadeAs(c)
          /\ result[c] \notin Definite
          /\ c = task.cmd /\ task.step \in {"unlock", "journal"} => task.outcome \notin Definite

SayInv == \A c \in Commands : Says(c)

BaseInv == BridgeTypeOK /\ TaskInv /\ CardInv

(* What the bridge does by itself, and a delivery by any cloud that gives a
   command one payload. *)
Moves ==
    \/ Work \/ CheckBegin \/ CheckEnd \/ Crash
    \/ \E resolution \in {"resolved", "pending"} : AckAnswered(resolution)

Delivers(c, payload) ==
    /\ payload.type # "NONE"
    /\ order[c].type # "NONE" => payload = order[c]
    /\ Deliver(c, payload)

OpenNext == Moves \/ \E c \in Commands, payload \in Orders : Delivers(c, payload)

IInv ==
    /\ BaseInv
    /\ ~LateDisconnect => RefundInv /\ SayInv /\ RefundedOnce

(* What a bridge that keeps its journal knows of a command *)
Ended(c) == journal[c] \in {"completed", "failed"}

Known(c) ==
    /\ journal[c] # "none" => order[c].type # "NONE"
    /\ journal[c] = "none" => tx[c] = "none"
    /\ At("lookup") /\ task.cmd = c => tx[c] = "none"
    /\ outbox[c] # "none" \/ wire.cmd = c \/ (At("ack") /\ task.cmd = c) => Ended(c)

(* The store books only what was made. *)
Real(c) ==
    /\ tx[c] = "APPROVED" => order[c].type = "PAY" /\ card[c] = "made"
    /\ tx[c] = "CANCELLED" => order[c].type = "CANCEL" /\ card[c] = "made"

(* The approval that c refunds was refunded, by c or by another command. *)
Refunded(c) ==
    \E d \in Commands :
        order[d].type = "CANCEL" /\ order[d].orig = order[c].orig /\ card[d] = "made"

(* What the outcome of a command says of the card and of the store *)
Stands(c, outcome) ==
    /\ outcome # "PENDING"
    /\ outcome = "APPROVED" => order[c].type = "PAY" /\ card[c] = "made"
    /\ outcome = "CANCELLED" => order[c].type = "CANCEL" /\ Refunded(c)
    /\ card[c] = "made" => outcome \notin Definite \/ (LateDisconnect /\ outcome = "ERROR")
    /\ tx[c] \in {"PENDING", "UNKNOWN"} => outcome \in {"UNKNOWN", "EXCEPTION"}

History(c) ==
    /\ Known(c) /\ Real(c)
    /\ Ended(c) => Stands(c, result[c])
    /\ task.cmd = c /\ task.step \in {"unlock", "journal"} => Stands(c, task.outcome)

HistoryInv == \A c \in Commands : History(c)

----------------------------------------------------------------------------
(* The shapes of the data *)

Tasks == [cmd : Commands \cup {Free}, step : Steps, outcome : BridgeResults]

(* A task that goes on, or has its outcome, is a task of the same command. *)
LEMMA TaskMoves ==
    ASSUME BridgeTypeOK
    PROVE  /\ \A step \in Steps : Go(step) =>
                 task' \in Tasks /\ task'.cmd = task.cmd /\ task'.step = step /\ task'.outcome = task.outcome
           /\ \A outcome \in BridgeResults : Finish(outcome) =>
                 task' \in Tasks /\ task'.cmd = task.cmd /\ task'.step = "journal" /\ task'.outcome = outcome
<1>1. task \in Tasks /\ "journal" \in Steps
  BY DEF BridgeTypeOK, Tasks, Steps
<1>2. ASSUME NEW step \in Steps, NEW outcome \in BridgeResults
      PROVE  /\ [task EXCEPT !.step = step] \in Tasks
             /\ [task EXCEPT !.step = "journal", !.outcome = outcome] \in Tasks
  BY <1>1, <1>2 DEF Tasks
<1> QED
  BY <1>1, <1>2 DEF Go, Finish, Tasks

(* At rest there is no command, and no outcome yet. *)
LEMMA RestingTask == NoTask \in Tasks /\ \A c \in Commands : [NoTask EXCEPT !.cmd = c, !.step = "received"] \in Tasks
BY DEF NoTask, Tasks, Steps, BridgeResults

(* What the terminal reports is an outcome that the store takes. *)
LEMMA ReportTypes ==
    ASSUME NEW c
    PROVE  Reports(c) \subseteq BridgeResults \ {"EXCEPTION"} /\ "none" \notin Reports(c)
BY BridgeConstants DEF Reports, BridgeResults, Definite

(* A transaction the store knows has one of its outcomes. *)
LEMMA KnownType ==
    ASSUME BridgeTypeOK, NEW c \in Commands, tx[c] # "none"
    PROVE  tx[c] \in BridgeResults
BY DEF BridgeTypeOK

(* The last step of a task: what its outcome is taken from. *)
LEMMA LookupEffect ==
    ASSUME BaseInv, Lookup
    PROVE  /\ task' \in Tasks /\ task'.cmd = task.cmd /\ task.cmd \in Commands
           /\ task'.step \in {"journal", "lock"}
           /\ task'.step = "lock" => tx[task.cmd] = "none" /\ \A d \in Commands : ~Guards(d, task.cmd)
           /\ task'.step = "journal" =>
                 \/ task'.outcome = tx[task.cmd] /\ tx[task.cmd] # "none"
                 \/ task'.outcome \in {"CANCELLED", "PENDING", "UNKNOWN"} /\ tx[task.cmd] = "none"
<1> DEFINE c == task.cmd
<1>1. c \in Commands /\ BridgeTypeOK
  BY DEF BaseInv, TaskInv, Lookup, At
<1>2. CASE tx[c] # "none" /\ Finish(tx[c])
  BY <1>1, <1>2, TaskMoves, KnownType
<1>3. ASSUME tx[c] = "none", NEW d \in Commands, Guards(d, c), Finish(tx[d])
      PROVE  /\ task' \in Tasks /\ task'.cmd = c /\ task'.step = "journal"
             /\ task'.outcome \in {"CANCELLED", "PENDING", "UNKNOWN"} /\ tx[c] = "none"
  <2>1. tx[d] \in {"CANCELLED", "PENDING", "UNKNOWN"} /\ tx[d] \in BridgeResults
    BY <1>3 DEF Guards, BridgeResults
  <2> QED
    BY <1>1, <1>3, <2>1, TaskMoves
<1>4. CASE tx[c] = "none" /\ ~(\E d \in Commands : Guards(d, c)) /\ Go("lock")
  BY <1>1, <1>4, TaskMoves DEF Steps
<1> QED
  BY <1>1, <1>2, <1>3, <1>4 DEF Lookup

----------------------------------------------------------------------------
(* Types *)

(* Every step keeps the types. *)
LEMMA TypeKept == BaseInv /\ OpenNext => BridgeTypeOK'
<1> SUFFICES ASSUME BaseInv, OpenNext PROVE BridgeTypeOK'
  OBVIOUS
<1> USE DEF At, durable
<1>0. BridgeTypeOK /\ TaskInv
  BY DEF BaseInv
<1>1. ASSUME NEW c \in Commands, NEW payload \in Orders, Delivers(c, payload) PROVE BridgeTypeOK'
  <2>1. task' \in Tasks
    BY <1>1, RestingTask DEF Delivers, Deliver
  <2> QED
    BY <1>0, <1>1, <2>1 DEF Delivers, Deliver, BridgeTypeOK, Tasks
<1>2. CASE Recognize
  <2>1. task.cmd \in Commands
    BY <1>0, <1>2 DEF Recognize, TaskInv
  <2>2. Go("lookup") \/ Go("ack")
    BY <1>2 DEF Recognize
  <2>3. task' \in Tasks
    BY <1>0, <2>2, TaskMoves DEF Steps
  <2> QED
    BY <1>0, <1>2, <2>1, <2>3 DEF Recognize, BridgeTypeOK, Tasks, BridgeResults
<1>3. CASE Lookup
  BY <1>0, <1>3, LookupEffect DEF Lookup, BridgeTypeOK, Tasks
<1>4. CASE AcquireLock
  <2>1. Go("begin") \/ Finish("BUSY")
    BY <1>4 DEF AcquireLock
  <2>2. task' \in Tasks
    BY <1>0, <2>1, TaskMoves DEF Steps, BridgeResults, Definite
  <2> QED
    BY <1>0, <1>4, <2>2 DEF AcquireLock, BridgeTypeOK, Tasks
<1>5. CASE Begin
  <2>1. task' \in Tasks
    BY <1>0, <1>5, TaskMoves DEF Begin, Steps
  <2> QED
    BY <1>0, <1>5, <2>1 DEF Begin, BridgeTypeOK, BridgeResults, Tasks
<1>6. CASE Dispatch
  <2>1. task' \in Tasks
    BY <1>0, <1>6, TaskMoves DEF Dispatch, Steps
  <2>2. card' \in [Commands -> {"untouched", "made", "refused"}]
    BY <1>0, <1>6 DEF Dispatch, BridgeTypeOK
  <2>3. runs' \in [Commands -> Nat]
    <3>1. runs \in [Commands -> Nat] /\ runs' = [runs EXCEPT ![task.cmd] = runs[task.cmd] + 1]
      BY <1>0, <1>6 DEF Dispatch, BridgeTypeOK
    <3>2. runs[task.cmd] + 1 \in Nat
      BY <1>0, <1>6, <3>1 DEF Dispatch, TaskInv
    <3> QED
      BY <3>1, <3>2
  <2>4. UNCHANGED <<order, journal, result, outbox, tx, lock, wire, crashes>>
    BY <1>6 DEF Dispatch
  <2> QED
    BY <1>0, <2>1, <2>2, <2>3, <2>4 DEF BridgeTypeOK, Tasks
<1>7. CASE Record
  <2>1. task \in Tasks /\ "unlock" \in Steps
    BY <1>0 DEF BridgeTypeOK, Tasks, Steps
  <2>2. \A outcome \in BridgeResults : [task EXCEPT !.step = "unlock", !.outcome = outcome] \in Tasks
    BY <2>1 DEF Tasks
  <2>3. CASE \E status \in Reports(task.cmd) :
               /\ tx' = [tx EXCEPT ![task.cmd] = status]
               /\ task' = [task EXCEPT !.step = "unlock", !.outcome = status]
    <3>1. PICK status \in Reports(task.cmd) :
             /\ tx' = [tx EXCEPT ![task.cmd] = status]
             /\ task' = [task EXCEPT !.step = "unlock", !.outcome = status]
      BY <2>3
    <3>2. status \in BridgeResults \ {"EXCEPTION"}
      BY ReportTypes
    <3>3. task' \in Tasks /\ tx' \in [Commands -> {"none"} \cup (BridgeResults \ {"EXCEPTION"})]
      BY <1>0, <2>2, <3>1, <3>2 DEF BridgeTypeOK
    <3> QED
      BY <1>0, <1>7, <3>3 DEF Record, BridgeTypeOK, Tasks
  <2>4. CASE task' = [task EXCEPT !.step = "unlock", !.outcome = "EXCEPTION"] /\ UNCHANGED tx
    <3>1. task' \in Tasks
      BY <2>2, <2>4 DEF BridgeResults
    <3> QED
      BY <1>0, <1>7, <2>4, <3>1 DEF Record, BridgeTypeOK, Tasks
  <2> QED
    BY <1>7, <2>3, <2>4 DEF Record
<1>8. CASE Unlock
  <2>1. task' \in Tasks
    BY <1>0, <1>8, TaskMoves DEF Unlock, Steps
  <2> QED
    BY <1>0, <1>8, <2>1 DEF Unlock, BridgeTypeOK, Tasks
<1>9. CASE Journal
  <2>1. task' \in Tasks
    BY <1>0, <1>9, TaskMoves DEF Journal, Steps
  <2> QED
    BY <1>0, <1>9, <2>1 DEF Journal, BridgeTypeOK, Tasks
<1>10. CASE CheckBegin \/ CheckEnd
  BY <1>0, <1>10 DEF CheckBegin, CheckEnd, BridgeTypeOK
<1>11. CASE SendAck
  <2>1. \/ wire' = [cmd |-> task.cmd, flush |-> FALSE]
        \/ \E c \in Commands : wire' = [cmd |-> c, flush |-> TRUE]
    BY <1>11 DEF SendAck
  <2>2. task.cmd \in Commands \cup {Free}
    BY <1>0 DEF BridgeTypeOK
  <2>3. wire' \in [cmd : Commands \cup {Free}, flush : BOOLEAN]
    <3>1. \A e \in Commands \cup {Free}, f \in BOOLEAN :
             [cmd |-> e, flush |-> f] \in [cmd : Commands \cup {Free}, flush : BOOLEAN]
      OBVIOUS
    <3> QED
      BY <2>1, <2>2, <3>1
  <2> QED
    BY <1>0, <1>11, <2>3 DEF SendAck, BridgeTypeOK
<1>12. ASSUME NEW resolution \in {"resolved", "pending"}, AckAnswered(resolution) PROVE BridgeTypeOK'
  <2>1. outbox' \in [Commands -> {"none", "pending", "resolved"}]
    BY <1>0, <1>12 DEF AckAnswered, BridgeTypeOK
  <2>2. task' \in Tasks
    BY <1>0, <1>12, RestingTask DEF AckAnswered, BridgeTypeOK, Tasks
  <2>3. wire' \in [cmd : Commands \cup {Free}, flush : BOOLEAN]
    BY <1>12 DEF AckAnswered, NoWire
  <2> QED
    BY <1>0, <1>12, <2>1, <2>2, <2>3 DEF AckAnswered, BridgeTypeOK, Tasks
<1>13. CASE Crash
  <2>1. task' \in Tasks /\ wire' \in [cmd : Commands \cup {Free}, flush : BOOLEAN]
    BY <1>13, RestingTask DEF Crash, NoWire
  <2>2. crashes' \in 0..MaxCrashes
    BY <1>0, <1>13, BridgeConstants DEF Crash, BridgeTypeOK
  <2> QED
    BY <1>0, <1>13, <2>1, <2>2 DEF Crash, BridgeTypeOK, Tasks, BridgeResults
<1> QED
  BY <1>1, <1>2, <1>3, <1>4, <1>5, <1>6, <1>7, <1>8, <1>9, <1>10, <1>11, <1>12, <1>13
  DEF OpenNext, Moves, Work

----------------------------------------------------------------------------
(* The task and the card *)

(* Every step leaves the task where the store has it. *)
LEMMA TaskKept == BaseInv /\ OpenNext => TaskInv'
<1> SUFFICES ASSUME BaseInv, OpenNext PROVE TaskInv'
  OBVIOUS
<1> USE DEF At, Go, Finish, durable, NoTask, Steps
<1>0. BridgeTypeOK /\ TaskInv /\ CardInv
  BY DEF BaseInv
<1>1. ASSUME NEW c \in Commands, NEW payload \in Orders, Delivers(c, payload) PROVE TaskInv'
  BY <1>0, <1>1 DEF Delivers, Deliver, TaskInv, BridgeTypeOK
<1>2. CASE Recognize
  BY <1>0, <1>2 DEF Recognize, TaskInv, BridgeTypeOK
<1>3. CASE Lookup
  <2>1. UNCHANGED <<order, journal, tx, card>> /\ task.step = "lookup"
    BY <1>3 DEF Lookup
  <2> QED
    BY <1>0, <1>3, <2>1, LookupEffect DEF TaskInv
<1>4. CASE AcquireLock
  BY <1>0, <1>4 DEF AcquireLock, TaskInv, BridgeTypeOK
<1>5. CASE Begin
  BY <1>0, <1>5 DEF Begin, TaskInv, CardInv, BridgeTypeOK
<1>6. CASE Dispatch
  BY <1>0, <1>6 DEF Dispatch, TaskInv, BridgeTypeOK
<1>7. CASE Record
  BY <1>0, <1>7 DEF Record, TaskInv, BridgeTypeOK
<1>8. CASE Unlock
  BY <1>0, <1>8 DEF Unlock, TaskInv, BridgeTypeOK
<1>9. CASE Journal
  BY <1>0, <1>9 DEF Journal, TaskInv, BridgeTypeOK
<1>10. CASE CheckBegin \/ CheckEnd
  BY <1>0, <1>10 DEF CheckBegin, CheckEnd, TaskInv
<1>11. CASE SendAck
  BY <1>0, <1>11 DEF SendAck, TaskInv
<1>12. ASSUME NEW resolution \in {"resolved", "pending"}, AckAnswered(resolution) PROVE TaskInv'
  BY <1>0, <1>12 DEF AckAnswered, TaskInv
<1>13. CASE Crash
  BY <1>13 DEF Crash, TaskInv
<1> QED
  BY <1>1, <1>2, <1>3, <1>4, <1>5, <1>6, <1>7, <1>8, <1>9, <1>10, <1>11, <1>12, <1>13
  DEF OpenNext, Moves, Work

(* A card is touched in Dispatch only; the store forgets no transaction and no
   order. *)
LEMMA CardKept == BaseInv /\ OpenNext => CardInv'
<1> SUFFICES ASSUME BaseInv, OpenNext PROVE CardInv'
  OBVIOUS
<1> USE DEF durable
<1>0. BridgeTypeOK /\ TaskInv /\ CardInv
  BY DEF BaseInv
<1>1. ASSUME NEW c \in Commands, NEW payload \in Orders, Delivers(c, payload) PROVE CardInv'
  BY <1>0, <1>1 DEF Delivers, Deliver, CardInv, BridgeTypeOK
<1>2. CASE Begin
  BY <1>0, <1>2 DEF Begin, CardInv, BridgeTypeOK
<1>3. CASE Dispatch
  BY <1>0, <1>3 DEF Dispatch, CardInv, TaskInv, At, Steps, BridgeTypeOK
<1>4. CASE Record
  <2>1. \A c \in Commands : tx[c] # "none" => tx'[c] # "none"
    <3>1. UNCHANGED tx \/ \E status \in Reports(task.cmd) : tx' = [tx EXCEPT ![task.cmd] = status]
      BY <1>4 DEF Record
    <3> QED
      BY <1>0, <3>1, ReportTypes DEF BridgeTypeOK
  <2> QED
    BY <1>0, <1>4, <2>1 DEF Record, CardInv
<1>5. CASE UNCHANGED <<order, tx, card, runs>>
  BY <1>0, <1>5 DEF CardInv
<1>6. CASE Recognize \/ Lookup \/ AcquireLock \/ Unlock \/ Journal \/ SendAck \/ CheckBegin \/ CheckEnd \/ Crash
  BY <1>5, <1>6 DEF Recognize, Lookup, AcquireLock, Unlock, Journal, SendAck, CheckBegin, CheckEnd, Crash
<1>7. ASSUME NEW resolution \in {"resolved", "pending"}, AckAnswered(resolution) PROVE CardInv'
  BY <1>5, <1>7 DEF AckAnswered
<1> QED
  BY <1>1, <1>2, <1>3, <1>4, <1>6, <1>7 DEF OpenNext, Moves, Work

----------------------------------------------------------------------------
(* So the base of the invariant holds with any such cloud. *)
LEMMA BaseKept == BaseInv /\ OpenNext => BaseInv'
BY TypeKept, TaskKept, CardKept DEF BaseInv

(* The cloud of this module is such a cloud. *)
LEMMA OpenEnough == BaseInv /\ BridgeNext => OpenNext
<1> SUFFICES ASSUME BaseInv, NEW c \in Commands, NEW payload \in Payloads(c), Deliver(c, payload)
             PROVE  payload \in Orders /\ Delivers(c, payload)
  BY DEF BridgeNext, OpenNext, Moves
<1> QED
  BY DEF BaseInv, BridgeTypeOK, Orders, Payloads, Delivers

----------------------------------------------------------------------------
(* A bridge that keeps its journal *)

(* Nothing that was ordered, recorded or made is forgotten. *)
LEMMA Lasting ==
    ASSUME BaseInv, ~JournalLoss, OpenNext, NEW c \in Commands
    PROVE  /\ order[c].type # "NONE" => order'[c] = order[c]
           /\ card[c] = "made" => card'[c] = "made"
           /\ Ended(c) => journal'[c] = journal[c] /\ result'[c] = result[c]
<1> USE DEF durable, At
<1>0. BridgeTypeOK /\ TaskInv /\ CardInv
  BY DEF BaseInv
<1>1. ASSUME NEW e \in Commands, NEW payload \in Orders, Delivers(e, payload)
      PROVE  /\ UNCHANGED <<journal, result, card>>
             /\ order[c].type # "NONE" => order'[c] = order[c]
  BY <1>0, <1>1 DEF Delivers, Deliver, BridgeTypeOK
<1>2. CASE Recognize
  BY <1>0, <1>2 DEF Recognize, TaskInv, BridgeTypeOK, Ended
<1>3. CASE Journal
  BY <1>0, <1>3 DEF Journal, TaskInv, BridgeTypeOK, Ended, Steps
<1>4. CASE Dispatch
  BY <1>0, <1>4 DEF Dispatch, TaskInv, BridgeTypeOK
<1>5. CASE Lookup \/ AcquireLock \/ Begin \/ Record \/ Unlock \/ SendAck \/ CheckBegin \/ CheckEnd
  BY <1>5 DEF Lookup, AcquireLock, Begin, Record, Unlock, SendAck, CheckBegin, CheckEnd
<1>6. ASSUME NEW resolution \in {"resolved", "pending"}, AckAnswered(resolution)
      PROVE  UNCHANGED <<order, journal, result, card>>
  BY <1>6 DEF AckAnswered
<1>7. CASE Crash
  BY <1>7 DEF Crash
<1> QED
  BY <1>1, <1>2, <1>3, <1>4, <1>5, <1>6, <1>7 DEF OpenNext, Moves, Work

(* What stands of an outcome goes on standing, as far as the store does. *)
LEMMA StandsOn ==
    ASSUME BaseInv, ~JournalLoss, OpenNext, NEW c \in Commands, NEW outcome,
           order[c].type # "NONE", Stands(c, outcome),
           tx'[c] = tx[c], card'[c] = card[c]
    PROVE  order'[c] = order[c] /\ Stands(c, outcome)'
<1>1. order'[c] = order[c] /\ (card[c] = "made" => card'[c] = "made")
  BY Lasting
<1>2. Refunded(c) => Refunded(c)'
  <2> SUFFICES ASSUME NEW d \in Commands, order[d].type = "CANCEL", order[d].orig = order[c].orig,
                      card[d] = "made"
               PROVE  order'[d] = order[d] /\ card'[d] = "made"
    BY <1>1 DEF Refunded
  <2> QED
    BY Lasting
<1>3. Stands(c, outcome)'
  BY <1>1, <1>2 DEF Stands
<1> QED
  BY <1>1, <1>3

(* What the journal and the store say goes on being true, if a refund beside one
   whose outcome is open does not come to the bridge. *)
LEMMA HistoryKept ==
    ASSUME BaseInv, HistoryInv, ~JournalLoss, OpenNext,
           \A d \in Commands : At("lookup") /\ Guards(d, task.cmd) => tx[d] = "CANCELLED"
    PROVE  HistoryInv'
<1> SUFFICES ASSUME NEW c \in Commands PROVE History(c)'
  BY DEF HistoryInv
<1> USE DEF At, durable
<1>0. BridgeTypeOK /\ TaskInv /\ CardInv /\ History(c) /\ Known(c) /\ Real(c)
  BY DEF BaseInv, HistoryInv, History
<1>s. \A outcome : order[c].type # "NONE" /\ Stands(c, outcome) /\ tx'[c] = tx[c] /\ card'[c] = card[c] =>
         order'[c] = order[c] /\ Stands(c, outcome)'
  BY StandsOn
<1>e. Ended(c) => order[c].type # "NONE" /\ Stands(c, result[c])
  BY <1>0 DEF History, Known, Ended
<1>t. task.cmd = c /\ task.step \in {"unlock", "journal"} => order[c].type # "NONE" /\ Stands(c, task.outcome)
  BY <1>0 DEF History, TaskInv
<1>1. ASSUME NEW e \in Commands, NEW payload \in Orders, Delivers(e, payload) PROVE History(c)'
  <2>1. UNCHANGED <<journal, result, outbox, tx, wire, card>> /\ task'.step = "received"
    BY <1>1 DEF Delivers, Deliver, NoTask
  <2>2. order[c].type # "NONE" => order'[c] = order[c]
    BY Lasting
  <2>3. order'[c].type = "NONE" => order[c].type = "NONE"
    BY <2>2
  <2>4. Known(c)' /\ Real(c)'
    BY <1>0, <2>1, <2>2, <2>3 DEF Known, Real, Ended
  <2> QED
    BY <1>e, <1>s, <2>1, <2>4 DEF History, Ended
<1>2. CASE Recognize
  <2>1. UNCHANGED <<order, tx, card, wire>> /\ task.cmd \in Commands /\ task'.cmd = task.cmd
    BY <1>0, <1>2, TaskMoves DEF Recognize, TaskInv, Steps
  <2>2. CASE c # task.cmd
    <3>1. journal'[c] = journal[c] /\ result'[c] = result[c] /\ outbox'[c] = outbox[c]
      BY <1>0, <1>2, <2>2 DEF Recognize, BridgeTypeOK
    <3> QED
      BY <1>0, <1>e, <1>s, <2>1, <2>2, <3>1 DEF History, Known, Real, Ended
  <2>3. CASE c = task.cmd /\ journal[c] = "none"
    <3>1. journal'[c] = "executing" /\ outbox'[c] = outbox[c] /\ task'.step = "lookup"
      BY <1>0, <1>2, <2>3 DEF Recognize, BridgeTypeOK, Go
    <3>2. order[c].type # "NONE"
      BY <1>0, <1>2, <2>3 DEF Recognize, TaskInv
    <3> QED
      BY <1>0, <2>1, <2>3, <3>1, <3>2 DEF History, Known, Real, Ended
  <2>4. CASE c = task.cmd /\ journal[c] = "executing"
    <3>1. journal'[c] = "failed" /\ result'[c] = "EXCEPTION" /\ task'.step = "ack"
      BY <1>0, <1>2, <2>4 DEF Recognize, BridgeTypeOK, Go
    <3>2. Stands(c, result[c])'
      BY <3>1 DEF Stands, Definite
    <3> QED
      BY <1>0, <2>1, <2>4, <3>1, <3>2 DEF History, Known, Real, Ended
  <2>5. CASE c = task.cmd /\ Ended(c)
    <3>1. UNCHANGED <<journal, result, outbox>> /\ task'.step = "ack"
      BY <1>0, <1>2, <2>5 DEF Recognize, BridgeTypeOK, Go, Ended
    <3> QED
      BY <1>0, <1>e, <1>s, <2>1, <2>5, <3>1 DEF History, Known, Real, Ended
  <2> QED
    BY <1>2, <2>2, <2>3, <2>4, <2>5 DEF Recognize, Ended
<1>3. CASE Lookup
  <2> DEFINE b == task.cmd
  <2>1. UNCHANGED <<order, journal, result, outbox, tx, card, wire>> /\ task.step = "lookup"
    BY <1>3 DEF Lookup
  <2>2. b \in Commands /\ tx[b] = "none" /\ task'.cmd = b /\ task'.step \in {"journal", "lock"}
    BY <1>0, <1>3, LookupEffect DEF HistoryInv, History, Known, Lookup
  <2>3. task'.step = "journal" => task'.outcome = "CANCELLED" /\ order[b].type = "CANCEL" /\ Refunded(b)
    <3>1. CASE Go("lock")
      BY <1>0, <3>1, TaskMoves DEF Steps
    <3>2. ASSUME NEW d \in Commands, Guards(d, b), Finish(tx[d])
          PROVE  task'.outcome = "CANCELLED" /\ order[b].type = "CANCEL" /\ Refunded(b)
      <4>1. tx[d] = "CANCELLED" /\ Real(d)
        BY <2>1, <3>2 DEF HistoryInv, History
      <4>2. task'.outcome = "CANCELLED"
        BY <1>0, <3>2, <4>1, TaskMoves DEF BridgeResults
      <4> QED
        BY <3>2, <4>1, <4>2 DEF Guards, Real, Refunded
    <3> QED
      BY <1>3, <2>2, <3>1, <3>2 DEF Lookup
  <2>4. c = b /\ task'.step = "journal" => Stands(c, "CANCELLED")
    BY <2>2, <2>3 DEF Stands, Definite
  <2> QED
    BY <1>0, <1>e, <1>s, <2>1, <2>2, <2>3, <2>4 DEF History, Known, Real, Ended
<1>4. CASE AcquireLock
  <2>1. UNCHANGED <<order, journal, result, outbox, tx, card, wire>> /\ task'.cmd = task.cmd
    BY <1>4, <1>0, TaskMoves DEF AcquireLock, Steps, BridgeResults, Definite
  <2>2. task'.step = "begin" \/ (task'.step = "journal" /\ task'.outcome = "BUSY")
    BY <1>4, <1>0, TaskMoves DEF AcquireLock, Steps, BridgeResults, Definite
  <2>3. tx[task.cmd] = "none" /\ card[task.cmd] # "made" /\ task.cmd \in Commands
    BY <1>0, <1>4 DEF AcquireLock, TaskInv, CardInv
  <2>4. c = task.cmd => Stands(c, "BUSY") /\ order[c].type # "NONE"
    BY <1>0, <1>4, <2>3 DEF Stands, AcquireLock, TaskInv
  <2> QED
    BY <1>0, <1>e, <1>s, <2>1, <2>2, <2>4 DEF History, Known, Real, Ended
<1>5. CASE Begin
  <2>1. UNCHANGED <<order, journal, result, outbox, card, wire>> /\ task'.cmd = task.cmd /\ task'.step = "dispatch"
    BY <1>0, <1>5, TaskMoves DEF Begin, Steps
  <2>2. c # task.cmd => tx'[c] = tx[c]
    BY <1>0, <1>5 DEF Begin, BridgeTypeOK
  <2>3. c = task.cmd => tx'[c] = "PENDING" /\ journal[c] = "executing"
    BY <1>0, <1>5 DEF Begin, BridgeTypeOK, TaskInv, Steps
  <2> QED
    BY <1>0, <1>e, <1>s, <2>1, <2>2, <2>3 DEF History, Known, Real, Ended
<1>6. CASE Dispatch
  <2>1. UNCHANGED <<order, journal, result, outbox, tx, wire>> /\ task'.cmd = task.cmd /\ task'.step = "record"
    BY <1>0, <1>6, TaskMoves DEF Dispatch, Steps
  <2>2. c # task.cmd => card'[c] = card[c]
    BY <1>0, <1>6 DEF Dispatch, BridgeTypeOK
  <2>3. c = task.cmd => tx[c] = "PENDING" /\ journal[c] = "executing"
    BY <1>0, <1>6 DEF Dispatch, TaskInv, Steps
  <2> QED
    BY <1>0, <1>e, <1>s, <2>1, <2>2, <2>3 DEF History, Known, Real, Ended
<1>7. CASE Record
  <2>1. UNCHANGED <<order, journal, result, outbox, card, wire>> /\ task'.cmd = task.cmd /\ task'.step = "unlock"
    BY <1>0, <1>7 DEF Record, BridgeTypeOK
  <2>2. CASE c # task.cmd
    <3>1. tx'[c] = tx[c]
      BY <1>0, <1>7, <2>2 DEF Record, BridgeTypeOK
    <3> QED
      BY <1>0, <1>e, <1>s, <2>1, <2>2, <3>1 DEF History, Known, Real, Ended
  <2>3. CASE c = task.cmd
    <3>1. tx[c] = "PENDING" /\ journal[c] = "executing" /\ order[c].type # "NONE"
      BY <1>0, <1>7, <2>3 DEF Record, TaskInv, Steps
    <3>2. ASSUME NEW status \in Reports(c), tx' = [tx EXCEPT ![c] = status],
                 task' = [task EXCEPT !.step = "unlock", !.outcome = status]
          PROVE  Real(c)' /\ Stands(c, task.outcome)' /\ tx'[c] # "none"
      <4>1. tx'[c] = status /\ task'.outcome = status
        BY <1>0, <3>2 DEF BridgeTypeOK
      <4>2. /\ status = "APPROVED" => order[c].type = "PAY" /\ card[c] = "made"
            /\ status = "CANCELLED" => order[c].type = "CANCEL" /\ card[c] = "made"
            /\ card[c] = "made" => status \notin Definite \/ (LateDisconnect /\ status = "ERROR")
        BY <1>0, <3>1, <3>2, BridgeConstants DEF Reports, Definite, BridgeTypeOK, Orders
      <4>3. status \notin {"PENDING", "none"}
        BY <3>2, BridgeConstants DEF Reports, Definite
      <4>4. status = "CANCELLED" => Refunded(c)
        BY <4>2 DEF Refunded
      <4>5. Refunded(c) => Refunded(c)'
        BY <2>1 DEF Refunded
      <4> QED
        BY <2>1, <4>1, <4>2, <4>3, <4>4, <4>5 DEF Real, Stands
    <3>3. ASSUME task' = [task EXCEPT !.step = "unlock", !.outcome = "EXCEPTION"], UNCHANGED tx
          PROVE  Real(c)' /\ Stands(c, task.outcome)' /\ tx'[c] # "none"
      <4>1. task'.outcome = "EXCEPTION"
        BY <1>0, <3>3 DEF BridgeTypeOK
      <4>2. Stands(c, task.outcome)'
        BY <4>1 DEF Stands, Definite
      <4> QED
        BY <1>0, <2>1, <3>1, <3>3, <4>1, <4>2 DEF Real
    <3>4. Real(c)' /\ Stands(c, task.outcome)' /\ tx'[c] # "none"
      BY <1>7, <2>3, <3>2, <3>3 DEF Record
    <3> QED
      BY <1>0, <2>1, <2>3, <3>1, <3>4 DEF History, Known, Ended
  <2> QED
    BY <2>2, <2>3
<1>8. CASE Unlock
  <2>1. /\ UNCHANGED <<order, journal, result, outbox, tx, card, wire>>
        /\ task'.cmd = task.cmd /\ task'.step = "journal" /\ task'.outcome = task.outcome /\ task.step = "unlock"
    BY <1>0, <1>8, TaskMoves DEF Unlock, Steps
  <2>2. c = task.cmd => order[c].type # "NONE"
    BY <1>0, <2>1 DEF TaskInv
  <2> QED
    BY <1>0, <1>e, <1>s, <2>1, <2>2 DEF History, Known, Real, Ended
<1>9. CASE Journal
  <2>1. /\ UNCHANGED <<order, tx, card, wire>> /\ task'.cmd = task.cmd /\ task'.step = "ack"
        /\ task.step = "journal"
    BY <1>0, <1>9, TaskMoves DEF Journal, Steps
  <2>2. c # task.cmd => journal'[c] = journal[c] /\ result'[c] = result[c] /\ outbox'[c] = outbox[c]
    BY <1>0, <1>9 DEF Journal, BridgeTypeOK
  <2>3. c = task.cmd => Ended(c)' /\ result'[c] = task.outcome /\ order[c].type # "NONE"
    BY <1>0, <1>9 DEF Journal, BridgeTypeOK, TaskInv, Ended
  <2> QED
    BY <1>0, <1>e, <1>s, <2>1, <2>2, <2>3 DEF History, Known, Real, Ended
<1>10. CASE SendAck
  <2>1. UNCHANGED <<order, journal, result, outbox, tx, card, task>>
    BY <1>10 DEF SendAck
  <2>2. wire'.cmd = c => Ended(c)
    BY <1>0, <1>10 DEF SendAck, Known
  <2> QED
    BY <1>0, <1>e, <1>s, <1>t, <2>1, <2>2 DEF History, Known, Real, Ended
<1>11. ASSUME NEW resolution \in {"resolved", "pending"}, AckAnswered(resolution) PROVE History(c)'
  <2>1. UNCHANGED <<order, journal, result, tx, card>> /\ wire'.cmd = Free /\ (task' = task \/ task'.step = "idle")
    BY <1>11 DEF AckAnswered, NoWire, NoTask
  <2>2. outbox'[c] # "none" => outbox[c] # "none" \/ wire.cmd = c
    BY <1>0, <1>11 DEF AckAnswered, BridgeTypeOK
  <2>3. c # Free
    BY BridgeConstants DEF Free
  <2> QED
    BY <1>0, <1>e, <1>s, <1>t, <2>1, <2>2, <2>3 DEF History, Known, Real, Ended
<1>12. CASE Crash
  <2>1. UNCHANGED <<order, journal, result, outbox, tx, card>> /\ wire'.cmd = Free /\ task'.step = "idle"
    BY <1>12 DEF Crash, NoWire, NoTask
  <2>2. c # Free
    BY BridgeConstants DEF Free
  <2> QED
    BY <1>0, <1>e, <1>s, <2>1, <2>2 DEF History, Known, Real, Ended
<1>13. CASE CheckBegin \/ CheckEnd
  <2>1. UNCHANGED <<order, journal, result, outbox, tx, card, wire, task>>
    BY <1>13 DEF CheckBegin, CheckEnd
  <2> QED
    BY <1>0, <1>e, <1>s, <1>t, <2>1 DEF History, Known, Real, Ended
<1> QED
  BY <1>1, <1>2, <1>3, <1>4, <1>5, <1>6, <1>7, <1>8, <1>9, <1>10, <1>11, <1>12, <1>13
  DEF OpenNext, Moves, Work

----------------------------------------------------------------------------
(* Refunds *)

(* Where order and store stay and the task does not come nearer to the terminal,
   no refund gets company. *)
LEMMA RefundStands ==
    ASSUME RefundInv, UNCHANGED <<order, tx>>,
           task'.step \in {"lock", "begin", "dispatch"} =>
              task.step \in {"lock", "begin", "dispatch"} /\ task'.cmd = task.cmd
    PROVE  RefundInv'
BY DEF RefundInv, Alone, Guards

(* No step lets a second refund go on to the terminal. *)
LEMMA RefundKept == IInv /\ ~LateDisconnect /\ BridgeNext => RefundInv'
<1> SUFFICES ASSUME IInv, ~LateDisconnect, BridgeNext PROVE RefundInv'
  OBVIOUS
<1> USE DEF At, durable
<1>0. BridgeTypeOK /\ TaskInv /\ CardInv /\ RefundInv
  BY DEF IInv, BaseInv
<1>1. ASSUME NEW c \in Commands, NEW payload \in Payloads(c), Deliver(c, payload) PROVE RefundInv'
  <2>1. payload.type = "CANCEL" => payload.orig \in Commands /\ tx[payload.orig] = "APPROVED"
    BY <1>0 DEF Payloads, RefundInv
  <2>2. task'.step = "received"
    BY <1>1 DEF Deliver, NoTask
  <2> QED
    BY <1>0, <1>1, <2>1, <2>2 DEF Deliver, RefundInv, BridgeTypeOK
<1>2. CASE Lookup
  <2>1. UNCHANGED <<order, tx>>
    BY <1>2 DEF Lookup
  <2> QED
    BY <1>0, <1>2, <2>1, LookupEffect DEF BaseInv, RefundInv, Alone, Guards
<1>3. CASE Begin
  <2> DEFINE c == task.cmd
  <2>1. c \in Commands /\ tx[c] = "none" /\ Alone(c)
    BY <1>0, <1>3 DEF Begin, TaskInv, RefundInv
  <2>2. tx' = [tx EXCEPT ![c] = "PENDING"] /\ UNCHANGED order /\ task'.cmd = c
    BY <1>0, <1>3, TaskMoves DEF Begin, Steps
  <2>3. \A d \in Commands : d # c => tx'[d] = tx[d]
    BY <1>0, <2>2 DEF BridgeTypeOK
  <2>4. tx'[c] = "PENDING"
    BY <1>0, <2>1, <2>2 DEF BridgeTypeOK
  <2>5. \A e \in Commands : order[e].type = "CANCEL" =>
           order[e].orig \in Commands /\ order[e].orig # c /\ tx'[order[e].orig] = "APPROVED"
    BY <1>0, <2>1, <2>3 DEF RefundInv
  <2>6. Alone(c)'
    BY <2>1, <2>2, <2>3, <2>4, <2>5 DEF Alone, Guards
  <2> QED
    BY <2>2, <2>5, <2>6 DEF RefundInv
<1>4. CASE Record
  <2>1. task.cmd \in Commands /\ tx[task.cmd] = "PENDING" /\ UNCHANGED order
    BY <1>0, <1>4 DEF Record, TaskInv, Steps
  <2>2. \A d \in Commands : d # task.cmd => tx'[d] = tx[d]
    BY <1>0, <1>4 DEF Record, BridgeTypeOK
  <2>3. task'.step = "unlock"
    BY <1>0, <1>4 DEF Record, BridgeTypeOK
  <2> QED
    BY <1>0, <2>1, <2>2, <2>3 DEF RefundInv
<1>5. CASE Recognize
  BY <1>0, <1>5, RefundStands DEF Recognize, Go, BridgeTypeOK
<1>6. CASE AcquireLock
  BY <1>0, <1>6, RefundStands DEF AcquireLock, Go, Finish, BridgeTypeOK
<1>7. CASE Dispatch
  BY <1>0, <1>7, RefundStands DEF Dispatch, Go, BridgeTypeOK
<1>8. CASE Unlock \/ Journal
  BY <1>0, <1>8, RefundStands DEF Unlock, Journal, Go, BridgeTypeOK
<1>9. CASE CheckBegin \/ CheckEnd \/ SendAck
  BY <1>0, <1>9, RefundStands DEF CheckBegin, CheckEnd, SendAck
<1>10. ASSUME NEW resolution \in {"resolved", "pending"}, AckAnswered(resolution) PROVE RefundInv'
  BY <1>0, <1>10, RefundStands DEF AckAnswered, NoTask
<1>11. CASE Crash
  BY <1>0, <1>11, RefundStands DEF Crash, NoTask
<1> QED
  BY <1>1, <1>2, <1>3, <1>4, <1>5, <1>6, <1>7, <1>8, <1>9, <1>10, <1>11 DEF BridgeNext, Work

(* Only Dispatch touches a card, and the store has forbidden it beside another
   refund that may have been made. *)
LEMMA OnceKept == IInv /\ ~LateDisconnect /\ BridgeNext => RefundedOnce'
<1> SUFFICES ASSUME IInv, ~LateDisconnect, BridgeNext PROVE RefundedOnce'
  OBVIOUS
<1> USE DEF durable
<1>0. BridgeTypeOK /\ TaskInv /\ CardInv /\ RefundInv /\ SayInv /\ RefundedOnce
  BY DEF IInv, BaseInv
<1>1. ASSUME NEW c \in Commands, NEW payload \in Payloads(c), Deliver(c, payload) PROVE RefundedOnce'
  <2>1. \A e \in Commands : card[e] = "made" => order'[e] = order[e]
    <3>1. order[c].type # "NONE" => payload = order[c]
      BY DEF Payloads
    <3> QED
      BY <1>0, <1>1, <3>1 DEF Deliver, CardInv, BridgeTypeOK
  <2> QED
    BY <1>0, <1>1, <2>1 DEF Deliver, RefundedOnce
<1>2. CASE Dispatch
  <2> DEFINE c == task.cmd
  <2>1. c \in Commands /\ Alone(c) /\ UNCHANGED order
    BY <1>0, <1>2 DEF Dispatch, TaskInv, RefundInv, At
  <2>2. \A d \in Commands : d # c => card'[d] = card[d]
    BY <1>0, <1>2 DEF Dispatch, BridgeTypeOK
  <2>3. ASSUME NEW d \in Commands, d # c, order[c].type = "CANCEL", order[d].type = "CANCEL",
               order[d].orig = order[c].orig
        PROVE  card[d] # "made"
    <3>1. tx[order[c].orig] = "APPROVED"
      BY <1>0, <2>1, <2>3 DEF RefundInv
    <3>2. tx[d] \notin {"CANCELLED", "PENDING", "UNKNOWN"}
      BY <2>1, <2>3, <3>1 DEF Alone, Guards
    <3> QED
      BY <1>0, <2>3, <3>2 DEF SayInv, Says, MadeAs
  <2> QED
    BY <1>0, <2>1, <2>2, <2>3 DEF RefundedOnce
<1>3. CASE UNCHANGED <<order, card>>
  BY <1>0, <1>3 DEF RefundedOnce
<1>4. CASE Recognize \/ Lookup \/ AcquireLock \/ Begin \/ Record \/ Unlock \/ Journal
  BY <1>3, <1>4 DEF Recognize, Lookup, AcquireLock, Begin, Record, Unlock, Journal
<1>5. CASE SendAck \/ CheckBegin \/ CheckEnd \/ Crash
  BY <1>3, <1>5 DEF SendAck, CheckBegin, CheckEnd, Crash
<1>6. ASSUME NEW resolution \in {"resolved", "pending"}, AckAnswered(resolution) PROVE RefundedOnce'
  BY <1>3, <1>6 DEF AckAnswered
<1> QED
  BY <1>1, <1>2, <1>4, <1>5, <1>6 DEF BridgeNext, Work

----------------------------------------------------------------------------
(* What is said of money that moved *)

(* Whatever a step does, it says of one command what the invariant allows. *)
LEMMA SayKept == IInv /\ ~LateDisconnect /\ BridgeNext => SayInv'
<1> SUFFICES ASSUME IInv, ~LateDisconnect, BridgeNext, NEW c \in Commands PROVE Says(c)'
  BY DEF SayInv
<1> USE DEF At, durable, NoTask
<1>0. BridgeTypeOK /\ TaskInv /\ CardInv /\ Says(c)
  BY DEF IInv, BaseInv, SayInv
<1>1. ASSUME NEW e \in Commands, NEW payload \in Payloads(e), Deliver(e, payload) PROVE Says(c)'
  <2>1. card[c] = "made" => order'[c] = order[c]
    <3>1. order[e].type # "NONE" => payload = order[e]
      BY DEF Payloads
    <3> QED
      BY <1>0, <1>1, <3>1 DEF Deliver, CardInv, BridgeTypeOK
  <2> QED
    BY <1>0, <1>1, <2>1 DEF Deliver, Says, MadeAs
<1>2. CASE Recognize
  <2>1. task.cmd \in Commands
    BY <1>0, <1>2 DEF Recognize, TaskInv
  <2> QED
    BY <1>0, <1>2, <2>1 DEF Recognize, Go, Says, MadeAs, BridgeTypeOK, Definite
<1>3. CASE Lookup
  <2>1. UNCHANGED <<journal, result, card, order, tx>> /\ task.step = "lookup"
    BY <1>3 DEF Lookup
  <2>2. card[c] = "made" /\ c = task.cmd /\ task'.step = "journal" => task'.outcome = tx[c]
    BY <1>0, <1>3, LookupEffect DEF BaseInv, CardInv
  <2>3. card[c] = "made" => tx[c] \notin Definite
    BY <1>0 DEF Says, MadeAs, Definite
  <2> QED
    BY <1>0, <1>3, <2>1, <2>2, <2>3, LookupEffect DEF BaseInv, Says, MadeAs
<1>4. CASE AcquireLock
  <2>1. UNCHANGED <<journal, result, card, order, tx>> /\ task'.cmd = task.cmd
    BY <1>0, <1>4, TaskMoves DEF AcquireLock, Steps, BridgeResults, Definite
  <2>2. card[task.cmd] # "made"
    BY <1>0, <1>4 DEF AcquireLock, TaskInv, CardInv
  <2> QED
    BY <1>0, <2>1, <2>2 DEF Says, MadeAs
<1>5. CASE Begin
  <2>1. UNCHANGED <<journal, result, card, order>> /\ task'.step = "dispatch"
    BY <1>0, <1>5, TaskMoves DEF Begin, Steps
  <2>2. tx'[c] = tx[c] \/ tx'[c] = "PENDING"
    BY <1>0, <1>5 DEF Begin, BridgeTypeOK
  <2> QED
    BY <1>0, <2>1, <2>2 DEF Says, MadeAs
<1>6. CASE Dispatch
  <2>1. UNCHANGED <<journal, result, order, tx>> /\ task'.step = "record" /\ task'.cmd = task.cmd
    BY <1>0, <1>6, TaskMoves DEF Dispatch, Steps
  <2>2. c # task.cmd => card'[c] = card[c]
    BY <1>0, <1>6 DEF Dispatch, BridgeTypeOK
  <2>3. c = task.cmd => tx[c] = "PENDING" /\ journal[c] = "executing"
    BY <1>0, <1>6 DEF Dispatch, TaskInv, Steps
  <2> QED
    BY <1>0, <2>1, <2>2, <2>3 DEF Says, MadeAs, Definite
<1>7. CASE Record
  <2>1. UNCHANGED <<journal, result, card, order>> /\ task'.cmd = task.cmd
    BY <1>0, <1>7 DEF Record, BridgeTypeOK
  <2>2. CASE c # task.cmd
    <3>1. tx'[c] = tx[c]
      BY <1>0, <1>7, <2>2 DEF Record, BridgeTypeOK
    <3> QED
      BY <1>0, <2>1, <2>2, <3>1 DEF Says, MadeAs
  <2>3. CASE c = task.cmd /\ card[c] = "made"
    <3>1. Reports(c) \subseteq MadeAs(c) \ Definite
      BY <2>3 DEF Reports, MadeAs, Definite
    <3>2. tx[c] = "PENDING"
      BY <1>0, <1>7, <2>3 DEF Record, TaskInv
    <3>3. tx'[c] \in MadeAs(c) /\ task'.outcome \notin Definite
      <4>1. CASE \E status \in Reports(c) :
                   /\ tx' = [tx EXCEPT ![c] = status]
                   /\ task' = [task EXCEPT !.step = "unlock", !.outcome = status]
        BY <1>0, <3>1, <4>1 DEF BridgeTypeOK
      <4>2. CASE task' = [task EXCEPT !.step = "unlock", !.outcome = "EXCEPTION"] /\ UNCHANGED tx
        BY <1>0, <3>2, <4>2 DEF BridgeTypeOK, MadeAs, Definite
      <4> QED
        BY <1>7, <2>3, <4>1, <4>2 DEF Record
    <3> QED
      BY <1>0, <2>1, <2>3, <3>3 DEF Says, MadeAs
  <2>4. CASE card[c] # "made"
    BY <1>0, <2>1, <2>4 DEF Says
  <2> QED
    BY <2>2, <2>3, <2>4
<1>8. CASE Unlock
  <2>1. task'.cmd = task.cmd /\ task'.outcome = task.outcome /\ task.step = "unlock"
    BY <1>0, <1>8, TaskMoves DEF Unlock, Steps
  <2> QED
    BY <1>0, <1>8, <2>1 DEF Unlock, Says, MadeAs
<1>9. CASE Journal
  <2>1. task'.step = "ack" /\ task.step = "journal" /\ task.cmd \in Commands /\ UNCHANGED <<card, order, tx>>
    BY <1>0, <1>9, TaskMoves DEF Journal, Steps, TaskInv
  <2>2. c # task.cmd => journal'[c] = journal[c] /\ result'[c] = result[c]
    BY <1>0, <1>9 DEF Journal, BridgeTypeOK
  <2>3. c = task.cmd => journal'[c] \in {"completed", "failed"} /\ result'[c] = task.outcome
    BY <1>0, <1>9 DEF Journal, BridgeTypeOK
  <2> QED
    BY <1>0, <2>1, <2>2, <2>3 DEF Says, MadeAs
<1>10. CASE CheckBegin \/ CheckEnd \/ SendAck
  BY <1>0, <1>10 DEF CheckBegin, CheckEnd, SendAck, Says, MadeAs
<1>11. ASSUME NEW resolution \in {"resolved", "pending"}, AckAnswered(resolution) PROVE Says(c)'
  BY <1>0, <1>11 DEF AckAnswered, Says, MadeAs
<1>12. CASE Crash
  BY <1>0, <1>12 DEF Crash, Says, MadeAs, Definite
<1> QED
  BY <1>1, <1>2, <1>3, <1>4, <1>5, <1>6, <1>7, <1>8, <1>9, <1>10, <1>11, <1>12 DEF BridgeNext, Work

----------------------------------------------------------------------------
(* The invariant *)

(* The store is empty at first. *)
LEMMA InitInvariant == BridgeInit => IInv
<1> SUFFICES ASSUME BridgeInit PROVE IInv
  OBVIOUS
<1>1. BridgeTypeOK
  BY BridgeConstants DEF BridgeInit, BridgeTypeOK, Orders, NoTask, NoWire, Steps, BridgeResults, Free
<1>2. TaskInv /\ CardInv
  BY DEF BridgeInit, TaskInv, CardInv, NoTask, Steps
<1>3. RefundInv /\ SayInv /\ RefundedOnce
  BY DEF BridgeInit, RefundInv, SayInv, Says, RefundedOnce, NoTask, Definite
<1> QED
  BY <1>1, <1>2, <1>3 DEF IInv, BaseInv

(* Every step keeps the invariant. *)
LEMMA StepInvariant == IInv /\ [BridgeNext]_bridgeVars => IInv'
<1>1. IInv /\ BridgeNext => IInv'
  BY OpenEnough, BaseKept, RefundKept, SayKept, OnceKept DEF IInv
<1>2. IInv /\ UNCHANGED bridgeVars => IInv'
  <2> SUFFICES ASSUME IInv, UNCHANGED bridgeVars PROVE IInv'
    OBVIOUS
  <2>1. UNCHANGED <<order, journal, result, outbox, tx, lock, task, wire, card, runs, crashes>>
    BY DEF bridgeVars
  <2>2. BridgeTypeOK' /\ TaskInv' /\ CardInv'
    BY <2>1 DEF IInv, BaseInv, BridgeTypeOK, TaskInv, CardInv
  <2>3. ~LateDisconnect => RefundInv' /\ SayInv' /\ RefundedOnce'
    BY <2>1 DEF IInv, RefundInv, Alone, Guards, SayInv, Says, MadeAs, RefundedOnce
  <2> QED
    BY <2>2, <2>3 DEF IInv, BaseInv
<1> QED
  BY <1>1, <1>2

(* The inductive invariant holds in every state. *)
THEOREM BridgeInvariant == BridgeSpec => []IInv
BY InitInvariant, StepInvariant, PTL DEF BridgeSpec

(* The bridge's store, journal and task keep their types, whatever the cloud
   delivers (bridge-state.json, transaction_store.py). *)
THEOREM BridgeTypeCorrect == BridgeSpec => []BridgeTypeOK
<1>1. IInv => BridgeTypeOK
  BY DEF IInv, BaseInv
<1> QED
  BY <1>1, BridgeInvariant, PTL

(* What the vendor module has executed is counted by the state of the card. *)
LEMMA CardRuns == IInv => RunsAtMostOnce
<1> SUFFICES ASSUME IInv, NEW c \in Commands PROVE runs[c] <= 1
  BY DEF RunsAtMostOnce
<1>1. CardInv
  BY DEF IInv, BaseInv
<1>2. runs[c] = 0 \/ runs[c] = 1
  BY <1>1 DEF CardInv
<1> QED
  BY <1>2

(* The vendor module executes a transaction at most once, also when an OSError
   may follow a charge (client.py, lookup before the dispatch). *)
THEOREM RunsOnce == BridgeSpec => []RunsAtMostOnce
  BY CardRuns, BridgeInvariant, PTL

(* Money is taken once and given back once, for any number of commands,
   deliveries and restarts, with or without the journal; the vendor module is
   taken to raise no OSError after it moved money (client.py:334). *)
THEOREM MoneyMovesOnce == ASSUME ~LateDisconnect PROVE BridgeSpec => []MovedOnce
<1>1. IInv => MovedOnce
  BY CardRuns DEF IInv, MovedOnce
<1> QED
  BY <1>1, BridgeInvariant, PTL

(* Under the same assumption no transaction that was made is reported as a
   definite failure, by the store or by the journal. *)
THEOREM MadeStaysTrue == ASSUME ~LateDisconnect PROVE BridgeSpec => []MadeNeverDenied
<1>1. IInv => MadeNeverDenied
  BY DEF IInv, SayInv, Says, MadeAs, Definite, MadeNeverDenied
<1> QED
  BY <1>1, BridgeInvariant, PTL

=============================================================================
