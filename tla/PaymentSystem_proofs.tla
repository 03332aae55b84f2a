------------------------- MODULE PaymentSystem_proofs -------------------------
(***************************************************************************)
(* Theorems of PaymentSystem: it is a CloudPayments whose ACKs come from    *)
(* the bridge, and a row of the ledger says what the terminal has done.     *)
(***************************************************************************)
EXTENDS PaymentSystem, CloudPayments_proofs

BP == INSTANCE StoreBridge_proofs WITH Commands <- Ids, JournalLoss <- FALSE

(* The bridge was given what the row says, after its command was queued. *)
Ordered(c) == order[c].type # "NONE" => order[c] = Payload(c) /\ command[c] # "none"

(* A row without a command has not been at the terminal. *)
Unqueued(c) ==
    command[c] = "none" =>
        \/ attempt[c].type # "CANCEL" /\ attempt[c].status \in {"PENDING", "USER_CANCELLED", "COMPLETED"}
        \/ attempt[c].type = "CANCEL" /\ attempt[c].status = "CANCELLED" /\ attempt[c].method # "card"

(* What the ledger makes of the result in the journal: it shows it, a new plan
   has superseded its failure, or the operator has found the approval. *)
Shows(c) ==
    LET status == AppliedStatus(attempt[c].type, result[c])
    IN  \/ attempt[c].status = status
        \/ /\ attempt[c].type = "PAY" /\ attempt[c].status = "USER_CANCELLED"
           /\ status \in {"DECLINED", "USER_CANCELLED", "ERROR"}
        \/ /\ attempt[c].type = "PAY" /\ attempt[c].status = "APPROVED"
           /\ status = "UNKNOWN" /\ card[c] = "made"

(* A queued row is in flight until the result of its command is known. *)
Told(c) == command[c] # "none" => attempt[c].status = "PROCESSING" \/ (BP!Ended(c) /\ Shows(c))

RowInv ==
    \A c \in Ids : attempt[c].orig \in Ids \cup {0} /\ Ordered(c) /\ Unqueued(c) /\ Told(c)

(* A request applies the result in the journal, and reconciles what was made. *)
Carries(w) ==
    /\ Applying(w) =>
          /\ BP!Ended(req[w].target)
          /\ req[w].status = AppliedStatus(attempt[req[w].target].type, result[req[w].target])
    /\ req[w].pc = "reconcile" => card[req[w].target] = "made"

SysInv ==
    /\ IInv /\ BP!BaseInv /\ BP!HistoryInv
    /\ RowInv
    /\ \A w \in Workers : Carries(w)

----------------------------------------------------------------------------
(* The bridge as it is built in *)

(* The constants of the bridge are what its module assumes. *)
LEMMA BridgeGiven ==
    /\ Ids \subseteq Nat \ {0}
    /\ Refusals \subseteq BP!Definite \cup {"UNKNOWN"}
    /\ MaxCrashes \in Nat
    /\ FALSE \in BOOLEAN
    /\ LateDisconnect \in BOOLEAN
BY ConstantsAssumption, SystemConstants DEF Ids, BP!Definite, Bridge!Definite

(* The bridge of the system is the one the theorems are about. *)
LEMMA SameBridge ==
    /\ Bridge!BridgeInit => BP!BridgeInit
    /\ Bridge!Work \/ Bridge!CheckBegin \/ Bridge!CheckEnd \/ Bridge!Crash => BP!Moves
    /\ \A resolution \in {"resolved", "pending"} :
          Bridge!AckAnswered(resolution) => BP!Moves /\ UNCHANGED <<order, card>>
    /\ \A c \in Ids : \A payload : Bridge!Deliver(c, payload) => BP!Deliver(c, payload)
<1> USE DEF Bridge!At, BP!At, Bridge!Go, BP!Go, Bridge!Finish, BP!Finish, Bridge!durable, BP!durable,
            Bridge!NoTask, BP!NoTask, Bridge!NoWire, BP!NoWire, Bridge!Free, BP!Free
<1>1. Bridge!BridgeInit => BP!BridgeInit
  BY DEF Bridge!BridgeInit, BP!BridgeInit
<1>2. Bridge!Recognize => BP!Recognize
  BY DEF Bridge!Recognize, BP!Recognize
<1>3. Bridge!Lookup => BP!Lookup
  BY DEF Bridge!Lookup, BP!Lookup, Bridge!Guards, BP!Guards
<1>4. (Bridge!AcquireLock => BP!AcquireLock) /\ (Bridge!Begin => BP!Begin)
  BY DEF Bridge!AcquireLock, BP!AcquireLock, Bridge!Begin, BP!Begin
<1>5. (Bridge!Dispatch => BP!Dispatch) /\ (Bridge!Unlock => BP!Unlock)
  BY DEF Bridge!Dispatch, BP!Dispatch, Bridge!Unlock, BP!Unlock
<1>6. Bridge!Record => BP!Record
  BY DEF Bridge!Record, BP!Record, Bridge!Reports, BP!Reports
<1>7. (Bridge!Journal => BP!Journal) /\ (Bridge!SendAck => BP!SendAck)
  BY DEF Bridge!Journal, BP!Journal, Bridge!SendAck, BP!SendAck
<1>8. Bridge!Work => BP!Work
  BY <1>2, <1>3, <1>4, <1>5, <1>6, <1>7 DEF Bridge!Work, BP!Work
<1>9. Bridge!CheckBegin \/ Bridge!CheckEnd => BP!CheckBegin \/ BP!CheckEnd
  BY DEF Bridge!CheckBegin, Bridge!CheckEnd, BP!CheckBegin, BP!CheckEnd, Bridge!StatusCheck, BP!StatusCheck
<1>10. Bridge!Crash => BP!Crash
  BY DEF Bridge!Crash, BP!Crash
<1>11. \A resolution : Bridge!AckAnswered(resolution) => BP!AckAnswered(resolution) /\ UNCHANGED <<order, card>>
  BY DEF Bridge!AckAnswered, BP!AckAnswered
<1>12. \A c, payload : Bridge!Deliver(c, payload) => BP!Deliver(c, payload)
  BY DEF Bridge!Deliver, BP!Deliver
<1> QED
  BY <1>1, <1>8, <1>9, <1>10, <1>11, <1>12 DEF BP!Moves

(* A command goes to the bridge when it is queued, with the payload of its row;
   everything else of the bridge is its own. *)
Delivery(c) ==
    /\ command[c] = "pending" /\ UNCHANGED attempt
    /\ order' = [order EXCEPT ![c] = Payload(c)]
    /\ BP!Deliver(c, Payload(c))

(* A step of the system leaves the bridge alone, is its own, or delivers. *)
LEMMA BridgeStep ==
    ASSUME SystemNext
    PROVE  \/ UNCHANGED bridge
           \/ BP!Moves
           \/ \E c \in Ids : Delivery(c)
<1>1. ASSUME NEW c \in Ids, Poll(c)
      PROVE  Delivery(c)
  BY <1>1, SameBridge DEF Poll, Claim, Delivery, BP!Deliver
<1>2. CASE BridgeWork \/ BridgeCrash
  BY <1>2, SameBridge DEF BridgeWork, BridgeCrash
<1>3. CASE AckAgain \/ AckLost
  BY <1>3, SameBridge DEF AckAgain, AckLost
<1>4. ASSUME NEW w \in AckWorkers, NEW resolution \in {"resolved", "pending"}, AckEnd(w, resolution)
      PROVE  UNCHANGED bridge \/ BP!Moves
  BY <1>4, SameBridge DEF AckEnd
<1>5. ASSUME NEW w \in AckWorkers, AckFirst(w)
      PROVE  UNCHANGED bridge
  BY <1>5 DEF AckFirst
<1>6. ASSUME NEW w \in Workers, Request(w) \/ Serve(w)
      PROVE  UNCHANGED bridge
  BY <1>6 DEF Request, Serve
<1>7. ASSUME NEW c \in Ids, PollLost(c) \/ GiveBack(c) \/ Lapse(c)
      PROVE  UNCHANGED bridge
  BY <1>7 DEF PollLost, GiveBack, Lapse
<1> QED
  BY <1>1, <1>2, <1>3, <1>4, <1>5, <1>6, <1>7 DEF SystemNext, Ack, Workers

----------------------------------------------------------------------------
(* The cloud as it is built in *)

(* The result of an ACK is one of those a bridge may report. *)
LEMMA AckedResult ==
    ASSUME SysInv, wire.cmd \in Ids
    PROVE  BP!Ended(wire.cmd) /\ result[wire.cmd] \in AllResults
<1>1. BP!Ended(wire.cmd) /\ BP!Stands(wire.cmd, result[wire.cmd])
  BY DEF SysInv, BP!HistoryInv, BP!History, BP!Known
<1>2. result[wire.cmd] \in BP!BridgeResults
  BY DEF SysInv, BP!BaseInv, BP!BridgeTypeOK
<1> QED
  BY <1>1, <1>2 DEF BP!Stands, BP!BridgeResults, BP!Definite, AllResults

(* Every step of the system is a step of the cloud, or leaves it alone. *)
LEMMA CloudStep ==
    ASSUME SysInv, SystemNext, Results = AllResults
    PROVE  Next \/ UNCHANGED vars
<1>1. ASSUME NEW w \in ApiWorkers, Request(w)
      PROVE  Next
  BY <1>1 DEF Request, Next
<1>2. ASSUME NEW w \in Workers, Serve(w)
      PROVE  Next
  BY <1>2 DEF Serve, Next
<1>3. ASSUME NEW c \in Ids, Poll(c) \/ PollLost(c) \/ GiveBack(c) \/ Lapse(c)
      PROVE  Next
  BY <1>3 DEF Poll, PollLost, GiveBack, Lapse, Next, Queue
<1>4. CASE BridgeWork \/ BridgeCrash \/ AckAgain \/ AckLost
  BY <1>4 DEF BridgeWork, BridgeCrash, AckAgain, AckLost, cloud
<1>5. ASSUME NEW w \in AckWorkers, AckFirst(w)
      PROVE  Next
  BY <1>5, AckedResult DEF AckFirst, Next
<1>6. ASSUME NEW w \in AckWorkers, NEW resolution \in {"resolved", "pending"}, AckEnd(w, resolution)
      PROVE  Next
  BY <1>6 DEF AckEnd, Next, Workers
<1> QED
  BY <1>1, <1>2, <1>3, <1>4, <1>5, <1>6 DEF SystemNext, Ack

----------------------------------------------------------------------------
(* The bridge keeps its invariant *)

(* A row whose command is open, or whose outcome is unknown, holds the terminal. *)
LEMMA OpenHolds ==
    ASSUME SysInv, NEW c \in Ids, order[c].type # "NONE",
           ~BP!Ended(c) \/ AppliedStatus(attempt[c].type, result[c]) = "UNKNOWN"
    PROVE  attempt[c].active \/ (attempt[c].type = "PAY" /\ attempt[c].status = "APPROVED")
<1>1. Ordered(c) /\ Told(c) /\ RowHold(c)
  BY DEF SysInv, RowInv, IInv, HoldInv
<1> QED
  BY <1>1 DEF Ordered, Told, Shows, RowHold

(* What the bridge was given is what the row says. *)
LEMMA SameOrder ==
    ASSUME SysInv, NEW c \in Ids, order[c].type # "NONE"
    PROVE  order[c].type = attempt[c].type /\ order[c].orig = attempt[c].orig
<1>1. order[c] = Payload(c)
  BY DEF SysInv, RowInv, Ordered
<1>2. Payload(c).type = attempt[c].type /\ Payload(c).orig = attempt[c].orig
  BY DEF Payload
<1> QED
  BY <1>1, <1>2

(* While a refund is looked up no other refund of its approval is open, for that
   one would hold the terminal beside it. *)
LEMMA NoOpenRefund ==
    ASSUME SysInv, NEW d \in Ids, BP!At("lookup"), BP!Guards(d, task.cmd)
    PROVE  tx[d] = "CANCELLED"
<1> DEFINE c == task.cmd
<1>1. c \in Ids /\ order[c].type = "CANCEL" /\ journal[c] = "executing"
  BY DEF SysInv, BP!BaseInv, BP!TaskInv, BP!At, BP!Guards, BP!Steps
<1>2. tx[c] = "none"
  BY <1>1 DEF SysInv, BP!HistoryInv, BP!History, BP!Known
<1>3. attempt[c].active
  <2>1. attempt[c].type = "CANCEL"
    BY <1>1, SameOrder
  <2> QED
    BY <1>1, <2>1, OpenHolds DEF BP!Ended
<1>4. SUFFICES ASSUME tx[d] \in {"PENDING", "UNKNOWN"} PROVE FALSE
  BY DEF BP!Guards
<1>5. order[d].type = "CANCEL" /\ BP!History(d)
  BY DEF SysInv, BP!HistoryInv, BP!Guards
<1>6. attempt[d].type = "CANCEL"
  BY <1>5, SameOrder
<1>7. BP!Ended(d) => AppliedStatus(attempt[d].type, result[d]) = "UNKNOWN"
  BY <1>4, <1>5, <1>6 DEF BP!History, BP!Stands, AppliedStatus
<1>8. attempt[d].active
  BY <1>5, <1>6, <1>7, OpenHolds
<1> QED
  BY <1>1, <1>2, <1>3, <1>4, <1>8 DEF SysInv, IInv, HoldInv

(* What the bridge forgets, and what it is given, in any step of the system *)
LEMMA BridgeKept ==
    ASSUME SysInv, SystemNext
    PROVE  /\ BP!BaseInv' /\ BP!HistoryInv'
           /\ \A c \in Ids :
                 /\ card[c] = "made" => card'[c] = "made"
                 /\ BP!Ended(c) => BP!Ended(c)' /\ result'[c] = result[c]
                 /\ \/ order'[c] = order[c]
                    \/ /\ order[c].type = "NONE" /\ order'[c] = Payload(c)
                       /\ command[c] = "pending" /\ UNCHANGED attempt
<1>1. CASE UNCHANGED bridge
  <2>1. UNCHANGED <<order, journal, result, outbox, tx, lock, task, wire, card, runs, crashes>>
    BY <1>1 DEF bridge
  <2>2. BP!BaseInv'
    BY <2>1 DEF SysInv, BP!BaseInv, BP!BridgeTypeOK, BP!TaskInv, BP!CardInv
  <2>3. BP!HistoryInv'
    BY <2>1 DEF SysInv, BP!HistoryInv, BP!History, BP!Known, BP!Real, BP!Stands, BP!Refunded, BP!Ended, BP!At
  <2> QED
    BY <2>1, <2>2, <2>3 DEF BP!Ended
<1>2. ASSUME BP!OpenNext
      PROVE  /\ BP!BaseInv' /\ BP!HistoryInv'
             /\ \A c \in Ids :
                   /\ card[c] = "made" => card'[c] = "made"
                   /\ BP!Ended(c) => BP!Ended(c)' /\ result'[c] = result[c]
                   /\ order[c].type # "NONE" => order'[c] = order[c]
  <2>1. BP!BaseInv /\ BP!HistoryInv
    BY DEF SysInv
  <2>2. BP!BaseInv'
    BY <1>2, <2>1, BridgeGiven, BP!BaseKept
  <2>3. BP!HistoryInv'
    BY <1>2, <2>1, BridgeGiven, NoOpenRefund, BP!HistoryKept
  <2>4. \A c \in Ids :
           /\ order[c].type # "NONE" => order'[c] = order[c]
           /\ card[c] = "made" => card'[c] = "made"
           /\ BP!Ended(c) => journal'[c] = journal[c] /\ result'[c] = result[c]
    BY <1>2, <2>1, BridgeGiven, BP!Lasting
  <2> QED
    BY <2>2, <2>3, <2>4 DEF BP!Ended
<1>3. CASE BP!Moves
  <2>1. UNCHANGED order
    BY <1>3 DEF BP!Moves, BP!Work, BP!Recognize, BP!Lookup, BP!AcquireLock, BP!Begin, BP!Dispatch, BP!Record,
       BP!Unlock, BP!Journal, BP!SendAck, BP!CheckBegin, BP!CheckEnd, BP!Crash, BP!AckAnswered, BP!durable
  <2> QED
    BY <1>2, <1>3, <2>1 DEF BP!OpenNext
<1>4. ASSUME NEW e \in Ids, Delivery(e)
      PROVE  BP!OpenNext /\ \A c \in Ids : order'[c] = order[c] \/ (c = e /\ order'[c] = Payload(c))
  <2>1. /\ attempt[e].type \in {"PAY", "CANCEL"}
        /\ attempt[e].orig \in Ids \cup {0}
        /\ order[e].type # "NONE" => order[e] = Payload(e)
    BY <1>4 DEF Delivery, SysInv, RowInv, Ordered, IInv, TypeOK, AttemptRows, HoldInv, RowHold
  <2>2. Payload(e) \in BP!Orders /\ Payload(e).type # "NONE"
    BY <2>1 DEF Payload, BP!Orders, BP!Free
  <2>3. BP!Delivers(e, Payload(e))
    BY <1>4, <2>1, <2>2 DEF Delivery, BP!Delivers
  <2>4. order \in [Ids -> BP!Orders]
    BY DEF SysInv, BP!BaseInv, BP!BridgeTypeOK
  <2> QED
    BY <1>4, <2>2, <2>3, <2>4 DEF BP!OpenNext, Delivery
<1> QED
  BY <1>1, <1>2, <1>3, <1>4, BridgeStep DEF Delivery

----------------------------------------------------------------------------
(* The requests *)

(* What a request in service carries on: it neither takes up a result nor a
   reconciliation. *)
CarriesOn(w) ==
    /\ req'[w].pc # "reconcile"
    /\ Applying(w)' => Applying(w) /\ req'[w].target = req[w].target /\ req'[w].status = req[w].status

(* A request that goes to any other place takes up nothing. *)
LEMMA PlaceCarries ==
    ASSUME TypeOK, NEW w \in Workers, NEW r,
           req' = [req EXCEPT ![w] = r], r.pc \notin {"ack_read", "ack_write", "reconcile"}
    PROVE  CarriesOn(w)
BY DEF TypeOK, CarriesOn, Applying

(* Ending, returning and starting a SYNC take up nothing. *)
LEMMA GoesOn ==
    ASSUME TypeOK, NEW w \in Workers,
           \/ Throw(w) \/ Return(w)
           \/ \E after \in Continuations : Sync(w, after)
           \/ \E pc \in Steps \ {"ack_read", "ack_write", "reconcile"} : Goto(w, pc)
    PROVE  CarriesOn(w)
<1>0. req \in [Workers -> Requests] /\ req[w] \in Requests
  BY DEF TypeOK
<1>1. CASE Throw(w)
  BY <1>1, PlaceCarries DEF Throw, Idle
<1>2. CASE Return(w)
  BY <1>0, <1>2 DEF Return, CarriesOn, Applying, Idle, Requests
<1>3. ASSUME NEW after \in Continuations, Sync(w, after) PROVE CarriesOn(w)
  BY <1>0, <1>3 DEF Sync, CarriesOn, Applying, Requests
<1>4. ASSUME NEW pc \in Steps \ {"ack_read", "ack_write", "reconcile"}, Goto(w, pc) PROVE CarriesOn(w)
  BY <1>0, <1>4 DEF Goto, CarriesOn, Applying, Requests
<1> QED
  BY <1>1, <1>2, <1>3, <1>4

(* No step of a request in service takes up a result or a reconciliation. *)
LEMMA ServiceCarries ==
    ASSUME TypeOK, NEW w \in Workers, RequestStep(w) \/ Respond(w) \/ Abort(w)
    PROVE  CarriesOn(w)
<1>0. req \in [Workers -> Requests] /\ req[w] \in Requests
  BY DEF TypeOK
<1> USE DEF Steps, Continuations
<1>1. CASE Respond(w) \/ Abort(w) \/ ExecuteCard(w) \/ ChangeWrite(w) \/ FullFlag(w) \/ AckResume(w)
  BY <1>1, GoesOn DEF Respond, Abort, ExecuteCard, ChangeWrite, FullFlag, AckResume
<1>2. CASE ExecuteCheck(w) \/ ExecuteManual(w) \/ CancelCheck(w) \/ CancelInsert(w)
  BY <1>2, GoesOn DEF ExecuteCheck, ExecuteManual, CancelCheck, CancelInsert
<1>3. CASE FullFinish(w) \/ ReconcileWrite(w) \/ AckWrite(w) \/ PrepareWrite(w)
  BY <1>3, GoesOn DEF FullFinish, ReconcileWrite, AckWrite, PrepareWrite
<1>4. CASE PrepareNumber(w) \/ RetryNumber(w)
  <2>1. ASSUME NEW n, NEW pc \in {"plan_write", "retry_insert"}, req' = [req EXCEPT ![w].number = n, ![w].pc = pc]
        PROVE  CarriesOn(w)
    <3>1. req' = [req EXCEPT ![w] = [req[w] EXCEPT !.number = n, !.pc = pc]]
      BY <2>1
    <3>2. [req[w] EXCEPT !.number = n, !.pc = pc].pc = pc
      BY <1>0 DEF Requests
    <3> QED
      BY <3>1, <3>2, PlaceCarries
  <2>2. CASE PrepareNumber(w)
    BY <2>1, <2>2 DEF PrepareNumber
  <2>3. CASE RetryNumber(w)
    BY <2>1, <2>3 DEF RetryNumber
  <2> QED
    BY <1>4, <2>2, <2>3
<1>5. CASE PrepareReadback(w)
  BY <1>0, <1>5, GoesOn DEF PrepareReadback, CarriesOn, Applying, Requests
<1>6. CASE RetryInsert(w)
  <2>1. ASSUME NEW f, req' = [req EXCEPT ![w].target = f, ![w].pc = "check"] PROVE CarriesOn(w)
    <3>1. req' = [req EXCEPT ![w] = [req[w] EXCEPT !.target = f, !.pc = "check"]]
      BY <2>1
    <3>2. [req[w] EXCEPT !.target = f, !.pc = "check"].pc = "check"
      BY <1>0 DEF Requests
    <3> QED
      BY <3>1, <3>2, PlaceCarries
  <2> QED
    BY <1>6, <2>1, GoesOn DEF RetryInsert
<1>7. CASE Advance(w)
  <2>1. ASSUME NEW a, req' = [req EXCEPT ![w].target = a, ![w].key = NoKey, ![w].pc = "cancel_check"]
        PROVE  CarriesOn(w)
    <3> DEFINE next == [req[w] EXCEPT !.target = a, !.key = NoKey, !.pc = "cancel_check"]
    <3>1. req' = [req EXCEPT ![w] = next]
      BY <2>1
    <3>2. next.pc = "cancel_check"
      BY <1>0 DEF Requests
    <3> HIDE DEF next
    <3> QED
      BY <3>1, <3>2, PlaceCarries
  <2>2. CASE Goto(w, "full_finish")
    BY <2>2, GoesOn
  <2> QED
    BY <1>7, <2>1, <2>2, GoesOn DEF Advance
<1>8. CASE AckRead(w)
  BY <1>0, <1>8 DEF AckRead, CarriesOn, Applying, Requests, At
<1>9. CASE SyncRead(w)
  BY <1>0, <1>9 DEF SyncRead, CarriesOn, Applying, Requests
<1>10. CASE SyncWrite(w)
  BY <1>0, <1>10 DEF SyncWrite, CarriesOn, Applying, Requests, Idle
<1> QED
  BY <1>1, <1>2, <1>3, <1>4, <1>5, <1>6, <1>7, <1>8, <1>9, <1>10 DEF RequestStep

(* A request of the screens takes up a reconciliation only under that name. *)
LEMMA RequestOpens ==
    ASSUME TypeOK, NEW w \in ApiWorkers, ApiRequest(w)
    PROVE  ~Applying(w)' /\ (req'[w].pc = "reconcile" => req'[w].op = "reconcile")
<1>0. req \in [Workers -> Requests] /\ w \in Workers
  BY DEF TypeOK, Workers
<1> USE <1>0 DEF Applying, Idle
<1>1. ASSUME NEW p, NEW plan, PrepareRead(w, p, plan) PROVE req'[w].pc = "plan_number"
  BY <1>1 DEF PrepareRead
<1>2. ASSUME NEW p, NEW a, NEW k, ProcessRead(w, p, a, k) \/ StartPrepared(w, p, a, k) PROVE req'[w].pc = "check"
  BY <1>2 DEF ProcessRead, StartPrepared
<1>3. ASSUME NEW p, NEW a, NEW k, CancelRead(w, p, a, k) PROVE req'[w].pc = "cancel_check"
  BY <1>3 DEF CancelRead
<1>4. ASSUME NEW op, NEW p, NEW a, NEW k, NEW m, RetryRead(w, op, p, a, k, m) PROVE req'[w].pc = "retry_number"
  BY <1>4 DEF RetryRead
<1>5. ASSUME NEW p, NEW a, ReconcileRead(w, p, a) PROVE req'[w].pc = "reconcile" /\ req'[w].op = "reconcile"
  BY <1>5 DEF ReconcileRead
<1>6. ASSUME NEW p, NEW a, NEW m, ChangeRead(w, p, a, m) PROVE req'[w].pc = "change"
  BY <1>6 DEF ChangeRead
<1>7. ASSUME NEW p, FullRead(w, p) PROVE req'[w].pc = "full_flag"
  BY <1>7 DEF FullRead
<1>8. req'[w].pc \in {"plan_number", "check", "cancel_check", "retry_number", "change", "full_flag"} \/
      (req'[w].pc = "reconcile" /\ req'[w].op = "reconcile")
  BY <1>1, <1>2, <1>3, <1>4, <1>5, <1>6, <1>7 DEF ApiRequest
<1> QED
  BY <1>8

(* A request that carries on, or is left alone, carries what the journal says. *)
LEMMA CarriesStill ==
    ASSUME SysInv, SystemNext, Effect, NEW w \in Workers,
           \/ req'[w] = req[w]
           \/ CarriesOn(w)
    PROVE  Carries(w)'
<1>1. /\ Applying(w)' => Applying(w) /\ req'[w].target = req[w].target /\ req'[w].status = req[w].status
      /\ req'[w].pc = "reconcile" => req[w].pc = "reconcile" /\ req'[w].target = req[w].target
  BY DEF CarriesOn, Applying
<1>2. Carries(w) /\ IInv
  BY DEF SysInv
<1>3. ASSUME Applying(w)'
      PROVE  /\ journal'[req'[w].target] \in {"completed", "failed"}
             /\ req'[w].status = AppliedStatus(attempt'[req'[w].target].type, result'[req'[w].target])
  <2>0. PICK a \in Ids : a = req[w].target
    BY <1>1, <1>2, <1>3 DEF IInv, AckInv, Answering
  <2>1. Applying(w) /\ attempt[a].type # "NONE"
    BY <1>1, <1>2, <1>3, <2>0 DEF IInv, AckInv, Answering, HoldInv, RowHold
  <2>2. attempt'[a].type = attempt[a].type
    BY <1>2, <2>1, RowsPersist DEF Keeps
  <2>3. BP!Ended(a) /\ req[w].status = AppliedStatus(attempt[a].type, result[a])
    BY <1>2, <2>0, <2>1 DEF Carries
  <2>4. journal'[a] \in {"completed", "failed"} /\ result'[a] = result[a]
    BY <2>3, BridgeKept DEF BP!Ended
  <2>5. req'[w].target = a /\ req'[w].status = req[w].status
    BY <1>1, <1>3, <2>0
  <2> QED
    BY <2>2, <2>3, <2>4, <2>5
<1>4. ASSUME req'[w].pc = "reconcile"
      PROVE  card'[req'[w].target] = "made"
  <2>1. req[w].target \in Ids /\ card[req[w].target] = "made"
    BY <1>1, <1>2, <1>4 DEF IInv, TargetInv, TargetOk, Carries
  <2> QED
    BY <1>1, <1>4, <2>1, BridgeKept
<1> QED
  BY <1>3, <1>4 DEF Carries, BP!Ended

(* Whatever a step does, a request carries what the journal says. *)
LEMMA CarriesKept ==
    ASSUME SysInv, SystemNext, Results = AllResults, Effect, NEW w \in Workers
    PROVE  Carries(w)'
<1>0. IInv /\ TypeOK
  BY DEF SysInv, IInv
<1>1. ASSUME NEW v \in ApiWorkers, Request(v)
      PROVE  Carries(w)'
  <2>1. v \in Workers /\ Others(v)
    BY <1>0, <1>1, ApiRequestStep DEF Request, StepOf, Workers
  <2>2. w # v => req'[w] = req[w]
    BY <2>1 DEF Others
  <2>3. ~Applying(v)' /\ (req'[v].pc = "reconcile" => card'[req'[v].target] = "made")
    BY <1>0, <1>1, RequestOpens DEF Request, bridge
  <2> QED
    BY <2>2, <2>3, CarriesStill DEF Carries
<1>2. ASSUME NEW v \in Workers, RequestStep(v) \/ Respond(v) \/ Abort(v)
      PROVE  Carries(w)'
  <2>1. Others(v) /\ CarriesOn(v)
    BY <1>0, <1>2, RequestSteps, ServiceCarries DEF StepOf
  <2> QED
    BY <2>1, CarriesStill DEF Others
<1>3. ASSUME NEW v \in AckWorkers, AckFirst(v)
      PROVE  Carries(w)'
  <2> DEFINE c == wire.cmd
  <2>1. c \in Ids /\ BP!Ended(c) /\ result[c] \in Results /\ AckFinalize(v, c, result[c]) /\ UNCHANGED bridge
    BY <1>3, AckedResult DEF AckFirst
  <2>2. v \in Workers /\ Others(v)
    BY <1>0, <2>1, AckFinalizeStep DEF StepOf, Workers
  <2>3. w # v => req'[w] = req[w]
    BY <2>2 DEF Others
  <2> DEFINE status == AppliedStatus(attempt[c].type, result[c])
             next == [Idle EXCEPT !.op = "ack", !.pc = "ack_read", !.payment = attempt[c].payment,
                                  !.target = c, !.status = status]
  <2>4. req'[v] = next /\ UNCHANGED attempt
    BY <1>0, <2>1, <2>2 DEF AckFinalize, TypeOK
  <2>5. next.pc = "ack_read" /\ next.target = c /\ next.status = status
    <3> HIDE DEF status
    <3> QED BY DEF Idle
  <2> HIDE DEF next
  <2>6. journal'[c] \in {"completed", "failed"} /\ UNCHANGED result
    BY <2>1 DEF bridge, BP!Ended
  <2>7. Carries(v)'
    BY <2>4, <2>5, <2>6 DEF Carries, BP!Ended
  <2> QED
    BY <2>3, <2>7, CarriesStill
<1>4. CASE UNCHANGED req
  BY <1>4, CarriesStill
<1>5. ASSUME NEW c \in Ids, Poll(c) \/ PollLost(c) \/ GiveBack(c) \/ Lapse(c)
      PROVE  UNCHANGED req
  BY <1>5 DEF Poll, PollLost, GiveBack, Lapse, Claim, Requeue, Expire
<1>6. CASE BridgeWork \/ BridgeCrash \/ AckAgain \/ AckLost
  BY <1>4, <1>6 DEF BridgeWork, BridgeCrash, AckAgain, AckLost, cloud, vars
<1> QED
  BY <1>1, <1>2, <1>3, <1>4, <1>5, <1>6 DEF SystemNext, Ack, Serve, AckEnd, Workers

----------------------------------------------------------------------------
(* The rows *)

(* The applied status of a result is an outcome. *)
LEMMA AppliedOutcome ==
    ASSUME SysInv, NEW c \in Ids, BP!Ended(c)
    PROVE  AppliedStatus(attempt[c].type, result[c]) \notin {"PENDING", "PROCESSING"}
<1>1. result[c] # "PENDING" /\ result[c] \in BP!BridgeResults
  BY DEF SysInv, BP!HistoryInv, BP!History, BP!Stands, BP!BaseInv, BP!BridgeTypeOK
<1> QED
  BY <1>1 DEF AppliedStatus, BP!BridgeResults, BP!Definite

(* A command that was queued is never forgotten, and one that is queued is of a
   row that is dispatched. *)
LEMMA QueuedStays ==
    ASSUME IInv, Effect, NEW c \in Ids
    PROVE  /\ command[c] # "none" => command'[c] # "none"
           /\ command[c] = "none" /\ command'[c] # "none" => attempt'[c].status = "PROCESSING"
<1>1. CASE Planned
  BY <1>1 DEF Planned
<1>2. ASSUME NEW a \in Ids, Dispatched(a) \/ Booked(a) \/ Reconciled(a)
      PROVE  /\ command[c] # "none" => command'[c] # "none"
             /\ command[c] = "none" /\ command'[c] # "none" => attempt'[c].status = "PROCESSING"
  BY <1>2 DEF Dispatched, Booked, Reconciled, OnlyRow
<1>3. CASE \E w \in Workers, a \in Ids : Answered(w, a)
  BY <1>3 DEF Answered
<1>4. CASE Queued
  BY <1>4 DEF Queued, Live
<1> QED
  BY <1>1, <1>2, <1>3, <1>4 DEF Effect

(* A row goes on being what the bridge was told, and a refund goes on naming the
   charge it reverses. *)
LEMMA OrderKept ==
    ASSUME SysInv, SystemNext, Effect, NEW c \in Ids
    PROVE  Ordered(c)' /\ attempt'[c].orig \in Ids \cup {0}
<1>0. IInv /\ Ordered(c) /\ RowHold(c) /\ attempt[c].orig \in Ids \cup {0}
  BY DEF SysInv, RowInv, IInv, HoldInv
<1>1. attempt[c].type # "NONE" => Keeps(c)
  BY <1>0, RowsPersist
<1>2. attempt[c].type = "NONE" => attempt'[c].orig \in Ids \cup {0}
  <2>1. CASE Planned
    BY <1>0, <2>1 DEF Planned, Replanned, Keeps
  <2>2. CASE \E b \in Ids : Dispatched(b) \/ Booked(b) \/ Reconciled(b)
    BY <1>0, <2>2 DEF Dispatched, Booked, Reconciled, Refunds, OnlyRow, Keeps
  <2>3. CASE \E w \in Workers, b \in Ids : Answered(w, b)
    BY <1>0, <2>3 DEF Answered, OnlyRow, Keeps
  <2>4. CASE Queued
    BY <1>0, <2>4 DEF Queued
  <2> QED
    BY <2>1, <2>2, <2>3, <2>4 DEF Effect
<1>3. CASE order'[c] = order[c]
  <2>1. order[c].type # "NONE" => attempt[c].type # "NONE" /\ order[c] = Payload(c) /\ command[c] # "none"
    BY <1>0 DEF Ordered, RowHold
  <2>2. attempt[c].type # "NONE" => Payload(c)' = Payload(c)
    BY <1>1 DEF Keeps, Payload
  <2> QED
    BY <1>0, <1>1, <1>2, <1>3, <2>1, <2>2, QueuedStays DEF Ordered, Keeps
<1>4. CASE order'[c] = Payload(c) /\ command[c] = "pending" /\ UNCHANGED attempt
  BY <1>0, <1>4, QueuedStays DEF Ordered, Payload
<1> QED
  BY <1>3, <1>4, BridgeKept

(* A row without a command does not come to the terminal. *)
LEMMA UnqueuedKept ==
    ASSUME SysInv, Effect, NEW c \in Ids
    PROVE  Unqueued(c)'
<1> SUFFICES ASSUME command'[c] = "none"
             PROVE  \/ /\ attempt'[c].type # "CANCEL"
                       /\ attempt'[c].status \in {"PENDING", "USER_CANCELLED", "COMPLETED"}
                    \/ /\ attempt'[c].type = "CANCEL"
                       /\ attempt'[c].status = "CANCELLED" /\ attempt'[c].method # "card"
  BY DEF Unqueued
<1>0. IInv /\ RowHold(c)
  BY DEF SysInv, IInv, HoldInv
<1>1. \/ attempt[c].type # "CANCEL" /\ attempt[c].status \in {"PENDING", "USER_CANCELLED", "COMPLETED"}
      \/ attempt[c].type = "CANCEL" /\ attempt[c].status = "CANCELLED" /\ attempt[c].method # "card"
  BY <1>0, QueuedStays DEF SysInv, RowInv, Unqueued
<1>2. CASE Planned
  BY <1>1, <1>2 DEF Planned, Replanned, Keeps
<1>3. CASE \E b \in Ids : Dispatched(b) \/ Booked(b) \/ Reconciled(b)
  BY <1>1, <1>3 DEF Dispatched, Booked, Reconciled, Refunds, OnlyRow, Keeps
<1>4. CASE \E w \in Workers, b \in Ids : Answered(w, b)
  BY <1>1, <1>4 DEF Answered, OnlyRow
<1>5. CASE Queued
  BY <1>1, <1>5 DEF Queued
<1> QED
  BY <1>2, <1>3, <1>4, <1>5 DEF Effect

(* A row that was queued is in flight until it shows what the journal has. *)
LEMMA ToldKept ==
    ASSUME SysInv, SystemNext, Effect, NEW c \in Ids
    PROVE  Told(c)'
<1> SUFFICES ASSUME command'[c] # "none", attempt'[c].status # "PROCESSING"
             PROVE  BP!Ended(c)' /\ Shows(c)'
  BY DEF Told
<1>0. IInv /\ RowHold(c) /\ Told(c)
  BY DEF SysInv, RowInv, IInv, HoldInv
<1>1. command[c] # "none" /\ attempt[c].type # "NONE"
  BY <1>0, QueuedStays DEF RowHold
<1>2. attempt'[c].type = attempt[c].type
  BY <1>0, <1>1, RowsPersist DEF Keeps
<1> DEFINE status == AppliedStatus(attempt[c].type, result[c])
<1>3. BP!Ended(c) => BP!Ended(c)' /\ AppliedStatus(attempt[c].type, result[c])' = status
                     /\ (card[c] = "made" => card'[c] = "made")
  BY <1>2, BridgeKept
<1>4. CASE attempt[c].status = "PROCESSING"
  <2>1. PICK w \in Workers : Answered(w, c)
    <3>1. CASE Planned
      BY <1>1, <1>4, <3>1 DEF Planned, Replanned
    <3>2. CASE \E b \in Ids : Dispatched(b) \/ Booked(b) \/ Reconciled(b)
      BY <1>4, <3>2 DEF Dispatched, Booked, Reconciled, OnlyRow
    <3>3. CASE \E w \in Workers, b \in Ids : Answered(w, b)
      BY <1>4, <3>3 DEF Answered, OnlyRow
    <3>4. CASE Queued
      BY <1>4, <3>4 DEF Queued
    <3> QED
      BY <3>1, <3>2, <3>3, <3>4 DEF Effect
  <2>2. BP!Ended(c) /\ attempt'[c].status = status
    BY <2>1 DEF SysInv, Carries, Answered
  <2> QED
    BY <1>2, <1>3, <2>2 DEF Shows
<1>5. CASE attempt[c].status # "PROCESSING"
  <2>1. BP!Ended(c) /\ Shows(c)
    BY <1>0, <1>1, <1>5 DEF Told
  <2>2. status \notin {"PENDING", "PROCESSING"}
    BY <2>1, AppliedOutcome
  <2>3. attempt[c].status # "PENDING"
    BY <2>1, <2>2 DEF Shows
  <2>4. \/ attempt'[c] = attempt[c]
        \/ /\ attempt[c].type = "PAY" /\ attempt[c].status \in {"DECLINED", "USER_CANCELLED", "ERROR"}
           /\ attempt'[c].status = "USER_CANCELLED"
        \/ /\ attempt[c].type = "PAY" /\ attempt[c].status = "UNKNOWN" /\ card[c] = "made"
           /\ attempt'[c].status = "APPROVED"
    <3>1. CASE Planned
      BY <1>1, <2>3, <3>1 DEF Planned, Replanned
    <3>2. CASE \E b \in Ids : Dispatched(b) \/ Booked(b)
      BY <2>3, <3>2 DEF Dispatched, Booked, OnlyRow
    <3>3. ASSUME NEW b \in Ids, Reconciled(b)
          PROVE  \/ attempt'[c] = attempt[c]
                 \/ /\ attempt[c].type = "PAY" /\ attempt[c].status = "UNKNOWN" /\ card[c] = "made"
                    /\ attempt'[c].status = "APPROVED"
      BY <3>3 DEF Reconciled, OnlyRow, SysInv, Carries
    <3>4. CASE \E w \in Workers, b \in Ids : Answered(w, b)
      BY <1>5, <3>4 DEF Answered, OnlyRow
    <3>5. CASE Queued
      BY <3>5 DEF Queued
    <3> QED
      BY <3>1, <3>2, <3>3, <3>4, <3>5 DEF Effect
  <2>5. Shows(c)'
    BY <1>2, <1>3, <2>1, <2>4 DEF Shows
  <2> QED
    BY <1>3, <2>1, <2>5
<1> QED
  BY <1>4, <1>5

----------------------------------------------------------------------------
(* The invariant *)

(* The empty database and the empty store satisfy the invariant. *)
LEMMA SysInit == SystemInit => SysInv
<1> SUFFICES ASSUME SystemInit
             PROVE  SysInv
  OBVIOUS
<1>1. Init /\ BP!BridgeInit
  BY SameBridge DEF SystemInit
<1>2. IInv
  BY <1>1, InvInit
<1>3. BP!BaseInv
  BY <1>1, BridgeGiven, BP!InitInvariant DEF BP!IInv
<1>4. BP!HistoryInv
  BY <1>1, BridgeGiven DEF BP!BridgeInit, BP!HistoryInv, BP!History, BP!Known, BP!Real, BP!Ended, BP!NoTask,
                           BP!NoWire, BP!At, BP!Free
<1>5. RowInv
  BY <1>1 DEF Init, NoRow, BP!BridgeInit, RowInv, Ordered, Unqueued, Told
<1>6. \A w \in Workers : Carries(w)
  BY <1>1 DEF Init, Idle, Carries, Applying
<1> QED
  BY <1>2, <1>3, <1>4, <1>5, <1>6 DEF SysInv

(* Every step of the system keeps the invariant. *)
LEMMA SysNext ==
    ASSUME SysInv, Results = AllResults, [SystemNext]_systemVars
    PROVE  SysInv'
<1>1. CASE SystemNext
  <2>1. [Next]_vars /\ IInv
    BY <1>1, CloudStep DEF SysInv
  <2>2. IInv' /\ Effect
    BY <2>1, InvNext, EffectNext
  <2>3. BP!BaseInv' /\ BP!HistoryInv'
    BY <1>1, BridgeKept
  <2>4. RowInv'
    BY <1>1, <2>2, OrderKept, UnqueuedKept, ToldKept DEF RowInv
  <2>5. \A w \in Workers : Carries(w)'
    BY <1>1, <2>2, CarriesKept
  <2> QED
    BY <2>2, <2>3, <2>4, <2>5 DEF SysInv
<1>2. CASE UNCHANGED systemVars
  <2>1. [Next]_vars /\ IInv
    BY <1>2 DEF SysInv, systemVars, cloud
  <2>2. IInv'
    BY <2>1, InvNext
  <2>3. UNCHANGED <<payment, attempt, command, req, order, journal, result, outbox, tx, lock, task, wire,
                    card, runs, crashes>>
    BY <1>2 DEF systemVars, cloud, vars, bridge
  <2>4. BP!BaseInv'
    BY <2>3 DEF SysInv, BP!BaseInv, BP!BridgeTypeOK, BP!TaskInv, BP!CardInv
  <2>5. BP!HistoryInv'
    BY <2>3 DEF SysInv, BP!HistoryInv, BP!History, BP!Known, BP!Real, BP!Stands, BP!Refunded, BP!Ended, BP!At
  <2>6. RowInv'
    BY <2>3 DEF SysInv, RowInv, Ordered, Unqueued, Told, Shows, Payload, BP!Ended
  <2>7. \A w \in Workers : Carries(w)'
    BY <2>3 DEF SysInv, Carries, Applying, BP!Ended
  <2> QED
    BY <2>2, <2>4, <2>5, <2>6, <2>7 DEF SysInv
<1> QED
  BY <1>1, <1>2

(* The inductive invariant holds in every reachable state of the joined system:
   the bridge was given what the row says, the row is in flight until it shows
   what the journal has, and a request that applies a result carries that one. *)
THEOREM SystemInvariant ==
    ASSUME Results = AllResults
    PROVE  SystemSpec => []SysInv
<1>1. SysInv /\ [SystemNext]_systemVars => SysInv'
  BY SysNext
<1> QED
  BY <1>1, SysInit, PTL DEF SystemSpec

(* The cloud of the system, with a real bridge behind it, is a CloudPayments:
   what its theorems say of any bridge holds of this one. *)
THEOREM SystemIsCloud ==
    ASSUME Results = AllResults
    PROVE  SystemSpec => Spec
<1>1. SystemInit => Init
  BY DEF SystemInit
<1>2. SysInv /\ [SystemNext]_systemVars => [Next]_vars
  BY CloudStep DEF systemVars, cloud
<1> QED
  BY <1>1, <1>2, SystemInvariant, PTL DEF SystemSpec, Spec

----------------------------------------------------------------------------
(* What the system promises *)

(* The vendor module runs a transaction only while the cloud holds the terminal
   for its row: no expiry, redelivery or stale ACK has given the terminal away. *)
THEOREM TerminalHeldInRun ==
    ASSUME Results = AllResults
    PROVE  SystemSpec => []RunsUnderHold
<1>1. ASSUME SysInv, task.step \in {"dispatch", "record"}
      PROVE  attempt[task.cmd].active
  <2>1. PICK c \in Ids : c = task.cmd /\ order[c].type # "NONE" /\ journal[c] = "executing"
    BY <1>1 DEF SysInv, BP!BaseInv, BP!TaskInv, BP!Steps
  <2>2. Ordered(c) /\ Told(c) /\ RowHold(c)
    BY <1>1 DEF SysInv, RowInv, IInv, HoldInv
  <2> QED
    BY <2>1, <2>2 DEF Ordered, Told, RowHold, BP!Ended
<1>2. SysInv => RunsUnderHold
  BY <1>1 DEF RunsUnderHold
<1> QED
  BY <1>2, SystemInvariant, PTL

(* A charge that was made is never forgotten by the ledger, whatever is lost,
   redelivered or restarted, when no OSError follows a charge. *)
THEOREM ChargesRemembered ==
    ASSUME Results = AllResults, ~LateDisconnect
    PROVE  SystemSpec => []ChargeRemembered
<1>1. ASSUME SysInv, NEW a \in Ids, attempt[a].type = "PAY", card[a] = "made"
      PROVE  attempt[a].status \in {"PROCESSING", "UNKNOWN", "APPROVED"}
  <2>1. order[a].type # "NONE" /\ Ordered(a) /\ Told(a) /\ BP!History(a)
    BY <1>1 DEF SysInv, RowInv, BP!HistoryInv, BP!BaseInv, BP!CardInv
  <2>2. result[a] \in BP!BridgeResults
    BY <1>1 DEF SysInv, BP!BaseInv, BP!BridgeTypeOK
  <2>3. SUFFICES ASSUME attempt[a].status # "PROCESSING"
                 PROVE  attempt[a].status \in {"UNKNOWN", "APPROVED"}
    OBVIOUS
  <2>4. BP!Stands(a, result[a]) /\ Shows(a)
    BY <2>1, <2>3 DEF Ordered, Told, BP!History
  <2>5. order[a].type = "PAY"
    BY <1>1, <2>1, SameOrder
  <2>6. result[a] \in {"APPROVED", "UNKNOWN", "EXCEPTION"}
    BY <1>1, <2>2, <2>4, <2>5 DEF BP!Stands, BP!BridgeResults
  <2> QED
    BY <1>1, <2>4, <2>6 DEF Shows, AppliedStatus
<1>2. SysInv => ChargeRemembered
  BY <1>1 DEF ChargeRemembered
<1> QED
  BY <1>2, SystemInvariant, PTL

(* The ledger books only charges that were made at the terminal. *)
ChargesReal == \A a \in Ids : attempt[a].status = "APPROVED" => card[a] = "made"

(* Every approval in the ledger is a charge that was made, whatever requests,
   ACKs and restarts interleave: the half of LedgerIsReal that does not need
   the requests to be served one at a time. *)
THEOREM ChargesAreReal ==
    ASSUME Results = AllResults
    PROVE  SystemSpec => []ChargesReal
<1>1. ASSUME SysInv, NEW a \in Ids, attempt[a].status = "APPROVED"
      PROVE  card[a] = "made"
  <2>1. Unqueued(a) /\ Told(a) /\ BP!History(a)
    BY <1>1 DEF SysInv, RowInv, BP!HistoryInv
  <2>2. Shows(a) /\ BP!Stands(a, result[a])
    BY <1>1, <2>1 DEF Unqueued, Told, BP!History
  <2> QED
    BY <1>1, <2>2 DEF Shows, AppliedStatus, BP!Stands
<1>2. SysInv => ChargesReal
  BY <1>1 DEF ChargesReal
<1> QED
  BY <1>2, SystemInvariant, PTL

(* A card refund that the ledger shows is one that was made, by this row or by
   one that raced with it for the same charge. *)
RefundsReal ==
    \A c \in Ids :
        attempt[c].type = "CANCEL" /\ attempt[c].method = "card" /\ attempt[c].status = "CANCELLED" =>
            \E d \in Ids :
                attempt[d].type = "CANCEL" /\ attempt[d].orig = attempt[c].orig /\ card[d] = "made"

(* No refund is shown for a charge that was not refunded at the terminal: with
   racing requests the bridge answers the second with the outcome of the first. *)
THEOREM RefundsAreReal ==
    ASSUME Results = AllResults
    PROVE  SystemSpec => []RefundsReal
<1>1. ASSUME SysInv, NEW c \in Ids,
             attempt[c].type = "CANCEL", attempt[c].method = "card", attempt[c].status = "CANCELLED"
      PROVE  \E d \in Ids :
                attempt[d].type = "CANCEL" /\ attempt[d].orig = attempt[c].orig /\ card[d] = "made"
  <2>1. Unqueued(c) /\ Told(c) /\ BP!History(c)
    BY <1>1 DEF SysInv, RowInv, BP!HistoryInv
  <2>2. BP!Ended(c) /\ Shows(c) /\ BP!Stands(c, result[c])
    BY <1>1, <2>1 DEF Unqueued, Told, BP!History
  <2>3. result[c] = "CANCELLED"
    BY <1>1, <2>2 DEF Shows, AppliedStatus
  <2>4. PICK d \in Ids : order[d].type = "CANCEL" /\ order[d].orig = order[c].orig /\ card[d] = "made"
    BY <2>2, <2>3 DEF BP!Stands, BP!Refunded
  <2>5. order[c].type # "NONE"
    BY <2>1, <2>2 DEF BP!History, BP!Known, BP!Ended
  <2> QED
    BY <1>1, <2>4, <2>5, SameOrder
<1>2. SysInv => RefundsReal
  BY <1>1 DEF RefundsReal
<1> QED
  BY <1>2, SystemInvariant, PTL

(* A card is presented at most once for a command, however often the cloud hands
   it over and the bridge restarts. *)
THEOREM SystemRunsOnce ==
    ASSUME Results = AllResults
    PROVE  SystemSpec => [](\A c \in Ids : runs[c] <= 1)
<1>1. SysInv => \A c \in Ids : runs[c] <= 1
  BY DEF SysInv, BP!BaseInv, BP!CardInv
<1> QED
  BY <1>1, SystemInvariant, PTL

(* What CloudPayments promises for any bridge holds of the joined system: the
   terminal is exclusive, settled rows stay, an unknown outcome is isolated and
   a refund has its original. *)
THEOREM SystemKeepsLedger ==
    ASSUME Results = AllResults
    PROVE  SystemSpec => []TerminalExclusive /\ SettledPreserved /\ UnknownIsolated /\ []RefundHasOriginal
BY SystemIsCloud, TerminalIsExclusive, SettledStays, UnknownStaysIsolated, RefundsHaveOriginals

----------------------------------------------------------------------------
(* One request of the screens at a time, and no full cancellation *)

(* The refunds in whose place createCancellation makes no other *)
LiveRefund(c, a) ==
    /\ attempt[c].type = "CANCEL" /\ attempt[c].orig = a
    /\ attempt[c].status \in {"PROCESSING", "PENDING", "UNKNOWN", "BUSY", "CANCELLED"}

(* A request is about a payment, and only one of the screens refunds, a row that
   no live refund reverses yet. *)
Path(w) ==
    /\ req[w].pc # "idle" => req[w].payment \in Payments
    /\ req[w].pc \notin {"full_flag", "advance", "full_finish"} /\ req[w].next # "advance"
    /\ req[w].pc \in {"cancel_check", "cancel_insert"} => w \in ApiWorkers /\ req[w].op = "cancel"
    /\ req[w].pc = "cancel_insert" => \A c \in Ids : ~LiveRefund(c, req[w].target)

(* Every row is of a payment, no payment is being cancelled as a whole, and a
   charge has one refund that may be made. *)
SerialInv ==
    /\ \A w \in Workers : Path(w)
    /\ \A a \in Ids : attempt[a].type # "NONE" => attempt[a].payment \in Payments
    /\ \A p \in Payments : ~payment[p].full
    /\ \A c, d \in Ids, a \in Ids \cup {0} : LiveRefund(c, a) /\ LiveRefund(d, a) => c = d

(* Where a request of the screens or of an ACK goes, without a full cancellation *)
Onward(w) ==
    /\ req'[w].pc # "idle" => req'[w].payment \in Payments
    /\ req'[w].pc \notin {"full_flag", "advance", "full_finish"} /\ req'[w].next # "advance"
    /\ req'[w].pc \in {"cancel_check", "cancel_insert"} => w \in ApiWorkers /\ req'[w].op = "cancel"
    /\ req'[w].pc = "cancel_insert" =>
          UNCHANGED attempt /\ \A c \in Ids : ~LiveRefund(c, req'[w].target)

(* Ending, returning, starting a SYNC and going on elsewhere lead onward. *)
LEMMA GoesOnward ==
    ASSUME TypeOK, NEW w \in Workers, Path(w), req[w].pc # "idle",
           \/ Throw(w) \/ Return(w)
           \/ \E after \in Continuations \ {"advance"} : Sync(w, after)
           \/ \E pc \in Steps \ {"cancel_check", "cancel_insert", "full_flag", "advance", "full_finish"} :
                 Goto(w, pc)
    PROVE  Onward(w)
<1>0. req \in [Workers -> Requests] /\ req[w] \in Requests /\ req[w].payment \in Payments /\ req[w].next # "advance"
  BY DEF TypeOK, Path
<1>1. CASE Throw(w)
  BY <1>0, <1>1 DEF Throw, Onward, Idle
<1>2. CASE Return(w)
  BY <1>0, <1>2 DEF Return, Onward, Idle, Requests
<1>3. ASSUME NEW after \in Continuations \ {"advance"}, Sync(w, after) PROVE Onward(w)
  BY <1>0, <1>3 DEF Sync, Onward, Requests
<1>4. ASSUME NEW pc \in Steps \ {"cancel_check", "cancel_insert", "full_flag", "advance", "full_finish"}, Goto(w, pc)
      PROVE  Onward(w)
  BY <1>0, <1>4 DEF Goto, Onward, Requests
<1> QED
  BY <1>1, <1>2, <1>3, <1>4

(* Every step of a request in service leads onward; it goes on to insert a
   refund only when it has found no live one. *)
LEMMA ServiceOnward ==
    ASSUME TypeOK, NEW w \in Workers, Path(w), \A p \in Payments : ~payment[p].full,
           RequestStep(w) \/ Respond(w) \/ Abort(w)
    PROVE  Onward(w)
<1>0. req \in [Workers -> Requests] /\ req[w] \in Requests
  BY DEF TypeOK
<1>i. req[w].pc # "idle" /\ req[w].payment \in Payments /\ req[w].next # "advance"
  BY DEF Path, RequestStep, Respond, Abort, At, PrepareNumber, PrepareWrite, PrepareReadback, ExecuteCheck,
         ExecuteCard, ExecuteManual, RetryNumber, RetryInsert, ChangeWrite, CancelCheck, CancelInsert, FullFlag,
         Advance, FullFinish, ReconcileWrite, AckRead, AckWrite, AckResume, SyncRead, SyncWrite
<1> USE DEF Steps, Continuations
<1>1. CASE Respond(w) \/ Abort(w) \/ ExecuteCard(w) \/ ChangeWrite(w)
  BY <1>i, <1>1, GoesOnward DEF Respond, Abort, ExecuteCard, ChangeWrite
<1>2. CASE ExecuteCheck(w) \/ ExecuteManual(w) \/ ReconcileWrite(w) \/ AckWrite(w)
  BY <1>i, <1>2, GoesOnward DEF ExecuteCheck, ExecuteManual, ReconcileWrite, AckWrite
<1>3. CASE FullFlag(w) \/ Advance(w) \/ FullFinish(w)
  BY <1>3 DEF FullFlag, Advance, FullFinish, At, Path
<1>4. CASE AckResume(w)
  <2>1. Goto(w, "respond")
    BY <1>i, <1>4 DEF AckResume
  <2> QED
    BY <1>i, <2>1, GoesOnward
<1>5. CASE CancelInsert(w)
  <2>1. req[w].op = "cancel"
    BY <1>5 DEF CancelInsert, At, Path
  <2> QED
    BY <1>i, <1>5, <2>1, GoesOnward DEF CancelInsert
<1>6. CASE CancelCheck(w)
  <2>1. req[w].op = "cancel" /\ w \in ApiWorkers /\ At(w, "cancel_check")
    BY <1>6 DEF CancelCheck, At, Path
  <2>2. CASE Return(w) \/ Throw(w)
    BY <1>i, <2>2, GoesOnward
  <2>3. CASE Goto(w, "cancel_insert") /\ ~Cancelling(req[w].target) /\ UNCHANGED attempt
    <3>1. /\ req'[w].pc = "cancel_insert" /\ req'[w].target = req[w].target /\ req'[w].op = req[w].op
          /\ req'[w].payment = req[w].payment /\ req'[w].next = req[w].next
      BY <1>0, <2>3 DEF Goto, Requests
    <3>2. \A c \in Ids : ~LiveRefund(c, req[w].target)
      BY <2>3 DEF Cancelling, LiveRefund
    <3> QED
      BY <1>i, <2>1, <2>3, <3>1, <3>2 DEF Onward
  <2> QED
    BY <1>6, <2>1, <2>2, <2>3 DEF CancelCheck
<1>7. CASE PrepareNumber(w) \/ RetryNumber(w)
  <2>1. ASSUME NEW n, NEW pc \in {"plan_write", "retry_insert"}, req' = [req EXCEPT ![w].number = n, ![w].pc = pc]
        PROVE  Onward(w)
    BY <1>0, <1>i, <2>1 DEF Onward, Requests
  <2>2. CASE PrepareNumber(w)
    BY <2>1, <2>2 DEF PrepareNumber
  <2>3. CASE RetryNumber(w)
    BY <2>1, <2>3 DEF RetryNumber
  <2> QED
    BY <1>7, <2>2, <2>3
<1>8. CASE PrepareWrite(w)
  BY <1>i, <1>8, GoesOnward DEF PrepareWrite
<1>9. CASE PrepareReadback(w)
  <2>1. ASSUME NEW whole, req' = [req EXCEPT ![w].pc = "sync_write", ![w].next = "idle", ![w].whole = whole]
        PROVE  Onward(w)
    BY <1>0, <1>i, <2>1 DEF Onward, Requests
  <2> QED
    BY <1>i, <1>9, <2>1, GoesOnward DEF PrepareReadback
<1>10. CASE RetryInsert(w)
  <2>1. ASSUME NEW f, req' = [req EXCEPT ![w].target = f, ![w].pc = "check"] PROVE Onward(w)
    BY <1>0, <1>i, <2>1 DEF Onward, Requests
  <2> QED
    BY <1>i, <1>10, <2>1, GoesOnward DEF RetryInsert
<1>11. CASE AckRead(w) \/ SyncRead(w)
  <2>1. ASSUME NEW whole, NEW pc \in {"ack_write", "sync_write"},
               req' = [req EXCEPT ![w].pc = pc, ![w].whole = whole]
        PROVE  Onward(w)
    BY <1>0, <1>i, <2>1 DEF Onward, Requests
  <2>2. CASE AckRead(w)
    BY <2>1, <2>2 DEF AckRead
  <2>3. CASE SyncRead(w)
    BY <1>0, <1>i, <2>3 DEF SyncRead, Onward, Requests
  <2> QED
    BY <1>11, <2>2, <2>3
<1>12. CASE SyncWrite(w)
  BY <1>0, <1>i, <1>12 DEF SyncWrite, Onward, Requests, Idle
<1> QED
  BY <1>1, <1>2, <1>3, <1>4, <1>5, <1>6, <1>7, <1>8, <1>9, <1>10, <1>11, <1>12 DEF RequestStep

(* A request that is read leads onward. *)
LEMMA ReadOnward ==
    ASSUME TypeOK, "full" \notin Operations, NEW w \in ApiWorkers, ApiRequest(w)
    PROVE  Onward(w) /\ UNCHANGED <<payment, attempt>>
<1>0. req \in [Workers -> Requests] /\ w \in Workers
  BY DEF TypeOK, Workers
<1> USE <1>0 DEF Onward, Idle
<1>1. ASSUME NEW p \in Payments, NEW plan, PrepareRead(w, p, plan) PROVE Onward(w) /\ UNCHANGED <<payment, attempt>>
  BY <1>1 DEF PrepareRead
<1>2. ASSUME NEW p \in Payments, NEW a, NEW k, ProcessRead(w, p, a, k) PROVE Onward(w) /\ UNCHANGED <<payment, attempt>>
  BY <1>2 DEF ProcessRead
<1>7. ASSUME NEW p \in Payments, NEW a, NEW k, StartPrepared(w, p, a, k) PROVE Onward(w) /\ UNCHANGED <<payment, attempt>>
  BY <1>7 DEF StartPrepared
<1>3. ASSUME NEW p \in Payments, NEW a, NEW k, CancelRead(w, p, a, k) PROVE Onward(w) /\ UNCHANGED <<payment, attempt>>
  BY <1>3 DEF CancelRead
<1>4. ASSUME NEW op, NEW p \in Payments, NEW a, NEW k, NEW m, RetryRead(w, op, p, a, k, m)
      PROVE  Onward(w) /\ UNCHANGED <<payment, attempt>>
  BY <1>4 DEF RetryRead
<1>5. ASSUME NEW p \in Payments, NEW a, ReconcileRead(w, p, a) PROVE Onward(w) /\ UNCHANGED <<payment, attempt>>
  BY <1>5 DEF ReconcileRead
<1>6. ASSUME NEW p \in Payments, NEW a, NEW m, ChangeRead(w, p, a, m) PROVE Onward(w) /\ UNCHANGED <<payment, attempt>>
  BY <1>6 DEF ChangeRead
<1> QED
  BY <1>1, <1>2, <1>3, <1>4, <1>5, <1>6, <1>7 DEF ApiRequest, Asks

(* The ACK that finalizes a command is about the payment of its row. *)
LEMMA AckOnward ==
    ASSUME IInv, SerialInv, NEW w \in AckWorkers, NEW c \in Ids, NEW r, AckFinalize(w, c, r)
    PROVE  Onward(w) /\ UNCHANGED <<payment, attempt>>
<1> DEFINE status == AppliedStatus(attempt[c].type, r)
           next == [Idle EXCEPT !.op = "ack", !.pc = "ack_read", !.payment = attempt[c].payment,
                                !.target = c, !.status = status]
<1>1. req'[w] = next /\ UNCHANGED <<payment, attempt>>
  BY DEF IInv, TypeOK, AckFinalize, Workers
<1>2. attempt[c].payment \in Payments
  BY DEF IInv, HoldInv, RowHold, SerialInv, AckFinalize
<1>3. next.pc = "ack_read" /\ next.payment = attempt[c].payment /\ next.next = "idle"
  <2> HIDE DEF status
  <2> QED BY DEF Idle
<1> HIDE DEF next
<1> QED
  BY <1>1, <1>2, <1>3 DEF Onward

(* A row that a request adds is of its payment, and is a refund only when the
   request has found no live one. *)
Adds(w, a) ==
    /\ attempt'[a].payment \in Payments
    /\ attempt'[a].type = "CANCEL" =>
          /\ req[w].pc = "cancel_insert" /\ attempt'[a].orig = req[w].target
          /\ \A b \in Ids : b # a => attempt'[b] = attempt[b]

LEMMA RequestAdds ==
    ASSUME IInv, SerialInv, NEW w \in Workers, Path(w), RequestStep(w) \/ Respond(w) \/ Abort(w),
           NEW a \in Ids, attempt[a].type = "NONE", attempt'[a].type # "NONE"
    PROVE  Adds(w, a)
<1>0. attempt \in [Ids -> AttemptRows] /\ req[w] \in Requests
  BY DEF IInv, TypeOK
<1>1. CASE UNCHANGED attempt
  BY <1>1
<1>2. ASSUME NEW b, attempt'[b].type = attempt[b].type, \A d \in Ids \ {b} : attempt'[d] = attempt[d]
      PROVE  FALSE
  BY <1>2
<1>3. CASE ExecuteCard(w) \/ ExecuteManual(w) \/ ChangeWrite(w) \/ ReconcileWrite(w) \/ AckWrite(w)
  <2> DEFINE t == req[w].target
  <2>1. t \in Ids
    BY <1>3 DEF IInv, TargetInv, TargetOk, AckInv, Answering, Applying, ExecuteCard, ExecuteManual, ChangeWrite,
                ReconcileWrite, AckWrite, At
  <2>2. attempt[t] \in AttemptRows
    BY <1>0, <2>1
  <2> HIDE DEF t
  <2>3. \A d \in Ids \ {t} : attempt'[d] = attempt[d]
    BY <1>0, <1>3 DEF ExecuteCard, ExecuteManual, ChangeWrite, ReconcileWrite, AckWrite, Applied, t
  <2>4. CASE ExecuteCard(w)
    <3>1. \A k : [attempt[t] EXCEPT !.status = "PROCESSING", !.active = TRUE, !.key = k].type = attempt[t].type
      BY <2>2 DEF AttemptRows
    <3>2. \/ attempt'[t] = attempt[t]
          \/ attempt'[t] = [attempt[t] EXCEPT !.status = "PROCESSING", !.active = TRUE, !.key = req[w].key]
      BY <1>0, <2>1, <2>4 DEF ExecuteCard, t
    <3> QED
      BY <1>2, <2>3, <3>1, <3>2
  <2>5. CASE ExecuteManual(w)
    <3>1. \A k : [attempt[t] EXCEPT !.status = "COMPLETED", !.key = k].type = attempt[t].type
      BY <2>2 DEF AttemptRows
    <3>2. attempt'[t] = attempt[t] \/ attempt'[t] = [attempt[t] EXCEPT !.status = "COMPLETED", !.key = req[w].key]
      BY <1>0, <2>1, <2>5 DEF ExecuteManual, t
    <3> QED
      BY <1>2, <2>3, <3>1, <3>2
  <2>6. CASE ChangeWrite(w)
    <3>1. \A m : [attempt[t] EXCEPT !.method = m].type = attempt[t].type
      BY <2>2 DEF AttemptRows
    <3>2. attempt'[t] = attempt[t] \/ attempt'[t] = [attempt[t] EXCEPT !.method = req[w].method]
      BY <1>0, <2>1, <2>6 DEF ChangeWrite, t
    <3> QED
      BY <1>2, <2>3, <3>1, <3>2
  <2>7. CASE ReconcileWrite(w)
    BY <1>0, <2>1, <2>2, <2>7 DEF ReconcileWrite, AttemptRows, t
  <2>8. CASE AckWrite(w)
    BY <1>0, <2>1, <2>2, <2>8 DEF AckWrite, Applied, AttemptRows, t
  <2> QED
    BY <1>3, <2>4, <2>5, <2>6, <2>7, <2>8
<1>n. \A p, split, number, amount, method :
         /\ NewRow(p, split, number, amount, method).type = "PAY"
         /\ NewRow(p, split, number, amount, method).payment = p
  BY DEF NewRow, NoRow
<1>4. CASE PrepareWrite(w)
  <2>1. req[w].payment \in Payments
    BY <1>4 DEF PrepareWrite, At, Path
  <2>2. \/ attempt'[a].type = "PAY" /\ attempt'[a].payment = req[w].payment
        \/ attempt'[a] = attempt[a]
        \/ attempt'[a] = [attempt[a] EXCEPT !.status = "USER_CANCELLED", !.active = FALSE]
    <3>1. ASSUME NEW f \in Ids,
                 attempt' = [b \in Ids |->
                     IF b >= f /\ b < f + Len(req[w].plan)
                     THEN NewRow(req[w].payment, b - f + 1, req[w].number + b - f,
                                 req[w].plan[b - f + 1].amount, req[w].plan[b - f + 1].method)
                     ELSE IF /\ attempt[b].payment = req[w].payment /\ attempt[b].type = "PAY"
                             /\ attempt[b].status \in {"PENDING", "DECLINED", "USER_CANCELLED", "ERROR"}
                     THEN [attempt[b] EXCEPT !.status = "USER_CANCELLED", !.active = FALSE]
                     ELSE attempt[b]]
          PROVE  \/ attempt'[a].type = "PAY" /\ attempt'[a].payment = req[w].payment
                 \/ attempt'[a] = attempt[a]
                 \/ attempt'[a] = [attempt[a] EXCEPT !.status = "USER_CANCELLED", !.active = FALSE]
      <4>1. CASE a >= f /\ a < f + Len(req[w].plan)
        <5>1. \E split, number, amount, method :
                 attempt'[a] = NewRow(req[w].payment, split, number, amount, method)
          BY <3>1, <4>1
        <5> QED
          BY <1>n, <5>1
      <4>2. CASE ~(a >= f /\ a < f + Len(req[w].plan))
        BY <3>1, <4>2
      <4> QED
        BY <4>1, <4>2
    <3> QED
      BY <1>4, <3>1 DEF PrepareWrite, IsFirstFree
  <2> QED
    BY <1>0, <2>1, <2>2 DEF AttemptRows, Adds
<1>5. CASE RetryInsert(w)
  <2>1. req[w].payment \in Payments
    BY <1>5 DEF RetryInsert, At, Path
  <2>2. attempt'[a] = attempt[a] \/ (attempt'[a].type = "PAY" /\ attempt'[a].payment = req[w].payment)
    <3>1. ASSUME NEW f \in Ids, NEW row, attempt' = [attempt EXCEPT ![f] = row],
                 row.type = "PAY" /\ row.payment = req[w].payment
          PROVE  attempt'[a] = attempt[a] \/ (attempt'[a].type = "PAY" /\ attempt'[a].payment = req[w].payment)
      BY <1>0, <3>1
    <3> DEFINE original == attempt[req[w].target]
               row == NewRow(req[w].payment, original.split, req[w].number, original.amount, req[w].method)
    <3>2. row.type = "PAY" /\ row.payment = req[w].payment
      BY <1>n
    <3>3. [row EXCEPT !.key = req[w].key].type = "PAY" /\ [row EXCEPT !.key = req[w].key].payment = req[w].payment
      BY DEF NewRow, NoRow
    <3>4. \/ UNCHANGED attempt
          \/ \E f \in Ids : \/ attempt' = [attempt EXCEPT ![f] = row]
                            \/ attempt' = [attempt EXCEPT ![f] = [row EXCEPT !.key = req[w].key]]
      BY <1>5 DEF RetryInsert
    <3> HIDE DEF row
    <3> QED
      BY <3>1, <3>2, <3>3, <3>4
  <2> QED
    BY <2>1, <2>2 DEF Adds
<1>6. CASE CancelInsert(w)
  <2> DEFINE t == req[w].target
  <2>1. t \in Ids /\ attempt[t].type # "NONE" /\ At(w, "cancel_insert")
    BY <1>6 DEF IInv, TargetInv, TargetOk, CancelInsert, At
  <2>2. attempt[t] \in AttemptRows
    BY <1>0, <2>1
  <2>3. PICK status, active : attempt' = [attempt EXCEPT ![a] = CancelRow(attempt[t], t, req[w].key, status, active)]
    BY <1>0, <1>6 DEF CancelInsert, IsFirstFree
  <2>4. attempt'[a] = CancelRow(attempt[t], t, req[w].key, status, active)
    BY <1>0, <2>3
  <2>5. attempt'[a].payment = attempt[t].payment /\ attempt'[a].orig = t
    BY <2>2, <2>4 DEF CancelRow, AttemptRows
  <2>6. \A b \in Ids : b # a => attempt'[b] = attempt[b]
    BY <1>0, <2>3
  <2>7. attempt[t].payment \in Payments
    BY <2>1 DEF SerialInv
  <2> QED
    BY <2>1, <2>5, <2>6, <2>7 DEF Adds, At
<1>9. CASE Respond(w) \/ Abort(w) \/ PrepareNumber(w) \/ PrepareReadback(w) \/ ExecuteCheck(w) \/ RetryNumber(w)
           \/ CancelCheck(w) \/ FullFlag(w) \/ Advance(w) \/ FullFinish(w) \/ AckRead(w) \/ AckResume(w)
           \/ SyncRead(w) \/ SyncWrite(w)
  BY <1>1, <1>9 DEF Respond, Abort, PrepareNumber, PrepareReadback, ExecuteCheck, RetryNumber, CancelCheck, FullFlag,
     Advance, FullFinish, AckRead, AckResume, SyncRead, SyncWrite
<1> QED
  BY <1>3, <1>4, <1>5, <1>6, <1>9 DEF RequestStep

(* No step but a full cancellation marks a payment as being cancelled. *)
LEMMA NeverFull ==
    ASSUME TypeOK, NEW w \in Workers, Path(w), \A p \in Payments : ~payment[p].full,
           RequestStep(w) \/ Respond(w) \/ Abort(w)
    PROVE  \A p \in Payments : ~payment'[p].full
<1>0. payment \in [Payments -> PaymentRows]
  BY DEF TypeOK
<1>1. CASE PrepareWrite(w)
  <2>1. ASSUME NEW q, NEW row, row.full = FALSE, payment' = [payment EXCEPT ![q] = row]
        PROVE  \A p \in Payments : ~payment'[p].full
    BY <1>0, <2>1
  <2> DEFINE row == [status |-> IF Payable = 0 THEN "PAID" ELSE "PENDING",
                     splits |-> Len(req[w].plan), full |-> FALSE, planner |-> w]
  <2>2. row.full = FALSE
    OBVIOUS
  <2>3. UNCHANGED payment \/ payment' = [payment EXCEPT ![req[w].payment] = row]
    BY <1>1 DEF PrepareWrite
  <2> HIDE DEF row
  <2> QED
    BY <2>1, <2>2, <2>3
<1>2. ASSUME NEW q, NEW status, payment' = [payment EXCEPT ![q].status = status]
      PROVE  \A p \in Payments : ~payment'[p].full
  BY <1>0, <1>2 DEF PaymentRows
<1>3. CASE AckWrite(w) \/ SyncWrite(w)
  BY <1>2, <1>3 DEF AckWrite, SyncWrite
<1>4. CASE FullFlag(w) \/ FullFinish(w)
  BY <1>4 DEF FullFlag, FullFinish, At, Path
<1>5. CASE UNCHANGED payment
  BY <1>5
<1>6. CASE Respond(w) \/ Abort(w) \/ PrepareNumber(w) \/ PrepareReadback(w) \/ ExecuteCheck(w) \/ ExecuteCard(w)
           \/ ExecuteManual(w) \/ RetryNumber(w) \/ RetryInsert(w) \/ ChangeWrite(w) \/ CancelCheck(w)
           \/ CancelInsert(w) \/ Advance(w) \/ ReconcileWrite(w) \/ AckRead(w) \/ AckResume(w) \/ SyncRead(w)
  BY <1>5, <1>6 DEF Respond, Abort, PrepareNumber, PrepareReadback, ExecuteCheck, ExecuteCard, ExecuteManual,
     RetryNumber, RetryInsert, ChangeWrite, CancelCheck, CancelInsert, Advance, ReconcileWrite, AckRead, AckResume,
     SyncRead
<1> QED
  BY <1>1, <1>3, <1>4, <1>6 DEF RequestStep

(* A refund that has failed stays failed. *)
LEMMA FailedStays ==
    ASSUME IInv, Effect, NEW c \in Ids, NEW a, attempt[c].type # "NONE", LiveRefund(c, a)'
    PROVE  LiveRefund(c, a)
<1>1. Keeps(c)
  BY RowsPersist
<1>2. attempt[c].type = "CANCEL" /\ attempt[c].orig = a
  BY <1>1 DEF Keeps, LiveRefund
<1>3. CASE Planned
  BY <1>2, <1>3 DEF Planned, Replanned, LiveRefund
<1>4. CASE \E b \in Ids : Dispatched(b) \/ Booked(b) \/ Reconciled(b)
  BY <1>2, <1>4 DEF Dispatched, Booked, Reconciled, OnlyRow, LiveRefund
<1>5. CASE \E w \in Workers, b \in Ids : Answered(w, b)
  BY <1>2, <1>5 DEF Answered, OnlyRow, LiveRefund
<1>6. CASE Queued
  BY <1>6 DEF Queued, LiveRefund
<1> QED
  BY <1>3, <1>4, <1>5, <1>6 DEF Effect

(* A request that is onward keeps the invariant of the others. *)
LEMMA OnwardKeeps ==
    ASSUME IInv, SerialInv, Effect, \A v, w \in ApiWorkers : v = w,
           NEW w \in Workers, Others(w), Onward(w), \A p \in Payments : ~payment'[p].full,
           \A a \in Ids : attempt[a].type = "NONE" /\ attempt'[a].type # "NONE" => Adds(w, a)
    PROVE  SerialInv'
<1>1. ASSUME NEW a \in Ids, attempt'[a].type # "NONE"
      PROVE  attempt'[a].payment \in Payments
  BY <1>1, RowsPersist DEF SerialInv, Keeps, Adds
<1>2. ASSUME NEW c \in Ids, NEW a, LiveRefund(c, a)', ~LiveRefund(c, a)
      PROVE  /\ req[w].pc = "cancel_insert" /\ a = req[w].target
             /\ \A b \in Ids : b # c => attempt'[b] = attempt[b]
  <2>1. attempt[c].type = "NONE"
    BY <1>2, FailedStays
  <2>2. attempt'[c].type = "CANCEL" /\ attempt'[c].orig = a
    BY <1>2 DEF LiveRefund
  <2> QED
    BY <2>1, <2>2 DEF Adds
<1>3. ASSUME NEW v \in Workers
      PROVE  Path(v)'
  <2>1. Path(v) /\ Path(w)
    BY DEF SerialInv
  <2>2. CASE v = w
    BY <2>2 DEF Onward, Path, LiveRefund
  <2>3. CASE v # w
    <3>1. req'[v] = req[v]
      BY <2>3 DEF Others
    <3>2. ASSUME req[v].pc = "cancel_insert", NEW c \in Ids, NEW a, a = req[v].target, LiveRefund(c, a)'
          PROVE  FALSE
      <4>1. ~LiveRefund(c, a)
        BY <2>1, <3>2 DEF Path
      <4>2. req[w].pc = "cancel_insert"
        BY <1>2, <3>2, <4>1
      <4> QED
        BY <2>1, <2>3, <3>2, <4>2 DEF Path
    <3>3. req[v].pc = "cancel_insert" =>
             \A c \in Ids : ~(/\ attempt'[c].type = "CANCEL" /\ attempt'[c].orig = req[v].target
                              /\ attempt'[c].status \in {"PROCESSING", "PENDING", "UNKNOWN", "BUSY", "CANCELLED"})
      BY <3>2 DEF LiveRefund
    <3> QED
      BY <2>1, <3>1, <3>3 DEF Path, LiveRefund
  <2> QED
    BY <2>2, <2>3
<1>4. ASSUME NEW c \in Ids, NEW d \in Ids, NEW a \in Ids \cup {0}, LiveRefund(c, a)', LiveRefund(d, a)', c # d
      PROVE  FALSE
  <2>1. ASSUME NEW x \in Ids, NEW y \in Ids, x # y, LiveRefund(x, a)', LiveRefund(y, a)', ~LiveRefund(x, a)
        PROVE  FALSE
    <3>1. req[w].pc = "cancel_insert" /\ a = req[w].target /\ attempt'[y] = attempt[y]
      BY <1>2, <2>1
    <3>2. LiveRefund(y, a)
      BY <2>1, <3>1 DEF LiveRefund
    <3> QED
      BY <3>1, <3>2 DEF SerialInv, Path
  <2>2. LiveRefund(c, a) /\ LiveRefund(d, a)
    BY <1>4, <2>1
  <2> QED
    BY <1>4, <2>2 DEF SerialInv
<1>5. \A c, d \in Ids, a \in Ids \cup {0} : LiveRefund(c, a)' /\ LiveRefund(d, a)' => c = d
  BY <1>4
<1> QED
  BY <1>1, <1>3, <1>5 DEF SerialInv

(* While the screens ask one thing at a time, every step of the cloud keeps a
   charge to one refund that may be made. *)
LEMMA SerialKept ==
    ASSUME IInv, SerialInv, Next, "full" \notin Operations, \A v, w \in ApiWorkers : v = w
    PROVE  SerialInv'
<1>0. TypeOK /\ Effect
  BY EffectNext DEF IInv
<1>1. ASSUME NEW w \in ApiWorkers, ApiRequest(w)
      PROVE  SerialInv'
  <2>1. w \in Workers /\ Others(w)
    BY <1>1, ApiRequestStep DEF StepOf, Workers
  <2> QED
    BY <1>0, <1>1, <2>1, ReadOnward, OnwardKeeps DEF SerialInv
<1>2. ASSUME NEW w \in AckWorkers, NEW c \in Ids, NEW r \in Results, AckFinalize(w, c, r)
      PROVE  SerialInv'
  <2>1. w \in Workers /\ Others(w)
    BY <1>2, AckFinalizeStep DEF StepOf, Workers
  <2> QED
    BY <1>0, <1>2, <2>1, AckOnward, OnwardKeeps DEF SerialInv
<1>3. ASSUME NEW w \in Workers, RequestStep(w) \/ Respond(w) \/ Abort(w)
      PROVE  SerialInv'
  <2>1. Others(w) /\ Path(w) /\ \A p \in Payments : ~payment[p].full
    BY <1>3, RequestSteps DEF StepOf, SerialInv
  <2>2. Onward(w)
    BY <1>0, <1>3, <2>1, ServiceOnward
  <2>3. \A p \in Payments : ~payment'[p].full
    BY <1>0, <1>3, <2>1, NeverFull
  <2>4. \A a \in Ids : attempt[a].type = "NONE" /\ attempt'[a].type # "NONE" => Adds(w, a)
    BY <1>3, <2>1, RequestAdds
  <2> QED
    BY <1>0, <2>1, <2>2, <2>3, <2>4, OnwardKeeps
<1>4. ASSUME NEW c \in Ids, Queue(c)
      PROVE  SerialInv'
  <2>1. UNCHANGED <<payment, attempt, req>>
    BY <1>4 DEF IInv, HoldInv, RowHold, Live, Queue, Claim, Requeue, Expire
  <2> QED
    BY <2>1 DEF SerialInv, Path, LiveRefund
<1> QED
  BY <1>1, <1>2, <1>3, <1>4 DEF Next

(* A refund that was made is live in the ledger, when no OSError follows it. *)
LEMMA MadeRefundLives ==
    ASSUME SysInv, ~LateDisconnect, NEW d \in Ids, attempt[d].type = "CANCEL", card[d] = "made"
    PROVE  attempt[d].status \in {"PROCESSING", "UNKNOWN", "CANCELLED"}
<1>1. order[d].type # "NONE" /\ Ordered(d) /\ Told(d) /\ BP!History(d)
  BY DEF SysInv, RowInv, BP!HistoryInv, BP!BaseInv, BP!CardInv
<1>2. result[d] \in BP!BridgeResults
  BY DEF SysInv, BP!BaseInv, BP!BridgeTypeOK
<1>3. SUFFICES ASSUME attempt[d].status # "PROCESSING"
               PROVE  attempt[d].status \in {"UNKNOWN", "CANCELLED"}
  OBVIOUS
<1>4. BP!Stands(d, result[d]) /\ Shows(d)
  BY <1>1, <1>3 DEF Ordered, Told, BP!History
<1>5. order[d].type = "CANCEL"
  BY <1>1, SameOrder
<1>6. result[d] \in {"CANCELLED", "UNKNOWN", "EXCEPTION"}
  BY <1>2, <1>4, <1>5 DEF BP!Stands, BP!BridgeResults
<1> QED
  BY <1>4, <1>6 DEF Shows, AppliedStatus

(* The ledger books only money that moved, for any number of payments, plans,
   ACK requests, restarts and lost messages, while the screens ask one thing at
   a time, nothing is cancelled as a whole and no OSError follows a charge: a
   refund shown as made is the very one that was made, because a charge never
   has two that may be. *)
THEOREM LedgerReal ==
    ASSUME Results = AllResults, ~LateDisconnect,
           "full" \notin Operations, \A v, w \in ApiWorkers : v = w
    PROVE  SystemSpec => []LedgerIsReal
<1>1. SystemInit => SerialInv
  BY DEF SystemInit, Init, SerialInv, Path, LiveRefund, NoRow, Idle
<1>2. SysInv /\ SerialInv /\ [SystemNext]_systemVars => SerialInv'
  <2>1. SysInv /\ SerialInv /\ SystemNext => SerialInv'
    <3>1. ASSUME UNCHANGED vars, SerialInv
          PROVE  SerialInv'
      BY <3>1 DEF vars, SerialInv, Path, LiveRefund
    <3> QED
      BY <3>1, CloudStep, SerialKept DEF SysInv
  <2>2. SerialInv /\ UNCHANGED systemVars => SerialInv'
    BY DEF systemVars, cloud, vars, SerialInv, Path, LiveRefund
  <2> QED
    BY <2>1, <2>2
<1>3. ASSUME SysInv, SerialInv, ChargesReal, RefundsReal,
             NEW a \in Ids, attempt[a].method = "card", attempt[a].status \in {"APPROVED", "CANCELLED"}
      PROVE  card[a] = "made"
  <2>1. CASE attempt[a].status = "APPROVED"
    BY <1>3, <2>1 DEF ChargesReal
  <2>2. CASE attempt[a].status = "CANCELLED"
    <3>1. attempt[a].type = "CANCEL"
      <4>1. Unqueued(a) /\ Told(a) /\ attempt[a].type \in {"NONE", "PAY", "CANCEL"} /\ RowHold(a)
        BY <1>3 DEF SysInv, RowInv, IInv, HoldInv, TypeOK, AttemptRows
      <4> QED
        BY <2>2, <4>1 DEF Unqueued, Told, Shows, AppliedStatus, RowHold
    <3>2. PICK d \in Ids : attempt[d].type = "CANCEL" /\ attempt[d].orig = attempt[a].orig /\ card[d] = "made"
      BY <1>3, <2>2, <3>1 DEF RefundsReal
    <3>3. attempt[d].status \in {"PROCESSING", "UNKNOWN", "CANCELLED"}
      BY <1>3, <3>2, MadeRefundLives
    <3>4. attempt[a].orig \in Ids \cup {0}
      BY <1>3 DEF SysInv, RowInv
    <3>5. LiveRefund(a, attempt[a].orig) /\ LiveRefund(d, attempt[a].orig)
      BY <2>2, <3>1, <3>2, <3>3 DEF LiveRefund
    <3> QED
      BY <1>3, <3>2, <3>4, <3>5 DEF SerialInv
  <2> QED
    BY <1>3, <2>1, <2>2
<1>4. SysInv /\ SerialInv /\ ChargesReal /\ RefundsReal => LedgerIsReal
  BY <1>3 DEF LedgerIsReal
<1> QED
  BY <1>1, <1>2, <1>4, SystemInvariant, ChargesAreReal, RefundsAreReal, PTL DEF SystemSpec

=============================================================================
